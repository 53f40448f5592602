--------------------------- MODULE ServerLifecycle ---------------------------
(***************************************************************************)
(* Abstract specification of the sshd Server status machine as the design *)
(* states it: a single server instance moves through                       *)
(*     Starting -> Ready -> OnShutdown -> Closed                          *)
(* one value at a time, never skipping and never going back.  SshdServer  *)
(* is checked against this specification through a refinement mapping.    *)
(***************************************************************************)
EXTENDS Naturals

VARIABLE status

Statuses == <<"Starting", "Ready", "OnShutdown", "Closed">>

\* Position of a status in the lifecycle order.
Rank(st) == CHOOSE i \in 1..4 : Statuses[i] = st

Init == status = "Starting"

\* One step forward; Closed is final.
Advance ==
    /\ status # "Closed"
    /\ status' = Statuses[Rank(status) + 1]

Spec == Init /\ [][Advance]_status
=============================================================================
