--------------------------- MODULE MCSessionIdentity ---------------------------
(***************************************************************************)
(* One handshake and one command of its session.  The client claims "git" *)
(* (the configured user) or "root", and may present                        *)
(*   k1  its own key, authorized (id 11)                                   *)
(*   k2  somebody else's authorized key (id 12): it can query, not sign   *)
(*   k3  its own DSA key, authorized (id 13)                               *)
(*   k4  its own key, unknown to GitLab                                    *)
(* then verify one of two OTPs, or push.                                   *)
(***************************************************************************)
EXTENDS SessionIdentity, TLC

MCUsers == {"git", "root"}
MCKeys == {"k1", "k2", "k3", "k4"}
MCDSAKeys == {"k3"}
MCOwnedKeys == {"k1", "k3", "k4"}
MCAuthorizedId == ("k1" :> 11) @@ ("k2" :> 12) @@ ("k3" :> 13) @@ ("k4" :> NotFound)
\* Three failures, enough to fail on k4 after a cached success for k2.
MCMaxAuthTries == 3
=============================================================================
