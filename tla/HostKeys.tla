------------------------------- MODULE HostKeys -------------------------------
(***************************************************************************)
(* NewServer (internal/sshd/sshd.go:46-72): the authorized-keys client is *)
(* built first; then every file of cfg.Server.HostKeyFiles is read and     *)
(* parsed in order, a file that fails either step is logged with a         *)
(* warning and skipped, and the server is refused when no key is left.     *)
(* The loop is a pure function of the file list and of which files can be  *)
(* read and parsed; it is written as a RECURSIVE operator and checked      *)
(* against a reference built from SelectSeq, over every list of at most    *)
(* MaxFiles files and every state of the file system.                      *)
(***************************************************************************)
EXTENDS Naturals, Sequences, SequencesExt

CONSTANTS
    Files,     \* host key paths (model values)
    MaxFiles   \* longest HostKeyFiles list considered

VARIABLES
    hostKeyFiles,  \* cfg.Server.HostKeyFiles
    readable,      \* files os.ReadFile can read
    parseable,     \* readable files ssh.ParsePrivateKey accepts
    clientOk,      \* authorizedkeys.NewClient(cfg) succeeds
    result         \* NewServer's return: error kind, host keys, warnings

vars == <<hostKeyFiles, readable, parseable, clientOk, result>>

Pending == [err |-> "pending", hostKeys |-> <<>>, warned |-> <<>>]

Init ==
    /\ hostKeyFiles \in BoundedSeq(Files, MaxFiles)
    /\ readable \in SUBSET Files
    /\ parseable \in SUBSET readable
    /\ clientOk \in BOOLEAN
    /\ result = Pending

\* Mutant: a file that cannot be read ends the loop (break, not continue).
RECURSIVE LoadHostKeysBreak(_)
LoadHostKeysBreak(fs) ==
    IF fs = <<>> \/ Head(fs) \notin readable
    THEN [keys |-> <<>>, warned |-> IF fs = <<>> THEN <<>> ELSE <<Head(fs)>>]
    ELSE LET rest == LoadHostKeysBreak(Tail(fs))
         IN IF Head(fs) \in parseable
            THEN [rest EXCEPT !.keys = <<Head(fs)>> \o @]
            ELSE [rest EXCEPT !.warned = <<Head(fs)>> \o @]

\* The host key loop: the keys appended to hostKeys, and the files a
\* "Failed to read" or "Failed to parse" warning was logged for, in order.
RECURSIVE LoadHostKeys(_)
LoadHostKeys(fs) ==
    IF fs = <<>> THEN [keys |-> <<>>, warned |-> <<>>]
    ELSE LET f    == Head(fs)
             rest == LoadHostKeys(Tail(fs))
         IN IF f \in readable /\ f \in parseable
            THEN [rest EXCEPT !.keys = <<f>> \o @]
            ELSE [rest EXCEPT !.warned = <<f>> \o @]

\* Mutant: the host keys are loaded before the client is built.
NewServerKeysFirst ==
    /\ result = Pending
    /\ LET loaded == LoadHostKeys(hostKeyFiles)
       IN result' = CASE loaded.keys = <<>> -> [err |-> "no host keys", hostKeys |-> <<>>, warned |-> loaded.warned]
                      [] ~clientOk         -> [err |-> "client", hostKeys |-> <<>>, warned |-> loaded.warned]
                      [] OTHER             -> [err |-> "none", hostKeys |-> loaded.keys, warned |-> loaded.warned]
    /\ UNCHANGED <<hostKeyFiles, readable, parseable, clientOk>>

\* NewServer(cfg): a client error returns at once; otherwise the keys are
\* loaded and an empty set is "No host keys could be loaded, aborting".
NewServer ==
    /\ result = Pending
    /\ LET loaded == LoadHostKeys(hostKeyFiles)
       IN result' = CASE ~clientOk         -> [err |-> "client", hostKeys |-> <<>>, warned |-> <<>>]
                      [] loaded.keys = <<>> -> [err |-> "no host keys", hostKeys |-> <<>>, warned |-> loaded.warned]
                      [] OTHER             -> [err |-> "none", hostKeys |-> loaded.keys, warned |-> loaded.warned]
    /\ UNCHANGED <<hostKeyFiles, readable, parseable, clientOk>>

Next == NewServer

Spec == Init /\ [][Next]_vars

-----------------------------------------------------------------------------
Usable(f) == f \in parseable

\* NewServer's outcome is the one the configuration calls for: a client
\* failure is fatal before any host key file is touched; otherwise every
\* usable file, and only those, becomes a host key in the configured order,
\* every other file gets exactly one warning, and the server is refused
\* exactly when no configured file is usable.
HostKeysLoaded ==
    result # Pending =>
        IF ~clientOk
        THEN result.err = "client" /\ result.warned = <<>>
        ELSE /\ result.warned = SelectSeq(hostKeyFiles, LAMBDA f : ~Usable(f))
             /\ result.err = IF SelectSeq(hostKeyFiles, Usable) = <<>>
                             THEN "no host keys" ELSE "none"
             /\ result.hostKeys = IF result.err = "none"
                                  THEN SelectSeq(hostKeyFiles, Usable) ELSE <<>>
=============================================================================
