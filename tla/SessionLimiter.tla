---------------------------- MODULE SessionLimiter ----------------------------
(***************************************************************************)
(* The Connection of gitlab-sshd (newConnection / conn.handle, called at  *)
(* internal/sshd/sshd.go:227-237; connection.go is not part of the        *)
(* sources, so this module follows the design, sections 4.2, 4.4 and 9):  *)
(* the intake loop over the transport's channel-open requests, the        *)
(* non-blocking acquisition of a slot of the session semaphore, one       *)
(* handler goroutine per admitted channel that releases its slot on every *)
(* exit path, and the wait for those handlers once the transport closes.  *)
(* Every connection has its own Connection, so the state is a function of *)
(* the connection; SshdSystem runs one per connection the server serves.  *)
(***************************************************************************)
EXTENDS Integers, Sequences, FiniteSets

CONSTANTS
    Conns,     \* connections, each with its own Connection (model values)
    Channels,  \* channel-open requests a client may send (model values)
    Limits     \* values of Config.Server.ConcurrentSessionsLimit considered

VARIABLES
    limit,      \* the configured limit (<= 0: unbounded), fixed at start-up
                \* the others are functions of the connection:
    queue,      \* requests delivered on `chans`, not yet read by the loop
    sess,       \* sess[c][ch]: where channel ch of connection c is
    acquired,   \* units of the connection's session semaphore held
    transport,  \* "open" or "closed"
    loopPc      \* program counter of conn.handle

vars == <<limit, queue, sess, acquired, transport, loopPc>>

Bounded == limit > 0

\* Admitted channels of connection c whose session handler still runs.
Running(c) == {ch \in Channels : sess[c][ch] = "running"}

Init ==
    /\ limit \in Limits
    /\ queue = [c \in Conns |-> <<>>]
    /\ sess = [c \in Conns |-> [ch \in Channels |-> "none"]]
    /\ acquired = [c \in Conns |-> 0]
    /\ transport = [c \in Conns |-> "open"]
    /\ loopPc = [c \in Conns |-> "intake"]

\* The client opens channel ch; the transport delivers it on `chans`.
OpenChannel(c, ch) ==
    /\ transport[c] = "open"
    /\ sess[c][ch] = "none"
    /\ queue' = [queue EXCEPT ![c] = Append(@, ch)]
    /\ sess' = [sess EXCEPT ![c][ch] = "queued"]
    /\ UNCHANGED <<limit, acquired, transport, loopPc>>

\* The loop takes the next request of `chans` and decides it as outcome.
Decide(c, outcome) ==
    /\ sess' = [sess EXCEPT ![c][Head(queue[c])] = outcome]
    /\ queue' = [queue EXCEPT ![c] = Tail(@)]

\* Mutant: a limit <= 0 is handed to the semaphore as its size, so
\* TryAcquire always fails.
IntakeUnboundedUsesSemaphore(c) ==
    /\ loopPc[c] = "intake"
    /\ queue[c] # <<>>
    /\ ~Bounded
    /\ Decide(c, "rejected")
    /\ UNCHANGED <<limit, acquired, transport, loopPc>>

\* The loop reads the next request; with no limit configured it is
\* admitted unconditionally and a handler goroutine is spawned.
IntakeUnbounded(c) ==
    /\ loopPc[c] = "intake"
    /\ queue[c] # <<>>
    /\ ~Bounded
    /\ Decide(c, "running")
    /\ UNCHANGED <<limit, acquired, transport, loopPc>>

\* Mutant: off by one in the capacity test.
IntakeAdmitOffByOne(c) ==
    /\ loopPc[c] = "intake"
    /\ queue[c] # <<>>
    /\ Bounded
    /\ acquired[c] <= limit
    /\ acquired' = [acquired EXCEPT ![c] = @ + 1]
    /\ Decide(c, "running")
    /\ UNCHANGED <<limit, transport, loopPc>>

\* TryAcquire(1) succeeds: the request is admitted.
IntakeAdmit(c) ==
    /\ loopPc[c] = "intake"
    /\ queue[c] # <<>>
    /\ Bounded
    /\ acquired[c] < limit
    /\ acquired' = [acquired EXCEPT ![c] = @ + 1]
    /\ Decide(c, "running")
    /\ UNCHANGED <<limit, transport, loopPc>>

\* Mutant: a blocking Acquire(1) in place of TryAcquire(1): at the limit
\* the loop waits for a slot instead of rejecting the request.
IntakeRejectBlocks(c) == IntakeAdmit(c)

\* TryAcquire(1) fails: the request is rejected at once (resource
\* shortage), not queued.
IntakeReject(c) ==
    /\ loopPc[c] = "intake"
    /\ queue[c] # <<>>
    /\ Bounded
    /\ acquired[c] >= limit
    /\ Decide(c, "rejected")
    /\ UNCHANGED <<limit, acquired, transport, loopPc>>

\* The units a finishing handler gives back.
Released == IF Bounded THEN 1 ELSE 0

\* A session handler of channel ch ends, giving back n units.
EndSession(c, ch, n) ==
    /\ sess[c][ch] = "running"
    /\ sess' = [sess EXCEPT ![c][ch] = "done"]
    /\ acquired' = [acquired EXCEPT ![c] = @ - n]
    /\ UNCHANGED <<limit, queue, transport, loopPc>>

\* Mutant: Release(1) both in the handler and in its defer.
SessionReturnDoubleRelease(c, ch) == EndSession(c, ch, 2 * Released)

\* Mutant: Release(1) also when no unit was acquired (no limit).
SessionReturnAlwaysRelease(c, ch) == EndSession(c, ch, 1)

\* The session handler returns (its one request serviced, or the channel
\* closed): the channel is closed and the deferred Release(1) runs.
SessionReturn(c, ch) == EndSession(c, ch, Released)

\* Mutant: Release(1) is not deferred, so a panic skips it.
SessionPanicNoRelease(c, ch) == EndSession(c, ch, 0)

\* The session handler panics; the panic is recovered in its goroutine and
\* the deferred Release(1) still runs.
SessionPanic(c, ch) == EndSession(c, ch, Released)

\* The client (or the network) closes the transport.
TransportClose(c) ==
    /\ transport[c] = "open"
    /\ transport' = [transport EXCEPT ![c] = "closed"]
    /\ UNCHANGED <<limit, queue, sess, acquired, loopPc>>

\* Mutant: the loop ends when the transport closes, leaving delivered
\* requests unread.
IntakeEndIgnoresQueue(c) ==
    /\ loopPc[c] = "intake"
    /\ transport[c] = "closed"
    /\ loopPc' = [loopPc EXCEPT ![c] = "wait"]
    /\ UNCHANGED <<limit, queue, sess, acquired, transport>>

\* `chans` is closed and drained: the intake loop ends.
IntakeEnd(c) ==
    /\ loopPc[c] = "intake"
    /\ transport[c] = "closed"
    /\ queue[c] = <<>>
    /\ loopPc' = [loopPc EXCEPT ![c] = "wait"]
    /\ UNCHANGED <<limit, queue, sess, acquired, transport>>

\* Mutant: the wait group is incremented for every request read, but only
\* admitted sessions call Done, so a rejected request is waited for forever.
WaitSessionsCountsRejected(c) ==
    /\ loopPc[c] = "wait"
    /\ \A ch \in Channels : sess[c][ch] \in {"none", "done"}
    /\ loopPc' = [loopPc EXCEPT ![c] = "returned"]
    /\ UNCHANGED <<limit, queue, sess, acquired, transport>>

\* conn.handle returns once every spawned session handler has returned.
WaitSessions(c) ==
    /\ loopPc[c] = "wait"
    /\ Running(c) = {}
    /\ loopPc' = [loopPc EXCEPT ![c] = "returned"]
    /\ UNCHANGED <<limit, queue, sess, acquired, transport>>

\* The steps of connection c's Connection.
ConnNext(c) ==
    \/ IntakeUnbounded(c) \/ IntakeAdmit(c) \/ IntakeReject(c)
    \/ TransportClose(c) \/ IntakeEnd(c) \/ WaitSessions(c)
    \/ \E ch \in Channels : OpenChannel(c, ch) \/ SessionReturn(c, ch) \/ SessionPanic(c, ch)

Next == \E c \in Conns : ConnNext(c)

(***************************************************************************)
(* The loop and the wait are the code's own steps and are fair.  How long *)
(* a session runs is up to its command and its client, so its return is  *)
(* not fair here (SshdSystem assumes it); neither are opening channels,   *)
(* closing the transport and panics, which are the environment's.         *)
(***************************************************************************)
ConnFairness(c) ==
    /\ WF_vars(IntakeUnbounded(c) \/ IntakeAdmit(c) \/ IntakeReject(c))
    /\ WF_vars(IntakeEnd(c))
    /\ WF_vars(WaitSessions(c))

Spec == Init /\ [][Next]_vars /\ \A c \in Conns : ConnFairness(c)

-----------------------------------------------------------------------------
TypeOK ==
    /\ limit \in Limits
    /\ queue \in [Conns -> Seq(Channels)]
    /\ sess \in [Conns -> [Channels -> {"none", "queued", "rejected", "running", "done"}]]
    /\ acquired \in [Conns -> 0..Cardinality(Channels)]
    /\ transport \in [Conns -> {"open", "closed"}]
    /\ loopPc \in [Conns -> {"intake", "wait", "returned"}]

\* Every exit of a session handler, a recovered panic included, gives its
\* slot back: with a limit, each connection's semaphore count is always
\* the number of its running sessions, so no slot leaks over any sequence
\* of sessions.
SlotsMatchSessions ==
    Bounded => \A c \in Conns : acquired[c] = Cardinality(Running(c))

\* The Connections implement SessionAdmission: at most limit sessions of
\* a connection at a time, and a request is rejected only when limit of
\* them are running.
Admission == INSTANCE SessionAdmission WITH
    requested <- [c \in Conns |-> {ch \in Channels : sess[c][ch] = "queued"}],
    active    <- [c \in Conns |-> Running(c)],
    finished  <- [c \in Conns |-> {ch \in Channels : sess[c][ch] \in {"rejected", "done"}}]
AdmissionRefined == Admission!Spec

\* Every channel-open request the transport delivered is eventually
\* admitted or rejected, also when the transport closes meanwhile, and
\* even when no running session ever ends: a request that meets a full
\* semaphore is rejected at once, never left waiting for a slot.
EveryRequestDecided ==
    \A c \in Conns, ch \in Channels :
        (sess[c][ch] = "queued") ~> (sess[c][ch] \in {"rejected", "running", "done"})
=============================================================================
