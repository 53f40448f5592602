------------------------------ MODULE SshdSystem ------------------------------
(***************************************************************************)
(* gitlab-sshd as a whole: the Server of SshdServer with, for every        *)
(* connection it serves, the Connection of SessionLimiter.  handleConn    *)
(* (internal/sshd/sshd.go:203-238) runs conn.handle once the handshake    *)
(* succeeded and returns, running its deferred s.wg.Done(), only when     *)
(* conn.handle has returned, that is when the client's transport closed   *)
(* and every session handler of the connection returned.  Shutdown closes *)
(* the listener only: connections already served go on until their       *)
(* clients end them.                                                       *)
(***************************************************************************)
EXTENDS Naturals, FiniteSets

CONSTANTS Conns, Channels, Limits, MaxAcceptErrors, MaxShutdownCalls, ShutdownAfterReady

VARIABLES
    status, listener, listenerCloses, wg, mainPc, acceptErrs, sdPc, sdCalls, conn,
    limit, queue, sess, acquired, transport, loopPc

S == INSTANCE SshdServer
L == INSTANCE SessionLimiter

serverVars == <<status, listener, listenerCloses, wg, mainPc, acceptErrs, sdPc, sdCalls, conn>>
connVars   == <<limit, queue, sess, acquired, transport, loopPc>>
vars == <<serverVars, connVars>>

Init == S!Init /\ L!Init

\* A step of the ListenAndServe or Shutdown goroutines, or of a client
\* connecting or handshaking; the Connections are left alone.
ServerStep(A) == A /\ UNCHANGED connVars

\* A step of connection c's Connection, possible only while handleConn
\* is inside conn.handle (after a successful handshake).
ConnStep(c, A) == conn[c] = "serving" /\ A /\ UNCHANGED serverVars

\* Mutant: handleConn returns (and calls s.wg.Done) without waiting for
\* conn.handle.
ConnFinishBeforeHandle(c) ==
    /\ S!ConnFinish(c)
    /\ UNCHANGED connVars

\* conn.handle(ctx, chans, ...) returns; then handleConn returns and its
\* deferred cancel, nconn.Close and s.wg.Done run.
ConnFinish(c) ==
    /\ S!ConnFinish(c)
    /\ loopPc[c] = "returned"
    /\ UNCHANGED connVars

\* A panic in handleConn's own goroutine is possible while the handshake
\* runs the public-key callback there; once serving, handleConn only
\* waits in conn.handle, whose session handlers recover their own panics.
ConnPanic(c) ==
    /\ conn[c] = "handshake"
    /\ S!ConnPanic(c)
    /\ UNCHANGED connVars

Next ==
    \/ ServerStep(S!Listen \/ S!ListenFail \/ S!ServeReady)
    \/ \E c \in Conns : ServerStep(S!Accept(c))
    \/ ServerStep(S!AcceptClosedError \/ S!AcceptTransientError \/ S!CheckStatus)
    \/ ServerStep(S!WaitDrained \/ S!SetClosed \/ S!DeferClose)
    \/ ServerStep(S!ShutdownCall \/ S!ShutdownCheck \/ S!ShutdownSetStatus \/ S!ShutdownClose)
    \/ \E c \in Conns : ServerStep(S!Arrive(c) \/ S!HandshakeOk(c) \/ S!HandshakeFail(c))
    \/ \E c \in Conns : ConnFinish(c) \/ ConnPanic(c)
    \/ \E c \in Conns : ConnStep(c, L!ConnNext(c))

(***************************************************************************)
(* The server's fairness (SshdServer) and each Connection's (SessionLimiter) *)
(* for the steps the code takes on its own; as in SshdServer, a client is  *)
(* assumed to end its connection eventually, here by closing its          *)
(* transport.                                                              *)
(***************************************************************************)
Fairness ==
    /\ WF_vars(ServerStep(S!Listen \/ S!ListenFail))
    /\ WF_vars(ServerStep(S!ServeReady))
    /\ \A c \in Conns : WF_vars(ServerStep(S!Accept(c)))
    /\ WF_vars(ServerStep(S!AcceptClosedError))
    /\ WF_vars(ServerStep(S!CheckStatus))
    /\ WF_vars(ServerStep(S!WaitDrained))
    /\ WF_vars(ServerStep(S!SetClosed))
    /\ WF_vars(ServerStep(S!DeferClose))
    /\ WF_vars(ServerStep(S!ShutdownCheck))
    /\ WF_vars(ServerStep(S!ShutdownSetStatus))
    /\ WF_vars(ServerStep(S!ShutdownClose))
    /\ \A c \in Conns : WF_vars(ServerStep(S!HandshakeOk(c) \/ S!HandshakeFail(c)))
    /\ \A c \in Conns : WF_vars(ConnFinish(c))
    /\ \A c \in Conns :
        /\ WF_vars(ConnStep(c, L!IntakeUnbounded(c) \/ L!IntakeAdmit(c) \/ L!IntakeReject(c)))
        /\ WF_vars(ConnStep(c, L!IntakeEnd(c)))
        /\ WF_vars(ConnStep(c, L!WaitSessions(c)))
        /\ WF_vars(ConnStep(c, L!TransportClose(c)))
        /\ \A ch \in Channels : WF_vars(ConnStep(c, L!SessionReturn(c, ch)))

Spec == Init /\ [][Next]_vars /\ Fairness

-----------------------------------------------------------------------------
\* Graceful shutdown drains connections and their sessions: once the
\* status is Closed, whatever the order of Shutdown (at any time, before Ready too),
\* Accept, handshakes, channel requests and returns, no handleConn is
\* running, the WaitGroup is empty, no session handler of any connection
\* is still running and every connection's semaphore is back to zero.
SessionsDrainBeforeClose ==
    status = "Closed" =>
        /\ S!DrainBeforeClose
        /\ \A c \in Conns : L!Running(c) = {} /\ acquired[c] = 0

\* With the Connections inside, the server still implements SshdServer,
\* its fairness included: once its transport closes, every connection's
\* handleConn returns, whatever sessions it spawned.
ServerRefined == S!Spec
=============================================================================
