----------------------------- MODULE SshdServer -----------------------------
(***************************************************************************)
(* The gitlab-sshd Server of internal/sshd/sshd.go: the status machine    *)
(* guarded by statusMu, the listener, the accept loop of serve(), the      *)
(* WaitGroup of in-flight connection handlers, Shutdown() called from     *)
(* another goroutine, and one handleConn goroutine per accepted           *)
(* connection.  What a connection does between its handshake and its end  *)
(* is abstracted to "serving" here; SessionLimiter models it.             *)
(*                                                                         *)
(* Goroutines and their atomic steps:                                      *)
(*   main      ListenAndServe: listen, serve (Ready, accept loop, Wait,   *)
(*             Closed), deferred listener.Close                           *)
(*   shutdown  Shutdown(): nil check of s.listener, changeStatus, Close   *)
(*   c \in Conns  a client connecting, then handleConn for it             *)
(***************************************************************************)
EXTENDS Naturals, FiniteSets

CONSTANTS
    Conns,               \* client connections that may arrive (model values)
    MaxAcceptErrors,     \* bound on transient Accept errors (not shutdown)
    MaxShutdownCalls,    \* bound on calls of Shutdown()
    ShutdownAfterReady   \* TRUE: Shutdown is only called once serve() has
                         \* set Ready (the caller synchronised on statusMu)

ASSUME MaxAcceptErrors \in Nat /\ MaxShutdownCalls \in Nat
ASSUME ShutdownAfterReady \in BOOLEAN

VARIABLES
    status,          \* s.status
    listener,        \* s.listener: "nil", "open" or "closed"
    listenerCloses,  \* number of listener.Close() calls made
    wg,              \* counter of s.wg
    mainPc,          \* program counter of the ListenAndServe goroutine
    acceptErrs,      \* transient Accept errors so far
    sdPc,            \* program counter of the Shutdown caller
    sdCalls,         \* Shutdown() calls started
    conn             \* conn[c]: where connection c is

vars == <<status, listener, listenerCloses, wg, mainPc, acceptErrs,
          sdPc, sdCalls, conn>>

ConnStates == {"absent", "pending", "refused", "handshake", "serving", "done"}

\* Connections whose handleConn goroutine is running.
Handlers == {c \in Conns : conn[c] \in {"handshake", "serving"}}

Init ==
    /\ status = "Starting"
    /\ listener = "nil"
    /\ listenerCloses = 0
    /\ wg = 0
    /\ mainPc = "listen"
    /\ acceptErrs = 0
    /\ sdPc = "idle"
    /\ sdCalls = 0
    /\ conn = [c \in Conns |-> "absent"]

\* listener.Close(): the socket is closed and the connections still in its
\* backlog are refused.  Closing a closed listener only returns an error.
CloseListener ==
    /\ listener' = IF listener = "nil" THEN "nil" ELSE "closed"
    /\ listenerCloses' = listenerCloses + 1
    /\ conn' = [c \in Conns |-> IF conn[c] = "pending" THEN "refused" ELSE conn[c]]

-----------------------------------------------------------------------------
(* The ListenAndServe goroutine.                                           *)

\* listen(): net.Listen succeeds (wrapped for proxy protocol if configured)
\* and s.listener is assigned.
Listen ==
    /\ mainPc = "listen"
    /\ listener' = "open"
    /\ mainPc' = "serve"
    /\ UNCHANGED <<status, listenerCloses, wg, acceptErrs, sdPc, sdCalls, conn>>

\* listen() fails: ListenAndServe returns the error, s.listener stays nil.
ListenFail ==
    /\ mainPc = "listen"
    /\ mainPc' = "failed"
    /\ UNCHANGED <<status, listener, listenerCloses, wg, acceptErrs, sdPc, sdCalls, conn>>

\* serve(): s.changeStatus(StatusReady) before the loop.
ServeReady ==
    /\ mainPc = "serve"
    /\ status' = "Ready"
    /\ mainPc' = "accept"
    /\ UNCHANGED <<listener, listenerCloses, wg, acceptErrs, sdPc, sdCalls, conn>>

\* Accept returns connection c: s.wg.Add(1) and go s.handleConn(ctx, c).
Accept(c) ==
    /\ mainPc = "accept"
    /\ listener = "open"
    /\ conn[c] = "pending"
    /\ conn' = [conn EXCEPT ![c] = "handshake"]
    /\ wg' = wg + 1
    /\ UNCHANGED <<status, listener, listenerCloses, mainPc, acceptErrs, sdPc, sdCalls>>

\* Accept on a closed listener returns an error at once.
AcceptClosedError ==
    /\ mainPc = "accept"
    /\ listener = "closed"
    /\ mainPc' = "checkStatus"
    /\ UNCHANGED <<status, listener, listenerCloses, wg, acceptErrs, sdPc, sdCalls, conn>>

\* Accept fails transiently on an open listener (e.g. too many open files).
AcceptTransientError ==
    /\ mainPc = "accept"
    /\ listener = "open"
    /\ acceptErrs < MaxAcceptErrors
    /\ acceptErrs' = acceptErrs + 1
    /\ mainPc' = "checkStatus"
    /\ UNCHANGED <<status, listener, listenerCloses, wg, sdPc, sdCalls, conn>>

\* Mutant: the loop breaks on every Accept error, shutdown or not.
CheckStatusBreakOnAnyError ==
    /\ mainPc = "checkStatus"
    /\ mainPc' = "wait"
    /\ UNCHANGED <<status, listener, listenerCloses, wg, acceptErrs, sdPc, sdCalls, conn>>

\* After an Accept error: break if getStatus() == StatusOnShutdown,
\* otherwise log and continue accepting.
CheckStatus ==
    /\ mainPc = "checkStatus"
    /\ mainPc' = IF status = "OnShutdown" THEN "wait" ELSE "accept"
    /\ UNCHANGED <<status, listener, listenerCloses, wg, acceptErrs, sdPc, sdCalls, conn>>

\* Mutant: serve() does not wait for the handlers.
WaitDrainedNoWait ==
    /\ mainPc = "wait"
    /\ mainPc' = "setClosed"
    /\ UNCHANGED <<status, listener, listenerCloses, wg, acceptErrs, sdPc, sdCalls, conn>>

\* s.wg.Wait() returns once every handleConn has called s.wg.Done().
WaitDrained ==
    /\ mainPc = "wait"
    /\ wg = 0
    /\ mainPc' = "setClosed"
    /\ UNCHANGED <<status, listener, listenerCloses, wg, acceptErrs, sdPc, sdCalls, conn>>

\* s.changeStatus(StatusClosed), the last statement of serve().
SetClosed ==
    /\ mainPc = "setClosed"
    /\ status' = "Closed"
    /\ mainPc' = "deferClose"
    /\ UNCHANGED <<listener, listenerCloses, wg, acceptErrs, sdPc, sdCalls, conn>>

\* The deferred s.listener.Close() of ListenAndServe; it then returns nil.
DeferClose ==
    /\ mainPc = "deferClose"
    /\ CloseListener
    /\ mainPc' = "returned"
    /\ UNCHANGED <<status, wg, acceptErrs, sdPc, sdCalls>>

-----------------------------------------------------------------------------
(* The goroutine that calls Shutdown().                                   *)

\* A call of Shutdown() starts.
ShutdownCall ==
    /\ sdPc = "idle"
    /\ sdCalls < MaxShutdownCalls
    /\ ShutdownAfterReady => status # "Starting"
    /\ sdCalls' = sdCalls + 1
    /\ sdPc' = "check"
    /\ UNCHANGED <<status, listener, listenerCloses, wg, mainPc, acceptErrs, conn>>

\* Mutant: Shutdown closes the listener without changeStatus(OnShutdown).
ShutdownCheckNoStatus ==
    /\ sdPc = "check"
    /\ sdPc' = IF listener = "nil" THEN "idle" ELSE "close"
    /\ UNCHANGED <<status, listener, listenerCloses, wg, mainPc, acceptErrs, sdCalls, conn>>

\* if s.listener == nil { return nil }, else go on to changeStatus.
ShutdownCheck ==
    /\ sdPc = "check"
    /\ sdPc' = IF listener = "nil" THEN "idle" ELSE "setStatus"
    /\ UNCHANGED <<status, listener, listenerCloses, wg, mainPc, acceptErrs, sdCalls, conn>>

\* Mutant: Shutdown sets StatusClosed instead of StatusOnShutdown.
ShutdownSetStatusClosed ==
    /\ sdPc = "setStatus"
    /\ status' = "Closed"
    /\ sdPc' = "close"
    /\ UNCHANGED <<listener, listenerCloses, wg, mainPc, acceptErrs, sdCalls, conn>>

\* s.changeStatus(StatusOnShutdown).
ShutdownSetStatus ==
    /\ sdPc = "setStatus"
    /\ status' = "OnShutdown"
    /\ sdPc' = "close"
    /\ UNCHANGED <<listener, listenerCloses, wg, mainPc, acceptErrs, sdCalls, conn>>

\* return s.listener.Close().
ShutdownClose ==
    /\ sdPc = "close"
    /\ CloseListener
    /\ sdPc' = "idle"
    /\ UNCHANGED <<status, wg, mainPc, acceptErrs, sdCalls>>

-----------------------------------------------------------------------------
(* Clients and the handleConn goroutines.                                  *)

\* Client c connects; it waits in the listener's backlog.
Arrive(c) ==
    /\ conn[c] = "absent"
    /\ listener = "open"
    /\ conn' = [conn EXCEPT ![c] = "pending"]
    /\ UNCHANGED <<status, listener, listenerCloses, wg, mainPc, acceptErrs, sdPc, sdCalls>>

\* ssh.NewServerConn succeeds: the public-key callback accepted a key.
HandshakeOk(c) ==
    /\ conn[c] = "handshake"
    /\ conn' = [conn EXCEPT ![c] = "serving"]
    /\ UNCHANGED <<status, listener, listenerCloses, wg, mainPc, acceptErrs, sdPc, sdCalls>>

\* Mutant: an explicit s.wg.Done() on the error path besides the deferred one.
HandshakeFailDoubleDone(c) ==
    /\ conn[c] = "handshake"
    /\ conn' = [conn EXCEPT ![c] = "done"]
    /\ wg' = wg - 2
    /\ UNCHANGED <<status, listener, listenerCloses, mainPc, acceptErrs, sdPc, sdCalls>>

\* ssh.NewServerConn fails: handleConn returns; its defers close nconn
\* and call s.wg.Done().
HandshakeFail(c) ==
    /\ conn[c] = "handshake"
    /\ conn' = [conn EXCEPT ![c] = "done"]
    /\ wg' = wg - 1
    /\ UNCHANGED <<status, listener, listenerCloses, mainPc, acceptErrs, sdPc, sdCalls>>

\* conn.handle returns when the transport's channel stream ends; the
\* deferred cancel, nconn.Close and s.wg.Done run.
ConnFinish(c) ==
    /\ conn[c] = "serving"
    /\ conn' = [conn EXCEPT ![c] = "done"]
    /\ wg' = wg - 1
    /\ UNCHANGED <<status, listener, listenerCloses, mainPc, acceptErrs, sdPc, sdCalls>>

\* Mutant: s.wg.Done() is called at the end of handleConn, not deferred,
\* so a panic skips it.
ConnPanicNoDone(c) ==
    /\ conn[c] \in {"handshake", "serving"}
    /\ conn' = [conn EXCEPT ![c] = "done"]
    /\ UNCHANGED <<wg, status, listener, listenerCloses, mainPc, acceptErrs, sdPc, sdCalls>>

\* Mutant: handleConn has no deferred recover(); the panic ends the
\* process and with it the accept loop.
ConnPanicUnrecovered(c) ==
    /\ conn[c] \in {"handshake", "serving"}
    /\ conn' = [conn EXCEPT ![c] = "done"]
    /\ mainPc' = "crashed"
    /\ UNCHANGED <<wg, status, listener, listenerCloses, acceptErrs, sdPc, sdCalls>>

\* A panic in handleConn's goroutine, during the handshake or while serving:
\* the deferred recover() logs it, the other defers still close nconn and
\* call s.wg.Done(); the server goes on.
ConnPanic(c) ==
    /\ conn[c] \in {"handshake", "serving"}
    /\ conn' = [conn EXCEPT ![c] = "done"]
    /\ wg' = wg - 1
    /\ UNCHANGED <<status, listener, listenerCloses, mainPc, acceptErrs, sdPc, sdCalls>>

-----------------------------------------------------------------------------
(* MonitoringServeMux.                                                     *)

\* The readiness probe answers 200 iff getStatus() == StatusReady (503
\* otherwise); the liveness probe always answers 200.
ReadinessOK == status = "Ready"

-----------------------------------------------------------------------------
Next ==
    \/ Listen \/ ListenFail \/ ServeReady
    \/ \E c \in Conns : Accept(c)
    \/ AcceptClosedError \/ AcceptTransientError \/ CheckStatus
    \/ WaitDrained \/ SetClosed \/ DeferClose
    \/ ShutdownCall \/ ShutdownCheck \/ ShutdownSetStatus \/ ShutdownClose
    \/ \E c \in Conns : Arrive(c) \/ HandshakeOk(c) \/ HandshakeFail(c)
                        \/ ConnFinish(c) \/ ConnPanic(c)

(***************************************************************************)
(* Fairness.  The two server goroutines are fair in every step the code   *)
(* takes on its own; transient Accept errors, client arrivals, panics and *)
(* the decision to call Shutdown are the environment's and are not.  A    *)
(* client is assumed to finish its handshake and eventually end its       *)
(* connection: the code sets no deadline on either (see README).  Accept  *)
(* is fair per connection because the backlog is served in order.         *)
(***************************************************************************)
Fairness ==
    /\ WF_vars(Listen \/ ListenFail)
    /\ WF_vars(ServeReady)
    /\ \A c \in Conns : WF_vars(Accept(c))
    /\ WF_vars(AcceptClosedError)
    /\ WF_vars(CheckStatus)
    /\ WF_vars(WaitDrained)
    /\ WF_vars(SetClosed)
    /\ WF_vars(DeferClose)
    /\ WF_vars(ShutdownCheck)
    /\ WF_vars(ShutdownSetStatus)
    /\ WF_vars(ShutdownClose)
    /\ \A c \in Conns : WF_vars(HandshakeOk(c) \/ HandshakeFail(c))
    /\ \A c \in Conns : WF_vars(ConnFinish(c))

Spec == Init /\ [][Next]_vars /\ Fairness

-----------------------------------------------------------------------------
TypeOK ==
    /\ status \in {"Starting", "Ready", "OnShutdown", "Closed"}
    /\ listener \in {"nil", "open", "closed"}
    /\ listenerCloses \in 0..(MaxShutdownCalls + 1)
    /\ wg \in 0..Cardinality(Conns)
    /\ mainPc \in {"listen", "failed", "serve", "accept", "checkStatus",
                   "wait", "setClosed", "deferClose", "returned"}
    /\ acceptErrs \in 0..MaxAcceptErrors
    /\ sdPc \in {"idle", "check", "setStatus", "close"}
    /\ sdCalls \in 0..MaxShutdownCalls
    /\ conn \in [Conns -> ConnStates]

\* Drain before close (serve): once the status is Closed no handleConn
\* goroutine is still running and the WaitGroup is empty, whatever the
\* order of Shutdown, Accept and the handlers' returns.
DrainBeforeClose ==
    status = "Closed" => Handlers = {} /\ wg = 0

\* The readiness probe answers 200 only while the accept loop is running on
\* an open listener: a Ready status never outlives the listener that
\* Shutdown closes, nor the loop in serve().
ReadyImpliesListening ==
    ReadinessOK => listener = "open" /\ mainPc \in {"accept", "checkStatus"}

\* The status machine implements ServerLifecycle: changeStatus is only ever
\* called to move Starting -> Ready -> OnShutdown -> Closed.
Lifecycle == INSTANCE ServerLifecycle
LifecycleRefined == Lifecycle!Spec

\* The status never moves backward (the design's invariant on s.status).
StatusNeverRegresses ==
    [][Lifecycle!Rank(status) <= Lifecycle!Rank(status')]_status

\* The listener is closed exactly once (the design's data model).
ListenerClosedOnce == listenerCloses <= 1

\* Graceful shutdown ends once the connections have: when Shutdown has set
\* OnShutdown and closed the listener and no handleConn goroutine is left
\* (each returned, failed its handshake or panicked), serve() leaves its
\* loop, its wg.Wait() returns and it sets Closed.  This needs no client
\* to finish anything; it fails if some exit path of handleConn skips its
\* wg.Done().  (Whether the connections end is up to the clients, and a
\* Shutdown during start-up is the race shutdown_race reports.)
ShutdownClosesOnceDrained ==
    (status = "OnShutdown" /\ listener = "closed" /\ Handlers = {})
        ~> (status = "Closed")

\* Panic isolation (design 4.2, 8): a connection that reaches the
\* listener's backlog is eventually either served to its end or refused
\* when the listener closes, whatever its siblings do meanwhile (panic,
\* failed handshake, transient Accept errors): no failure of one
\* connection stops the accept loop for the others.
EveryArrivalAnswered ==
    \A c \in Conns : (conn[c] = "pending") ~> (conn[c] \in {"done", "refused"})
=============================================================================
