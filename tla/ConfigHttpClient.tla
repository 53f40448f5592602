--------------------------- MODULE ConfigHttpClient ---------------------------
(***************************************************************************)
(* Config.HttpClient (the config part of                                   *)
(* internal/gitlabnet/twofactorverify/client.go, lines 203-226): several  *)
(* goroutines ask one Config for its HTTP client at once.  Under           *)
(* httpClientOnce.Do the first of them builds the client                   *)
(* (NewHTTPClientWithOpts), wraps its transport with the Prometheus        *)
(* instrumentation, and publishes it in c.httpClient; a failure is stored  *)
(* in c.httpClientErr instead.  Every caller then returns the pair         *)
(* (c.httpClient, c.httpClientErr).                                        *)
(* sync.Once: callers that arrive while the function runs block on its     *)
(* mutex until it has returned; later callers return at once.              *)
(***************************************************************************)
EXTENDS Naturals, FiniteSets

CONSTANTS
    Callers   \* goroutines calling cfg.HttpClient() (model values)

VARIABLES
    once,           \* httpClientOnce: "idle", "running" or "done"
    pc,             \* pc[g]: where caller g is
    local,          \* local[g]: the client g's Do function built (0: none)
    built,          \* clients constructed so far (they are numbered 1, 2..)
    instrumented,   \* clients whose Transport has been wrapped
    httpClient,     \* c.httpClient: 0 for nil, else a client number
    httpClientErr,  \* c.httpClientErr: "nil" or "err"
    result          \* result[g]: what HttpClient() returned to g

vars == <<once, pc, local, built, instrumented, httpClient, httpClientErr, result>>

NoResult == [client |-> 0, err |-> "none"]

Init ==
    /\ once = "idle"
    /\ pc = [g \in Callers |-> "idle"]
    /\ local = [g \in Callers |-> 0]
    /\ built = 0
    /\ instrumented = {}
    /\ httpClient = 0
    /\ httpClientErr = "nil"
    /\ result = [g \in Callers |-> NoResult]

\* Mutant: a hand-made once that marks itself done before running the
\* function, so concurrent callers do not wait for it.
CallFlagFirst(g) ==
    /\ pc[g] = "idle"
    /\ once' = IF once = "idle" THEN "running" ELSE once
    /\ pc' = [pc EXCEPT ![g] = IF once = "idle" THEN "new" ELSE "return"]
    /\ UNCHANGED <<local, built, instrumented, httpClient, httpClientErr, result>>

\* Mutant: no Once; the client is built whenever none is published yet.
CallUnsynchronised(g) ==
    /\ pc[g] = "idle"
    /\ pc' = [pc EXCEPT ![g] =
                IF httpClient = 0 /\ httpClientErr = "nil" THEN "new" ELSE "return"]
    /\ UNCHANGED <<once, local, built, instrumented, httpClient, httpClientErr, result>>

\* httpClientOnce.Do: the first caller runs the function, callers that
\* come while it runs wait, callers that come after it return at once.
Call(g) ==
    /\ pc[g] = "idle"
    /\ once' = IF once = "idle" THEN "running" ELSE once
    /\ pc' = [pc EXCEPT ![g] = CASE once = "idle"    -> "new"
                                 [] once = "running" -> "wait"
                                 [] once = "done"    -> "return"]
    /\ UNCHANGED <<local, built, instrumented, httpClient, httpClientErr, result>>

\* A waiting caller gets the Once's mutex after the function returned.
WaitDone(g) ==
    /\ pc[g] = "wait"
    /\ once = "done"
    /\ pc' = [pc EXCEPT ![g] = "return"]
    /\ UNCHANGED <<once, local, built, instrumented, httpClient, httpClientErr, result>>

\* client.NewHTTPClientWithOpts succeeds.
NewClientOk(g) ==
    /\ pc[g] = "new"
    /\ built' = built + 1
    /\ local' = [local EXCEPT ![g] = built + 1]
    /\ pc' = [pc EXCEPT ![g] = "wrap"]
    /\ UNCHANGED <<once, instrumented, httpClient, httpClientErr, result>>

\* It fails: c.httpClientErr = err; return (Do then marks itself done).
NewClientErr(g) ==
    /\ pc[g] = "new"
    /\ httpClientErr' = "err"
    /\ once' = "done"
    /\ pc' = [pc EXCEPT ![g] = "return"]
    /\ UNCHANGED <<local, built, instrumented, httpClient, result>>

\* client.Transport = promhttp.InstrumentRoundTripperDuration(..., tr).
Wrap(g) ==
    /\ pc[g] = "wrap"
    /\ instrumented' = instrumented \cup {local[g]}
    /\ pc' = [pc EXCEPT ![g] = "publish"]
    /\ UNCHANGED <<once, local, built, httpClient, httpClientErr, result>>

\* c.httpClient = client; the function returns and Do marks itself done.
Publish(g) ==
    /\ pc[g] = "publish"
    /\ httpClient' = local[g]
    /\ once' = "done"
    /\ pc' = [pc EXCEPT ![g] = "return"]
    /\ UNCHANGED <<local, built, instrumented, httpClientErr, result>>

\* return c.httpClient, c.httpClientErr
Return(g) ==
    /\ pc[g] = "return"
    /\ result' = [result EXCEPT ![g] = [client |-> httpClient, err |-> httpClientErr]]
    /\ pc' = [pc EXCEPT ![g] = "done"]
    /\ UNCHANGED <<once, local, built, instrumented, httpClient, httpClientErr>>

Next ==
    \E g \in Callers :
        \/ Call(g) \/ WaitDone(g) \/ NewClientOk(g) \/ NewClientErr(g)
        \/ Wrap(g) \/ Publish(g) \/ Return(g)

Spec == Init /\ [][Next]_vars

-----------------------------------------------------------------------------
TypeOK ==
    /\ once \in {"idle", "running", "done"}
    /\ pc \in [Callers -> {"idle", "wait", "new", "wrap", "publish", "return", "done"}]
    /\ built \in 0..Cardinality(Callers)
    /\ local \in [Callers -> 0..Cardinality(Callers)]
    /\ instrumented \subseteq 1..Cardinality(Callers)
    /\ httpClient \in 0..Cardinality(Callers)
    /\ httpClientErr \in {"nil", "err"}
    /\ result \in [Callers -> [client : 0..Cardinality(Callers), err : {"none", "nil", "err"}]]

Returned == {g \in Callers : pc[g] = "done"}

\* Whatever the interleaving of the first callers, HttpClient() returns
\* either an error or a usable client, never (nil, nil), and the client it
\* returns already has its instrumented transport.
CompleteResult ==
    \A g \in Returned :
        \/ result[g].err = "err"
        \/ result[g].client # 0 /\ result[g].client \in instrumented

\* At most one client is ever constructed, and every caller gets the same
\* pair: the config hands out one shared client (or one shared error).
SingleConstruction ==
    /\ built <= 1
    /\ \A g, h \in Returned : result[g] = result[h]

=============================================================================
