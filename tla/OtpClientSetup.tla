---------------------------- MODULE OtpClientSetup ----------------------------
(***************************************************************************)
(* The two-factor client set-up of several concurrent OTP commands over    *)
(* one shared Config (internal/gitlabnet/twofactorverify/client.go).  Each *)
(* command first builds its client with NewClient (lines 31-38), then      *)
(* VerifyOTP or PushAuth builds the request body, whose first statement    *)
(* builds a discover client (line 85).  Both go through                    *)
(* gitlabnet.GetClient, which asks the Config for its HTTP client          *)
(* (Config.HttpClient, lines 203-226, modelled by ConfigHttpClient) and    *)
(* fails when it returns an error or a nil client.  The Config's callers   *)
(* are the pairs (command, call site).                                     *)
(***************************************************************************)
EXTENDS Naturals, FiniteSets

CONSTANTS
    Sessions   \* OTP commands sharing one Config (model values)

VARIABLES
    once, pc, local, built, instrumented, httpClient, httpClientErr, result,
    cmd   \* cmd[s]: where command s is in NewClient / getRequestBody

Sites == {"twofactor", "discover"}
Callers == Sessions \X Sites

H == INSTANCE ConfigHttpClient

hvars == <<once, pc, local, built, instrumented, httpClient, httpClientErr, result>>
vars == <<once, pc, local, built, instrumented, httpClient, httpClientErr, result, cmd>>

\* gitlabnet.GetClient succeeds: HttpClient returned no error and a client.
GetClientOk(r) == r.err = "nil" /\ r.client # 0

Init ==
    /\ H!Init
    /\ cmd = [s \in Sessions |-> "start"]

\* NewClient: gitlabnet.GetClient(config) calls config.HttpClient().
NewClient(s) ==
    /\ cmd[s] = "start"
    /\ H!Call(<<s, "twofactor">>)
    /\ cmd' = [cmd EXCEPT ![s] = "newClient"]

\* GetClient returns; an error is returned as "Error creating http client",
\* otherwise the Client is built and the command goes on.
NewClientReturn(s) ==
    /\ cmd[s] = "newClient"
    /\ pc[<<s, "twofactor">>] = "done"
    /\ cmd' = [cmd EXCEPT ![s] = IF GetClientOk(result[<<s, "twofactor">>])
                                 THEN "verify" ELSE "failed"]
    /\ UNCHANGED hvars

\* VerifyOTP / PushAuth call getRequestBody, which calls
\* discover.NewClient(c.config), itself a gitlabnet.GetClient.
GetRequestBody(s) ==
    /\ cmd[s] = "verify"
    /\ H!Call(<<s, "discover">>)
    /\ cmd' = [cmd EXCEPT ![s] = "discover"]

\* if err != nil { return nil, err }; otherwise the body is built.
DiscoverReturn(s) ==
    /\ cmd[s] = "discover"
    /\ pc[<<s, "discover">>] = "done"
    /\ cmd' = [cmd EXCEPT ![s] = IF GetClientOk(result[<<s, "discover">>])
                                 THEN "body" ELSE "discoverFailed"]
    /\ UNCHANGED hvars

\* A step of Config.HttpClient inside a caller's httpClientOnce.Do.
ConfigStep(g) ==
    /\ \/ H!WaitDone(g) \/ H!NewClientOk(g) \/ H!NewClientErr(g)
       \/ H!Wrap(g) \/ H!Publish(g) \/ H!Return(g)
    /\ UNCHANGED cmd

Next ==
    \/ \E s \in Sessions :
          NewClient(s) \/ NewClientReturn(s) \/ GetRequestBody(s) \/ DiscoverReturn(s)
    \/ \E g \in Callers : ConfigStep(g)

Spec == Init /\ [][Next]_vars

-----------------------------------------------------------------------------
TypeOK ==
    /\ H!TypeOK
    /\ cmd \in [Sessions -> {"start", "newClient", "verify", "discover",
                             "body", "failed", "discoverFailed"}]

\* Whatever the interleaving of the commands, HttpClient() returns either
\* an error or an instrumented client, never (nil, nil).
CompleteResult == H!CompleteResult

\* One HTTP client is built per Config, and every call of HttpClient, from
\* either call site of any command, returns the same pair: a construction
\* error is returned to every later caller, and the error return after
\* discover.NewClient (line 87) can only follow a failed NewClient.
SingleConstruction == H!SingleConstruction

=============================================================================
