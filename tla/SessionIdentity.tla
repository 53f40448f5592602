---------------------------- MODULE SessionIdentity ----------------------------
(***************************************************************************)
(* The identity a gitlab-sshd session carries, from the handshake to the  *)
(* two-factor API.  One connection's handshake is SshdAuth.  Once it is   *)
(* established, handleConn (internal/sshd/sshd.go:227-235) builds each    *)
(* admitted channel's session with gitlabKeyId set to                     *)
(* sconn.Permissions.Extensions["key-id"].  session.handle dispatches the *)
(* client's command with that identity as args.GitlabKeyId (design 4.4;   *)
(* session.go is not among the sources).  The command here is the         *)
(* two-factor verify or push of TwoFactorVerify.                          *)
(***************************************************************************)
EXTENDS Naturals

CONSTANTS
    Users, ConfigUser, Keys, DSAKeys, OwnedKeys, AuthorizedId, NotFound,
    NoKey, MaxAuthTries,     \* SshdAuth's
    UserIds, Otps,           \* TwoFactorVerify's
    NoSession                \* model value: no session built yet

VARIABLES
    hs, attempt, cache, calls, failures, keyId, signer,   \* SshdAuth's
    session,                                              \* the session
    call, pc, body, posted, result                        \* TwoFactorVerify's

authVars == <<hs, attempt, cache, calls, failures, keyId, signer>>
cmdVars  == <<call, pc, body, posted, result>>
vars == <<authVars, session, cmdVars>>

A == INSTANCE SshdAuth
T == INSTANCE TwoFactorVerify WITH KeyIds <- A!KeyIdStrings \cup {""}

NoCall == [op |-> "none", keyId |-> "", otp |-> ""]

Init ==
    /\ A!Init
    /\ session = NoSession
    /\ call = NoCall
    /\ pc = "idle"
    /\ body = T!EncodeBody("", 0, "")
    /\ posted = T!NoPost
    /\ result = T!Pending

\* ssh.NewServerConn runs the handshake: the client's publickey requests
\* and the callback's answers.
Handshake == A!Next /\ UNCHANGED <<session, cmdVars>>

\* The handshake succeeded and conn.handle admitted a channel: the session
\* is built with gitlabKeyId: sconn.Permissions.Extensions["key-id"].
NewSession ==
    /\ hs = "established"
    /\ session = NoSession
    /\ session' = [gitlabKeyId |-> keyId]
    /\ UNCHANGED <<authVars, cmdVars>>

\* session.handle dispatches the client's command c with the session's
\* identity as args.GitlabKeyId.
Dispatch(c) ==
    /\ session # NoSession
    /\ pc = "idle"
    /\ c.keyId = session.gitlabKeyId
    /\ call' = c
    /\ pc' = "start"
    /\ UNCHANGED <<authVars, session, body, posted, result>>

\* A step of the dispatched VerifyOTP or PushAuth call.
Command == pc # "idle" /\ T!Next /\ UNCHANGED <<authVars, session>>

Next ==
    \/ Handshake
    \/ NewSession
    \/ \E c \in T!Calls : Dispatch(c)
    \/ Command

\* As in SshdAuth, only the 10 s deadline of GetByKey is fair.
Spec == Init /\ [][Next]_vars /\ WF_vars(A!GatewayTimeout /\ UNCHANGED <<session, cmdVars>>)

-----------------------------------------------------------------------------
TypeOK ==
    /\ A!TypeOK
    /\ session \in {NoSession} \cup [gitlabKeyId : A!KeyIdStrings \cup {""}]

\* SshdAuth's properties, checked in the composed system.
OnlyEligibleKeys == A!OnlyEligibleKeys

\* A second factor is reported verified for a gitlab-sshd session only
\* against the identity that authenticated its SSH connection: the body
\* posted names the decimal id of the key that signed the handshake, and
\* no user id, whatever keys the client queried or was refused before.
OtpForSigningKey ==
    result.ok =>
        /\ hs = "established"
        /\ "key_id" \in DOMAIN posted.body
        /\ posted.body["key_id"] = A!Decimal(AuthorizedId[signer])
        /\ "user_id" \notin DOMAIN posted.body
=============================================================================
