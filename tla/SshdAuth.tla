------------------------------- MODULE SshdAuth -------------------------------
(***************************************************************************)
(* The PublicKeyCallback of serverConfig (internal/sshd/sshd.go:171-201)  *)
(* as x/crypto/ssh drives it during one connection's handshake.  The      *)
(* client sends publickey requests, each for a claimed user and a key,    *)
(* either as a query (no signature) or signed with a key it owns.  The    *)
(* library looks the (user, key) pair up in its one-entry cache of        *)
(* callback results, and otherwise calls the callback.  The callback       *)
(* rejects a wrong user or a DSA key at once, and otherwise asks the       *)
(* authorized-keys API, under a 10 s deadline, for the key's id.  A signed *)
(* request whose callback result is a success establishes the connection   *)
(* with that result's "key-id" extension.                                  *)
(* Connections share no state here, so one handshake is modelled.          *)
(***************************************************************************)
EXTENDS Naturals, Sequences

CONSTANTS
    Users,          \* user names a client may claim
    ConfigUser,     \* s.Config.User
    Keys,           \* public keys a client may present
    DSAKeys,        \* the keys whose Type() is ssh.KeyAlgoDSA
    OwnedKeys,      \* the keys whose private half the client holds
    AuthorizedId,   \* AuthorizedId[k]: the id GetByKey returns, or NotFound
    NotFound,       \* model value: GetByKey answers 404
    NoKey,          \* model value: no key signed yet
    MaxAuthTries    \* the library's limit on failed requests

ASSUME ConfigUser \in Users /\ DSAKeys \subseteq Keys /\ OwnedKeys \subseteq Keys
ASSUME MaxAuthTries \in Nat \ {0}
ASSUME \A k \in Keys : AuthorizedId[k] \in (0..999) \cup {NotFound}

VARIABLES
    hs,        \* handshake: "auth", "calling", "established" or "failed"
    attempt,   \* the request being served
    cache,     \* the library's cached callback results (at most one)
    calls,     \* history: the (user, key) pairs GetByKey was called for
    failures,  \* failed requests so far
    keyId,     \* sconn.Permissions.Extensions["key-id"], "" if none
    signer     \* the key that signed the successful request

vars == <<hs, attempt, cache, calls, failures, keyId, signer>>

Ids == {AuthorizedId[k] : k \in Keys} \ {NotFound}
Requests == [user : Users, key : Keys, signed : BOOLEAN]

\* Mutant: the id is formatted in base 16.
FormatIntHex(n) ==
    LET Hex[m \in Nat] ==
            IF m < 16 THEN <<"0","1","2","3","4","5","6","7","8","9",
                             "a","b","c","d","e","f">>[m + 1]
            ELSE Hex[m \div 16] \o Hex[m % 16]
    IN Hex[n]

\* strconv.FormatInt(n, 10): the decimal digits of n, most significant first.
RECURSIVE FormatInt(_)
FormatInt(n) ==
    LET digit == <<"0","1","2","3","4","5","6","7","8","9">>[(n % 10) + 1]
    IN IF n < 10 THEN digit ELSE FormatInt(n \div 10) \o digit

\* Reference decimal notation of an id below 1000, digit by digit.
Decimal(n) ==
    LET D == <<"0","1","2","3","4","5","6","7","8","9">>
        h == D[(n \div 100) + 1]
        t == D[((n \div 10) % 10) + 1]
        u == D[(n % 10) + 1]
    IN IF n >= 100 THEN h \o t \o u ELSE IF n >= 10 THEN t \o u ELSE u

\* The "key-id" strings the API's ids should appear as.
KeyIdStrings == {Decimal(i) : i \in Ids}

Results == [ok : BOOLEAN, keyId : KeyIdStrings \cup {""}]

Reject == [ok |-> FALSE, keyId |-> ""]

Init ==
    /\ hs = "auth"
    /\ attempt = [user |-> ConfigUser, key |-> CHOOSE k \in Keys : TRUE, signed |-> FALSE]
    /\ cache = {}
    /\ calls = {}
    /\ failures = 0
    /\ keyId = ""
    /\ signer = NoKey

\* Mutant: the DSA check is missing.
CallbackPrecheckNoDSA(u, k) ==
    IF u # ConfigUser THEN "unknown user" ELSE "call"

\* The callback's checks before any network call: unknown user, then DSA.
CallbackPrecheck(u, k) ==
    CASE u # ConfigUser -> "unknown user"
      [] k \in DSAKeys  -> "DSA is prohibited"
      [] OTHER          -> "call"

\* The callback's return for GetByKey's outcome: an error rejects the key,
\* otherwise Permissions carry strconv.FormatInt(res.Id, 10) as "key-id".
CallbackResult(found, id) ==
    IF found THEN [ok |-> TRUE, keyId |-> FormatInt(id)] ELSE Reject

\* The library's answer to a request whose callback result is res: the
\* result is cached; a signed request with a success ends the handshake;
\* a query with a success is answered PK_OK; a rejection counts as a
\* failure and the library gives up after MaxAuthTries of them.
Conclude(a, res) ==
    /\ cache' = {[user |-> a.user, key |-> a.key, res |-> res]}
    /\ failures' = IF res.ok THEN failures ELSE failures + 1
    /\ hs' = IF a.signed /\ res.ok THEN "established"
             ELSE IF ~res.ok /\ failures + 1 >= MaxAuthTries THEN "failed"
             ELSE "auth"
    /\ keyId' = IF a.signed /\ res.ok THEN res.keyId ELSE keyId
    /\ signer' = IF a.signed /\ res.ok THEN a.key ELSE signer

Cached(u, k) == {e \in cache : e.user = u /\ e.key = k}

\* A request the cache answers: the callback is not called again.
RequestCached(r) ==
    /\ hs = "auth"
    /\ r.signed => r.key \in OwnedKeys
    /\ Cached(r.user, r.key) # {}
    /\ attempt' = r
    /\ Conclude(r, (CHOOSE e \in Cached(r.user, r.key) : TRUE).res)
    /\ UNCHANGED calls

\* The callback returns an error before any network call.
RequestRejected(r) ==
    /\ hs = "auth"
    /\ r.signed => r.key \in OwnedKeys
    /\ Cached(r.user, r.key) = {}
    /\ CallbackPrecheck(r.user, r.key) # "call"
    /\ attempt' = r
    /\ Conclude(r, Reject)
    /\ UNCHANGED calls

\* The callback calls authorizedKeysClient.GetByKey.
RequestCall(r) ==
    /\ hs = "auth"
    /\ r.signed => r.key \in OwnedKeys
    /\ Cached(r.user, r.key) = {}
    /\ CallbackPrecheck(r.user, r.key) = "call"
    /\ attempt' = r
    /\ hs' = "calling"
    /\ calls' = calls \cup {<<r.user, r.key>>}
    /\ UNCHANGED <<cache, failures, keyId, signer>>

\* GetByKey answers: the key's record, or 404 for an unknown key.
GatewayReply ==
    /\ hs = "calling"
    /\ LET id == AuthorizedId[attempt.key]
       IN Conclude(attempt, CallbackResult(id # NotFound, id))
    /\ UNCHANGED <<attempt, calls>>

\* GetByKey fails (network error, 5xx).
GatewayError ==
    /\ hs = "calling"
    /\ Conclude(attempt, Reject)
    /\ UNCHANGED <<attempt, calls>>

\* Mutant: no deadline on the context of GetByKey.
GatewayTimeoutNever == FALSE /\ GatewayError

\* The 10 s deadline of context.WithTimeout expires: GetByKey returns
\* context.DeadlineExceeded.
GatewayTimeout ==
    /\ hs = "calling"
    /\ Conclude(attempt, Reject)
    /\ UNCHANGED <<attempt, calls>>

Next ==
    \/ \E r \in Requests : RequestCached(r) \/ RequestRejected(r) \/ RequestCall(r)
    \/ GatewayReply \/ GatewayError \/ GatewayTimeout

(***************************************************************************)
(* Only the deadline is fair: the gateway may hang, and the client decides *)
(* what to send and when.                                                  *)
(***************************************************************************)
Spec == Init /\ [][Next]_vars /\ WF_vars(GatewayTimeout)

-----------------------------------------------------------------------------
TypeOK ==
    /\ hs \in {"auth", "calling", "established", "failed"}
    /\ attempt \in Requests
    /\ cache \subseteq [user : Users, key : Keys, res : Results]
    /\ calls \subseteq Users \X Keys
    /\ failures \in 0..MaxAuthTries
    /\ keyId \in KeyIdStrings \cup {""}
    /\ signer \in Keys \cup {NoKey}

\* Only eligible keys count, over any sequence of queries, signed requests,
\* cache hits, errors and timeouts: the authorization API is only asked
\* about non-DSA keys presented for the configured user, and an
\* established connection carries as key-id the decimal id the API gave
\* for the very key that signed, one the client owns; never the id of a
\* key that was only queried.
OnlyEligibleKeys ==
    /\ \A c \in calls : c[1] = ConfigUser /\ c[2] \notin DSAKeys
    /\ hs = "established" =>
        /\ signer \in OwnedKeys \ DSAKeys
        /\ AuthorizedId[signer] # NotFound
        /\ keyId = Decimal(AuthorizedId[signer])
        /\ <<ConfigUser, signer>> \in calls
=============================================================================
