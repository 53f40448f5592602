---------------------------- MODULE TwoFactorVerify ----------------------------
(***************************************************************************)
(* The two-factor verify client (internal/gitlabnet/twofactorverify/      *)
(* client.go, lines 1-105): VerifyOTP and PushAuth build a request body    *)
(* (getRequestBody: the caller's key id if the command has one, otherwise  *)
(* the user id the discover API returns for the command's arguments), POST *)
(* it to the manual or push OTP endpoint, and parse the JSON answer.  Each *)
(* network call may fail; every failure is returned at once.  The body is  *)
(* encoded as encoding/json does it: key_id and user_id are omitempty.     *)
(***************************************************************************)
EXTENDS Naturals

CONSTANTS
    KeyIds,   \* args.GitlabKeyId values, "" for none
    UserIds,  \* user ids the discover API may return (0 included)
    Otps      \* OTP codes a user may type

VARIABLES
    call,    \* the call: op, args' key id, otp
    pc,      \* "start", "post", "parse" or "done"
    body,    \* the JSON request body built, as a field -> value function
    posted,  \* [endpoint, body, answer] of the POST made, or NoPost
    result   \* (bool, string, error) returned

vars == <<call, pc, body, posted, result>>

Calls == [op : {"verify"}, keyId : KeyIds, otp : Otps]
           \cup [op : {"push"}, keyId : KeyIds, otp : {""}]
Endpoint(op) == IF op = "verify" THEN "/two_factor_manual_otp_check"
                ELSE "/two_factor_push_otp_check"
NoPost == [endpoint |-> "none"]
Pending == [ok |-> FALSE, message |-> "", err |-> "pending"]
Failed(e) == [ok |-> FALSE, message |-> "", err |-> e]
Messages == {"", "denied", "accepted"}

\* The API's answers: a JSON {success, message}, or a body that is not.
Answers == [json : {TRUE}, success : BOOLEAN, message : Messages]
             \cup {[json |-> FALSE, success |-> FALSE, message |-> ""]}

\* GetByCommandArgs' outcomes: the user's id, or an error.
Lookups == [ok : {TRUE}, userId : UserIds] \cup {[ok |-> FALSE, userId |-> 0]}

\* json.Marshal(RequestBody): omitempty drops an empty key_id and a zero
\* user_id; otp_attempt is always present.
EncodeBody(keyId, userId, otp) ==
    LET present == {f \in {"key_id", "user_id"} :
                        IF f = "key_id" THEN keyId # "" ELSE userId # 0}
                   \cup {"otp_attempt"}
    IN [f \in present |-> CASE f = "key_id"  -> keyId
                            [] f = "user_id" -> userId
                            [] OTHER         -> otp]

Init ==
    /\ call \in Calls
    /\ pc = "start"
    /\ body = EncodeBody("", 0, "")
    /\ posted = NoPost
    /\ result = Pending

\* discover.NewClient fails: getRequestBody returns its error.
DiscoverClientError ==
    /\ pc = "start"
    /\ pc' = "done"
    /\ result' = Failed("discover client")
    /\ UNCHANGED <<call, body, posted>>

\* Mutant: the user id is looked up first; the key id is used only when
\* the lookup fails.
BodyFromUserFirst(lk) ==
    /\ pc = "start"
    /\ pc' = "post"
    /\ body' = IF lk.ok THEN EncodeBody("", lk.userId, call.otp)
               ELSE EncodeBody(call.keyId, 0, call.otp)
    /\ UNCHANGED <<call, posted, result>>

\* The discover client is built; the key id is used if the command has
\* one, otherwise GetByCommandArgs returns the user or an error (the
\* lookup lk is not made when the key id is used).
BuildBody(lk) ==
    /\ pc = "start"
    /\ call.keyId = "" \/ ~lk.ok
    /\ IF call.keyId # ""
       THEN /\ pc' = "post"
            /\ body' = EncodeBody(call.keyId, 0, call.otp)
            /\ UNCHANGED result
       ELSE IF ~lk.ok
       THEN /\ pc' = "done"
            /\ result' = Failed("discover")
            /\ UNCHANGED body
       ELSE /\ pc' = "post"
            /\ body' = EncodeBody("", lk.userId, call.otp)
            /\ UNCHANGED result
    /\ UNCHANGED <<call, posted>>

\* c.client.Post to the operation's endpoint: it fails, or answers.
PostError ==
    /\ pc = "post"
    /\ pc' = "done"
    /\ result' = Failed("post")
    /\ UNCHANGED <<call, body, posted>>

PostOk(ans) ==
    /\ pc = "post"
    /\ pc' = "parse"
    /\ posted' = [endpoint |-> Endpoint(call.op), body |-> body, answer |-> ans]
    /\ UNCHANGED <<call, body, result>>

\* Mutant: the answer's success flag is not looked at.
ParseIgnoresSuccess ==
    /\ pc = "parse"
    /\ posted.answer.json
    /\ pc' = "done"
    /\ result' = [ok |-> TRUE, message |-> posted.answer.message, err |-> "nil"]
    /\ UNCHANGED <<call, body, posted>>

\* parse: the JSON answer is decoded; (success, message, nil) is returned.
Parse ==
    /\ pc = "parse"
    /\ posted.answer.json
    /\ pc' = "done"
    /\ result' = [ok |-> posted.answer.success, message |-> posted.answer.message, err |-> "nil"]
    /\ UNCHANGED <<call, body, posted>>

\* gitlabnet.ParseJSON fails on the answer.
ParseError ==
    /\ pc = "parse"
    /\ ~posted.answer.json
    /\ pc' = "done"
    /\ result' = Failed("parse")
    /\ UNCHANGED <<call, body, posted>>

Next ==
    \/ DiscoverClientError
    \/ \E lk \in Lookups : BuildBody(lk)
    \/ PostError \/ \E ans \in Answers : PostOk(ans)
    \/ Parse \/ ParseError

Spec == Init /\ [][Next]_vars

-----------------------------------------------------------------------------
\* Whatever the API answers, the caller is told the second factor was
\* accepted only after a body naming it was posted to the endpoint of its
\* own operation: by its key id when the command carries one (and then
\* by nothing else), otherwise by no key id at all, only the user id the
\* discover API returned (which omitempty drops when it is 0, so the body
\* then names no one); the OTP posted is the one typed (empty for a push).
VerifiedOnlyForCaller ==
    result.ok =>
        /\ result.err = "nil"
        /\ posted.answer.success = TRUE
        /\ posted.endpoint = Endpoint(call.op)
        /\ posted.body["otp_attempt"] = call.otp
        /\ IF call.keyId # ""
           THEN DOMAIN posted.body = {"key_id", "otp_attempt"}
                /\ posted.body["key_id"] = call.keyId
           ELSE "key_id" \notin DOMAIN posted.body
=============================================================================
