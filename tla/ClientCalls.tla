------------------------------ MODULE ClientCalls ------------------------------
(***************************************************************************)
(* Concurrent calls of the SDK's methods that have no cache: one client    *)
(* (clientv1.go), whose calls share a token source, against SAMS.          *)
(*                                                                         *)
(* A call checks its arguments, gets a token, sends one request and waits. *)
(* Its context may end at any time; what it has sent by then SAMS may      *)
(* still carry out, long after the caller has gone on.  A retry is another *)
(* call.                                                                   *)
(***************************************************************************)
EXTENDS SAMS, Naturals

CONSTANTS
    Calls,
    Arguments,  \* Arguments[c]: what c may be called with
    NoCall,     \* no call, no arguments
    Records     \* what SAMS starts with

ASSUME ClientCallsAssumption ==
    /\ NoCall \notin Calls /\ Empty \notin Calls
    /\ Calls \subseteq Strings
    /\ \A c \in Calls : Arguments[c] \subseteq Argument /\ NoCall \notin Arguments[c]

(* What SAMS makes for a call is named by the call: a new name. *)
ASSUME RecordsAssumption ==
    /\ Records \in SAMSRecords
    /\ \A u \in Records.users : u.Id # Empty /\ u.Email # Empty
    /\ \A t \in Records.tokens : t.Id \notin Calls

VARIABLES
    pc,          \* pc[c]: where the call is
    args,        \* args[c]: its arguments
    done,        \* done[c]: its context has ended
    result,      \* result[c]: the error and the value it returned
    token,       \* the token of the client: none, valid or expired
    lock,        \* the call that holds the lock of the token source
    endpoint,    \* the token endpoint is up, or hung and will not answer
    flight,      \* flight[c]: the request or the answer that is on its way
    records,     \* the records of SAMS
    executed,    \* executed[c]: how often c was carried out (history)
    before       \* before[c]: the records when c began (history)

calls == <<pc, args, done, result>>
source == <<token, lock, endpoint>>
sams == <<flight, records, executed>>
vars == <<calls, source, sams, before>>

PC == {"idle", "asking", "authorizing", "fetching", "sending", "waiting", "returned"}

Errors == {"nil", "argument", "ErrNotFound", "ErrAborted", "ErrRecordMismatch", "error"}

NotYet == [err |-> "none", value |-> NoValue]

Nothing == [kind |-> "nothing"]

Busy(c) == pc[c] \notin {"idle", "returned"}

Init ==
    /\ pc = [c \in Calls |-> "idle"]
    /\ args = [c \in Calls |-> NoCall]
    /\ done = [c \in Calls |-> FALSE]
    /\ result = [c \in Calls |-> NotYet]
    /\ token = "none"
    /\ lock = NoCall
    /\ endpoint = "up"
    /\ flight = [c \in Calls |-> Nothing]
    /\ records = Records
    /\ executed = [c \in Calls |-> 0]
    /\ before = [c \in Calls |-> Records]

-----------------------------------------------------------------------------
(* A call *)

Goes(c, where) == pc' = [pc EXCEPT ![c] = where]

Returns(c, what) ==
    /\ Goes(c, "returned")
    /\ result' = [result EXCEPT ![c] = what]

(* The Accounts API is called with a token of its user. *)
OfItsUser(a) == a.op = "AccountsGetUser"

Begin(c) ==
    /\ pc[c] = "idle"
    /\ \E a \in Arguments[c] :
        /\ args' = [args EXCEPT ![c] = a]
        /\ IF ~Prepare(a).valid THEN Returns(c, Failed("argument"))
           ELSE /\ Goes(c, IF OfItsUser(a) THEN "asking" ELSE "authorizing")
                /\ UNCHANGED result
    /\ before' = [before EXCEPT ![c] = records]
    /\ UNCHANGED <<done, source, sams>>

(* The context of a call that runs is cancelled, or its deadline passes. *)
ContextEnds(c) ==
    /\ Busy(c)
    /\ ~done[c]
    /\ done' = [done EXCEPT ![c] = TRUE]
    /\ UNCHANGED <<pc, args, result, source, sams, before>>

(* The token source that the Accounts client was made with answers, fails, *)
(* or does neither: it is the caller's, and knows no context of a call.    *)
OwnToken(c) ==
    /\ pc[c] = "asking"
    /\ \/ Goes(c, "sending") /\ UNCHANGED result
       \/ Returns(c, Failed("error"))
    /\ UNCHANGED <<args, done, source, sams, before>>

(* Mutant: each method has a token source of its own. *)
AuthorizeUnshared(c) ==
    /\ pc[c] = "authorizing"
    /\ IF token = "valid" THEN Goes(c, "sending") ELSE Goes(c, "fetching")
    /\ UNCHANGED <<lock, args, done, result, token, endpoint, sams, before>>

(* The token source, under its lock: a token that can be used is reused.   *)
Authorize(c) ==
    /\ pc[c] = "authorizing"
    /\ lock = NoCall
    /\ IF token = "valid"
       THEN Goes(c, "sending") /\ UNCHANGED lock
       ELSE Goes(c, "fetching") /\ lock' = c
    /\ UNCHANGED <<args, done, result, token, endpoint, sams, before>>

(* The token is asked for without a context of a call: nothing but an      *)
(* answer or an error ends it.                                             *)
FetchToken(c) ==
    /\ pc[c] = "fetching"
    /\ endpoint = "up"
    /\ lock' = NoCall
    /\ \/ token' = "valid" /\ Goes(c, "sending") /\ UNCHANGED result
       \/ Returns(c, Failed("error")) /\ UNCHANGED token
    /\ UNCHANGED <<args, done, endpoint, sams, before>>

(* Mutant: no request carries the context of its call. *)
HeedsContextNever(a) == FALSE

(* The request of the Accounts API is made without the call's context. *)
HeedsContext(a) == a.op # "AccountsGetUser"

Send(c) ==
    /\ pc[c] = "sending"
    /\ IF done[c] /\ HeedsContext(args[c])
       THEN Returns(c, Failed("error")) /\ UNCHANGED flight
       ELSE /\ flight' = [flight EXCEPT ![c] = [kind |-> "request"]]
            /\ Goes(c, "waiting")
            /\ UNCHANGED result
    /\ UNCHANGED <<args, done, source, records, executed, before>>

(* The context ends while the call waits: it returns, the request remains. *)
GiveUp(c) ==
    /\ pc[c] = "waiting"
    /\ done[c]
    /\ HeedsContext(args[c])
    /\ Returns(c, Failed("error"))
    /\ UNCHANGED <<args, done, source, sams, before>>

(* The connection breaks; SAMS may have the request already, or not. *)
Break(c) ==
    /\ pc[c] = "waiting"
    /\ Returns(c, Failed("error"))
    /\ UNCHANGED <<args, done, source, sams, before>>

(* Mutant: a request that failed inside SAMS is sent again. *)
ReceiveRetrying(c) ==
    /\ pc[c] = "waiting"
    /\ flight[c].kind = "answer"
    /\ \/ Returns(c, Result(args[c], flight[c].answer)) /\ UNCHANGED flight
       \/ /\ flight' = [flight EXCEPT ![c] = [kind |-> "request"]]
          /\ UNCHANGED <<pc, result>>
    /\ UNCHANGED <<args, done, source, records, executed, before>>

Receive(c) ==
    /\ pc[c] = "waiting"
    /\ flight[c].kind = "answer"
    /\ Returns(c, Result(args[c], flight[c].answer))
    /\ UNCHANGED <<args, done, source, sams, before>>

-----------------------------------------------------------------------------
(* The world *)

(* SAMS reads a request and answers it, whether or not someone waits.      *)
Answers(c) ==
    /\ flight[c].kind = "request"
    /\ LET request == Prepare(args[c]) IN
       \E outcome \in Serve(request.path, request.message, records, c) :
        /\ records' = outcome.records
        /\ flight' = [flight EXCEPT ![c] = [kind |-> "answer", answer |-> outcome.answer]]
        /\ executed' = IF outcome.answer.code = "ok"
                       THEN [executed EXCEPT ![c] = @ + 1] ELSE executed
    /\ UNCHANGED <<calls, source, before>>

TokenExpires ==
    /\ token = "valid"
    /\ token' = "expired"
    /\ UNCHANGED <<calls, lock, endpoint, sams, before>>

TokenEndpointHangs ==
    /\ endpoint = "up"
    /\ lock # NoCall
    /\ endpoint' = "hung"
    /\ UNCHANGED <<calls, token, lock, sams, before>>

-----------------------------------------------------------------------------
(* A call that can go on does.  Nothing makes SAMS answer, or a token      *)
(* source that is not the client's.                                        *)
Proceed(c) ==
    Authorize(c) \/ FetchToken(c) \/ Send(c) \/ GiveUp(c) \/ Receive(c)

Step(c) ==
    Begin(c) \/ OwnToken(c) \/ ContextEnds(c) \/ Proceed(c) \/ Break(c) \/ Answers(c)

Next == (\E c \in Calls : Step(c)) \/ TokenExpires \/ TokenEndpointHangs

Spec == Init /\ [][Next]_vars

FairSpec == Spec /\ \A c \in Calls : WF_vars(Proceed(c))

-----------------------------------------------------------------------------
(* Properties *)

Codes ==
    {"ok", "not_found", "aborted", "already_exists", "failed_precondition", "internal",
     "invalid_argument", Unimplemented}

(* The method that a path leads to takes the message that is sent there,   *)
(* and what it answers is of its type.                                     *)
WellTyped(request, onItsWay) ==
    request.path # AccountsUserPath =>
        \E method \in Handlers(request.path) :
        /\ request.message \in RequestOf[method]
        /\ onItsWay.kind = "answer" =>
            /\ onItsWay.answer.code \in Codes
            /\ onItsWay.answer.code = "ok" => onItsWay.answer.message \in ResponseOf[method]

(* Requests and answers are messages of the API. *)
TypeOK ==
    /\ pc \in [Calls -> PC]
    /\ \A c \in Calls : args[c] \in Arguments[c] \cup {NoCall}
    /\ done \in [Calls -> BOOLEAN]
    /\ \A c \in Calls : result[c].err \in Errors \cup {"none"}
    /\ token \in {"none", "valid", "expired"}
    /\ lock \in Calls \cup {NoCall}
    /\ endpoint \in {"up", "hung"}
    /\ \A c \in Calls :
        /\ flight[c].kind \in {"nothing", "request", "answer"}
        /\ flight[c].kind # "nothing" => WellTyped(Prepare(args[c]), flight[c])
    /\ records \in SAMSRecords
    /\ executed \in [Calls -> Nat]

(* What the caller of c knows. *)
Told(c) ==
    IF pc[c] # "returned" THEN "nothing"
    ELSE CASE result[c].err = "nil" -> "done"
           [] result[c].err = "error" -> "unknown"
           [] OTHER -> "refused"

(* A call is carried out once if it returns no error, never if it returns  *)
(* one of the named errors or refuses its arguments, and at most once in   *)
(* any case, also after its caller has given up.                           *)
Abstract == INSTANCE AtMostOnce WITH told <- [c \in Calls |-> Told(c)]

ImplementsAtMostOnce == Abstract!Spec

(* A caller that lists tokens with the options a is to see t. *)
IsListed(a, t) ==
    /\ a.key \in {Empty, t.Service}
    /\ a.id \in {Empty, t.UserId}
    /\ t.Expired => a.expired

(* The value of call a is about what a asked for. *)
Fits(a, v) ==
    /\ a.op = "GetUserByID" => v.Id = a.id
    /\ a.op \in {"GetUserByEmail", "CreateUser"} => v.Email = a.key
    /\ a.op = "GetUsersByIDs" => \A u \in v : u.Id \in a.set
    /\ a.op = "GetUserRolesByID" => \A r \in v : r.Service = a.key
    /\ a.op = "GetUserMetadata" =>
        \A d \in v : d.UserId = a.id /\ IsAsked(d.Namespace, a.set)
    /\ a.op = "UpdateUserMetadata" =>
        /\ a.key # AllNamespaces
        /\ v = [UserId |-> a.id, Namespace |-> a.key, Metadata |-> NewStruct[a.value]]
    /\ a.op = "CreateServiceAccessToken" =>
        /\ v.Token.Service = a.key /\ v.Token.UserId = a.id /\ v.Token.Scopes = a.set
        /\ v.Secret # Empty
    /\ a.op = "ListServiceAccessTokens" => \A t \in v : IsListed(a, t)
    /\ a.op = "AccountsGetUser" => v = AccountsUser

(* And nothing is missing in it that records b and s have, when the call   *)
(* began and now.  Of tokens there is a page.                              *)
IsComplete(a, v, b, s) ==
    /\ a.op = "GetUsersByIDs" => \A u \in b.users : u.Id \in a.set => u \in v
    /\ a.op = "GetUserRolesByID" =>
        \A r \in b.roles : r.UserId = a.id /\ r.Service = a.key
            => [RoleId |-> r.RoleId, Service |-> r.Service] \in v
    /\ a.op = "GetUserMetadata" =>
        \A d \in b.metadata : d.UserId = a.id /\ IsAsked(d.Namespace, a.set)
            => \E e \in v : e.Namespace = d.Namespace
    /\ a.op = "ListServiceAccessTokens" /\ v = {} =>
        \A t \in b.tokens \cap s.tokens : ~IsListed(a, t)

(* Through the path of the client, the switch of the handler, the message  *)
(* and the way back, the answer of a call is one to what it was called     *)
(* with, nothing more and nothing less (an option that is absent filters   *)
(* nothing); and a token that a call was told is revoked is there no more. *)
AnswerFitsRequest ==
    \A c \in Calls :
        result[c].err = "nil" =>
            /\ Fits(args[c], result[c].value)
            /\ IsComplete(args[c], result[c].value, before[c], records)
            /\ args[c].op = "RevokeServiceAccessToken" =>
                \A t \in records.tokens : t.Id # args[c].id

(* The records that a call is about. *)
Sought(a, s) ==
    CASE a.op \in {"GetUserByID", "UpdateUserMetadata", "CreateServiceAccessToken"} ->
            {u \in s.users : u.Id = a.id}
      [] a.op = "GetUserByEmail" -> {u \in s.users : u.Email = a.key}
      [] a.op = "RevokeServiceAccessToken" -> {t \in s.tokens : t.Id = a.id}
      [] OTHER -> {}

(* The named errors can be believed: what is reported as not found was     *)
(* missing when the call began or is missing now, and whether a session    *)
(* was left to another user or is signed out is as SignOutSession says.    *)
ErrorsAreTrue ==
    \A c \in Calls :
        /\ result[c].err = "ErrNotFound" =>
            Sought(args[c], before[c]) = {} \/ Sought(args[c], records) = {}
        /\ result[c].err = "ErrRecordMismatch" =>
            /\ args[c].op = "SignOutSession"
            /\ \E x \in before[c].sessions : x.Id = args[c].id /\ x.UserId # args[c].key
        /\ result[c].err = "nil" /\ args[c].op = "SignOutSession" =>
            \A x \in records.sessions : x.Id # args[c].id

(* clientv1.go:193-195: "Internally, the token returned is reused. So that *)
(* new tokens are only created when needed."  However many calls start at  *)
(* once, one of them asks for a token, and only without one it could use.  *)
NewTokenWhenNeeded ==
    \A c \in Calls : pc[c] = "fetching" => lock = c /\ token # "valid"

(* A call whose context has ended returns, but for two cases: the token    *)
(* endpoint hangs, and with it every call of the client that needs a token *)
(* (it is asked without the context of the call), and GetUser of the       *)
(* Accounts API, which makes its request without a context.                *)
CallsEnd ==
    \A c \in Calls :
        Busy(c) /\ done[c] /\ args[c].op # "AccountsGetUser" ~>
            pc[c] = "returned" \/ endpoint = "hung"
===============================================================================
