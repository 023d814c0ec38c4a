-------------------------- MODULE ClientCallsProofs --------------------------
(***************************************************************************)
(* Proofs about ClientCalls for every set of calls, arguments and records, *)
(* whatever the methods send and SAMS answers: what happens to a request   *)
(* and what its caller is told (Journey), and who may ask for a token      *)
(* (Fetching).                                                             *)
(***************************************************************************)
EXTENDS ClientCalls, TLAPS

OnCalls(f) == f = [c \in Calls |-> f[c]]

Shape ==
    /\ pc \in [Calls -> PC]
    /\ executed \in [Calls -> {0, 1}]
    /\ OnCalls(result) /\ OnCalls(flight)

Fetching == \A c \in Calls : pc[c] = "fetching" => lock = c /\ token # "valid"

(* Where the request of c is, whether it was carried out and what c was    *)
(* told of that.                                                           *)
Journey(c) ==
    /\ flight[c].kind \in {"nothing", "request", "answer"}
    /\ pc[c] \in {"idle", "asking", "authorizing", "fetching", "sending"} => flight[c].kind = "nothing"
    /\ pc[c] = "waiting" => flight[c].kind # "nothing"
    /\ flight[c].kind # "answer" => executed[c] = 0
    /\ flight[c].kind = "answer" => (executed[c] = 1 <=> flight[c].answer.code = "ok")
    /\ pc[c] = "returned" =>
        /\ flight[c].kind = "request" => result[c].err = "error"
        /\ result[c].err = "nil" => executed[c] = 1
        /\ result[c].err \notin {"nil", "error"} => executed[c] = 0

IInv == Shape /\ Fetching /\ \A c \in Calls : Journey(c)

-----------------------------------------------------------------------------
(* No error comes of an answer that is ok, and only of one. *)
LEMMA ResultMeaning ==
    ASSUME NEW a, NEW answer
    PROVE  /\ Result(a, answer).err = "nil" => answer.code = "ok"
           /\ Result(a, answer).err \notin {"nil", "error"} => answer.code # "ok"
<1>1. CASE a.op = "AccountsGetUser"
  BY <1>1 DEF Result, AccountsResult, Failed
<1>2. CASE a.op # "AccountsGetUser"
  BY <1>2 DEF Result, ParseResponseAndError, Failed, ErrorOfDetails
<1> QED
  BY <1>1, <1>2

LEMMA InvInit == Init => IInv
  BY DEF Init, IInv, Shape, OnCalls, Fetching, Journey, PC, Nothing

(* The token source. *)
LEMMA FetchingStep == IInv /\ [Next]_vars => Fetching'
<1> SUFFICES ASSUME IInv, [Next]_vars PROVE Fetching'
  OBVIOUS
<1> USE ClientCallsAssumption DEF IInv, Shape, Fetching, PC, Goes, Returns, source, calls, sams
<1>1. ASSUME NEW d \in Calls, Begin(d) PROVE Fetching'
  BY <1>1 DEF Begin
<1>2. ASSUME NEW d \in Calls, Authorize(d) PROVE Fetching'
  BY <1>2 DEF Authorize
<1>3. ASSUME NEW d \in Calls, FetchToken(d) PROVE Fetching'
  BY <1>3 DEF FetchToken
<1>4. ASSUME NEW d \in Calls, OwnToken(d) \/ Send(d) \/ GiveUp(d) \/ Receive(d) \/ Break(d)
      PROVE  Fetching'
  BY <1>4 DEF OwnToken, Send, GiveUp, Receive, Break
<1>5. ASSUME NEW d \in Calls, ContextEnds(d) \/ Answers(d) PROVE Fetching'
  BY <1>5 DEF ContextEnds, Answers
<1>6. CASE TokenExpires \/ TokenEndpointHangs
  BY <1>6 DEF TokenExpires, TokenEndpointHangs
<1>7. CASE UNCHANGED vars
  BY <1>7 DEF vars
<1> QED
  BY <1>1, <1>2, <1>3, <1>4, <1>5, <1>6, <1>7 DEF Next, Step, Proceed

(* What another call does, or the world, that is nothing to c. *)
LEMMA OthersStay ==
    ASSUME NEW c \in Calls, Journey(c), pc'[c] = pc[c], flight'[c] = flight[c],
           result'[c] = result[c], executed'[c] = executed[c]
    PROVE  Journey(c)' /\ (Told(c)' = Told(c))
  BY DEF Journey, Told

(* A call is told of its result by Abstract!Tell, and carried out by       *)
(* Abstract!Execute; every other step of it tells and does nothing.        *)
Tells(c) ==
    /\ executed'[c] = executed[c]
    /\ \/ Told(c)' = Told(c)
       \/ /\ Told(c) = "nothing"
          /\ \/ executed[c] = 1 /\ Told(c)' = "done"
             \/ executed[c] = 0 /\ Told(c)' = "refused"
             \/ Told(c)' = "unknown"

Executes(c) ==
    /\ Told(c)' = Told(c)
    /\ executed[c] = 0
    /\ executed'[c] = 1
    /\ Told(c) \in {"nothing", "unknown"}

(* The steps of the caller's side. *)
CallerStep(d) ==
    \/ Begin(d) \/ OwnToken(d) \/ ContextEnds(d) \/ Authorize(d) \/ FetchToken(d) \/ Send(d)
    \/ GiveUp(d) \/ Break(d) \/ Receive(d)

LEMMA JourneyOfCaller ==
    ASSUME IInv, NEW d \in Calls, CallerStep(d)
    PROVE  Shape' /\ Journey(d)' /\ Tells(d)
<1> USE DEF IInv, Shape, OnCalls, PC, Goes, Returns, source, calls, sams, Failed
<1>1. CASE Begin(d)
  BY <1>1 DEF Begin, Journey, Tells, Told
<1>2. CASE ContextEnds(d) \/ Authorize(d)
  BY <1>2 DEF ContextEnds, Authorize, Journey, Tells, Told
<1>3. CASE OwnToken(d) \/ FetchToken(d)
  BY <1>3 DEF OwnToken, FetchToken, Journey, Tells, Told
<1>4. CASE Send(d)
  BY <1>4 DEF Send, Journey, Tells, Told
<1>5. CASE GiveUp(d) \/ Break(d)
  BY <1>5 DEF GiveUp, Break, Journey, Tells, Told
<1>6. CASE Receive(d)
  <2>1. /\ pc[d] = "waiting" /\ pc'[d] = "returned"
        /\ flight[d].kind = "answer" /\ flight' = flight /\ executed' = executed
        /\ result'[d] = Result(args[d], flight[d].answer)
        /\ Shape'
    BY <1>6 DEF Receive
  <2>2. /\ result'[d].err = "nil" => executed[d] = 1
        /\ result'[d].err \notin {"nil", "error"} => executed[d] = 0
    BY <2>1, ResultMeaning DEF Journey
  <2> QED
    BY <2>1, <2>2 DEF Journey, Tells, Told
<1> QED
  BY <1>1, <1>2, <1>3, <1>4, <1>5, <1>6 DEF CallerStep

LEMMA JourneyOfAnswer ==
    ASSUME IInv, NEW d \in Calls, Answers(d)
    PROVE  Shape' /\ Journey(d)' /\ (Tells(d) \/ Executes(d))
<1> USE DEF IInv, Shape, OnCalls, calls, source
<1>1. PICK answer :
        /\ flight[d].kind = "request"
        /\ flight' = [flight EXCEPT ![d] = [kind |-> "answer", answer |-> answer]]
        /\ executed' = IF answer.code = "ok"
                       THEN [executed EXCEPT ![d] = executed[d] + 1] ELSE executed
        /\ pc' = pc /\ result' = result
  BY DEF Answers
<1>2. executed[d] = 0 /\ Told(d)' = Told(d) /\ Told(d) \in {"nothing", "unknown"}
  BY <1>1 DEF Journey, Told
<1>3. Shape' /\ Journey(d)'
  BY <1>1, <1>2 DEF Journey
<1> QED
  BY <1>1, <1>2, <1>3 DEF Tells, Executes

(* What a step is to each call: one of the three. *)
LEMMA StepOfOne ==
    ASSUME IInv, [Next]_vars
    PROVE  /\ Shape' /\ \A c \in Calls : Journey(c)'
           /\ \E d \in Calls \cup {NoCall} :
                /\ d \in Calls => Tells(d) \/ Executes(d)
                /\ \A c \in Calls \ {d} : Told(c)' = Told(c) /\ executed'[c] = executed[c]
<1> USE DEF IInv
<1>1. ASSUME NEW d \in Calls, CallerStep(d) \/ Answers(d)
      PROVE  /\ Shape' /\ \A c \in Calls : Journey(c)'
             /\ Tells(d) \/ Executes(d)
             /\ \A c \in Calls \ {d} : Told(c)' = Told(c) /\ executed'[c] = executed[c]
  <2>1. Shape' /\ Journey(d)' /\ (Tells(d) \/ Executes(d))
    BY <1>1, JourneyOfCaller, JourneyOfAnswer
  <2>2. ASSUME NEW c \in Calls, c # d
        PROVE  /\ pc'[c] = pc[c] /\ flight'[c] = flight[c]
               /\ result'[c] = result[c] /\ executed'[c] = executed[c]
    <3>1. CASE CallerStep(d)
      BY <2>2, <3>1 DEF CallerStep, Begin, OwnToken, ContextEnds, Authorize, FetchToken, Send,
          GiveUp, Break, Receive, Shape, OnCalls, Goes, Returns, sams, source, calls
    <3>2. CASE Answers(d)
      BY <2>2, <3>2 DEF Answers, Shape, OnCalls, calls, source
    <3> QED
      BY <1>1, <3>1, <3>2
  <2> QED
    BY <2>1, <2>2, OthersStay
<1>2. CASE TokenExpires \/ TokenEndpointHangs \/ UNCHANGED vars
  <2>1. UNCHANGED <<pc, flight, result, executed>>
    BY <1>2 DEF TokenExpires, TokenEndpointHangs, vars, calls, sams
  <2>2. Shape'
    BY <2>1 DEF Shape, OnCalls
  <2>3. \A c \in Calls \ {NoCall} : Told(c)' = Told(c) /\ executed'[c] = executed[c]
    BY <2>1 DEF Told
  <2> QED
    BY <2>1, <2>2, <2>3, OthersStay, ClientCallsAssumption
<1> QED
  BY <1>1, <1>2 DEF Next, Step, Proceed, CallerStep

LEMMA Invariance == Spec => []IInv
<1>1. IInv /\ [Next]_vars => IInv'
  BY FetchingStep, StepOfOne DEF IInv
<1> QED
  BY <1>1, InvInit, PTL DEF Spec

-----------------------------------------------------------------------------
(* One call of the client at a time asks for a token, and only when there  *)
(* is none to be used.                                                     *)
THEOREM NewTokenWhenNeededHolds == Spec => []NewTokenWhenNeeded
<1>1. IInv => NewTokenWhenNeeded
  BY DEF IInv, Fetching, NewTokenWhenNeeded
<1> QED
  BY <1>1, Invariance, PTL

LEMMA AbstractStep ==
    IInv /\ [Next]_vars =>
        [Abstract!Next]_<<executed, [c \in Calls |-> Told(c)]>>
<1> SUFFICES ASSUME IInv, [Next]_vars
             PROVE  [Abstract!Next]_<<executed, [c \in Calls |-> Told(c)]>>
  OBVIOUS
<1> DEFINE told == [c \in Calls |-> Told(c)]
<1>1. executed \in [Calls -> {0, 1}] /\ executed' \in [Calls -> {0, 1}]
  BY StepOfOne DEF IInv, Shape
<1>2. told' = [c \in Calls |-> Told(c)']
  OBVIOUS
<1>3. PICK d \in Calls \cup {NoCall} :
        /\ d \in Calls => Tells(d) \/ Executes(d)
        /\ \A c \in Calls \ {d} : Told(c)' = Told(c) /\ executed'[c] = executed[c]
  BY StepOfOne
<1>4. CASE d \notin Calls
  BY <1>1, <1>2, <1>3, <1>4
<1>5. CASE d \in Calls /\ Executes(d)
  <2>1. told' = told /\ executed' = [executed EXCEPT ![d] = 1]
    BY <1>1, <1>2, <1>3, <1>5 DEF Executes
  <2>2. Abstract!Execute(d)
    BY <1>5, <2>1 DEF Executes, Abstract!Execute
  <2> QED
    BY <1>5, <2>2 DEF Abstract!Next
<1>6. CASE d \in Calls /\ Tells(d)
  <2>1. executed' = executed /\ told' = [told EXCEPT ![d] = Told(d)']
    <3>1. \A c \in Calls : executed'[c] = executed[c]
      BY <1>3, <1>6 DEF Tells
    <3>2. executed' = executed
      BY <1>1, <3>1
    <3>3. \A c \in Calls : Told(c)' = IF c = d THEN Told(d)' ELSE Told(c)
      BY <1>3
    <3> QED
      BY <1>2, <3>2, <3>3
  <2>2. CASE Told(d)' = Told(d)
    BY <1>1, <1>2, <1>3, <2>1, <2>2
  <2>3. CASE Told(d)' # Told(d)
    <3>1. Abstract!Tell(d)
      BY <1>6, <2>1, <2>3 DEF Tells, Abstract!Tell
    <3> QED
      BY <1>6, <3>1 DEF Abstract!Next
  <2> QED
    BY <2>2, <2>3
<1> QED
  BY <1>3, <1>4, <1>5, <1>6

(* The client implements the remote call that is carried out at most once. *)
THEOREM ClientImplementsAtMostOnce == Spec => ImplementsAtMostOnce
<1>1. Init => Abstract!Init
  BY DEF Init, Abstract!Init, Told
<1> QED
  BY <1>1, AbstractStep, Invariance, PTL DEF Spec, ImplementsAtMostOnce, Abstract!Spec

-----------------------------------------------------------------------------
(* What calls are told: the path of a method leads back to it (PathsLead), *)
(* what SAMS answers is about what was asked at that time (ServedIs), and  *)
(* what has become true since the call began stays true (Justified, Later).*)

(* Every path has a handler that switches on it, and no two. *)
LEMMA HandlersAreDisjoint ==
    /\ \A method \in DOMAIN UsersServiceClient :
        Handlers(UsersServiceClient[method]) = {method}
    /\ \A method \in DOMAIN SessionsServiceClient :
        Handlers(SessionsServiceClient[method]) = {method}
    /\ \A method \in DOMAIN TokensServiceClient :
        Handlers(TokensServiceClient[method]) = {method}
    /\ \A method \in DOMAIN RolesServiceClient :
        Handlers(RolesServiceClient[method]) = {method}
    /\ \A method \in DOMAIN ServiceAccessTokensServiceClient :
        Handlers(ServiceAccessTokensServiceClient[method]) = {method}
<1> USE DEF Handlers, NoMethod, UsersServiceHandler, SessionsServiceHandler,
        TokensServiceHandler, RolesServiceHandler, ServiceAccessTokensServiceHandler,
        UsersServiceGetUserProcedure, UsersServiceGetUsersProcedure,
        UsersServiceCreateUserProcedure, UsersServiceGetUserRolesProcedure,
        UsersServiceGetUserMetadataProcedure, UsersServiceUpdateUserMetadataProcedure,
        SessionsServiceGetSessionProcedure, SessionsServiceSignOutSessionProcedure,
        TokensServiceIntrospectTokenProcedure, RolesServiceRegisterRoleResourcesProcedure,
        CreateServiceAccessTokenProcedure, ListServiceAccessTokensProcedure,
        RevokeServiceAccessTokenProcedure
<1>1. ASSUME NEW method \in DOMAIN UsersServiceClient,
             NEW path, path = UsersServiceClient[method]
      PROVE  Handlers(path) = {method}
  BY <1>1 DEF UsersServiceClient
<1>2. ASSUME NEW method \in DOMAIN SessionsServiceClient,
             NEW path, path = SessionsServiceClient[method]
      PROVE  Handlers(path) = {method}
  BY <1>2 DEF SessionsServiceClient
<1>3. ASSUME NEW method \in DOMAIN TokensServiceClient,
             NEW path, path = TokensServiceClient[method]
      PROVE  Handlers(path) = {method}
  BY <1>3 DEF TokensServiceClient
<1>4. ASSUME NEW method \in DOMAIN RolesServiceClient,
             NEW path, path = RolesServiceClient[method]
      PROVE  Handlers(path) = {method}
  BY <1>4 DEF RolesServiceClient
<1>5. ASSUME NEW method \in DOMAIN ServiceAccessTokensServiceClient,
             NEW path, path = ServiceAccessTokensServiceClient[method]
      PROVE  Handlers(path) = {method}
  BY <1>5 DEF ServiceAccessTokensServiceClient
<1> QED
  BY <1>1, <1>2, <1>3, <1>4, <1>5

(* The wiring: each client posts a method where its handler expects it, no *)
(* other handler takes it, and the Accounts API is somewhere else.         *)
LEMMA PathsLead ==
    \A method \in Methods :
        Handlers(Path(method)) = {method} /\ Path(method) # AccountsUserPath
<1> USE DEF Path, AccountsUserPath, UsersServiceClient, SessionsServiceClient,
        TokensServiceClient, RolesServiceClient, ServiceAccessTokensServiceClient,
        UsersServiceGetUserProcedure, UsersServiceGetUsersProcedure,
        UsersServiceCreateUserProcedure, UsersServiceGetUserRolesProcedure,
        UsersServiceGetUserMetadataProcedure, UsersServiceUpdateUserMetadataProcedure,
        SessionsServiceGetSessionProcedure, SessionsServiceSignOutSessionProcedure,
        TokensServiceIntrospectTokenProcedure, RolesServiceRegisterRoleResourcesProcedure,
        CreateServiceAccessTokenProcedure, ListServiceAccessTokensProcedure,
        RevokeServiceAccessTokenProcedure
<1>1. ASSUME NEW method \in DOMAIN UsersServiceClient
      PROVE  Path(method) = UsersServiceClient[method] /\ Path(method) # AccountsUserPath
  BY <1>1
<1>2. ASSUME NEW method \in DOMAIN SessionsServiceClient
      PROVE  Path(method) = SessionsServiceClient[method] /\ Path(method) # AccountsUserPath
  BY <1>2
<1>3. ASSUME NEW method \in DOMAIN TokensServiceClient
      PROVE  Path(method) = TokensServiceClient[method] /\ Path(method) # AccountsUserPath
  BY <1>3
<1>4. ASSUME NEW method \in DOMAIN RolesServiceClient
      PROVE  Path(method) = RolesServiceClient[method] /\ Path(method) # AccountsUserPath
  BY <1>4
<1>5. ASSUME NEW method \in DOMAIN ServiceAccessTokensServiceClient
      PROVE  /\ Path(method) = ServiceAccessTokensServiceClient[method]
             /\ Path(method) # AccountsUserPath
  BY <1>5
<1> HIDE DEF Path, UsersServiceClient, SessionsServiceClient, TokensServiceClient,
        RolesServiceClient, ServiceAccessTokensServiceClient
<1> QED
  BY <1>1, <1>2, <1>3, <1>4, <1>5, HandlersAreDisjoint DEF Methods

-----------------------------------------------------------------------------
(* What is sent and who reads it *)

LEMMA RequestsAre ==
    ASSUME NEW a
    PROVE
        /\ a.op = "GetUserByID" => Prepare(a) = GetUserByID(a)
        /\ a.op = "GetUserByEmail" => Prepare(a) = GetUserByEmail(a)
        /\ a.op = "CreateUser" => Prepare(a) = CreateUser(a)
        /\ a.op = "GetUsersByIDs" => Prepare(a) = GetUsersByIDs(a)
        /\ a.op = "GetUserRolesByID" => Prepare(a) = GetUserRolesByID(a)
        /\ a.op = "GetUserMetadata" => Prepare(a) = GetUserMetadata(a)
        /\ a.op = "UpdateUserMetadata" => Prepare(a) = UpdateUserMetadata(a)
        /\ a.op = "SignOutSession" => Prepare(a) = SignOutSession(a)
        /\ a.op = "CreateServiceAccessToken" => Prepare(a) = CreateServiceAccessToken(a)
        /\ a.op = "ListServiceAccessTokens" => Prepare(a) = ListServiceAccessTokens(a)
        /\ a.op = "RevokeServiceAccessToken" => Prepare(a) = RevokeServiceAccessToken(a)
        /\ a.op = "AccountsGetUser" => Prepare(a) = AccountsGetUser
  BY Zenon DEF Prepare

LEMMA OutcomesAre ==
    ASSUME NEW m, NEW s, NEW c
    PROVE
        /\ Outcomes("GetUser", m, s, c) = OnGetUser(m, s)
        /\ Outcomes("CreateUser", m, s, c) = OnCreateUser(m, s, c)
        /\ Outcomes("GetUsers", m, s, c) = OnGetUsers(m, s)
        /\ Outcomes("GetUserRoles", m, s, c) = OnGetUserRoles(m, s)
        /\ Outcomes("GetUserMetadata", m, s, c) = OnGetUserMetadata(m, s)
        /\ Outcomes("UpdateUserMetadata", m, s, c) = OnUpdateUserMetadata(m, s)
        /\ Outcomes("SignOutSession", m, s, c) = OnSignOutSession(m, s)
        /\ Outcomes("CreateServiceAccessToken", m, s, c) = OnCreateServiceAccessToken(m, s, c)
        /\ Outcomes("ListServiceAccessTokens", m, s, c) = OnListServiceAccessTokens(m, s)
        /\ Outcomes("RevokeServiceAccessToken", m, s, c) = OnRevokeServiceAccessToken(m, s)
  BY Zenon DEF Outcomes

LEMMA ServedBy ==
    ASSUME NEW method \in Methods, NEW m, NEW s, NEW c
    PROVE  Serve(Path(method), m, s, c) = Refusals(s) \cup Outcomes(method, m, s, c)
<1>1. UNION {Outcomes(x, m, s, c) : x \in {method}} = Outcomes(method, m, s, c)
  OBVIOUS
<1> QED
  BY <1>1, PathsLead DEF Serve

LEMMA PreparedIs ==
    ASSUME NEW valid, NEW method, NEW message
    PROVE  /\ Prepared(valid, method, message).valid = valid
           /\ Prepared(valid, method, message).path = Path(method)
           /\ Prepared(valid, method, message).message = message
  BY DEF Prepared

(* The arguments that are refused. *)
LEMMA ValidIs ==
    ASSUME NEW a, Prepare(a).valid
    PROVE  /\ a.op = "CreateUser" => a.key # Empty
           /\ a.op = "CreateServiceAccessToken" => a.id # Empty
           /\ a.op = "UpdateUserMetadata" => NewStruct[a.value] # NoValue
<1>1. ASSUME NEW b, CreateUser(b).valid PROVE b.key # Empty
  BY <1>1, Zenon DEF CreateUser, Prepared
<1>2. ASSUME NEW b, CreateServiceAccessToken(b).valid PROVE b.id # Empty
  BY <1>2, Zenon DEF CreateServiceAccessToken, Prepared
<1>3. ASSUME NEW b, UpdateUserMetadata(b).valid PROVE NewStruct[b.value] # NoValue
  BY <1>3, Zenon DEF UpdateUserMetadata, Prepared
<1> QED
  BY <1>1, <1>2, <1>3, RequestsAre

(* What is sent of a document that can be. *)
LEMMA NewStructIs ==
    ASSUME NEW a \in Argument, Prepare(a).valid, a.op = "UpdateUserMetadata"
    PROVE  NewStruct[a.value] \in Values
<1>1. a.value \in Documents
  BY DEF Argument
<1> QED
  BY <1>1, ValidIs, NewStructAssumption

-----------------------------------------------------------------------------
(* What SAMS answers and does *)

Sound(s) ==
    /\ s \in SAMSRecords
    /\ \A u \in s.users : u.Id # Empty /\ u.Email # Empty

(* Every namespace of s that has metadata of a user has some in s2. *)
Keeps(s, s2) ==
    \A d \in s.metadata : \E e \in s2.metadata :
        e.UserId = d.UserId /\ e.Namespace = d.Namespace

LEMMA SameIsKept == ASSUME NEW s, NEW s2, s2.metadata = s.metadata PROVE Keeps(s, s2)
  BY DEF Keeps

(* Carrying out c takes no user, role or metadata away, brings no session, *)
(* and no token but the one that is named by c.                            *)
Effect(s, c, o) ==
    /\ Sound(o.records)
    /\ s.users \subseteq o.records.users
    /\ o.records.roles = s.roles
    /\ Keeps(s, o.records)
    /\ o.records.sessions \subseteq s.sessions
    /\ \A t \in o.records.tokens : t \in s.tokens \/ (t.Id = c /\ o.answer.code = "ok")

Mismatch(a, s) ==
    /\ a.op = "SignOutSession"
    /\ \E x \in s.sessions : x.Id = a.id /\ x.UserId # a.key

(* What a is told of outcome o in records s is true. *)
Answered(a, s, o) ==
    LET r == Result(a, o.answer) IN
    /\ r.err \in Errors
    /\ r.err = "nil" => Fits(a, r.value) /\ IsComplete(a, r.value, s, s)
    /\ r.err = "nil" /\ a.op = "RevokeServiceAccessToken" =>
        /\ \E t \in s.tokens : t.Id = a.id
        /\ \A t \in o.records.tokens : t.Id # a.id
    /\ r.err = "nil" /\ a.op = "SignOutSession" => \A x \in o.records.sessions : x.Id # a.id
    /\ r.err = "ErrNotFound" => Sought(a, s) = {}
    /\ r.err = "ErrRecordMismatch" => Mismatch(a, s)

LEMMA SoughtIs ==
    ASSUME NEW a, NEW s
    PROVE
        /\ a.op \in {"GetUserByID", "UpdateUserMetadata", "CreateServiceAccessToken"} =>
            Sought(a, s) = {u \in s.users : u.Id = a.id}
        /\ a.op = "GetUserByEmail" => Sought(a, s) = {u \in s.users : u.Email = a.key}
        /\ a.op = "RevokeServiceAccessToken" => Sought(a, s) = {t \in s.tokens : t.Id = a.id}
        /\ a.op \notin {"GetUserByID", "UpdateUserMetadata", "CreateServiceAccessToken",
                        "GetUserByEmail", "RevokeServiceAccessToken"} => Sought(a, s) = {}
<1>1. "GetUserByEmail" \notin {"GetUserByID", "UpdateUserMetadata", "CreateServiceAccessToken"}
  OBVIOUS
<1>2. "RevokeServiceAccessToken" \notin
        {"GetUserByID", "UpdateUserMetadata", "CreateServiceAccessToken", "GetUserByEmail"}
  OBVIOUS
<1>3. CASE a.op \in {"GetUserByID", "UpdateUserMetadata", "CreateServiceAccessToken"}
  BY <1>1, <1>2, <1>3, Zenon DEF Sought
<1>4. CASE a.op = "GetUserByEmail"
  BY <1>1, <1>2, <1>4, Zenon DEF Sought
<1>5. CASE a.op = "RevokeServiceAccessToken"
  BY <1>1, <1>2, <1>5, Zenon DEF Sought
<1>6. CASE a.op \notin {"GetUserByID", "UpdateUserMetadata", "CreateServiceAccessToken",
                        "GetUserByEmail", "RevokeServiceAccessToken"}
  BY <1>6, Zenon DEF Sought
<1> QED
  BY <1>3, <1>4, <1>5, <1>6

(* Only the methods that return lists can leave something out. *)
LEMMA NoList ==
    ASSUME NEW a, a.op \notin {"GetUsersByIDs", "GetUserRolesByID", "GetUserMetadata",
                               "ListServiceAccessTokens"}, NEW v, NEW b, NEW s
    PROVE  IsComplete(a, v, b, s)
  BY DEF IsComplete

LEMMA OfRefusal ==
    ASSUME NEW a, NEW s, Sound(s), NEW c, NEW code, code # "ok", NEW details,
           code = "not_found" => Sought(a, s) = {},
           ErrorOfDetails(details) = "ErrRecordMismatch" => Mismatch(a, s)
    PROVE  Effect(s, c, Refused(code, details, s)) /\ Answered(a, s, Refused(code, details, s))
<1> DEFINE answer == Answer(code, details, NoFields)
<1>1. Refused(code, details, s) = [answer |-> answer, records |-> s]
  BY DEF Refused, Outcome
<1>2. answer.code = code /\ answer.details = details
  BY DEF Answer
<1>3. ErrorOfDetails(details) \in {"ErrRecordMismatch", "error"}
  BY DEF ErrorOfDetails
<1>4. Result(a, answer).err \in {"ErrNotFound", "ErrAborted", "ErrRecordMismatch", "error"}
      /\ (Result(a, answer).err = "ErrNotFound" => code = "not_found")
      /\ (Result(a, answer).err = "ErrRecordMismatch" =>
            ErrorOfDetails(details) = "ErrRecordMismatch")
  <2>1. CASE a.op = "AccountsGetUser"
    BY <1>2, <2>1 DEF Result, AccountsResult, Failed
  <2>2. CASE a.op # "AccountsGetUser"
    <3>1. CASE code = "not_found"
      BY <1>2, <2>2, <3>1 DEF Result, ParseResponseAndError, Failed
    <3>2. CASE code = "aborted"
      BY <1>2, <2>2, <3>2 DEF Result, ParseResponseAndError, Failed
    <3>3. CASE code \notin {"not_found", "aborted"}
      <4>1. ParseResponseAndError(a, answer) = Failed(ErrorOfDetails(answer.details))
        BY <1>2, <3>3 DEF ParseResponseAndError
      <4> QED
        BY <1>2, <1>3, <2>2, <4>1 DEF Result, Failed
    <3> QED
      BY <3>1, <3>2, <3>3
  <2> QED
    BY <2>1, <2>2
<1>5. Answered(a, s, [answer |-> answer, records |-> s])
  BY <1>4 DEF Answered, Errors
<1> QED
  BY <1>1, <1>5, SameIsKept DEF Effect

LEMMA OfRefusals ==
    ASSUME NEW a, NEW s, Sound(s), NEW c, NEW o \in Refusals(s)
    PROVE  Effect(s, c, o) /\ Answered(a, s, o)
<1>1. ErrorOfDetails(<<>>) = "error" /\ ErrorOfDetails(<<"undecodable">>) = "error"
  BY DEF ErrorOfDetails
<1> QED
  BY <1>1, OfRefusal DEF Refusals, Unimplemented

LEMMA OfOK ==
    ASSUME NEW a, a.op # "AccountsGetUser", NEW s, NEW message
    PROVE  /\ OK(message, s).records = s
           /\ Result(a, OK(message, s).answer) = [err |-> "nil", value |-> Value(a, message)]
<1>1. /\ OK(message, s).records = s
      /\ OK(message, s).answer.code = "ok" /\ OK(message, s).answer.message = message
  BY DEF OK, Outcome, Answer
<1> QED
  BY <1>1 DEF Result, ParseResponseAndError

LEMMA ValueIs ==
    ASSUME NEW a, NEW message
    PROVE  /\ a.op \in {"GetUserByID", "GetUserByEmail", "CreateUser"} =>
                Value(a, message) = message.User
           /\ a.op = "GetUsersByIDs" => Value(a, message) = message.Users
           /\ a.op = "GetUserRolesByID" => Value(a, message) = message.UserRoles
           /\ a.op \in {"GetUserMetadata", "UpdateUserMetadata"} =>
                Value(a, message) = message.Metadata
           /\ a.op = "ListServiceAccessTokens" => Value(a, message) = message.Tokens
           /\ a.op = "CreateServiceAccessToken" => Value(a, message) = message
  BY DEF Value, Returned

LEMMA NoDetails == ErrorOfDetails(<<>>) = "error"
  BY DEF ErrorOfDetails

(* An answer that is not found, if it is true. *)
LEMMA OfNotFound ==
    ASSUME NEW a, NEW s, Sound(s), NEW c, Sought(a, s) = {}
    PROVE  Effect(s, c, NotFound(s)) /\ Answered(a, s, NotFound(s))
  BY OfRefusal, NoDetails DEF NotFound

LEMMA GetUserAnswers ==
    ASSUME NEW a, NEW s, Sound(s), NEW c, a.op \in {"GetUserByID", "GetUserByEmail"},
           NEW o \in OnGetUser(Prepare(a).message, s)
    PROVE  Effect(s, c, o) /\ Answered(a, s, o)
<1> DEFINE m == Prepare(a).message
           found == {u \in s.users : /\ m.Id \in {Empty, u.Id}
                                     /\ m.Email \in {Empty, u.Email}
                                     /\ m.Id # Empty \/ m.Email # Empty}
<1>1. /\ a.op = "GetUserByID" => m = [Id |-> a.id, Email |-> Empty]
      /\ a.op = "GetUserByEmail" => m = [Id |-> Empty, Email |-> a.key]
  BY RequestsAre DEF GetUserByID, GetUserByEmail, Prepared
<1>2. found = Sought(a, s)
  <2>1. CASE a.op = "GetUserByID"
    BY <1>1, <2>1, SoughtIs DEF Sound
  <2>2. CASE a.op = "GetUserByEmail"
    BY <1>1, <2>2, SoughtIs DEF Sound
  <2> QED
    BY <2>1, <2>2
<1>3. CASE o = NotFound(s) /\ found = {}
  BY <1>2, <1>3, OfNotFound
<1>4. CASE \E u \in found : o = OK([User |-> u], s)
  <2>1. PICK u \in found : o = OK([User |-> u], s)
    BY <1>4
  <2>2. o.records = s /\ Result(a, o.answer) = [err |-> "nil", value |-> u]
    BY <2>1, OfOK, ValueIs
  <2>3. Fits(a, u)
    BY <1>2, SoughtIs DEF Fits
  <2> QED
    BY <2>2, <2>3, NoList, SameIsKept DEF Effect, Answered, Errors
<1>5. OnGetUser(m, s) =
        IF found = {} THEN {NotFound(s)} ELSE {OK([User |-> u], s) : u \in found}
  BY DEF OnGetUser
<1> QED
  BY <1>3, <1>4, <1>5

LEMMA GetUsersAnswers ==
    ASSUME NEW a, NEW s, Sound(s), NEW c, a.op = "GetUsersByIDs",
           NEW o \in OnGetUsers(Prepare(a).message, s)
    PROVE  Effect(s, c, o) /\ Answered(a, s, o)
<1>1. Prepare(a).message = [Ids |-> a.set]
  BY RequestsAre DEF GetUsersByIDs, Prepared
<1> DEFINE found == {u \in s.users : u.Id \in a.set}
<1>2. o = OK([Users |-> found], s)
  BY <1>1 DEF OnGetUsers
<1>3. o.records = s /\ Result(a, o.answer) = [err |-> "nil", value |-> found]
  BY <1>2, OfOK, ValueIs
<1>4. Fits(a, found) /\ IsComplete(a, found, s, s)
  BY DEF Fits, IsComplete
<1> QED
  BY <1>3, <1>4, SameIsKept DEF Effect, Answered, Errors

LEMMA GetUserRolesAnswers ==
    ASSUME NEW a, NEW s, Sound(s), NEW c, a.op = "GetUserRolesByID",
           NEW o \in OnGetUserRoles(Prepare(a).message, s)
    PROVE  Effect(s, c, o) /\ Answered(a, s, o)
<1>1. Prepare(a).message = [Id |-> a.id, Service |-> a.key]
  BY RequestsAre DEF GetUserRolesByID, Prepared
<1> DEFINE found == {[RoleId |-> r.RoleId, Service |-> r.Service] :
                        r \in {g \in s.roles : g.UserId = a.id /\ g.Service = a.key}}
<1>2. o = OK([UserRoles |-> found], s)
  BY <1>1 DEF OnGetUserRoles
<1>3. o.records = s /\ Result(a, o.answer) = [err |-> "nil", value |-> found]
  BY <1>2, OfOK, ValueIs
<1>4. Fits(a, found) /\ IsComplete(a, found, s, s)
  BY DEF Fits, IsComplete
<1> QED
  BY <1>3, <1>4, SameIsKept DEF Effect, Answered, Errors

LEMMA GetUserMetadataAnswers ==
    ASSUME NEW a, NEW s, Sound(s), NEW c, a.op = "GetUserMetadata",
           NEW o \in OnGetUserMetadata(Prepare(a).message, s)
    PROVE  Effect(s, c, o) /\ Answered(a, s, o)
<1>1. Prepare(a).message = [Id |-> a.id, Namespaces |-> a.set]
  BY RequestsAre DEF GetUserMetadata, Prepared
<1> DEFINE found == {d \in s.metadata : d.UserId = a.id /\ IsAsked(d.Namespace, a.set)}
<1> DEFINE message == [Metadata |-> found]
<1>2. o = OK(message, s)
  BY <1>1 DEF OnGetUserMetadata
<1>3. o.records = s /\ Result(a, o.answer) = [err |-> "nil", value |-> found]
  <2>1. Value(a, message) = found
    BY ValueIs
  <2> HIDE DEF message, found
  <2> QED
    BY <1>2, <2>1, OfOK
<1>4. Fits(a, found) /\ IsComplete(a, found, s, s)
  BY DEF Fits, IsComplete
<1> QED
  BY <1>3, <1>4, SameIsKept DEF Effect, Answered, Errors

LEMMA UpdateUserMetadataAnswers ==
    ASSUME NEW a \in Argument, NEW s, Sound(s), NEW c, a.op = "UpdateUserMetadata",
           Prepare(a).valid, NEW o \in OnUpdateUserMetadata(Prepare(a).message, s)
    PROVE  Effect(s, c, o) /\ Answered(a, s, o)
<1> DEFINE d == [UserId |-> a.id, Namespace |-> a.key, Metadata |-> NewStruct[a.value]]
           m == [Metadata |-> d]
           s2 == [s EXCEPT !.metadata =
                    {e \in s.metadata : e.UserId # a.id \/ e.Namespace # a.key} \cup {d}]
<1>1. Prepare(a).message = m
  BY RequestsAre DEF UpdateUserMetadata, Prepared
<1>2. CASE a.key = AllNamespaces
  <2>1. o = Refused("invalid_argument", <<>>, s)
    BY <1>1, <1>2 DEF OnUpdateUserMetadata
  <2> QED
    BY <2>1, OfRefusal, NoDetails
<1>3. CASE a.key # AllNamespaces /\ \E u \in s.users : u.Id = a.id
  <2>1. o = OK(m, s2)
    <3>1. m.Metadata = d /\ d.UserId = a.id /\ d.Namespace = a.key
      OBVIOUS
    <3> HIDE DEF d, m
    <3>2. OnUpdateUserMetadata(m, s) = {OK(m, s2)}
      BY <1>3, <3>1, Zenon DEF OnUpdateUserMetadata
    <3> QED
      BY <1>1, <3>2, Zenon
  <2>2. o.records = s2 /\ Result(a, o.answer) = [err |-> "nil", value |-> d]
    BY <2>1, OfOK, ValueIs
  <2>3. d \in UserServiceMetadata
    BY NewStructIs DEF Argument, UserServiceMetadata
  <2>4. /\ s2 \in SAMSRecords /\ s2.users = s.users /\ s2.roles = s.roles
        /\ s2.sessions = s.sessions /\ s2.tokens = s.tokens
        /\ s2.metadata =
            {e \in s.metadata : e.UserId # a.id \/ e.Namespace # a.key} \cup {d}
    BY <2>3 DEF Sound, SAMSRecords
  <2>5. Keeps(s, s2)
    <3>1. d.UserId = a.id /\ d.Namespace = a.key
      OBVIOUS
    <3> HIDE DEF d, s2
    <3> QED
      BY <2>4, <3>1 DEF Keeps
  <2>6. Effect(s, c, o)
    BY <2>2, <2>4, <2>5 DEF Effect, Sound
  <2> QED
    BY <1>3, <2>2, <2>6, NoList DEF Answered, Errors, Fits
<1>4. CASE a.key # AllNamespaces /\ ~ \E u \in s.users : u.Id = a.id
  <2>1. o = NotFound(s)
    BY <1>1, <1>4 DEF OnUpdateUserMetadata
  <2> QED
    BY <1>4, <2>1, OfNotFound, SoughtIs
<1> QED
  BY <1>2, <1>3, <1>4

LEMMA CreateUserAnswers ==
    ASSUME NEW a \in Argument, NEW s, Sound(s), NEW c \in Calls, a.op = "CreateUser",
           Prepare(a).valid, NEW o \in OnCreateUser(Prepare(a).message, s, c)
    PROVE  Effect(s, c, o) /\ Answered(a, s, o)
<1> DEFINE u == [Id |-> c, Email |-> a.key]
           s2 == [s EXCEPT !.users = s.users \cup {u}]
<1>1. Prepare(a).message = [Email |-> a.key] /\ a.key # Empty
  BY RequestsAre, PreparedIs, ValidIs DEF CreateUser
<1>2. CASE \E x \in s.users : x.Email = a.key
  <2>1. o = Refused("already_exists", <<>>, s)
    BY <1>1, <1>2 DEF OnCreateUser
  <2> QED
    BY <2>1, OfRefusal, NoDetails
<1>3. CASE ~ \E x \in s.users : x.Email = a.key
  <2>1. o = OK([User |-> u], s2)
    BY <1>1, <1>3 DEF OnCreateUser
  <2>2. o.records = s2 /\ Result(a, o.answer) = [err |-> "nil", value |-> u]
    BY <2>1, OfOK, ValueIs
  <2>3. u \in User
    BY ClientCallsAssumption DEF Argument, User
  <2>4. /\ s2 \in SAMSRecords /\ s2.users = s.users \cup {u} /\ s2.roles = s.roles
        /\ s2.sessions = s.sessions /\ s2.tokens = s.tokens /\ s2.metadata = s.metadata
    BY <2>3 DEF Sound, SAMSRecords
  <2>5. Effect(s, c, o)
    <3>1. u.Id # Empty /\ u.Email # Empty
      BY <1>1, ClientCallsAssumption
    <3> HIDE DEF u, s2
    <3>2. Sound(s2) /\ Keeps(s, s2)
      BY <2>4, <3>1, SameIsKept DEF Sound
    <3> QED
      BY <2>2, <2>4, <3>2 DEF Effect
  <2> QED
    BY <2>2, <2>5, NoList DEF Answered, Errors, Fits
<1> QED
  BY <1>2, <1>3

LEMMA SignOutSessionAnswers ==
    ASSUME NEW a \in Argument, NEW s, Sound(s), NEW c, a.op = "SignOutSession",
           NEW o \in OnSignOutSession(Prepare(a).message, s)
    PROVE  Effect(s, c, o) /\ Answered(a, s, o)
<1> DEFINE s2 == [s EXCEPT !.sessions = {x \in s.sessions : x.Id # a.id}]
<1>1. Prepare(a).message = [Id |-> a.id, UserId |-> a.key]
  BY RequestsAre DEF SignOutSession, Prepared
<1>2. CASE Mismatch(a, s)
  <2>1. \E details : o = Refused("failed_precondition", details, s)
    BY <1>1, <1>2 DEF OnSignOutSession, Mismatch
  <2> QED
    BY <1>2, <2>1, OfRefusal
<1>3. CASE ~Mismatch(a, s)
  <2>1. o = OK(NoFields, s2)
    BY <1>1, <1>3 DEF OnSignOutSession, Mismatch
  <2>2. o.records = s2 /\ Result(a, o.answer).err = "nil"
    <3> HIDE DEF s2
    <3>1. o.records = s2 /\ Result(a, o.answer) = [err |-> "nil", value |-> Value(a, NoFields)]
      BY <2>1, OfOK
    <3> QED
      BY <3>1
  <2>3. /\ s2 \in SAMSRecords /\ s2.users = s.users /\ s2.tokens = s.tokens
        /\ s2.roles = s.roles /\ s2.metadata = s.metadata
        /\ s2.sessions = {x \in s.sessions : x.Id # a.id}
    BY DEF Sound, SAMSRecords
  <2>4. Effect(s, c, o)
    BY <2>2, <2>3, SameIsKept DEF Effect, Sound
  <2> QED
    BY <2>2, <2>3, <2>4, NoList DEF Answered, Errors, Fits
<1> QED
  BY <1>2, <1>3

LEMMA NamedToken ==
    ASSUME NEW service, NEW scopes, NEW user, NEW expired, NEW c, NEW t,
           t = [Id |-> Empty, Service |-> service, Scopes |-> scopes, UserId |-> user,
                Expired |-> expired]
    PROVE  [t EXCEPT !.Id = c]
            = [Id |-> c, Service |-> service, Scopes |-> scopes, UserId |-> user,
               Expired |-> expired]
  OBVIOUS

LEMMA CreateServiceAccessTokenAnswers ==
    ASSUME NEW a \in Argument, NEW s, Sound(s), NEW c \in Calls,
           a.op = "CreateServiceAccessToken",
           NEW o \in OnCreateServiceAccessToken(Prepare(a).message, s, c)
    PROVE  Effect(s, c, o) /\ Answered(a, s, o)
<1> DEFINE t == [Id |-> c, Service |-> a.key, Scopes |-> a.set, UserId |-> a.id,
                 Expired |-> FALSE]
           s2 == [s EXCEPT !.tokens = s.tokens \cup {t}]
           message == [Token |-> t, Secret |-> c]
<1>1. Prepare(a).message =
        [Token |-> [Id |-> Empty, Service |-> a.key, Scopes |-> a.set, UserId |-> a.id,
                    Expired |-> FALSE]]
  BY RequestsAre, PreparedIs DEF CreateServiceAccessToken
<1>2. CASE \E u \in s.users : u.Id = a.id
  <2>1. [Prepare(a).message.Token EXCEPT !.Id = c] = t
    <3>1. PICK expired : expired = FALSE
      OBVIOUS
    <3>2. Prepare(a).message.Token =
            [Id |-> Empty, Service |-> a.key, Scopes |-> a.set, UserId |-> a.id,
             Expired |-> FALSE]
      BY <1>1
    <3>3. Prepare(a).message.Token =
            [Id |-> Empty, Service |-> a.key, Scopes |-> a.set, UserId |-> a.id,
             Expired |-> expired]
      BY <3>1, <3>2, Zenon
    <3>4. t = [Id |-> c, Service |-> a.key, Scopes |-> a.set, UserId |-> a.id,
               Expired |-> expired]
      BY <3>1, Zenon
    <3> HIDE DEF t
    <3> QED
      BY <3>3, <3>4, NamedToken
  <2>2. Prepare(a).message.Token.UserId = a.id
    BY <1>1
  <2>3. o = OK(message, s2)
    BY <1>2, <2>1, <2>2 DEF OnCreateServiceAccessToken
  <2>4. Value(a, message) = message
    BY ValueIs
  <2>5. o.records = s2 /\ Result(a, o.answer) = [err |-> "nil", value |-> message]
    <3> HIDE DEF message, s2
    <3> QED
      BY <2>3, <2>4, OfOK
  <2>6. t \in ServiceAccessToken
    BY ClientCallsAssumption DEF Argument, ServiceAccessToken
  <2>7. /\ s2 \in SAMSRecords /\ s2.users = s.users
        /\ s2.sessions = s.sessions /\ s2.tokens = s.tokens \cup {t}
        /\ s2.roles = s.roles /\ s2.metadata = s.metadata
    BY <2>6 DEF Sound, SAMSRecords
  <2>8. Effect(s, c, o)
    <3>1. o.answer.code = "ok"
      BY <2>3 DEF OK, Outcome, Answer
    <3> HIDE DEF s2
    <3>2. Sound(s2) /\ Keeps(s, s2)
      BY <2>7, SameIsKept DEF Sound
    <3>3. t.Id = c
      OBVIOUS
    <3> HIDE DEF t
    <3> QED
      BY <2>5, <2>7, <3>1, <3>2, <3>3 DEF Effect
  <2>9. Fits(a, message)
    BY ClientCallsAssumption DEF Fits
  <2> QED
    BY <2>5, <2>8, <2>9, NoList DEF Answered, Errors
<1>3. CASE ~ \E u \in s.users : u.Id = a.id
  <2>1. Prepare(a).message.Token.UserId = a.id
    BY <1>1
  <2>2. o = NotFound(s)
    BY <1>3, <2>1 DEF OnCreateServiceAccessToken
  <2> QED
    BY <1>3, <2>2, OfNotFound, SoughtIs
<1> QED
  BY <1>2, <1>3

(* The filters of the options a let exactly the tokens through that are asked for. *)
LEMMA FiltersAre ==
    ASSUME NEW a \in Argument, a.op = "ListServiceAccessTokens", NEW t
    PROVE  Passes(t, Filters(a)) <=> IsListed(a, t)
<1>1. /\ [ShowExpired |-> TRUE] # [Service |-> a.key]
      /\ [ShowExpired |-> TRUE] # [UserId |-> a.id]
  OBVIOUS
<1>2. [ShowExpired |-> TRUE] \in Filters(a) <=> a.expired
  BY <1>1, Zenon DEF Filters
<1> DEFINE Lets(filter) == /\ "Service" \in DOMAIN filter => t.Service = filter.Service
                           /\ "UserId" \in DOMAIN filter => t.UserId = filter.UserId
<1>3. /\ Lets([Service |-> a.key]) <=> t.Service = a.key
      /\ Lets([UserId |-> a.id]) <=> t.UserId = a.id
      /\ Lets([ShowExpired |-> TRUE])
  OBVIOUS
<1>4. Passes(t, Filters(a)) <=> /\ \A filter \in Filters(a) : Lets(filter)
                                /\ t.Expired => a.expired
  BY <1>2, Zenon DEF Passes
<1> HIDE DEF Lets
<1>5. ASSUME \A filter \in Filters(a) : Lets(filter)
      PROVE  a.key \in {Empty, t.Service} /\ a.id \in {Empty, t.UserId}
  <2>1. a.key # Empty => [Service |-> a.key] \in Filters(a)
    BY Zenon DEF Filters
  <2>2. a.id # Empty => [UserId |-> a.id] \in Filters(a)
    BY Zenon DEF Filters
  <2> QED
    BY <1>3, <1>5, <2>1, <2>2
<1>6. ASSUME a.key \in {Empty, t.Service}, a.id \in {Empty, t.UserId},
             NEW filter \in Filters(a)
      PROVE  Lets(filter)
  <2>1. \/ a.key # Empty /\ filter = [Service |-> a.key]
        \/ a.id # Empty /\ filter = [UserId |-> a.id]
        \/ filter = [ShowExpired |-> TRUE]
    BY Zenon DEF Filters
  <2> QED
    BY <1>3, <1>6, <2>1
<1> QED
  BY <1>4, <1>5, <1>6, Zenon DEF IsListed

(* What a list may be answered: any part of what passes, and some of it. *)
LEMMA PageIs ==
    ASSUME NEW m, NEW s, NEW o \in OnListServiceAccessTokens(m, s)
    PROVE  \E page \in SUBSET s.tokens :
                /\ \A t \in page : Passes(t, m.Filters)
                /\ page = {} => \A t \in s.tokens : ~Passes(t, m.Filters)
                /\ o = OK([Tokens |-> page], s)
<1> DEFINE found == {t \in s.tokens : Passes(t, m.Filters)}
<1>1. PICK page \in Pages(found) : o = OK([Tokens |-> page], s)
  BY Zenon DEF OnListServiceAccessTokens
<1>2. page \in SUBSET found /\ (page = {} => found = {})
  <2> HIDE DEF found
  <2> QED
    BY DEF Pages
<1> QED
  BY <1>1, <1>2

LEMMA ListServiceAccessTokensAnswers ==
    ASSUME NEW a \in Argument, NEW s, Sound(s), NEW c, a.op = "ListServiceAccessTokens",
           NEW o \in OnListServiceAccessTokens(Prepare(a).message, s)
    PROVE  Effect(s, c, o) /\ Answered(a, s, o)
<1>1. Prepare(a).message = [Filters |-> Filters(a)]
  BY RequestsAre DEF ListServiceAccessTokens, Prepared
<1>2. PICK page \in SUBSET s.tokens :
        /\ \A t \in page : IsListed(a, t)
        /\ page = {} => \A t \in s.tokens : ~IsListed(a, t)
        /\ o = OK([Tokens |-> page], s)
  <2>1. Prepare(a).message.Filters = Filters(a)
    BY <1>1
  <2>2. PICK page \in SUBSET s.tokens :
          /\ \A t \in page : Passes(t, Filters(a))
          /\ page = {} => \A t \in s.tokens : ~Passes(t, Filters(a))
          /\ o = OK([Tokens |-> page], s)
    BY <2>1, PageIs
  <2> QED
    BY <2>2, FiltersAre
<1>3. o.records = s /\ Result(a, o.answer) = [err |-> "nil", value |-> page]
  <2> DEFINE message == [Tokens |-> page]
  <2>1. Value(a, message) = page
    BY ValueIs
  <2> HIDE DEF message
  <2> QED
    BY <1>2, <2>1, OfOK DEF message
<1>4. Fits(a, page)
  BY <1>2 DEF Fits
<1>5. IsComplete(a, page, s, s)
  BY <1>2 DEF IsComplete
<1> QED
  BY <1>3, <1>4, <1>5, SameIsKept DEF Effect, Answered, Errors

LEMMA RevokeServiceAccessTokenAnswers ==
    ASSUME NEW a \in Argument, NEW s, Sound(s), NEW c, a.op = "RevokeServiceAccessToken",
           NEW o \in OnRevokeServiceAccessToken(Prepare(a).message, s)
    PROVE  Effect(s, c, o) /\ Answered(a, s, o)
<1> DEFINE s2 == [s EXCEPT !.tokens = {t \in s.tokens : t.Id # a.id}]
<1>1. Prepare(a).message = [Id |-> a.id]
  BY RequestsAre, PreparedIs DEF RevokeServiceAccessToken
<1>2. CASE \E t \in s.tokens : t.Id = a.id
  <2>1. o = OK(NoFields, s2)
    BY <1>1, <1>2 DEF OnRevokeServiceAccessToken
  <2>2. o.records = s2 /\ Result(a, o.answer).err = "nil"
    <3> HIDE DEF s2
    <3>1. o.records = s2 /\ Result(a, o.answer) = [err |-> "nil", value |-> Value(a, NoFields)]
      BY <2>1, OfOK
    <3> QED
      BY <3>1
  <2>3. /\ s2 \in SAMSRecords /\ s2.users = s.users /\ s2.sessions = s.sessions
        /\ s2.roles = s.roles /\ s2.metadata = s.metadata
        /\ s2.tokens = {t \in s.tokens : t.Id # a.id}
    BY DEF Sound, SAMSRecords
  <2>4. Effect(s, c, o)
    BY <2>2, <2>3, SameIsKept DEF Effect, Sound
  <2> QED
    BY <1>2, <2>2, <2>3, <2>4, NoList DEF Answered, Errors, Fits
<1>3. CASE ~ \E t \in s.tokens : t.Id = a.id
  <2>1. o = NotFound(s)
    BY <1>1, <1>3 DEF OnRevokeServiceAccessToken
  <2> QED
    BY <1>3, <2>1, OfNotFound, SoughtIs
<1> QED
  BY <1>2, <1>3

LEMMA AccountsAnswers ==
    ASSUME NEW a, NEW s, Sound(s), NEW c, a.op = "AccountsGetUser",
           NEW o \in OnAccountsGetUser(s)
    PROVE  Effect(s, c, o) /\ Answered(a, s, o)
<1>1. CASE o = Refused("not_found", <<>>, s)
  BY <1>1, OfRefusal, NoDetails, SoughtIs
<1>2. CASE \E details : o = Outcome(Answer("ok", details, [User |-> AccountsUser]), s)
  <2>1. o.records = s /\ o.answer.code = "ok" /\ o.answer.message.User = AccountsUser
    BY <1>2 DEF Outcome, Answer
  <2>2. Result(a, o.answer) = AccountsResult(o.answer)
    BY DEF Result
  <2>3. Result(a, o.answer) \in {[err |-> "nil", value |-> AccountsUser], Failed("error")}
    BY <2>1, <2>2 DEF AccountsResult
  <2> QED
    BY <2>1, <2>3, NoList, SameIsKept DEF Effect, Answered, Errors, Failed, Fits
<1> QED
  BY <1>1, <1>2 DEF OnAccountsGetUser, OK

LEMMA MethodsAre ==
    {"GetUser", "GetUsers", "CreateUser", "GetUserRoles", "GetUserMetadata",
     "UpdateUserMetadata", "SignOutSession", "CreateServiceAccessToken",
     "ListServiceAccessTokens", "RevokeServiceAccessToken"} \subseteq Methods
  BY DEF Methods, UsersServiceClient, SessionsServiceClient, TokensServiceClient,
    RolesServiceClient, ServiceAccessTokensServiceClient

LEMMA PathOf ==
    ASSUME NEW a
    PROVE
        /\ a.op = "GetUserByID" => Prepare(a).path = Path("GetUser")
        /\ a.op = "GetUserByEmail" => Prepare(a).path = Path("GetUser")
        /\ a.op = "CreateUser" => Prepare(a).path = Path("CreateUser")
        /\ a.op = "GetUsersByIDs" => Prepare(a).path = Path("GetUsers")
        /\ a.op = "GetUserRolesByID" => Prepare(a).path = Path("GetUserRoles")
        /\ a.op = "GetUserMetadata" => Prepare(a).path = Path("GetUserMetadata")
        /\ a.op = "UpdateUserMetadata" => Prepare(a).path = Path("UpdateUserMetadata")
        /\ a.op = "SignOutSession" => Prepare(a).path = Path("SignOutSession")
        /\ a.op = "CreateServiceAccessToken" =>
            Prepare(a).path = Path("CreateServiceAccessToken")
        /\ a.op = "ListServiceAccessTokens" =>
            Prepare(a).path = Path("ListServiceAccessTokens")
        /\ a.op = "RevokeServiceAccessToken" =>
            Prepare(a).path = Path("RevokeServiceAccessToken")
        /\ a.op = "AccountsGetUser" => Prepare(a).path = AccountsUserPath
<1>1. ASSUME NEW b
      PROVE  /\ GetUserByID(b).path = Path("GetUser")
             /\ GetUserByEmail(b).path = Path("GetUser")
             /\ CreateUser(b).path = Path("CreateUser")
             /\ GetUsersByIDs(b).path = Path("GetUsers")
             /\ GetUserRolesByID(b).path = Path("GetUserRoles")
             /\ GetUserMetadata(b).path = Path("GetUserMetadata")
             /\ UpdateUserMetadata(b).path = Path("UpdateUserMetadata")
             /\ SignOutSession(b).path = Path("SignOutSession")
             /\ CreateServiceAccessToken(b).path = Path("CreateServiceAccessToken")
             /\ ListServiceAccessTokens(b).path = Path("ListServiceAccessTokens")
             /\ RevokeServiceAccessToken(b).path = Path("RevokeServiceAccessToken")
  BY Zenon DEF Prepared, GetUserByID, GetUserByEmail, CreateUser, GetUsersByIDs,
    GetUserRolesByID, GetUserMetadata, UpdateUserMetadata, SignOutSession,
    CreateServiceAccessToken, ListServiceAccessTokens, RevokeServiceAccessToken
<1>2. AccountsGetUser.path = AccountsUserPath
  BY DEF AccountsGetUser
<1> QED
  BY <1>1, <1>2, RequestsAre

LEMMA OpsAre ==
    ASSUME NEW a \in Argument
    PROVE  a.op \in {"GetUserByID", "GetUserByEmail", "CreateUser", "GetUsersByIDs",
             "GetUserRolesByID", "GetUserMetadata", "UpdateUserMetadata",
             "SignOutSession", "CreateServiceAccessToken", "ListServiceAccessTokens",
             "RevokeServiceAccessToken", "AccountsGetUser"}
  BY DEF Argument

(* Whatever SAMS answers to a request is true of its records. *)
LEMMA ServedIs ==
    ASSUME NEW a \in Argument, Prepare(a).valid, NEW s, Sound(s), NEW c \in Calls,
           NEW o \in Serve(Prepare(a).path, Prepare(a).message, s, c)
    PROVE  Effect(s, c, o) /\ Answered(a, s, o)
<1> DEFINE m == Prepare(a).message
<1>1. CASE o \in Refusals(s)
  BY <1>1, OfRefusals
<1>2. CASE a.op = "GetUserByID" /\ o \notin Refusals(s)
  <2>1. o \in Outcomes("GetUser", m, s, c)
    BY <1>2, PathOf, MethodsAre, ServedBy
  <2> QED
    BY <1>2, <2>1, OutcomesAre, GetUserAnswers
<1>3. CASE a.op = "GetUserByEmail" /\ o \notin Refusals(s)
  <2>1. o \in Outcomes("GetUser", m, s, c)
    BY <1>3, PathOf, MethodsAre, ServedBy
  <2> QED
    BY <1>3, <2>1, OutcomesAre, GetUserAnswers
<1>4. CASE a.op = "CreateUser" /\ o \notin Refusals(s)
  <2>1. o \in Outcomes("CreateUser", m, s, c)
    BY <1>4, PathOf, MethodsAre, ServedBy
  <2> QED
    BY <1>4, <2>1, OutcomesAre, CreateUserAnswers
<1>5. CASE a.op = "GetUsersByIDs" /\ o \notin Refusals(s)
  <2>1. o \in Outcomes("GetUsers", m, s, c)
    BY <1>5, PathOf, MethodsAre, ServedBy
  <2> QED
    BY <1>5, <2>1, OutcomesAre, GetUsersAnswers
<1>6. CASE a.op = "GetUserRolesByID" /\ o \notin Refusals(s)
  <2>1. o \in Outcomes("GetUserRoles", m, s, c)
    BY <1>6, PathOf, MethodsAre, ServedBy
  <2> QED
    BY <1>6, <2>1, OutcomesAre, GetUserRolesAnswers
<1>7. CASE a.op = "GetUserMetadata" /\ o \notin Refusals(s)
  <2>1. o \in Outcomes("GetUserMetadata", m, s, c)
    BY <1>7, PathOf, MethodsAre, ServedBy
  <2> QED
    BY <1>7, <2>1, OutcomesAre, GetUserMetadataAnswers
<1>8. CASE a.op = "UpdateUserMetadata" /\ o \notin Refusals(s)
  <2>1. o \in Outcomes("UpdateUserMetadata", m, s, c)
    BY <1>8, PathOf, MethodsAre, ServedBy
  <2> QED
    BY <1>8, <2>1, OutcomesAre, UpdateUserMetadataAnswers
<1>9. CASE a.op = "SignOutSession" /\ o \notin Refusals(s)
  <2>1. o \in Outcomes("SignOutSession", m, s, c)
    BY <1>9, PathOf, MethodsAre, ServedBy
  <2> QED
    BY <1>9, <2>1, OutcomesAre, SignOutSessionAnswers
<1>10. CASE a.op = "CreateServiceAccessToken" /\ o \notin Refusals(s)
  <2>1. o \in Outcomes("CreateServiceAccessToken", m, s, c)
    BY <1>10, PathOf, MethodsAre, ServedBy
  <2> QED
    BY <1>10, <2>1, OutcomesAre, CreateServiceAccessTokenAnswers
<1>11. CASE a.op = "ListServiceAccessTokens" /\ o \notin Refusals(s)
  <2>1. o \in Outcomes("ListServiceAccessTokens", m, s, c)
    BY <1>11, PathOf, MethodsAre, ServedBy
  <2> QED
    BY <1>11, <2>1, OutcomesAre, ListServiceAccessTokensAnswers
<1>12. CASE a.op = "RevokeServiceAccessToken" /\ o \notin Refusals(s)
  <2>1. o \in Outcomes("RevokeServiceAccessToken", m, s, c)
    BY <1>12, PathOf, MethodsAre, ServedBy
  <2> QED
    BY <1>12, <2>1, OutcomesAre, RevokeServiceAccessTokenAnswers
<1>13. CASE a.op = "AccountsGetUser" /\ o \notin Refusals(s)
  <2>1. o \in OnAccountsGetUser(s)
    BY <1>13, PathOf DEF Serve
  <2> QED
    BY <1>13, <2>1, AccountsAnswers
<1> QED
  BY <1>1, <1>2, <1>3, <1>4, <1>5, <1>6, <1>7, <1>8, <1>9, <1>10, <1>11, <1>12, <1>13, OpsAre

-----------------------------------------------------------------------------
(* What stays true *)

(* No token has the identifier, and none will. *)
Gone(id, s, e) ==
    /\ \A t \in s.tokens : t.Id # id
    /\ id \in Calls => e[id] = 1

(* A result of a, which began in records b, is true in records s: that is  *)
(* AnswerFitsRequest and ErrorsAreTrue, with Gone for what is missing now. *)
Justified(a, b, s, e, r) ==
    /\ r.err = "nil" => Fits(a, r.value) /\ IsComplete(a, r.value, b, s)
    /\ r.err = "nil" /\ a.op = "RevokeServiceAccessToken" => Gone(a.id, s, e)
    /\ r.err = "nil" /\ a.op = "SignOutSession" => \A x \in s.sessions : x.Id # a.id
    /\ r.err = "ErrNotFound" =>
        \/ Sought(a, b) = {}
        \/ a.op = "RevokeServiceAccessToken" /\ Gone(a.id, s, e)
    /\ r.err = "ErrRecordMismatch" => Mismatch(a, b)

(* How the records change: users, roles and namespaces are not removed,    *)
(* sessions not added, and the name of a token that is new has not been    *)
(* used.                                                                   *)
Later(s, e, s2, e2) ==
    /\ s.users \subseteq s2.users
    /\ s2.roles = s.roles
    /\ Keeps(s, s2)
    /\ s2.sessions \subseteq s.sessions
    /\ \A t \in s2.tokens : t \in s.tokens \/ (t.Id \in Calls /\ e[t.Id] = 0)
    /\ \A c \in Calls : e[c] = 1 => e2[c] = 1

(* The tokens whose identifier is a call were made by it. *)
Named(s, e) == \A t \in s.tokens : t.Id \in Calls => e[t.Id] = 1

(* The records a call began with have become those there are. *)
Since(b, s, e) ==
    /\ b.users \subseteq s.users
    /\ s.roles = b.roles
    /\ Keeps(b, s)
    /\ s.sessions \subseteq b.sessions
    /\ Named(b, e)

(* A token that was there when a call began and is there was there always. *)
LEMMA OldTokens ==
    ASSUME NEW b, NEW s, NEW e, NEW s2, NEW e2, Since(b, s, e), Later(s, e, s2, e2)
    PROVE  b.tokens \cap s2.tokens \subseteq s.tokens
  BY DEF Since, Named, Later

(* So nothing comes to be missing in an answer ... *)
LEMMA StaysComplete ==
    ASSUME NEW a, NEW v, NEW b, NEW s, NEW e, NEW s2, NEW e2,
           IsComplete(a, v, b, s), Since(b, s, e), Later(s, e, s2, e2)
    PROVE  IsComplete(a, v, b, s2)
  BY OldTokens DEF IsComplete

(* ... that is complete when it is given. *)
LEMMA CompleteSince ==
    ASSUME NEW a, NEW v, NEW b, NEW s, NEW e, NEW s2, NEW e2,
           IsComplete(a, v, s, s), Since(b, s, e), Later(s, e, s2, e2)
    PROVE  IsComplete(a, v, b, s2)
<1>1. a.op = "GetUserMetadata" =>
        \A d \in b.metadata : d.UserId = a.id /\ IsAsked(d.Namespace, a.set)
            => \E x \in v : x.Namespace = d.Namespace
  BY DEF IsComplete, Since, Keeps
<1> QED
  BY <1>1, OldTokens DEF IsComplete, Since

LEMMA StaysJustified ==
    ASSUME NEW a, NEW b, NEW s, NEW e, NEW s2, NEW e2, NEW r,
           Justified(a, b, s, e, r), Since(b, s, e), Later(s, e, s2, e2)
    PROVE  Justified(a, b, s2, e2, r)
<1>1. ASSUME NEW id, Gone(id, s, e) PROVE Gone(id, s2, e2)
  BY <1>1 DEF Gone, Later
<1>2. IsComplete(a, r.value, b, s) => IsComplete(a, r.value, b, s2)
  BY StaysComplete
<1> QED
  BY <1>1, <1>2 DEF Justified, Later

LEMMA StaysSince ==
    ASSUME NEW b, NEW s, NEW e, NEW s2, NEW e2, Since(b, s, e), Later(s, e, s2, e2)
    PROVE  Since(b, s2, e2)
<1>1. Keeps(b, s2)
  BY DEF Since, Later, Keeps
<1> QED
  BY <1>1 DEF Since, Named, Later

LEMMA SaysNothing ==
    ASSUME NEW a, NEW b, NEW s, NEW e, NEW r,
           r.err \notin {"nil", "ErrNotFound", "ErrRecordMismatch"}
    PROVE  Justified(a, b, s, e, r)
  BY DEF Justified

(* What SAMS says of its records is still true of a call that began before. *)
LEMMA AnsweredIsJustified ==
    ASSUME NEW a, NEW b, NEW s, NEW e, NEW o, NEW e2,
           Since(b, s, e), Named(s, e), Answered(a, s, o), Later(s, e, o.records, e2)
    PROVE  Justified(a, b, o.records, e2, Result(a, o.answer))
<1> DEFINE r == Result(a, o.answer)
<1>1. ASSUME r.err = "nil", a.op = "RevokeServiceAccessToken"
      PROVE  Gone(a.id, o.records, e2)
  BY <1>1 DEF Answered, Gone, Named, Later
<1>2. ASSUME r.err = "ErrNotFound", Sought(a, b) # {}
      PROVE  a.op = "RevokeServiceAccessToken" /\ Gone(a.id, o.records, e2)
  <2>1. Sought(a, s) = {}
    BY <1>2 DEF Answered
  <2>2. a.op = "RevokeServiceAccessToken"
    BY <1>2, <2>1, SoughtIs DEF Since
  <2>3. (\E t \in b.tokens : t.Id = a.id) /\ \A t \in s.tokens : t.Id # a.id
    BY <1>2, <2>1, <2>2, SoughtIs
  <2>4. a.id \in Calls => e[a.id] = 1 /\ e2[a.id] = 1
    BY <2>3 DEF Since, Named, Later
  <2> QED
    BY <2>2, <2>3, <2>4 DEF Gone, Later
<1>3. Mismatch(a, s) => Mismatch(a, b)
  BY DEF Mismatch, Since
<1>4. r.err = "nil" => IsComplete(a, r.value, b, o.records)
  BY CompleteSince DEF Answered
<1> HIDE DEF r
<1> QED
  BY <1>1, <1>2, <1>3, <1>4 DEF Justified, Answered, r

-----------------------------------------------------------------------------
(* The invariant *)

(* A request is of valid arguments, and a call has no result before it     *)
(* returns.                                                                *)
Asked(c) ==
    /\ pc[c] # "returned" => result[c].err = "none"
    /\ args[c] \in Arguments[c] \cup {NoCall}
    /\ Busy(c) \/ flight[c].kind # "nothing" =>
        args[c] \in Arguments[c] /\ Prepare(args[c]).valid

Knows(c) ==
    /\ Justified(args[c], before[c], records, executed, result[c])
    /\ flight[c].kind = "answer" =>
        Justified(args[c], before[c], records, executed, Result(args[c], flight[c].answer))

AInv ==
    /\ OnCalls(args) /\ OnCalls(before)
    /\ Sound(records) /\ Named(records, executed)
    /\ \A c \in Calls : Asked(c) /\ Since(before[c], records, executed) /\ Knows(c)

LEMMA AnswersInit == Init => AInv
<1> SUFFICES ASSUME Init PROVE AInv
  OBVIOUS
<1>1. OnCalls(args) /\ OnCalls(before)
  BY DEF Init, OnCalls
<1>2. Sound(records) /\ Named(records, executed)
  BY RecordsAssumption DEF Init, Sound, Named
<1>3. ASSUME NEW c \in Calls
      PROVE  Asked(c) /\ Since(before[c], records, executed) /\ Knows(c)
  <2>1. /\ pc[c] = "idle" /\ args[c] = NoCall /\ before[c] = records
        /\ result[c].err = "none" /\ flight[c].kind = "nothing"
    BY DEF Init, NotYet, Nothing
  <2>2. Justified(args[c], before[c], records, executed, result[c])
    BY <2>1, SaysNothing
  <2> QED
    BY <1>2, <2>1, <2>2, SameIsKept DEF Asked, Since, Knows, Busy
<1> QED
  BY <1>1, <1>2, <1>3 DEF AInv

(* The calls that a step leaves alone. *)
LEMMA OthersKnow ==
    ASSUME AInv, NEW c \in Calls, pc'[c] = pc[c], args'[c] = args[c], result'[c] = result[c],
           flight'[c] = flight[c], before'[c] = before[c],
           Later(records, executed, records', executed')
    PROVE  (Asked(c) /\ Since(before[c], records, executed) /\ Knows(c))'
<1>1. Since(before[c], records', executed')
  BY StaysSince DEF AInv
<1>2. Justified(args[c], before[c], records', executed', result[c])
  BY StaysJustified DEF AInv, Knows
<1>3. flight[c].kind = "answer" =>
        Justified(args[c], before[c], records', executed', Result(args[c], flight[c].answer))
  BY StaysJustified DEF AInv, Knows
<1>4. Asked(c)'
  BY DEF AInv, Asked, Busy
<1> QED
  BY <1>1, <1>2, <1>3, <1>4 DEF Knows

LEMMA SameIsLater == Later(records, executed, records, executed)
  BY SameIsKept DEF Later

LEMMA CallerKnows ==
    ASSUME IInv, AInv, NEW d \in Calls, CallerStep(d)
    PROVE  (Asked(d) /\ Since(before[d], records, executed) /\ Knows(d))'
<1> USE DEF Shape, OnCalls, PC, Goes, Returns, source, calls, sams, Failed, Busy
<1>1. records' = records /\ executed' = executed
  BY DEF CallerStep, Begin, OwnToken, ContextEnds, Authorize, FetchToken, Send, GiveUp, Break, Receive
<1>2. CASE Begin(d)
  <2>1. PICK a \in Arguments[d] :
            /\ pc[d] = "idle" /\ args' = [args EXCEPT ![d] = a]
            /\ IF ~Prepare(a).valid THEN Returns(d, Failed("argument"))
               ELSE /\ Goes(d, IF OfItsUser(a) THEN "asking" ELSE "authorizing")
                    /\ UNCHANGED result
            /\ before' = [before EXCEPT ![d] = records] /\ flight' = flight
    BY <1>2 DEF Begin
  <2>2. args'[d] = a /\ before'[d] = records /\ flight[d].kind = "nothing"
        /\ result[d].err = "none"
    BY <2>1 DEF IInv, AInv, Journey, Asked
  <2>3. result'[d].err \in {"none", "argument"}
    BY <2>1, <2>2 DEF IInv
  <2>4. Since(before'[d], records', executed')
    BY <1>1, <2>2, SameIsKept DEF Since, AInv
  <2>5. Justified(args'[d], before'[d], records', executed', result'[d])
    BY <2>3, SaysNothing
  <2>6. Asked(d)'
    BY <2>1, <2>2 DEF Asked, IInv
  <2> QED
    BY <2>1, <2>2, <2>4, <2>5, <2>6 DEF Knows
<1>3. CASE ~Begin(d)
  <2>1. args' = args /\ before' = before
    BY <1>3 DEF CallerStep, OwnToken, ContextEnds, Authorize, FetchToken, Send, GiveUp, Break, Receive
  <2>2. CASE Receive(d)
    <3>1. /\ flight[d].kind = "answer" /\ flight' = flight /\ pc'[d] = "returned"
          /\ result'[d] = Result(args[d], flight[d].answer)
      BY <2>2 DEF Receive, IInv
    <3> QED
      BY <1>1, <2>1, <3>1 DEF AInv, Asked, Knows
  <2>3. CASE ~Receive(d)
    <3>1. pc[d] # "returned" => result[d].err = "none"
      BY DEF AInv, Asked
    <3>2. /\ result'[d] = result[d] \/ (result'[d].err = "error" /\ pc'[d] = "returned")
          /\ pc'[d] = "returned" /\ result'[d] = result[d] => pc[d] = "returned"
          /\ Busy(d)
          /\ flight'[d] = flight[d] \/ flight'[d].kind = "request"
      BY <1>3, <2>3, <3>1 DEF CallerStep, OwnToken, ContextEnds, Authorize, FetchToken, Send, GiveUp,
        Break, IInv
    <3>3. Justified(args[d], before[d], records, executed, result'[d])
      BY <3>2, SaysNothing DEF AInv, Knows
    <3>4. Asked(d)'
      BY <2>1, <3>2 DEF AInv, Asked
    <3> QED
      BY <1>1, <2>1, <3>2, <3>3, <3>4 DEF AInv, Knows
  <2> QED
    BY <2>2, <2>3
<1> QED
  BY <1>2, <1>3

LEMMA AnswersKnow ==
    ASSUME IInv, AInv, NEW d \in Calls, Answers(d)
    PROVE  /\ Later(records, executed, records', executed')
           /\ Sound(records') /\ Named(records', executed')
           /\ (Asked(d) /\ Since(before[d], records, executed) /\ Knows(d))'
<1> USE DEF Shape, OnCalls, calls, source
<1> DEFINE request == Prepare(args[d])
<1>1. PICK o \in Serve(request.path, request.message, records, d) :
        /\ flight[d].kind = "request"
        /\ records' = o.records
        /\ flight' = [flight EXCEPT ![d] = [kind |-> "answer", answer |-> o.answer]]
        /\ executed' = IF o.answer.code = "ok"
                       THEN [executed EXCEPT ![d] = executed[d] + 1] ELSE executed
        /\ UNCHANGED <<pc, args, result, before>>
  BY DEF Answers
<1>2. args[d] \in Argument /\ request.valid /\ executed[d] = 0
  BY <1>1, ClientCallsAssumption DEF IInv, AInv, Asked, Journey
<1>3. Effect(records, d, o) /\ Answered(args[d], records, o)
  BY <1>1, <1>2, ServedIs DEF AInv
<1>4. /\ \A c \in Calls \ {d} : executed'[c] = executed[c]
      /\ o.answer.code = "ok" => executed'[d] = 1
  BY <1>1, <1>2 DEF IInv
<1>5. Later(records, executed, records', executed')
  BY <1>1, <1>2, <1>3, <1>4 DEF Effect, Later
<1>6. Sound(records') /\ Named(records', executed')
  BY <1>1, <1>2, <1>3, <1>4, <1>5 DEF Effect, Named, Later, AInv
<1>7. Since(before[d], records', executed')
  BY <1>5, StaysSince DEF AInv
<1>8. Justified(args[d], before[d], records', executed', result[d])
  BY <1>5, StaysJustified DEF AInv, Knows
<1>9. Justified(args[d], before[d], records', executed', Result(args[d], o.answer))
  BY <1>1, <1>3, <1>5, AnsweredIsJustified DEF AInv
<1>10. flight'[d] = [kind |-> "answer", answer |-> o.answer]
  BY <1>1 DEF IInv
<1>11. Asked(d)'
  BY <1>1 DEF AInv, Asked, Busy
<1> QED
  BY <1>1, <1>5, <1>6, <1>7, <1>8, <1>9, <1>10, <1>11 DEF Knows

LEMMA AnswersStep == IInv /\ AInv /\ [Next]_vars => AInv'
<1> SUFFICES ASSUME IInv, AInv, [Next]_vars PROVE AInv'
  OBVIOUS
<1>1. ASSUME NEW d \in Calls, CallerStep(d) \/ Answers(d)
      PROVE  AInv'
  <2>1. ASSUME NEW c \in Calls, c # d
        PROVE  /\ pc'[c] = pc[c] /\ args'[c] = args[c] /\ result'[c] = result[c]
               /\ flight'[c] = flight[c] /\ before'[c] = before[c]
    <3>1. CASE CallerStep(d)
      BY <2>1, <3>1 DEF CallerStep, Begin, OwnToken, ContextEnds, Authorize, FetchToken, Send,
          GiveUp, Break, Receive, IInv, AInv, Shape, OnCalls, Goes, Returns, sams, source, calls
    <3>2. CASE Answers(d)
      BY <2>1, <3>2 DEF Answers, IInv, Shape, OnCalls, calls, source
    <3> QED
      BY <1>1, <3>1, <3>2
  <2>2. OnCalls(args)' /\ OnCalls(before)'
    BY <1>1 DEF CallerStep, Begin, OwnToken, ContextEnds, Authorize, FetchToken, Send, GiveUp, Break,
      Receive, Answers, AInv, OnCalls, sams, source, calls
  <2>3. /\ Later(records, executed, records', executed')
        /\ Sound(records') /\ Named(records', executed')
        /\ (Asked(d) /\ Since(before[d], records, executed) /\ Knows(d))'
    <3>1. CASE CallerStep(d)
      <4>1. records' = records /\ executed' = executed
        BY <3>1 DEF CallerStep, Begin, OwnToken, ContextEnds, Authorize, FetchToken, Send, GiveUp, Break,
          Receive, sams
      <4> QED
        BY <3>1, <4>1, CallerKnows, SameIsLater DEF AInv
    <3>2. CASE Answers(d)
      BY <3>2, AnswersKnow
    <3> QED
      BY <1>1, <3>1, <3>2
  <2>4. ASSUME NEW c \in Calls
        PROVE  (Asked(c) /\ Since(before[c], records, executed) /\ Knows(c))'
    BY <2>1, <2>3, OthersKnow
  <2> QED
    BY <2>2, <2>3, <2>4 DEF AInv
<1>2. CASE TokenExpires \/ TokenEndpointHangs \/ UNCHANGED vars
  <2>1. UNCHANGED <<pc, args, result, flight, records, executed, before>>
    BY <1>2 DEF TokenExpires, TokenEndpointHangs, vars, calls, sams
  <2>2. Later(records, executed, records', executed')
    BY <2>1, SameIsLater
  <2>3. ASSUME NEW c \in Calls
        PROVE  (Asked(c) /\ Since(before[c], records, executed) /\ Knows(c))'
    BY <2>1, <2>2, OthersKnow
  <2> QED
    BY <2>1, <2>3 DEF AInv, OnCalls
<1> QED
  BY <1>1, <1>2 DEF Next, Step, Proceed, CallerStep

LEMMA AnswersInvariance == Spec => [](IInv /\ AInv)
<1>1. Init => IInv /\ AInv
  BY InvInit, AnswersInit
<1>2. IInv /\ AInv /\ [Next]_vars => (IInv /\ AInv)'
  BY FetchingStep, StepOfOne, AnswersStep DEF IInv
<1> QED
  BY <1>1, <1>2, PTL DEF Spec

-----------------------------------------------------------------------------
(* Whoever calls what beside it, the answer of a call is one to what it    *)
(* was called with, and a token it was told is revoked stays away.         *)
THEOREM AnswerFitsRequestHolds == Spec => []AnswerFitsRequest
<1>1. AInv => AnswerFitsRequest
  BY DEF AInv, Knows, Justified, Gone, AnswerFitsRequest
<1> QED
  BY <1>1, AnswersInvariance, PTL

(* ErrNotFound and ErrRecordMismatch are true of the time of the call, and *)
(* so is the success of SignOutSession, of all time after it.              *)
THEOREM ErrorsAreTrueHolds == Spec => []ErrorsAreTrue
<1>1. ASSUME AInv, NEW c \in Calls, result[c].err = "ErrNotFound"
      PROVE  Sought(args[c], before[c]) = {} \/ Sought(args[c], records) = {}
  <2>1. CASE args[c].op = "RevokeServiceAccessToken" /\ Gone(args[c].id, records, executed)
    BY <2>1, SoughtIs DEF Gone
  <2> QED
    BY <1>1, <2>1 DEF AInv, Knows, Justified
<1>2. AInv => ErrorsAreTrue
  BY <1>1 DEF AInv, Knows, Justified, Mismatch, ErrorsAreTrue
<1> QED
  BY <1>2, AnswersInvariance, PTL

-----------------------------------------------------------------------------
(* Types *)

LEMMA RequestsAreTyped ==
    ASSUME NEW a \in Argument, Prepare(a).valid
    PROVE
        /\ a.op = "GetUserByID" => Prepare(a).message \in RequestOf["GetUser"]
        /\ a.op = "GetUserByEmail" => Prepare(a).message \in RequestOf["GetUser"]
        /\ a.op = "CreateUser" => Prepare(a).message \in RequestOf["CreateUser"]
        /\ a.op = "GetUsersByIDs" => Prepare(a).message \in RequestOf["GetUsers"]
        /\ a.op = "GetUserRolesByID" => Prepare(a).message \in RequestOf["GetUserRoles"]
        /\ a.op = "GetUserMetadata" => Prepare(a).message \in RequestOf["GetUserMetadata"]
        /\ a.op = "UpdateUserMetadata" =>
            Prepare(a).message \in RequestOf["UpdateUserMetadata"]
        /\ a.op = "SignOutSession" => Prepare(a).message \in RequestOf["SignOutSession"]
        /\ a.op = "CreateServiceAccessToken" =>
            Prepare(a).message \in RequestOf["CreateServiceAccessToken"]
        /\ a.op = "ListServiceAccessTokens" =>
            Prepare(a).message \in RequestOf["ListServiceAccessTokens"]
        /\ a.op = "RevokeServiceAccessToken" =>
            Prepare(a).message \in RequestOf["RevokeServiceAccessToken"]
<1>1. ASSUME a.op = "GetUserByID" PROVE Prepare(a).message \in RequestOf["GetUser"]
  BY <1>1, RequestsAre, EmptyAssumption
    DEF Argument, GetUserByID, Prepared, RequestOf, GetUserRequest
<1>2. ASSUME a.op = "GetUserByEmail" PROVE Prepare(a).message \in RequestOf["GetUser"]
  BY <1>2, RequestsAre, EmptyAssumption
    DEF Argument, GetUserByEmail, Prepared, RequestOf, GetUserRequest
<1>3. ASSUME a.op = "CreateUser" PROVE Prepare(a).message \in RequestOf["CreateUser"]
  BY <1>3, RequestsAre, EmptyAssumption
    DEF Argument, CreateUser, Prepared, RequestOf, CreateUserRequest
<1>4. ASSUME a.op = "GetUsersByIDs" PROVE Prepare(a).message \in RequestOf["GetUsers"]
  BY <1>4, RequestsAre, EmptyAssumption
    DEF Argument, GetUsersByIDs, Prepared, RequestOf, GetUsersRequest
<1>5. ASSUME a.op = "GetUserRolesByID" PROVE Prepare(a).message \in RequestOf["GetUserRoles"]
  BY <1>5, RequestsAre, EmptyAssumption
    DEF Argument, GetUserRolesByID, Prepared, RequestOf, GetUserRolesRequest
<1>6. ASSUME a.op = "GetUserMetadata" PROVE Prepare(a).message \in RequestOf["GetUserMetadata"]
  BY <1>6, RequestsAre, EmptyAssumption
    DEF Argument, GetUserMetadata, Prepared, RequestOf, GetUserMetadataRequest
<1>7. ASSUME a.op = "UpdateUserMetadata"
      PROVE  Prepare(a).message \in RequestOf["UpdateUserMetadata"]
  BY <1>7, RequestsAre, EmptyAssumption, NewStructIs
    DEF Argument, UpdateUserMetadata, Prepared, RequestOf, UpdateUserMetadataRequest,
      UserServiceMetadata
<1>8. ASSUME a.op = "SignOutSession" PROVE Prepare(a).message \in RequestOf["SignOutSession"]
  BY <1>8, RequestsAre, EmptyAssumption
    DEF Argument, SignOutSession, Prepared, RequestOf, SignOutSessionRequest
<1>9. ASSUME a.op = "CreateServiceAccessToken"
      PROVE  Prepare(a).message \in RequestOf["CreateServiceAccessToken"]
  <2> DEFINE t == [Id |-> Empty, Service |-> a.key, Scopes |-> a.set, UserId |-> a.id,
                   Expired |-> FALSE]
  <2>1. Prepare(a).message = [Token |-> t]
    BY <1>9, RequestsAre, PreparedIs DEF CreateServiceAccessToken
  <2>2. t \in ServiceAccessToken
    BY <1>9, EmptyAssumption DEF Argument, ServiceAccessToken
  <2> HIDE DEF t
  <2> QED
    BY <2>1, <2>2 DEF RequestOf, CreateServiceAccessTokenRequest
<1>10. ASSUME a.op = "ListServiceAccessTokens"
      PROVE  Prepare(a).message \in RequestOf["ListServiceAccessTokens"]
  <2>1. Prepare(a).message = [Filters |-> Filters(a)]
    BY <1>10, RequestsAre DEF ListServiceAccessTokens, Prepared
  <2>2. /\ [Service |-> a.key] \in [Service : Strings]
        /\ [UserId |-> a.id] \in [UserId : Strings]
        /\ [ShowExpired |-> TRUE] \in [ShowExpired : {TRUE}]
    BY <1>10 DEF Argument
  <2>3. Filters(a) \subseteq ListServiceAccessTokensFilter
    BY <2>2 DEF Filters, ListServiceAccessTokensFilter
  <2> QED
    BY <2>1, <2>3 DEF RequestOf, ListServiceAccessTokensRequest
<1>11. ASSUME a.op = "RevokeServiceAccessToken"
      PROVE  Prepare(a).message \in RequestOf["RevokeServiceAccessToken"]
  BY <1>11, RequestsAre, EmptyAssumption
    DEF Argument, RevokeServiceAccessToken, Prepared, RequestOf,
      RevokeServiceAccessTokenRequest
<1> QED
  BY <1>1, <1>2, <1>3, <1>4, <1>5, <1>6, <1>7, <1>8, <1>9, <1>10, <1>11

LEMMA CodesAre ==
    ASSUME NEW code, NEW details, NEW message, NEW s
    PROVE  /\ Refused(code, details, s).answer.code = code
           /\ NotFound(s).answer.code = "not_found"
           /\ OK(message, s).answer.code = "ok" /\ OK(message, s).answer.message = message
  BY DEF Refused, NotFound, OK, Outcome, Answer

AnswersAs(answer, messages) ==
    /\ answer.code \in Codes
    /\ answer.code = "ok" => answer.message \in messages

LEMMA PagesAre ==
    ASSUME NEW m, NEW s, NEW o \in OnListServiceAccessTokens(m, s)
    PROVE  \E page \in SUBSET s.tokens : o = OK([Tokens |-> page], s)
<1>1. PICK page \in SUBSET s.tokens :
        /\ \A t \in page : Passes(t, m.Filters)
        /\ page = {} => \A t \in s.tokens : ~Passes(t, m.Filters)
        /\ o = OK([Tokens |-> page], s)
  BY PageIs
<1> QED
  BY <1>1

LEMMA ListsAreTyped ==
    ASSUME NEW m, NEW s, Sound(s), NEW o \in OnListServiceAccessTokens(m, s)
    PROVE  AnswersAs(o.answer, ListServiceAccessTokensResponse)
<1>1. PICK page \in SUBSET s.tokens : o = OK([Tokens |-> page], s)
  BY PagesAre
<1> DEFINE message == [Tokens |-> page]
<1>2. message \in ListServiceAccessTokensResponse
  BY DEF ListServiceAccessTokensResponse, Sound, SAMSRecords
<1>3. o.answer.code = "ok" /\ o.answer.message = message
  BY <1>1 DEF OK, Outcome, Answer
<1> HIDE DEF message
<1> QED
  BY <1>2, <1>3 DEF AnswersAs, Codes

LEMMA OutcomesAreTyped ==
    ASSUME NEW s, Sound(s), NEW c \in Calls, NEW m
    PROVE
        /\ m \in RequestOf["GetUser"] => \A o \in Outcomes("GetUser", m, s, c) :
                AnswersAs(o.answer, ResponseOf["GetUser"])
        /\ m \in RequestOf["CreateUser"] => \A o \in Outcomes("CreateUser", m, s, c) :
                AnswersAs(o.answer, ResponseOf["CreateUser"])
        /\ m \in RequestOf["GetUsers"] => \A o \in Outcomes("GetUsers", m, s, c) :
                AnswersAs(o.answer, ResponseOf["GetUsers"])
        /\ m \in RequestOf["GetUserRoles"] => \A o \in Outcomes("GetUserRoles", m, s, c) :
                AnswersAs(o.answer, ResponseOf["GetUserRoles"])
        /\ m \in RequestOf["GetUserMetadata"] =>
            \A o \in Outcomes("GetUserMetadata", m, s, c) :
                AnswersAs(o.answer, ResponseOf["GetUserMetadata"])
        /\ m \in RequestOf["UpdateUserMetadata"] =>
            \A o \in Outcomes("UpdateUserMetadata", m, s, c) :
                AnswersAs(o.answer, ResponseOf["UpdateUserMetadata"])
        /\ m \in RequestOf["SignOutSession"] => \A o \in Outcomes("SignOutSession", m, s, c) :
                AnswersAs(o.answer, ResponseOf["SignOutSession"])
        /\ m \in RequestOf["CreateServiceAccessToken"] =>
            \A o \in Outcomes("CreateServiceAccessToken", m, s, c) :
                AnswersAs(o.answer, ResponseOf["CreateServiceAccessToken"])
        /\ m \in RequestOf["ListServiceAccessTokens"] =>
            \A o \in Outcomes("ListServiceAccessTokens", m, s, c) :
                AnswersAs(o.answer, ResponseOf["ListServiceAccessTokens"])
        /\ m \in RequestOf["RevokeServiceAccessToken"] =>
            \A o \in Outcomes("RevokeServiceAccessToken", m, s, c) :
                AnswersAs(o.answer, ResponseOf["RevokeServiceAccessToken"])
<1> USE CodesAre DEF AnswersAs, Codes, Sound, SAMSRecords, RequestOf, ResponseOf
<1>1. ASSUME m \in RequestOf["GetUser"], NEW o \in OnGetUser(m, s)
      PROVE  AnswersAs(o.answer, ResponseOf["GetUser"])
  <2>1. ASSUME NEW u \in s.users, o = OK([User |-> u], s)
        PROVE  AnswersAs(o.answer, ResponseOf["GetUser"])
    BY <2>1 DEF GetUserResponse
  <2>2. o = NotFound(s) \/ \E u \in s.users : o = OK([User |-> u], s)
    BY <1>1 DEF OnGetUser
  <2>3. ASSUME o = NotFound(s) PROVE AnswersAs(o.answer, ResponseOf["GetUser"])
    <3>1. o.answer.code = "not_found"
      BY <2>3, CodesAre
    <3> QED
      BY <3>1 DEF AnswersAs, Codes
  <2> QED
    BY <2>1, <2>2, <2>3, Zenon
<1>2. ASSUME m \in RequestOf["CreateUser"], NEW o \in OnCreateUser(m, s, c)
      PROVE  AnswersAs(o.answer, ResponseOf["CreateUser"])
  BY <1>2, ClientCallsAssumption DEF OnCreateUser, CreateUserRequest, CreateUserResponse, User
<1>3. ASSUME m \in RequestOf["GetUsers"], NEW o \in OnGetUsers(m, s)
      PROVE  AnswersAs(o.answer, ResponseOf["GetUsers"])
  <2> DEFINE found == {u \in s.users : u.Id \in m.Ids}
             message == [Users |-> found]
  <2>1. found \in SUBSET User
    BY DEF User
  <2>2. message \in GetUsersResponse
    <3> HIDE DEF found
    <3> QED
      BY <2>1 DEF GetUsersResponse
  <2>3. o = OK(message, s)
    BY <1>3 DEF OnGetUsers
  <2> HIDE DEF message
  <2> QED
    BY <2>2, <2>3
<1>4. ASSUME m \in RequestOf["GetUserRoles"], NEW o \in OnGetUserRoles(m, s)
      PROVE  AnswersAs(o.answer, ResponseOf["GetUserRoles"])
  <2> DEFINE found == {[RoleId |-> r.RoleId, Service |-> r.Service] :
                            r \in {g \in s.roles : g.UserId = m.Id /\ g.Service = m.Service}}
             message == [UserRoles |-> found]
  <2>1. found \in SUBSET Role
    BY DEF Role
  <2>2. message \in GetUserRolesResponse
    <3> HIDE DEF found
    <3> QED
      BY <2>1 DEF GetUserRolesResponse
  <2>3. o = OK(message, s)
    BY <1>4 DEF OnGetUserRoles
  <2> HIDE DEF message
  <2> QED
    BY <2>2, <2>3
<1>5. ASSUME m \in RequestOf["GetUserMetadata"], NEW o \in OnGetUserMetadata(m, s)
      PROVE  AnswersAs(o.answer, ResponseOf["GetUserMetadata"])
  <2> DEFINE found == {d \in s.metadata : d.UserId = m.Id /\ IsAsked(d.Namespace, m.Namespaces)}
             message == [Metadata |-> found]
  <2>1. found \in SUBSET UserServiceMetadata
    BY DEF UserServiceMetadata
  <2>2. message \in GetUserMetadataResponse
    <3> HIDE DEF found
    <3> QED
      BY <2>1 DEF GetUserMetadataResponse
  <2>3. o = OK(message, s)
    BY <1>5 DEF OnGetUserMetadata
  <2> HIDE DEF message
  <2> QED
    BY <2>2, <2>3
<1>6. ASSUME m \in RequestOf["UpdateUserMetadata"], NEW o \in OnUpdateUserMetadata(m, s)
      PROVE  AnswersAs(o.answer, ResponseOf["UpdateUserMetadata"])
  BY <1>6, ClientCallsAssumption DEF OnUpdateUserMetadata, UpdateUserMetadataRequest,
    UpdateUserMetadataResponse, UserServiceMetadata
<1>7. ASSUME m \in RequestOf["SignOutSession"], NEW o \in OnSignOutSession(m, s)
      PROVE  AnswersAs(o.answer, ResponseOf["SignOutSession"])
  BY <1>7, ClientCallsAssumption DEF OnSignOutSession, SignOutSessionRequest,
    SignOutSessionResponse
<1>8. ASSUME m \in RequestOf["CreateServiceAccessToken"],
             NEW o \in OnCreateServiceAccessToken(m, s, c)
      PROVE  AnswersAs(o.answer, ResponseOf["CreateServiceAccessToken"])
  BY <1>8, ClientCallsAssumption DEF OnCreateServiceAccessToken,
    CreateServiceAccessTokenRequest, CreateServiceAccessTokenResponse, ServiceAccessToken
<1>9. ASSUME m \in RequestOf["ListServiceAccessTokens"],
             NEW o \in OnListServiceAccessTokens(m, s)
      PROVE  AnswersAs(o.answer, ResponseOf["ListServiceAccessTokens"])
  BY ListsAreTyped
<1>10. ASSUME m \in RequestOf["RevokeServiceAccessToken"],
             NEW o \in OnRevokeServiceAccessToken(m, s)
      PROVE  AnswersAs(o.answer, ResponseOf["RevokeServiceAccessToken"])
  BY <1>10, ClientCallsAssumption DEF OnRevokeServiceAccessToken,
    RevokeServiceAccessTokenRequest, RevokeServiceAccessTokenResponse
<1> QED
  BY <1>1, <1>2, <1>3, <1>4, <1>5, <1>6, <1>7, <1>8, <1>9, <1>10, OutcomesAre

(* Every request is one of a method whose messages are those of the API. *)
LEMMA RequestsAreServed ==
    ASSUME NEW a \in Argument, Prepare(a).valid
    PROVE
        \/ Prepare(a).path = AccountsUserPath
        \/ \E method \in Methods :
            /\ Prepare(a).path = Path(method)
            /\ Prepare(a).message \in RequestOf[method]
            /\ \A s, c : Sound(s) /\ c \in Calls =>
                \A o \in Outcomes(method, Prepare(a).message, s, c) :
                    AnswersAs(o.answer, ResponseOf[method])
<1>1. ASSUME a.op = "GetUserByID"
      PROVE  \E method \in Methods :
                /\ Prepare(a).path = Path(method)
                /\ Prepare(a).message \in RequestOf[method]
                /\ \A s, c : Sound(s) /\ c \in Calls =>
                    \A o \in Outcomes(method, Prepare(a).message, s, c) :
                        AnswersAs(o.answer, ResponseOf[method])
  BY <1>1, PathOf, MethodsAre, RequestsAreTyped, OutcomesAreTyped
<1>2. ASSUME a.op = "GetUserByEmail"
      PROVE  \E method \in Methods :
                /\ Prepare(a).path = Path(method)
                /\ Prepare(a).message \in RequestOf[method]
                /\ \A s, c : Sound(s) /\ c \in Calls =>
                    \A o \in Outcomes(method, Prepare(a).message, s, c) :
                        AnswersAs(o.answer, ResponseOf[method])
  BY <1>2, PathOf, MethodsAre, RequestsAreTyped, OutcomesAreTyped
<1>3. ASSUME a.op = "CreateUser"
      PROVE  \E method \in Methods :
                /\ Prepare(a).path = Path(method)
                /\ Prepare(a).message \in RequestOf[method]
                /\ \A s, c : Sound(s) /\ c \in Calls =>
                    \A o \in Outcomes(method, Prepare(a).message, s, c) :
                        AnswersAs(o.answer, ResponseOf[method])
  BY <1>3, PathOf, MethodsAre, RequestsAreTyped, OutcomesAreTyped
<1>4. ASSUME a.op = "GetUsersByIDs"
      PROVE  \E method \in Methods :
                /\ Prepare(a).path = Path(method)
                /\ Prepare(a).message \in RequestOf[method]
                /\ \A s, c : Sound(s) /\ c \in Calls =>
                    \A o \in Outcomes(method, Prepare(a).message, s, c) :
                        AnswersAs(o.answer, ResponseOf[method])
  BY <1>4, PathOf, MethodsAre, RequestsAreTyped, OutcomesAreTyped
<1>5. ASSUME a.op = "GetUserRolesByID"
      PROVE  \E method \in Methods :
                /\ Prepare(a).path = Path(method)
                /\ Prepare(a).message \in RequestOf[method]
                /\ \A s, c : Sound(s) /\ c \in Calls =>
                    \A o \in Outcomes(method, Prepare(a).message, s, c) :
                        AnswersAs(o.answer, ResponseOf[method])
  BY <1>5, PathOf, MethodsAre, RequestsAreTyped, OutcomesAreTyped
<1>6. ASSUME a.op = "GetUserMetadata"
      PROVE  \E method \in Methods :
                /\ Prepare(a).path = Path(method)
                /\ Prepare(a).message \in RequestOf[method]
                /\ \A s, c : Sound(s) /\ c \in Calls =>
                    \A o \in Outcomes(method, Prepare(a).message, s, c) :
                        AnswersAs(o.answer, ResponseOf[method])
  BY <1>6, PathOf, MethodsAre, RequestsAreTyped, OutcomesAreTyped
<1>7. ASSUME a.op = "UpdateUserMetadata"
      PROVE  \E method \in Methods :
                /\ Prepare(a).path = Path(method)
                /\ Prepare(a).message \in RequestOf[method]
                /\ \A s, c : Sound(s) /\ c \in Calls =>
                    \A o \in Outcomes(method, Prepare(a).message, s, c) :
                        AnswersAs(o.answer, ResponseOf[method])
  BY <1>7, PathOf, MethodsAre, RequestsAreTyped, OutcomesAreTyped
<1>8. ASSUME a.op = "SignOutSession"
      PROVE  \E method \in Methods :
                /\ Prepare(a).path = Path(method)
                /\ Prepare(a).message \in RequestOf[method]
                /\ \A s, c : Sound(s) /\ c \in Calls =>
                    \A o \in Outcomes(method, Prepare(a).message, s, c) :
                        AnswersAs(o.answer, ResponseOf[method])
  BY <1>8, PathOf, MethodsAre, RequestsAreTyped, OutcomesAreTyped
<1>9. ASSUME a.op = "CreateServiceAccessToken"
      PROVE  \E method \in Methods :
                /\ Prepare(a).path = Path(method)
                /\ Prepare(a).message \in RequestOf[method]
                /\ \A s, c : Sound(s) /\ c \in Calls =>
                    \A o \in Outcomes(method, Prepare(a).message, s, c) :
                        AnswersAs(o.answer, ResponseOf[method])
  BY <1>9, PathOf, MethodsAre, RequestsAreTyped, OutcomesAreTyped
<1>10. ASSUME a.op = "ListServiceAccessTokens"
      PROVE  \E method \in Methods :
                /\ Prepare(a).path = Path(method)
                /\ Prepare(a).message \in RequestOf[method]
                /\ \A s, c : Sound(s) /\ c \in Calls =>
                    \A o \in Outcomes(method, Prepare(a).message, s, c) :
                        AnswersAs(o.answer, ResponseOf[method])
  BY <1>10, PathOf, MethodsAre, RequestsAreTyped, OutcomesAreTyped
<1>11. ASSUME a.op = "RevokeServiceAccessToken"
      PROVE  \E method \in Methods :
                /\ Prepare(a).path = Path(method)
                /\ Prepare(a).message \in RequestOf[method]
                /\ \A s, c : Sound(s) /\ c \in Calls =>
                    \A o \in Outcomes(method, Prepare(a).message, s, c) :
                        AnswersAs(o.answer, ResponseOf[method])
  BY <1>11, PathOf, MethodsAre, RequestsAreTyped, OutcomesAreTyped
<1> QED
  BY <1>1, <1>2, <1>3, <1>4, <1>5, <1>6, <1>7, <1>8, <1>9, <1>10, <1>11, OpsAre, PathOf

LEMMA RequestIsWellTyped ==
    ASSUME NEW a \in Argument, Prepare(a).valid
    PROVE  WellTyped(Prepare(a), [kind |-> "request"])
<1>1. ASSUME NEW method \in Methods, Prepare(a).path = Path(method),
             Prepare(a).message \in RequestOf[method]
      PROVE  WellTyped(Prepare(a), [kind |-> "request"])
  BY <1>1, PathsLead DEF WellTyped
<1>2. CASE Prepare(a).path = AccountsUserPath
  BY <1>2 DEF WellTyped
<1> QED
  BY <1>1, <1>2, RequestsAreServed

LEMMA AnswerIsWellTyped ==
    ASSUME NEW a \in Argument, Prepare(a).valid, NEW s, Sound(s), NEW c \in Calls,
           NEW o \in Serve(Prepare(a).path, Prepare(a).message, s, c)
    PROVE  WellTyped(Prepare(a), [kind |-> "answer", answer |-> o.answer])
<1> DEFINE answer == [kind |-> "answer", answer |-> o.answer]
<1>1. ASSUME NEW method \in Methods, Prepare(a).path = Path(method),
             Prepare(a).message \in RequestOf[method],
             \A x \in Outcomes(method, Prepare(a).message, s, c) :
                AnswersAs(x.answer, ResponseOf[method])
      PROVE  WellTyped(Prepare(a), answer)
  <2>1. AnswersAs(o.answer, ResponseOf[method])
    <3>1. CASE o \in Refusals(s)
      <4>1. o.answer.code \in {Unimplemented, "aborted", "internal"}
        BY <3>1, CodesAre DEF Refusals
      <4> QED
        BY <4>1 DEF AnswersAs, Codes, Unimplemented
    <3>2. CASE o \notin Refusals(s)
      <4>1. o \in Outcomes(method, Prepare(a).message, s, c)
        BY <1>1, <3>2, ServedBy
      <4> QED
        BY <1>1, <4>1
    <3> QED
      BY <3>1, <3>2
  <2>2. answer.answer = o.answer
    OBVIOUS
  <2> HIDE DEF answer
  <2> QED
    BY <1>1, <2>1, <2>2, PathsLead DEF WellTyped, AnswersAs
<1>2. CASE Prepare(a).path = AccountsUserPath
  BY <1>2 DEF WellTyped
<1> QED
  BY <1>1, <1>2, RequestsAreServed

TInv ==
    /\ done \in [Calls -> BOOLEAN]
    /\ token \in {"none", "valid", "expired"}
    /\ lock \in Calls \cup {NoCall}
    /\ endpoint \in {"up", "hung"}
    /\ \A c \in Calls :
        /\ result[c].err \in Errors \cup {"none"}
        /\ flight[c].kind # "nothing" => WellTyped(Prepare(args[c]), flight[c])

LEMMA ResultIsAnError ==
    ASSUME NEW a, NEW answer
    PROVE  Result(a, answer).err \in Errors
<1>1. CASE a.op = "AccountsGetUser"
  BY <1>1 DEF Result, AccountsResult, Failed, Errors
<1>2. CASE a.op # "AccountsGetUser"
  <2>1. ErrorOfDetails(answer.details) \in Errors
    BY DEF ErrorOfDetails, Errors
  <2> QED
    BY <1>2, <2>1 DEF Result, ParseResponseAndError, Failed, Errors
<1> QED
  BY <1>1, <1>2

LEMMA TypesStep == IInv /\ AInv /\ TInv /\ [Next]_vars => TInv'
<1> SUFFICES ASSUME IInv, AInv, TInv, [Next]_vars PROVE TInv'
  OBVIOUS
<1> USE DEF IInv, Shape, OnCalls, TInv, Goes, Returns, source, calls, sams, Failed
<1>1. ASSUME NEW d \in Calls, Begin(d) PROVE TInv'
  <2>1. flight[d].kind = "nothing" /\ flight' = flight
    BY <1>1 DEF Begin, Journey
  <2>2. \A c \in Calls \ {d} : args'[c] = args[c] /\ result'[c] = result[c]
    BY <1>1 DEF Begin, AInv
  <2>3. result'[d].err \in Errors \cup {"none"}
    BY <1>1 DEF Begin, Errors
  <2> QED
    BY <1>1, <2>1, <2>2, <2>3 DEF Begin
<1>2. ASSUME NEW d \in Calls, ContextEnds(d) PROVE TInv'
  BY <1>2 DEF ContextEnds
<1>3. ASSUME NEW d \in Calls, OwnToken(d) \/ Authorize(d) \/ FetchToken(d) PROVE TInv'
  BY <1>3 DEF OwnToken, Authorize, FetchToken, Errors
<1>4. ASSUME NEW d \in Calls, Send(d) PROVE TInv'
  <2>1. WellTyped(Prepare(args[d]), [kind |-> "request"])
    BY <1>4, RequestIsWellTyped, ClientCallsAssumption DEF Send, AInv, Asked, Busy
  <2>2. /\ flight'[d] \in {flight[d], [kind |-> "request"]}
        /\ \A c \in Calls \ {d} : flight'[c] = flight[c] /\ result'[c] = result[c]
        /\ result'[d].err \in Errors \cup {"none"}
    BY <1>4 DEF Send, Errors
  <2>3. UNCHANGED <<args, done, token, lock, endpoint>>
    BY <1>4 DEF Send
  <2> QED
    BY <2>1, <2>2, <2>3
<1>5. ASSUME NEW d \in Calls, GiveUp(d) \/ Break(d) PROVE TInv'
  BY <1>5 DEF GiveUp, Break, Errors
<1>6. ASSUME NEW d \in Calls, Receive(d) PROVE TInv'
  BY <1>6, ResultIsAnError DEF Receive
<1>7. ASSUME NEW d \in Calls, Answers(d) PROVE TInv'
  <2>1. PICK o \in Serve(Prepare(args[d]).path, Prepare(args[d]).message, records, d) :
            flight' = [flight EXCEPT ![d] = [kind |-> "answer", answer |-> o.answer]]
    BY <1>7 DEF Answers
  <2>2. WellTyped(Prepare(args[d]), [kind |-> "answer", answer |-> o.answer])
    BY <1>7, AnswerIsWellTyped, ClientCallsAssumption DEF Answers, AInv, Asked
  <2>3. \A c \in Calls : flight'[c] =
            IF c = d THEN [kind |-> "answer", answer |-> o.answer] ELSE flight[c]
    BY <2>1
  <2>4. UNCHANGED <<args, done, result, token, lock, endpoint>>
    BY <1>7 DEF Answers
  <2> QED
    BY <2>2, <2>3, <2>4
<1>8. CASE TokenExpires \/ TokenEndpointHangs
  BY <1>8 DEF TokenExpires, TokenEndpointHangs
<1>9. CASE UNCHANGED vars
  BY <1>9 DEF vars
<1> QED
  BY <1>1, <1>2, <1>3, <1>4, <1>5, <1>6, <1>7, <1>8, <1>9 DEF Next, Step, Proceed

(* Requests and answers are messages of the API, of the method at whose    *)
(* path they meet, whatever is called and answered.                        *)
THEOREM TypeCorrect == Spec => []TypeOK
<1>1. Init => TInv
  BY DEF Init, TInv, NotYet, Nothing
<1>2. IInv /\ AInv /\ TInv => TypeOK
  BY DEF IInv, Shape, Journey, AInv, Sound, Asked, TInv, TypeOK
<1> QED
  BY <1>1, <1>2, TypesStep, AnswersInvariance, PTL DEF Spec

==============================================================================
