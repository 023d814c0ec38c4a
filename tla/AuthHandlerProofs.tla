-------------------------- MODULE AuthHandlerProofs --------------------------
(***************************************************************************)
(* Proofs about AuthHandler for every number of logins, callbacks and      *)
(* approvals, for all kinds of SecretStore, and for a callback URL that is *)
(* asked with any state and any code.                                      *)
(*                                                                         *)
(* A login writes its secrets before its redirect and never again          *)
(* (Written), so a deletion that takes effect is final (SecretsAreGone)    *)
(* and the checks a callback has passed stay true of its locals (Checked). *)
(***************************************************************************)
EXTENDS AuthHandler, TLAPS

LEMMA TypeInit == Init => TypeOK
  BY AuthAssumption DEF Init, TypeOK, CallbackPC, LoginPC, Query, Secret, Errors, Code

LEMMA TypeStep == TypeOK /\ [Next]_vars => TypeOK'
<1> SUFFICES ASSUME TypeOK, [Next]_vars PROVE TypeOK'
  OBVIOUS
<1> USE DEF TypeOK, session, locals, sams
<1>1. ASSUME NEW l \in Logins, LoginStep(l) PROVE TypeOK'
  BY <1>1 DEF LoginStep, LoginArrives, SetState, SetNonce, LoginPC, Secret, Begun
<1>2. ASSUME NEW code \in Code, Approve(code) PROVE TypeOK'
  BY <1>2 DEF Approve
<1>3. ASSUME NEW c \in Callbacks, NEW q \in Query, CallbackArrives(c, q) PROVE TypeOK'
  BY <1>3 DEF CallbackArrives, CallbackPC, Begun
<1>4. ASSUME NEW c \in Callbacks, CallbackStep(c) PROVE TypeOK'
  <2>1. CASE GetState(c)
    BY <2>1 DEF GetState, GetErrors, CallbackPC, Secret, Errors
  <2>2. CASE DeleteState(c)
    BY <2>2 DEF DeleteState, AfterState, Left, CallbackPC, Secret, Begun, Errors
  <2>3. CASE NewProvider(c)
    BY <2>3 DEF NewProvider, CallbackPC
  <2>4. CASE GetNonce(c)
    BY <2>4 DEF GetNonce, GetErrors, CallbackPC, Secret, Errors
  <2>5. CASE DeleteNonce(c)
    BY <2>5 DEF DeleteNonce, AfterNonce, Left, CallbackPC, Secret, Begun, Errors
  <2>6. CASE Exchange(c)
    BY <2>6 DEF Exchange, CallbackPC
  <2>7. CASE FetchUserInfo(c)
    BY <2>7 DEF FetchUserInfo, CallbackPC
  <2> QED
    BY <1>4, <2>1, <2>2, <2>3, <2>4, <2>5, <2>6, <2>7 DEF CallbackStep
<1>5. CASE ServerDies
  BY <1>5 DEF ServerDies, LoginPC, CallbackPC
<1>6. CASE UNCHANGED vars
  BY <1>6 DEF vars
<1> QED
  BY <1>1, <1>2, <1>3, <1>4, <1>5, <1>6 DEF Next

(* The variables always have their types. *)
THEOREM TypeCorrect == Spec => []TypeOK
<1>1. Init => TypeOK
  BY TypeInit
<1>2. TypeOK /\ [Next]_vars => TypeOK'
  BY TypeStep
<1> QED
  BY <1>1, <1>2, PTL DEF Spec

-----------------------------------------------------------------------------
(* Secrets are in the session, read from it, sent to the callback or part  *)
(* of an approval only once their login has written or redirected them.    *)
Written ==
    /\ \A l \in Logins : sessionState = l => login[l] \notin {"new", "setState"}
    /\ \A l \in Logins : sessionNonce = l => login[l] \notin {"new", "setState", "setNonce"}
    /\ \A c \in Callbacks :
        /\ state[c] \in Logins => login[state[c]] \notin {"new", "setState"}
        /\ nonce[c] \in Logins => login[nonce[c]] \notin {"new", "setState", "setNonce"}

RedirectedQueries ==
    \A c \in Callbacks : query[c].state \in Logins => login[query[c].state] = "redirected"

RedirectedApprovals ==
    \A code \in issued : NonceOf(code) \in Logins => login[NonceOf(code)] = "redirected"

(* What the checks a callback has passed say of it. *)
Checked ==
    \A c \in Callbacks :
        /\ callback[c] \in {"deleteState", "deleteNonce"} /\ err[c] = "none"
           /\ store.reportsMissing =>
              IF callback[c] = "deleteState" THEN state[c] # None ELSE nonce[c] # None
        /\ PassedStateCheck(c) =>
            /\ state[c] = query[c].state
            /\ store.reportsMissing => state[c] # None
        /\ callback[c] = "exchange" /\ store.reportsMissing => nonce[c] # None
        /\ callback[c] \in {"userInfo", "success"} =>
            /\ query[c].code \in redeemed
            /\ nonce[c] = NonceOf(query[c].code)
            /\ store.reportsMissing => nonce[c] # None

Secrets ==
    TypeOK /\ Written /\ RedirectedQueries /\ RedirectedApprovals /\ Checked /\ SecretsAreGone

LEMMA SecretsStep == Secrets /\ [Next]_vars => Secrets'
<1> SUFFICES ASSUME Secrets, [Next]_vars PROVE Secrets'
  OBVIOUS
<1> DEFINE Facts ==
        Written /\ RedirectedQueries /\ RedirectedApprovals /\ Checked /\ SecretsAreGone
<1>0. TypeOK /\ TypeOK' /\ Facts
  BY TypeStep DEF Secrets
<1> SUFFICES Facts'
  BY <1>0 DEF Secrets
<1> USE DEF session, locals, sams, Written, RedirectedQueries, RedirectedApprovals, Checked,
        SecretsAreGone, PastDeleteState, PastDeleteNonce, PassedStateCheck
<1>1. ASSUME NEW l \in Logins, LoginStep(l) PROVE Facts'
  BY <1>0, <1>1 DEF LoginStep, LoginArrives, SetState, SetNonce, TypeOK
<1>2. ASSUME NEW code \in Code, Approve(code) PROVE Facts'
  BY <1>0, <1>2 DEF Approve
<1>3. ASSUME NEW c \in Callbacks, NEW q \in Query, CallbackArrives(c, q) PROVE Facts'
  BY <1>0, <1>3, AuthAssumption DEF CallbackArrives, TypeOK
<1>4. ASSUME NEW c \in Callbacks, CallbackStep(c) PROVE Facts'
  <2>1. CASE GetState(c)
    <3>1. (Written /\ RedirectedQueries /\ RedirectedApprovals)'
      BY <1>0, <2>1, AuthAssumption DEF GetState, GetErrors, TypeOK, Secret
    <3>2. Checked'
      BY <1>0, <2>1, AuthAssumption DEF GetState, GetErrors, TypeOK, Secret
    <3>3. SecretsAreGone'
      BY <1>0, <2>1, AuthAssumption DEF GetState, GetErrors, TypeOK, Secret
    <3> QED
      BY <3>1, <3>2, <3>3
  <2>2. CASE DeleteState(c)
    <3>1. (Written /\ RedirectedQueries /\ RedirectedApprovals)'
      BY <1>0, <2>2, AuthAssumption DEF DeleteState, AfterState, Left, TypeOK, Errors
    <3>2. Checked'
      BY <1>0, <2>2, AuthAssumption DEF DeleteState, AfterState, Left, TypeOK, Errors
    <3>3. SecretsAreGone'
      BY <1>0, <2>2, AuthAssumption DEF DeleteState, AfterState, Left, TypeOK, Errors
    <3> QED
      BY <3>1, <3>2, <3>3
  <2>3. CASE NewProvider(c)
    BY <1>0, <2>3 DEF NewProvider, TypeOK
  <2>4. CASE GetNonce(c)
    <3>1. (Written /\ RedirectedQueries /\ RedirectedApprovals)'
      BY <1>0, <2>4, AuthAssumption DEF GetNonce, GetErrors, TypeOK, Secret
    <3>2. Checked'
      BY <1>0, <2>4, AuthAssumption DEF GetNonce, GetErrors, TypeOK, Secret
    <3>3. SecretsAreGone'
      BY <1>0, <2>4, AuthAssumption DEF GetNonce, GetErrors, TypeOK, Secret
    <3> QED
      BY <3>1, <3>2, <3>3
  <2>5. CASE DeleteNonce(c)
    <3>1. (Written /\ RedirectedQueries /\ RedirectedApprovals)'
      BY <1>0, <2>5, AuthAssumption DEF DeleteNonce, AfterNonce, Left, TypeOK, Errors
    <3>2. Checked'
      BY <1>0, <2>5, AuthAssumption DEF DeleteNonce, AfterNonce, Left, TypeOK, Errors
    <3>3. SecretsAreGone'
      BY <1>0, <2>5, AuthAssumption DEF DeleteNonce, AfterNonce, Left, TypeOK, Errors
    <3> QED
      BY <3>1, <3>2, <3>3
  <2>6. CASE Exchange(c)
    BY <1>0, <2>6 DEF Exchange, TypeOK
  <2>7. CASE FetchUserInfo(c)
    BY <1>0, <2>7 DEF FetchUserInfo, TypeOK
  <2> QED
    BY <1>4, <2>1, <2>2, <2>3, <2>4, <2>5, <2>6, <2>7 DEF CallbackStep
<1>5. CASE ServerDies
  BY <1>0, <1>5 DEF ServerDies, TypeOK, LoginEnded, CallbackEnded
<1>6. CASE UNCHANGED vars
  BY <1>0, <1>6 DEF vars
<1> QED
  BY <1>1, <1>2, <1>3, <1>4, <1>5, <1>6 DEF Next

LEMMA SecretsInvariant == Spec => []Secrets
<1>1. Init => Secrets
  BY TypeInit, AuthAssumption DEF Init, Secrets, Written, RedirectedQueries,
     RedirectedApprovals, Checked, SecretsAreGone, PastDeleteState, PastDeleteNonce,
     PassedStateCheck, Foreign, NonceOf
<1> QED
  BY <1>1, SecretsStep, PTL DEF Spec

(* After its callback has deleted them the secrets of a login are gone     *)
(* from the session for good, however the requests interleave.             *)
THEOREM SecretsAreGoneHolds == Spec => []SecretsAreGone
<1>1. Secrets => SecretsAreGone
  BY DEF Secrets
<1> QED
  BY <1>1, SecretsInvariant, PTL

(* Whenever the success handler is called the state of the request and the *)
(* nonce of its code are secrets of redirected logins of this browser, or  *)
(* missing from the session of a store that does not say so.               *)
THEOREM SuccessIsOwnLoginHolds == Spec => []SuccessIsOwnLogin
<1>1. Secrets => SuccessIsOwnLogin
  <2> SUFFICES ASSUME Secrets, NEW c \in Callbacks, callback[c] = "success"
               PROVE  LET code == query[c].code
                          secrets == {query[c].state, NonceOf(code)}
                      IN  /\ code \in redeemed
                          /\ secrets \subseteq Logins \cup
                                (IF store.reportsMissing THEN {} ELSE {None})
                          /\ \A l \in secrets \cap Logins : login[l] = "redirected"
    BY DEF SuccessIsOwnLogin
  <2>1. /\ state[c] = query[c].state
        /\ nonce[c] = NonceOf(query[c].code)
        /\ store.reportsMissing => state[c] # None /\ nonce[c] # None
        /\ query[c].code \in redeemed
    BY DEF Secrets, Checked, PassedStateCheck
  <2>2. state[c] \in Logins \cup {None} /\ nonce[c] \in Logins \cup {None}
    BY DEF Secrets, TypeOK, Secret
  <2>3. query[c].code \in issued
    BY <2>1 DEF Secrets, TypeOK
  <2> QED
    BY <2>1, <2>2, <2>3 DEF Secrets, RedirectedQueries, RedirectedApprovals
<1> QED
  BY <1>1, SecretsInvariant, PTL

-----------------------------------------------------------------------------
(* The session of an undisturbed login holds its secrets until its one     *)
(* callback has read them.                                                 *)
NoCallbackYet(l) == \A c \in Callbacks : query[c].state # l

BeforeCallback(l) ==
    /\ login[l] \in {"setNonce", "redirected"} /\ NoCallbackYet(l) => sessionState = l
    /\ login[l] = "redirected" /\ NoCallbackYet(l) => sessionNonce = l

DuringCallback(l, c) ==
    /\ callback[c] # "new"
    /\ \A o \in Callbacks : query[o].state = l => o = c
    /\ callback[c] = "getState" => sessionState = l
    /\ callback[c] = "deleteState" => err[c] # "missing" /\ (err[c] = "none" => state[c] = l)
    /\ callback[c] \in {"getState", "deleteState", "provider", "getNonce"} => sessionNonce = l
    /\ callback[c] = "deleteNonce" => err[c] # "missing" /\ (err[c] = "none" => nonce[c] = l)
    /\ callback[c] = "exchange" => nonce[c] = l
    /\ callback[c] \notin {"missing", "mismatchedState"}
    /\ callback[c] = "mismatchedNonce" => ~Redirect(query[c])

Held ==
    \A l \in Logins \ disturbed :
        /\ BeforeCallback(l)
        /\ \A c \in Callbacks : query[c].state = l => DuringCallback(l, c)

(* A callback that has not arrived has no query. *)
NewHasNoQuery == \A c \in Callbacks : callback[c] = "new" => query[c].state = None

Undisturbed == TypeOK /\ RedirectedQueries /\ NewHasNoQuery /\ Held

LEMMA UndisturbedStep == Undisturbed /\ [Next]_vars => Undisturbed'
<1> SUFFICES ASSUME Undisturbed, [Next]_vars PROVE Undisturbed'
  OBVIOUS
<1> DEFINE Facts == RedirectedQueries /\ NewHasNoQuery /\ Held
<1>0. TypeOK /\ TypeOK' /\ Facts
  BY TypeStep DEF Undisturbed
<1> SUFFICES Facts'
  BY <1>0 DEF Undisturbed
<1> USE DEF session, locals, sams, RedirectedQueries, NewHasNoQuery, Held, NoCallbackYet,
        BeforeCallback, DuringCallback, Redirect
<1>1. ASSUME NEW l \in Logins, LoginStep(l) PROVE Facts'
  BY <1>0, <1>1 DEF LoginStep, LoginArrives, SetState, SetNonce, Begun, TypeOK
<1>2. ASSUME NEW code \in Code, Approve(code) PROVE Facts'
  BY <1>0, <1>2 DEF Approve
<1>3. ASSUME NEW c \in Callbacks, NEW q \in Query, CallbackArrives(c, q) PROVE Facts'
  BY <1>0, <1>3, AuthAssumption DEF CallbackArrives, Begun, TypeOK
<1>4. ASSUME NEW c \in Callbacks, CallbackStep(c) PROVE Facts'
  <2>1. CASE GetState(c)
    BY <1>0, <2>1, AuthAssumption DEF GetState, GetErrors, TypeOK
  <2>2. CASE DeleteState(c)
    BY <1>0, <2>2, AuthAssumption DEF DeleteState, AfterState, Left, Begun, TypeOK, Errors
  <2>3. CASE NewProvider(c)
    BY <1>0, <2>3 DEF NewProvider, TypeOK
  <2>4. CASE GetNonce(c)
    BY <1>0, <2>4, AuthAssumption DEF GetNonce, GetErrors, TypeOK
  <2>5. CASE DeleteNonce(c)
    BY <1>0, <2>5, AuthAssumption DEF DeleteNonce, AfterNonce, Left, Begun, TypeOK, Errors
  <2>6. CASE Exchange(c)
    BY <1>0, <2>6, AuthAssumption DEF Exchange, TypeOK
  <2>7. CASE FetchUserInfo(c)
    BY <1>0, <2>7 DEF FetchUserInfo, TypeOK
  <2> QED
    BY <1>4, <2>1, <2>2, <2>3, <2>4, <2>5, <2>6, <2>7 DEF CallbackStep
<1>5. CASE ServerDies
  BY <1>0, <1>5 DEF ServerDies, TypeOK, LoginEnded, CallbackEnded
<1>6. CASE UNCHANGED vars
  BY <1>0, <1>6 DEF vars
<1> QED
  BY <1>1, <1>2, <1>3, <1>4, <1>5, <1>6 DEF Next

(* A login whose session no other request has written to since it began is *)
(* never turned away for its state or its nonce.                           *)
THEOREM UndisturbedLoginMatchesHolds == Spec => []UndisturbedLoginMatches
<1>1. Init => Undisturbed
  BY TypeInit, AuthAssumption DEF Init, Undisturbed, RedirectedQueries, NewHasNoQuery, Held,
     BeforeCallback
<1>2. Undisturbed => UndisturbedLoginMatches
  BY DEF Undisturbed, Held, DuringCallback, UndisturbedLoginMatches, Redirect
<1> QED
  BY <1>1, <1>2, UndisturbedStep, PTL DEF Spec

-----------------------------------------------------------------------------
(* Every step is one of SignIns *)

Exchanged(c) == callback[c] \in {"userInfo", "success"}

(* SAMS has exchanged each code for one callback. *)
CodesAreSpentOnce ==
    \A c, d \in Callbacks :
        Exchanged(c) /\ Exchanged(d) /\ query[c].code = query[d].code => c = d

LEMMA SpentStep == Secrets /\ CodesAreSpentOnce /\ [Next]_vars => CodesAreSpentOnce'
<1> SUFFICES ASSUME Secrets, CodesAreSpentOnce, [Next]_vars PROVE CodesAreSpentOnce'
  OBVIOUS
<1>0. /\ TypeOK
      /\ \A c \in Callbacks : Exchanged(c) => query[c].code \in redeemed
  BY DEF Secrets, Checked, Exchanged
<1> USE DEF CodesAreSpentOnce, Exchanged, session, locals, sams
<1>1. ASSUME NEW l \in Logins, LoginStep(l) PROVE CodesAreSpentOnce'
  BY <1>0, <1>1 DEF LoginStep, LoginArrives, SetState, SetNonce
<1>2. ASSUME NEW code \in Code, Approve(code) PROVE CodesAreSpentOnce'
  BY <1>0, <1>2 DEF Approve
<1>3. ASSUME NEW c \in Callbacks, NEW q \in Query, CallbackArrives(c, q)
      PROVE  CodesAreSpentOnce'
  BY <1>0, <1>3 DEF CallbackArrives, TypeOK
<1>4. ASSUME NEW c \in Callbacks, CallbackStep(c) PROVE CodesAreSpentOnce'
  <2>1. CASE GetState(c)
    BY <1>0, <2>1 DEF GetState, TypeOK
  <2>2. CASE DeleteState(c)
    BY <1>0, <2>2 DEF DeleteState, AfterState, TypeOK
  <2>3. CASE NewProvider(c)
    BY <1>0, <2>3 DEF NewProvider, TypeOK
  <2>4. CASE GetNonce(c)
    BY <1>0, <2>4 DEF GetNonce, TypeOK
  <2>5. CASE DeleteNonce(c)
    BY <1>0, <2>5 DEF DeleteNonce, AfterNonce, TypeOK
  <2>6. CASE Exchange(c)
    BY <1>0, <2>6 DEF Exchange, TypeOK
  <2>7. CASE FetchUserInfo(c)
    BY <1>0, <2>7 DEF FetchUserInfo, TypeOK
  <2> QED
    BY <1>4, <2>1, <2>2, <2>3, <2>4, <2>5, <2>6, <2>7 DEF CallbackStep
<1>5. CASE ServerDies
  BY <1>0, <1>5 DEF ServerDies, TypeOK, CallbackEnded
<1>6. CASE UNCHANGED vars
  BY <1>0, <1>6 DEF vars
<1> QED
  BY <1>1, <1>2, <1>3, <1>4, <1>5, <1>6 DEF Next

Waiting == {l \in Logins : login[l] = "redirected"}

SignedIn == [c \in Callbacks |-> IF callback[c] = "success" THEN query[c] ELSE None]

(* The callbacks that have called the success handler, and with what, stay *)
(* as they are.                                                            *)
LEMMA NobodySignsIn ==
    ASSUME \A c \in Callbacks : (callback'[c] = "success") <=> (callback[c] = "success"),
           \A c \in Callbacks : callback[c] = "success" => query'[c] = query[c]
    PROVE  SignedIn' = SignedIn
  BY DEF SignedIn

LEMMA SignInsStep == Secrets /\ CodesAreSpentOnce /\ [Next]_vars => [S!Next]_S!signIns
<1> SUFFICES ASSUME Secrets, CodesAreSpentOnce, [Next]_vars PROVE [S!Next]_S!signIns
  OBVIOUS
<1>0. TypeOK
  BY DEF Secrets
<1> USE <1>0 DEF session, locals, sams
<1>1. ASSUME NEW l \in Logins, LoginStep(l) PROVE [S!Next]_S!signIns
  <2>1. /\ UNCHANGED <<store, callback, query, issued>>
        /\ \E pc \in LoginPC : login' = [login EXCEPT ![l] = pc]
        /\ login[l] # "redirected"
    BY <1>1 DEF LoginStep, LoginArrives, SetState, SetNonce, LoginPC
  <2>2. SignedIn' = SignedIn
    BY <2>1 DEF SignedIn
  <2>3. Waiting' = Waiting \/ Waiting' = Waiting \cup {l}
    BY <2>1 DEF Waiting, TypeOK
  <2> QED
    BY <2>1, <2>2, <2>3 DEF S!Next, S!Begin, S!signIns, SignedIn, Waiting
<1>2. ASSUME NEW code \in Code, Approve(code) PROVE [S!Next]_S!signIns
  <2>1. PICK l \in Logins, a \in Approvals : code = <<l, a>>
    BY <1>2, AuthAssumption DEF Approve, Code, Foreign, NonceOf
  <2>2. /\ l \in Waiting
        /\ issued' = issued \cup {<<l, a>>}
        /\ UNCHANGED <<store, login, callback, query>>
    BY <1>2, <2>1 DEF Approve, NonceOf, Waiting
  <2>3. SignedIn' = SignedIn /\ Waiting' = Waiting
    BY <2>2 DEF SignedIn, Waiting
  <2>4. S!Approve(l, a)
    BY <2>2, <2>3 DEF S!Approve, SignedIn, Waiting
  <2> QED
    BY <2>4 DEF S!Next
<1>3. ASSUME NEW c \in Callbacks, NEW q \in Query, CallbackArrives(c, q)
      PROVE  [S!Next]_S!signIns
  <2>1. UNCHANGED <<store, login, issued>>
    BY <1>3 DEF CallbackArrives
  <2>2. SignedIn' = SignedIn
    BY <1>3, NobodySignsIn DEF CallbackArrives, TypeOK
  <2> QED
    BY <2>1, <2>2 DEF S!signIns, SignedIn
<1>4. ASSUME NEW c \in Callbacks, CallbackStep(c) PROVE [S!Next]_S!signIns
  <2>1. /\ UNCHANGED <<store, login, issued, query>>
        /\ \A d \in Callbacks \ {c} : callback'[d] = callback[d]
        /\ callback[c] # "success"
    BY <1>4 DEF CallbackStep, GetState, DeleteState, NewProvider, GetNonce, DeleteNonce,
        Exchange, FetchUserInfo, TypeOK
  <2>2. CASE callback'[c] # "success"
    <3>1. SignedIn' = SignedIn
      BY <2>1, <2>2, NobodySignsIn
    <3> QED
      BY <2>1, <3>1 DEF S!signIns, SignedIn
  <2>3. CASE callback'[c] = "success"
    <3>1. callback[c] = "userInfo"
      BY <1>4, <2>3 DEF CallbackStep, GetState, DeleteState, NewProvider, GetNonce,
          DeleteNonce, Exchange, FetchUserInfo, AfterState, AfterNonce, TypeOK
    <3>2. PICK l \in Logins \cup {None} :
              l = query[c].state /\ (store.reportsMissing => l # None)
      BY <3>1 DEF Secrets, Checked, PassedStateCheck, TypeOK, Secret
    <3>3. PICK approval \in issued :
              /\ approval = query[c].code
              /\ approval[1] \in Logins \cup {None}
              /\ store.reportsMissing => approval[1] # None
      BY <3>1 DEF Secrets, Checked, TypeOK, Secret, NonceOf
    <3>4. l \in S!Accepted /\ approval[1] \in S!Accepted
      BY <3>2, <3>3 DEF S!Accepted, Secrets, RedirectedQueries, RedirectedApprovals, NonceOf
    <3>5. \A d \in Callbacks : callback[d] = "success" => query[d].code # approval
      BY <3>1, <3>3, <2>1 DEF CodesAreSpentOnce, Exchanged
    <3>6. SignedIn[c] = None /\ \A d \in Callbacks : SignedIn[d] # None => SignedIn[d].code # approval
      BY <2>1, <3>5 DEF SignedIn
    <3>7. query[c] = [state |-> l, code |-> approval]
      BY <3>2, <3>3 DEF TypeOK, Query
    <3>8. SignedIn' = [SignedIn EXCEPT ![c] = [state |-> l, code |-> approval]]
      BY <2>1, <2>3, <3>7 DEF SignedIn
    <3>9. S!SignIn(c, l, approval)
      BY <2>1, <3>4, <3>6, <3>8 DEF S!SignIn, SignedIn
    <3> QED
      BY <3>9 DEF S!Next
  <2> QED
    BY <2>2, <2>3
<1>5. CASE ServerDies
  <2>1. UNCHANGED <<store, query, issued>> /\ Waiting' = Waiting
    BY <1>5 DEF ServerDies, Waiting, LoginEnded
  <2>2. SignedIn' = SignedIn
    BY <1>5, NobodySignsIn DEF ServerDies, CallbackEnded
  <2> QED
    BY <2>1, <2>2 DEF S!signIns, SignedIn, Waiting
<1>6. CASE UNCHANGED vars
  BY <1>6 DEF vars, S!signIns
<1> QED
  BY <1>1, <1>2, <1>3, <1>4, <1>5, <1>6 DEF Next

(* Every behaviour of the handlers, the browser and SAMS is one of SignIns: *)
(* a user is signed in once for each approval, of a login of the same       *)
(* browser, for any number of tabs, reloads and crashes and whatever the    *)
(* callback is asked with.                                                  *)
THEOREM AuthHandlerImplementsSignIns == Spec => ImplementsSignIns
<1>1. Init => S!Init /\ CodesAreSpentOnce
  BY AuthAssumption DEF Init, S!Init, CodesAreSpentOnce, Exchanged, Foreign, Store
<1> QED
  BY <1>1, SecretsInvariant, SpentStep, SignInsStep, PTL DEF Spec, ImplementsSignIns, S!Spec
===============================================================================
