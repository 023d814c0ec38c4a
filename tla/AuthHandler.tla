----------------------------- MODULE AuthHandler -----------------------------
(***************************************************************************)
(* The OIDC login of auth/auth.go: the login and callback requests of one  *)
(* browser, served concurrently, over one session that holds at most one   *)
(* state and one nonce (SecretStore, implemented by the application) and   *)
(* SAMS, which redirects the browser back with a single-use code.  The     *)
(* callback is an HTTP endpoint: it is asked with any state and any code.  *)
(*                                                                         *)
(* A request takes a step for each call it makes to the session or to      *)
(* SAMS; what it computes in between belongs to the step before.  Both     *)
(* random strings of a login are named by the login itself: 32 random      *)
(* bytes do not repeat.                                                    *)
(***************************************************************************)
CONSTANTS
    Logins,         \* login requests of the browser
    Callbacks,      \* callback requests of the browser
    Approvals,      \* the times a user can approve one login: a code for each
    Other,          \* a state or nonce that no login of this browser has made
    None,           \* no value: the empty string
    Stores          \* the kinds of SecretStore that applications implement

(* The nonce in the ID token of a code is its first component.  SAMS also  *)
(* gives out codes for other authorization requests, with another nonce or *)
(* with none.                                                              *)
Foreign == {Other, None} \X Approvals
Code == (Logins \X Approvals) \cup Foreign
NonceOf(code) == code[1]

(* reportsMissing: a Get of a value that is not there is an error, and not *)
(* the empty string.  deletes: a Delete, which cannot report that it       *)
(* failed, never fails.  The interface leaves both open.                   *)
Store == [reportsMissing : BOOLEAN, deletes : BOOLEAN]

ASSUME AuthAssumption ==
    /\ Stores \subseteq Store
    /\ None \notin Logins \cup Code
    /\ Other \notin Logins \cup {None}

VARIABLES
    store,         \* the application's SecretStore, one for good
    sessionState,  \* the state in the per-user session
    sessionNonce,  \* the nonce in the per-user session
    login,         \* login[l]: where the login request l is
    callback,      \* callback[c]: where the callback request c is
    query,         \* query[c]: its URL parameters
    state,         \* state[c]: what GetState returned to it
    nonce,         \* nonce[c]: what GetNonce returned to it
    err,           \* err[c]: what its last Get reported
    issued,        \* codes SAMS has given out, <<login, approval>>
    redeemed,      \* codes SAMS has exchanged for a token
    disturbed      \* history: logins whose session another request has written to

session == <<sessionState, sessionNonce>>
locals == <<query, state, nonce, err>>
sams == <<issued, redeemed>>
vars == <<store, session, login, callback, locals, sams, disturbed>>

Secret == Logins \cup {None}

(* The parameters of a callback.  A code SAMS would not take is like none. *)
Query == [state : Secret \cup {Other}, code : Code \cup {None}]

(* What SAMS has redirected the browser of a login to: a code of it, or a  *)
(* denial with only its state.                                             *)
Redirect(q) ==
    /\ q.state \in Logins
    /\ q.code # None => NonceOf(q.code) = q.state

LoginPC == {"new", "setState", "setNonce", "redirected", "failed"}

CallbackPC ==
    {"new", "getState", "deleteState", "provider", "getNonce", "deleteNonce",
     "exchange", "userInfo", "success", "failed", "missing", "mismatchedState",
     "mismatchedNonce"}

Errors == {"none", "missing", "store"}

TypeOK ==
    /\ store \in Stores
    /\ sessionState \in Secret
    /\ sessionNonce \in Secret
    /\ login \in [Logins -> LoginPC]
    /\ callback \in [Callbacks -> CallbackPC]
    /\ query \in [Callbacks -> Query]
    /\ state \in [Callbacks -> Secret]
    /\ nonce \in [Callbacks -> Secret]
    /\ err \in [Callbacks -> Errors]
    /\ issued \subseteq Code
    /\ redeemed \subseteq issued
    /\ disturbed \subseteq Logins

Init ==
    /\ store \in Stores
    /\ sessionState = None
    /\ sessionNonce = None
    /\ login = [l \in Logins |-> "new"]
    /\ callback = [c \in Callbacks |-> "new"]
    /\ query = [c \in Callbacks |-> [state |-> None, code |-> None]]
    /\ state = [c \in Callbacks |-> None]
    /\ nonce = [c \in Callbacks |-> None]
    /\ err = [c \in Callbacks |-> "none"]
    /\ issued = Foreign
    /\ redeemed = {}
    /\ disturbed = {}

(* The logins whose state is, or was, in the session. *)
Begun == {l \in Logins : login[l] \in {"setNonce", "redirected", "failed"}}

-----------------------------------------------------------------------------
(* LoginHandler *)

(* The provider is discovered and the state generated. *)
LoginArrives(l) ==
    /\ login[l] = "new"
    /\ \E pc \in {"setState", "failed"} : login' = [login EXCEPT ![l] = pc]
    /\ UNCHANGED <<store, session, callback, locals, sams, disturbed>>

(* A Set that reports an error may or may not have been carried out. *)
SetState(l) ==
    /\ login[l] = "setState"
    /\ \/ /\ sessionState' = l
          /\ disturbed' = disturbed \cup (Begun \ {l})
          /\ \E pc \in {"setNonce", "failed"} : login' = [login EXCEPT ![l] = pc]
       \/ /\ login' = [login EXCEPT ![l] = "failed"]
          /\ UNCHANGED <<sessionState, disturbed>>
    /\ UNCHANGED <<store, sessionNonce, callback, locals, sams>>

SetNonce(l) ==
    /\ login[l] = "setNonce"
    /\ \/ /\ sessionNonce' = l
          /\ disturbed' = disturbed \cup (Begun \ {l})
          /\ \E pc \in {"redirected", "failed"} : login' = [login EXCEPT ![l] = pc]
       \/ /\ login' = [login EXCEPT ![l] = "failed"]
          /\ UNCHANGED <<sessionNonce, disturbed>>
    /\ UNCHANGED <<store, sessionState, callback, locals, sams>>

-----------------------------------------------------------------------------
(* SAMS and the browser *)

(* The user approves the login, perhaps again after going back. *)
Approve(code) ==
    /\ NonceOf(code) \in Logins
    /\ login[NonceOf(code)] = "redirected"
    /\ issued' = issued \cup {code}
    /\ UNCHANGED <<store, session, login, callback, locals, redeemed, disturbed>>

(* A redirect, a reload of one, or any other request for the callback URL. *)
(* Nobody knows a state that no redirect has carried yet.  When two        *)
(* callbacks of one login are served, each may disturb the other.          *)
CallbackArrives(c, q) ==
    /\ callback[c] = "new"
    /\ q.state \in Logins => login[q.state] = "redirected"
    /\ q.code # None => q.code \in issued
    /\ callback' = [callback EXCEPT ![c] = "getState"]
    /\ query' = [query EXCEPT ![c] = q]
    /\ disturbed' =
        IF \E o \in Callbacks : callback[o] # "new" /\ query[o].state = q.state
        THEN disturbed \cup (Begun \cap {q.state})
        ELSE disturbed
    /\ UNCHANGED <<store, session, login, state, nonce, err, sams>>

-----------------------------------------------------------------------------
(* CallbackHandler *)

(* What a Get of the SecretStore can report for the value it finds.  The   *)
(* interface leaves open whether a missing value is an error.              *)
GetErrors(value) ==
    {"store", IF value = None /\ store.reportsMissing THEN "missing" ELSE "none"}

(* What a Delete can leave of the value it finds. *)
Left(value) == IF store.deletes THEN {None} ELSE {None, value}

GetState(c) ==
    /\ callback[c] = "getState"
    /\ \E e \in GetErrors(sessionState) :
        /\ err' = [err EXCEPT ![c] = e]
        /\ state' = [state EXCEPT ![c] = IF e = "none" THEN sessionState ELSE None]
    /\ callback' = [callback EXCEPT ![c] = "deleteState"]
    /\ UNCHANGED <<store, session, login, query, nonce, sams, disturbed>>

(* Mutant: a state is compared only with one that the session holds. *)
AfterStateUnlessMissing(c) ==
    IF err[c] = "missing" THEN "provider"
    ELSE IF err[c] = "store" THEN "failed"
    ELSE IF state[c] # query[c].state THEN "mismatchedState"
    ELSE "provider"

(* Where the checks of GetState's error and of the state lead. *)
AfterState(c) ==
    IF err[c] = "missing" THEN "missing"
    ELSE IF err[c] = "store" THEN "failed"
    ELSE IF state[c] # query[c].state THEN "mismatchedState"
    ELSE "provider"

(* Mutant: a state that matches stays in the session. *)
DeleteStateOnMismatch(c) ==
    /\ callback[c] = "deleteState"
    /\ sessionState' = IF AfterState(c) = "provider" THEN sessionState ELSE None
    /\ disturbed' = disturbed \cup (Begun \ {query[c].state})
    /\ callback' = [callback EXCEPT ![c] = AfterState(c)]
    /\ err' = [err EXCEPT ![c] = "none"]
    /\ UNCHANGED <<store, sessionNonce, login, query, state, nonce, sams>>

(* The state is deleted whatever GetState reported, then checked. *)
DeleteState(c) ==
    /\ callback[c] = "deleteState"
    /\ sessionState' \in Left(sessionState)
    /\ disturbed' = disturbed \cup (Begun \ {query[c].state})
    /\ callback' = [callback EXCEPT ![c] = AfterState(c)]
    /\ err' = [err EXCEPT ![c] = "none"]
    /\ UNCHANGED <<store, sessionNonce, login, query, state, nonce, sams>>

(* getUserInfo *)
NewProvider(c) ==
    /\ callback[c] = "provider"
    /\ \E pc \in {"getNonce", "failed"} : callback' = [callback EXCEPT ![c] = pc]
    /\ UNCHANGED <<store, session, login, locals, sams, disturbed>>

(* Mutant: the nonce is looked for after it has been deleted. *)
GetNonceLate(c) ==
    /\ callback[c] = "getNonce"
    /\ sessionNonce' = None
    /\ \E e \in GetErrors(None) : err' = [err EXCEPT ![c] = e]
    /\ nonce' = [nonce EXCEPT ![c] = None]
    /\ callback' = [callback EXCEPT ![c] = "deleteNonce"]
    /\ UNCHANGED <<store, sessionState, login, query, state, sams, disturbed>>

GetNonce(c) ==
    /\ callback[c] = "getNonce"
    /\ \E e \in GetErrors(sessionNonce) :
        /\ err' = [err EXCEPT ![c] = e]
        /\ nonce' = [nonce EXCEPT ![c] = IF e = "none" THEN sessionNonce ELSE None]
    /\ callback' = [callback EXCEPT ![c] = "deleteNonce"]
    /\ UNCHANGED <<store, session, login, query, state, sams, disturbed>>

AfterNonce(c) ==
    IF err[c] = "missing" THEN "missing"
    ELSE IF err[c] = "store" THEN "failed"
    ELSE "exchange"

DeleteNonce(c) ==
    /\ callback[c] = "deleteNonce"
    /\ sessionNonce' \in Left(sessionNonce)
    /\ disturbed' = disturbed \cup (Begun \ {query[c].state})
    /\ callback' = [callback EXCEPT ![c] = AfterNonce(c)]
    /\ err' = [err EXCEPT ![c] = "none"]
    /\ UNCHANGED <<store, sessionState, login, query, state, nonce, sams>>

(* Mutant: nobody compares the nonce of the ID token. *)
ExchangeUnverified(c) ==
    /\ callback[c] = "exchange"
    /\ query[c].code \in issued \ redeemed
    /\ redeemed' = redeemed \cup {query[c].code}
    /\ callback' = [callback EXCEPT ![c] = "userInfo"]
    /\ UNCHANGED <<store, session, login, locals, issued, disturbed>>

(* Mutant: a callback without a code is exchanged like any other. *)
ExchangeNothing(c) ==
    /\ callback[c] = "exchange"
    /\ redeemed' = redeemed \cup {query[c].code}
    /\ callback' = [callback EXCEPT ![c] = "failed"]
    /\ UNCHANGED <<store, session, login, locals, issued, disturbed>>

(* The code is exchanged and the ID token, which carries the nonce of the  *)
(* login the code was issued for, verified.  SAMS takes a code once; a     *)
(* failure may come before or after it has done so.                        *)
Exchange(c) ==
    /\ callback[c] = "exchange"
    /\ \/ /\ query[c].code \in issued \ redeemed
          /\ redeemed' = redeemed \cup {query[c].code}
          /\ \E pc \in {"failed",
                IF nonce[c] # NonceOf(query[c].code) THEN "mismatchedNonce" ELSE "userInfo"} :
                callback' = [callback EXCEPT ![c] = pc]
       \/ /\ callback' = [callback EXCEPT ![c] = "failed"]
          /\ UNCHANGED redeemed
    /\ UNCHANGED <<store, session, login, locals, issued, disturbed>>

(* The claims are fetched and checked; the success handler is called. *)
FetchUserInfo(c) ==
    /\ callback[c] = "userInfo"
    /\ \E pc \in {"success", "failed"} : callback' = [callback EXCEPT ![c] = pc]
    /\ UNCHANGED <<store, session, login, locals, sams, disturbed>>

-----------------------------------------------------------------------------
LoginEnded == {"redirected", "failed"}

CallbackEnded ==
    {"success", "failed", "missing", "mismatchedState", "mismatchedNonce"}

(* The server dies under the requests it is serving; the session store and *)
(* SAMS keep what they have.                                               *)
ServerDies ==
    /\ login' = [l \in Logins |->
        IF login[l] \in LoginEnded \cup {"new"} THEN login[l] ELSE "failed"]
    /\ callback' = [c \in Callbacks |->
        IF callback[c] \in CallbackEnded \cup {"new"} THEN callback[c] ELSE "failed"]
    /\ UNCHANGED <<store, session, locals, sams, disturbed>>

LoginStep(l) == LoginArrives(l) \/ SetState(l) \/ SetNonce(l)

CallbackStep(c) ==
    \/ GetState(c) \/ DeleteState(c) \/ NewProvider(c) \/ GetNonce(c)
    \/ DeleteNonce(c) \/ Exchange(c) \/ FetchUserInfo(c)

Next ==
    \/ \E l \in Logins : LoginStep(l)
    \/ \E code \in Code : Approve(code)
    \/ \E c \in Callbacks, q \in Query : CallbackArrives(c, q)
    \/ \E c \in Callbacks : CallbackStep(c)
    \/ ServerDies

Spec == Init /\ [][Next]_vars

-----------------------------------------------------------------------------
(* Properties *)

(* The success handler is called only with the secrets the session held:   *)
(* its state came with the request, its nonce is in the ID token of the    *)
(* code.  So for a store that reports what is missing both belong to       *)
(* logins of this browser that were redirected to SAMS, whatever the       *)
(* callback is asked with and however the requests of tabs interleave; for *)
(* another store, where one of them is missing, nothing was compared.      *)
SuccessIsOwnLogin ==
    \A c \in Callbacks : callback[c] = "success" =>
        LET code == query[c].code
            secrets == {query[c].state, NonceOf(code)}
        IN  /\ code \in redeemed
            /\ secrets \subseteq Logins \cup (IF store.reportsMissing THEN {} ELSE {None})
            /\ \A l \in secrets \cap Logins : login[l] = "redirected"

(* If deletions take effect: once a callback is past DeleteState the       *)
(* session never holds the state it came with again, and past DeleteNonce  *)
(* never the nonce it read: a later callback finds neither.                *)
PastDeleteState(c) ==
    callback[c] \in {"provider", "getNonce", "deleteNonce", "exchange", "userInfo",
                        "success", "mismatchedState", "mismatchedNonce"}

PastDeleteNonce(c) ==
    callback[c] \in {"exchange", "userInfo", "success", "mismatchedNonce"}

SecretsAreGone ==
    store.deletes =>
        \A c \in Callbacks, l \in Logins :
            /\ PastDeleteState(c) /\ l \in {query[c].state, state[c]} => sessionState # l
            /\ PastDeleteNonce(c) /\ l \in {query[c].state, nonce[c]} => sessionNonce # l

(* A redirect of SAMS is turned away for a missing or different state or   *)
(* nonce only if another request wrote to the session since its login      *)
(* began: whatever stale secrets earlier logins and failed deletions left  *)
(* behind, one login at a time gets through.                               *)
UndisturbedLoginMatches ==
    \A c \in Callbacks :
        /\ callback[c] \in {"missing", "mismatchedState", "mismatchedNonce"}
        /\ Redirect(query[c])
        => query[c].state \in disturbed

S == INSTANCE SignIns WITH
        Requests <- Callbacks,
        lenient <- ~store.reportsMissing,
        begun <- {l \in Logins : login[l] = "redirected"},
        approved <- issued,
        signedIn <- [c \in Callbacks |->
                        IF callback[c] = "success" THEN query[c] ELSE None]

(* Whatever the callback is asked with, and whatever the tabs, reloads,    *)
(* store errors and crashes, the success handler is called as SignIns has  *)
(* it: once for an approval, of a login that this browser began, and for a *)
(* request with the state of one.                                          *)
ImplementsSignIns == S!Spec

(* auth.go:167: "Delete the state after getting it to make sure it's       *)
(* one-time use."  With a store whose deletions take effect no two         *)
(* callbacks pass the check of one state.                                  *)
PassedStateCheck(c) ==
    callback[c] \in {"provider", "getNonce", "deleteNonce", "exchange", "userInfo",
                        "success", "mismatchedNonce"}

StateUsedOnce ==
    store.deletes => \A c1, c2 \in Callbacks :
        /\ PassedStateCheck(c1) /\ PassedStateCheck(c2)
        /\ query[c1].state = query[c2].state
        /\ query[c1].state \in Logins
        => c1 = c2
=============================================================================
