# Verification of sourcegraph-accounts-sdk-go

TLA+ models of the Go SDK for the Sourcegraph Accounts Management System (SAMS),
the TLC runs that check them on small instances, and TLAPS proofs of their most
important properties for every instance. `PROJECT.json` lists, for tools, what
this file explains: the components, the runs, the mutants that show each
property can fail, the lines of code each definition stands for, the hazards
the properties are for, and the theorems.

    tlc -workers 2 -config <run>.cfg <MC module>.tla    # a run
    tlapm <module>Proofs.tla                            # the proofs of a module

Paths below are relative to the repository; models are in this directory.

## The system

The SDK is a client library. It has no server of its own: its code runs in the
goroutines of the application, between SAMS (ConnectRPC, OIDC), a Pub/Sub
subscription, and a session store that the application supplies.

| Component | State it keeps | Operations | What is hard | Module |
|---|---|---|---|---|
| Notifications subscriber, `notifications/v1/subscriber.go` | `state` (atomic: idle, started, stopped), `cancelContext`; the subscription's leases (external) | `Start`, `Stop`, the callback of `Receive` | Start racing Stop; callbacks in flight at Stop; redelivery, lost acknowledgements, crashes, payloads nobody can decode | `Subscriber` |
| OIDC login, `auth/auth.go` | one state and one nonce per user session, in the application's `SecretStore` | `LoginHandler`, `CallbackHandler` (`getUserInfo`) | several tabs interleave on one session; the callback is served for any state and code; a request fails or dies between two store calls; stores differ in what they do with a missing value | `AuthHandler` |
| Token introspection, `clientv1_tokens.go` | an expirable LRU of responses | `IntrospectToken` | stale answers: a token is revoked or runs out while it is cached or its answer is under way | `TokenCache` |
| Sessions, `clientv1_sessions.go` | an expirable LRU of sessions | `GetSessionByID`, `SignOutSession` | a lookup racing a sign-out or a sign-in; a sign-out whose answer is lost; *nobody* is cached as well | `SessionsCache` |
| Role resources, `clientv1_roles.go` | a client stream per call; at SAMS the catalogue of a type and who is writing it | `RegisterRoleResources` | replicas racing in a rolling deployment; the iterator or the stream failing half way | `RoleResources` |
| Guards, `auth/clientcredentials` | none of their own; they read the introspection cache | `HTTPAuthenticator.RequireScopes`, `Interceptor` (`requireScope`) | deciding on cached responses; early returns in two different orders; errors that must not look like denials | `ClientCredentials` |
| Scopes, `scopes/` | none | `ParseScope`, `Strategy`, `Match`; `Allowed`, `AllowedScopes.Contains`; `PermissionToMetadataScope` | matching text by lengths and separators; tables kept by hand | `Scopes`, `ScopeStrategy`, `AllowedScopes` |
| Users, service access tokens, `SignOutSession`, error mapping, `clientv1*.go` | the token of a `ClientV1`, under the lock of its token source | one request each; `parseResponseAndError` | a request that outlives its caller; lost answers; records that change meanwhile; one token fetched for many calls | `ClientMethods`, `ClientCalls` |
| Accounts client, `accounts/v1`, `accountsv1.go` | none | `GetUser` | ignores the caller's context | `ClientMethods`, `ClientCalls` |
| Configuration, `sams.go`, `clientv1.go`, `accountsv1.go`, `notificationsv1.go` | none | validation, construction | every client makes its own root of one URL | `Configuration` (partly) |
| Registries, `roles/`, `services/` | constant tables | lookups | entries copied by hand | `Roles` |
| Generated code, `clients/v1` | none | messages; which path a method is sent to and which method a path leads to | none but its size | `ClientMessages`, `ClientProcedures` (partly) |

How they interact: the guards call `IntrospectToken`, so concurrent requests of
a service share the introspection cache, and they match scopes with `Strategy`.
The methods of a `ClientV1` share its token source, and all of them go through
the generated clients to SAMS and back through `parseResponseAndError`. The
components are otherwise independent: none calls another one back, and they
share no state but the two caches and the token of a `ClientV1`.

What makes each component correct:

- *Subscriber*: one receiver, that Stop ends and nothing revives; quiet once
  Start has returned; no notification acknowledged before its handler has
  succeeded; failed ones retried.
- *Login*: a success needs the state and the nonce that the session held, so
  both are of logins of this browser if the store reports what is missing; an
  approval signs in once; secrets are used up; a login nobody interferes with
  gets through.
- *Caches*: a bound on how stale an answer can be, in spite of answers that are
  cached late, for tokens in one direction and for sessions in both; expiry needs
  no bound; a client sees its own sign-outs.
- *Role resources*: only whole registrations remove anything; nil means that
  SAMS has answered; no call keeps its resource type for ever but those that return
  with their stream left open, at a failed iterator or Send.
- *Guards*: nobody admitted without being entitled, up to the staleness bound;
  nobody denied except for the token.
- *Calls*: what a caller is told, of its request or of SAMS's records, is true
  and complete; nothing is carried out twice; no more tokens are fetched than needed; a call
  ends when its context does.
- *Scopes*: text matching agrees with what scopes mean; whatever the API
  requires can be registered for.
- *Registries, configuration*: a role's text and its entry agree; all clients
  come to the same SAMS.

## The modules

    NotificationQueue <-- refinement -- Subscriber <-- SubscriberProofs
    SignIns <-- refinement -- AuthHandler <-- AuthHandlerProofs
    RecentReads <-- refinement -- SessionsCache <-- SessionsCacheProofs
    Registrations <-- refinement -- RoleResources <-- RoleResourcesProofs
    StaleReads <-- refinement -- TokenCache <-- ClientCredentials
                  TokenCache, ClientCredentials <-- ClientCredentialsProofs
                  TokenCache <-- TokenCacheProofs <-- ClientCredentialsProofs

    ClientMessages, ClientProcedures <-- ClientMethods <-- SAMS <-- ClientCalls
    AtMostOnce <-- refinement -- ClientCalls <-- ClientCallsProofs

    Scopes <-- ScopeStrategy, AllowedScopes, MCClientCredentials
    ClientCalls, ScopeStrategy, AllowedScopes, Roles, Configuration <-- ClientLibrary
    ClientLibrary <-- MCClientCalls, TextProofs

An arrow to the left is EXTENDS or INSTANCE. Each state machine has an `MC...`
module with the constants of its instances. Operators headed "Mutant:" in a
module are not part of the model: each is a plausible bug in the operator it
precedes, and the property it is listed with in `PROJECT.json` fails when it
takes that operator's place.

### Subscriber and NotificationQueue

`state` is `s.state.value`, `cancelContext` the field of that name, `ctx` the
context `Start` makes. A Start goroutine goes *ready* - (compare-and-swap,
`StartSwap`) - *publishing* - (`StartPublish`: the context is made and its
cancel function stored) - *receiving* - *returned*, or panics; `ReceiveFails`
is Receive's own error, and `ReceiveReturns` waits for every callback, as
Receive does. Stop is a swap and a call of whatever function it then finds in
the field. The field is one word that two goroutines access without
synchronisation; both outcomes of that race are orders of `StartPublish` and
`StopCancel`.

A callback goroutine (`worker[w]`) is handed a notification (`Deliver`), which
is *leased* in the meantime, decodes it and refuses, skips or handles it
(`Refuse`, `Skip`, `CallHandler`; `Status` is `handleReceive`), and Acks or
Nacks. Of a notification only what decides its fate is kept: whether its body
and its metadata can be decoded, and its name. The broker is external:
unordered, at least once. Leases expire at any time; Ack and Nack may be lost;
a `Crash` of the process leaves only the broker and builds a new subscriber. A
handler that panics is a crash.

`NotificationQueue` is what the subscriber promises: a notification leaves the
subscription only if it is well formed and nobody wants it or its handler has
succeeded. `Subscriber!ImplementsQueue` states the refinement: outstanding is
what is not acknowledged.

### AuthHandler and SignIns

One browser, so one session. Requests take a step for each call to the store or
to SAMS; whatever is computed in between, early returns included, belongs to
the step before. `login[l]` and `callback[c]` are program counters, `query[c]`
the URL parameters of a callback, `state[c]`, `nonce[c]`, `err[c]` the locals. A
login names both its random strings.

The callback is an HTTP endpoint, and `CallbackArrives` asks it with any state
and any code: those of a redirect, reloads included, any others put together,
none. The codes SAMS has given out are `issued`: one per approval of a login
here, and from the start those of authorization requests made elsewhere, whose
ID token has another nonce or none (`Foreign`). Only two things cannot be asked
with: a state that no redirect has carried yet, since it is random, and a code
that SAMS has not given out, which is as good as none. SAMS redeems a code once.
A `Query` is a `Redirect` if SAMS could have sent it: the state of a login with a
code of the same login, or with a denial.

The store is one of the kinds that applications may implement, and `Stores` says
which are considered: a `Get` may report a missing value as an error
(`reportsMissing`) or return the empty string, and a `Delete`, which cannot
report an error, may always take effect (`deletes`) or fail. The interface
leaves both open. A `Get` or `Set` may fail in any case, and a `Set` that reports
an error may have been carried out. `ServerDies` cuts all requests short.

`SuccessIsOwnLogin` is what the two checks of the code are worth. With a store
that reports missing values the state and the nonce of a success are those of
logins of this browser. With one that does not, a missing value equals an absent
one, and the property says no more than the code does: where state or nonce is
missing nothing is compared. A `SecretStore` should therefore report them.
The state and the nonce are compared apart from each other, so with two tabs a
success may bring the state of one login and the approval of the other: both are
of this browser and its user.

`disturbed` is a history variable: the logins for which some *other* request
has written to the session, or for which a second callback has come, since they
put their state into it.

`SignIns` is what an application may rely on when its success handler is called:
the request names a login that was begun before in the same browser, the user
approved such a login, and an approval signs in once; the *lenient* application,
whose store does not report missing values, also takes a request with no name or
an approval bound to no login. `ImplementsSignIns` maps a redirected login to a
begun one, a code to an approval, and a callback that reached the success
handler to a sign-in with its state and code. Stores that fail, tabs, reloads
and crashes of the server are stutters there. Its mutant is the check of the
state (`AfterState`), that of `SuccessIsOwnLogin` the check of the nonce.

### TokenCache and StaleReads, SessionsCache and RecentReads

A call asks the LRU, and on a miss SAMS: `Begin`, `CheckCached`, `Serve` (SAMS
answers with what is true then), `Receive` (the answer arrives and is cached),
`Fail` at any point between, `Return`. The gap between `Serve` and `Receive` is
where revocations and sign-outs overtake answers. The LRU (an external library)
is a function to entries with the last instant they are returned at; any entry
may be evicted at any time, which covers every capacity, the recency order and
a client without a cache. Client and SAMS share one clock, and no *answer* is
under way for longer than `MaxLatency` (a guard of `Tick`); requests may take
any time to reach SAMS. The code sets no deadline itself: the bound is that of
the caller's context or HTTP client. Without any there is no bound to prove. The clock
has whole instants, the comparisons with it are those of the code, and an
entry is returned up to and including its last instant.

`AsTime` is a conversion that matters: the absent expiry of a token becomes the
epoch, which is before every other instant.

Of a session its user is kept: nobody, or one of `Users`. Users sign in and out
elsewhere, in any order, so both answers go stale: the code caches a session
without a user like any other. `lastAt` is when each user, or nobody, last
ceased to be the user of a session. `ChangesAreSeen` bounds both directions: a
lookup that finds who is not the user, or nobody where there is a user, finds
what was so no more than TTL and one latency before it began. `acknowledged`,
`afterwards` and `overtaken` are history variables for `ReadYourSignOut`, which
is about a session until its next sign-in.

`StaleReads` is what the introspection cache promises: a read of something that
ends once and for all answers *yes* only if it had not ended a bound before the
read began, and *no* only if it has ended. A call between its first look into
the cache and its return is a read (`ReadOf`). A token ends when it is revoked or
runs out, whichever is first (`EndedAt`), which `StaleReads` allows to happen as
time passes. `Fail` is a read that ends without an answer. Beside the bound of
`RevocationIsSeen` this says that nobody is told *inactive* of what still holds,
by failures and evictions in the cache least of all.

`RecentReads` is what the sessions cache promises: the value of a key may change
and come back, and a read answers what the value is, or was no longer ago than
the bound when the read began. `ImplementsRecentReads` states it with the bound
`TTL + MaxLatency`, who is signed in, or that nobody is, as the value.

### RoleResources and Registrations

Each replica makes one call, with its own offer of resources, and the iterator
partitions the offer into pages in any way. A page is a message on the stream of the
replica, read by SAMS later; once SAMS has closed the stream a Send gets lost,
or reports `io.EOF`. SAMS follows the contract in
`clients/v1/clients.proto`: one stream of a type at a time, others aborted, and
resources of other revisions removed when a stream ends well. A revision is a
UUID, so it is named by the call. The iterator runs in the loop of the code, so
`IteratorFails` leaves the stream open, as the code does; so does `SendFails`. These
returns (`LeftOpen`) keep the type until the context ends or SAMS closes the
stream, and are the exceptions of `TypeIsReleased`: a call that ends in any
other way, with its answer lost or late or its stream broken, does not.

`Registrations` is what the replicas may rely on together: one registration of
the type is written at a time, nothing is removed until one is complete, which
leaves exactly its offer, and who is told of no error has completed or has left
the type to another. `ImplementsRegistrations` keeps of the protocol the
catalogue, the holder of the type, and per replica its fate at SAMS (`Fate`) and
what its caller was told (`Told`); pages and messages are gone. `NilIsAnswered`,
the half of it about callers, is a theorem of its own and has no run.

### ClientCredentials

Extends `TokenCache`: a goroutine of a request is a caller of it, and `Arrive`,
`Introspect` and `Finish` contain its steps. `Early...` are the returns before
the introspection, `Verdict...` the tests after it, each in its guard's own
order. `Covers` stands for `Strategy`; the instances take it from `Scopes`.
A request the interceptor sees on the client side is passed on unchanged and is
left out. `Fail` is any error of the introspector, cancellation included.

### ClientMethods, SAMS, ClientCalls and AtMostOnce

`ClientMessages` has the messages of `clients.pb.go` as sets of records, and
`ClientProcedures` the wiring of `clients.connect.go`: the path of each client
method, and the method each handler switches that path to. `ClientMethods` is
what the SDK's methods do before and after the request: `Prepare(a)` is whether
the arguments are valid, the path and the message; `Result(a, answer)` is
`parseResponseAndError` and what the method returns. The arguments are records,
by the names `id`, `key`, `set`, `value` and `expired`. `NewStruct` (external, a
constant) makes of a caller's metadata what can be sent; it fails on some values,
which the code reports before it calls, and need not keep what it takes: the
instance has a number that float64 does not have. An answer is a code, the
details of its error (the code reads them in order, up to one it cannot decode)
and a message.

`SAMS` is external: `Serve` gives, for a path and a message, every answer SAMS
may give and its records afterwards. It looks up the path with the handlers'
switch and the message by what the field is called, so a wrong path or a field
in the wrong place leads to a wrong answer, as it would in reality. It may also
refuse anything with an internal error, be an older version that lacks the
method, or answer `aborted`. The namespace `*` asks for all of a user's metadata
and cannot be written. A list of tokens is the first page of them (`Pages`): the
SDK discards the token of the next.

`ClientCalls` runs any number of calls over one token source and one SAMS:
*idle* - `Begin` - *authorizing* - `Authorize` - (*fetching* - `FetchToken`) -
*sending* - `Send` - *waiting* - `Receive` - *returned*. `oauth2.ReuseTokenSource`
holds its lock while it fetches and does not know the call's context. `GetUser` of
the Accounts API asks a token source of its user instead (*asking*, `OwnToken`),
which may fail or never answer. `Answers`
is SAMS reading a request, which it may do long after `GiveUp` or `Break` have
made the call return. `executed` and `before` are history variables.

`AnswerFitsRequest` goes both ways. An answer has nothing in it that was not asked
for (`Fits`), and nothing is missing in it that was there all the time
(`IsComplete`): a filter sent for an option that is absent hides tokens, and is
caught.

`AtMostOnce` is what a remote call promises to the one who makes it.
`ClientCalls!ImplementsAtMostOnce` maps what a call returned to what its caller
knows: nil to *done*, `ErrNotFound`, `ErrAborted`, `ErrRecordMismatch` and
refused arguments to *refused*, every other error to *unknown*. The abstract
machine makes the mapping mean something: *done* only after one execution,
*refused* only if there was none nor will be, *unknown* in either case, and an
execution may follow it. The SDK sends nothing twice by itself, so what is
left to its caller is to read a record again before a retry after *unknown*.

### Scopes, ScopeStrategy and AllowedScopes

`Scopes` has `ParseScope`, `ToScope`, the aliases and the tests of one turn of
`Strategy`'s loop on sequences of symbols: the separators' colons, the dots, and
the words between them. `ScopeStrategy` puts every list and needle of its constants to
`Strategy`, and the same question to records `[service, path, action]` from
which the texts are made (`Grants`). `AllowedScopes` has the table of allowed
scopes, the scopes the API's methods require, and
`PermissionToMetadataScope`.

Comments and options of `clients.proto` are the source of `RequiredScopes`.
Two comments in the Go code differ from them: `clientv1_users.go:134` gives
`::read` for `UpdateUserMetadata`, where `clients.proto:60-61` has `::write`,
and `clientv1_service_access_tokens.go` gives `sams::service_access_tokens`
where the proto asks for the permission of the token's service, which the
wider scope covers.

### Roles and Configuration

`Roles` is the table of `roles.go` and each lookup over it; the maps of lists
that three of them fill are one recursive function, `Group`, over the values,
their keys and which of them are kept. An entry (`roleInfo`) is written by hand:
its role, whose text begins with a service, and the service once more, as fields
that can disagree; `RegistryIsConsistent` says they do not.

`Configuration` follows a URL from the environment, through `Validate` and the
defaults, to the root each client appends its paths to; of a URL only the
slashes at its end and the case of its letters are kept. `TokenURL` doubles a
slash at the end of the configured URL, which `OneInstanceIsCalled` does not
exclude; it says that tokens come from the same instance.

`ClientLibrary` gathers these pure parts with the calls of `ClientCalls`: it has
that module's specification, and the properties of the parts.

## The runs

| Run | Instance | Checks |
|---|---|---|
| `SubscriberDelivery` | 2 Starts, 2 Stops, 2 callbacks, 4 notifications (handled, skipped, bad metadata, bad body), 1 crash | `TypeOK`, `OneReceiver`, `QuietAfterReturn`, `NeverRevived`, `NoNotificationLost`, `ImplementsQueue` |
| `SubscriberLiveness` | 2 Starts, 1 Stop, 2 callbacks, 3 notifications (handled, skipped with bad metadata, refused for ever); fair | `StopEndsReceive`, `EventuallySettled` |
| `SubscriberStop` | 1 Start, 1 Stop | `StopStopsReceiving` is violated |
| `AuthTabs` | 2 logins, 2 callbacks with any state and code, 1 approval each and 2 foreign codes, 3 kinds of store | `TypeOK`, `SuccessIsOwnLogin`, `SecretsAreGone`, `UndisturbedLoginMatches`, `ImplementsSignIns` |
| `AuthStateReuse` | 1 login, 2 callbacks | `StateUsedOnce` is violated |
| `TokenCacheStaleness` | 2 callers, a token that runs out at 5 and one that never does, TTL 1, latency 1, 5 instants | `TypeOK`, `RevocationIsSeen`, `ExpiryIsSeen`, `EverlastingIsAsked`, `ImplementsStaleReads` |
| `TokenCacheZero` | 1 caller, a token without an expiry | `NoExpiryIsZero` is violated |
| `SessionsCacheStaleness` | 2 callers, 1 session, 2 users, TTL 1, latency 1, 4 instants | `TypeOK`, `ChangesAreSeen`, `ReadYourSignOut`, `ImplementsRecentReads` |
| `RoleResourcesRollout` | 2 replicas, offers of 1 and 2 resources; fair | `TypeOK`, `CompletionReplaces`, `ImplementsRegistrations`, `TypeIsReleased` |
| `RoleResourcesAborted` | the same | `AbortIsReported` is violated |
| `ClientCalls` | 2 calls: one of any method with valid, unknown and refused arguments, one that writes; one record of each kind; 2 documents, of which one cannot be sent; fair | `TypeOK`, `AnswerFitsRequest`, `ErrorsAreTrue`, `NewTokenWhenNeeded`, `ImplementsAtMostOnce`, `CallsEnd`; in its first state `StrategyIsGrant`, `MethodsCanBeGranted`, `MetadataIsOneNamespace`, `RegistryIsConsistent`, `OneInstanceIsCalled` |
| `ClientCredentialsGuards` | 2 requests out of 7 kinds, a client's token that runs out at 4, a user's and none, TTL 1, latency 0, 4 instants | `GuardTypeOK`, `AdmittedIsEntitled`, `DenialIsDeserved` |

Why the bounds are enough to be interesting. Two Starts and two Stops show
every race on the one state word; two callbacks are needed for overlapping
deliveries of one notification. Two tabs with two callbacks let each disturb
the other at every step, and a state or a code of either, of another browser or
of none may come with either callback, a reload included. The store that always
deletes and does not report what is missing is left to the proofs: each of its
steps is one of the store whose deletions may also fail.

The clocks run past expiry, revocation plus TTL plus latency, with two
callers so that one fills the cache late while the other begins too late. In
`SessionsCacheStaleness` either also signs out, and with two users one may follow
the other between a lookup and its answer; a change at 1 is still unseen by a
lookup that begins at 3 and no longer by one at 4. A lookup that begins
beyond the bound must have its answer in hand within `MaxTime`: with TTL 1 and
latency 1 a token revoked at 1 is asked for at 4, before `short` runs out at 5,
and the clock goes on to 5. The guards' instance has no latency, which the
cache's own instance has: their bound is reached at 3.
`MaxCrashes` and `MaxTime` are limits of the environment, not of the code.

In `ClientCalls` the call `writer` creates a user, a session's end, a token or
its end, or new metadata, while `any` asks for the very records: by an id or an
email that exists from the start, never, or from the moment `writer` is carried
out (what SAMS makes is named by the call that asked for it). Two calls are all
that a token source's race needs, and the properties of answers relate one call
to the records, which the other changes in every way the API has.
The run has five properties of pure functions too, those of `ClientLibrary`:
no state changes what they say, and each is guarded by `Once`, which is true in
the first state only.
`OneInstanceIsCalled` takes
every pair of URLs from two hosts, one of them in both cases, with and without a
slash, the empty URL and none; the tables are those of the code, in full.
`ScopeStrategy` gets 2 services, 3 words of which one begins another (`user`,
`userprofile`), 2 actions, permissions of up to `MaxPath` = 2 words, malformed
texts that lack each part in turn, and lists of up to `MaxMatchers` = 1 scope:
the loop keeps nothing from one turn to the next.

`CHECK_DEADLOCK FALSE` is in every configuration because every instance may
stop: its goroutines return or panic, its requests and calls are a finite set,
its clock ends.

Symmetry is used for interchangeable callers, users, logins and callbacks, and
never in runs with liveness properties. The refinements `ImplementsSignIns`,
`ImplementsStaleReads` and `ImplementsRecentReads` are checked with it: without
fairness they are predicates of initial states and of steps, and they do not tell
callers, users or logins apart.

### Fairness

`Subscriber!FairSpec`: every goroutine that can go on goes on (weak fairness of
`StartPublish`, `StopCancel`, `ReceiveReturns` and of each callback: the Go
scheduler, and handlers that return). Leases end. A notification that is
pending again and again, with a free callback, is delivered again and again,
and one that is delivered again and again is sometime handled without an error
and its acknowledgement received (strong fairness: this is Pub/Sub's retry and
the assumption that errors of handlers are transient). Nothing obliges the
program to call Start or Stop, Receive to fail or the process to crash.

`RoleResources!FairSpec`: a call that has begun goes on, and SAMS reads what it
is sent. An iterator may still fail, and a stream break, at any time.

`ClientCalls!FairSpec`: a call that can go on does (`Authorize`, `FetchToken`,
`Send`, `GiveUp`, `Receive`: the Go scheduler, and a token endpoint that
answers while it is *up*). SAMS need never answer, contexts need never end, and
the token endpoint may hang for ever, with the lock held; `CallsEnd` names what
that costs. Weak fairness of `Authorize` is enough: with two calls the lock is
given up for good in the end. Go's mutex hands the lock to a waiter that has
starved.

The other modules state safety only.

### What the violated runs show

Each checks a sentence of the repository that the code does not keep:

- `SubscriberStop`: README.md:258, "subscriber.Stop() // Stop receiving
  notifications". A Stop between Start's compare-and-swap
  (`subscriber.go:98`) and the store of the cancel function (`:103`) returns
  nil, and the receiver then runs on; a second Stop panics. The README's own
  example calls `go subscriber.Start()`, and is saved by a minute of sleep.
- `AuthStateReuse`: auth.go:167, "make sure it's one-time use". Two
  callbacks of one login can both get the state before either deletes it.
  `ImplementsSignIns` still holds: SAMS redeems a code once.
- `TokenCacheZero`: clientv1_tokens.go:43-44, "this will be the zero value". It
  is 1970-01-01, for which `IsZero()` is false.
- `RoleResourcesAborted`: clientv1_roles.go:47-48, "will return 0 with
  ErrAborted". It returns 0 and nil.

One more sentence is not checked because the tests contradict it:
connectrpc.go:27-28 says that required scopes "CANNOT be empty", the code reads
a method without the option as one that requires none and admits every active
client, and a test (`connectrpc_test.go`, "no scopes required, active session")
expects that. `AdmittedIsEntitled` states what such a requirement then means.

## The proofs

The proofs hold for every value of the constants that satisfies the assumption
at the head of each module (`SubscriberAssumption` and so on): any sets of
goroutines, messages, logins, tokens, requests, whether finite or not, any TTL,
latency and horizon. Each proof module of a state machine has a type theorem
and invariance proofs by one step per action.

- `SubscriberProofs`. `OneReceiver` is not inductive: that two Starts are never
  past the swap follows from the state being *idle* exactly until the first of
  them passes. The invariant adds that, that a cancelled context stays
  cancelled under a stopped state, and that callbacks run only under a Start in
  Receive, which gives `QuietAfterReturn` and `NeverRevived`.
  `NoNotificationLost` needs that a worker that is *handling* has a
  notification with a handler and metadata that can be decoded.
  `SubscriberImplementsQueue` maps every step to a step of the queue or to a
  stutter.
- `AuthHandlerProofs`. Success is traced back (`Secrets`): a secret in the session
  or in a local is of a login that has got so far (`Written`), a callback with the
  state of a login and a code with its nonce come after its redirect
  (`RedirectedQueries`, `RedirectedApprovals`), and past each check the local that
  was compared is what it was compared with, and not empty if the store reports
  what is missing (`Checked`). `UndisturbedLoginMatches` needs what an undisturbed
  login finds in the session at each point of its callback, and that two
  callbacks of one login make it disturbed. For `AuthHandlerImplementsSignIns`
  the invariant needs one thing more: SAMS has exchanged each code for one
  callback (`CodesAreSpentOnce`), or two callbacks with one code could both
  reach the success handler. The only step that signs in is the one that calls
  it (`NobodySignsIn`).
- `TokenCacheProofs`. The invariant bounds every place a response can be: what is
  active in an entry or in a hand was served no later than the revocation,
  arrived within one latency, and is kept for one TTL. `ExpiryIsSeen` needs that
  the check against the clock happens after the call began; `EverlastingIsAsked`
  that no such response is ever in the cache. For `ImplementsStaleReads` the *yes*
  follows from that invariant; the *no* needs a second one, that an inactive
  response anywhere is one of a token that has ended (`InactiveStays`), and that
  the end of a token, once it has come, does not move.
- `SessionsCacheProofs`. The same places, but what a response says may become true
  again: it names the user of the session, or one that was so when the response
  was served or later (`Truthful`), which every change of the user keeps
  (`TruthStays`, `FreshStays`). With the times of entries and calls (`Fresh`) this
  is `ChangesAreSeen`, and the answer of every read of `RecentReads` (`Answers`).
  For `ReadYourSignOut` the invariant says that a reported sign-out has left no
  user in the cache or under way, unless it was overtaken (`Settled`).
- `ClientCredentialsProofs`. `GuardsUseTheCache` shows that the composition
  implements `TokenCache!Spec`, so the bounds above are cited and not proved
  again, `InactiveStays` among them; the invariant then ties the phase of a guard
  to its call.
- `RoleResourcesProofs`. The invariant follows what a replica offers: until SAMS
  closes its stream, every resource of its offer is still to be taken from the
  iterator, in the page at hand, on the stream or in the catalogue (`Kept`);
  nothing else comes from it (`Offered`); the end is the last message and is
  sent when nothing is left (`Ends`); and the type is held by the one whose
  pages SAMS takes (`Holds`, `Waits`). When SAMS reads the end, the whole offer
  is therefore in the catalogue (`CompletionStep`).
  `RoleResourcesImplementRegistrations` takes the steps of the call
  (`CallRegisters`: telling or nothing, for which a call that has not returned
  must have told nothing, `Pending`), those of SAMS (`ReadingRegisters`: a start,
  a write, a completion or a yield) and the failures (`FailingRegisters`).
- `ClientCallsProofs`. The invariant is where the request of each call is
  (`Journey`): nowhere before it is sent, carried out exactly if its answer says
  *ok*, and only lost to the caller with an error of no name.
  `ClientImplementsAtMostOnce` maps `Answers` to `Execute` or a stutter, every
  return to `Tell`, the rest to stutters.
  The properties of answers take three steps. Each path leads back to the method
  it was made for (`HandlersAreDisjoint`, `PathsLead`), so what is on the way to a
  caller is something SAMS may answer to that method and message (`Sound`).
  What SAMS answers is true of its records at that moment (`ServedIs`). And it
  stays as true as it has to be, since SAMS removes no users, adds no sessions
  and gives new tokens new names (`Later`, `Justified`). `TypeOK` is proved
  from the same invariant with the types of the messages (`TInv`).
- `TextProofs`, for the parts that `ClientLibrary` gathers. Loops of the code are
  recursive functions; what is needed of one is proved of the set of numbers for
  which it is true (`BoundedInduction`, from the well-foundedness of the natural
  numbers), and that it has values at all from `Recursion`.
  - `StrategyAgrees`, and with it `StrategyIsGrant`, for every choice of
    services, words, actions and bounds. The text of a permission is taken with a
    dot after each word (`Dotted`): such texts continue each other exactly as
    their paths do, since a word is read up to the first dot (`OneWordIsRead`,
    `DottedShowsPrefixes`). The dot that the code appends to the matcher's
    permission is what makes its test of prefixes the same thing
    (`PermissionCovers`). The first separators of a text are those between its
    parts (`FirstSeparator`, `ScopeIsRead`, `TextIsRead`), so a text stands for
    one structure (`TextTells`), and what covers another is never longer than it
    (`TextsMatch`), which is what the code's comparison of lengths relies on.
  - `OneInstance`, and with it `OneInstanceIsCalled`, for every set of URLs:
    trimming and lower case commute (`LowerTrims`), and a root with no slash at
    its end can be appended to (`RootAndPath`).
  - `RegistryIsConsistent`. A map filled in one pass has a key for each kept
    value and under it exactly the values kept with that key (`GroupCollects`, of
    any values and keys). A role that `ToRole` makes of a service without a colon
    names that service (`RoleIsRead`). The code's own table comes in last
    (`RegisteredRoles`, `TableAgrees`).
  - `MethodsCanBeGranted`. Permissions of one service that differ give scopes that
    differ, and so do services (`ScopesDiffer`, from reading the scope back), so
    appending a service's scopes keeps the list free of repetitions (`AppendAdds`,
    of any list of permissions). Hence what the list holds (`AllowedLists`), that
    every scope of it makes the round trip through `ParseScope` and `ToScope`
    (`AllowedAreRead`), and that what each method requires is in it
    (`RequiredAreAllowed`): for metadata, because the only names that
    `PermissionToMetadataScope` reads are those of SAMS's permissions
    (`AllowedPermissions`, `MetadataNames`).
  - `MetadataIsOneNamespace`. No named permission followed by a dot begins
    another (`NamesArePrefixFree`), names tell permissions apart (`NamesTell`),
    and what covers another is no longer (`PrefixIsShorter`, `LengthOfScope`).

The assumptions on `ClientCalls` are that arguments are of their methods' types
(`ClientCallsAssumption`), and that SAMS starts with records of their types, in
which users have an id and an email and no token has a name that SAMS will give
to a new one (`RecordsAssumption`); arguments and records are otherwise
arbitrary, and so is the number of calls. Of `NewStruct` it is assumed that it gives
a value that can be sent, or none (`NewStructAssumption`); of the store of a login
that it is of one of the four kinds, and of secrets that those of other browsers
are none of this one's (`AuthAssumption`). Those on the caches include that None
is no record of a read (`NoneIsNoRead`). `ScopeStrategyAssumption`
says that parts are not empty and do not contain the separators that delimit
them, that the structure of the alias is among those considered, and that
malformed texts are malformed; `ConfigurationAssumption` that no slash of a URL
is doubled (the code removes one at the end, so with two the requests have one
too many), and that lower case keeps slashes; `ClientLibraryAssumption` that the
strings that scopes are made of have a length, which the prover does not know.

Model-checked only: liveness (`StopEndsReceive`, `EventuallySettled`,
`TypeIsReleased`, `CallsEnd`), which the prover does not do, and the four
violations. Every invariant and every action property that a passing run
checks, and each of the refinements, is a theorem. The tables of `roles.go` and
`scopes.go` have no parameters, so their theorems say no more than TLC's
computation of them; the lemmas they rest on do, and show which of it depends on
the tables' contents.

## Abstractions to keep in mind

- Caches return pointers that callers share; responses are values here.
- A panic in a handler of an HTTP server is recovered by it and ends a request;
  it is among the failures. A panic in a subscriber ends the process.
- The LRU is taken to do what its documentation says, under its own lock.
- SAMS, Pub/Sub, the session store and the browser are modelled from how the
  code uses them and marked external in the map.
- The stream of `RegisterRoleResources` is reliable and ordered while it is
  open, as HTTP/2 streams are.

- A `ClientV1` uses tokens of one kind, and they run out at any time
  (`TokenExpires`); the clock of the token source is left out.

## Not modelled

- `notificationsv1.go` and the options of the subscriber: they are read once and
  passed on to Pub/Sub.
- Display names (of scopes, roles, services), times of tokens, page sizes and
  page tokens: the SDK hands them on and decides nothing by them.
- In `clients.pb.go` the descriptors, the reflection and the encoding, and in
  `clients.connect.go` the construction of handlers for each protocol: they
  belong to the code generators and runtimes, which are taken to carry messages
  unchanged.
- Logging, tracing and metrics; the text of errors.

## Plan

Done, in order of importance: the subscriber with its abstract queue, the
login, the two caches, role resources and their proofs, the guards on top of the
cache, the calls without a cache with their abstract specification and proofs,
scopes, tables, configuration and the proofs about texts, the abstract
specifications of what the two caches promise, those of sign-ins and
of registrations, and the proofs about the tables.

Next:

1. A composition of `ClientCalls` with the caches, for a service that introspects
   and calls with the same client.
