---------------------------- MODULE RoleResources ----------------------------
(***************************************************************************)
(* RegisterRoleResources (clientv1_roles.go): replicas of a service each   *)
(* stream their resources of one type to SAMS.  SAMS (external, after      *)
(* clients/v1/clients.proto:271-312) takes one stream of a type at a time, *)
(* aborts the others, and drops the resources of older revisions when a    *)
(* stream is completed.                                                    *)
(*                                                                         *)
(* Each replica makes one call; another call is another replica.           *)
(***************************************************************************)
EXTENDS Sequences

CONSTANTS
    Replicas,
    Resources,
    Offer,   \* Offer[c]: the resources the iterator of c produces
    Old,     \* a revision of earlier times
    None     \* no revision, no replica

ASSUME RoleResourcesAssumption ==
    /\ Offer \in [Replicas -> SUBSET Resources]
    /\ Old \notin Replicas
    /\ None \notin Replicas \cup {Old}

VARIABLES
    pc,         \* pc[c]: where the call of c is
    left,       \* left[c]: what its iterator has not produced yet
    page,       \* page[c]: the page it has in hand
    result,     \* result[c]: the error it returned, "nil" for none
    stream,     \* stream[c]: the messages sent and not yet read by SAMS
    server,     \* server[c]: how SAMS sees the stream
    holder,     \* the replica whose stream SAMS is taking, None if none
    catalogue   \* catalogue[r]: the revision that registered r, None if none

client == <<pc, left, page, result>>
sams == <<server, holder, catalogue>>
vars == <<client, stream, sams>>

PC == {"ready", "metadata", "iterating", "sending", "closing", "receiving", "returned"}

Message ==
    [kind : {"metadata", "resources", "end"}, resources : SUBSET Resources]

TypeOK ==
    /\ pc \in [Replicas -> PC]
    /\ left \in [Replicas -> SUBSET Resources]
    /\ page \in [Replicas -> SUBSET Resources]
    /\ result \in [Replicas -> {"none", "nil", "error", "iterator", "send"}]
    /\ stream \in [Replicas -> Seq(Message)]
    /\ server \in [Replicas -> {"waiting", "taking", "aborted", "failed", "completed"}]
    /\ holder \in Replicas \cup {None}
    /\ catalogue \in [Resources -> Replicas \cup {Old, None}]

Init ==
    /\ pc = [c \in Replicas |-> "ready"]
    /\ left = Offer
    /\ page = [c \in Replicas |-> {}]
    /\ result = [c \in Replicas |-> "none"]
    /\ stream = [c \in Replicas |-> <<>>]
    /\ server = [c \in Replicas |-> "waiting"]
    /\ holder = None
    /\ catalogue \in [Resources -> {Old, None}]

Msg(kind, resources) == [kind |-> kind, resources |-> resources]

Closed(c) == server[c] \in {"aborted", "failed", "completed"}

(* A revision that no other call has. *)
Revision(c) == c

-----------------------------------------------------------------------------
(* RegisterRoleResources *)

Goes(c, where) == pc' = [pc EXCEPT ![c] = where]

Returns(c, what) ==
    /\ Goes(c, "returned")
    /\ result' = [result EXCEPT ![c] = what]

(* The metadata is validated and a revision made. *)
Begin(c) ==
    /\ pc[c] = "ready"
    /\ \/ Goes(c, "metadata") /\ UNCHANGED result
       \/ Returns(c, "error")
    /\ UNCHANGED <<left, page, stream, sams>>

(* stream.Send: the message is on its way, lost on a closed stream.  Once  *)
(* the stream is closed Send may report io.EOF instead (SendClosed); it    *)
(* may fail in another way at any time (SendFails).                        *)
Sent(c, message) ==
    stream' = IF Closed(c) THEN stream ELSE [stream EXCEPT ![c] = Append(@, message)]

SendMetadata(c) ==
    /\ pc[c] = "metadata"
    /\ Sent(c, Msg("metadata", {}))
    /\ Goes(c, "iterating")
    /\ UNCHANGED <<left, page, result, sams>>

(* Mutant: the pages sent so far are closed like a whole registration. *)
IteratorFailsClosing(c) ==
    /\ pc[c] = "iterating"
    /\ Goes(c, "closing")
    /\ UNCHANGED <<left, page, result, stream, sams>>

(* The iterator fails: the call returns and leaves the stream open. *)
IteratorFails(c) ==
    /\ pc[c] = "iterating"
    /\ Returns(c, "iterator")
    /\ UNCHANGED <<left, page, stream, sams>>

IteratorYields(c) ==
    /\ pc[c] = "iterating"
    /\ \E resources \in (SUBSET left[c]) \ {{}} :
        /\ page' = [page EXCEPT ![c] = resources]
        /\ left' = [left EXCEPT ![c] = @ \ resources]
    /\ Goes(c, "sending")
    /\ UNCHANGED <<result, stream, sams>>

(* Mutant: the call returns when its iterator is done. *)
IteratorEndsReturning(c) ==
    /\ pc[c] = "iterating"
    /\ left[c] = {}
    /\ Returns(c, "nil")
    /\ UNCHANGED <<left, page, stream, sams>>

(* An empty page ends the loop. *)
IteratorEnds(c) ==
    /\ pc[c] = "iterating"
    /\ left[c] = {}
    /\ Goes(c, "closing")
    /\ UNCHANGED <<left, page, result, stream, sams>>

SendResources(c) ==
    /\ pc[c] = "sending"
    /\ Sent(c, Msg("resources", page[c]))
    /\ page' = [page EXCEPT ![c] = {}]
    /\ Goes(c, "iterating")
    /\ UNCHANGED <<left, result, sams>>

(* io.EOF: SAMS has closed the stream, its answer says why. *)
SendClosed(c) ==
    /\ pc[c] \in {"metadata", "sending"}
    /\ Closed(c)
    /\ Goes(c, "closing")
    /\ UNCHANGED <<left, page, result, stream, sams>>

(* Another error: the call returns and leaves the stream open. *)
SendFails(c) ==
    /\ pc[c] \in {"metadata", "sending"}
    /\ Returns(c, "send")
    /\ UNCHANGED <<left, page, stream, sams>>

(* stream.CloseAndReceive, its first half. *)
Close(c) ==
    /\ pc[c] = "closing"
    /\ Sent(c, Msg("end", {}))
    /\ Goes(c, "receiving")
    /\ UNCHANGED <<left, page, result, sams>>

(* Mutant: a stream that failed is taken for one that was aborted. *)
ReceiveLenient(c) ==
    /\ pc[c] = "receiving"
    /\ Closed(c)
    /\ Returns(c, "nil")
    /\ UNCHANGED <<left, page, stream, sams>>

(* Mutant: the error of an aborted stream is returned as it came. *)
ReceiveUnconverted(c) ==
    /\ pc[c] = "receiving"
    /\ \/ server[c] \in {"failed", "aborted"} /\ Returns(c, server[c])
       \/ server[c] = "completed" /\ Returns(c, "nil")
    /\ UNCHANGED <<left, page, stream, sams>>

(* Its second half: the answer of SAMS.  ErrAborted is turned into nil. *)
Receive(c) ==
    /\ pc[c] = "receiving"
    /\ \/ server[c] \in {"completed", "aborted"} /\ Returns(c, "nil")
       \/ server[c] = "failed" /\ Returns(c, "error")
    /\ UNCHANGED <<left, page, stream, sams>>

(* The answer is lost, or the call is cancelled while it waits for it. *)
ReceiveFails(c) ==
    /\ pc[c] = "receiving"
    /\ Returns(c, "error")
    /\ UNCHANGED <<left, page, stream, sams>>

-----------------------------------------------------------------------------
(* SAMS *)

Read(c, kind) ==
    /\ ~Closed(c)
    /\ stream[c] # <<>>
    /\ Head(stream[c]).kind = kind
    /\ stream' = [stream EXCEPT ![c] = Tail(@)]
    /\ UNCHANGED client

ReadMetadata(c) ==
    /\ Read(c, "metadata")
    /\ \/ /\ holder = None
          /\ holder' = c
          /\ server' = [server EXCEPT ![c] = "taking"]
       \/ /\ holder # None
          /\ server' = [server EXCEPT ![c] = "aborted"]
          /\ UNCHANGED holder
    /\ UNCHANGED catalogue

ReadResources(c) ==
    /\ Read(c, "resources")
    /\ LET resources == Head(stream[c]).resources IN
        catalogue' = [r \in Resources |-> IF r \in resources THEN Revision(c) ELSE catalogue[r]]
    /\ UNCHANGED <<server, holder>>

(* The end completes the stream: other revisions are removed. *)
ReadEnd(c) ==
    /\ Read(c, "end")
    /\ catalogue' =
        [r \in Resources |-> IF catalogue[r] = Revision(c) THEN catalogue[r] ELSE None]
    /\ server' = [server EXCEPT ![c] = "completed"]
    /\ holder' = None

(* The stream breaks, or SAMS fails: what was registered stays. *)
StreamFails(c) ==
    /\ ~Closed(c)
    /\ pc[c] # "ready"
    /\ server' = [server EXCEPT ![c] = "failed"]
    /\ holder' = IF holder = c THEN None ELSE holder
    /\ UNCHANGED <<client, stream, catalogue>>

-----------------------------------------------------------------------------
CallStep(c) ==
    \/ Begin(c) \/ SendMetadata(c) \/ IteratorFails(c) \/ IteratorYields(c)
    \/ IteratorEnds(c) \/ SendResources(c) \/ SendClosed(c) \/ SendFails(c)
    \/ Close(c) \/ Receive(c) \/ ReceiveFails(c)

ServerStep(c) == ReadMetadata(c) \/ ReadResources(c) \/ ReadEnd(c)

Next == \E c \in Replicas : CallStep(c) \/ ServerStep(c) \/ StreamFails(c)

Spec == Init /\ [][Next]_vars

(* A call that has begun goes on, its iterator returns, and SAMS reads     *)
(* what it is sent.  Nothing makes a stream break or an iterator fail.     *)
FairSpec ==
    /\ Spec
    /\ \A c \in Replicas :
        /\ WF_vars(pc[c] # "ready" /\ CallStep(c))
        /\ WF_vars(ServerStep(c))

-----------------------------------------------------------------------------
(* Properties *)

(* A stream is completed only when it has brought the whole offer of its   *)
(* replica, and leaves exactly that in the catalogue: resources are never  *)
(* removed because an iterator failed half way or another replica was      *)
(* aborted in the middle.                                                  *)
CompletionReplaces ==
    [][\A c \in Replicas :
        server[c] # "completed" /\ server'[c] = "completed"
            => {r \in Resources : catalogue'[r] # None} = Offer[c]]_vars

(* A call that reports no error has had the answer of SAMS: completed, or  *)
(* aborted in favour of another replica.                                   *)
NilIsAnswered ==
    \A c \in Replicas : result[c] = "nil" => server[c] \in {"completed", "aborted"}

(* What has become of the registration of c, as Registrations has it.  *)
Fate(c) ==
    CASE server[c] = "completed" -> "complete"
      [] server[c] = "aborted" -> "left to another"
      [] server[c] = "failed" -> "broken"
      [] OTHER -> "open"

Told(c) ==
    CASE result[c] = "none" -> "nothing"
      [] result[c] = "nil" -> "no error"
      [] OTHER -> "error"

R == INSTANCE Registrations WITH
        registered <- {r \in Resources : catalogue[r] # None},
        writer <- holder,
        fate <- [c \in Replicas |-> Fate(c)],
        told <- [c \in Replicas |-> Told(c)]

(* Whatever the messages, pages and failures, the catalogue is what the    *)
(* abstract Registrations make of it, and callers are told as there.       *)
ImplementsRegistrations == R!Spec

(* The returns without a close of the stream: at a failed iterator, and at *)
(* a failed Send that is not io.EOF.                                       *)
LeftOpen(c) == result[c] \in {"iterator", "send"}

(* A replica that SAMS is taking resources from lets the other replicas in *)
(* sometime: also when its answer is lost or comes late, when the call is  *)
(* cancelled after the close, and when its stream breaks.  The exceptions  *)
(* are the calls that returned with their stream left open: nothing in the *)
(* code ends those, only the caller's context or SAMS.                     *)
TypeIsReleased ==
    \A c \in Replicas : holder = c ~> holder # c \/ LeftOpen(c)

(* clientv1_roles.go:47-48: "If another replica is already registering     *)
(* resources for the same resource type the function will return 0 with    *)
(* ErrAborted."                                                            *)
AbortIsReported ==
    \A c \in Replicas : server[c] = "aborted" => result[c] # "nil"
=============================================================================
