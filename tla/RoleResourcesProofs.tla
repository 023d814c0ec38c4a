------------------------- MODULE RoleResourcesProofs -------------------------
(***************************************************************************)
(* Proofs about RoleResources for every set of replicas and resources and  *)
(* every offer.  The argument for CompletionReplaces: while SAMS has not   *)
(* closed the stream of a replica, each resource of its offer is still to  *)
(* come, in the page in hand, on its way or registered (Kept), no other    *)
(* replica can take one away meanwhile (Waits), and the end of the stream  *)
(* is the last message and sent with nothing left (Ends).                  *)
(***************************************************************************)
EXTENDS RoleResources, SequenceTheorems, TLAPS

(* SAMS takes one stream at a time. *)
Holds(c) == server[c] = "taking" <=> holder = c

(* Nothing comes from c but what it offers, and only in pages. *)
Offered(c) ==
    /\ left[c] \subseteq Offer[c]
    /\ page[c] \subseteq Offer[c]
    /\ \A i \in 1..Len(stream[c]) :
        /\ stream[c][i].resources \subseteq Offer[c]
        /\ stream[c][i].kind # "resources" => stream[c][i].resources = {}
    /\ \A r \in Resources : catalogue[r] = c => r \in Offer[c]

(* Before the metadata is read it is the first message, and nothing of c   *)
(* is registered; afterwards there is none.                                *)
Waits(c) ==
    /\ server[c] = "waiting" =>
        /\ \A r \in Resources : catalogue[r] # c
        /\ \A i \in 1..Len(stream[c]) : stream[c][i].kind = "metadata" <=> i = 1
        /\ pc[c] \in {"iterating", "sending", "closing", "receiving"} => stream[c] # <<>>
        /\ pc[c] \in {"ready", "metadata"} => stream[c] = <<>>
    /\ server[c] = "taking" =>
        /\ \A i \in 1..Len(stream[c]) : stream[c][i].kind # "metadata"
        /\ pc[c] \notin {"ready", "metadata"}

(* The end is the last message, and is sent when there is nothing left. *)
Ends(c) ==
    ~Closed(c) =>
        /\ pc[c] \notin {"sending", "returned"} => page[c] = {}
        /\ pc[c] \in {"closing", "receiving"} => left[c] = {}
        /\ \A i \in 1..Len(stream[c]) :
            stream[c][i].kind = "end" =>
                /\ i = Len(stream[c])
                /\ pc[c] \in {"receiving", "returned"}
                /\ left[c] = {} /\ page[c] = {}

Placed(c, r) ==
    \/ r \in left[c] \cup page[c]
    \/ \E i \in 1..Len(stream[c]) : r \in stream[c][i].resources
    \/ catalogue[r] = c

Kept(c) == ~Closed(c) => \A r \in Offer[c] : Placed(c, r)

Whole(c) == Holds(c) /\ Offered(c) /\ Waits(c) /\ Ends(c) /\ Kept(c)

IInv == TypeOK /\ \A c \in Replicas : Whole(c)

-----------------------------------------------------------------------------
(* The two ends of a stream *)

(* What is sent becomes the last message of an open stream. *)
LEMMA SentIsLast ==
    ASSUME TypeOK, NEW c \in Replicas, NEW m \in Message, Sent(c, m)
    PROVE  /\ stream' \in [Replicas -> Seq(Message)]
           /\ \A d \in Replicas : d # c => stream'[d] = stream[d]
           /\ Closed(c) => stream' = stream
           /\ ~Closed(c) =>
                /\ stream'[c] # <<>>
                /\ Len(stream[c]) \in Nat
                /\ Len(stream'[c]) = Len(stream[c]) + 1
                /\ \A i \in 1..Len(stream[c]) : stream'[c][i] = stream[c][i]
                /\ stream'[c][Len(stream[c]) + 1] = m
                /\ stream[c] = <<>> <=> Len(stream[c]) = 0
<1>1. stream \in [Replicas -> Seq(Message)] /\ stream[c] \in Seq(Message)
  BY DEF TypeOK
<1>2. CASE Closed(c)
  BY <1>1, <1>2 DEF Sent
<1>3. CASE ~Closed(c)
  <2>1. stream' = [stream EXCEPT ![c] = Append(stream[c], m)]
    BY <1>3 DEF Sent
  <2>2. /\ Append(stream[c], m) \in Seq(Message)
        /\ Append(stream[c], m) # <<>>
        /\ Len(Append(stream[c], m)) = Len(stream[c]) + 1
        /\ \A i \in 1..Len(stream[c]) : Append(stream[c], m)[i] = stream[c][i]
        /\ Append(stream[c], m)[Len(stream[c]) + 1] = m
    BY <1>1, AppendProperties
  <2>3. Len(stream[c]) \in Nat /\ (stream[c] = <<>> <=> Len(stream[c]) = 0)
    BY <1>1, LenProperties, EmptySeq
  <2> QED
    BY <1>1, <1>3, <2>1, <2>2, <2>3
<1> QED
  BY <1>2, <1>3

(* What is read is the first message. *)
LEMMA ReadIsFirst ==
    ASSUME TypeOK, NEW c \in Replicas, NEW kind, Read(c, kind)
    PROVE  /\ stream' \in [Replicas -> Seq(Message)]
           /\ \A d \in Replicas : d # c => stream'[d] = stream[d]
           /\ Len(stream[c]) \in Nat \ {0}
           /\ Head(stream[c]) = stream[c][1]
           /\ Head(stream[c]) \in Message
           /\ stream[c][1].kind = kind
           /\ Len(stream'[c]) = Len(stream[c]) - 1
           /\ \A i \in 1..Len(stream'[c]) : stream'[c][i] = stream[c][i + 1]
           /\ stream'[c] = <<>> => Len(stream[c]) = 1
<1>1. stream \in [Replicas -> Seq(Message)] /\ stream[c] \in Seq(Message)
  BY DEF TypeOK
<1>2. stream[c] # <<>> /\ Head(stream[c]).kind = kind
      /\ stream' = [stream EXCEPT ![c] = Tail(stream[c])]
  BY DEF Read
<1>3. /\ Head(stream[c]) \in Message
      /\ Tail(stream[c]) \in Seq(Message)
      /\ Len(Tail(stream[c])) = Len(stream[c]) - 1
      /\ \A i \in 1..Len(Tail(stream[c])) : Tail(stream[c])[i] = stream[c][i + 1]
  BY <1>1, <1>2, HeadTailProperties
<1>4. Len(stream[c]) \in Nat \ {0} /\ Head(stream[c]) = stream[c][1]
  BY <1>1, <1>2, EmptySeq
<1>5. Tail(stream[c]) = <<>> => Len(Tail(stream[c])) = 0
  BY EmptySeq
<1> QED
  BY <1>1, <1>2, <1>3, <1>4, <1>5

-----------------------------------------------------------------------------
(* Types *)

LEMMA TypeInit == Init => TypeOK
  BY RoleResourcesAssumption, EmptySeq DEF Init, TypeOK, PC

LEMMA TypeStep == TypeOK /\ [Next]_vars => TypeOK'
<1> SUFFICES ASSUME TypeOK, [Next]_vars PROVE TypeOK'
  OBVIOUS
<1> USE DEF TypeOK, PC, client, sams
<1>1. ASSUME NEW c \in Replicas, CallStep(c) PROVE TypeOK'
  <2> USE DEF Goes, Returns
  <2>1. CASE Begin(c)
    BY <2>1 DEF Begin
  <2>2. CASE SendMetadata(c)
    <3>1. Msg("metadata", {}) \in Message /\ Sent(c, Msg("metadata", {}))
      BY <2>2 DEF SendMetadata, Msg, Message
    <3>2. stream' \in [Replicas -> Seq(Message)]
      BY <3>1, SentIsLast
    <3> QED
      BY <2>2, <3>2 DEF SendMetadata
  <2>3. CASE IteratorFails(c)
    BY <2>3 DEF IteratorFails
  <2>4. CASE IteratorYields(c)
    BY <2>4 DEF IteratorYields
  <2>5. CASE IteratorEnds(c)
    BY <2>5 DEF IteratorEnds
  <2>6. CASE SendResources(c)
    <3>1. Msg("resources", page[c]) \in Message /\ Sent(c, Msg("resources", page[c]))
      BY <2>6 DEF SendResources, Msg, Message
    <3>2. stream' \in [Replicas -> Seq(Message)]
      BY <3>1, SentIsLast
    <3> QED
      BY <2>6, <3>2 DEF SendResources
  <2>7. CASE SendClosed(c) \/ SendFails(c)
    BY <2>7 DEF SendClosed, SendFails
  <2>8. CASE Close(c)
    <3>1. Msg("end", {}) \in Message /\ Sent(c, Msg("end", {}))
      BY <2>8 DEF Close, Msg, Message
    <3>2. stream' \in [Replicas -> Seq(Message)]
      BY <3>1, SentIsLast
    <3> QED
      BY <2>8, <3>2 DEF Close
  <2>9. CASE Receive(c) \/ ReceiveFails(c)
    BY <2>9 DEF Receive, ReceiveFails
  <2> QED
    BY <1>1, <2>1, <2>2, <2>3, <2>4, <2>5, <2>6, <2>7, <2>8, <2>9 DEF CallStep
<1>2. ASSUME NEW c \in Replicas, ServerStep(c) PROVE TypeOK'
  <2>1. CASE ReadMetadata(c)
    <3>1. Read(c, "metadata")
      BY <2>1 DEF ReadMetadata
    <3>2. stream' \in [Replicas -> Seq(Message)]
      BY <3>1, ReadIsFirst
    <3> QED
      BY <2>1, <3>1, <3>2 DEF ReadMetadata, Read
  <2>2. CASE ReadResources(c)
    <3>1. Read(c, "resources")
      BY <2>2 DEF ReadResources
    <3>2. stream' \in [Replicas -> Seq(Message)]
      BY <3>1, ReadIsFirst
    <3> QED
      BY <2>2, <3>1, <3>2 DEF ReadResources, Read, Revision
  <2>3. CASE ReadEnd(c)
    <3>1. Read(c, "end")
      BY <2>3 DEF ReadEnd
    <3>2. stream' \in [Replicas -> Seq(Message)]
      BY <3>1, ReadIsFirst
    <3> QED
      BY <2>3, <3>1, <3>2 DEF ReadEnd, Read, Revision
  <2> QED
    BY <1>2, <2>1, <2>2, <2>3 DEF ServerStep
<1>3. ASSUME NEW c \in Replicas, StreamFails(c) PROVE TypeOK'
  BY <1>3 DEF StreamFails
<1>4. CASE UNCHANGED vars
  BY <1>4 DEF vars
<1> QED
  BY <1>1, <1>2, <1>3, <1>4 DEF Next

(* The variables always have their types. *)
THEOREM TypeCorrect == Spec => []TypeOK
<1>1. Init => TypeOK
  BY TypeInit
<1>2. TypeOK /\ [Next]_vars => TypeOK'
  BY TypeStep
<1> QED
  BY <1>1, <1>2, PTL DEF Spec

(* A call that reports no error has had the answer of SAMS, however many   *)
(* replicas register at once.                                              *)
THEOREM NilIsAnsweredHolds == Spec => []NilIsAnswered
<1>1. Init => NilIsAnswered
  BY DEF Init, NilIsAnswered
<1>2. TypeOK /\ NilIsAnswered /\ [Next]_vars => NilIsAnswered'
  <2> SUFFICES ASSUME TypeOK, NilIsAnswered, [Next]_vars PROVE NilIsAnswered'
    OBVIOUS
  <2> USE DEF TypeOK, NilIsAnswered, client, sams
  <2>1. ASSUME NEW c \in Replicas, CallStep(c) PROVE NilIsAnswered'
    BY <2>1 DEF CallStep, Begin, SendMetadata, IteratorFails, IteratorYields, IteratorEnds,
        SendResources, SendClosed, SendFails, Close, Receive, ReceiveFails, Goes, Returns
  <2>2. ASSUME NEW c \in Replicas, ServerStep(c) \/ StreamFails(c) PROVE NilIsAnswered'
    BY <2>2 DEF ServerStep, ReadMetadata, ReadResources, ReadEnd, StreamFails, Read, Closed
  <2>3. CASE UNCHANGED vars
    BY <2>3 DEF vars
  <2> QED
    BY <2>1, <2>2, <2>3 DEF Next
<1> QED
  BY <1>1, <1>2, TypeCorrect, PTL DEF Spec

-----------------------------------------------------------------------------
(* The inductive invariant *)

LEMMA InvInit == Init => IInv
<1> SUFFICES ASSUME Init, NEW c \in Replicas PROVE Whole(c)
  BY TypeInit DEF IInv
<1>1. /\ server[c] = "waiting" /\ holder # c /\ pc[c] = "ready"
      /\ left[c] = Offer[c] /\ page[c] = {} /\ stream[c] = <<>> /\ Len(stream[c]) = 0
      /\ \A r \in Resources : catalogue[r] # c
  BY RoleResourcesAssumption, EmptySeq DEF Init
<1> QED
  BY <1>1 DEF Whole, Holds, Offered, Waits, Ends, Kept, Placed

(* What another replica does in its call, nothing to do with c, leaves c   *)
(* as it is.                                                               *)
LEMMA OthersStay ==
    ASSUME NEW c \in Replicas, Whole(c), UNCHANGED sams,
           pc'[c] = pc[c], left'[c] = left[c], page'[c] = page[c], stream'[c] = stream[c]
    PROVE  Whole(c)'
  BY DEF Whole, Holds, Offered, Waits, Ends, Kept, Placed, Closed, sams

(* A step of the call that sends nothing. *)
LEMMA SilentStep ==
    ASSUME IInv, NEW c \in Replicas,
           \/ Begin(c) \/ IteratorFails(c) \/ IteratorYields(c) \/ IteratorEnds(c)
           \/ SendClosed(c) \/ SendFails(c) \/ Receive(c) \/ ReceiveFails(c)
    PROVE  Whole(c)'
<1>1. UNCHANGED <<stream, server, holder, catalogue>> /\ Whole(c) /\ TypeOK
  BY DEF IInv, sams, Begin, IteratorFails, IteratorYields, IteratorEnds, SendClosed,
      SendFails, Receive, ReceiveFails
<1> USE <1>1 DEF Goes, Returns, TypeOK, PC, Closed
<1>2. CASE IteratorYields(c)
  <2>1. PICK resources \in SUBSET left[c] :
            /\ page' = [page EXCEPT ![c] = resources]
            /\ left' = [left EXCEPT ![c] = left[c] \ resources]
    BY <1>2 DEF IteratorYields
  <2>2. /\ pc[c] = "iterating" /\ pc'[c] = "sending"
        /\ page'[c] = resources /\ left'[c] = left[c] \ resources
    BY <1>2, <2>1 DEF IteratorYields
  <2>3. Holds(c)' /\ Waits(c)' /\ Offered(c)'
    BY <2>2 DEF Whole, Holds, Waits, Offered
  <2>4. Ends(c)'
    BY <2>2 DEF Whole, Ends
  <2>5. Kept(c)'
    BY <2>2 DEF Whole, Ends, Kept, Placed
  <2> QED
    BY <2>3, <2>4, <2>5 DEF Whole
<1>3. CASE ~IteratorYields(c)
  <2>1. /\ left'[c] = left[c] /\ page'[c] = page[c]
        /\ \/ pc[c] = "ready" /\ pc'[c] = "metadata"
           \/ pc[c] = "iterating" /\ pc'[c] = "closing" /\ left[c] = {}
           \/ Closed(c) /\ pc'[c] = "closing"
           \/ pc'[c] = "returned" /\ pc[c] # "returned"
    BY <1>3 DEF Begin, IteratorFails, IteratorEnds, SendClosed, SendFails, Receive,
        ReceiveFails
  <2>2. Holds(c)' /\ Waits(c)' /\ Offered(c)'
    BY <2>1 DEF Whole, Holds, Waits, Offered
  <2>3. Ends(c)'
    BY <2>1 DEF Whole, Ends
  <2>4. Kept(c)'
    BY <2>1 DEF Whole, Kept, Placed
  <2> QED
    BY <2>2, <2>3, <2>4 DEF Whole
<1> QED
  BY <1>2, <1>3

(* A step of the call that sends message m. *)
LEMMA SendingStep ==
    ASSUME IInv, NEW c \in Replicas, SendMetadata(c) \/ SendResources(c) \/ Close(c)
    PROVE  Whole(c)'
<1> DEFINE m == IF pc[c] = "metadata" THEN Msg("metadata", {})
                ELSE IF pc[c] = "sending" THEN Msg("resources", page[c]) ELSE Msg("end", {})
<1>1. UNCHANGED <<server, holder, catalogue>> /\ Whole(c) /\ TypeOK
  BY DEF IInv, sams, SendMetadata, SendResources, Close
<1>2. m \in Message /\ Sent(c, m)
  BY <1>1 DEF SendMetadata, SendResources, Close, TypeOK, Msg, Message
<1>3. /\ Closed(c) => stream' = stream
      /\ ~Closed(c) =>
            /\ stream'[c] # <<>>
            /\ Len(stream[c]) \in Nat
            /\ Len(stream'[c]) = Len(stream[c]) + 1
            /\ \A i \in 1..Len(stream[c]) : stream'[c][i] = stream[c][i]
            /\ stream'[c][Len(stream[c]) + 1] = m
            /\ stream[c] = <<>> <=> Len(stream[c]) = 0
  BY <1>1, <1>2, SentIsLast
<1>4. /\ left'[c] = left[c]
      /\ \/ /\ pc[c] = "metadata" /\ pc'[c] = "iterating" /\ page'[c] = page[c]
            /\ m.kind = "metadata" /\ m.resources = {}
         \/ /\ pc[c] = "sending" /\ pc'[c] = "iterating" /\ page'[c] = {}
            /\ m.kind = "resources" /\ m.resources = page[c]
         \/ /\ pc[c] = "closing" /\ pc'[c] = "receiving" /\ page'[c] = page[c]
            /\ m.kind = "end" /\ m.resources = {}
  BY <1>1 DEF SendMetadata, SendResources, Close, TypeOK, Goes, Msg
<1> HIDE DEF m
<1>5. Holds(c)'
  BY <1>1 DEF Whole, Holds
<1>6. CASE Closed(c)
  BY <1>1, <1>3, <1>4, <1>5, <1>6 DEF Whole, Offered, Waits, Ends, Kept, Closed
<1>7. CASE ~Closed(c)
  <2>1. \A i \in 1..Len(stream'[c]) : i \in 1..Len(stream[c]) \/ i = Len(stream[c]) + 1
    BY <1>3, <1>7
  <2>2. 1..Len(stream[c]) \subseteq 1..Len(stream'[c])
        /\ Len(stream[c]) + 1 \in 1..Len(stream'[c])
    BY <1>3, <1>7
  <2> USE <1>1, <1>3, <1>4, <1>7, <2>1, <2>2
  <2>3. Offered(c)'
    BY DEF Whole, Offered
  <2>4. Waits(c)'
    <3>1. CASE server[c] = "waiting"
      <4>1. \A r \in Resources : catalogue[r] # c
        BY <3>1 DEF Whole, Waits
      <4>2. \A i \in 1..Len(stream'[c]) : stream'[c][i].kind = "metadata" <=> i = 1
        BY <3>1 DEF Whole, Waits
      <4> QED
        BY <3>1, <4>1, <4>2 DEF Waits
    <3>2. CASE server[c] # "waiting"
      BY <3>2 DEF Whole, Waits
    <3> QED
      BY <3>1, <3>2
  <2>5. Ends(c)'
    BY DEF Whole, Ends, Closed
  <2>6. Kept(c)'
    <3> SUFFICES ASSUME NEW r \in Offer[c] PROVE Placed(c, r)'
      BY DEF Kept, Closed
    <3>1. Placed(c, r)
      BY DEF Whole, Kept
    <3>2. CASE pc[c] = "sending" /\ r \in page[c]
      BY <3>2 DEF Placed
    <3>3. CASE ~(pc[c] = "sending" /\ r \in page[c])
      BY <3>1, <3>3 DEF Placed
    <3> QED
      BY <3>2, <3>3
  <2> QED
    BY <1>5, <2>3, <2>4, <2>5, <2>6 DEF Whole
<1> QED
  BY <1>6, <1>7

(* A message is read: nothing else of the call changes. *)
LEMMA ReadingStep ==
    ASSUME IInv, NEW c \in Replicas, ServerStep(c)
    PROVE  Whole(c)'
<1>1. /\ UNCHANGED <<pc, left, page>> /\ ~Closed(c) /\ Whole(c) /\ TypeOK
      /\ server[c] \in {"waiting", "taking"}
  BY DEF IInv, ServerStep, ReadMetadata, ReadResources, ReadEnd, Read, client, TypeOK, Closed
<1>2. PICK kind \in {"metadata", "resources", "end"} : Read(c, kind)
  BY DEF ServerStep, ReadMetadata, ReadResources, ReadEnd
<1>3. /\ Len(stream[c]) \in Nat \ {0}
      /\ Head(stream[c]) = stream[c][1]
      /\ Head(stream[c]) \in Message
      /\ stream[c][1].kind = kind
      /\ Len(stream'[c]) = Len(stream[c]) - 1
      /\ \A i \in 1..Len(stream'[c]) : stream'[c][i] = stream[c][i + 1]
      /\ stream'[c] = <<>> => Len(stream[c]) = 1
  BY <1>1, <1>2, ReadIsFirst
<1>4. 1 \in 1..Len(stream[c])
      /\ \A i \in 1..Len(stream'[c]) : i + 1 \in 1..Len(stream[c]) /\ i + 1 # 1
  BY <1>3
<1>5. server[c] = "waiting" <=> kind = "metadata"
  BY <1>1, <1>3, <1>4 DEF Whole, Waits
<1>6. ASSUME NEW i \in 1..Len(stream'[c]), stream'[c][i].kind = "end"
      PROVE  /\ i = Len(stream'[c])
             /\ pc[c] \in {"receiving", "returned"}
             /\ left[c] = {} /\ page[c] = {}
  <2>1. i + 1 \in 1..Len(stream[c]) /\ stream[c][i + 1].kind = "end"
    BY <1>3, <1>4, <1>6
  <2>2. /\ i + 1 = Len(stream[c])
        /\ pc[c] \in {"receiving", "returned"}
        /\ left[c] = {} /\ page[c] = {}
    BY <1>1, <2>1 DEF Whole, Ends
  <2>3. i = Len(stream'[c])
    BY <1>3, <2>2
  <2> QED
    BY <2>2, <2>3
<1>7. ASSUME NEW r \in Offer[c], r \notin stream[c][1].resources
      PROVE  \/ r \in left[c] \cup page[c]
             \/ \E j \in 1..Len(stream'[c]) : r \in stream'[c][j].resources
             \/ catalogue[r] = c
  <2> SUFFICES ASSUME NEW i \in 1..Len(stream[c]), r \in stream[c][i].resources
               PROVE  \E j \in 1..Len(stream'[c]) : r \in stream'[c][j].resources
    BY <1>1 DEF Whole, Kept, Placed
  <2>1. i # 1 /\ i \in Nat
    BY <1>3, <1>7
  <2>2. i - 1 \in 1..Len(stream'[c]) /\ (i - 1) + 1 = i
    BY <1>3, <2>1
  <2>3. stream'[c][i - 1] = stream[c][i]
    BY <1>3, <2>2
  <2> QED
    BY <2>2, <2>3
<1> USE <1>1
<1>8. CASE ReadMetadata(c)
  <2>1. kind = "metadata" /\ server[c] = "waiting" /\ UNCHANGED catalogue
    BY <1>2, <1>3, <1>5, <1>8 DEF ReadMetadata, Read
  <2>2. \/ holder = None /\ holder' = c /\ server'[c] = "taking"
        \/ holder # None /\ holder' = holder /\ server'[c] = "aborted"
    BY <1>8 DEF ReadMetadata, TypeOK
  <2>3. Holds(c)'
    BY <2>1, <2>2 DEF Whole, Holds
  <2>4. Offered(c)'
    BY <1>3, <1>4, <2>1 DEF Whole, Offered
  <2>5. Waits(c)'
    BY <1>3, <1>4, <2>1, <2>2 DEF Whole, Waits
  <2>6. Ends(c)'
    BY <1>6, <2>1, <2>2 DEF Whole, Ends
  <2>7. Kept(c)'
    <3> SUFFICES ASSUME NEW r \in Offer[c] PROVE Placed(c, r)'
      BY DEF Kept
    <3>1. r \notin stream[c][1].resources
      BY <1>3, <1>4, <2>1 DEF Whole, Offered
    <3> QED
      BY <1>7, <2>1, <3>1 DEF Placed
  <2> QED
    BY <2>3, <2>4, <2>5, <2>6, <2>7 DEF Whole
<1>9. CASE ReadResources(c)
  <2>1. kind = "resources" /\ server[c] = "taking" /\ UNCHANGED <<server, holder>>
    BY <1>2, <1>3, <1>5, <1>9 DEF ReadResources, Read
  <2>2. catalogue' =
          [r \in Resources |-> IF r \in stream[c][1].resources THEN c ELSE catalogue[r]]
    BY <1>3, <1>9 DEF ReadResources, Revision
  <2>3. Holds(c)'
    BY <2>1 DEF Whole, Holds
  <2>4. Offered(c)'
    BY <1>3, <1>4, <2>2 DEF Whole, Offered
  <2>5. Waits(c)'
    BY <1>3, <1>4, <2>1 DEF Whole, Waits
  <2>6. Ends(c)'
    BY <1>6, <2>1 DEF Whole, Ends, Closed
  <2>7. Kept(c)'
    <3> SUFFICES ASSUME NEW r \in Offer[c] PROVE Placed(c, r)'
      BY DEF Kept
    <3>1. r \in Resources
      BY RoleResourcesAssumption
    <3>2. CASE r \in stream[c][1].resources
      BY <2>2, <3>1, <3>2 DEF Placed
    <3>3. CASE r \notin stream[c][1].resources
      BY <1>7, <2>2, <3>1, <3>3 DEF Placed
    <3> QED
      BY <3>2, <3>3
  <2> QED
    BY <2>3, <2>4, <2>5, <2>6, <2>7 DEF Whole
<1>10. CASE ReadEnd(c)
  <2>1. server[c] = "taking" /\ server'[c] = "completed" /\ holder' = None
        /\ catalogue' = [r \in Resources |-> IF catalogue[r] = c THEN catalogue[r] ELSE None]
    BY <1>2, <1>3, <1>5, <1>10 DEF ReadEnd, Read, Revision, TypeOK
  <2>2. c # None
    BY RoleResourcesAssumption
  <2>3. Holds(c)' /\ Waits(c)' /\ Ends(c)' /\ Kept(c)'
    BY <2>1, <2>2 DEF Holds, Waits, Ends, Kept, Closed
  <2>4. Offered(c)'
    BY <1>3, <1>4, <2>1, <2>2 DEF Whole, Offered
  <2> QED
    BY <2>3, <2>4 DEF Whole
<1> QED
  BY <1>8, <1>9, <1>10 DEF ServerStep

(* SAMS takes no other stream from c than its own: while c waits, nothing  *)
(* of it is registered, and while it is taken the others wait.             *)
LEMMA OthersReadingStep ==
    ASSUME IInv, NEW c \in Replicas, NEW d \in Replicas, c # d, ServerStep(d)
    PROVE  Whole(c)'
<1>1. UNCHANGED <<pc, left, page>> /\ ~Closed(d) /\ Whole(c) /\ Whole(d) /\ TypeOK
  BY DEF IInv, ServerStep, ReadMetadata, ReadResources, ReadEnd, Read, client
<1>2. PICK kind \in {"metadata", "resources", "end"} : Read(d, kind)
  BY DEF ServerStep, ReadMetadata, ReadResources, ReadEnd
<1>3. /\ stream'[c] = stream[c]
      /\ Len(stream[d]) \in Nat \ {0}
      /\ stream[d][1].kind = kind
      /\ Head(stream[d]) = stream[d][1]
  BY <1>1, <1>2, ReadIsFirst
<1>4. 1 \in 1..Len(stream[d])
  BY <1>3
<1>5. /\ kind = "metadata" <=> server[d] = "waiting"
      /\ kind # "metadata" <=> server[d] = "taking"
  <2>1. server[d] \in {"waiting", "taking"}
    BY <1>1 DEF Closed, TypeOK
  <2> QED
    BY <1>1, <1>3, <1>4, <2>1 DEF Whole, Waits
<1>6. server'[c] = server[c] /\ c # None /\ d # None
  BY <1>1, RoleResourcesAssumption DEF ServerStep, ReadMetadata, ReadResources, ReadEnd, TypeOK
<1>7. holder' = c <=> holder = c
  <2>1. CASE ReadMetadata(d)
    BY <1>6, <2>1 DEF ReadMetadata
  <2>2. CASE ReadResources(d)
    BY <2>2 DEF ReadResources
  <2>3. CASE ReadEnd(d)
    BY <1>1, <1>2, <1>3, <1>5, <1>6, <2>3 DEF ReadEnd, Read, Whole, Holds
  <2> QED
    BY <2>1, <2>2, <2>3 DEF ServerStep
<1>8. kind # "metadata" => server[c] # "taking"
  BY <1>1, <1>5 DEF Whole, Holds
<1>9. /\ \A r \in Resources : catalogue'[r] = c => catalogue[r] = c
      /\ server[c] = "taking" => catalogue' = catalogue
  <2>1. CASE ReadMetadata(d)
    BY <2>1 DEF ReadMetadata
  <2>2. CASE ReadResources(d)
    BY <1>2, <1>3, <1>8, <2>2 DEF ReadResources, Read, Revision
  <2>3. CASE ReadEnd(d)
    BY <1>2, <1>3, <1>6, <1>8, <2>3 DEF ReadEnd, Read, Revision
  <2> QED
    BY <2>1, <2>2, <2>3 DEF ServerStep
<1> USE <1>1, <1>3, <1>6
<1>10. Holds(c)'
  BY <1>7 DEF Whole, Holds
<1>11. Offered(c)' /\ Waits(c)' /\ Ends(c)'
  BY <1>9 DEF Whole, Offered, Waits, Ends, Closed
<1>12. Kept(c)'
  <2> SUFFICES ASSUME ~Closed(c), NEW r \in Offer[c] PROVE Placed(c, r)'
    BY DEF Kept, Closed
  <2>1. Placed(c, r) /\ r \in Resources
    BY RoleResourcesAssumption DEF Whole, Kept
  <2>2. CASE server[c] = "taking"
    BY <1>9, <2>1, <2>2 DEF Placed
  <2>3. CASE server[c] # "taking"
    <3>1. server[c] = "waiting"
      BY <2>3 DEF Closed, TypeOK
    <3>2. catalogue[r] # c
      BY <2>1, <3>1 DEF Whole, Waits
    <3> QED
      BY <2>1, <3>2 DEF Placed
  <2> QED
    BY <2>2, <2>3
<1> QED
  BY <1>10, <1>11, <1>12 DEF Whole

LEMMA FailingStep ==
    ASSUME IInv, NEW c \in Replicas, NEW d \in Replicas, StreamFails(d)
    PROVE  Whole(c)'
<1>1. /\ UNCHANGED <<pc, left, page, stream, catalogue>> /\ Whole(c) /\ Whole(d) /\ TypeOK
      /\ server' = [server EXCEPT ![d] = "failed"]
      /\ holder' = IF holder = d THEN None ELSE holder
      /\ ~Closed(d)
  BY DEF IInv, StreamFails, client
<1>2. CASE c = d
  <2>1. server'[c] = "failed" /\ holder' # c
    BY <1>1, <1>2, RoleResourcesAssumption DEF TypeOK
  <2> QED
    BY <1>1, <2>1 DEF Whole, Holds, Offered, Waits, Ends, Kept, Closed
<1>3. CASE c # d
  <2>1. server'[c] = server[c] /\ (holder' = c <=> holder = c)
    BY <1>1, <1>3, RoleResourcesAssumption DEF TypeOK
  <2> QED
    BY <1>1, <2>1 DEF Whole, Holds, Offered, Waits, Ends, Kept, Placed, Closed
<1> QED
  BY <1>2, <1>3

LEMMA InvStep == IInv /\ [Next]_vars => IInv'
<1> SUFFICES ASSUME IInv, [Next]_vars, NEW c \in Replicas PROVE Whole(c)'
  BY TypeStep DEF IInv
<1>1. Whole(c) /\ TypeOK
  BY DEF IInv
<1>2. ASSUME NEW d \in Replicas, CallStep(d) PROVE Whole(c)'
  <2>1. CASE c = d
    BY <1>2, <2>1, SilentStep, SendingStep DEF CallStep
  <2>2. CASE c # d
    <3>1. /\ UNCHANGED sams
          /\ pc'[c] = pc[c] /\ left'[c] = left[c] /\ page'[c] = page[c]
          /\ stream'[c] = stream[c]
      BY <1>1, <1>2, <2>2 DEF CallStep, Begin, SendMetadata, IteratorFails, IteratorYields,
          IteratorEnds, SendResources, SendClosed, SendFails, Close, Receive, ReceiveFails,
          Goes, Returns, Sent, TypeOK
    <3> QED
      BY <1>1, <3>1, OthersStay
  <2> QED
    BY <2>1, <2>2
<1>3. ASSUME NEW d \in Replicas, ServerStep(d) PROVE Whole(c)'
  BY <1>3, ReadingStep, OthersReadingStep
<1>4. ASSUME NEW d \in Replicas, StreamFails(d) PROVE Whole(c)'
  BY <1>4, FailingStep
<1>5. CASE UNCHANGED vars
  BY <1>1, <1>5, OthersStay DEF vars, client
<1> QED
  BY <1>2, <1>3, <1>4, <1>5 DEF Next

-----------------------------------------------------------------------------
(* When SAMS completes a stream, its end is the one message left of it:    *)
(* all that c offers has been registered and nothing else remains.         *)
LEMMA CompletionStep ==
    ASSUME IInv, NEW c \in Replicas, [Next]_vars,
           server[c] # "completed", server'[c] = "completed"
    PROVE  {r \in Resources : catalogue'[r] # None} = Offer[c]
<1>1. TypeOK /\ Whole(c) /\ c # None /\ Offer[c] \subseteq Resources
  BY RoleResourcesAssumption DEF IInv
<1>2. ReadEnd(c)
  <2>1. ASSUME NEW d \in Replicas, CallStep(d) PROVE server' = server
    BY <2>1 DEF CallStep, Begin, SendMetadata, IteratorFails, IteratorYields, IteratorEnds,
        SendResources, SendClosed, SendFails, Close, Receive, ReceiveFails, sams
  <2>2. ASSUME NEW d \in Replicas,
               ReadMetadata(d) \/ ReadResources(d) \/ StreamFails(d) \/ (ReadEnd(d) /\ d # c)
        PROVE  server'[c] # "completed"
    BY <1>1, <2>2 DEF ReadMetadata, ReadResources, ReadEnd, StreamFails, TypeOK
  <2>3. UNCHANGED vars => server' = server
    BY DEF vars, sams
  <2> QED
    BY <2>1, <2>2, <2>3 DEF Next, ServerStep
<1>3. Read(c, "end") /\ ~Closed(c)
  BY <1>2 DEF ReadEnd, Read
<1>4. Len(stream[c]) \in Nat \ {0} /\ stream[c][1].kind = "end"
  BY <1>1, <1>3, ReadIsFirst
<1>5. 1 \in 1..Len(stream[c])
  BY <1>4
<1>6. Len(stream[c]) = 1 /\ left[c] = {} /\ page[c] = {} /\ stream[c][1].resources = {}
  BY <1>1, <1>3, <1>4, <1>5 DEF Whole, Ends, Offered
<1>7. \A r \in Resources : r \in Offer[c] <=> catalogue[r] = c
  <2>1. \A r \in Offer[c] : Placed(c, r)
    BY <1>1, <1>3 DEF Whole, Kept
  <2>2. \A i \in 1..Len(stream[c]) : i = 1
    BY <1>6
  <2>3. \A r \in Offer[c] : catalogue[r] = c
    BY <1>6, <2>1, <2>2 DEF Placed
  <2> QED
    BY <1>1, <2>3 DEF Whole, Offered
<1>8. catalogue' = [r \in Resources |-> IF catalogue[r] = c THEN catalogue[r] ELSE None]
  BY <1>2 DEF ReadEnd, Revision
<1> QED
  BY <1>1, <1>7, <1>8

(* A completed registration replaces the catalogue by the whole offer of   *)
(* its replica, whatever the other replicas, streams and iterators did.    *)
THEOREM CompletionReplacesHolds == Spec => CompletionReplaces
<1>1. IInv /\ [Next]_vars =>
        [\A c \in Replicas :
            server[c] # "completed" /\ server'[c] = "completed"
                => {r \in Resources : catalogue'[r] # None} = Offer[c]]_vars
  BY CompletionStep
<1> QED
  BY <1>1, InvInit, InvStep, PTL DEF Spec, CompletionReplaces

-----------------------------------------------------------------------------
(* Every step is one of Registrations *)

(* The abstract registration of a replica depends on its own state only. *)
LEMMA FatesChange ==
    ASSUME TypeOK, TypeOK', NEW c \in Replicas,
           \A d \in Replicas \ {c} : server'[d] = server[d] /\ result'[d] = result[d]
    PROVE  /\ [d \in Replicas |-> Fate(d)]' =
                [[d \in Replicas |-> Fate(d)] EXCEPT ![c] = Fate(c)']
           /\ [d \in Replicas |-> Told(d)]' =
                [[d \in Replicas |-> Told(d)] EXCEPT ![c] = Told(c)']
<1>1. \A d \in Replicas \ {c} : Fate(d)' = Fate(d) /\ Told(d)' = Told(d)
  BY DEF Fate, Told
<1> QED
  BY <1>1

(* A call that has not returned has told nothing. *)
Pending == \A c \in Replicas : pc[c] # "returned" => result[c] = "none"

LEMMA PendingStep == TypeOK /\ Pending /\ [Next]_vars => Pending'
<1> SUFFICES ASSUME TypeOK, Pending, [Next]_vars PROVE Pending'
  OBVIOUS
<1> USE DEF TypeOK, Pending, client, sams
<1>1. ASSUME NEW c \in Replicas, CallStep(c) PROVE Pending'
  BY <1>1 DEF CallStep, Begin, SendMetadata, IteratorFails, IteratorYields, IteratorEnds,
      SendResources, SendClosed, SendFails, Close, Receive, ReceiveFails, Goes, Returns
<1>2. ASSUME NEW c \in Replicas, ServerStep(c) \/ StreamFails(c) PROVE Pending'
  BY <1>2 DEF ServerStep, ReadMetadata, ReadResources, ReadEnd, StreamFails, Read
<1>3. CASE UNCHANGED vars
  BY <1>3 DEF vars
<1> QED
  BY <1>1, <1>2, <1>3 DEF Next

(* A step of the call tells its caller something or nothing. *)
LEMMA CallRegisters ==
    ASSUME IInv, TypeOK', Pending, NEW c \in Replicas, CallStep(c)
    PROVE  R!Tell(c) \/ UNCHANGED R!registrations
<1>1. TypeOK /\ UNCHANGED <<server, holder, catalogue>>
  BY DEF IInv, CallStep, Begin, SendMetadata, IteratorFails, IteratorYields, IteratorEnds,
      SendResources, SendClosed, SendFails, Close, Receive, ReceiveFails, sams
<1>2. [d \in Replicas |-> Fate(d)]' = [d \in Replicas |-> Fate(d)]
  BY <1>1 DEF Fate
<1>3. CASE UNCHANGED result
  <2>1. [d \in Replicas |-> Told(d)]' = [d \in Replicas |-> Told(d)]
    BY <1>3 DEF Told
  <2> QED
    BY <1>1, <1>2, <2>1 DEF R!registrations
<1>4. CASE ~ UNCHANGED result
  <2>1. PICK what \in {"nil", "error", "iterator", "send"} :
            /\ pc[c] # "returned"
            /\ result' = [result EXCEPT ![c] = what]
            /\ what = "nil" => server[c] \in {"completed", "aborted"}
    BY <1>4 DEF CallStep, Begin, SendMetadata, IteratorFails, IteratorYields, IteratorEnds,
        SendResources, SendClosed, SendFails, Close, Receive, ReceiveFails, Returns, Goes
  <2>2. result[c] = "none" /\ result'[c] = what
        /\ \A d \in Replicas \ {c} : result'[d] = result[d] /\ server'[d] = server[d]
    BY <1>1, <2>1 DEF Pending, TypeOK
  <2>3. /\ Told(c) = "nothing"
        /\ Told(c)' = IF what = "nil" THEN "no error" ELSE "error"
        /\ what = "nil" => Fate(c) \in {"complete", "left to another"}
    BY <2>1, <2>2 DEF Told, Fate
  <2>4. [d \in Replicas |-> Told(d)]' =
            [[d \in Replicas |-> Told(d)] EXCEPT ![c] = Told(c)']
    BY <1>1, <2>2, FatesChange
  <2> QED
    BY <1>1, <1>2, <2>1, <2>3, <2>4 DEF R!Tell
<1> QED
  BY <1>3, <1>4

Registered == {r \in Resources : catalogue[r] # None}

(* What SAMS reads starts, writes, completes or turns away a registration. *)
LEMMA ReadingRegisters ==
    ASSUME IInv, TypeOK', NEW c \in Replicas, ServerStep(c), [Next]_vars
    PROVE  R!Start(c) \/ R!Write(c) \/ R!Complete(c) \/ R!Yield(c)
<1>1. /\ TypeOK /\ Whole(c) /\ UNCHANGED result /\ ~Closed(c) /\ c # None /\ c # Old
      /\ Offer[c] \subseteq Resources
  BY RoleResourcesAssumption DEF IInv, ServerStep, ReadMetadata, ReadResources, ReadEnd,
      Read, client
<1>2. [d \in Replicas |-> Told(d)]' = [d \in Replicas |-> Told(d)]
  BY <1>1 DEF Told
<1>3. Fate(c) = "open"
  BY <1>1 DEF Fate, Closed
<1>4. PICK kind \in {"metadata", "resources", "end"} : Read(c, kind)
  BY DEF ServerStep, ReadMetadata, ReadResources, ReadEnd
<1>5. /\ Len(stream[c]) \in Nat \ {0} /\ Head(stream[c]) = stream[c][1]
      /\ stream[c][1].kind = kind
  BY <1>1, <1>4, ReadIsFirst
<1>6. 1 \in 1..Len(stream[c])
  BY <1>5
<1>7. kind # "metadata" => server[c] = "taking" /\ holder = c
  BY <1>1, <1>5, <1>6 DEF Whole, Waits, Holds, TypeOK, Closed
<1>8. CASE ReadMetadata(c)
  <2>1. /\ catalogue' = catalogue
        /\ \A d \in Replicas \ {c} : result'[d] = result[d] /\ server'[d] = server[d]
    BY <1>1, <1>8 DEF ReadMetadata, TypeOK
  <2>2. [d \in Replicas |-> Fate(d)]' =
            [[d \in Replicas |-> Fate(d)] EXCEPT ![c] = Fate(c)']
    BY <1>1, <2>1, FatesChange
  <2>3. CASE holder = None /\ holder' = c /\ server' = [server EXCEPT ![c] = "taking"]
    <3>1. Fate(c)' = "open"
      BY <1>1, <2>3 DEF Fate, TypeOK
    <3>2. [d \in Replicas |-> Fate(d)]' = [d \in Replicas |-> Fate(d)]
      BY <1>3, <2>2, <3>1
    <3> QED
      BY <1>2, <1>3, <2>1, <2>3, <3>2 DEF R!Start
  <2>4. CASE holder # None /\ holder' = holder /\ server' = [server EXCEPT ![c] = "aborted"]
    <3>1. Fate(c)' = "left to another"
      BY <1>1, <2>4 DEF Fate, TypeOK
    <3>2. holder # c
      BY <1>1, <1>4, <1>5, <1>6, <1>8 DEF Whole, Waits, Holds, ReadMetadata, Read
    <3> QED
      BY <1>2, <1>3, <2>1, <2>2, <2>4, <3>1, <3>2 DEF R!Yield
  <2> QED
    BY <1>8, <2>3, <2>4 DEF ReadMetadata
<1>9. CASE ReadResources(c)
  <2>1. server' = server /\ holder' = holder
    BY <1>9 DEF ReadResources
  <2>2. [d \in Replicas |-> Fate(d)]' = [d \in Replicas |-> Fate(d)]
    BY <2>1 DEF Fate
  <2>3. stream[c][1].kind = "resources" /\ stream[c][1].resources \subseteq Offer[c]
    BY <1>1, <1>5, <1>6, <1>9 DEF Whole, Offered, ReadResources, Read
  <2>4. holder = c
    BY <1>5, <1>7, <2>3
  <2>5. catalogue' =
          [r \in Resources |-> IF r \in stream[c][1].resources THEN c ELSE catalogue[r]]
    BY <1>5, <1>9 DEF ReadResources, Revision
  <2>6. Registered' = Registered \cup stream[c][1].resources
    BY <1>1, <2>3, <2>5 DEF Registered
  <2> QED
    BY <1>2, <2>1, <2>2, <2>3, <2>4, <2>6 DEF R!Write, Registered
<1>10. CASE ReadEnd(c)
  <2>1. /\ server' = [server EXCEPT ![c] = "completed"] /\ holder' = None
        /\ stream[c][1].kind = "end"
    BY <1>5, <1>10 DEF ReadEnd, Read
  <2>2. \A d \in Replicas \ {c} : result'[d] = result[d] /\ server'[d] = server[d]
    BY <1>1, <2>1 DEF TypeOK
  <2>3. Fate(c)' = "complete" /\ holder = c /\ server[c] = "taking"
    BY <1>1, <1>5, <1>7, <2>1 DEF Fate, TypeOK
  <2>4. [d \in Replicas |-> Fate(d)]' =
            [[d \in Replicas |-> Fate(d)] EXCEPT ![c] = Fate(c)']
    BY <1>1, <2>2, FatesChange
  <2>5. Registered' = Offer[c]
    <3>1. server[c] # "completed" /\ server'[c] = "completed"
      BY <1>1, <2>1, <2>3 DEF TypeOK
    <3> QED
      BY <3>1, CompletionStep DEF Registered
  <2>6. Offer[c] \subseteq Registered
    <3>1. catalogue' =
            [r \in Resources |-> IF catalogue[r] = c THEN catalogue[r] ELSE None]
      BY <1>10 DEF ReadEnd, Revision
    <3> QED
      BY <1>1, <2>5, <3>1 DEF Registered
  <2> QED
    BY <1>2, <2>1, <2>3, <2>4, <2>5, <2>6 DEF R!Complete, Registered
<1> QED
  BY <1>8, <1>9, <1>10 DEF ServerStep

LEMMA FailingRegisters ==
    ASSUME IInv, TypeOK', NEW c \in Replicas, StreamFails(c)
    PROVE  R!Break(c)
<1>1. /\ TypeOK /\ ~Closed(c) /\ UNCHANGED <<result, catalogue>>
      /\ server' = [server EXCEPT ![c] = "failed"]
      /\ holder' = IF holder = c THEN None ELSE holder
  BY DEF IInv, StreamFails, client
<1>2. [d \in Replicas |-> Told(d)]' = [d \in Replicas |-> Told(d)]
  BY <1>1 DEF Told
<1>3. \A d \in Replicas \ {c} : result'[d] = result[d] /\ server'[d] = server[d]
  BY <1>1 DEF TypeOK
<1>4. Fate(c) = "open" /\ Fate(c)' = "broken"
  BY <1>1 DEF Fate, Closed, TypeOK
<1>5. [d \in Replicas |-> Fate(d)]' =
          [[d \in Replicas |-> Fate(d)] EXCEPT ![c] = Fate(c)']
  BY <1>1, <1>3, FatesChange
<1> QED
  BY <1>1, <1>2, <1>4, <1>5 DEF R!Break

(* Every behaviour of the replicas, the streams and SAMS is one of         *)
(* Registrations: whatever fails and whoever goes first, one registration  *)
(* is written at a time, nothing is removed but by a complete one, and     *)
(* what the callers are told is so.                                        *)
THEOREM RoleResourcesImplementRegistrations == Spec => ImplementsRegistrations
<1>1. Init => R!Init /\ Pending
  <2> SUFFICES ASSUME Init PROVE R!Init /\ Pending
    OBVIOUS
  <2>1. \A c \in Replicas : Fate(c) = "open" /\ Told(c) = "nothing" /\ result[c] = "none"
    BY DEF Init, Fate, Told
  <2> QED
    BY <2>1 DEF Init, Pending, R!Init
<1>2. IInv /\ Pending /\ [Next]_vars => [R!Next]_R!registrations
  <2> SUFFICES ASSUME IInv, Pending, [Next]_vars PROVE [R!Next]_R!registrations
    OBVIOUS
  <2>1. TypeOK'
    BY TypeStep DEF IInv
  <2>2. ASSUME NEW c \in Replicas, CallStep(c) PROVE [R!Next]_R!registrations
    BY <2>1, <2>2, CallRegisters DEF R!Next
  <2>3. ASSUME NEW c \in Replicas, ServerStep(c) PROVE [R!Next]_R!registrations
    BY <2>1, <2>3, ReadingRegisters DEF R!Next
  <2>4. ASSUME NEW c \in Replicas, StreamFails(c) PROVE [R!Next]_R!registrations
    BY <2>1, <2>4, FailingRegisters DEF R!Next
  <2>5. CASE UNCHANGED vars
    BY <2>5 DEF vars, client, sams, R!registrations, Fate, Told
  <2> QED
    BY <2>2, <2>3, <2>4, <2>5 DEF Next
<1>3. IInv => TypeOK
  BY DEF IInv
<1> QED
  BY <1>1, <1>2, <1>3, InvInit, InvStep, PendingStep, PTL
  DEF Spec, ImplementsRegistrations, R!Spec
==============================================================================
