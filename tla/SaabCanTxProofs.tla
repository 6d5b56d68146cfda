--------------------------- MODULE SaabCanTxProofs ---------------------------
(***************************************************************************)
(* Proofs about SaabCanTx for every set of threads, every size of the      *)
(* pool, the transmit mailboxes and the retries, and every bus.            *)
(***************************************************************************)
EXTENDS SaabCanTx, RtxLemmas, FiniteSetTheorems, TLAPS

(* A caller holds a box exactly between alloc() and put().                 *)
HoldInv ==
  \A c \in Callers :
    IF at[c] \in {"filling", "putting"}
    THEN \E b \in Boxes : box[c] = <<b>>
    ELSE box[c] = <<>>

(* The boxes in the hands of callers. *)
Held == {b \in Boxes : \E c \in Callers : box[c] = <<b>>}

(* Pool, callers and the way to the controller share the boxes out.        *)
PlacesInv ==
  /\ Distinct(free) /\ Distinct(InTransit)
  /\ Elements(free) \cap Elements(InTransit) = {}
  /\ Elements(free) \cap Held = {}
  /\ Elements(InTransit) \cap Held = {}
  /\ Boxes \subseteq Elements(free) \cup Elements(InTransit) \cup Held
  /\ \A c, d \in Callers : box[c] # <<>> /\ box[c] = box[d] => c = d

(* The send thread waits only on an empty queue. *)
WaitingInv == run = "waiting" => mailbox = <<>>

IInv == TypeOK /\ HoldInv /\ PlacesInv /\ WaitingInv /\ ~halted

-----------------------------------------------------------------------------
LEMMA PoolFacts ==
  /\ Elements(Pool) = Boxes /\ Distinct(Pool)
  /\ IsFiniteSet(Boxes) /\ Cardinality(Boxes) = QueueSize /\ QueueSize \in Nat
  <1>1. Pool \in Seq(Boxes) /\ Len(Pool) = QueueSize /\ Len(Pool) \in Nat
        /\ DOMAIN Pool = 1 .. Len(Pool) /\ Pool \in [1 .. Len(Pool) -> Boxes]
    BY SizesAssumption, LenProperties
  <1>2. Elements(Pool) = Boxes
    BY <1>1 DEF Elements, Boxes, Items
  <1>3. Distinct(Pool)
    BY SizesAssumption DEF Distinct
  <1>4. IsFiniteSet(1 .. Len(Pool)) /\ Cardinality(1 .. Len(Pool)) = Len(Pool)
    BY <1>1, FS_Interval
  <1>5. Pool \in Surjection(1 .. Len(Pool), Boxes)
    BY <1>1, <1>2 DEF Elements, Surjection
  <1>6. IsFiniteSet(Boxes) /\ Cardinality(Boxes) <= Len(Pool)
    BY <1>4, <1>5, FS_Surjection
  <1>7. Len(Pool) <= Cardinality(Boxes) /\ Cardinality(Boxes) \in Nat
    BY <1>1, <1>3, <1>6, DistinctLength, FS_CardinalityType
  <1>8. QED
    BY <1>1, <1>2, <1>3, <1>6, <1>7

LEMMA TransitSeq ==
  ASSUME TypeOK
  PROVE  /\ message \o mailbox \in Seq(Boxes) /\ InTransit \in Seq(Boxes)
         /\ Len(mailbox) <= Len(InTransit)
         /\ Len(InTransit) = Len(message) + Len(mailbox) + Len(psq)
  <1>1. message \in Seq(Boxes) /\ mailbox \in Seq(Boxes) /\ psq \in Seq(Boxes)
    BY DEF TypeOK
  <1>2. /\ message \o mailbox \in Seq(Boxes)
        /\ Len(message \o mailbox) = Len(message) + Len(mailbox)
    BY <1>1, ConcatProperties
  <1>3. /\ InTransit \in Seq(Boxes)
        /\ Len(InTransit) = Len(message \o mailbox) + Len(psq)
    BY <1>1, <1>2, ConcatProperties DEF InTransit
  <1>4. Len(message) \in Nat /\ Len(mailbox) \in Nat /\ Len(psq) \in Nat
    BY <1>1, LenProperties
  <1>5. QED
    BY <1>2, <1>3, <1>4

(* While a caller holds a box there is a place for it.                     *)
LEMMA HolderHasRoom ==
  ASSUME IInv, NEW c \in Callers, box[c] # <<>>
  PROVE  Len(InTransit) < QueueSize /\ Len(mailbox) < QueueSize
  <1>1. PICK b \in Boxes : box[c] = <<b>>
    BY DEF IInv, HoldInv
  <1>2. b \notin Elements(InTransit)
    BY <1>1 DEF IInv, PlacesInv, Held
  <1>3. Len(InTransit) < QueueSize
    BY <1>2, PoolFacts, TransitSeq, DistinctLength DEF IInv, PlacesInv
  <1>4. Len(mailbox) \in Nat /\ Len(InTransit) \in Nat /\ Len(mailbox) <= Len(InTransit)
    BY TransitSeq, LenProperties DEF IInv, TypeOK
  <1>5. QED
    BY <1>3, <1>4, PoolFacts

LEMMA InitIInv == Init => IInv
  <1> SUFFICES ASSUME Init PROVE IInv
    OBVIOUS
  <1>1. <<>> \in Seq(Boxes) /\ Len(<<>>) = 0
    OBVIOUS
  <1>2. content \in [Boxes -> Frame]
    BY DEF Init, Frame, Callers
  <1>3. Retries \in Nat /\ HwSize \in Nat /\ Stalls \subseteq Nat
    BY SizesAssumption
  <1>4. TypeOK
    <2>1. free \in Seq(Boxes) /\ psq \in Seq(Boxes) /\ mailbox \in Seq(Boxes) /\ message \in Seq(Boxes)
      BY <1>1, SizesAssumption DEF Init
    <2>2. hw \in Seq(Frame) /\ Len(hw) <= HwSize /\ Len(message) = 0
      BY <1>1, <1>3 DEF Init
    <2>3. box \in [Callers -> Seq(Boxes)]
      BY <1>1 DEF Init
    <2>4. tries \in 0 .. Retries /\ maxStall \in Stalls /\ stall \in 0 .. maxStall
      BY <1>3 DEF Init
    <2>5. counters \in [dropped : Nat, errors : Nat] /\ halted \in BOOLEAN /\ inIsr \in BOOLEAN
      BY DEF Init
    <2>6. /\ aired \in [Callers -> Nat] /\ sends \in [Callers -> Nat] /\ loaded \in [Callers -> Nat]
          /\ at \in [Callers -> {"out", "filling", "putting", "dropping"}]
      BY DEF Init
    <2>7. run = "idle"
      BY DEF Init
    <2>8. QED
      BY <1>2, <2>1, <2>2, <2>3, <2>4, <2>5, <2>6, <2>7 DEF TypeOK
  <1>5. InTransit = <<>>
    BY DEF Init, InTransit
  <1>6. HoldInv /\ Held = {}
    BY DEF Init, HoldInv, Held
  <1>7. PlacesInv
    BY <1>5, <1>6, PoolFacts, ShortDistinct DEF Init, PlacesInv
  <1>8. QED
    BY <1>4, <1>6, <1>7 DEF Init, IInv, WaitingInv

-----------------------------------------------------------------------------
(* Handing a box over puts it at the end of what is on the way.            *)
LEMMA DeliverAppends ==
  ASSUME IInv, NEW b \in Boxes, Deliver(b), Len(mailbox) < QueueSize
  PROVE  /\ message' \o mailbox' = Append(message \o mailbox, b)
         /\ message' \in Seq(Boxes) /\ mailbox' \in Seq(Boxes)
         /\ run' \in {"idle", "waiting", "writing", "sleeping", "freeing"}
         /\ Len(message') = IF run' \in {"writing", "sleeping", "freeing"} THEN 1 ELSE 0
         /\ run' = "waiting" => mailbox' = <<>>
         /\ halted' = halted
  <1>1. CASE run = "waiting"
    <2>1. message = <<>> /\ mailbox = <<>>
      BY <1>1, EmptySeq DEF IInv, WaitingInv, TypeOK
    <2>2. run' = "writing" /\ message' = <<b>> /\ mailbox' = mailbox /\ halted' = halted
      BY <1>1 DEF Deliver
    <2>3. message \o mailbox = <<>> /\ message' \o mailbox' = <<b>>
      BY <2>1, <2>2
    <2>4. QED
      BY <2>1, <2>2, <2>3
  <1>2. CASE run # "waiting"
    <2>1. /\ mailbox' = Append(mailbox, b)
          /\ run' = run /\ message' = message /\ halted' = halted
      BY <1>2 DEF Deliver
    <2>2. mailbox' \in Seq(Boxes)
      BY <2>1, AppendProperties DEF IInv, TypeOK
    <2>3. message \o Append(mailbox, b) = Append(message \o mailbox, b)
      BY AppendToConcat DEF IInv, TypeOK
    <2>4. QED
      BY <1>2, <2>1, <2>2, <2>3 DEF IInv, TypeOK
  <1>3. QED
    BY <1>1, <1>2

(* Steps that move no box.                                                 *)
LEMMA NoBoxMoves ==
  ASSUME IInv, TypeOK', UNCHANGED <<free, box, halted, InTransit>>,
         \A c \in Callers : at'[c] \in {"filling", "putting"} <=> at[c] \in {"filling", "putting"},
         WaitingInv'
  PROVE  IInv'
  <1>1. Held' = Held
    BY DEF Held
  <1>2. HoldInv'
    BY DEF IInv, HoldInv
  <1>3. PlacesInv'
    BY <1>1 DEF IInv, PlacesInv
  <1>4. QED
    BY <1>2, <1>3 DEF IInv
-----------------------------------------------------------------------------
(* One lemma per operation: each keeps the invariant.                      *)

LEMMA IsrsKeep ==
  ASSUME IInv, Isrs
  PROVE  IInv' /\ UNCHANGED <<InTransit, content>>
  <1> USE DEF callerVars, kernelVars, senderVars, busVars
  <1>1. UNCHANGED <<free, content, at, box, loaded, psq, mailbox, halted, run, message, tries,
                    hw, aired, stall, maxStall, sends, counters>> /\ inIsr' \in BOOLEAN
    BY DEF Isrs, EnterIsr, LeaveIsr
  <1>2. TypeOK'
    BY <1>1 DEF IInv, TypeOK
  <1>3. InTransit' = InTransit
    BY <1>1 DEF InTransit
  <1>4. QED
    BY <1>1, <1>2, <1>3, NoBoxMoves DEF IInv, WaitingInv

LEMMA AllocKeeps ==
  ASSUME IInv, NEW c \in Callers, Alloc(c)
  PROVE  IInv' /\ UNCHANGED <<InTransit, content>>
  <1> USE DEF callerVars, kernelVars, senderVars, busVars
  <1>1. at[c] = "out" /\ box[c] = <<>>
    BY DEF Alloc, IInv, HoldInv
  <1>2. UNCHANGED <<content, inIsr, psq, mailbox, halted, run, message, tries,
                    hw, aired, stall, maxStall, counters>>
    BY DEF Alloc
  <1>3. InTransit' = InTransit
    BY <1>2 DEF InTransit
  <1>4. sends' \in [Callers -> Nat]
    BY DEF Alloc, IInv, TypeOK
  <1>5. CASE free = <<>>
    <2>1. /\ at' = [at EXCEPT ![c] = "dropping"] /\ UNCHANGED <<box, free>>
          /\ loaded' = [loaded EXCEPT ![c] = counters.dropped]
      BY <1>5 DEF Alloc
    <2>2. counters.dropped \in Nat
      BY DEF IInv, TypeOK
    <2>3. TypeOK'
      BY <1>2, <1>4, <2>1, <2>2 DEF IInv, TypeOK
    <2>4. \A d \in Callers : at'[d] \in {"filling", "putting"} <=> at[d] \in {"filling", "putting"}
      BY <1>1, <2>1 DEF IInv, TypeOK
    <2>5. QED
      BY <1>2, <1>3, <2>1, <2>3, <2>4, NoBoxMoves DEF IInv, WaitingInv
  <1>6. CASE free # <<>>
    <2> DEFINE h == Head(free)
    <2>1. /\ box' = [box EXCEPT ![c] = <<h>>] /\ free' = Tail(free)
          /\ at' = [at EXCEPT ![c] = "filling"] /\ loaded' = loaded
      BY <1>6 DEF Alloc, TakeBox
    <2>2. /\ h \in Boxes /\ free' \in Seq(Boxes)
          /\ Elements(free) = {h} \cup Elements(free')
          /\ Distinct(free') /\ h \notin Elements(free')
      BY <1>6, <2>1, TailDistinct DEF IInv, TypeOK, PlacesInv
    <2> HIDE DEF h
    <2>3. /\ \A d \in Callers \ {c} : box'[d] = box[d] /\ at'[d] = at[d]
          /\ box'[c] = <<h>> /\ at'[c] = "filling"
      BY <2>1 DEF IInv, TypeOK
    <2>4. <<h>> \in Seq(Boxes)
      BY <2>2
    <2>5. TypeOK'
      BY <1>2, <1>4, <2>1, <2>2, <2>4 DEF IInv, TypeOK
    <2>6. HoldInv'
      BY <2>2, <2>3 DEF IInv, HoldInv
    <2>7. Held' = Held \cup {h}
      BY <1>1, <2>2, <2>3 DEF Held
    <2>8. ASSUME NEW d \in Callers \ {c} PROVE box[d] # <<h>>
      BY <2>2 DEF IInv, PlacesInv, Held
    <2>9. PlacesInv'
      <3>1. \A d, e \in Callers : box'[d] # <<>> /\ box'[d] = box'[e] => d = e
        BY <2>3, <2>8 DEF IInv, PlacesInv
      <3>2. QED
        BY <1>3, <2>2, <2>7, <3>1 DEF IInv, PlacesInv
    <2>10. QED
      BY <1>2, <1>3, <2>5, <2>6, <2>9 DEF IInv, WaitingInv
  <1>7. QED
    BY <1>5, <1>6

LEMMA CountDropKeeps ==
  ASSUME IInv, NEW c \in Callers, CountDrop(c)
  PROVE  IInv' /\ UNCHANGED <<InTransit, content>>
  <1> USE DEF callerVars, kernelVars, senderVars, busVars
  <1>1. /\ at[c] = "dropping" /\ at' = [at EXCEPT ![c] = "out"]
        /\ loaded' = [loaded EXCEPT ![c] = 0]
        /\ counters' = [counters EXCEPT !.dropped = loaded[c] + 1]
        /\ UNCHANGED <<free, content, box, inIsr, psq, mailbox, halted, run, message, tries,
                       hw, aired, stall, maxStall, sends>>
    BY DEF CountDrop
  <1>2. TypeOK'
    <2>1. loaded[c] + 1 \in Nat /\ counters \in [dropped : Nat, errors : Nat]
      BY DEF IInv, TypeOK
    <2>2. counters' \in [dropped : Nat, errors : Nat]
      BY <1>1, <2>1
    <2>3. loaded' \in [Callers -> Nat] /\ at' \in [Callers -> {"out", "filling", "putting", "dropping"}]
      BY <1>1 DEF IInv, TypeOK
    <2>4. QED
      BY <1>1, <2>2, <2>3 DEF IInv, TypeOK
  <1>3. InTransit' = InTransit
    BY <1>1 DEF InTransit
  <1>4. \A d \in Callers : at'[d] \in {"filling", "putting"} <=> at[d] \in {"filling", "putting"}
    BY <1>1 DEF IInv, TypeOK
  <1>5. QED
    BY <1>1, <1>2, <1>3, <1>4, NoBoxMoves DEF IInv, WaitingInv

(* A caller writes into its own box, none that is on the way.              *)
LEMMA FillKeeps ==
  ASSUME IInv, NEW c \in Callers, Fill(c)
  PROVE  /\ IInv' /\ UNCHANGED InTransit
         /\ \A b \in Elements(InTransit) : content'[b] = content[b]
  <1> USE DEF callerVars, kernelVars, senderVars, busVars
  <1>1. /\ at[c] = "filling" /\ at' = [at EXCEPT ![c] = "putting"]
        /\ content' = [content EXCEPT ![box[c][1]] = [from |-> c, n |-> sends[c]]]
        /\ UNCHANGED <<free, box, loaded, inIsr, psq, mailbox, halted, run, message, tries,
                       hw, aired, stall, maxStall, sends, counters>>
    BY DEF Fill
  <1>2. PICK b \in Boxes : box[c] = <<b>>
    BY <1>1 DEF IInv, HoldInv
  <1>3. [from |-> c, n |-> sends[c]] \in Frame
    BY DEF IInv, TypeOK, Frame
  <1>4. TypeOK'
    BY <1>1, <1>3 DEF IInv, TypeOK
  <1>5. InTransit' = InTransit
    BY <1>1 DEF InTransit
  <1>6. \A d \in Callers : at'[d] \in {"filling", "putting"} <=> at[d] \in {"filling", "putting"}
    BY <1>1 DEF IInv, TypeOK
  <1>7. IInv'
    BY <1>1, <1>4, <1>5, <1>6, NoBoxMoves DEF IInv, WaitingInv
  <1>8. ASSUME NEW d \in Elements(InTransit) PROVE content'[d] = content[d]
    <2>1. d # b /\ box[c][1] = b
      BY <1>2 DEF IInv, PlacesInv, Held
    <2>2. d \in Boxes
      BY TransitSeq, ElementOfSeq DEF Elements, IInv
    <2>3. QED
      BY <1>1, <2>1, <2>2 DEF IInv, TypeOK
  <1>9. QED
    BY <1>5, <1>7, <1>8

(* put() finds room, and the box joins the end of what is on the way: a    *)
(* thread posts only when the kernel's FIFO is empty.                      *)
LEMMA PutKeeps ==
  ASSUME IInv, NEW c \in Callers, Put(c)
  PROVE  /\ IInv' /\ UNCHANGED content
         /\ \E b \in Boxes : box[c] = <<b>> /\ InTransit' = Append(InTransit, b)
  <1> USE DEF callerVars, kernelVars, senderVars, busVars
  <1>1. /\ at[c] = "putting" /\ at' = [at EXCEPT ![c] = "out"]
        /\ box' = [box EXCEPT ![c] = <<>>]
        /\ UNCHANGED <<free, content, loaded, inIsr, tries, hw, aired, stall, maxStall, sends, counters>>
    BY DEF Put
  <1>2. PICK b \in Boxes : box[c] = <<b>>
    BY <1>1 DEF IInv, HoldInv
  <1>3. Len(mailbox) < QueueSize /\ Len(mailbox) \in Nat /\ box[c][1] = b
    <2>1. box[c] # <<>> /\ box[c][1] = b
      BY <1>2
    <2>2. Len(mailbox) \in Nat
      BY LenProperties DEF IInv, TypeOK
    <2>3. QED
      BY <2>1, <2>2, HolderHasRoom
  <1>4. /\ psq' \in Seq(Boxes) /\ message' \in Seq(Boxes) /\ mailbox' \in Seq(Boxes)
        /\ run' \in {"idle", "waiting", "writing", "sleeping", "freeing"}
        /\ Len(message') = IF run' \in {"writing", "sleeping", "freeing"} THEN 1 ELSE 0
        /\ WaitingInv' /\ halted' = halted
        /\ InTransit' = Append(InTransit, b)
    <2>1. CASE c = Isr
      <3>1. psq' = Append(psq, b) /\ UNCHANGED <<mailbox, halted, run, message>>
        BY <1>3, <2>1, PoolFacts DEF Put
      <3>2. psq' \in Seq(Boxes)
        BY <3>1, AppendProperties DEF IInv, TypeOK
      <3>3. InTransit' = Append(InTransit, b)
        <4>1. message \o mailbox \in Seq(Boxes) /\ psq \in Seq(Boxes)
          BY TransitSeq DEF IInv, TypeOK
        <4>2. (message \o mailbox) \o Append(psq, b) = Append((message \o mailbox) \o psq, b)
          BY <4>1, AppendToConcat
        <4>3. QED
          BY <3>1, <4>2 DEF InTransit
      <3>4. QED
        BY <3>1, <3>2, <3>3 DEF IInv, TypeOK, WaitingInv
    <2>2. CASE c # Isr
      <3>1. Deliver(b) /\ psq' = psq /\ psq = <<>>
        BY <1>3, <2>2, PoolFacts DEF Put, Running, ThreadRuns
      <3>2. message' \o mailbox' = Append(message \o mailbox, b)
        BY <1>3, <3>1, DeliverAppends
      <3>3. InTransit = message \o mailbox /\ InTransit' = message' \o mailbox'
        <4>1. Append(message \o mailbox, b) \in Seq(Boxes)
          BY TransitSeq, AppendProperties DEF IInv
        <4>2. QED
          BY <3>1, <3>2, <4>1, TransitSeq, ConcatEmptySeq DEF InTransit, IInv
      <3>4. QED
        BY <1>3, <3>1, <3>2, <3>3, DeliverAppends DEF IInv, TypeOK, WaitingInv
    <2>3. QED
      BY <2>1, <2>2
  <1>5. TypeOK'
    <2>1. <<>> \in Seq(Boxes)
      OBVIOUS
    <2>2. QED
      BY <1>1, <1>4, <2>1 DEF IInv, TypeOK
  <1>6. /\ \A d \in Callers \ {c} : box'[d] = box[d] /\ at'[d] = at[d]
        /\ box'[c] = <<>> /\ at'[c] = "out"
    BY <1>1 DEF IInv, TypeOK
  <1>7. HoldInv'
    BY <1>6 DEF IInv, HoldInv
  <1>8. b \in Held /\ Held' = Held \ {b}
    BY <1>2, <1>6 DEF Held, IInv, PlacesInv
  <1>9. /\ Elements(InTransit') = Elements(InTransit) \cup {b}
        /\ Distinct(InTransit')
    BY <1>4, <1>8, TransitSeq, AppendDistinct DEF IInv, PlacesInv
  <1>10. PlacesInv'
    <2>1. \A d, e \in Callers : box'[d] # <<>> /\ box'[d] = box'[e] => d = e
      BY <1>6 DEF IInv, PlacesInv
    <2>2. QED
      BY <1>1, <1>8, <1>9, <2>1 DEF IInv, PlacesInv
  <1>11. QED
    BY <1>1, <1>2, <1>4, <1>5, <1>7, <1>10 DEF IInv

LEMMA PopRequestKeeps ==
  ASSUME IInv, PopRequest
  PROVE  IInv' /\ UNCHANGED <<InTransit, content>>
  <1> USE DEF callerVars, busVars
  <1> DEFINE b == Head(psq)
  <1>1. /\ psq # <<>> /\ Deliver(b) /\ psq' = Tail(psq)
        /\ UNCHANGED <<free, content, at, box, loaded, inIsr, tries, hw, aired, stall, maxStall,
                       sends, counters>>
    BY DEF PopRequest
  <1>2. b \in Boxes /\ psq' \in Seq(Boxes) /\ Len(psq) \in Nat \ {0}
    BY <1>1, HeadTailProperties, LenProperties, EmptySeq DEF IInv, TypeOK
  <1>3. Len(mailbox) < QueueSize
    <2>1. Len(InTransit) <= QueueSize
      BY PoolFacts, TransitSeq, DistinctLength DEF IInv, PlacesInv
    <2>2. Len(message) \in Nat /\ Len(mailbox) \in Nat
      BY LenProperties DEF IInv, TypeOK
    <2>3. QED
      BY <1>2, <2>1, <2>2, TransitSeq, PoolFacts DEF IInv
  <1>4. InTransit' = InTransit
    <2>1. message' \o mailbox' = Append(message \o mailbox, b)
      BY <1>1, <1>2, <1>3, DeliverAppends
    <2>2. Append(message \o mailbox, b) \o Tail(psq) = (message \o mailbox) \o psq
      BY <1>1, TransitSeq, MoveHead DEF IInv, TypeOK
    <2>3. QED
      BY <1>1, <2>1, <2>2 DEF InTransit
  <1>5. TypeOK' /\ WaitingInv' /\ halted' = halted
    BY <1>1, <1>2, <1>3, DeliverAppends DEF IInv, TypeOK, WaitingInv
  <1>6. QED
    BY <1>1, <1>4, <1>5, NoBoxMoves DEF IInv
LEMMA GetKeeps ==
  ASSUME IInv, Get
  PROVE  IInv' /\ UNCHANGED <<InTransit, content>>
  <1> USE DEF callerVars, busVars
  <1>1. /\ run = "idle" /\ message = <<>>
        /\ UNCHANGED <<free, content, at, box, loaded, inIsr, psq, halted, tries, hw, aired, stall,
                       maxStall, sends, counters>>
    BY EmptySeq DEF Get, IInv, TypeOK
  <1>2. CASE mailbox = <<>>
    <2>1. run' = "waiting" /\ UNCHANGED <<message, mailbox>>
      BY <1>2 DEF Get
    <2>2. TypeOK' /\ InTransit' = InTransit /\ WaitingInv'
      BY <1>1, <1>2, <2>1 DEF IInv, TypeOK, InTransit, WaitingInv
    <2>3. QED
      BY <1>1, <2>2, NoBoxMoves
  <1>3. CASE mailbox # <<>>
    <2>1. run' = "writing" /\ message' = <<Head(mailbox)>> /\ mailbox' = Tail(mailbox)
      BY <1>3 DEF Get
    <2>2. mailbox \in Seq(Boxes)
      BY DEF IInv, TypeOK
    <2>3. message' \in Seq(Boxes) /\ mailbox' \in Seq(Boxes) /\ message' \o mailbox' = mailbox
      BY <1>3, <2>1, <2>2, HeadThenTail
    <2>4. message \o mailbox = mailbox
      BY <1>1, <2>2, ConcatEmptySeq
    <2>5. InTransit' = InTransit
      BY <1>1, <2>3, <2>4 DEF InTransit
    <2>6. TypeOK' /\ WaitingInv'
      BY <1>1, <2>1, <2>3 DEF IInv, TypeOK, WaitingInv
    <2>7. QED
      BY <1>1, <2>5, <2>6, NoBoxMoves
  <1>4. QED
    BY <1>2, <1>3

LEMMA WriteKeeps ==
  ASSUME IInv, Write
  PROVE  IInv' /\ UNCHANGED <<InTransit, content>>
  <1> USE DEF callerVars, kernelVars
  <1>1. /\ run = "writing"
        /\ UNCHANGED <<free, content, at, box, loaded, inIsr, psq, mailbox, halted, message,
                       aired, stall, maxStall, sends>>
    BY DEF Write
  <1>2. content[message[1]] \in Frame
    <2>1. Len(message) = 1 /\ message \in Seq(Boxes)
      BY <1>1 DEF IInv, TypeOK
    <2>2. message[1] \in Boxes
      BY <2>1, ElementOfSeq
    <2>3. QED
      BY <2>2 DEF IInv, TypeOK
  <1>3. /\ run' \in {"writing", "freeing", "sleeping"} /\ tries' \in 0 .. Retries
        /\ hw' \in Seq(Frame) /\ Len(hw') <= HwSize
        /\ counters' \in [dropped : Nat, errors : Nat]
    <2>1. /\ hw \in Seq(Frame) /\ Len(hw) <= HwSize /\ Len(hw) \in Nat /\ tries \in 0 .. Retries
          /\ counters \in [dropped : Nat, errors : Nat] /\ Retries \in Nat /\ HwSize \in Nat
      BY SizesAssumption, LenProperties DEF IInv, TypeOK
    <2>2. CASE EmptyMailbox
      <3>1. hw' = Append(hw, content[message[1]]) /\ run' = "freeing" /\ UNCHANGED <<tries, counters>>
        BY <2>2 DEF Write
      <3>2. hw' \in Seq(Frame) /\ Len(hw') = Len(hw) + 1
        BY <1>2, <2>1, <3>1, AppendProperties
      <3>3. QED
        BY <2>1, <2>2, <3>1, <3>2 DEF EmptyMailbox
    <2>3. CASE ~EmptyMailbox /\ GiveUp
      <3>1. hw' = hw /\ run' = "freeing" /\ tries' = tries
            /\ counters' = [counters EXCEPT !.errors = @ + 1]
        BY <2>3 DEF Write
      <3>2. QED
        BY <2>1, <3>1
    <2>4. CASE ~EmptyMailbox /\ ~GiveUp
      <3>1. hw' = hw /\ run' = "sleeping" /\ tries' = tries + 1 /\ counters' = counters
        BY <2>4 DEF Write
      <3>2. QED
        BY <2>1, <2>4, <3>1 DEF GiveUp
    <2>5. QED
      BY <2>2, <2>3, <2>4
  <1>4. TypeOK'
    BY <1>1, <1>3 DEF IInv, TypeOK
  <1>5. InTransit' = InTransit /\ WaitingInv'
    BY <1>1, <1>3 DEF InTransit, WaitingInv
  <1>6. QED
    BY <1>1, <1>4, <1>5, NoBoxMoves

LEMMA WakeKeeps ==
  ASSUME IInv, Wake
  PROVE  IInv' /\ UNCHANGED <<InTransit, content>>
  <1> USE DEF callerVars, kernelVars
  <1>1. /\ run = "sleeping" /\ run' = "writing"
        /\ UNCHANGED <<free, content, at, box, loaded, inIsr, psq, mailbox, halted, message, tries,
                       hw, aired, maxStall, sends, counters>>
    BY DEF Wake
  <1>2. maxStall \in Nat /\ stall \in 0 .. maxStall
    BY SizesAssumption DEF IInv, TypeOK
  <1>3. stall' \in 0 .. maxStall'
    BY <1>1, <1>2 DEF Wake
  <1>4. TypeOK' /\ InTransit' = InTransit /\ WaitingInv'
    BY <1>1, <1>3 DEF IInv, TypeOK, InTransit, WaitingInv
  <1>5. QED
    BY <1>1, <1>4, NoBoxMoves

(* free() gives back the oldest box on the way. *)
LEMMA FreeKeeps ==
  ASSUME IInv, Free
  PROVE  /\ IInv' /\ UNCHANGED content
         /\ InTransit # <<>> /\ InTransit' = Tail(InTransit)
  <1> USE DEF callerVars, kernelVars, busVars
  <1>1. /\ run = "freeing" /\ run' = "idle" /\ message' = <<>> /\ tries' = 0
        /\ free' = message \o free
        /\ UNCHANGED <<content, at, box, loaded, inIsr, psq, mailbox, halted, hw, aired, stall,
                       maxStall, sends, counters>>
    BY DEF Free, ReturnBox
  <1>2. /\ message \in Seq(Boxes) /\ mailbox \in Seq(Boxes) /\ psq \in Seq(Boxes) /\ free \in Seq(Boxes)
        /\ Len(message) = 1 /\ mailbox \o psq \in Seq(Boxes)
    BY <1>1, ConcatProperties DEF IInv, TypeOK
  <1>3. InTransit = message \o (mailbox \o psq)
    BY <1>2, ConcatAssociative DEF InTransit
  <1>4. InTransit # <<>> /\ Tail(InTransit) = mailbox \o psq
    BY <1>2, <1>3, TailOfConcat
  <1>5. InTransit' = mailbox \o psq
    BY <1>1, <1>2, ConcatEmptySeq DEF InTransit
  <1>6. message[1] \in Boxes /\ message = <<message[1]>>
    <2>1. message[1] \in Boxes
      <3>1. message \in Seq(Boxes) /\ 1 \in 1 .. Len(message)
        BY <1>2
      <3>2. QED
        BY <3>1, ElementOfSeq
    <2>2. <<message[1]>> \in Seq(Boxes) /\ Len(<<message[1]>>) = 1 /\ <<message[1]>>[1] = message[1]
      BY <2>1
    <2>3. QED
      BY <1>2, <2>1, <2>2, SeqEqual
  <1>7. /\ Elements(InTransit) = {message[1]} \cup Elements(InTransit')
        /\ Distinct(InTransit') /\ message[1] \notin Elements(InTransit')
    <2>1. Head(InTransit) = message[1]
      <3>1. InTransit[1] = message[1]
        <4>1. \A i \in 1 .. Len(message) + Len(mailbox \o psq) :
                InTransit[i] = IF i <= Len(message) THEN message[i]
                               ELSE (mailbox \o psq)[i - Len(message)]
          BY <1>2, <1>3, ConcatProperties
        <4>2. Len(mailbox \o psq) \in Nat /\ 1 \in 1 .. 1 + Len(mailbox \o psq) /\ 1 <= 1
          BY <1>2, LenProperties
        <4>3. QED
          BY <1>2, <4>1, <4>2
      <3>2. QED
        BY <1>4, <3>1, TransitSeq, HeadTailProperties DEF IInv
    <2>2. InTransit \in Seq(Boxes) /\ Distinct(InTransit)
      BY TransitSeq DEF IInv, PlacesInv
    <2>3. /\ Elements(InTransit) = {Head(InTransit)} \cup Elements(Tail(InTransit))
          /\ Distinct(Tail(InTransit)) /\ Head(InTransit) \notin Elements(Tail(InTransit))
      BY <1>4, <2>2, TailDistinct
    <2>4. QED
      BY <1>4, <1>5, <2>1, <2>3
  <1>8. /\ free' \in Seq(Boxes) /\ Distinct(free')
        /\ Elements(free') = {message[1]} \cup Elements(free)
    <2>1. Elements(message) = {message[1]} /\ Distinct(message)
      BY <1>6, ShortDistinct
    <2>2. Elements(message) \cap Elements(free) = {}
      BY <1>7, <2>1 DEF IInv, PlacesInv
    <2>3. QED
      BY <1>1, <1>2, <2>1, <2>2, ConcatDistinct, ConcatProperties DEF IInv, PlacesInv
  <1>9. TypeOK'
    <2>1. <<>> \in Seq(Boxes) /\ Len(<<>>) = 0 /\ 0 \in 0 .. Retries
      BY SizesAssumption
    <2>2. QED
      BY <1>1, <1>8, <2>1 DEF IInv, TypeOK
  <1>10. HoldInv' /\ Held' = Held
    BY <1>1 DEF IInv, HoldInv, Held
  <1>11. PlacesInv'
    BY <1>1, <1>7, <1>8, <1>10 DEF IInv, PlacesInv
  <1>12. QED
    BY <1>1, <1>4, <1>5, <1>9, <1>10, <1>11 DEF IInv, WaitingInv

LEMMA TransmitKeeps ==
  ASSUME IInv, Transmit
  PROVE  IInv' /\ UNCHANGED <<InTransit, content>>
  <1> USE DEF callerVars, kernelVars, senderVars
  <1>1. /\ hw # <<>> /\ hw' = Tail(hw) /\ stall' = 0
        /\ aired' = [aired EXCEPT ![Head(hw).from] = Head(hw).n]
        /\ UNCHANGED <<free, content, at, box, loaded, inIsr, psq, mailbox, halted, run, message,
                       tries, maxStall, sends, counters>>
    BY DEF Transmit, TransmitOldest
  <1>2. /\ Head(hw) \in Frame /\ hw' \in Seq(Frame) /\ Len(hw') = Len(hw) - 1
        /\ Len(hw) <= HwSize /\ Len(hw) \in Nat /\ HwSize \in Nat
    BY <1>1, HeadTailProperties, LenProperties, SizesAssumption DEF IInv, TypeOK
  <1>3. aired' \in [Callers -> Nat] /\ Len(hw') <= HwSize
    <2>1. Head(hw).from \in Callers /\ Head(hw).n \in Nat
      BY <1>2 DEF Frame
    <2>2. aired' \in [Callers -> Nat]
      BY <1>1, <2>1 DEF IInv, TypeOK
    <2>3. QED
      BY <1>2, <2>2
  <1>4. stall' \in 0 .. maxStall'
    BY <1>1, SizesAssumption DEF IInv, TypeOK
  <1>5. TypeOK' /\ InTransit' = InTransit /\ WaitingInv'
    BY <1>1, <1>2, <1>3, <1>4 DEF IInv, TypeOK, InTransit, WaitingInv
  <1>6. QED
    BY <1>1, <1>5, NoBoxMoves

LEMMA IInvStep == IInv /\ [Next]_vars => IInv'
  <1> SUFFICES ASSUME IInv, [Next]_vars PROVE IInv'
    OBVIOUS
  <1>1. ASSUME NEW c \in Callers, SendCanFrame(c) PROVE IInv'
    BY <1>1, AllocKeeps, CountDropKeeps, FillKeeps, PutKeeps DEF SendCanFrame
  <1>2. CASE SendFunc
    BY <1>2, GetKeeps, WriteKeeps, WakeKeeps, FreeKeeps DEF SendFunc
  <1>3. CASE UNCHANGED vars
    <2>1. UNCHANGED <<free, content, at, box, loaded, inIsr, psq, mailbox, halted, run, message,
                      tries, hw, aired, stall, maxStall, sends, counters>>
      BY <1>3 DEF vars, callerVars, kernelVars, senderVars, busVars
    <2>2. TypeOK' /\ InTransit' = InTransit /\ WaitingInv'
      BY <2>1 DEF IInv, TypeOK, InTransit, WaitingInv
    <2>3. QED
      BY <2>1, <2>2, NoBoxMoves
  <1>4. QED
    BY <1>1, <1>2, <1>3, IsrsKeep, PopRequestKeeps, TransmitKeeps DEF Next

LEMMA Invariance == Spec => []IInv
  BY InitIInv, IInvStep, PTL DEF Spec, Safe

-----------------------------------------------------------------------------
(* The variables keep their types: in particular no more frames than fit   *)
(* are put into the controller's mailboxes, and the retries stay bounded.  *)
THEOREM TypeCorrect == Spec => []TypeOK
  <1>1. IInv => TypeOK
    BY DEF IInv
  <1>2. QED
    BY <1>1, Invariance, PTL

(* The ignored result of put() is never a failure, and the kernel never    *)
(* meets a full mailbox, whoever sends from wherever.                      *)
THEOREM PutFindsRoom == Spec => []QueueHasRoom
  <1>1. IInv => QueueHasRoom
    <2> SUFFICES ASSUME IInv PROVE QueueHasRoom
      OBVIOUS
    <2>1. ASSUME NEW c \in Callers, at[c] = "putting" PROVE Len(mailbox) < QueueSize
      <3>1. PICK b \in Boxes : box[c] = <<b>>
        BY <2>1 DEF IInv, HoldInv
      <3>2. box[c] # <<>>
        BY <3>1
      <3>3. QED
        BY <3>2, HolderHasRoom
    <2>2. QED
      BY <2>1 DEF QueueHasRoom, IInv
  <1>2. QED
    BY <1>1, Invariance, PTL

(* Each block is in the pool, with one caller, or on the way, exactly      *)
(* once: none is ever lost, and no two frames share one.                   *)
THEOREM NoBoxLostOrShared == Spec => []BoxesConserved
  <1>1. IInv => BoxesConserved
    <2> SUFFICES ASSUME IInv, NEW b \in Boxes
                 PROVE  Times(free, b) + Times(InTransit, b) + Cardinality(Holders(b)) = 1
      BY DEF BoxesConserved
    <2>1. /\ Times(free, b) = IF b \in Elements(free) THEN 1 ELSE 0
          /\ Times(InTransit, b) = IF b \in Elements(InTransit) THEN 1 ELSE 0
      BY TransitSeq, DistinctCount DEF IInv, TypeOK, PlacesInv, Times
    <2>2. Cardinality(Holders(b)) = IF b \in Held THEN 1 ELSE 0
      <3>1. CASE b \in Held
        <4>1. PICK c \in Callers : box[c] = <<b>>
          BY <3>1 DEF Held
        <4>2. \A d \in Callers : box[d] = <<b>> => d = c
          BY <4>1 DEF IInv, PlacesInv
        <4>3. Holders(b) = {c}
          BY <4>1, <4>2 DEF Holders
        <4>4. QED
          BY <3>1, <4>3, FS_Singleton
      <3>2. CASE b \notin Held
        <4>1. Holders(b) = {}
          BY <3>2 DEF Held, Holders
        <4>2. QED
          BY <3>2, <4>1, FS_EmptySet
      <3>3. QED
        BY <3>1, <3>2
    <2>3. /\ b \in Elements(free) \/ b \in Elements(InTransit) \/ b \in Held
          /\ ~(b \in Elements(free) /\ b \in Elements(InTransit))
          /\ ~(b \in Elements(free) /\ b \in Held)
          /\ ~(b \in Elements(InTransit) /\ b \in Held)
      BY DEF IInv, PlacesInv
    <2> HIDE DEF Times, InTransit, Holders, Held
    <2>4. QED
      BY <2>1, <2>2, <2>3
  <1>2. QED
    BY <1>1, Invariance, PTL
-----------------------------------------------------------------------------
(* Short stalls cost no frame: while all transmit mailboxes are full, a    *)
(* frame has had no more failed writes than the bus had retries to stall.  *)

StallInv ==
  0 < maxStall /\ maxStall < Retries =>
    /\ counters.errors = 0
    /\ run \in {"idle", "waiting"} => tries = 0
    /\ run = "writing" /\ Len(hw) = HwSize => tries <= stall
    /\ run = "sleeping" /\ Len(hw) = HwSize => tries <= stall + 1

LEMMA StallStep == IInv /\ StallInv /\ [Next]_vars => StallInv'
  <1> SUFFICES ASSUME IInv, StallInv, [Next]_vars, 0 < maxStall', maxStall' < Retries
               PROVE  /\ counters'.errors = 0
                      /\ run' \in {"idle", "waiting"} => tries' = 0
                      /\ run' = "writing" /\ Len(hw') = HwSize => tries' <= stall'
                      /\ run' = "sleeping" /\ Len(hw') = HwSize => tries' <= stall' + 1
    BY DEF StallInv
  <1> USE DEF callerVars, kernelVars, senderVars, busVars
  <1>1. /\ stall \in Nat /\ tries \in Nat /\ Retries \in Nat /\ HwSize \in Nat /\ Len(hw) \in Nat
        /\ Len(hw) <= HwSize /\ maxStall \in Nat /\ stall <= maxStall
        /\ counters \in [dropped : Nat, errors : Nat]
        /\ run \in {"idle", "waiting", "writing", "sleeping", "freeing"}
    BY SizesAssumption, LenProperties DEF IInv, TypeOK
  <1>2. maxStall' = maxStall
    BY DEF Next, Isrs, EnterIsr, LeaveIsr, SendCanFrame, Alloc, CountDrop, Fill, Put, PopRequest,
           SendFunc, Get, Write, Wake, Free, Transmit, vars
  <1>3. /\ counters.errors = 0
        /\ run \in {"idle", "waiting"} => tries = 0
        /\ run = "writing" /\ Len(hw) = HwSize => tries <= stall
        /\ run = "sleeping" /\ Len(hw) = HwSize => tries <= stall + 1
    BY <1>2 DEF StallInv
  <1>4. CASE UNCHANGED <<run, tries, hw, stall>> /\ counters'.errors = counters.errors
    BY <1>3, <1>4
  <1>5. CASE run = "waiting" /\ run' = "writing" /\ UNCHANGED <<tries, hw, stall, counters>>
    BY <1>1, <1>3, <1>5
  <1>6. CASE Isrs \/ UNCHANGED vars
    BY <1>4, <1>6 DEF Isrs, EnterIsr, LeaveIsr, vars
  <1>7. ASSUME NEW c \in Callers, Alloc(c) \/ Fill(c)
        PROVE  UNCHANGED <<run, tries, hw, stall, counters>>
    BY <1>7 DEF Alloc, Fill
  <1>8. ASSUME NEW c \in Callers, CountDrop(c)
        PROVE  UNCHANGED <<run, tries, hw, stall>> /\ counters'.errors = counters.errors
    BY <1>1, <1>8 DEF CountDrop
  <1>9. ASSUME NEW b, Deliver(b) PROVE run' = run \/ (run = "waiting" /\ run' = "writing")
    BY <1>9 DEF Deliver
  <1>10. ASSUME NEW c \in Callers, Put(c)
         PROVE  /\ run' = run \/ (run = "waiting" /\ run' = "writing")
                /\ UNCHANGED <<tries, hw, stall, counters>>
    BY <1>9, <1>10 DEF Put
  <1>11. CASE PopRequest
    BY <1>4, <1>5, <1>9, <1>11 DEF PopRequest
  <1>12. CASE Get
    <2>1. run = "idle" /\ run' \in {"waiting", "writing"} /\ UNCHANGED <<tries, hw, stall, counters>>
      BY <1>12 DEF Get
    <2>2. QED
      BY <1>1, <1>3, <2>1
  <1>13. CASE Write
    <2>1. run = "writing" /\ stall' = stall
      BY <1>13 DEF Write
    <2>2. CASE EmptyMailbox
      BY <1>3, <1>13, <2>2 DEF Write
    <2>3. CASE ~EmptyMailbox
      <3>1. Len(hw) = HwSize /\ hw' = hw
        BY <1>1, <1>13, <2>3 DEF EmptyMailbox, Write
      <3>2. tries <= stall /\ ~GiveUp
        BY <1>1, <1>2, <1>3, <2>1, <3>1 DEF GiveUp
      <3>3. tries' = tries + 1 /\ run' = "sleeping" /\ counters' = counters
        BY <1>13, <2>3, <3>2 DEF Write
      <3>4. QED
        BY <1>1, <1>3, <2>1, <3>2, <3>3
    <2>4. QED
      BY <2>2, <2>3
  <1>14. CASE Wake
    <2>1. run = "sleeping" /\ run' = "writing" /\ UNCHANGED <<tries, hw, counters>>
      BY <1>14 DEF Wake
    <2>2. Len(hw) = HwSize => stall' = stall + 1
      BY <1>2, <1>14 DEF Wake
    <2>3. QED
      BY <1>1, <1>3, <2>1, <2>2
  <1>15. CASE Free
    BY <1>3, <1>15 DEF Free
  <1>16. CASE Transmit
    <2>1. hw # <<>> /\ hw' = Tail(hw) /\ UNCHANGED <<run, tries, counters>>
      BY <1>16 DEF Transmit, TransmitOldest
    <2>2. Len(hw') = Len(hw) - 1
      BY <2>1, HeadTailProperties DEF IInv, TypeOK
    <2>3. Len(hw') # HwSize
      BY <1>1, <2>2
    <2>4. QED
      BY <1>3, <2>1, <2>3
  <1>17. QED
    BY <1>4, <1>5, <1>6, <1>7, <1>8, <1>10, <1>11, <1>12, <1>13, <1>14, <1>15, <1>16
       DEF Next, SendCanFrame, SendFunc

(* On a bus that frees a mailbox within fewer than Retries retries no      *)
(* accepted frame is given up, whatever else is sent from wherever.        *)
THEOREM RetriesBridgeStalls == Spec => []NoFrameGivenUp
  <1>1. Init => StallInv
    BY SizesAssumption DEF Init, StallInv
  <1>2. StallInv => NoFrameGivenUp
    BY DEF StallInv, NoFrameGivenUp
  <1>3. QED
    BY <1>1, <1>2, StallStep, Invariance, PTL DEF Spec, Safe
-----------------------------------------------------------------------------
(* What the boxes carry.                                                   *)

Image(c, s) == [i \in 1 .. Len(s) |-> c[s[i]]]

LEMMA ImageType ==
  ASSUME NEW c \in [Boxes -> Frame], NEW s \in Seq(Boxes)
  PROVE  /\ Image(c, s) \in Seq(Frame) /\ Len(Image(c, s)) = Len(s)
         /\ \A i \in 1 .. Len(s) : Image(c, s)[i] = c[s[i]]
  <1>1. Len(s) \in Nat /\ \A i \in 1 .. Len(s) : s[i] \in Boxes
    BY LenProperties, ElementOfSeq
  <1>2. Image(c, s) \in [1 .. Len(s) -> Frame]
    BY <1>1 DEF Image
  <1>3. QED
    BY <1>1, <1>2 DEF Image

LEMMA ImageSame ==
  ASSUME NEW c, NEW d, NEW s, \A b \in Elements(s) : c[b] = d[b]
  PROVE  Image(c, s) = Image(d, s)
  BY DEF Image, Elements

LEMMA ImageAppend ==
  ASSUME NEW c \in [Boxes -> Frame], NEW s \in Seq(Boxes), NEW b \in Boxes
  PROVE  Image(c, Append(s, b)) = Append(Image(c, s), c[b])
  <1> DEFINE t == Append(s, b)
             u == Append(Image(c, s), c[b])
  <1>1. /\ t \in Seq(Boxes) /\ Len(t) = Len(s) + 1 /\ Len(s) \in Nat /\ t[Len(s) + 1] = b
        /\ \A i \in 1 .. Len(s) : t[i] = s[i]
    BY AppendProperties, LenProperties
  <1>2. /\ u \in Seq(Frame) /\ Len(u) = Len(s) + 1 /\ u[Len(s) + 1] = c[b]
        /\ \A i \in 1 .. Len(s) : u[i] = c[s[i]]
    BY ImageType, AppendProperties
  <1> HIDE DEF t, u
  <1>3. /\ Image(c, t) \in Seq(Frame) /\ Len(Image(c, t)) = Len(t)
        /\ \A i \in 1 .. Len(t) : Image(c, t)[i] = c[t[i]]
    BY <1>1, ImageType
  <1>4. ASSUME NEW i \in 1 .. Len(t) PROVE Image(c, t)[i] = u[i]
    <2>1. i \in 1 .. Len(s) \/ i = Len(s) + 1
      BY <1>1
    <2>2. QED
      BY <1>1, <1>2, <1>3, <2>1
  <1>5. Image(c, t) = u
    BY <1>1, <1>2, <1>3, <1>4, SeqEqual
  <1>6. QED
    BY <1>5 DEF t, u

LEMMA ImageTail ==
  ASSUME NEW c \in [Boxes -> Frame], NEW s \in Seq(Boxes), s # <<>>
  PROVE  /\ Image(c, s) # <<>> /\ Image(c, Tail(s)) = Tail(Image(c, s))
         /\ Head(Image(c, s)) = c[Head(s)]
  <1> DEFINE t == Tail(s)
             u == Image(c, s)
  <1>1. /\ t \in Seq(Boxes) /\ Len(t) = Len(s) - 1 /\ Len(s) \in Nat \ {0} /\ Head(s) = s[1]
        /\ \A i \in 1 .. Len(t) : t[i] = s[i + 1]
    BY HeadTailProperties, LenProperties, EmptySeq
  <1>2. /\ u \in Seq(Frame) /\ Len(u) = Len(s)
        /\ \A i \in 1 .. Len(s) : u[i] = c[s[i]]
    BY ImageType
  <1>3. /\ Image(c, t) \in Seq(Frame) /\ Len(Image(c, t)) = Len(t)
        /\ \A i \in 1 .. Len(t) : Image(c, t)[i] = c[t[i]]
    BY <1>1, ImageType
  <1> HIDE DEF t, u
  <1>4. u # <<>>
    BY <1>1, <1>2, EmptySeq
  <1>5. /\ Tail(u) \in Seq(Frame) /\ Len(Tail(u)) = Len(u) - 1 /\ Head(u) = u[1]
        /\ \A i \in 1 .. Len(Tail(u)) : Tail(u)[i] = u[i + 1]
    BY <1>2, <1>4, HeadTailProperties
  <1>6. ASSUME NEW i \in 1 .. Len(t) PROVE Image(c, t)[i] = Tail(u)[i]
    <2>1. i + 1 \in 1 .. Len(s) /\ i \in 1 .. Len(Tail(u))
      BY <1>1, <1>2, <1>5
    <2>2. QED
      BY <1>1, <1>2, <1>3, <1>5, <2>1
  <1>7. Len(Tail(u)) = Len(t)
    BY <1>1, <1>2, <1>5
  <1>8. Image(c, t) = Tail(u)
    BY <1>3, <1>5, <1>6, <1>7, SeqEqual
  <1>9. Head(u) = c[Head(s)]
    BY <1>1, <1>2, <1>5
  <1>10. QED
    BY <1>4, <1>8, <1>9 DEF t, u

(* The transmit path is a bounded FIFO channel: accepted frames leave it   *)
(* once each, as they were built, in the order of put(), whatever happens  *)
(* to the other boxes meanwhile.                                           *)
THEOREM PathIsChannel == Spec => ImplementsChannel
  <1> DEFINE chan == Image(content, InTransit)
  <1>1. Init => chan = <<>>
    <2>1. Init => InTransit = <<>>
      BY DEF Init, InTransit
    <2>2. Image(content, <<>>) = <<>>
      BY DEF Image
    <2>3. QED
      BY <2>1, <2>2
  <1>2. IInv /\ [Next]_vars => [Channel!Next]_chan
    <2> SUFFICES ASSUME IInv, [Next]_vars PROVE Channel!Next \/ chan' = chan
      OBVIOUS
    <2>1. content \in [Boxes -> Frame] /\ InTransit \in Seq(Boxes)
      BY TransitSeq DEF IInv, TypeOK
    <2>2. chan \in Seq(Frame) /\ Len(chan) = Len(InTransit)
      BY <2>1, ImageType
    <2>3. CASE UNCHANGED <<InTransit, content>>
      BY <2>3
    <2>4. ASSUME NEW c \in Callers, Fill(c) PROVE chan' = chan
      <3>1. InTransit' = InTransit /\ \A b \in Elements(InTransit) : content'[b] = content[b]
        BY <2>4, FillKeeps
      <3>2. Image(content', InTransit) = Image(content, InTransit)
        BY <3>1, ImageSame
      <3>3. QED
        BY <3>1, <3>2
    <2>5. ASSUME NEW c \in Callers, Put(c) PROVE Channel!Next
      <3>1. PICK b \in Boxes : box[c] = <<b>> /\ InTransit' = Append(InTransit, b)
        BY <2>5, PutKeeps
      <3>2. content' = content /\ box[c] # <<>>
        BY <2>5, <3>1, PutKeeps
      <3>3. chan' = Append(chan, content[b])
        BY <2>1, <3>1, <3>2, ImageAppend
      <3>4. Len(chan) < QueueSize
        BY <2>2, <3>2, HolderHasRoom
      <3>5. content[b] \in Frame
        BY <2>1
      <3> HIDE DEF chan
      <3>6. chan' # <<>> /\ chan'[Len(chan')] = content[b]
        BY <2>2, <3>3, <3>5, AppendProperties
      <3>7. QED
        BY <3>3, <3>4, <3>5, <3>6 DEF Channel!Next, Channel!Accept, chan, Image, Carried
    <2>6. CASE Free
      <3>1. content' = content /\ InTransit # <<>> /\ InTransit' = Tail(InTransit)
        BY <2>6, FreeKeeps
      <3>2. chan # <<>> /\ chan' = Tail(chan)
        BY <2>1, <3>1, ImageTail
      <3>3. QED
        BY <3>2 DEF Channel!Next, Channel!Remove, Image, Carried
    <2>7. CASE UNCHANGED vars
      BY <2>3, <2>7 DEF vars, InTransit, kernelVars, senderVars
    <2>8. QED
      BY <2>3, <2>4, <2>5, <2>6, <2>7, IsrsKeep, AllocKeeps, CountDropKeeps, PopRequestKeeps,
         GetKeeps, WriteKeeps, WakeKeeps, TransmitKeeps DEF Next, SendCanFrame, SendFunc
  <1>3. Carried(InTransit) = chan
    BY DEF Carried, Image
  <1>4. QED
    BY <1>1, <1>2, <1>3, Invariance, PTL
       DEF Spec, Safe, ImplementsChannel, Channel!Spec, Channel!Init, Carried, Image
-----------------------------------------------------------------------------
(* The order of a caller's frames.                                         *)

(* The boxes not yet written, and the frames on their way to the bus. *)
Unwritten == (IF run = "freeing" THEN <<>> ELSE message) \o mailbox \o psq
Line == hw \o Image(content, Unwritten)

(* The number of a caller's last frame to have passed put(), or dropped. *)
Accepted == [c \in Callers |-> IF at[c] \in {"filling", "putting"} THEN sends[c] - 1 ELSE sends[c]]

Ordered(line, out) ==
  \A i \in 1 .. Len(line) :
    /\ out[line[i].from] < line[i].n
    /\ \A j \in i + 1 .. Len(line) : line[i].from = line[j].from => line[i].n < line[j].n

OrderInv ==
  /\ Ordered(Line, aired)
  /\ \A i \in 1 .. Len(Line) : Line[i].n <= Accepted[Line[i].from]
  /\ \A c \in Callers : aired[c] <= Accepted[c]
  /\ \A c \in Callers : at[c] = "putting" => content[box[c][1]] = [from |-> c, n |-> sends[c]]

LEMMA AcceptedType ==
  ASSUME TypeOK
  PROVE  /\ Accepted \in [Callers -> Int] /\ aired \in [Callers -> Nat] /\ sends \in [Callers -> Nat]
         /\ \A c \in Callers :
              Accepted[c] = IF at[c] \in {"filling", "putting"} THEN sends[c] - 1 ELSE sends[c]
  <1>1. aired \in [Callers -> Nat] /\ sends \in [Callers -> Nat]
    BY DEF TypeOK
  <1>2. \A c \in Callers : sends[c] \in Int /\ sends[c] - 1 \in Int
    BY <1>1
  <1>3. QED
    BY <1>1, <1>2 DEF Accepted

LEMMA AcceptedTypeLater ==
  ASSUME TypeOK'
  PROVE  Accepted' \in [Callers -> Int]
  <1>1. sends' \in [Callers -> Nat]
    BY DEF TypeOK
  <1>2. \A c \in Callers : sends'[c] \in Int /\ sends'[c] - 1 \in Int
    BY <1>1
  <1>3. QED
    BY <1>1, <1>2 DEF Accepted

LEMMA UnwrittenFacts ==
  ASSUME IInv
  PROVE  /\ Unwritten = IF run = "freeing" THEN Tail(InTransit) ELSE InTransit
         /\ run = "freeing" => InTransit # <<>>
         /\ Unwritten \in Seq(Boxes) /\ Elements(Unwritten) \subseteq Elements(InTransit)
         /\ content \in [Boxes -> Frame] /\ hw \in Seq(Frame)
         /\ Image(content, Unwritten) \in Seq(Frame) /\ Line \in Seq(Frame)
  <1>1. /\ message \in Seq(Boxes) /\ mailbox \in Seq(Boxes) /\ psq \in Seq(Boxes)
        /\ content \in [Boxes -> Frame] /\ hw \in Seq(Frame)
    BY DEF IInv, TypeOK
  <1>2. InTransit \in Seq(Boxes)
    BY TransitSeq DEF IInv
  <1>3. CASE run # "freeing"
    BY <1>1, <1>2, <1>3, ImageType, ConcatProperties DEF Unwritten, InTransit, Line
  <1>4. CASE run = "freeing"
    <2>1. mailbox \o psq \in Seq(Boxes) /\ Len(message) = 1
      BY <1>1, <1>4, ConcatProperties DEF IInv, TypeOK
    <2>2. InTransit = message \o (mailbox \o psq)
      BY <1>1, ConcatAssociative DEF InTransit
    <2>3. InTransit # <<>> /\ Tail(InTransit) = mailbox \o psq
      BY <1>1, <2>1, <2>2, TailOfConcat
    <2>4. Unwritten = mailbox \o psq
      BY <1>1, <1>4, ConcatEmptySeq DEF Unwritten
    <2>5. Elements(Unwritten) \subseteq Elements(InTransit)
      BY <1>2, <2>3, <2>4, TailDistinct
    <2>6. Image(content, Unwritten) \in Seq(Frame)
      BY <1>1, <2>1, <2>4, ImageType
    <2>7. Line \in Seq(Frame)
      BY <1>1, <2>6, ConcatProperties DEF Line
    <2>8. QED
      BY <1>1, <1>4, <2>1, <2>3, <2>4, <2>5, <2>6, <2>7
  <1>5. QED
    BY <1>3, <1>4

(* Most steps leave the line alone; a caller's numbers only grow.          *)
LEMMA SameLine ==
  ASSUME IInv, IInv', OrderInv, Line' = Line, aired' = aired,
         \A c \in Callers : Accepted'[c] >= Accepted[c],
         \A c \in Callers : at'[c] = "putting" =>
           content'[box'[c][1]] = [from |-> c, n |-> sends'[c]]
  PROVE  OrderInv'
  <1>1. \A c \in Callers : Accepted[c] \in Int /\ Accepted'[c] \in Int /\ aired[c] \in Int
    BY AcceptedType, AcceptedTypeLater DEF IInv
  <1>2. \A c \in Callers : aired'[c] <= Accepted'[c]
    BY <1>1 DEF OrderInv
  <1>3. ASSUME NEW i \in 1 .. Len(Line) PROVE Line[i].n <= Accepted'[Line[i].from]
    <2>1. Line[i] \in Frame
      BY UnwrittenFacts, ElementOfSeq
    <2>2. Line[i].from \in Callers /\ Line[i].n \in Nat /\ Line[i].n <= Accepted[Line[i].from]
      BY <2>1 DEF Frame, OrderInv
    <2>3. QED
      BY <1>1, <2>2
  <1>4. Ordered(Line', aired')
    BY DEF OrderInv
  <1>5. \A i \in 1 .. Len(Line') : Line'[i].n <= Accepted'[Line'[i].from]
    BY <1>3
  <1> HIDE DEF Line
  <1>6. QED
    BY <1>2, <1>4, <1>5 DEF OrderInv, Ordered

(* A new frame joins the end with its caller's highest number.             *)
LEMMA LongerLine ==
  ASSUME IInv, IInv', OrderInv, NEW c \in Callers,
         Line' = Append(Line, [from |-> c, n |-> sends[c]]),
         at[c] = "putting", at' = [at EXCEPT ![c] = "out"], UNCHANGED <<aired, sends>>,
         \A d \in Callers : at'[d] = "putting" =>
           content'[box'[d][1]] = [from |-> d, n |-> sends[d]]
  PROVE  OrderInv'
  <1> DEFINE f == [from |-> c, n |-> sends[c]]
  <1>1. /\ \A d \in Callers : Accepted[d] \in Int /\ aired[d] \in Nat /\ aired[d] <= Accepted[d]
        /\ sends[c] \in Nat
    BY AcceptedType DEF IInv, OrderInv
  <1>2. /\ Accepted[c] = sends[c] - 1 /\ Accepted'[c] = sends[c]
        /\ \A d \in Callers \ {c} : Accepted'[d] = Accepted[d]
    <2>1. /\ \A d \in Callers \ {c} : at'[d] = at[d]
          /\ at'[c] = "out"
      BY DEF IInv, TypeOK
    <2>2. QED
      BY <2>1 DEF Accepted
  <1>3. f \in Frame /\ f.from = c /\ f.n = sends[c]
    BY <1>1 DEF Frame
  <1> HIDE DEF f
  <1> DEFINE l == Line
             m == Line'
  <1>4. /\ l \in Seq(Frame) /\ Len(l) \in Nat /\ Len(m) = Len(l) + 1
        /\ \A i \in 1 .. Len(l) : m[i] = l[i]
        /\ m[Len(l) + 1] = f
    BY <1>3, UnwrittenFacts, AppendProperties, LenProperties DEF f
  <1>5. \A i \in 1 .. Len(l) : /\ l[i].from \in Callers /\ l[i].n \in Nat
                              /\ l[i].n <= Accepted[l[i].from]
    <2>1. ASSUME NEW i \in 1 .. Len(l) PROVE l[i] \in Frame
      BY <1>4, ElementOfSeq
    <2>2. \A i \in 1 .. Len(l) : l[i].n <= Accepted[l[i].from]
      BY DEF OrderInv
    <2>3. QED
      BY <2>1, <2>2 DEF Frame
  <1>6. \A i \in 1 .. Len(l) :
          /\ aired[l[i].from] < l[i].n
          /\ \A j \in i + 1 .. Len(l) : l[i].from = l[j].from => l[i].n < l[j].n
    BY DEF OrderInv, Ordered
  <1> HIDE DEF l, m
  <1>7. \A i \in 1 .. Len(m) : i \in 1 .. Len(l) \/ i = Len(l) + 1
    BY <1>4
  <1>8. ASSUME NEW i \in 1 .. Len(m) PROVE aired'[m[i].from] < m[i].n
    <2>1. CASE i \in 1 .. Len(l)
      BY <1>4, <1>6, <2>1
    <2>2. CASE i = Len(l) + 1
      <3>1. aired[c] < sends[c]
        BY <1>1, <1>2
      <3>2. QED
        BY <1>3, <1>4, <2>2, <3>1
    <2>3. QED
      BY <1>7, <2>1, <2>2
  <1>9. ASSUME NEW i \in 1 .. Len(m), NEW j \in i + 1 .. Len(m), m[i].from = m[j].from
        PROVE  m[i].n < m[j].n
    <2>1. i \in 1 .. Len(l) /\ m[i] = l[i]
      BY <1>4
    <2>2. CASE j \in i + 1 .. Len(l)
      <3>1. m[j] = l[j]
        BY <1>4, <2>1, <2>2
      <3>2. QED
        BY <1>6, <1>9, <2>1, <2>2, <3>1
    <2>3. CASE j = Len(l) + 1
      <3>1. m[j] = f /\ l[i].from = c
        BY <1>3, <1>4, <1>9, <2>1, <2>3
      <3>2. l[i].n \in Nat /\ l[i].n <= sends[c] - 1
        BY <1>2, <1>5, <2>1, <3>1
      <3>3. QED
        BY <1>1, <1>3, <2>1, <3>1, <3>2
    <2>4. QED
      BY <1>4, <2>1, <2>2, <2>3
  <1>10. ASSUME NEW i \in 1 .. Len(m) PROVE m[i].n <= Accepted'[m[i].from]
    <2>1. CASE i \in 1 .. Len(l)
      <3>1. m[i] = l[i] /\ l[i].from \in Callers /\ l[i].n \in Nat /\ l[i].n <= Accepted[l[i].from]
        BY <1>4, <1>5, <2>1
      <3>2. CASE l[i].from = c
        BY <1>1, <1>2, <3>1, <3>2
      <3>3. CASE l[i].from # c
        BY <1>2, <3>1, <3>3
      <3>4. QED
        BY <3>2, <3>3
    <2>2. CASE i = Len(l) + 1
      BY <1>1, <1>2, <1>3, <1>4, <2>2
    <2>3. QED
      BY <1>7, <2>1, <2>2
  <1>11. ASSUME NEW d \in Callers PROVE aired'[d] <= Accepted'[d]
    BY <1>1, <1>2
  <1>12. QED
    BY <1>8, <1>9, <1>10, <1>11 DEF OrderInv, Ordered, m

(* Steps that take a frame out of the line, in front of the bus or where   *)
(* it is given up, keep the order of the others.                           *)
LEMMA ShorterLine ==
  ASSUME IInv, IInv', OrderInv,
         NEW k \in Nat, Line' \in Seq(Frame), Len(Line) = Len(Line') + 1,
         \A i \in 1 .. Len(Line') : Line'[i] = IF i <= k THEN Line[i] ELSE Line[i + 1],
         \/ aired' = aired
         \/ /\ k = 0
            /\ aired' = [aired EXCEPT ![Line[1].from] = Line[1].n],
         UNCHANGED <<at, sends, content, box>>
  PROVE  OrderInv'
  <1> DEFINE l == Line
             m == Line'
             up(i) == IF i <= k THEN i ELSE i + 1
  <1>1. l \in Seq(Frame) /\ Len(l) \in Nat /\ m \in Seq(Frame) /\ Len(m) \in Nat
    BY UnwrittenFacts, LenProperties
  <1>2. Len(l) = Len(m) + 1 /\ \A i \in 1 .. Len(m) : m[i] = l[up(i)]
    OBVIOUS
  <1>3. \A i \in 1 .. Len(l) :
          /\ aired[l[i].from] < l[i].n
          /\ \A j \in i + 1 .. Len(l) : l[i].from = l[j].from => l[i].n < l[j].n
    BY DEF OrderInv, Ordered
  <1>4. \A i \in 1 .. Len(l) : /\ l[i].from \in Callers /\ l[i].n \in Nat
                              /\ l[i].n <= Accepted[l[i].from]
    <2>1. ASSUME NEW i \in 1 .. Len(l) PROVE l[i] \in Frame
      BY <1>1, ElementOfSeq
    <2>2. \A i \in 1 .. Len(l) : l[i].n <= Accepted[l[i].from]
      BY DEF OrderInv
    <2>3. QED
      BY <2>1, <2>2 DEF Frame
  <1>5. \A c \in Callers : Accepted'[c] = Accepted[c] /\ aired[c] <= Accepted[c] /\ aired[c] \in Nat
    BY AcceptedType DEF Accepted, OrderInv, IInv
  <1>6. \/ aired' = aired
        \/ k = 0 /\ aired' = [aired EXCEPT ![l[1].from] = l[1].n]
    OBVIOUS
  <1>7. \A c \in Callers : at'[c] = "putting" => content'[box'[c][1]] = [from |-> c, n |-> sends'[c]]
    BY DEF OrderInv
  <1> HIDE DEF l, m
  <1>8. /\ \A i \in 1 .. Len(m) : up(i) \in 1 .. Len(l)
        /\ \A i \in 1 .. Len(m) : \A j \in i + 1 .. Len(m) : up(j) \in up(i) + 1 .. Len(l)
        /\ k = 0 => \A i \in 1 .. Len(m) : up(i) \in 1 + 1 .. Len(l)
        /\ 1 \in 1 .. Len(l)
    BY <1>1, <1>2
  <1>9. \A i \in 1 .. Len(m) : \A j \in i + 1 .. Len(m) : j \in 1 .. Len(m)
    BY <1>1
  <1> HIDE DEF up
  <1>10. \A c \in Callers :
           /\ aired'[c] <= Accepted[c]
           /\ aired'[c] = aired[c] \/ (k = 0 /\ c = l[1].from /\ aired'[c] = l[1].n)
    <2>1. aired \in [Callers -> Nat] /\ l[1].from \in Callers /\ l[1].n <= Accepted[l[1].from]
      BY <1>4, <1>8 DEF IInv, TypeOK
    <2>2. QED
      BY <1>5, <1>6, <2>1
  <1>11. ASSUME NEW i \in 1 .. Len(m) PROVE aired'[m[i].from] < m[i].n
    <2>1. m[i] = l[up(i)] /\ up(i) \in 1 .. Len(l) /\ m[i].from \in Callers
      BY <1>2, <1>4, <1>8
    <2>2. aired[m[i].from] < m[i].n
      BY <1>3, <2>1
    <2>3. CASE k = 0 /\ m[i].from = l[1].from
      <3>1. l[1].n < m[i].n
        BY <1>3, <1>8, <2>1, <2>3
      <3>2. QED
        BY <1>10, <2>1, <2>2, <3>1
    <2>4. QED
      BY <1>10, <2>1, <2>2, <2>3
  <1>12. ASSUME NEW i \in 1 .. Len(m), NEW j \in i + 1 .. Len(m), m[i].from = m[j].from
         PROVE  m[i].n < m[j].n
    <2>1. m[i] = l[up(i)] /\ m[j] = l[up(j)] /\ up(i) \in 1 .. Len(l) /\ up(j) \in up(i) + 1 .. Len(l)
      BY <1>2, <1>8, <1>9
    <2>2. QED
      BY <1>3, <1>12, <2>1
  <1>13. ASSUME NEW i \in 1 .. Len(m) PROVE m[i].n <= Accepted'[m[i].from]
    BY <1>2, <1>4, <1>5, <1>8
  <1>14. QED
    BY <1>5, <1>7, <1>10, <1>11, <1>12, <1>13 DEF OrderInv, Ordered, m
(* Writing the next frame moves it from the head of the queue to the end   *)
(* of the mailboxes; giving it up takes it out.                            *)
LEMMA WriteOrder ==
  ASSUME IInv, IInv', OrderInv, Write
  PROVE  OrderInv'
  <1> USE DEF callerVars, kernelVars
  <1> DEFINE u == Image(content, Unwritten)
  <1>1. /\ run = "writing"
        /\ UNCHANGED <<free, content, at, box, psq, mailbox, halted, message, aired, sends>>
    BY DEF Write
  <1>2. /\ Unwritten = InTransit /\ u \in Seq(Frame) /\ hw \in Seq(Frame) /\ Line = hw \o u
        /\ content \in [Boxes -> Frame] /\ InTransit \in Seq(Boxes)
    BY <1>1, UnwrittenFacts, TransitSeq DEF Line, IInv
  <1>3. InTransit # <<>> /\ Head(InTransit) = message[1] /\ InTransit' = InTransit
    <2>1. /\ message \in Seq(Boxes) /\ mailbox \in Seq(Boxes) /\ psq \in Seq(Boxes) /\ Len(message) = 1
      BY <1>1 DEF IInv, TypeOK
    <2>2. InTransit = message \o (mailbox \o psq) /\ mailbox \o psq \in Seq(Boxes)
      BY <2>1, ConcatAssociative, ConcatProperties DEF InTransit
    <2>3. InTransit # <<>>
      BY <2>1, <2>2, TailOfConcat
    <2>4. InTransit[1] = message[1]
      <3>1. \A i \in 1 .. Len(message) + Len(mailbox \o psq) :
              InTransit[i] = IF i <= Len(message) THEN message[i]
                             ELSE (mailbox \o psq)[i - Len(message)]
        BY <2>1, <2>2, ConcatProperties
      <3>2. Len(mailbox \o psq) \in Nat /\ 1 \in 1 .. 1 + Len(mailbox \o psq) /\ 1 <= 1
        BY <2>2, LenProperties
      <3>3. QED
        BY <2>1, <3>1, <3>2
    <2>5. QED
      BY <1>1, <1>2, <2>3, <2>4, HeadTailProperties DEF InTransit
  <1>4. u # <<>> /\ Head(u) = content[message[1]] /\ Tail(u) = Image(content, Tail(InTransit))
    BY <1>2, <1>3, ImageTail
  <1>5. Tail(u) \in Seq(Frame)
    BY <1>2, <1>4, HeadTailProperties
  <1>6. run' = "freeing" => Unwritten' = Tail(InTransit)
    <2>1. /\ message \in Seq(Boxes) /\ mailbox \in Seq(Boxes) /\ psq \in Seq(Boxes) /\ Len(message) = 1
      BY <1>1 DEF IInv, TypeOK
    <2>2. InTransit = message \o (mailbox \o psq) /\ mailbox \o psq \in Seq(Boxes)
      BY <2>1, ConcatAssociative, ConcatProperties DEF InTransit
    <2>3. Tail(InTransit) = mailbox \o psq
      BY <2>1, <2>2, TailOfConcat
    <2>4. QED
      BY <1>1, <2>1, <2>3, ConcatEmptySeq DEF Unwritten
  <1>7. \A c \in Callers : Accepted'[c] = Accepted[c] /\ Accepted[c] \in Int
    BY <1>1, AcceptedType DEF Accepted, IInv
  <1>8. \A c \in Callers : at'[c] = "putting" => content'[box'[c][1]] = [from |-> c, n |-> sends'[c]]
    BY <1>1 DEF OrderInv
  <1> HIDE DEF u
  <1>9. CASE EmptyMailbox
    <2>1. hw' = Append(hw, Head(u)) /\ run' = "freeing"
      BY <1>4, <1>9 DEF Write
    <2>2. Line' = Append(hw, Head(u)) \o Tail(u)
      BY <1>1, <1>4, <1>6, <2>1 DEF Line
    <2>3. Line' = Line
      BY <1>2, <1>4, <2>2, MoveHead
    <2>4. QED
      BY <1>1, <1>7, <1>8, <2>3, SameLine
  <1>10. CASE ~EmptyMailbox /\ GiveUp
    <2>1. hw' = hw /\ run' = "freeing"
      BY <1>10 DEF Write
    <2>2. Line' = hw \o Tail(u)
      BY <1>1, <1>4, <1>6, <2>1 DEF Line
    <2> DEFINE k == Len(hw)
    <2>3. /\ Len(u) \in Nat \ {0} /\ Len(Tail(u)) = Len(u) - 1 /\ k \in Nat
          /\ \A i \in 1 .. Len(Tail(u)) : Tail(u)[i] = u[i + 1]
      BY <1>2, <1>4, HeadTailProperties, LenProperties, EmptySeq
    <2>4. /\ Line' \in Seq(Frame) /\ Len(Line') = k + Len(Tail(u))
          /\ \A i \in 1 .. k + Len(Tail(u)) : Line'[i] = IF i <= k THEN hw[i] ELSE Tail(u)[i - k]
      BY <1>2, <1>5, <2>2, ConcatProperties
    <2>5. /\ Len(Line) = k + Len(u)
          /\ \A i \in 1 .. k + Len(u) : Line[i] = IF i <= k THEN hw[i] ELSE u[i - k]
      BY <1>2, ConcatProperties
    <2> HIDE DEF k
    <2>6. Len(Line) = Len(Line') + 1
      BY <2>3, <2>4, <2>5
    <2>7. ASSUME NEW i \in 1 .. Len(Line')
          PROVE  Line'[i] = IF i <= k THEN Line[i] ELSE Line[i + 1]
      <3>1. CASE i <= k
        <4>1. i \in 1 .. k + Len(Tail(u)) /\ i \in 1 .. k + Len(u)
          BY <2>3, <2>4, <3>1
        <4>2. QED
          BY <2>4, <2>5, <3>1, <4>1
      <3>2. CASE ~(i <= k)
        <4>1. /\ i \in 1 .. k + Len(Tail(u)) /\ i + 1 \in 1 .. k + Len(u) /\ ~(i + 1 <= k)
              /\ i - k \in 1 .. Len(Tail(u)) /\ (i - k) + 1 = (i + 1) - k
          BY <2>3, <2>4, <3>2
        <4>2. Line'[i] = Tail(u)[i - k] /\ Line[i + 1] = u[(i + 1) - k]
          BY <2>4, <2>5, <3>2, <4>1
        <4>3. Tail(u)[i - k] = u[(i + 1) - k]
          BY <2>3, <4>1
        <4>4. QED
          BY <3>2, <4>2, <4>3
      <3>3. QED
        BY <3>1, <3>2
    <2>8. QED
      BY <1>1, <2>3, <2>4, <2>6, <2>7, ShorterLine
  <1>11. CASE ~EmptyMailbox /\ ~GiveUp
    <2>1. hw' = hw /\ run' = "sleeping"
      BY <1>11 DEF Write
    <2>2. Line' = Line
      BY <1>1, <2>1 DEF Line, Unwritten
    <2>3. QED
      BY <1>1, <1>7, <1>8, <2>2, SameLine
  <1>12. QED
    BY <1>9, <1>10, <1>11

(* The controller transmits the head of the line. *)
LEMMA TransmitOrder ==
  ASSUME IInv, IInv', OrderInv, Transmit
  PROVE  OrderInv'
  <1> USE DEF callerVars, kernelVars, senderVars
  <1> DEFINE u == Image(content, Unwritten)
  <1>1. /\ hw # <<>> /\ hw' = Tail(hw)
        /\ aired' = [aired EXCEPT ![Head(hw).from] = Head(hw).n]
        /\ UNCHANGED <<at, sends, content, box, message, mailbox, psq, run>>
    BY DEF Transmit, TransmitOldest
  <1>2. u \in Seq(Frame) /\ hw \in Seq(Frame) /\ Line = hw \o u
    BY UnwrittenFacts DEF Line
  <1>3. Line' = hw' \o u
    BY <1>1 DEF Line, Unwritten
  <1> HIDE DEF u
  <1>4. /\ hw' \in Seq(Frame) /\ Len(hw') = Len(hw) - 1 /\ Len(hw) \in Nat \ {0} /\ Len(u) \in Nat
        /\ \A i \in 1 .. Len(hw') : hw'[i] = hw[i + 1]
        /\ Head(hw) = hw[1]
    BY <1>1, <1>2, HeadTailProperties, LenProperties, EmptySeq
  <1>5. /\ Line' \in Seq(Frame) /\ Len(Line') = Len(hw') + Len(u)
        /\ \A i \in 1 .. Len(hw') + Len(u) :
             Line'[i] = IF i <= Len(hw') THEN hw'[i] ELSE u[i - Len(hw')]
    BY <1>2, <1>3, <1>4, ConcatProperties
  <1>6. /\ Len(Line) = Len(hw) + Len(u)
        /\ \A i \in 1 .. Len(hw) + Len(u) : Line[i] = IF i <= Len(hw) THEN hw[i] ELSE u[i - Len(hw)]
    BY <1>2, ConcatProperties
  <1>7. Len(Line) = Len(Line') + 1
    BY <1>4, <1>5, <1>6
  <1>8. ASSUME NEW i \in 1 .. Len(Line')
        PROVE  Line'[i] = IF i <= 0 THEN Line[i] ELSE Line[i + 1]
    <2>1. ~(i <= 0) /\ i \in 1 .. Len(hw') + Len(u) /\ i + 1 \in 1 .. Len(hw) + Len(u)
      BY <1>4, <1>5
    <2>2. CASE i <= Len(hw')
      <3>1. i \in 1 .. Len(hw') /\ i + 1 <= Len(hw)
        BY <1>4, <1>5, <2>1, <2>2
      <3>2. QED
        BY <1>4, <1>5, <1>6, <2>1, <2>2, <3>1
    <2>3. CASE ~(i <= Len(hw'))
      <3>1. ~(i + 1 <= Len(hw)) /\ i - Len(hw') = (i + 1) - Len(hw)
        BY <1>4, <1>5, <2>1, <2>3
      <3>2. Line'[i] = u[i - Len(hw')] /\ Line[i + 1] = u[(i + 1) - Len(hw)]
        BY <1>5, <1>6, <2>1, <2>3, <3>1
      <3>3. QED
        BY <2>1, <3>1, <3>2
    <2>4. QED
      BY <2>2, <2>3
  <1>9. Line[1] = Head(hw)
    <2>1. 1 \in 1 .. Len(hw) + Len(u) /\ 1 <= Len(hw)
      BY <1>4
    <2>2. QED
      BY <1>4, <1>6, <2>1
  <1>10. aired' = [aired EXCEPT ![Line[1].from] = Line[1].n] /\ 0 \in Nat
    BY <1>1, <1>9
  <1> HIDE DEF Line
  <1>11. QED
    BY <1>1, <1>5, <1>7, <1>8, <1>10, ShorterLine
(* Of a caller's steps only put() changes the line.                        *)
LEMMA CallersOrder ==
  ASSUME IInv, IInv', OrderInv, NEW c \in Callers, SendCanFrame(c)
  PROVE  OrderInv'
  <1> USE DEF callerVars, kernelVars, senderVars, busVars
  <1>1. /\ \A d \in Callers : Accepted[d] \in Int /\ Accepted'[d] \in Int
        /\ \A d \in Callers :
             Accepted[d] = IF at[d] \in {"filling", "putting"} THEN sends[d] - 1 ELSE sends[d]
        /\ \A d \in Callers :
             Accepted'[d] = IF at'[d] \in {"filling", "putting"} THEN sends'[d] - 1 ELSE sends'[d]
        /\ at \in [Callers -> {"out", "filling", "putting", "dropping"}]
        /\ sends \in [Callers -> Nat]
    BY AcceptedType, AcceptedTypeLater DEF Accepted, IInv, TypeOK
  <1>2. CASE Alloc(c)
    <2>1. /\ at[c] = "out" /\ sends' = [sends EXCEPT ![c] = @ + 1]
          /\ UNCHANGED <<content, psq, mailbox, run, message, hw, aired>>
      BY <1>2 DEF Alloc
    <2>2. \E p \in {"dropping", "filling"} : at' = [at EXCEPT ![c] = p]
      BY <1>2 DEF Alloc
    <2>3. \A d \in Callers : Accepted'[d] >= Accepted[d]
      BY <1>1, <2>1, <2>2
    <2>4. ASSUME NEW d \in Callers, at'[d] = "putting"
          PROVE  content'[box'[d][1]] = [from |-> d, n |-> sends'[d]]
      <3>1. d # c /\ at[d] = "putting" /\ sends'[d] = sends[d]
        BY <1>1, <2>1, <2>2, <2>4
      <3>2. box'[d] = box[d]
        BY <1>2, <3>1 DEF Alloc, TakeBox, IInv, TypeOK
      <3>3. QED
        BY <2>1, <3>1, <3>2 DEF OrderInv
    <2>5. Line' = Line
      BY <2>1 DEF Line, Unwritten
    <2>6. QED
      BY <2>1, <2>3, <2>4, <2>5, SameLine
  <1>3. CASE CountDrop(c)
    <2>1. /\ at[c] = "dropping" /\ at' = [at EXCEPT ![c] = "out"]
          /\ UNCHANGED <<content, box, psq, mailbox, run, message, hw, aired, sends>>
      BY <1>3 DEF CountDrop
    <2>2. \A d \in Callers : Accepted'[d] >= Accepted[d]
      BY <1>1, <2>1
    <2>3. \A d \in Callers : at'[d] = "putting" => at[d] = "putting"
      BY <1>1, <2>1
    <2>4. Line' = Line
      BY <2>1 DEF Line, Unwritten
    <2>5. QED
      BY <2>1, <2>2, <2>3, <2>4, SameLine DEF OrderInv
  <1>4. CASE Fill(c)
    <2>1. /\ at[c] = "filling" /\ at' = [at EXCEPT ![c] = "putting"]
          /\ content' = [content EXCEPT ![box[c][1]] = [from |-> c, n |-> sends[c]]]
          /\ UNCHANGED <<box, psq, mailbox, run, message, hw, aired, sends>>
      BY <1>4 DEF Fill
    <2>2. \A d \in Callers : Accepted'[d] >= Accepted[d]
      BY <1>1, <2>1
    <2>3. PICK b \in Boxes : box[c] = <<b>> /\ box[c][1] = b
      BY <2>1 DEF IInv, HoldInv
    <2>4. ASSUME NEW d \in Callers, at'[d] = "putting"
          PROVE  content'[box'[d][1]] = [from |-> d, n |-> sends'[d]]
      <3>1. CASE d = c
        BY <2>1, <2>3, <3>1 DEF IInv, TypeOK
      <3>2. CASE d # c
        <4>1. at[d] = "putting"
          BY <1>1, <2>1, <2>4, <3>2
        <4>2. PICK e \in Boxes : box[d] = <<e>> /\ box[d][1] = e
          BY <4>1 DEF IInv, HoldInv
        <4>3. e # b
          BY <2>3, <3>2, <4>2 DEF IInv, PlacesInv
        <4>4. content[box[d][1]] = [from |-> d, n |-> sends[d]]
          BY <4>1 DEF OrderInv
        <4>5. QED
          BY <2>1, <2>3, <4>2, <4>3, <4>4 DEF IInv, TypeOK
      <3>3. QED
        BY <3>1, <3>2
    <2>5. Line' = Line
      <3>1. \A d \in Elements(Unwritten) : content'[d] = content[d]
        BY <1>4, FillKeeps, UnwrittenFacts
      <3>2. Image(content', Unwritten) = Image(content, Unwritten)
        BY <3>1, ImageSame
      <3>3. Unwritten' = Unwritten
        BY <2>1 DEF Unwritten
      <3>4. QED
        BY <2>1, <3>2, <3>3 DEF Line
    <2>6. QED
      BY <2>1, <2>2, <2>4, <2>5, SameLine
  <1>5. CASE Put(c)
    <2>1. /\ at[c] = "putting" /\ at' = [at EXCEPT ![c] = "out"] /\ box' = [box EXCEPT ![c] = <<>>]
          /\ UNCHANGED <<content, hw, aired, sends>>
      BY <1>5 DEF Put
    <2>2. PICK b \in Boxes : box[c] = <<b>> /\ InTransit' = Append(InTransit, b)
      BY <1>5, PutKeeps
    <2>3. content[b] = [from |-> c, n |-> sends[c]]
      BY <2>1, <2>2 DEF OrderInv
    <2>4. Unwritten' = Append(Unwritten, b)
      <3>1. run = "freeing" => message' = message
        BY <1>5 DEF Put, Deliver
      <3>2. run' = run \/ (run = "waiting" /\ run' = "writing")
        BY <1>5 DEF Put, Deliver
      <3>3. CASE run # "freeing"
        <4>1. run' # "freeing"
          BY <3>2, <3>3
        <4>2. Unwritten = InTransit /\ Unwritten' = InTransit'
          BY <3>3, <4>1 DEF Unwritten, InTransit
        <4>3. QED
          BY <2>2, <4>2
      <3>4. CASE run = "freeing"
        <4>1. /\ run' = "freeing" /\ Unwritten = Tail(InTransit) /\ InTransit # <<>>
              /\ InTransit \in Seq(Boxes)
          BY <3>2, <3>4, UnwrittenFacts, TransitSeq DEF IInv
        <4>2. Unwritten' = Tail(InTransit')
          <5>1. message' \in Seq(Boxes) /\ mailbox' \in Seq(Boxes) /\ psq' \in Seq(Boxes)
                /\ Len(message') = 1
            BY <4>1 DEF IInv, TypeOK
          <5>2. /\ InTransit' = message' \o (mailbox' \o psq') /\ mailbox' \o psq' \in Seq(Boxes)
                /\ <<>> \o mailbox' = mailbox'
            BY <5>1, ConcatAssociative, ConcatProperties, ConcatEmptySeq DEF InTransit
          <5>3. Tail(InTransit') = mailbox' \o psq'
            BY <5>1, <5>2, TailOfConcat
          <5>4. QED
            BY <4>1, <5>2, <5>3 DEF Unwritten
        <4>3. Tail(Append(InTransit, b)) = Append(Tail(InTransit), b)
          BY <4>1, TailOfAppend
        <4>4. QED
          BY <2>2, <4>1, <4>2, <4>3
      <3>5. QED
        BY <3>3, <3>4
    <2>5. Line' = Append(Line, [from |-> c, n |-> sends[c]])
      <3>1. Image(content, Append(Unwritten, b)) = Append(Image(content, Unwritten), content[b])
        BY UnwrittenFacts, ImageAppend
      <3>2. content[b] \in Frame
        BY UnwrittenFacts
      <3>3. hw \o Append(Image(content, Unwritten), content[b])
              = Append(hw \o Image(content, Unwritten), content[b])
        BY <3>2, UnwrittenFacts, AppendToConcat
      <3>4. QED
        BY <2>1, <2>3, <2>4, <3>1, <3>3 DEF Line
    <2>6. ASSUME NEW d \in Callers, at'[d] = "putting"
          PROVE  content'[box'[d][1]] = [from |-> d, n |-> sends[d]]
      <3>1. d # c /\ at[d] = "putting" /\ box'[d] = box[d]
        BY <1>1, <2>1, <2>6 DEF IInv, TypeOK
      <3>2. QED
        BY <2>1, <3>1 DEF OrderInv
    <2>7. QED
      BY <2>1, <2>5, <2>6, LongerLine
  <1>6. QED
    BY <1>2, <1>3, <1>4, <1>5 DEF SendCanFrame

(* The other steps leave the line alone. *)
LEMMA OthersOrder ==
  ASSUME IInv, IInv', OrderInv,
         Isrs \/ PopRequest \/ Get \/ Wake \/ Free \/ UNCHANGED vars
  PROVE  OrderInv'
  <1> USE DEF callerVars, kernelVars, senderVars, busVars
  <1>1. UNCHANGED <<content, at, box, sends, hw, aired>>
    BY DEF Isrs, EnterIsr, LeaveIsr, PopRequest, Get, Wake, Free, vars
  <1>2. Unwritten' = Unwritten
    <2>1. CASE Free
      <3>1. InTransit' = Tail(InTransit) /\ run = "freeing" /\ run' = "idle"
        BY <2>1, FreeKeeps DEF Free
      <3>2. Unwritten = Tail(InTransit) /\ Unwritten' = InTransit'
        BY <3>1, UnwrittenFacts DEF Unwritten, InTransit
      <3>3. QED
        BY <3>1, <3>2
    <2>2. CASE PopRequest
      <3>1. /\ run' = run \/ (run = "waiting" /\ run' = "writing")
            /\ run = "freeing" => message' = message
        BY <2>2 DEF PopRequest, Deliver
      <3>2. InTransit' = InTransit
        BY <2>2, PopRequestKeeps
      <3>3. CASE run # "freeing"
        BY <3>1, <3>2, <3>3 DEF Unwritten, InTransit
      <3>4. CASE run = "freeing"
        <4>1. /\ message' = message /\ run' = "freeing" /\ mailbox' = Append(mailbox, Head(psq))
              /\ psq' = Tail(psq) /\ psq # <<>>
          <5>1. Deliver(Head(psq)) /\ psq' = Tail(psq) /\ psq # <<>> /\ halted' = FALSE
            BY <2>2 DEF PopRequest, IInv
          <5>2. QED
            BY <3>1, <3>4, <5>1 DEF Deliver
        <4>2. /\ mailbox \in Seq(Boxes) /\ psq \in Seq(Boxes) /\ mailbox' \in Seq(Boxes)
          BY DEF IInv, TypeOK
        <4>3. Append(mailbox, Head(psq)) \o Tail(psq) = mailbox \o psq
          BY <4>1, <4>2, MoveHead
        <4>4. <<>> \o mailbox = mailbox /\ <<>> \o mailbox' = mailbox'
          BY <4>2, ConcatEmptySeq
        <4>5. QED
          BY <3>4, <4>1, <4>3, <4>4 DEF Unwritten
      <3>5. QED
        BY <3>3, <3>4
    <2>3. CASE Get \/ Wake
      <3>1. InTransit' = InTransit /\ run # "freeing" /\ run' # "freeing"
        BY <2>3, GetKeeps, WakeKeeps DEF Get, Wake
      <3>2. QED
        BY <3>1 DEF Unwritten, InTransit
    <2>4. CASE Isrs \/ UNCHANGED vars
      BY <2>4 DEF Isrs, EnterIsr, LeaveIsr, vars, Unwritten
    <2>5. QED
      BY <2>1, <2>2, <2>3, <2>4
  <1>3. Line' = Line
    BY <1>1, <1>2 DEF Line
  <1>4. \A c \in Callers : Accepted'[c] = Accepted[c] /\ Accepted[c] \in Int
    BY <1>1, AcceptedType DEF Accepted, IInv
  <1>5. QED
    BY <1>1, <1>3, <1>4, SameLine DEF OrderInv

(* A caller's frames reach the bus in the order of its calls, for every    *)
(* number of callers and every size of pool, queue and mailboxes.          *)
THEOREM OrderIsKept == Spec => []OrderKept
  <1>1. Init => OrderInv
    <2> SUFFICES ASSUME Init PROVE OrderInv
      OBVIOUS
    <2>1. hw = <<>> /\ Unwritten = <<>>
      BY DEF Init, Unwritten
    <2>2. Line = <<>>
      BY <2>1 DEF Line, Image
    <2>3. \A c \in Callers : aired[c] = 0 /\ Accepted[c] = 0 /\ at[c] = "out"
      BY DEF Init, Accepted
    <2>4. Len(<<>>) = 0 /\ 1 .. 0 = {}
      OBVIOUS
    <2>5. QED
      BY <2>2, <2>3, <2>4 DEF OrderInv, Ordered
  <1>2. OrderInv => OrderKept
    BY DEF OrderInv, Ordered, OrderKept, Line, Unwritten, Image, Carried
  <1>3. IInv /\ IInv' /\ OrderInv /\ [Next]_vars => OrderInv'
    BY WriteOrder, TransmitOrder, CallersOrder, OthersOrder DEF Next, SendFunc
  <1>4. QED
    BY <1>1, <1>2, <1>3, Invariance, PTL DEF Spec, Safe
=============================================================================
