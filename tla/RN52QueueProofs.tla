--------------------------- MODULE RN52QueueProofs ---------------------------
(***************************************************************************)
(* Proofs about RN52Queue for every set of handlers and threads, every     *)
(* priority assignment and every Limit <= Capacity.                        *)
(***************************************************************************)
EXTENDS RN52Queue, RtxLemmas, FiniteSetTheorems, TLAPS

(* A handler that holds a reservation is active and its next post is the   *)
(* command it reserved for; every active handler is in raised.             *)
HandlersInv ==
  /\ \A k \in 1 .. Len(active) : active[k] \in raised
  /\ \A p \in posting \cap Isrs :
       /\ \E k \in 1 .. Len(active) : active[k] = p
       /\ todo[p] # <<>> /\ Head(todo[p]) = "command"

(* A thread waits only on an empty mailbox. *)
WaitingInv == run = "waiting" => rtosQueue = <<>>

(* The strengthening that makes the count argument inductive.              *)
CountInv == CountIsExact /\ queued <= Limit /\ halted # "mailbox"

IInv == TypeOK /\ HandlersInv /\ WaitingInv /\ CountInv

LEMMA PostingFinite ==
  ASSUME TypeOK
  PROVE  IsFiniteSet(posting) /\ Cardinality(posting) \in Nat
  <1>1. IsFiniteSet(Posters)
    BY PostersAssumption, FS_Union DEF Posters
  <1>2. QED
    BY <1>1, FS_Subset, FS_CardinalityType DEF TypeOK

LEMMA InitIInv == Init => IInv
  <1> SUFFICES ASSUME Init PROVE IInv
    OBVIOUS
  <1>1. TypeOK
    BY DEF Init, TypeOK
  <1>2. HandlersInv /\ WaitingInv
    BY DEF Init, HandlersInv, WaitingInv
  <1>3. CountInv
    BY FS_EmptySet, SizesAssumption DEF Init, CountInv, CountIsExact
  <1>4. QED
    BY <1>1, <1>2, <1>3 DEF IInv

(* Handing a command over adds it to what is under way, and overflows      *)
(* nothing when the mailbox has room.                                      *)
LEMMA DeliverAdds ==
  ASSUME TypeOK, WaitingInv, NEW c \in Command, Deliver(c),
         Len(rtosQueue) < Capacity
  PROVE  /\ rtosQueue' \in Seq(Command) /\ evt' \in Seq(Command)
         /\ run' \in {"idle", "waiting", "got", "busy"}
         /\ Len(evt') = IF run' = "got" THEN 1 ELSE 0
         /\ Len(evt') + Len(rtosQueue') = Len(evt) + Len(rtosQueue) + 1
         /\ halted' = halted
         /\ run' = "waiting" => rtosQueue' = <<>>
  <1>1. CASE run = "waiting"
    <2>1. evt = <<>> /\ rtosQueue = <<>>
      BY <1>1 DEF TypeOK, WaitingInv
    <2>2. run' = "got" /\ evt' = <<c>> /\ rtosQueue' = rtosQueue /\ halted' = halted
      BY <1>1 DEF Deliver
    <2>3. QED
      BY <2>1, <2>2
  <1>2. CASE run # "waiting"
    <2>1. /\ rtosQueue' = Append(rtosQueue, c)
          /\ run' = run /\ evt' = evt /\ halted' = halted
      BY <1>2 DEF Deliver, StoreOnly
    <2>2. rtosQueue' \in Seq(Command) /\ Len(rtosQueue') = Len(rtosQueue) + 1
      BY <2>1, AppendProperties DEF TypeOK
    <2>3. /\ evt \in Seq(Command) /\ run \in {"idle", "waiting", "got", "busy"}
          /\ Len(evt) = IF run = "got" THEN 1 ELSE 0
          /\ Len(rtosQueue) \in Nat
      BY LenProperties DEF TypeOK
    <2>4. QED
      BY <1>2, <2>1, <2>2, <2>3
  <1>3. QED
    BY <1>1, <1>2

-----------------------------------------------------------------------------
(* One lemma per action: each keeps the invariant.                         *)

LEMMA EnterKeeps ==
  ASSUME IInv, NEW i \in Isrs, Enter(i)
  PROVE  IInv'
  <1> USE DEF IInv
  <1>1. PICK s \in Script[i] : todo' = [todo EXCEPT ![i] = s]
    BY DEF Enter
  <1>2. s \in Seq({"command", "other"})
    BY PostersAssumption
  <1>3. active' = Append(active, i) /\ active \in Seq(Isrs)
    BY DEF Enter, TypeOK
  <1>4. /\ active' \in Seq(Isrs) /\ Len(active') = Len(active) + 1
        /\ \A k \in 1 .. Len(active) : active'[k] = active[k]
        /\ active'[Len(active) + 1] = i
        /\ Len(active) \in Nat
    BY <1>3, AppendProperties, LenProperties
  <1>5. TypeOK'
    BY <1>1, <1>2, <1>4 DEF TypeOK, Enter, runVars
  <1>6. HandlersInv'
    <2>1. i \notin posting
      BY DEF HandlersInv, Enter
    <2>2. \A k \in 1 .. Len(active') : active'[k] \in raised'
      BY <1>4 DEF HandlersInv, Enter
    <2>3. ASSUME NEW p \in posting' \cap Isrs
          PROVE  /\ \E k \in 1 .. Len(active') : active'[k] = p
                 /\ todo'[p] # <<>> /\ Head(todo'[p]) = "command"
      <3>1. p \in posting \cap Isrs /\ p # i
        BY <2>1 DEF Enter
      <3>2. PICK k \in 1 .. Len(active) : active[k] = p
        BY <3>1 DEF HandlersInv
      <3>3. k \in 1 .. Len(active') /\ active'[k] = p
        BY <3>2, <1>4
      <3>4. todo'[p] = todo[p]
        BY <3>1, <1>1 DEF TypeOK
      <3>5. QED
        BY <3>1, <3>3, <3>4 DEF HandlersInv
    <2>4. QED
      BY <2>2, <2>3 DEF HandlersInv
  <1>7. WaitingInv' /\ CountInv'
    BY DEF WaitingInv, CountInv, CountIsExact, Enter, runVars
  <1>8. QED
    BY <1>5, <1>6, <1>7

LEMMA LeaveKeeps ==
  ASSUME IInv, NEW i \in Isrs, Leave(i)
  PROVE  IInv'
  <1> USE DEF IInv
  <1>1. /\ active \in Seq(Isrs) /\ Len(active) \in Nat \ {0}
        /\ active[Len(active)] = i /\ todo[i] = <<>>
        /\ active' = SubSeq(active, 1, Len(active) - 1)
    BY LenProperties, EmptySeq DEF Leave, Running, TypeOK
  <1>2. /\ active' \in Seq(Isrs) /\ Len(active') = Len(active) - 1
        /\ \A k \in 1 .. Len(active) - 1 : active'[k] = active[k]
    BY <1>1, FrontProperties
  <1>3. raised' = raised \/ (raised' = {} /\ active' = <<>>)
    BY DEF Leave
  <1>4. TypeOK'
    BY <1>2, <1>3 DEF TypeOK, Leave, runVars
  <1>5. HandlersInv'
    <2>1. ASSUME NEW k \in 1 .. Len(active')
          PROVE  active'[k] \in raised'
      <3>1. k \in 1 .. Len(active) - 1 /\ active' # <<>>
        BY <1>2, EmptySeq
      <3>2. k \in 1 .. Len(active) /\ active'[k] = active[k]
        BY <3>1, <1>1, <1>2
      <3>3. active[k] \in raised
        BY <3>2 DEF HandlersInv
      <3>4. QED
        BY <3>1, <3>2, <3>3, <1>3
    <2>2. ASSUME NEW p \in posting' \cap Isrs
          PROVE  /\ \E k \in 1 .. Len(active') : active'[k] = p
                 /\ todo'[p] # <<>> /\ Head(todo'[p]) = "command"
      <3>1. p \in posting \cap Isrs /\ todo' = todo
        BY DEF Leave
      <3>2. PICK k \in 1 .. Len(active) : active[k] = p
        BY <3>1 DEF HandlersInv
      <3>3. p # i /\ todo[p] # <<>> /\ Head(todo[p]) = "command"
        BY <3>1, <1>1 DEF HandlersInv
      <3>4. k \in 1 .. Len(active') /\ active'[k] = p
        BY <3>2, <3>3, <1>1, <1>2
      <3>5. QED
        BY <3>1, <3>3, <3>4
    <2>3. QED
      BY <2>1, <2>2 DEF HandlersInv
  <1>6. WaitingInv' /\ CountInv'
    BY DEF WaitingInv, CountInv, CountIsExact, Leave, runVars
  <1>7. QED
    BY <1>4, <1>5, <1>6

LEMMA PostOtherKeeps ==
  ASSUME IInv, NEW i \in Isrs, PostOther(i)
  PROVE  IInv'
  <1> USE DEF IInv
  <1>1. /\ todo[i] \in Seq({"command", "other"}) /\ todo[i] # <<>>
        /\ Head(todo[i]) = "other"
        /\ todo' = [todo EXCEPT ![i] = Tail(todo[i])]
    BY DEF PostOther, TypeOK
  <1>2. Tail(todo[i]) \in Seq({"command", "other"})
    BY <1>1, HeadTailProperties
  <1>3. psqOther' \in Nat /\ halted' \in {"no", "fifo"}
    BY DEF PostOther, TypeOK, Running
  <1>4. TypeOK'
    BY <1>1, <1>2, <1>3 DEF TypeOK, PostOther, runVars
  <1>5. HandlersInv'
    <2>1. i \notin posting
      BY <1>1 DEF HandlersInv
    <2>2. \A p \in posting : p \in Isrs => todo'[p] = todo[p]
      BY <2>1, <1>1 DEF TypeOK
    <2>3. QED
      BY <2>2 DEF HandlersInv, PostOther
  <1>6. WaitingInv' /\ CountInv'
    BY <1>3 DEF WaitingInv, CountInv, CountIsExact, PostOther, runVars
  <1>7. QED
    BY <1>4, <1>5, <1>6

LEMMA ReserveKeeps ==
  ASSUME IInv, NEW p \in Posters, Reserve(p)
  PROVE  IInv'
  <1> USE DEF IInv
  <1>1. /\ p \notin posting
        /\ p \in Isrs => /\ todo[p] \in Seq({"command", "other"}) /\ todo[p] # <<>>
                         /\ Head(todo[p]) = "command"
                         /\ active # <<>> /\ active[Len(active)] = p
    BY DEF Reserve, WantsToPost, Running, TypeOK
  <1>2. p \in Isrs => \E k \in 1 .. Len(active) : active[k] = p
    BY <1>1, LenProperties, EmptySeq DEF TypeOK
  <1>3. CASE Room
    <2>1. queued' = queued + 1 /\ posting' = posting \cup {p} /\ todo' = todo
      BY <1>3 DEF Reserve
    <2>2. TypeOK'
      BY <2>1 DEF TypeOK, Reserve, runVars
    <2>3. HandlersInv'
      BY <1>1, <1>2, <2>1 DEF HandlersInv, Reserve
    <2>4. CountInv'
      <3>1. Cardinality(posting') = Cardinality(posting) + 1
        BY <1>1, <2>1, PostingFinite, FS_AddElement
      <3>2. queued' <= Limit
        BY <1>3, <2>1, SizesAssumption DEF Room, TypeOK
      <3>3. Len(evt) \in Nat /\ Len(rtosQueue) \in Nat /\ Len(psq) \in Nat
        BY LenProperties DEF TypeOK
      <3>4. CountIsExact'
        BY <2>1, <3>1, <3>3, PostingFinite DEF CountInv, CountIsExact, Reserve, runVars
      <3>5. QED
        BY <3>2, <3>4 DEF CountInv, Reserve
    <2>5. WaitingInv'
      BY DEF WaitingInv, Reserve, runVars
    <2>6. QED
      BY <2>2, <2>3, <2>4, <2>5
  <1>4. CASE ~Room
    <2>1. /\ queued' = queued /\ posting' = posting
          /\ \/ todo' = todo
             \/ /\ p \in Isrs
                /\ \E log \in RefusalLog : todo' = [todo EXCEPT ![p] = log \o Tail(todo[p])]
      BY <1>4 DEF Reserve
    <2>2. todo' \in [Isrs -> Seq({"command", "other"})]
      <3>1. CASE todo' = todo
        BY <3>1 DEF TypeOK
      <3>2. ASSUME p \in Isrs, NEW log \in RefusalLog,
                   todo' = [todo EXCEPT ![p] = log \o Tail(todo[p])]
            PROVE  todo' \in [Isrs -> Seq({"command", "other"})]
        <4>1. log \in Seq({"command", "other"})
          <5>1. <<"other">> \in Seq({"command", "other"})
            OBVIOUS
          <5>2. QED
            BY <3>2, <5>1, EmptySeq DEF RefusalLog
        <4>2. Tail(todo[p]) \in Seq({"command", "other"})
          BY <1>1, <3>2, HeadTailProperties
        <4>3. log \o Tail(todo[p]) \in Seq({"command", "other"})
          BY <4>1, <4>2, ConcatProperties
        <4>4. todo \in [Isrs -> Seq({"command", "other"})]
          BY DEF TypeOK
        <4>5. QED
          BY <3>2, <4>3, <4>4, Zenon
      <3>3. QED
        BY <2>1, <3>1, <3>2
    <2>3. TypeOK'
      BY <2>1, <2>2 DEF TypeOK, Reserve, runVars
    <2>4. HandlersInv'
      <3>1. \A q \in posting \cap Isrs : todo'[q] = todo[q]
        BY <1>1, <2>1 DEF TypeOK
      <3>2. QED
        BY <2>1, <3>1 DEF HandlersInv, Reserve
    <2>5. WaitingInv' /\ CountInv'
      BY <2>1 DEF WaitingInv, CountInv, CountIsExact, Reserve, runVars
    <2>6. QED
      BY <2>3, <2>4, <2>5
  <1>5. QED
    BY <1>3, <1>4

(* Whoever holds a reservation has a slot of the mailbox to itself.        *)
LEMMA ReservedRoom ==
  ASSUME IInv, posting # {}
  PROVE  Len(rtosQueue) < Capacity
  <1>1. Cardinality(posting) \in Nat /\ Cardinality(posting) # 0
    BY PostingFinite, FS_EmptySet DEF IInv
  <1>2. Len(evt) \in Nat /\ Len(rtosQueue) \in Nat /\ Len(psq) \in Nat
    BY LenProperties DEF IInv, TypeOK
  <1>3. Len(rtosQueue) < queued /\ queued <= Limit /\ queued \in Nat
    BY <1>1, <1>2 DEF IInv, CountInv, CountIsExact, TypeOK
  <1>4. QED
    BY <1>2, <1>3, SizesAssumption

(* A command in the request FIFO has one too.                              *)
LEMMA RequestRoom ==
  ASSUME IInv, psq # <<>>
  PROVE  Len(rtosQueue) < Capacity
  <1>1. Len(psq) \in Nat /\ Len(psq) # 0
    BY LenProperties, EmptySeq DEF IInv, TypeOK
  <1>2. Len(evt) \in Nat /\ Len(rtosQueue) \in Nat /\ Cardinality(posting) \in Nat
    BY LenProperties, PostingFinite DEF IInv, TypeOK
  <1>3. Len(rtosQueue) < queued /\ queued <= Limit /\ queued \in Nat
    BY <1>1, <1>2 DEF IInv, CountInv, CountIsExact, TypeOK
  <1>4. QED
    BY <1>2, <1>3, SizesAssumption

LEMMA PutKeeps ==
  ASSUME IInv, NEW p \in Posters, Put(p)
  PROVE  IInv'
  <1> USE DEF IInv
  <1> DEFINE c == [from |-> p, n |-> posted[p] + 1]
  <1>1. p \in posting /\ Len(rtosQueue) < Capacity /\ Len(rtosQueue) # Capacity
    <2>1. p \in posting /\ Len(rtosQueue) < Capacity
      BY ReservedRoom DEF Put
    <2>2. QED
      BY <2>1, SizesAssumption, LenProperties DEF TypeOK
  <1>2. c \in Command /\ posted[p] \in Nat
    BY DEF Command, TypeOK
  <1> HIDE DEF c
  <1>3. CASE p \in Isrs /\ PsqLength >= FifoSize
    <2>1. /\ halted' = "fifo"
          /\ UNCHANGED <<queued, posting, todo, rtosQueue, psq, run, evt, posted>>
          /\ UNCHANGED <<psqOther, active, raised, fetched>>
      BY <1>1, <1>3 DEF Put
    <2>2. QED
      BY <2>1 DEF TypeOK, HandlersInv, WaitingInv, CountInv, CountIsExact
  <1>4. CASE ~(p \in Isrs /\ PsqLength >= FifoSize)
    <2>1. /\ PutReturns(p)
          /\ posted' = [posted EXCEPT ![p] = posted[p] + 1]
          /\ p \in Isrs => /\ psq' = Append(psq, c)
                           /\ UNCHANGED <<rtosQueue, run, evt, halted>>
          /\ p \notin Isrs => Deliver(c) /\ UNCHANGED psq
          /\ UNCHANGED <<queued, psqOther, active, raised, fetched>>
      BY <1>1, <1>4 DEF Put, c
    <2>2. /\ posting' = posting \ {p}
          /\ Cardinality(posting') = Cardinality(posting) - 1
          /\ Cardinality(posting) \in Nat
      BY <1>1, <2>1, PostingFinite, FS_RemoveElement DEF PutReturns
    <2>3. /\ rtosQueue' \in Seq(Command) /\ psq' \in Seq(Command) /\ evt' \in Seq(Command)
          /\ run' \in {"idle", "waiting", "got", "busy"}
          /\ Len(evt') = IF run' = "got" THEN 1 ELSE 0
          /\ Len(evt') + Len(rtosQueue') + Len(psq') = Len(evt) + Len(rtosQueue) + Len(psq) + 1
          /\ halted' = halted
          /\ run' = "waiting" => rtosQueue' = <<>>
      <3>1. Len(evt) \in Nat /\ Len(rtosQueue) \in Nat /\ Len(psq) \in Nat
        BY LenProperties DEF TypeOK
      <3>2. CASE p \in Isrs
        <4>1. psq' \in Seq(Command) /\ Len(psq') = Len(psq) + 1
          <5>1. psq' = Append(psq, c) /\ psq \in Seq(Command)
            BY <2>1, <3>2, Zenon DEF TypeOK
          <5>2. QED
            BY <1>2, <5>1, AppendProperties
        <4>2. UNCHANGED <<rtosQueue, run, evt, halted>>
          BY <2>1, <3>2
        <4>3. /\ rtosQueue \in Seq(Command) /\ evt \in Seq(Command)
              /\ run \in {"idle", "waiting", "got", "busy"}
              /\ Len(evt) = IF run = "got" THEN 1 ELSE 0
              /\ run = "waiting" => rtosQueue = <<>>
          BY DEF TypeOK, WaitingInv
        <4>4. /\ rtosQueue' = rtosQueue /\ run' = run /\ evt' = evt /\ halted' = halted
              /\ Len(evt') = Len(evt) /\ Len(rtosQueue') = Len(rtosQueue)
          BY <4>2
        <4>5. Len(evt') + Len(rtosQueue') + Len(psq') = Len(evt) + Len(rtosQueue) + Len(psq) + 1
          BY <3>1, <4>1, <4>4
        <4>6. QED
          BY <4>1, <4>3, <4>4, <4>5
      <3>3. CASE p \notin Isrs
        <4>1. Deliver(c) /\ psq' = psq
          BY <2>1, <3>3, Zenon
        <4>2. /\ rtosQueue' \in Seq(Command) /\ evt' \in Seq(Command)
              /\ run' \in {"idle", "waiting", "got", "busy"}
              /\ Len(evt') = IF run' = "got" THEN 1 ELSE 0
              /\ Len(evt') + Len(rtosQueue') = Len(evt) + Len(rtosQueue) + 1
              /\ halted' = halted
              /\ run' = "waiting" => rtosQueue' = <<>>
          BY <1>1, <1>2, <4>1, DeliverAdds
        <4>3. psq \in Seq(Command)
          BY DEF TypeOK
        <4>4. Len(evt') + Len(rtosQueue') + Len(psq') = Len(evt) + Len(rtosQueue) + Len(psq) + 1
          <5>1. Len(evt') \in Nat /\ Len(rtosQueue') \in Nat /\ Len(psq') = Len(psq)
            BY <4>1, <4>2, LenProperties
          <5>2. QED
            BY <3>1, <4>2, <5>1
        <4>5. QED
          BY <4>1, <4>2, <4>3, <4>4
      <3>4. QED
        BY <3>2, <3>3
    <2>4. todo' \in [Isrs -> Seq({"command", "other"})] /\ \A q \in Isrs \ {p} : todo'[q] = todo[q]
      <3>1. CASE p \in Isrs
        <4>1. todo[p] \in Seq({"command", "other"}) /\ todo[p] # <<>>
          BY <1>1, <3>1 DEF HandlersInv, TypeOK
        <4>2. Tail(todo[p]) \in Seq({"command", "other"})
          BY <4>1, HeadTailProperties
        <4>3. /\ todo' = [todo EXCEPT ![p] = Tail(todo[p])]
              /\ todo \in [Isrs -> Seq({"command", "other"})]
          BY <2>1, <3>1 DEF PutReturns, TypeOK
        <4>4. QED
          BY <4>2, <4>3, Zenon
      <3>2. CASE p \notin Isrs
        BY <2>1, <3>2 DEF PutReturns, TypeOK
      <3>3. QED
        BY <3>1, <3>2
    <2>5. TypeOK'
      <3>1. posted' \in [Posters -> Nat]
        BY <1>2, <2>1 DEF TypeOK
      <3>2. /\ queued' \in Nat /\ posting' \subseteq Posters /\ psqOther' \in Nat
            /\ active' \in Seq(Isrs) /\ raised' \subseteq Isrs /\ fetched' \in [Posters -> Nat]
            /\ halted' \in {"no", "mailbox", "fifo"}
        BY <2>1, <2>2, <2>3 DEF TypeOK
      <3>3. QED
        BY <2>3, <2>4, <3>1, <3>2 DEF TypeOK
    <2>6. HandlersInv'
      BY <2>1, <2>2, <2>4 DEF HandlersInv
    <2>7. CountInv'
      <3>1. /\ Len(evt) \in Nat /\ Len(rtosQueue) \in Nat /\ Len(psq) \in Nat
            /\ Len(evt') \in Nat /\ Len(rtosQueue') \in Nat /\ Len(psq') \in Nat
        BY <2>3, LenProperties DEF TypeOK
      <3>2. queued' = queued /\ halted' = halted
        BY <2>1, <2>3
      <3>3. QED
        BY <2>2, <2>3, <3>1, <3>2 DEF CountInv, CountIsExact
    <2>8. WaitingInv'
      BY <2>3 DEF WaitingInv
    <2>9. QED
      BY <2>5, <2>6, <2>7, <2>8
  <1>5. QED
    BY <1>3, <1>4

LEMMA PopRequestKeeps ==
  ASSUME IInv, PopRequest
  PROVE  IInv'
  <1> USE DEF IInv
  <1>1. /\ psq \in Seq(Command) /\ psq # <<>> /\ Deliver(Head(psq)) /\ psq' = Tail(psq)
        /\ active = <<>> /\ raised' \subseteq Isrs
        /\ UNCHANGED <<queued, posting, psqOther, active, todo, fetched, posted>>
    BY DEF PopRequest, PendSVRuns, TypeOK
  <1>2. Head(psq) \in Command /\ psq' \in Seq(Command) /\ Len(psq') = Len(psq) - 1
    BY <1>1, HeadTailProperties
  <1>3. Len(rtosQueue) < Capacity
    BY <1>1, RequestRoom
  <1>4. /\ rtosQueue' \in Seq(Command) /\ evt' \in Seq(Command)
        /\ run' \in {"idle", "waiting", "got", "busy"}
        /\ Len(evt') = IF run' = "got" THEN 1 ELSE 0
        /\ Len(evt') + Len(rtosQueue') = Len(evt) + Len(rtosQueue) + 1
        /\ halted' = halted
        /\ run' = "waiting" => rtosQueue' = <<>>
    BY <1>1, <1>2, <1>3, DeliverAdds
  <1>5. TypeOK'
    BY <1>1, <1>2, <1>4 DEF TypeOK
  <1>6. HandlersInv'
    <2>1. \A k \in 1 .. Len(active) : FALSE
      BY <1>1, EmptySeq
    <2>2. QED
      BY <1>1, <2>1 DEF HandlersInv
  <1>7. CountInv'
    <2>1. /\ Len(evt) \in Nat /\ Len(rtosQueue) \in Nat /\ Len(psq) \in Nat
          /\ Len(evt') \in Nat /\ Len(rtosQueue') \in Nat /\ Len(psq') \in Nat
          /\ Cardinality(posting) \in Nat
      BY <1>2, <1>4, LenProperties, PostingFinite DEF TypeOK
    <2>2. queued' = queued /\ posting' = posting /\ halted' = halted
      BY <1>1, <1>4
    <2>3. CountIsExact'
      <3>1. queued = Len(evt) + Len(rtosQueue) + Len(psq) + Cardinality(posting)
        BY DEF CountInv, CountIsExact
      <3>2. Len(evt') + Len(rtosQueue') + Len(psq') = Len(evt) + Len(rtosQueue) + Len(psq)
        BY <1>2, <1>4, <2>1
      <3>3. QED
        BY <2>1, <2>2, <3>1, <3>2 DEF CountIsExact
    <2>4. QED
      BY <2>2, <2>3 DEF CountInv
  <1>8. WaitingInv'
    BY <1>4 DEF WaitingInv
  <1>9. QED
    BY <1>5, <1>6, <1>7, <1>8

LEMMA PopOtherKeeps ==
  ASSUME IInv, PopOther
  PROVE  IInv'
  <1> USE DEF IInv
  <1>1. /\ active = <<>> /\ psqOther' \in Nat /\ raised' \subseteq Isrs
        /\ UNCHANGED <<queued, posting, rtosQueue, psq, active, todo, run, evt, fetched>>
        /\ UNCHANGED <<posted, halted>>
    BY DEF PopOther, PendSVRuns, TypeOK, runVars
  <1>2. TypeOK'
    BY <1>1 DEF TypeOK
  <1>3. HandlersInv'
    <2>1. \A k \in 1 .. Len(active) : FALSE
      BY <1>1, EmptySeq
    <2>2. QED
      BY <1>1, <2>1 DEF HandlersInv
  <1>4. WaitingInv' /\ CountInv'
    BY <1>1 DEF WaitingInv, CountInv, CountIsExact
  <1>5. QED
    BY <1>2, <1>3, <1>4

LEMMA GetKeeps ==
  ASSUME IInv, Get
  PROVE  IInv'
  <1> USE DEF IInv
  <1>1. /\ run = "idle"
        /\ UNCHANGED <<queued, posting, psq, psqOther, active, todo, raised, fetched>>
        /\ UNCHANGED <<posted, halted>>
    BY DEF Get, isrVars
  <1>2. evt = <<>> /\ Len(evt) = 0 /\ rtosQueue \in Seq(Command)
    BY <1>1, EmptySeq DEF TypeOK
  <1>3. /\ rtosQueue' \in Seq(Command) /\ evt' \in Seq(Command)
        /\ run' \in {"got", "waiting"}
        /\ Len(evt') = IF run' = "got" THEN 1 ELSE 0
        /\ Len(evt') + Len(rtosQueue') = Len(evt) + Len(rtosQueue)
        /\ run' = "waiting" => rtosQueue' = <<>>
    <2>1. CASE rtosQueue # <<>>
      <3>1. run' = "got" /\ evt' = <<Head(rtosQueue)>> /\ rtosQueue' = Tail(rtosQueue)
        BY <2>1 DEF Get, TakeOldest
      <3>2. /\ Head(rtosQueue) \in Command /\ Tail(rtosQueue) \in Seq(Command)
            /\ Len(Tail(rtosQueue)) = Len(rtosQueue) - 1 /\ Len(rtosQueue) \in Nat
        BY <1>2, <2>1, HeadTailProperties, LenProperties
      <3>3. QED
        BY <1>2, <3>1, <3>2
    <2>2. CASE rtosQueue = <<>>
      BY <1>2, <2>2 DEF Get
    <2>3. QED
      BY <2>1, <2>2
  <1>4. TypeOK'
    BY <1>1, <1>3 DEF TypeOK
  <1>5. HandlersInv' /\ WaitingInv'
    BY <1>1, <1>3 DEF HandlersInv, WaitingInv
  <1>6. CountInv'
    <2>1. /\ Len(evt) \in Nat /\ Len(rtosQueue) \in Nat /\ Len(psq) \in Nat
          /\ Len(evt') \in Nat /\ Len(rtosQueue') \in Nat /\ Cardinality(posting) \in Nat
      BY <1>3, LenProperties, PostingFinite DEF TypeOK
    <2>2. QED
      BY <1>1, <1>3, <2>1 DEF CountInv, CountIsExact
  <1>7. QED
    BY <1>4, <1>5, <1>6

LEMMA CountDownKeeps ==
  ASSUME IInv, CountDown
  PROVE  IInv'
  <1> USE DEF IInv
  <1>1. /\ run = "got" /\ run' = "busy" /\ evt' = <<>> /\ queued' = queued - 1
        /\ UNCHANGED <<posting, rtosQueue, psq, psqOther, active, todo, raised>>
        /\ UNCHANGED <<posted, halted>>
    BY DEF CountDown, AdjustDown, isrVars
  <1>2. Len(evt) = 1 /\ evt \in Seq(Command) /\ Len(evt') = 0
    BY <1>1, EmptySeq DEF TypeOK
  <1>3. evt[1] \in Command
    BY <1>2, ElementOfSeq
  <1>4. fetched' \in [Posters -> Nat]
    <2>1. fetched' = [fetched EXCEPT ![evt[1].from] = fetched[evt[1].from] + 1]
      BY DEF CountDown
    <2>2. evt[1].from \in Posters /\ fetched \in [Posters -> Nat]
      BY <1>3 DEF Command, TypeOK
    <2>3. QED
      BY <2>1, <2>2
  <1>5. queued' \in Nat /\ CountInv'
    <2>1. /\ Len(rtosQueue) \in Nat /\ Len(psq) \in Nat /\ Cardinality(posting) \in Nat
      BY LenProperties, PostingFinite DEF TypeOK
    <2>2. queued = 1 + Len(rtosQueue) + Len(psq) + Cardinality(posting)
      BY <1>2 DEF CountInv, CountIsExact
    <2>3. QED
      BY <1>1, <1>2, <2>1, <2>2, SizesAssumption DEF CountInv, CountIsExact
  <1>6. TypeOK'
    BY <1>1, <1>2, <1>4, <1>5, EmptySeq DEF TypeOK
  <1>7. HandlersInv' /\ WaitingInv'
    BY <1>1 DEF HandlersInv, WaitingInv
  <1>8. QED
    BY <1>5, <1>6, <1>7

(* What GetTimeout and Processed do to the invariant: only run moves, to   *)
(* a place where nothing is in the thread's hands.                         *)
LEMMA RunMovesKeeps ==
  ASSUME IInv, GetTimeout \/ Processed
  PROVE  IInv'
  <1>1. /\ run \in {"waiting", "busy"} /\ run' = "idle"
        /\ UNCHANGED <<queued, posting, rtosQueue, psq, psqOther, active, todo, raised>>
        /\ UNCHANGED <<evt, fetched, posted, halted>>
    BY DEF GetTimeout, Processed, isrVars
  <1>2. QED
    BY <1>1 DEF IInv, TypeOK, HandlersInv, WaitingInv, CountInv, CountIsExact

-----------------------------------------------------------------------------
THEOREM InvariantHolds == Safe => []IInv
  <1>1. Init => IInv
    BY InitIInv
  <1>2. IInv /\ [Next]_vars => IInv'
    <2> SUFFICES ASSUME IInv, [Next]_vars PROVE IInv'
      OBVIOUS
    <2>1. ASSUME NEW i \in Isrs, Handler(i) PROVE IInv'
      BY <2>1, EnterKeeps, LeaveKeeps, PostOtherKeeps DEF Handler
    <2>2. ASSUME NEW p \in Posters, QueueCommand(p) PROVE IInv'
      BY <2>2, ReserveKeeps, PutKeeps DEF QueueCommand
    <2>3. CASE PendSV
      BY <2>3, PopRequestKeeps, PopOtherKeeps DEF PendSV
    <2>4. CASE Fetch \/ GetTimeout
      BY <2>4, GetKeeps, CountDownKeeps, RunMovesKeeps DEF Fetch
    <2>5. CASE UNCHANGED vars
      BY <2>5 DEF vars, isrVars, runVars, IInv, TypeOK, HandlersInv, WaitingInv,
                  CountInv, CountIsExact
    <2>6. QED
      BY <2>1, <2>2, <2>3, <2>4, <2>5 DEF Next
  <1>3. QED
    BY <1>1, <1>2, PTL DEF Safe

(* Every variable keeps its type. *)
THEOREM TypeCorrect == Safe => []TypeOK
  <1>1. IInv => TypeOK
    BY DEF IInv
  <1>2. QED
    BY <1>1, InvariantHolds, PTL

(* RN52::queued is exactly the number of commands under way, at every      *)
(* instant and for every pattern of interrupts.                            *)
THEOREM CountExact == Safe => []CountIsExact
  <1>1. IInv => CountIsExact
    BY DEF IInv, CountInv
  <1>2. QED
    BY <1>1, InvariantHolds, PTL

(* The kernel never finds the mailbox full: for every capacity and every   *)
(* limit not above it, os_error(OS_ERR_MBX_OVF) is out of reach.           *)
THEOREM MailboxSafe == Safe => []MailboxNeverOverflows
  <1>1. IInv => MailboxNeverOverflows
    BY DEF IInv, CountInv, MailboxNeverOverflows
  <1>2. QED
    BY <1>1, InvariantHolds, PTL

(* A reserved command always finds room: queueCommand's "put failed"       *)
(* branch is dead code.                                                    *)
THEOREM PutNeverFails == Safe => []ReservationHolds
  <1>1. IInv => ReservationHolds
    BY ReservedRoom DEF ReservationHolds
  <1>2. QED
    BY <1>1, InvariantHolds, PTL

-----------------------------------------------------------------------------
(* Refinement: the queue is a bounded FIFO channel.                        *)

ChanValue == (evt \o rtosQueue) \o psq

LEMMA ChanType ==
  ASSUME IInv
  PROVE  /\ evt \in Seq(Command) /\ rtosQueue \in Seq(Command) /\ psq \in Seq(Command)
         /\ evt \o rtosQueue \in Seq(Command) /\ ChanValue \in Seq(Command)
         /\ Len(ChanValue) = queued - Cardinality(posting)
         /\ Len(ChanValue) \in Nat
  <1>1. evt \in Seq(Command) /\ rtosQueue \in Seq(Command) /\ psq \in Seq(Command)
    BY DEF IInv, TypeOK
  <1>2. /\ evt \o rtosQueue \in Seq(Command)
        /\ Len(evt \o rtosQueue) = Len(evt) + Len(rtosQueue)
    BY <1>1, ConcatProperties
  <1>3. /\ ChanValue \in Seq(Command)
        /\ Len(ChanValue) = Len(evt \o rtosQueue) + Len(psq)
    BY <1>1, <1>2, ConcatProperties DEF ChanValue
  <1>4. Len(evt) \in Nat /\ Len(rtosQueue) \in Nat /\ Len(psq) \in Nat
    BY <1>1, LenProperties
  <1>5. queued = Len(evt) + Len(rtosQueue) + Len(psq) + Cardinality(posting)
    BY DEF IInv, CountInv, CountIsExact
  <1>6. QED
    BY <1>1, <1>2, <1>3, <1>4, <1>5, PostingFinite DEF IInv

(* A command handed over by a thread's put, or moved by PendSV, comes last *)
(* in what evt and the mailbox hold together.                              *)
LEMMA DeliverAppends ==
  ASSUME IInv, NEW c \in Command, Deliver(c), Len(rtosQueue) < Capacity
  PROVE  evt' \o rtosQueue' = Append(evt \o rtosQueue, c)
  <1>1. evt \in Seq(Command) /\ rtosQueue \in Seq(Command)
    BY DEF IInv, TypeOK
  <1>2. CASE run = "waiting"
    <2>1. evt = <<>> /\ rtosQueue = <<>>
      BY <1>2, EmptySeq, LenProperties DEF IInv, TypeOK, WaitingInv
    <2>2. evt' = <<c>> /\ rtosQueue' = <<>>
      BY <1>2, <2>1 DEF Deliver
    <2>3. <<>> \o <<>> = <<>> /\ <<c>> \o <<>> = <<c>> /\ Append(<<>>, c) = <<c>>
      <3>1. <<>> \in Seq(Command) /\ <<c>> \in Seq(Command)
        OBVIOUS
      <3>2. QED
        BY <3>1, ConcatEmptySeq
    <2>4. QED
      BY <2>1, <2>2, <2>3
  <1>3. CASE run # "waiting"
    <2>1. evt' = evt /\ rtosQueue' = Append(rtosQueue, c)
      BY <1>3 DEF Deliver, StoreOnly
    <2>2. QED
      BY <1>1, <2>1, AppendToConcat
  <1>4. QED
    BY <1>2, <1>3

LEMMA PutAccepts ==
  ASSUME IInv, NEW p \in Posters, Put(p)
  PROVE  \/ ChanValue' = ChanValue
         \/ /\ Len(ChanValue) < Limit
            /\ \E c \in Command : ChanValue' = Append(ChanValue, c)
  <1> DEFINE c == [from |-> p, n |-> posted[p] + 1]
  <1>1. p \in posting /\ Len(rtosQueue) < Capacity /\ Len(rtosQueue) # Capacity
    <2>1. p \in posting /\ Len(rtosQueue) < Capacity
      BY ReservedRoom DEF Put
    <2>2. QED
      BY <2>1, SizesAssumption, LenProperties DEF IInv, TypeOK
  <1>2. c \in Command
    BY DEF Command, IInv, TypeOK
  <1>3. Len(ChanValue) < Limit
    <2>1. Cardinality(posting) \in Nat /\ Cardinality(posting) # 0
      BY <1>1, PostingFinite, FS_EmptySet DEF IInv
    <2>2. queued <= Limit /\ queued \in Nat
      BY DEF IInv, CountInv, TypeOK
    <2>3. QED
      BY <2>1, <2>2, ChanType, SizesAssumption
  <1> HIDE DEF c
  <1>4. CASE p \in Isrs /\ PsqLength >= FifoSize
    <2>1. UNCHANGED <<rtosQueue, psq, evt>>
      BY <1>1, <1>4 DEF Put
    <2>2. QED
      BY <2>1 DEF ChanValue
  <1>5. CASE p \in Isrs /\ ~(PsqLength >= FifoSize)
    <2>1. psq' = Append(psq, c) /\ evt' = evt /\ rtosQueue' = rtosQueue
      BY <1>1, <1>5 DEF Put, c
    <2>2. (evt \o rtosQueue) \o Append(psq, c) = Append((evt \o rtosQueue) \o psq, c)
      BY <1>2, ChanType, AppendToConcat
    <2>3. QED
      BY <1>2, <1>3, <2>1, <2>2 DEF ChanValue
  <1>6. CASE p \notin Isrs
    <2>1. Deliver(c) /\ psq' = psq
      BY <1>1, <1>6 DEF Put, c
    <2>2. psq = <<>>
      BY <1>6 DEF Put, Running, PsqEmpty
    <2>3. evt' \o rtosQueue' = Append(evt \o rtosQueue, c)
      BY <1>1, <1>2, <2>1, DeliverAppends
    <2>4. Append(evt \o rtosQueue, c) \in Seq(Command)
      BY <1>2, ChanType, AppendProperties
    <2>5. /\ ChanValue = evt \o rtosQueue
          /\ Append(evt \o rtosQueue, c) \o <<>> = Append(evt \o rtosQueue, c)
      BY <2>2, <2>4, ChanType, ConcatEmptySeq DEF ChanValue
    <2>6. ChanValue' = Append(ChanValue, c)
      BY <2>1, <2>2, <2>3, <2>5 DEF ChanValue
    <2>7. QED
      BY <1>2, <1>3, <2>6
  <1>7. QED
    BY <1>4, <1>5, <1>6

LEMMA PopKeepsChannel ==
  ASSUME IInv, PopRequest
  PROVE  ChanValue' = ChanValue
  <1>1. psq # <<>> /\ Deliver(Head(psq)) /\ psq' = Tail(psq)
    BY DEF PopRequest
  <1>2. Head(psq) \in Command
    BY <1>1, ChanType, HeadTailProperties
  <1>3. evt' \o rtosQueue' = Append(evt \o rtosQueue, Head(psq))
    BY <1>1, <1>2, RequestRoom, DeliverAppends
  <1>4. Append(evt \o rtosQueue, Head(psq)) \o Tail(psq) = (evt \o rtosQueue) \o psq
    BY <1>1, ChanType, MoveHead
  <1>5. QED
    BY <1>1, <1>3, <1>4 DEF ChanValue

LEMMA GetKeepsChannel ==
  ASSUME IInv, Get
  PROVE  ChanValue' = ChanValue
  <1>1. run = "idle" /\ psq' = psq /\ rtosQueue \in Seq(Command)
    BY ChanType DEF Get
  <1>2. evt = <<>>
    BY <1>1, EmptySeq, LenProperties DEF IInv, TypeOK
  <1>3. CASE rtosQueue # <<>>
    <2>1. evt' = <<Head(rtosQueue)>> /\ rtosQueue' = Tail(rtosQueue)
      BY <1>3 DEF Get, TakeOldest
    <2>2. <<Head(rtosQueue)>> \o Tail(rtosQueue) = rtosQueue
      BY <1>1, <1>3, HeadThenTail
    <2>3. <<>> \o rtosQueue = rtosQueue
      BY <1>1, ConcatEmptySeq
    <2>4. QED
      BY <1>1, <1>2, <2>1, <2>2, <2>3 DEF ChanValue
  <1>4. CASE rtosQueue = <<>>
    BY <1>1, <1>4 DEF Get, ChanValue
  <1>5. QED
    BY <1>3, <1>4

LEMMA CountDownRemoves ==
  ASSUME IInv, CountDown
  PROVE  ChanValue # <<>> /\ ChanValue' = Tail(ChanValue)
  <1>1. /\ run = "got" /\ evt' = <<>> /\ rtosQueue' = rtosQueue /\ psq' = psq
    BY DEF CountDown
  <1>2. Len(evt) = 1 /\ evt \in Seq(Command)
    BY <1>1 DEF IInv, TypeOK
  <1> DEFINE rest == rtosQueue \o psq
  <1>3. rest \in Seq(Command) /\ ChanValue = evt \o rest
    <2>1. rest \in Seq(Command)
      BY ChanType, ConcatProperties
    <2>2. (evt \o rtosQueue) \o psq = evt \o (rtosQueue \o psq)
      <3>1. evt \in Seq(Command) /\ rtosQueue \in Seq(Command) /\ psq \in Seq(Command)
        BY <1>2, ChanType
      <3>2. QED
        BY <3>1, ConcatAssociative
    <2>3. QED
      BY <2>1, <2>2 DEF ChanValue
  <1>4. ChanValue' = rest
    <2>1. <<>> \o rtosQueue = rtosQueue
      BY ChanType, ConcatEmptySeq
    <2>2. QED
      BY <1>1, <2>1 DEF ChanValue
  <1> HIDE DEF rest
  <1>5. ChanValue # <<>> /\ Tail(ChanValue) = rest
    BY <1>2, <1>3, TailOfConcat
  <1>6. QED
    BY <1>4, <1>5

(* RN52Queue implements BoundedChannel: for every number of handlers and   *)
(* threads, accepted commands come out once each, in the order they were   *)
(* accepted, and never more than Limit of them are under way.              *)
THEOREM QueueIsChannel == Safe => ImplementsChannel
  <1>1. Init => Channel!Init
    <2>1. <<>> \in Seq(Command)
      OBVIOUS
    <2>2. (<<>> \o <<>>) \o <<>> = <<>>
      BY <2>1, ConcatEmptySeq
    <2>3. QED
      BY <2>2 DEF Init, Channel!Init
  <1>2. IInv /\ [Next]_vars => [Channel!Next]_ChanValue
    <2> SUFFICES ASSUME IInv, [Next]_vars PROVE Channel!Next \/ ChanValue' = ChanValue
      OBVIOUS
    <2>1. ASSUME NEW i \in Isrs, Handler(i) PROVE ChanValue' = ChanValue
      BY <2>1 DEF Handler, Enter, PostOther, Leave, runVars, ChanValue
    <2>2. ASSUME NEW p \in Posters, Reserve(p) PROVE ChanValue' = ChanValue
      BY <2>2 DEF Reserve, runVars, ChanValue
    <2>3. ASSUME NEW p \in Posters, Put(p)
          PROVE  Channel!Next \/ ChanValue' = ChanValue
      <3>1. CASE ChanValue' = ChanValue
        BY <3>1
      <3>2. ASSUME Len(ChanValue) < Limit, NEW c \in Command, ChanValue' = Append(ChanValue, c)
            PROVE  Channel!Next
        <4>1. /\ ChanValue' # <<>>
              /\ ChanValue'[Len(ChanValue')] = c
          BY <3>2, ChanType, AppendProperties
        <4>2. QED
          BY <3>2, <4>1 DEF Channel!Next, Channel!Accept, ChanValue
      <3>3. QED
        BY <2>3, <3>1, <3>2, PutAccepts
    <2>4. CASE PendSV
      <3>1. CASE PopRequest
        BY <3>1, PopKeepsChannel
      <3>2. CASE PopOther
        BY <3>2 DEF PopOther, runVars, ChanValue
      <3>3. QED
        BY <2>4, <3>1, <3>2 DEF PendSV
    <2>5. CASE Fetch
      <3>1. CASE Get
        BY <3>1, GetKeepsChannel
      <3>2. CASE CountDown
        BY <3>2, CountDownRemoves DEF Channel!Next, Channel!Remove, ChanValue
      <3>3. CASE Processed
        BY <3>3 DEF Processed, ChanValue
      <3>4. QED
        BY <2>5, <3>1, <3>2, <3>3 DEF Fetch
    <2>6. CASE GetTimeout \/ UNCHANGED vars
      BY <2>6 DEF GetTimeout, vars, runVars, ChanValue
    <2>7. QED
      BY <2>1, <2>2, <2>3, <2>4, <2>5, <2>6 DEF Next, QueueCommand
  <1>3. QED
    BY <1>1, <1>2, InvariantHolds, PTL DEF Safe, ImplementsChannel, Channel!Spec, ChanValue
-----------------------------------------------------------------------------
(* The posts a source may still make before the FIFO is empty again: those *)
(* its handler has left if it fired, its whole burst if it did not.        *)
Pending(most) == [i \in Isrs |-> IF i \in raised THEN Len(todo[i]) ELSE most[i]]

(* What is in the FIFO and what may still come fit it together.            *)
FifoInv(most) ==
  /\ \A i \in raised : Len(todo[i]) <= most[i]
  /\ Cardinality(BurstSlots(Pending(most))) + PsqLength <= FifoSize
  /\ halted # "fifo"

LEMMA SlotsFinite ==
  ASSUME NEW n
  PROVE  IsFiniteSet(BurstSlots(n)) /\ Cardinality(BurstSlots(n)) \in Nat
  <1>1. IsFiniteSet(Isrs) /\ IsFiniteSet(1 .. FifoSize)
    BY PostersAssumption, SizesAssumption, FS_Interval
  <1>2. IsFiniteSet(Isrs \X (1 .. FifoSize))
    BY <1>1, FS_Product
  <1>3. BurstSlots(n) \in SUBSET (Isrs \X (1 .. FifoSize))
    BY DEF BurstSlots
  <1>4. QED
    BY <1>2, <1>3, FS_Subset, FS_CardinalityType

LEMMA FewerSlots ==
  ASSUME NEW n \in [Isrs -> 0 .. FifoSize], NEW m \in [Isrs -> 0 .. FifoSize], \A i \in Isrs : n[i] <= m[i]
  PROVE  Cardinality(BurstSlots(n)) <= Cardinality(BurstSlots(m))
  <1>1. ASSUME NEW s \in BurstSlots(n) PROVE s \in BurstSlots(m)
    <2>1. s \in Isrs \X (1 .. FifoSize) /\ s[2] <= n[s[1]] /\ s[1] \in Isrs /\ s[2] \in 1 .. FifoSize
      BY DEF BurstSlots
    <2>2. n[s[1]] \in 0 .. FifoSize /\ m[s[1]] \in 0 .. FifoSize /\ n[s[1]] <= m[s[1]]
      BY <2>1
    <2>3. s[2] <= m[s[1]]
      BY <2>1, <2>2, SizesAssumption
    <2>4. QED
      BY <2>1, <2>3 DEF BurstSlots
  <1>2. BurstSlots(n) \in SUBSET BurstSlots(m)
    BY <1>1
  <1>3. QED
    BY <1>2, SlotsFinite, FS_Subset

(* A post takes one slot. *)
LEMMA OneSlotFewer ==
  ASSUME NEW n \in [Isrs -> 0 .. FifoSize], NEW i \in Isrs, n[i] > 0
  PROVE  Cardinality(BurstSlots(n)) = Cardinality(BurstSlots([n EXCEPT ![i] = n[i] - 1])) + 1
  <1> DEFINE m == [n EXCEPT ![i] = n[i] - 1]
             p == <<i, n[i]>>
  <1>1. n[i] \in 1 .. FifoSize /\ n[i] \in Nat
    BY SizesAssumption
  <1>2. m[i] = n[i] - 1 /\ \A j \in Isrs : j # i => m[j] = n[j]
    OBVIOUS
  <1>3. p \notin BurstSlots(m)
    <2>1. ~(n[i] <= n[i] - 1)
      BY <1>1
    <2>2. p[1] = i /\ p[2] = n[i]
      OBVIOUS
    <2>3. ~(p[2] <= m[p[1]])
      BY <1>2, <2>1, <2>2
    <2>4. QED
      BY <2>3 DEF BurstSlots
  <1>4. BurstSlots(n) = BurstSlots(m) \cup {p}
    <2>1. ASSUME NEW s \in Isrs \X (1 .. FifoSize)
          PROVE  s[2] <= n[s[1]] <=> (s[2] <= m[s[1]] \/ s = p)
      <3>1. PICK j \in Isrs, k \in 1 .. FifoSize : s = <<j, k>>
        OBVIOUS
      <3>2. s[1] = j /\ s[2] = k
        BY <3>1
      <3>3. CASE j = i
        <4>1. k \in Nat /\ (s = p <=> k = n[i])
          BY <3>1, <3>3, SizesAssumption
        <4>2. k <= n[i] <=> (k <= n[i] - 1 \/ k = n[i])
          BY <1>1, <4>1
        <4>3. QED
          BY <1>2, <3>2, <3>3, <4>1, <4>2
      <3>4. CASE j # i
        <4>1. s # p
          BY <3>1, <3>4
        <4>2. QED
          BY <1>2, <3>2, <3>4, <4>1
      <3>5. QED
        BY <3>3, <3>4
    <2>2. p \in Isrs \X (1 .. FifoSize)
      BY <1>1
    <2> HIDE DEF m, p
    <2>3. QED
      BY <2>1, <2>2 DEF BurstSlots
  <1> HIDE DEF m, p
  <1>5. Cardinality(BurstSlots(m) \cup {p}) = Cardinality(BurstSlots(m)) + 1
    BY <1>3, SlotsFinite, FS_AddElement
  <1>6. QED
    BY <1>4, <1>5 DEF m

LEMMA PendingInRange ==
  ASSUME IInv, NEW most, BurstsFit(most), FifoInv(most)
  PROVE  /\ Pending(most) \in [Isrs -> 0 .. FifoSize]
         /\ \A i \in Isrs : Pending(most)[i] <= most[i]
  <1>1. ASSUME NEW i \in Isrs
        PROVE  /\ (IF i \in raised THEN Len(todo[i]) ELSE most[i]) \in 0 .. FifoSize
               /\ (IF i \in raised THEN Len(todo[i]) ELSE most[i]) <= most[i]
    <2>1. most[i] \in 0 .. FifoSize /\ most[i] <= most[i]
      BY SizesAssumption DEF BurstsFit
    <2>2. CASE i \in raised
      <3>1. Len(todo[i]) \in Nat /\ Len(todo[i]) <= most[i]
        BY <2>2, LenProperties DEF IInv, TypeOK, FifoInv
      <3>2. Len(todo[i]) \in 0 .. FifoSize
        BY <2>1, <3>1, SizesAssumption
      <3>3. QED
        BY <2>2, <3>1, <3>2
    <2>3. CASE i \notin raised
      BY <2>1, <2>3
    <2>4. QED
      BY <2>2, <2>3
  <1>2. QED
    BY <1>1 DEF Pending

LEMMA FifoLengths ==
  ASSUME IInv
  PROVE  PsqLength \in Nat /\ Len(psq) \in Nat /\ psqOther \in Nat /\ FifoSize \in Nat
  BY LenProperties, SizesAssumption DEF IInv, TypeOK, PsqLength

LEMMA FifoAtInit ==
  ASSUME Init, NEW most, BurstsFit(most)
  PROVE  FifoInv(most)
  <1>1. raised = {} /\ halted = "no" /\ PsqLength = 0
    BY EmptySeq DEF Init, PsqLength
  <1>2. Pending(most) = most
    BY <1>1 DEF Pending, BurstsFit
  <1>3. QED
    BY <1>1, <1>2, SlotsFinite, SizesAssumption DEF FifoInv, BurstsFit

(* A step that adds nothing to the FIFO and to what may still come.        *)
LEMMA NothingAdded ==
  ASSUME IInv, IInv', NEW most, BurstsFit(most), FifoInv(most),
         PsqLength' <= PsqLength, halted' # "fifo",
         \A i \in raised' : Len(todo'[i]) <= most[i],
         \A i \in Isrs : Pending(most)'[i] <= Pending(most)[i]
  PROVE  FifoInv(most)'
  <1>1. Pending(most) \in [Isrs -> 0 .. FifoSize]
    BY PendingInRange
  <1>2. Pending(most)' \in [Isrs -> 0 .. FifoSize]
    <2>1. ASSUME NEW i \in Isrs
          PROVE  (IF i \in raised' THEN Len(todo'[i]) ELSE most[i]) \in 0 .. FifoSize
      <3>1. most[i] \in 0 .. FifoSize
        BY DEF BurstsFit
      <3>2. CASE i \in raised'
        <4>1. Len(todo'[i]) \in Nat /\ Len(todo'[i]) <= most[i]
          BY <3>2, LenProperties DEF IInv, TypeOK
        <4>2. QED
          BY <3>1, <3>2, <4>1, SizesAssumption
      <3>3. QED
        BY <3>1, <3>2
    <2>2. QED
      BY <2>1 DEF Pending
  <1>3. Cardinality(BurstSlots(Pending(most)')) <= Cardinality(BurstSlots(Pending(most)))
    BY <1>1, <1>2, FewerSlots
  <1>4. BurstSlots(Pending(most))' = BurstSlots(Pending(most)')
    BY DEF BurstSlots
  <1>5. PICK a \in Nat : a = Cardinality(BurstSlots(Pending(most)'))
    BY SlotsFinite
  <1>6. PICK b \in Nat : b = Cardinality(BurstSlots(Pending(most)))
    BY SlotsFinite
  <1>7. PICK l \in Nat : l = PsqLength
    BY FifoLengths
  <1>8. PICK k \in Nat : k = PsqLength'
    BY FifoLengths DEF IInv, TypeOK, PsqLength
  <1>9. a + k <= FifoSize
    <2>1. a <= b /\ k <= l /\ b + l <= FifoSize
      BY <1>3, <1>5, <1>6, <1>7, <1>8 DEF FifoInv
    <2>2. QED
      BY <2>1, SizesAssumption
  <1>10. QED
    BY <1>4, <1>5, <1>8, <1>9 DEF FifoInv

(* A post of a handler finds room: its slot was kept free for it.          *)
LEMMA PostTakesSlot ==
  ASSUME IInv, NEW most, BurstsFit(most), FifoInv(most),
         NEW i \in raised, todo[i] # <<>>
  PROVE  /\ PsqLength < FifoSize
         /\ /\ PsqLength' = PsqLength + 1 /\ todo' = [todo EXCEPT ![i] = Tail(todo[i])]
            /\ raised' = raised /\ halted' = halted
            => FifoInv(most)'
  <1>1. Pending(most) \in [Isrs -> 0 .. FifoSize] /\ i \in Isrs
    BY PendingInRange DEF IInv, TypeOK
  <1>2. /\ todo[i] \in Seq({"command", "other"}) /\ Len(todo[i]) \in Nat /\ Len(todo[i]) > 0
        /\ Len(Tail(todo[i])) = Len(todo[i]) - 1
    <2>1. todo[i] \in Seq({"command", "other"})
      BY <1>1 DEF IInv, TypeOK
    <2>2. Len(todo[i]) \in Nat /\ Len(todo[i]) # 0 /\ Len(Tail(todo[i])) = Len(todo[i]) - 1
      BY <2>1, LenProperties, EmptySeq, HeadTailProperties
    <2>3. QED
      BY <2>1, <2>2
  <1>3. Pending(most)[i] = Len(todo[i])
    BY <1>1 DEF Pending
  <1> DEFINE m == [Pending(most) EXCEPT ![i] = Pending(most)[i] - 1]
  <1>4. Cardinality(BurstSlots(Pending(most))) = Cardinality(BurstSlots(m)) + 1
    BY <1>1, <1>2, <1>3, OneSlotFewer
  <1>5. PICK a \in Nat : a = Cardinality(BurstSlots(m))
    BY SlotsFinite
  <1>6. PICK l \in Nat : l = PsqLength
    BY FifoLengths
  <1>7. (a + 1) + l <= FifoSize
    BY <1>4, <1>5, <1>6 DEF FifoInv
  <1>8. PsqLength < FifoSize
    BY <1>6, <1>7, SizesAssumption
  <1>9. ASSUME PsqLength' = PsqLength + 1, todo' = [todo EXCEPT ![i] = Tail(todo[i])],
               raised' = raised, halted' = halted
        PROVE  FifoInv(most)'
    <2>1. todo'[i] = Tail(todo[i]) /\ \A j \in Isrs : j # i => todo'[j] = todo[j]
      BY <1>1, <1>9 DEF IInv, TypeOK
    <2>2. Pending(most)' = m
      <3>1. Pending(most)'[i] = Len(todo[i]) - 1
        BY <1>1, <1>2, <1>9, <2>1 DEF Pending
      <3>2. \A j \in Isrs : j # i => Pending(most)'[j] = Pending(most)[j]
        BY <1>9, <2>1 DEF Pending
      <3>3. Pending(most)' = [j \in Isrs |-> Pending(most)'[j]]
        BY DEF Pending
      <3>4. QED
        BY <1>1, <1>3, <3>1, <3>2, <3>3
    <2>3. \A j \in raised' : Len(todo'[j]) <= most[j]
      <3>1. ASSUME NEW j \in raised PROVE Len(todo'[j]) <= most[j]
        <4>1. Len(todo[j]) <= most[j] /\ j \in Isrs
          BY DEF FifoInv, IInv, TypeOK
        <4>2. CASE j = i
          <5>1. most[i] \in Nat /\ Len(todo[i]) <= most[i]
            BY <4>1, <4>2, SizesAssumption DEF BurstsFit
          <5>2. Len(todo[i]) - 1 <= most[i]
            BY <1>2, <5>1
          <5>3. Len(todo'[i]) = Len(todo[i]) - 1
            BY <1>2, <2>1
          <5>4. QED
            BY <4>2, <5>2, <5>3
        <4>3. CASE j # i
          BY <2>1, <4>1, <4>3
        <4>4. QED
          BY <4>2, <4>3
      <3>2. QED
        BY <1>9, <3>1
    <2>4. a + (l + 1) <= FifoSize
      BY <1>7, SizesAssumption
    <2>5. BurstSlots(Pending(most))' = BurstSlots(m)
      BY <2>2 DEF BurstSlots
    <2>6. PsqLength' = l + 1 /\ halted' # "fifo"
      BY <1>6, <1>9 DEF FifoInv
    <2>7. QED
      BY <1>5, <2>3, <2>4, <2>5, <2>6 DEF FifoInv
  <1>10. QED
    BY <1>8, <1>9

(* The active handler that runs has fired.                                 *)
LEMMA RunningFired ==
  ASSUME IInv, NEW i \in Isrs, Running(i)
  PROVE  i \in raised
  <1>1. active \in Seq(Isrs) /\ active # <<>> /\ active[Len(active)] = i
    BY DEF Running, IInv, TypeOK
  <1>2. Len(active) \in 1 .. Len(active)
    BY <1>1, LenProperties, EmptySeq
  <1>3. QED
    BY <1>1, <1>2 DEF IInv, HandlersInv

LEMMA EnterKeepsFifo ==
  ASSUME IInv, IInv', NEW most, BurstsFit(most), FifoInv(most), NEW i \in Isrs, Enter(i)
  PROVE  FifoInv(most)'
  <1>1. PICK s \in Script[i] : todo' = [todo EXCEPT ![i] = s]
    BY DEF Enter
  <1>2. /\ i \notin raised /\ raised' = raised \cup {i}
        /\ PsqLength' = PsqLength /\ halted' = halted
    BY DEF Enter, PsqLength
  <1>3. Len(s) <= most[i] /\ raised \subseteq Isrs
    BY DEF BurstsFit, IInv, TypeOK
  <1>4. todo'[i] = s /\ \A j \in Isrs : j # i => todo'[j] = todo[j]
    BY <1>1 DEF IInv, TypeOK
  <1>5. \A j \in raised' : Len(todo'[j]) <= most[j]
    BY <1>2, <1>3, <1>4 DEF FifoInv
  <1>6. ASSUME NEW j \in Isrs PROVE Pending(most)'[j] <= Pending(most)[j]
    <2>1. CASE j = i
      BY <1>2, <1>3, <1>4, <2>1 DEF Pending
    <2>2. CASE j # i
      <3>1. Pending(most)'[j] = Pending(most)[j]
        BY <1>2, <1>4, <2>2 DEF Pending
      <3>2. Pending(most)[j] \in 0 .. FifoSize
        BY PendingInRange
      <3>3. QED
        BY <3>1, <3>2, SizesAssumption
    <2>3. QED
      BY <2>1, <2>2
  <1>7. PsqLength' <= PsqLength
    BY <1>2, FifoLengths
  <1>8. QED
    BY <1>2, <1>5, <1>6, <1>7, NothingAdded DEF FifoInv

(* Steps that leave the handlers to be what they were, or find the FIFO    *)
(* empty and forget who fired.                                             *)
LEMMA DrainKeepsFifo ==
  ASSUME IInv, IInv', NEW most, BurstsFit(most), FifoInv(most),
         PsqLength' <= PsqLength, halted' # "fifo", todo' = todo,
         raised' = raised \/ (raised' = {} /\ PsqLength' = 0)
  PROVE  FifoInv(most)'
  <1>1. CASE raised' = raised
    <2>1. \A j \in raised' : Len(todo'[j]) <= most[j]
      BY <1>1 DEF FifoInv
    <2>2. ASSUME NEW j \in Isrs PROVE Pending(most)'[j] <= Pending(most)[j]
      <3>1. Pending(most)'[j] = Pending(most)[j]
        BY <1>1 DEF Pending
      <3>2. Pending(most)[j] \in 0 .. FifoSize
        BY PendingInRange
      <3>3. QED
        BY <3>1, <3>2, SizesAssumption
    <2>3. QED
      BY <2>1, <2>2, NothingAdded
  <1>2. CASE raised' = {} /\ PsqLength' = 0
    <2>1. Pending(most)' = most
      BY <1>2 DEF Pending, BurstsFit
    <2>2. BurstSlots(Pending(most))' = BurstSlots(most)
      BY <2>1 DEF BurstSlots
    <2>3. Cardinality(BurstSlots(most)) + 0 <= FifoSize
      BY SlotsFinite, SizesAssumption DEF BurstsFit
    <2>4. QED
      BY <1>2, <2>2, <2>3 DEF FifoInv
  <1>3. QED
    BY <1>1, <1>2

LEMMA EmptyFifo ==
  ASSUME IInv, PsqEmpty
  PROVE  PsqLength = 0
  BY EmptySeq DEF PsqEmpty, PsqLength

LEMMA LeaveKeepsFifo ==
  ASSUME IInv, IInv', NEW most, BurstsFit(most), FifoInv(most), NEW i \in Isrs, Leave(i)
  PROVE  FifoInv(most)'
  <1>1. PsqLength' = PsqLength /\ halted' = halted /\ todo' = todo
    BY DEF Leave, PsqLength
  <1>2. raised' = raised \/ (raised' = {} /\ PsqEmpty)
    BY DEF Leave
  <1>3. PsqLength' <= PsqLength
    BY <1>1, FifoLengths
  <1>4. QED
    BY <1>1, <1>2, <1>3, EmptyFifo, DrainKeepsFifo DEF FifoInv

LEMMA PostOtherKeepsFifo ==
  ASSUME IInv, NEW most, BurstsFit(most), FifoInv(most), NEW i \in Isrs, PostOther(i)
  PROVE  FifoInv(most)'
  <1>1. i \in raised /\ todo[i] # <<>>
    BY RunningFired DEF PostOther
  <1>2. PsqLength < FifoSize
    BY <1>1, PostTakesSlot
  <1>3. /\ psqOther' = psqOther + 1 /\ psq' = psq /\ todo' = [todo EXCEPT ![i] = Tail(todo[i])]
        /\ raised' = raised /\ halted' = halted
    BY <1>2 DEF PostOther
  <1>4. PsqLength' = PsqLength + 1
    BY <1>3, FifoLengths DEF PsqLength
  <1>5. QED
    BY <1>1, <1>3, <1>4, PostTakesSlot

(* The log entry of a refused command takes the command's slot.            *)
LEMMA ReserveKeepsFifo ==
  ASSUME IInv, IInv', NEW most, BurstsFit(most), FifoInv(most), NEW p \in Posters, Reserve(p)
  PROVE  FifoInv(most)'
  <1>1. PsqLength' = PsqLength /\ raised' = raised /\ halted' = halted
    BY DEF Reserve, PsqLength
  <1>2. PsqLength' <= PsqLength
    BY <1>1, FifoLengths
  <1>3. CASE todo' = todo
    BY <1>1, <1>2, <1>3, DrainKeepsFifo DEF FifoInv
  <1>4. ASSUME p \in Isrs, NEW log \in RefusalLog, todo' = [todo EXCEPT ![p] = log \o Tail(todo[p])]
        PROVE  FifoInv(most)'
    <2>1. todo[p] \in Seq({"command", "other"}) /\ todo[p] # <<>> /\ p \in raised
      BY <1>4, RunningFired DEF Reserve, WantsToPost, IInv, TypeOK
    <2>2. /\ Len(todo[p]) \in Nat /\ Len(todo[p]) # 0
          /\ Tail(todo[p]) \in Seq({"command", "other"}) /\ Len(Tail(todo[p])) = Len(todo[p]) - 1
      BY <2>1, LenProperties, EmptySeq, HeadTailProperties
    <2>3. log \in Seq({"command", "other"}) /\ Len(log) \in {0, 1}
      <3>1. <<"other">> \in Seq({"command", "other"}) /\ Len(<<"other">>) = 1
        OBVIOUS
      <3>2. <<>> \in Seq({"command", "other"}) /\ Len(<<>>) = 0
        BY EmptySeq
      <3>3. log = <<>> \/ log = <<"other">>
        BY <1>4 DEF RefusalLog
      <3>4. QED
        BY <3>1, <3>2, <3>3
    <2>4. Len(log \o Tail(todo[p])) = Len(log) + Len(Tail(todo[p]))
      BY <2>2, <2>3, ConcatProperties
    <2>5. Len(todo'[p]) <= Len(todo[p]) /\ \A j \in Isrs : j # p => todo'[j] = todo[j]
      <3>1. todo'[p] = log \o Tail(todo[p]) /\ \A j \in Isrs : j # p => todo'[j] = todo[j]
        BY <1>4 DEF IInv, TypeOK
      <3>2. Len(log \o Tail(todo[p])) <= Len(todo[p])
        <4>1. \A a \in {0, 1} : \A b \in Nat : b # 0 => a + (b - 1) <= b
          OBVIOUS
        <4>2. QED
          BY <2>2, <2>3, <2>4, <4>1
      <3>3. QED
        BY <3>1, <3>2
    <2>6. ASSUME NEW j \in raised PROVE Len(todo'[j]) <= most[j]
      <3>1. j \in Isrs /\ Len(todo[j]) <= most[j]
        BY DEF IInv, TypeOK, FifoInv
      <3>2. CASE j = p
        <4>1. Len(todo'[p]) \in Nat /\ most[p] \in Nat /\ Len(todo[p]) <= most[p]
          BY <1>4, <3>1, <3>2, LenProperties, SizesAssumption DEF IInv, TypeOK, BurstsFit
        <4>2. QED
          BY <2>2, <2>5, <3>2, <4>1
      <3>3. CASE j # p
        BY <2>5, <3>1, <3>3
      <3>4. QED
        BY <3>2, <3>3
    <2>7. ASSUME NEW j \in Isrs PROVE Pending(most)'[j] <= Pending(most)[j]
      <3>1. CASE j = p
        BY <1>1, <2>1, <2>5, <3>1 DEF Pending
      <3>2. CASE j # p
        <4>1. Pending(most)'[j] = Pending(most)[j]
          BY <1>1, <2>5, <3>2 DEF Pending
        <4>2. Pending(most)[j] \in 0 .. FifoSize
          BY PendingInRange
        <4>3. QED
          BY <4>1, <4>2, SizesAssumption
      <3>3. QED
        BY <3>1, <3>2
    <2>8. QED
      BY <1>1, <1>2, <2>6, <2>7, NothingAdded DEF FifoInv
  <1>5. QED
    BY <1>3, <1>4 DEF Reserve

LEMMA PutKeepsFifo ==
  ASSUME IInv, IInv', NEW most, BurstsFit(most), FifoInv(most), NEW p \in Posters, Put(p)
  PROVE  FifoInv(most)'
  <1> DEFINE c == [from |-> p, n |-> posted[p] + 1]
  <1>1. p \in posting /\ Len(rtosQueue) < Capacity /\ Len(rtosQueue) # Capacity
    <2>1. p \in posting /\ Len(rtosQueue) < Capacity
      BY ReservedRoom DEF Put
    <2>2. QED
      BY <2>1, SizesAssumption, LenProperties DEF IInv, TypeOK
  <1> HIDE DEF c
  <1>2. CASE p \in Isrs
    <2>1. p \in raised /\ todo[p] # <<>>
      BY <1>1, <1>2, RunningFired DEF Put, IInv, HandlersInv
    <2>2. PsqLength < FifoSize /\ ~(PsqLength >= FifoSize)
      BY <2>1, PostTakesSlot, FifoLengths
    <2>3. /\ psq' = Append(psq, c) /\ psqOther' = psqOther
          /\ todo' = [todo EXCEPT ![p] = Tail(todo[p])]
          /\ raised' = raised /\ halted' = halted
      BY <1>1, <1>2, <2>2 DEF Put, PutReturns, c
    <2>4. Len(Append(psq, c)) = Len(psq) + 1
      <3>1. posted[p] \in Nat /\ psq \in Seq(Command)
        BY DEF IInv, TypeOK
      <3>2. c \in Command
        BY <3>1 DEF c, Command
      <3>3. QED
        BY <3>1, <3>2, AppendProperties
    <2>5. PsqLength' = PsqLength + 1
      BY <2>3, <2>4, FifoLengths DEF PsqLength
    <2>6. QED
      BY <2>1, <2>3, <2>5, PostTakesSlot
  <1>3. CASE p \notin Isrs
    <2>1. /\ psq' = psq /\ psqOther' = psqOther /\ todo' = todo /\ raised' = raised
          /\ Deliver(c)
      BY <1>1, <1>3 DEF Put, PutReturns, c
    <2>2. halted' = halted
      BY <1>1, <2>1 DEF Deliver, StoreOnly
    <2>3. PsqLength' <= PsqLength
      BY <2>1, FifoLengths DEF PsqLength
    <2>4. QED
      BY <2>1, <2>2, <2>3, DrainKeepsFifo DEF FifoInv
  <1>4. QED
    BY <1>2, <1>3

LEMMA PendSVKeepsFifo ==
  ASSUME IInv, IInv', NEW most, BurstsFit(most), FifoInv(most), PendSV
  PROVE  FifoInv(most)'
  <1>1. CASE PopRequest
    <2>1. /\ psq \in Seq(Command) /\ psq # <<>> /\ Deliver(Head(psq)) /\ psq' = Tail(psq)
          /\ psqOther' = psqOther /\ todo' = todo
          /\ raised' = raised \/ (raised' = {} /\ psq' = <<>> /\ psqOther' = 0)
      BY <1>1 DEF PopRequest, IInv, TypeOK
    <2>2. Len(psq') = Len(psq) - 1
      BY <2>1, HeadTailProperties
    <2>3. PsqLength' <= PsqLength
      BY <2>1, <2>2, FifoLengths DEF PsqLength
    <2>4. psq' = <<>> /\ psqOther' = 0 => PsqLength' = 0
      BY EmptySeq DEF PsqLength
    <2>5. halted' = halted
      BY <2>1, RequestRoom DEF Deliver, StoreOnly
    <2>6. QED
      BY <2>1, <2>3, <2>4, <2>5, DrainKeepsFifo DEF FifoInv
  <1>2. CASE PopOther
    <2>1. /\ psqOther > 0 /\ psqOther' = psqOther - 1 /\ psq' = psq /\ todo' = todo /\ halted' = halted
          /\ raised' = raised \/ (raised' = {} /\ psq' = <<>> /\ psqOther' = 0)
      BY <1>2 DEF PopOther
    <2>2. PsqLength' <= PsqLength
      BY <2>1, FifoLengths DEF PsqLength
    <2>3. psq' = <<>> /\ psqOther' = 0 => PsqLength' = 0
      BY EmptySeq DEF PsqLength
    <2>4. QED
      BY <2>1, <2>2, <2>3, DrainKeepsFifo DEF FifoInv
  <1>3. QED
    BY <1>1, <1>2 DEF PendSV

LEMMA FifoStep ==
  ASSUME NEW most, BurstsFit(most)
  PROVE  IInv /\ IInv' /\ FifoInv(most) /\ [Next]_vars => FifoInv(most)'
  <1> SUFFICES ASSUME IInv, IInv', FifoInv(most), [Next]_vars PROVE FifoInv(most)'
    OBVIOUS
  <1>1. ASSUME NEW i \in Isrs, Handler(i) PROVE FifoInv(most)'
    BY <1>1, EnterKeepsFifo, PostOtherKeepsFifo, LeaveKeepsFifo DEF Handler
  <1>2. ASSUME NEW p \in Posters, QueueCommand(p) PROVE FifoInv(most)'
    BY <1>2, ReserveKeepsFifo, PutKeepsFifo DEF QueueCommand
  <1>3. CASE PendSV
    BY <1>3, PendSVKeepsFifo
  <1>4. CASE Fetch \/ GetTimeout \/ UNCHANGED vars
    <2>1. /\ psq' = psq /\ psqOther' = psqOther /\ todo' = todo /\ raised' = raised
          /\ halted' = halted
      BY <1>4 DEF Fetch, Get, CountDown, Processed, GetTimeout, vars, isrVars
    <2>2. PsqLength' <= PsqLength
      BY <2>1, FifoLengths DEF PsqLength
    <2>3. QED
      BY <2>1, <2>2, DrainKeepsFifo DEF FifoInv
  <1>5. QED
    BY <1>1, <1>2, <1>3, <1>4 DEF Next

(* The posts of all handlers between two runs of PendSV fit the kernel's   *)
(* request FIFO, whatever the sources, their priorities and their nesting, *)
(* if the longest bursts of all sources together do.                       *)
THEOREM FifoSafe ==
  ASSUME NEW most, BurstsFit(most)
  PROVE  Safe => []FifoNeverOverflows
  <1>1. Init => FifoInv(most)
    BY FifoAtInit
  <1>2. IInv /\ IInv' /\ FifoInv(most) /\ [Next]_vars => FifoInv(most)'
    BY FifoStep
  <1>3. FifoInv(most) => FifoNeverOverflows
    BY DEF FifoInv, FifoNeverOverflows
  <1>4. Safe => []IInv
    BY InvariantHolds
  <1>5. QED
    BY <1>1, <1>2, <1>3, <1>4, PTL DEF Safe
=============================================================================
