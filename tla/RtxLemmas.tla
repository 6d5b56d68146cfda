------------------------------ MODULE RtxLemmas ------------------------------
(***************************************************************************)
(* Facts the proofs rest on: about the sequences that queues and mailboxes *)
(* are, and about RtxTime: how far a wait has come, and what the           *)
(* conversions between ticks and the units of us_ticker_read() keep.       *)
(***************************************************************************)
EXTENDS RtxTime, Integers, Sequences, FiniteSets, SequenceTheorems, FiniteSetTheorems, TLAPS

(* A sequence without its last element. *)
LEMMA FrontProperties ==
  ASSUME NEW S, NEW s \in Seq(S), Len(s) # 0
  PROVE  LET f == SubSeq(s, 1, Len(s) - 1)
         IN  /\ f \in Seq(S) /\ Len(f) = Len(s) - 1
             /\ \A k \in 1 .. Len(s) - 1 : f[k] = s[k]
  <1> DEFINE m == Len(s) - 1
  <1>1. m \in Nat /\ m \in Int /\ 1 \in Int
    BY LenProperties
  <1>2. \A k \in 1 .. m : s[k] \in S
    BY <1>1, ElementOfSeq, LenProperties
  <1>3. \A k \in 1 .. m : k \in 1 .. m - 1 + 1 /\ 1 + k - 1 = k
    BY <1>1
  <1> HIDE DEF m
  <1>4. /\ SubSeq(s, 1, m) \in Seq(S)
        /\ Len(SubSeq(s, 1, m)) = IF 1 <= m THEN m - 1 + 1 ELSE 0
        /\ \A k \in 1 .. m - 1 + 1 : SubSeq(s, 1, m)[k] = s[1 + k - 1]
    BY <1>1, <1>2, SubSeqProperties
  <1>5. Len(SubSeq(s, 1, m)) = m
    BY <1>1, <1>4
  <1>6. \A k \in 1 .. m : SubSeq(s, 1, m)[k] = s[k]
    BY <1>3, <1>4
  <1>7. QED
    BY <1>4, <1>5, <1>6 DEF m

(* Appending to the second of two sequences appends to the whole.          *)
LEMMA AppendToConcat ==
  ASSUME NEW S, NEW s \in Seq(S), NEW t \in Seq(S), NEW e \in S
  PROVE  s \o Append(t, e) = Append(s \o t, e)
  <1>1. <<e>> \in Seq(S) /\ s \o t \in Seq(S)
    BY ConcatProperties
  <1>2. Append(t, e) = t \o <<e>> /\ Append(s \o t, e) = (s \o t) \o <<e>>
    BY <1>1, AppendIsConcat
  <1>3. QED
    BY <1>1, <1>2, ConcatAssociative

(* A non-empty sequence is its head and its tail. *)
LEMMA HeadThenTail ==
  ASSUME NEW S, NEW s \in Seq(S), s # <<>>
  PROVE  <<Head(s)>> \o Tail(s) = s /\ <<Head(s)>> \in Seq(S) /\ Tail(s) \in Seq(S)
  <1>1. /\ Head(s) \in S /\ Tail(s) \in Seq(S) /\ Len(Tail(s)) = Len(s) - 1
        /\ \A i \in 1 .. Len(Tail(s)) : Tail(s)[i] = s[i + 1]
        /\ Head(s) = s[1] /\ Len(s) \in Nat /\ Len(s) # 0
    BY HeadTailProperties, LenProperties, EmptySeq
  <1>2. <<Head(s)>> \in Seq(S) /\ Len(<<Head(s)>>) = 1 /\ <<Head(s)>>[1] = Head(s)
    BY <1>1
  <1> DEFINE u == <<Head(s)>> \o Tail(s)
  <1>3. /\ u \in Seq(S) /\ Len(u) = 1 + Len(Tail(s))
        /\ \A i \in 1 .. 1 + Len(Tail(s)) :
             u[i] = IF i <= 1 THEN <<Head(s)>>[i] ELSE Tail(s)[i - 1]
    BY <1>1, <1>2, ConcatProperties
  <1>4. Len(u) = Len(s)
    BY <1>1, <1>3
  <1>5. ASSUME NEW i \in 1 .. Len(s) PROVE u[i] = s[i]
    <2>1. CASE i = 1
      BY <1>1, <1>2, <1>3, <2>1
    <2>2. CASE i # 1
      <3>1. i - 1 \in 1 .. Len(Tail(s)) /\ (i - 1) + 1 = i /\ ~(i <= 1)
        BY <1>1, <2>2
      <3>2. u[i] = Tail(s)[i - 1]
        BY <1>1, <1>3, <3>1
      <3>3. QED
        BY <1>1, <3>1, <3>2
    <2>3. QED
      BY <2>1, <2>2
  <1>6. QED
    BY <1>1, <1>2, <1>3, <1>4, <1>5, SeqEqual

(* Moving the head of the second sequence to the end of the first changes  *)
(* nothing in the whole.                                                   *)
LEMMA MoveHead ==
  ASSUME NEW S, NEW s \in Seq(S), NEW t \in Seq(S), t # <<>>
  PROVE  Append(s, Head(t)) \o Tail(t) = s \o t
  <1>1. /\ <<Head(t)>> \o Tail(t) = t /\ <<Head(t)>> \in Seq(S) /\ Tail(t) \in Seq(S)
        /\ Head(t) \in S
    BY HeadThenTail, HeadTailProperties
  <1>2. Append(s, Head(t)) = s \o <<Head(t)>>
    BY <1>1, AppendIsConcat
  <1>3. QED
    BY <1>1, <1>2, ConcatAssociative

(* The tail of a concatenation whose first sequence has one element.       *)
LEMMA TailOfConcat ==
  ASSUME NEW S, NEW s \in Seq(S), NEW t \in Seq(S), Len(s) = 1
  PROVE  s \o t # <<>> /\ Tail(s \o t) = t
  <1> DEFINE u == s \o t
  <1>1. /\ u \in Seq(S) /\ Len(u) = 1 + Len(t) /\ Len(t) \in Nat
        /\ \A i \in 1 .. 1 + Len(t) : u[i] = IF i <= 1 THEN s[i] ELSE t[i - 1]
    <2>1. /\ u \in Seq(S) /\ Len(u) = Len(s) + Len(t)
          /\ \A i \in 1 .. Len(s) + Len(t) :
                u[i] = IF i <= Len(s) THEN s[i] ELSE t[i - Len(s)]
      BY ConcatProperties
    <2>2. Len(t) \in Nat
      BY LenProperties
    <2> HIDE DEF u
    <2>3. QED
      BY <2>1, <2>2
  <1>2. u # <<>>
    BY <1>1, EmptySeq
  <1> HIDE DEF u
  <1>3. /\ Tail(u) \in Seq(S) /\ Len(Tail(u)) = Len(t)
        /\ \A i \in 1 .. Len(t) : Tail(u)[i] = u[i + 1]
    <2>1. /\ Tail(u) \in Seq(S) /\ Len(Tail(u)) = Len(u) - 1
          /\ \A i \in 1 .. Len(Tail(u)) : Tail(u)[i] = u[i + 1]
      BY <1>1, <1>2, HeadTailProperties
    <2>2. Len(u) - 1 = Len(t)
      BY <1>1
    <2>3. QED
      BY <2>1, <2>2
  <1>4. ASSUME NEW i \in 1 .. Len(t) PROVE Tail(u)[i] = t[i]
    <2>1. i + 1 \in 1 .. 1 + Len(t) /\ ~(i + 1 <= 1) /\ (i + 1) - 1 = i
      BY <1>1
    <2>2. QED
      BY <1>1, <1>3, <2>1
  <1>5. Tail(u) = t
    BY <1>3, <1>4, SeqEqual
  <1>6. QED
    BY <1>2, <1>5 DEF u

(* Taking the head off commutes with appending.                            *)
LEMMA TailOfAppend ==
  ASSUME NEW S, NEW s \in Seq(S), s # <<>>, NEW e \in S
  PROVE  Tail(Append(s, e)) = Append(Tail(s), e)
  <1>1. <<Head(s)>> \o Tail(s) = s /\ <<Head(s)>> \in Seq(S) /\ Tail(s) \in Seq(S)
    BY HeadThenTail
  <1>2. Append(s, e) = <<Head(s)>> \o Append(Tail(s), e)
    <2> DEFINE h == <<Head(s)>>
               t == Tail(s)
    <2>1. h \o t = s /\ h \in Seq(S) /\ t \in Seq(S)
      BY <1>1
    <2> HIDE DEF h, t
    <2>2. h \o Append(t, e) = Append(h \o t, e)
      BY <2>1, AppendToConcat
    <2>3. QED
      BY <2>1, <2>2 DEF h, t
  <1>3. Append(Tail(s), e) \in Seq(S) /\ Len(<<Head(s)>>) = 1
    BY <1>1, AppendProperties
  <1>4. QED
    BY <1>1, <1>2, <1>3, TailOfConcat

(* A sequence of one element. *)
LEMMA Singleton ==
  ASSUME NEW x
  PROVE  /\ <<x>> # <<>> /\ Len(<<x>>) = 1 /\ Head(<<x>>) = x /\ Tail(<<x>>) = <<>>
         /\ Append(<<>>, x) = <<x>> /\ <<x>>[1] = x
  <1> DEFINE S == {x}
  <1>1. <<x>> \in Seq(S) /\ <<>> \in Seq(S) /\ x \in S
    OBVIOUS
  <1>2. <<x>> # <<>> /\ Len(<<x>>) = 1 /\ Head(<<x>>) = x /\ <<x>>[1] = x
    OBVIOUS
  <1>3. Tail(<<x>>) = <<>>
    BY <1>1, <1>2, HeadTailProperties, EmptySeq
  <1>4. Append(<<>>, x) = <<x>>
    BY <1>1, AppendIsConcat, ConcatEmptySeq
  <1>5. QED
    BY <1>2, <1>3, <1>4

(* Its ends, as the actions on queues and lines use them. *)
LEMMA Ends ==
  ASSUME NEW S, NEW s \in Seq(S)
  PROVE  /\ \A x \in S : Append(s, x) \in Seq(S) /\ Append(s, x) # <<>>
         /\ s # <<>> => Head(s) \in S /\ Tail(s) \in Seq(S) /\ Len(Tail(s)) = Len(s) - 1
                        /\ Head(s) = s[1] /\ Len(s) > 0
         /\ Len(s) \in Nat /\ (s = <<>> <=> Len(s) = 0)
  BY AppendProperties, HeadTailProperties, EmptySeq, LenProperties

(* The head of such a concatenation. *)
LEMMA HeadOfConcat ==
  ASSUME NEW S, NEW s \in Seq(S), NEW t \in Seq(S), Len(s) = 1
  PROVE  Head(s \o t) = s[1]
  <1>1. Len(t) \in Nat
    BY LenProperties
  <1>2. /\ s \o t \in Seq(S)
        /\ \A i \in 1 .. Len(s) + Len(t) : (s \o t)[i] = IF i <= Len(s) THEN s[i] ELSE t[i - Len(s)]
    BY ConcatProperties
  <1>3. 1 \in 1 .. 1 + Len(t) /\ 1 <= 1
    BY <1>1
  <1>4. (s \o t)[1] = s[1] /\ s \o t # <<>>
    BY <1>2, <1>3, TailOfConcat
  <1>5. QED
    BY <1>2, <1>4, Ends

-----------------------------------------------------------------------------
(* Sequences without repetition and the sets of their elements.            *)

Elements(s) == {s[i] : i \in 1 .. Len(s)}
Distinct(s) == \A i, j \in 1 .. Len(s) : s[i] = s[j] => i = j

(* The empty sequence and a single element repeat nothing.                 *)
LEMMA ShortDistinct ==
  /\ Elements(<<>>) = {} /\ Distinct(<<>>)
  /\ \A e : Elements(<<e>>) = {e} /\ Distinct(<<e>>)
  <1>1. Len(<<>>) = 0 /\ \A e : Len(<<e>>) = 1 /\ <<e>>[1] = e
    OBVIOUS
  <1>2. 1 .. 0 = {} /\ 1 .. 1 = {1}
    OBVIOUS
  <1>3. QED
    BY <1>1, <1>2 DEF Elements, Distinct

LEMMA AppendDistinct ==
  ASSUME NEW S, NEW s \in Seq(S), NEW e \in S
  PROVE  /\ Elements(Append(s, e)) = Elements(s) \cup {e}
         /\ Distinct(s) /\ e \notin Elements(s) => Distinct(Append(s, e))
  <1> DEFINE t == Append(s, e)
  <1>1. /\ Len(t) = Len(s) + 1 /\ Len(s) \in Nat
        /\ \A i \in 1 .. Len(s) : t[i] = s[i]
        /\ t[Len(s) + 1] = e
    BY AppendProperties, LenProperties
  <1> HIDE DEF t
  <1>2. \A i \in 1 .. Len(t) : i \in 1 .. Len(s) \/ i = Len(s) + 1
    BY <1>1
  <1>3. (\A i \in 1 .. Len(s) : i \in 1 .. Len(t)) /\ Len(s) + 1 \in 1 .. Len(t)
    BY <1>1
  <1>4. Elements(t) = Elements(s) \cup {e}
    BY <1>1, <1>2, <1>3 DEF Elements
  <1>5. ASSUME Distinct(s), e \notin Elements(s) PROVE Distinct(t)
    <2>1. \A i \in 1 .. Len(s) : t[i] # e
      BY <1>1, <1>5 DEF Elements
    <2>2. QED
      BY <1>1, <1>2, <1>5, <2>1 DEF Distinct
  <1>6. QED
    BY <1>4, <1>5 DEF t

LEMMA TailDistinct ==
  ASSUME NEW S, NEW s \in Seq(S), s # <<>>
  PROVE  /\ Head(s) \in S /\ Tail(s) \in Seq(S)
         /\ Elements(s) = {Head(s)} \cup Elements(Tail(s))
         /\ Distinct(s) => Distinct(Tail(s)) /\ Head(s) \notin Elements(Tail(s))
  <1> DEFINE t == Tail(s)
  <1>1. /\ Head(s) \in S /\ t \in Seq(S) /\ Len(t) = Len(s) - 1
        /\ \A i \in 1 .. Len(t) : t[i] = s[i + 1]
        /\ Head(s) = s[1] /\ Len(s) \in Nat /\ Len(s) # 0
    BY HeadTailProperties, LenProperties, EmptySeq
  <1> HIDE DEF t
  <1>2. /\ \A i \in 1 .. Len(s) : i = 1 \/ (i - 1 \in 1 .. Len(t) /\ t[i - 1] = s[i])
        /\ \A i \in 1 .. Len(t) : i + 1 \in 1 .. Len(s) /\ i + 1 # 1
        /\ 1 \in 1 .. Len(s)
    <2>1. ASSUME NEW i \in 1 .. Len(s), i # 1
          PROVE  i - 1 \in 1 .. Len(t) /\ t[i - 1] = s[i]
      <3>1. i - 1 \in 1 .. Len(t) /\ (i - 1) + 1 = i
        BY <1>1, <2>1
      <3>2. QED
        BY <1>1, <3>1
    <2>2. QED
      BY <1>1, <2>1
  <1>3. Elements(s) = {Head(s)} \cup Elements(t)
    BY <1>1, <1>2 DEF Elements
  <1>4. ASSUME Distinct(s) PROVE Distinct(t) /\ Head(s) \notin Elements(t)
    <2>1. ASSUME NEW i \in 1 .. Len(t), NEW j \in 1 .. Len(t), t[i] = t[j] PROVE i = j
      <3>1. s[i + 1] = s[j + 1] /\ i + 1 \in 1 .. Len(s) /\ j + 1 \in 1 .. Len(s)
        BY <1>1, <1>2, <2>1
      <3>2. i + 1 = j + 1
        BY <1>4, <3>1 DEF Distinct
      <3>3. QED
        BY <3>2
    <2>2. ASSUME NEW i \in 1 .. Len(t) PROVE t[i] # Head(s)
      <3>1. t[i] = s[i + 1] /\ i + 1 \in 1 .. Len(s) /\ i + 1 # 1 /\ 1 \in 1 .. Len(s)
        BY <1>1, <1>2
      <3>2. QED
        BY <1>1, <1>4, <3>1 DEF Distinct
    <2>3. QED
      BY <2>1, <2>2 DEF Distinct, Elements
  <1>5. QED
    BY <1>1, <1>3, <1>4 DEF t

LEMMA ConcatDistinct ==
  ASSUME NEW S, NEW s \in Seq(S), NEW t \in Seq(S)
  PROVE  /\ Elements(s \o t) = Elements(s) \cup Elements(t)
         /\ Distinct(s) /\ Distinct(t) /\ Elements(s) \cap Elements(t) = {} => Distinct(s \o t)
  <1> DEFINE u == s \o t
  <1>1. /\ Len(u) = Len(s) + Len(t) /\ Len(s) \in Nat /\ Len(t) \in Nat
        /\ \A i \in 1 .. Len(s) + Len(t) : u[i] = IF i <= Len(s) THEN s[i] ELSE t[i - Len(s)]
    BY ConcatProperties, LenProperties
  <1> HIDE DEF u
  <1>2. ASSUME NEW i \in 1 .. Len(u)
        PROVE  \/ i \in 1 .. Len(s) /\ u[i] = s[i]
               \/ ~(i <= Len(s)) /\ i - Len(s) \in 1 .. Len(t) /\ u[i] = t[i - Len(s)]
    BY <1>1
  <1>3. ASSUME NEW i \in 1 .. Len(s) PROVE i \in 1 .. Len(u) /\ u[i] = s[i]
    BY <1>1
  <1>4. ASSUME NEW i \in 1 .. Len(t) PROVE i + Len(s) \in 1 .. Len(u) /\ u[i + Len(s)] = t[i]
    <2>1. i + Len(s) \in 1 .. Len(s) + Len(t) /\ ~(i + Len(s) <= Len(s)) /\ (i + Len(s)) - Len(s) = i
      BY <1>1
    <2>2. QED
      BY <1>1, <2>1
  <1>5. Elements(u) = Elements(s) \cup Elements(t)
    <2>1. Elements(u) \subseteq Elements(s) \cup Elements(t)
      BY <1>2 DEF Elements
    <2>2. Elements(s) \subseteq Elements(u)
      BY <1>3 DEF Elements
    <2>3. Elements(t) \subseteq Elements(u)
      <3>1. ASSUME NEW i \in 1 .. Len(t) PROVE \E k \in 1 .. Len(u) : t[i] = u[k]
        BY <1>4
      <3>2. QED
        BY <3>1 DEF Elements
    <2>4. QED
      BY <2>1, <2>2, <2>3
  <1>6. ASSUME Distinct(s), Distinct(t), Elements(s) \cap Elements(t) = {},
               NEW i \in 1 .. Len(u), NEW j \in 1 .. Len(u), u[i] = u[j]
        PROVE  i = j
    <2>1. CASE i \in 1 .. Len(s) /\ j \in 1 .. Len(s)
      BY <1>3, <1>6, <2>1 DEF Distinct
    <2>2. CASE ~(i <= Len(s)) /\ ~(j <= Len(s))
      <3>1. /\ i - Len(s) \in 1 .. Len(t) /\ j - Len(s) \in 1 .. Len(t)
            /\ t[i - Len(s)] = t[j - Len(s)]
        BY <1>2, <1>6, <2>2
      <3>2. i - Len(s) = j - Len(s)
        BY <1>6, <3>1 DEF Distinct
      <3>3. QED
        BY <1>1, <3>2
    <2>3. ASSUME NEW k \in 1 .. Len(s), NEW l \in 1 .. Len(t) PROVE s[k] # t[l]
      BY <1>6 DEF Elements
    <2>4. QED
      BY <1>1, <1>2, <1>6, <2>1, <2>2, <2>3
  <1>7. QED
    BY <1>5, <1>6 DEF u, Distinct

(* How often an element is in a sequence without repetition.               *)
LEMMA DistinctCount ==
  ASSUME NEW S, NEW s \in Seq(S), Distinct(s), NEW b
  PROVE  Cardinality({i \in 1 .. Len(s) : s[i] = b}) = IF b \in Elements(s) THEN 1 ELSE 0
  <1>1. CASE b \in Elements(s)
    <2>1. PICK k \in 1 .. Len(s) : s[k] = b
      BY <1>1 DEF Elements
    <2>2. {i \in 1 .. Len(s) : s[i] = b} = {k}
      BY <2>1 DEF Distinct
    <2>3. QED
      BY <1>1, <2>2, FS_Singleton
  <1>2. CASE b \notin Elements(s)
    <2>1. {i \in 1 .. Len(s) : s[i] = b} = {}
      BY <1>2 DEF Elements
    <2>2. QED
      BY <1>2, <2>1, FS_EmptySet
  <1>3. QED
    BY <1>1, <1>2

(* A sequence without repetition is at most as long as its elements are    *)
(* many, and shorter if one is missing.                                    *)
LEMMA DistinctLength ==
  ASSUME NEW S, NEW s \in Seq(S), Distinct(s), IsFiniteSet(S)
  PROVE  Len(s) <= Cardinality(S) /\ (\A x \in S : x \notin Elements(s) => Len(s) < Cardinality(S))
  <1>1. Len(s) \in Nat /\ s \in [1 .. Len(s) -> S]
    BY LenProperties
  <1>2. IsFiniteSet(1 .. Len(s)) /\ Cardinality(1 .. Len(s)) = Len(s)
    BY <1>1, FS_Interval
  <1>3. ASSUME NEW T \in SUBSET S, Elements(s) \subseteq T PROVE Len(s) <= Cardinality(T)
    <2>1. s \in [1 .. Len(s) -> T]
      BY <1>1, <1>3 DEF Elements
    <2>2. IsFiniteSet(T) /\ Cardinality(T) \in Nat
      BY FS_Subset, FS_CardinalityType
    <2>3. CASE Cardinality(T) < Cardinality(1 .. Len(s))
      <3>1. \E i, j \in 1 .. Len(s) : i # j /\ s[i] = s[j]
        BY <1>2, <2>1, <2>2, <2>3, FS_PigeonHole
      <3>2. QED
        BY <3>1 DEF Distinct
    <2>4. QED
      BY <1>1, <1>2, <2>2, <2>3
  <1>4. Elements(s) \subseteq S
    BY <1>1 DEF Elements
  <1>5. ASSUME NEW x \in S, x \notin Elements(s) PROVE Len(s) < Cardinality(S)
    <2>1. Len(s) <= Cardinality(S \ {x})
      BY <1>3, <1>4, <1>5
    <2>2. Cardinality(S \ {x}) = Cardinality(S) - 1 /\ Cardinality(S) \in Nat
      BY FS_RemoveElement, FS_CardinalityType
    <2>3. QED
      BY <1>1, <2>1, <2>2
  <1>6. QED
    BY <1>3, <1>4, <1>5

(* How often a value stands in a sequence.                                 *)
Copies(s, e) == Cardinality({i \in DOMAIN s : s[i] = e})

LEMMA CopiesBounded ==
  ASSUME NEW S, NEW s \in Seq(S), NEW e
  PROVE  /\ IsFiniteSet({i \in DOMAIN s : s[i] = e})
         /\ Copies(s, e) \in Nat /\ Copies(s, e) <= Len(s)
  <1>1. DOMAIN s = 1 .. Len(s) /\ Len(s) \in Nat
    BY LenProperties
  <1>2. IsFiniteSet(1 .. Len(s)) /\ Cardinality(1 .. Len(s)) = Len(s)
    BY <1>1, FS_Interval
  <1>3. {i \in DOMAIN s : s[i] = e} \in SUBSET (1 .. Len(s))
    BY <1>1
  <1>4. IsFiniteSet({i \in DOMAIN s : s[i] = e}) /\ Copies(s, e) <= Len(s)
    BY <1>2, <1>3, FS_Subset DEF Copies
  <1>5. QED
    BY <1>4, FS_CardinalityType DEF Copies

LEMMA AllCopies ==
  ASSUME NEW S, NEW s \in Seq(S), NEW e, \A i \in DOMAIN s : s[i] = e
  PROVE  Copies(s, e) = Len(s)
  <1>1. {i \in DOMAIN s : s[i] = e} = 1 .. Len(s)
    BY LenProperties
  <1>2. Cardinality(1 .. Len(s)) = Len(s)
    <2>1. ASSUME NEW n \in Nat PROVE Cardinality(1 .. n) = n
      BY FS_Interval
    <2>2. Len(s) \in Nat
      BY LenProperties
    <2>3. QED
      BY <2>1, <2>2, Zenon
  <1>3. QED
    BY <1>1, <1>2 DEF Copies

LEMMA CopiesAppend ==
  ASSUME NEW S, NEW s \in Seq(S), NEW x \in S, NEW e
  PROVE  Copies(Append(s, x), e) = IF x = e THEN Copies(s, e) + 1 ELSE Copies(s, e)
  <1> DEFINE t == Append(s, x)
             P == {i \in DOMAIN s : s[i] = e}
  <1>1. /\ DOMAIN s = 1 .. Len(s) /\ Len(s) \in Nat
        /\ t \in Seq(S) /\ Len(t) = Len(s) + 1 /\ DOMAIN t = 1 .. Len(s) + 1
        /\ \A i \in 1 .. Len(s) : t[i] = s[i]
        /\ t[Len(s) + 1] = x
    BY LenProperties, AppendProperties
  <1>2. IsFiniteSet(P) /\ Len(s) + 1 \notin P
    <2>1. IsFiniteSet(P)
      BY CopiesBounded, Zenon
    <2>2. \A i \in P : i # Len(s) + 1
      BY <1>1
    <2>3. QED
      BY <2>1, <2>2
  <1> HIDE DEF t
  <1>3. CASE x = e
    <2>1. {i \in DOMAIN t : t[i] = e} = P \cup {Len(s) + 1}
      BY <1>1, <1>3
    <2>2. QED
      BY <1>2, <1>3, <2>1, FS_AddElement DEF Copies, t
  <1>4. CASE x # e
    <2>1. {i \in DOMAIN t : t[i] = e} = P
      BY <1>1, <1>4
    <2>2. QED
      BY <1>4, <2>1 DEF Copies, t
  <1>5. QED
    BY <1>3, <1>4

(* A sequence that is another without one of its elements. *)
Without(t, s, k) ==
  /\ Len(t) = Len(s) - 1
  /\ \A i \in 1 .. Len(t) : t[i] = s[IF i < k THEN i ELSE i + 1]

LEMMA WithoutPlaces ==
  ASSUME NEW S, NEW s \in Seq(S), NEW t \in Seq(S), NEW k \in 1 .. Len(s), Without(t, s, k)
  PROVE  LET at(i) == IF i < k THEN i ELSE i + 1
         IN  /\ \A i \in DOMAIN t : /\ at(i) \in DOMAIN s /\ t[i] = s[at(i)]
                                   /\ i \in Nat /\ at(i) \in Nat /\ i <= at(i)
             /\ \A i, j \in DOMAIN t : at(i) = at(j) => i = j
  <1>1. /\ DOMAIN s = 1 .. Len(s) /\ Len(s) \in Nat /\ DOMAIN t = 1 .. Len(t)
        /\ Len(t) = Len(s) - 1
        /\ \A i \in 1 .. Len(t) : t[i] = s[IF i < k THEN i ELSE i + 1]
    BY LenProperties DEF Without
  <1>2. QED
    BY <1>1

LEMMA CopiesWithout ==
  ASSUME NEW S, NEW s \in Seq(S), NEW t \in Seq(S), NEW k \in 1 .. Len(s), Without(t, s, k), NEW e
  PROVE  Copies(t, e) <= Copies(s, e)
  <1> DEFINE P == {i \in DOMAIN s : s[i] = e}
             Q == {i \in DOMAIN t : t[i] = e}
             f == [i \in Q |-> IF i < k THEN i ELSE i + 1]
  <1>1. /\ DOMAIN s = 1 .. Len(s) /\ Len(s) \in Nat /\ DOMAIN t = 1 .. Len(t)
        /\ Len(t) = Len(s) - 1
        /\ \A i \in 1 .. Len(t) : t[i] = s[IF i < k THEN i ELSE i + 1]
    BY LenProperties DEF Without
  <1>2. \A i \in Q : (IF i < k THEN i ELSE i + 1) \in P
    BY <1>1
  <1>3. \A i, j \in Q : (IF i < k THEN i ELSE i + 1) = (IF j < k THEN j ELSE j + 1) => i = j
    BY <1>1
  <1>4. f \in [Q -> P] /\ \A i, j \in Q : f[i] = f[j] => i = j
    BY <1>2, <1>3
  <1> HIDE DEF f, P, Q
  <1>5. f \in Injection(Q, P)
    BY <1>4 DEF Injection, IsInjective
  <1>6. IsFiniteSet(P)
    BY CopiesBounded DEF P
  <1>7. Cardinality(Q) <= Cardinality(P)
    BY <1>5, <1>6, FS_Injection
  <1>8. QED
    BY <1>7 DEF Copies, P, Q

LEMMA TailWithout ==
  ASSUME NEW S, NEW s \in Seq(S), s # <<>>
  PROVE  Tail(s) \in Seq(S) /\ Without(Tail(s), s, 1) /\ 1 \in 1 .. Len(s)
  <1>1. /\ Tail(s) \in Seq(S) /\ Len(Tail(s)) = Len(s) - 1 /\ Len(s) \in Nat /\ Len(s) # 0
        /\ \A i \in 1 .. Len(Tail(s)) : Tail(s)[i] = s[i + 1]
    BY HeadTailProperties, LenProperties, EmptySeq
  <1>2. \A i \in 1 .. Len(Tail(s)) : ~(i < 1)
    BY <1>1
  <1>3. QED
    BY <1>1, <1>2 DEF Without

(* The one element of the middle of three sequences taken out.             *)
LEMMA MiddleWithout ==
  ASSUME NEW S, NEW r \in Seq(S), NEW m \in Seq(S), NEW q \in Seq(S), Len(m) = 1
  PROVE  /\ r \o m \o q \in Seq(S) /\ r \o q \in Seq(S)
         /\ Len(r) + 1 \in 1 .. Len(r \o m \o q)
         /\ Without(r \o q, r \o m \o q, Len(r) + 1)
  <1>1. Len(r) \in Nat /\ Len(q) \in Nat
    BY LenProperties
  <1>2. /\ r \o m \in Seq(S) /\ Len(r \o m) = Len(r) + 1
        /\ \A i \in 1 .. Len(r) : (r \o m)[i] = r[i]
    <2>1. /\ r \o m \in Seq(S) /\ Len(r \o m) = Len(r) + Len(m)
          /\ \A i \in 1 .. Len(r) + Len(m) : (r \o m)[i] = IF i <= Len(r) THEN r[i] ELSE m[i - Len(r)]
      BY ConcatProperties
    <2>2. \A i \in 1 .. Len(r) : i \in 1 .. Len(r) + Len(m) /\ i <= Len(r)
      BY <1>1
    <2>3. \A i \in 1 .. Len(r) : (r \o m)[i] = r[i]
      BY <2>1, <2>2
    <2>4. QED
      BY <2>1, <2>3
  <1> DEFINE w == r \o m
  <1>3. /\ w \o q \in Seq(S) /\ Len(w \o q) = Len(r) + 1 + Len(q)
        /\ \A i \in 1 .. Len(r) + 1 + Len(q) : (w \o q)[i] = IF i <= Len(r) + 1 THEN w[i] ELSE q[i - (Len(r) + 1)]
    <2>1. w \in Seq(S) /\ Len(w) = Len(r) + 1
      BY <1>2
    <2> HIDE DEF w
    <2>2. /\ w \o q \in Seq(S) /\ Len(w \o q) = Len(w) + Len(q)
          /\ \A i \in 1 .. Len(w) + Len(q) : (w \o q)[i] = IF i <= Len(w) THEN w[i] ELSE q[i - Len(w)]
      BY <2>1, ConcatProperties
    <2>3. QED
      BY <2>1, <2>2
  <1>4. \A i \in 1 .. Len(r) : w[i] = r[i]
    BY <1>2
  <1> DEFINE s == w \o q
             t == r \o q
  <1>5. /\ t \in Seq(S) /\ Len(t) = Len(r) + Len(q)
        /\ \A i \in 1 .. Len(r) + Len(q) : t[i] = IF i <= Len(r) THEN r[i] ELSE q[i - Len(r)]
    BY ConcatProperties
  <1>6. ASSUME NEW i \in 1 .. Len(r) + Len(q)
        PROVE  t[i] = s[IF i < Len(r) + 1 THEN i ELSE i + 1]
    <2>1. CASE i <= Len(r)
      <3>1. i < Len(r) + 1 /\ i \in 1 .. Len(r) + 1 + Len(q) /\ i <= Len(r) + 1
        BY <1>1, <2>1
      <3>2. s[i] = w[i] /\ w[i] = r[i] /\ t[i] = r[i]
        BY <1>1, <1>3, <1>4, <1>5, <2>1, <3>1
      <3>3. QED
        BY <3>1, <3>2
    <2>2. CASE ~(i <= Len(r))
      <3>1. /\ ~(i < Len(r) + 1) /\ i + 1 \in 1 .. Len(r) + 1 + Len(q) /\ ~(i + 1 <= Len(r) + 1)
            /\ (i + 1) - (Len(r) + 1) = i - Len(r)
        BY <1>1, <2>2
      <3>2. s[i + 1] = q[i - Len(r)] /\ t[i] = q[i - Len(r)]
        BY <1>3, <1>5, <2>2, <3>1
      <3>3. QED
        BY <3>1, <3>2
    <2>3. QED
      BY <2>1, <2>2
  <1>7. Len(s) = Len(r) + 1 + Len(q) /\ s \in Seq(S)
    BY <1>3
  <1> HIDE DEF s, t
  <1>8. Without(t, s, Len(r) + 1) /\ Len(r) + 1 \in 1 .. Len(s)
    BY <1>1, <1>5, <1>6, <1>7 DEF Without
  <1>9. QED
    BY <1>5, <1>7, <1>8 DEF s, t
-----------------------------------------------------------------------------
(* The age of a wait of n ticks with d of them left, p units into a tick,  *)
(* had it begun on a tick: its true age is at most this, and less than a   *)
(* tick below it.                                                          *)
Elapsed(n, d, p) == (n - d) * Grain + p

LEMMA GrainIsPositive == Grain \in Nat /\ Grain > 0
BY GrainAssumption

LEMMA TicksInUnits ==
  ASSUME NEW n \in Nat
  PROVE  n * Grain \in Nat /\ (n + 1) * Grain = n * Grain + Grain
<1>1. ASSUME NEW k \in Nat, NEW m \in Nat PROVE k * m \in Nat /\ (k + 1) * m = k * m + m
  BY SMT
<1>2. QED
  BY <1>1, GrainIsPositive

LEMMA TicksAdded ==
  ASSUME NEW n \in Nat, NEW m \in Nat
  PROVE  (n + m) * Grain = n * Grain + m * Grain
<1>1. ASSUME NEW j \in Nat, NEW k \in Nat, NEW g \in Nat PROVE (j + k) * g = j * g + k * g
  BY SMT
<1>2. QED
  BY <1>1, GrainIsPositive

LEMMA TicksOrdered ==
  ASSUME NEW n \in Nat, NEW m \in Nat, n <= m
  PROVE  n * Grain <= m * Grain
<1>1. ASSUME NEW j \in Nat, NEW k \in Nat, NEW g \in Nat
      PROVE  (j + k) * g = j * g + k * g /\ j * g \in Nat /\ k * g \in Nat
  BY SMT
<1>2. m - n \in Nat /\ m = n + (m - n)
  OBVIOUS
<1>3. PICK k \in Nat : m = n + k
  BY <1>2
<1>4. QED
  BY <1>1, <1>3, GrainIsPositive

(* A wait that has just begun.                                             *)
LEMMA ElapsedAtStart ==
  ASSUME NEW n \in Nat, NEW d \in Nat, d <= n, NEW p \in 0 .. Grain - 1
  PROVE  /\ Elapsed(n, d, p) \in Nat
         /\ Elapsed(n, n, p) = p
<1>1. n - d \in Nat /\ n - n = 0 /\ 0 * Grain = 0 /\ p \in Nat
  BY GrainIsPositive
<1>2. QED
  BY <1>1, TicksInUnits DEF Elapsed

(* A wait that is not over is younger than n ticks; one unit brings it one *)
(* unit on, and its end comes when the n ticks are full.                   *)
LEMMA ElapsedGrows ==
  ASSUME NEW n \in Nat, NEW d \in Nat, d > 0, d <= n, NEW p \in 0 .. Grain - 1
  PROVE  /\ NextPhase(p) \in 0 .. Grain - 1
         /\ Elapse(d, p) \in Nat /\ Elapse(d, p) <= d
         /\ Elapsed(n, d, p) \in Nat /\ Elapsed(n, d, p) < n * Grain
         /\ Elapsed(n, Elapse(d, p), NextPhase(p)) = Elapsed(n, d, p) + 1
         /\ Elapse(d, p) = 0 => Elapsed(n, d, p) + 1 = n * Grain
<1>1. Grain \in Nat /\ Grain > 0 /\ p \in Nat /\ p <= Grain - 1
  BY GrainIsPositive
<1>2. PICK m \in Nat : m = n - d
  <2>1. n - d \in Nat
    OBVIOUS
  <2>2. QED
    BY <2>1
<1>3. m * Grain \in Nat /\ (m + 1) * Grain = m * Grain + Grain /\ n * Grain \in Nat
  BY <1>2, TicksInUnits
<1>4. (m + 1) * Grain <= n * Grain
  <2>1. m + 1 \in Nat /\ m + 1 <= n
    BY <1>2
  <2>2. QED
    BY <2>1, TicksOrdered
<1>5. Elapsed(n, d, p) = m * Grain + p
  BY <1>2 DEF Elapsed
<1>6. CASE p + 1 = Grain
  <2>1. NextPhase(p) = 0 /\ Elapse(d, p) = d - 1
    BY <1>1, <1>6 DEF NextPhase, Elapse
  <2>2. n - (d - 1) = m + 1 /\ (d - 1 = 0 => m + 1 = n) /\ d - 1 \in Nat
    BY <1>2
  <2>3. Elapsed(n, d - 1, 0) = (m + 1) * Grain
    BY <1>1, <1>3, <2>2 DEF Elapsed
  <2>4. QED
    BY <1>1, <1>3, <1>4, <1>5, <1>6, <2>1, <2>2, <2>3
<1>7. CASE p + 1 # Grain
  <2>1. NextPhase(p) = p + 1 /\ Elapse(d, p) = d
    BY <1>1, <1>7 DEF NextPhase, Elapse
  <2>2. Elapsed(n, d, p + 1) = m * Grain + (p + 1)
    BY <1>2 DEF Elapsed
  <2>3. QED
    BY <1>1, <1>3, <1>4, <1>5, <1>7, <2>1, <2>2
<1>8. QED
  BY <1>6, <1>7

(* What is left of a wait with d ticks to go, p units into a tick.         *)
ToGo(d, p) == d * Grain - p

LEMMA LeftShrinks ==
  ASSUME NEW d \in Nat, d > 0, NEW p \in 0 .. Grain - 1
  PROVE  /\ ToGo(d, p) \in Nat /\ ToGo(d, p) > 0 /\ ToGo(d, p) <= d * Grain
         /\ ToGo(Elapse(d, p), NextPhase(p)) = ToGo(d, p) - 1
         /\ Elapse(d, p) = 0 => ToGo(d, p) = 1
<1>1. Grain \in Nat /\ Grain > 0 /\ p \in Nat /\ p <= Grain - 1
  BY GrainIsPositive
<1>2. PICK m \in Nat : d = m + 1
  <2>1. d - 1 \in Nat /\ d = (d - 1) + 1
    OBVIOUS
  <2>2. QED
    BY <2>1
<1>3. PICK t \in Nat : t = m * Grain /\ d * Grain = t + Grain
  <2>1. m * Grain \in Nat /\ d * Grain = m * Grain + Grain
    BY <1>2, TicksInUnits, Zenon
  <2>2. QED
    BY <2>1
<1>4. \A q : ToGo(d, q) = (t + Grain) - q
  BY <1>3, Zenon DEF ToGo
<1>5. CASE p + 1 = Grain
  <2>1. NextPhase(p) = 0 /\ Elapse(d, p) = m
    BY <1>1, <1>2, <1>5 DEF NextPhase, Elapse
  <2>2. ToGo(m, 0) = t /\ (m = 0 => t = 0)
    BY <1>1, <1>3 DEF ToGo
  <2>3. QED
    BY <1>1, <1>2, <1>3, <1>4, <1>5, <2>1, <2>2
<1>6. CASE p + 1 # Grain
  <2>1. NextPhase(p) = p + 1 /\ Elapse(d, p) = d
    BY <1>1, <1>6 DEF NextPhase, Elapse
  <2>2. ToGo(d, p + 1) = (t + Grain) - (p + 1)
    BY <1>4
  <2>3. QED
    BY <1>1, <1>2, <1>3, <1>4, <1>6, <2>1, <2>2
<1>7. QED
  BY <1>5, <1>6

LEMMA NoWaitStaysOver ==
  ASSUME NEW p \in 0 .. Grain - 1
  PROVE  Elapse(0, p) = 0 /\ NextPhase(p) \in 0 .. Grain - 1
BY GrainIsPositive DEF Elapse, NextPhase

(* Whole ticks of a time in units.                                         *)
LEMMA WholeTicks ==
  ASSUME NEW t \in Nat
  PROVE  /\ t \div Grain \in Nat
         /\ (t \div Grain) * Grain <= t
         /\ t < (t \div Grain) * Grain + Grain
<1>1. ASSUME NEW g \in Nat, g > 0 PROVE t \div g \in Nat
  BY <1>1, SMT
<1>2. ASSUME NEW g \in Nat, g > 0 PROVE g * (t \div g) <= t
  BY <1>2, SMT
<1>3. ASSUME NEW g \in Nat, g > 0 PROVE t < g * (t \div g) + g
  BY <1>3, SMT
<1>4. ASSUME NEW k \in Nat, NEW m \in Nat PROVE k * m = m * k
  BY SMT
<1>5. t \div Grain \in Nat /\ (t \div Grain) * Grain = Grain * (t \div Grain)
  BY <1>1, <1>4, GrainIsPositive
<1>6. QED
  BY <1>2, <1>3, <1>5, GrainIsPositive

(* A clock that wraps is never ahead of the time it measures.              *)
LEMMA ClockWraps ==
  ASSUME NEW t \in Nat, NEW w \in Nat, w > 0
  PROVE  t % w \in 0 .. w - 1 /\ t % w <= t
BY SMT

(* A product that the provers only know by the two lemmas about it.        *)
Product(n, t) == n * t

LEMMA ProductFewer ==
  ASSUME NEW n \in Nat, NEW t \in Nat
  PROVE  Product(n, t) \in Nat /\ Product(n + 1, t) = Product(n, t) + t /\ Product(0, t) = 0
  BY SMT DEF Product

LEMMA ProductOrdered ==
  ASSUME NEW n \in Nat, NEW m \in Nat, n <= m, NEW t \in Nat
  PROVE  Product(n, t) <= Product(m, t) /\ Product(n, t) \in Nat /\ Product(m, t) \in Nat
  <1>1. PICK k \in Nat : m = n + k
    <2>1. m - n \in Nat /\ m = n + (m - n)
      OBVIOUS
    <2>2. QED
      BY <2>1
  <1>2. n * t \in Nat /\ k * t \in Nat /\ (n + k) * t = n * t + k * t
    BY SMT
  <1>3. QED
    BY <1>1, <1>2 DEF Product
=============================================================================
