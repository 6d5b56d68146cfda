----------------------------- MODULE UtfConvert -----------------------------
(***************************************************************************)
(* utf_convert.cpp: a text in UTF-8, or in Latin-1, to letters the display *)
(* has, into a buffer of a given size.  A text is the sequence of its      *)
(* bytes up to the terminating 0.                                          *)
(***************************************************************************)
EXTENDS Naturals, Sequences

CONSTANT Conversion \* the tables: a letter for each pair of bytes in them

ASSUME ConversionAssumption ==
  /\ DOMAIN Conversion \subseteq (0 .. 255) \X (0 .. 255)
  /\ \A cp \in DOMAIN Conversion : Conversion[cp] \in Nat

(* lookup2 and find2: no letter for what the tables do not have.           *)
Lookup2(lead, trail) ==
  IF <<lead, trail>> \in DOMAIN Conversion THEN <<Conversion[<<lead, trail>>]>> ELSE <<>>

IsCont(b) == b \div 64 = 2

(* The bytes a sequence with this first one has.                           *)
SequenceLength(b) ==
  IF b < 128 THEN 1
  ELSE IF b \div 32 = 6 THEN 2
  ELSE IF b \div 16 = 14 THEN 3
  ELSE IF b \div 8 = 30 THEN 4 ELSE 0

(* One turn of the loop at a position of the text: the letters it gives    *)
(* and the bytes it takes.                                                 *)
Turn(from, p) ==
  LET b == from[p]
      len == SequenceLength(b)
      cont(i) == p + i <= Len(from) /\ IsCont(from[p + i])
      valid == len > 1 /\ \A i \in 1 .. len - 1 : cont(i)
      brokenAt == CHOOSE n \in 1 .. len : ~cont(n) /\ \A i \in 1 .. n - 1 : cont(i)
      letter == IF b >= 192 THEN Lookup2(195, 128 + (b % 64)) ELSE <<>>
  IN IF len = 1 THEN [letters |-> <<b>>, bytes |-> 1]
     ELSE IF valid THEN [letters |-> IF len = 2 THEN Lookup2(b, from[p + 1]) ELSE <<>>, bytes |-> len]
     ELSE IF len > 1 /\ cont(1) THEN [letters |-> <<>>, bytes |-> brokenAt]
     ELSE [letters |-> letter, bytes |-> 1]

(* The letters of the text from each position on, as many as there is room *)
(* for besides the terminator.                                             *)
Convert(from, size) ==
  LET converted[p \in 1 .. Len(from) + 1, room \in 0 .. size - 1] ==
        IF p > Len(from) \/ room = 0 THEN <<>>
        ELSE LET turn == Turn(from, p)
             IN turn.letters \o converted[p + turn.bytes, room - Len(turn.letters)]
  IN converted[1, size - 1]
=============================================================================
