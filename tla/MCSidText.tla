----------------------------- MODULE MCSidText -----------------------------
(***************************************************************************)
(* A display of three characters, and songs that fit it to the last        *)
(* letter, that do not by one, that have no artist or nothing, and that    *)
(* are longer than their buffers; letters of two bytes and of Latin-1, a   *)
(* dash of three bytes, and texts that are cut off in a character.         *)
(***************************************************************************)
EXTENDS SidText, SequencesExt

MCSeparator == <<45>>
MCConversion == (<<195, 165>> :> 1001) @@ (<<196, 129>> :> 1002)

(* Characters as they are encoded, and the letters they are to be shown as.*)
a == [bytes |-> <<97>>, letters |-> <<97>>]
aRing == [bytes |-> <<195, 165>>, letters |-> <<1001>>]
aMacron == [bytes |-> <<196, 129>>, letters |-> <<1002>>]
unknown == [bytes |-> <<199, 128>>, letters |-> <<>>]
dash == [bytes |-> <<226, 128, 147>>, letters |-> <<>>]
note == [bytes |-> <<240, 159, 142, 181>>, letters |-> <<>>]
aRingLatin1 == [bytes |-> <<229>>, letters |-> <<1001>>]
Utf8 == {a, aRing, aMacron, unknown, dash, note}
Latin1 == {a, aRingLatin1}

Bytes(s) == FlattenSeq([i \in DOMAIN s |-> s[i].bytes])
Says(s) == FlattenSeq([i \in DOMAIN s |-> s[i].letters])

(* The text of a line that ends after two bytes of a dash or a note.       *)
CutOff(s, c) == Bytes(s) \o SubSeq(c.bytes, 1, 2)

Reads(s) == Bytes(s) :> Says(s)
ReadsCutOff(s, c) == CutOff(s, c) :> Says(s)
MCLetters == Reads(<<>>) @@ Reads(<<aRing, a>>) @@ ReadsCutOff(<<a>>, note)
             @@ Reads(<<a, dash>>) @@ ReadsCutOff(<<a>>, dash)
             @@ Reads(<<aRingLatin1, a, a, aMacron, a>>)
MCSongs == {[artist |-> Bytes(<<aRing, a>>), title |-> CutOff(<<a>>, note)],
            [artist |-> Bytes(<<a, dash>>), title |-> CutOff(<<a>>, dash)],
            [artist |-> <<>>, title |-> Bytes(<<aRingLatin1, a, a, aMacron, a>>)],
            [artist |-> <<>>, title |-> <<>>]}
ASSUME SongsConverted == TextsConverted
MCGrants == [t \in Temps |-> IF t = "PAIRING" THEN 2 ELSE 1]

-----------------------------------------------------------------------------
(* utf_convert over all texts of up to four characters, in either code:    *)
(* their letters as far as there is room, in one go.                       *)
Sizes == {1, 3, 9}
ASSUME ConvertsCharacters ==
  \A n \in 0 .. 4, size \in Sizes : \A s \in [1 .. n -> Utf8] \cup [1 .. n -> Latin1] :
    Convert(Bytes(s), size) = SubSeq(Says(s), 1, IF Len(Says(s)) < size THEN Len(Says(s)) ELSE size - 1)

(* A text in UTF-8 that was cut off after the second byte of a character   *)
(* or later shows the characters before it, and nothing of the last.       *)
ASSUME DropsCutCharacter ==
  \A n \in 0 .. 3 : \A s \in [1 .. n -> Utf8], c \in {dash, note} : \A k \in 2 .. Len(c.bytes) - 1 :
    Convert(Bytes(s) \o SubSeq(c.bytes, 1, k), 9) = Says(s)

(* Whatever bytes come, ASCII is never swallowed nor made up, and the      *)
(* buffer is never exceeded.                                               *)
SomeBytes == {97, 128, 165, 195, 226, 229, 240, 255}
Ascii(s) == SelectSeq(s, LAMBDA b : b < 128)
ASSUME KeepsAscii ==
  \A n \in 0 .. 5 : \A s \in [1 .. n -> SomeBytes] :
    /\ Ascii(Convert(s, 6)) = Ascii(s)
    /\ \A size \in 1 .. 3 : Len(Convert(s, size)) < size
=============================================================================
