--------------------------------- MODULE Wire -------------------------------
(***************************************************************************)
(* Byte strings: numbers of a fixed width, vectors behind their length,    *)
(* and lists of items that say their own length.  An optional value is a   *)
(* sequence of at most one.                                                *)
(***************************************************************************)
EXTENDS Integers, Sequences, FiniteSets

LOCAL INSTANCE SequencesExt
LOCAL INSTANCE Functions

CONSTANTS
  Base,   \* 256: the values of a byte
  BitsPerByte, \* 8
  U8,     \* 1, 2, 3, 4: the bytes of a number of each type
  U16,
  U24,
  U32

ASSUME WireAssumption ==
  /\ BitsPerByte \in Nat \ {0} /\ Base = 2 ^ BitsPerByte
  /\ {U8, U16, U24, U32} \subseteq Nat \ {0} /\ U8 <= U16 /\ U16 <= U24

Byte == 0 .. Base - 1

None == <<>>
Some(x) == <<x>>
OnlyIf(condition, x) == IF condition THEN Some(x) ELSE None

Take(s, n) == SubSeq(s, 1, n)
Drop(s, n) == SubSeq(s, n + 1, Len(s))
Slice(s, from, n) == SubSeq(s, from + 1, from + n)

\* A sequence in pieces of n, the last one perhaps shorter.
Chunks(s, n) ==
  [i \in 1 .. (Len(s) + n - 1) \div n |->
     SubSeq(s, (i - 1) * n + 1, IF i * n < Len(s) THEN i * n ELSE Len(s))]

\* The largest number of a width.
Largest(width) == Base ^ width - 1

\* to_be_bytes after a cast to the width, and from_be_bytes.
Number(n, width) == [i \in 1 .. width |-> (n \div Base ^ (width - i)) % Base]
Value(s) == FoldLeft(LAMBDA n, byte : n * Base + byte, 0, s)

\* What a number of this width says at an offset that is inside of s.
At(s, offset, width) == Value(Slice(s, offset, width))

Vector(width, s) == Number(Len(s), width) \o s

\* The contents, if the length is that of all the rest.
ParseVector(width, s) ==
  IF Len(s) < width \/ Len(s) # width + At(s, 0, width) THEN None
  ELSE Some(Drop(s, width))

\* The items of a list, where Size(rest) is the length of the first item of
\* the rest, or more than there is when it is malformed; None unless they
\* fill the list.
Items(s, Size(_)) ==
  LET RECURSIVE From(_)
      From(rest) ==
        IF rest = <<>> THEN Some(<<>>)
        ELSE IF Size(rest) > Len(rest) THEN None
        ELSE LET others == From(Drop(rest, Size(rest))) IN
             IF others = None THEN None
             ELSE Some(<<Take(rest, Size(rest))>> \o others[1])
  IN From(s)
Malformed(s) == Len(s) + 1

\* Items of a fixed head and a vector.
HeadedSize(s, head, width) ==
  IF Len(s) < head + width THEN Malformed(s) ELSE head + width + At(s, head, width)

\* Numbers of one width, one behind the other.
Numbers(s, width) ==
  [i \in 1 .. Len(s) \div width |-> At(s, (i - 1) * width, width)]

EncodedNumbers(numbers, width) ==
  FlattenSeq([i \in DOMAIN numbers |-> Number(numbers[i], width)])
=============================================================================
