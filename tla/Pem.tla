--------------------------------- MODULE Pem --------------------------------
(***************************************************************************)
(* Binary data as text: base64 in lines between a BEGIN and an END that    *)
(* name what it is.  A line is [mark, label, text]; text holds the values  *)
(* of its characters, NotBase64 for every character that has none.         *)
(***************************************************************************)
EXTENDS Wire

LOCAL INSTANCE SequencesExt

CONSTANTS
  ByteValues, \* 256
  Sextets,    \* 64: the characters that stand for a number
  LineLen,    \* 64
  Blank,      \* a space, and a control character, in a label
  ControlMark

ASSUME PemAssumption ==
  /\ ByteValues \in Nat \ {0} /\ Sextets \in Nat \ {0} /\ LineLen \in Nat \ {0}
  /\ ByteValues ^ 3 = Sextets ^ 4

PadMark == Sextets
NotBase64 == Sextets + 1

Digit(n, base, place) == (n \div base ^ place) % base
Joined(digits, base) == FoldLeft(LAMBDA n, d : n * base + d, 0, digits)
Filled(s, n) == s \o [i \in 1 .. n - Len(s) |-> 0]

EncodeBase64(bytes) ==
  FlattenSeq([i \in DOMAIN Chunks(bytes, 3) |->
    LET chunk == Chunks(bytes, 3)[i]
        n == Joined(Filled(chunk, 3), ByteValues)
    IN [k \in 1 .. 4 |->
          IF k <= Len(chunk) + 1 THEN Digit(n, Sextets, 4 - k) ELSE PadMark]])

\* decode_base64: a sequence of at most one byte string.  Bits that the last
\* byte has no use for are dropped, whatever they are.
DecodeBase64(text) ==
  LET groups == Chunks(text, 4)
      Padding(group) == Len(SelectSeq(group, LAMBDA c : c = PadMark))
      Sound(i) ==
        /\ Padding(groups[i]) <= IF i = Len(groups) THEN 2 ELSE 0
        /\ \A k \in 1 .. 4 - Padding(groups[i]) : groups[i][k] < Sextets
      Bytes(group) ==
        LET used == SelectSeq(group, LAMBDA c : c # PadMark) IN
        [k \in 1 .. 3 - Padding(group) |->
           Digit(Joined(Filled(used, 4), Sextets), ByteValues, 3 - k)]
  IN
  IF Len(text) % 4 # 0 \/ \E i \in DOMAIN groups : ~Sound(i) THEN <<>>
  ELSE <<FlattenSeq([i \in DOMAIN groups |-> Bytes(groups[i])])>>

-----------------------------------------------------------------------------
MarkerLine(mark, label) == [mark |-> mark, label |-> label, text |-> <<>>]
TextLine(text) == [mark |-> "none", label |-> <<>>, text |-> text]

SoundLabel(label) == label # <<>> /\ ~Contains(label, ControlMark)

\* der_to_pem
DerToPem(der, label) ==
  IF der = <<>> \/ ~SoundLabel(label) THEN <<>>
  ELSE LET chunks == Chunks(EncodeBase64(der), LineLen) IN
       << <<MarkerLine("begin", label)>>
          \o [i \in DOMAIN chunks |-> TextLine(chunks[i])]
          \o <<MarkerLine("end", label)>> >>

\* parse_pem_marker_label: a label is read without the blanks around it, and
\* a marker that has no other label is text.  (A line of five to nine dashes
\* and nothing else, which stops the program, is none of the lines here.)
Trim(label) ==
  LET kept == {i \in DOMAIN label : label[i] # Blank}
      first == CHOOSE i \in kept : \A j \in kept : i <= j
      last == CHOOSE i \in kept : \A j \in kept : j <= i
  IN IF kept = {} THEN <<>> ELSE SubSeq(label, first, last)
Marks(line, mark) == line.mark = mark /\ Trim(line.label) # <<>>
Characters(line) == IF line.mark = "none" THEN line.text ELSE <<NotBase64>>

\* What one line changes; open is the label of the block it is in, or <<>>.
AfterLine(label, read, line) ==
  IF read.failed THEN read
  ELSE IF Marks(line, "begin")
  THEN [read EXCEPT !.failed = read.open # <<>>, !.open = Trim(line.label), !.payload = <<>>]
  ELSE IF Marks(line, "end")
  THEN LET decoded == DecodeBase64(read.payload)
           wanted == read.open = label
       IN [failed |-> \/ read.open = <<>> \/ read.open # Trim(line.label)
                      \/ wanted /\ (read.payload = <<>> \/ decoded = <<>>),
           open |-> <<>>, payload |-> <<>>,
           blocks |-> IF wanted THEN read.blocks \o decoded ELSE read.blocks]
  ELSE IF read.open = <<>> THEN read
  ELSE [read EXCEPT !.payload = @ \o Characters(line)]

\* pem_to_der_blocks: a sequence of at most one list of blocks.
PemToBlocks(lines, label) ==
  LET read == FoldLeft(LAMBDA r, line : AfterLine(label, r, line),
                       [failed |-> FALSE, open |-> <<>>, payload |-> <<>>, blocks |-> <<>>],
                       lines)
  IN IF ~SoundLabel(label) \/ read.failed \/ read.open # <<>> \/ read.blocks = <<>>
     THEN <<>> ELSE <<read.blocks>>

\* pem_to_der: of the one block that there is.
PemToDer(lines, label) ==
  LET blocks == PemToBlocks(lines, label) IN
  IF blocks = <<>> THEN <<>> ELSE IF Len(blocks[1]) # 1 THEN <<>> ELSE blocks[1]
=============================================================================
