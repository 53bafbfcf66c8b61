--------------------------------- MODULE Der --------------------------------
(***************************************************************************)
(* Nodes of the distinguished encoding rules: a tag, a length and a body,  *)
(* and the integers and strings of bits inside of bodies.                  *)
(***************************************************************************)
EXTENDS Wire

LOCAL INSTANCE SequencesExt

CONSTANTS
  MaxOctets, \* 4: the bytes of a length in the long form
  TagBoolean, TagInteger, TagBits, TagOctets, TagNull, TagOid, TagUtf8,
  TagPrintable, TagIa5, TagSequence, TagSet, TagUtcTime, TagTime,
  TagContext, \* 0xA0: a tag of the context, constructed
  TagImplicit \* 0x80: a tag of the context, primitive

ASSUME DerAssumption ==
  /\ Base % 2 = 0 /\ MaxOctets \in 1 .. Base \div 2 - 1
  /\ TagImplicit \in Nat /\ TagContext > TagImplicit + 6 /\ TagContext + 3 \in Byte

Half == Base \div 2

Octets(n) == CHOOSE k \in 1 .. MaxOctets :
  n <= Largest(k) /\ \A j \in 1 .. k - 1 : n > Largest(j)
EncodeLength(n) ==
  IF n < Half THEN <<n>> ELSE <<Half + Octets(n)>> \o Number(n, Octets(n))

\* parse_der_length: Some [length, size], of the shortest form only.
ParseLength(s) ==
  LET octets == Head(s) - Half IN
  IF s = <<>> THEN None
  ELSE IF Head(s) < Half THEN Some([length |-> Head(s), size |-> 1])
  ELSE IF octets \notin 1 .. MaxOctets \/ Len(s) < 1 + octets THEN None
  ELSE OnlyIf(s[2] # 0 /\ (octets = 1 => s[2] >= Half),
              [length |-> At(s, 1, octets), size |-> 1 + octets])

EncodeNode(tag, body) == <<tag>> \o EncodeLength(Len(body)) \o body

\* The bytes of the first node.
NodeSize(s) ==
  LET length == ParseLength(Tail(s)) IN
  IF Len(s) < 2 \/ length = None THEN Malformed(s)
  ELSE 1 + length[1].size + length[1].length
NodeIn(s) == [tag |-> Head(s), body |-> Drop(s, 1 + ParseLength(Tail(s))[1].size)]

\* parse_der_node: Some [tag, body, rest].
ParseNode(s) ==
  LET first == Take(s, NodeSize(s)) IN
  IF s = <<>> \/ NodeSize(s) > Len(s) THEN None
  ELSE Some([tag |-> NodeIn(first).tag, body |-> NodeIn(first).body,
             rest |-> Drop(s, NodeSize(s))])

\* All nodes of a body, if it is nodes all through.
Nodes(s) ==
  LET items == Items(s, NodeSize) IN
  IF items = None THEN None
  ELSE Some([i \in DOMAIN items[1] |-> NodeIn(items[1][i])])

\* The first nodes, with what is behind them, which need not be nodes.
Leading(s, n) ==
  LET Further(read, i) ==
        LET node == ParseNode(read[1].rest) IN
        IF read = None THEN None ELSE IF node = None THEN None
        ELSE Some([nodes |-> Append(read[1].nodes, [tag |-> node[1].tag,
                                                    body |-> node[1].body]),
                   rest |-> node[1].rest])
  IN FoldLeft(Further, Some([nodes |-> <<>>, rest |-> s]), [i \in 1 .. n |-> i])

\* The body of the one node of this tag that there is.
Sole(s, tag) ==
  LET node == ParseNode(s) IN
  IF node = None THEN None
  ELSE OnlyIf(node[1].tag = tag /\ node[1].rest = <<>>, node[1].body)

\* The nodes of the one sequence that there is.
SoleSequence(s) ==
  LET body == Sole(s, TagSequence) IN IF body = None THEN None ELSE Nodes(body[1])

Tags(nodes) == [i \in DOMAIN nodes |-> nodes[i].tag]

-----------------------------------------------------------------------------
(***************************************************************************)
(* Integers and strings of bits.                                           *)
(***************************************************************************)

Significant(bytes) ==
  LET used == {i \in DOMAIN bytes : bytes[i] # 0} IN
  IF used = {} THEN <<0>>
  ELSE Drop(bytes, (CHOOSE i \in used : \A j \in used : i <= j) - 1)

\* write_der_integer, encode_der_integer: of a number that is not negative.
EncodeInteger(bytes) ==
  LET body == Significant(bytes) IN
  EncodeNode(TagInteger, IF Head(body) >= Half THEN <<0>> \o body ELSE body)

\* Neither negative nor longer than it has to be.
Minimal(bytes) ==
  /\ bytes # <<>> /\ Head(bytes) < Half
  /\ Len(bytes) > 1 /\ Head(bytes) = 0 => bytes[2] >= Half

\* parse_der_positive_integer_u32: what does not fit is cut off at the top,
\* where the five bytes begin with more than a 0.
ParseU32(bytes) ==
  OnlyIf(Minimal(bytes) /\ Len(bytes) <= U32 + 1,
         Value(bytes) % Base ^ U32)

\* parse_der_integer of the key formats: the magnitude.
ParseMagnitude(bytes) ==
  OnlyIf(bytes # <<>>,
         IF Len(bytes) > 1 /\ Head(bytes) = 0 THEN Tail(bytes) ELSE bytes)

\* der_integer_to_p256_scalar: in the width of a scalar.
ParseScalar(bytes, width) ==
  LET magnitude == ParseMagnitude(bytes)[1] IN
  IF ~Minimal(bytes) \/ Len(magnitude) > width THEN None
  ELSE Some([i \in 1 .. width - Len(magnitude) |-> 0] \o magnitude)

\* A string of bits with none unused in its last byte.
EncodeBits(bytes) == EncodeNode(TagBits, <<0>> \o bytes)
=============================================================================
