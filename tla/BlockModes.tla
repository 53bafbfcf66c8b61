------------------------------ MODULE BlockModes ----------------------------
(***************************************************************************)
(* The modes of operation over block ciphers and over the ChaCha20 stream: *)
(* what is enciphered with what, and what a tag is computed from.  The     *)
(* ciphers themselves are any permutations of their blocks, the one-time   *)
(* authenticator any function.                                             *)
(***************************************************************************)
EXTENDS Wire

LOCAL INSTANCE SequencesExt
LOCAL INSTANCE Bitwise

CONSTANTS
  Aes, AesTweak, Camellia, Aria, Des,  \* ciphers, each under a key
  BlockLen,          \* 16, of Des 8: the bytes of a block of each
  Encipher(_, _),    \* the permutation of the blocks of a cipher
  Decipher(_, _),
  CounterLen,        \* 4: the bytes of the counter in a block of GCM
  Reduction,         \* the bits 11100001 and zeros: the polynomial of GCM
  Feedback,          \* 0x87: the polynomial of XTS
  CcmNonces,         \* 7 .. 13: lengths of a nonce
  AadFlag, MacFlag,  \* 0x40 and 7 << 3, in the first byte of CCM
  LongAad,           \* 0xFF00: from here on the length of the data is marked
  LongAadMark,       \* 0xFFFE
  UsizeLen,          \* 8: the bytes of a usize
  StreamLen,         \* 64: the bytes of a block of ChaCha20
  StreamBlock(_, _), \* that block, of a nonce and a counter
  OneTimeMac(_, _)   \* Poly1305 under the key in a block

ASSUME BlockModesAssumption ==
  /\ {Aes, AesTweak, Camellia, Aria, Des} = DOMAIN BlockLen
  /\ BlockLen[Aes] = BlockLen[AesTweak]

XorTable == [a, b \in Byte |-> a ^^ b]
XorBytes(s, stream) == [i \in DOMAIN s |-> XorTable[s[i], stream[i]]]

\* pad16
Zeros(n) == [i \in 1 .. n |-> 0]
Padded(s, n) == s \o Zeros((n - (Len(s) % n)) % n)

Blocks(c, s) == Chunks(s, BlockLen[c])
Aligned(c, s, result) == OnlyIf(Len(s) % BlockLen[c] = 0, result)

\* The counter in the last bytes of a block, moved on by n: it wraps around.
Advanced(block, width, n) ==
  LET head == Len(block) - width IN
  Take(block, head) \o Number(Value(Drop(block, head)) + n, width)

\* What a stream that yields n bytes at a time makes of s.
Streamed(s, n, Stream(_)) ==
  FlattenSeq([i \in DOMAIN Chunks(s, n) |-> XorBytes(Chunks(s, n)[i], Stream(i))])

-----------------------------------------------------------------------------
(***************************************************************************)
(* Without authentication.                                                 *)
(***************************************************************************)

EcbEncrypt(c, s) ==
  Aligned(c, s, FlattenSeq([i \in DOMAIN Blocks(c, s) |-> Encipher(c, Blocks(c, s)[i])]))
EcbDecrypt(c, s) ==
  Aligned(c, s, FlattenSeq([i \in DOMAIN Blocks(c, s) |-> Decipher(c, Blocks(c, s)[i])]))

CbcEncrypt(c, iv, s) ==
  LET Chain(done, block) == Append(done, Encipher(c, XorBytes(block, Last(done))))
  IN Aligned(c, s, FlattenSeq(Tail(FoldLeft(Chain, <<iv>>, Blocks(c, s)))))

CbcDecrypt(c, iv, s) ==
  LET chain == <<iv>> \o Blocks(c, s) IN
  Aligned(c, s, FlattenSeq(
    [i \in DOMAIN Blocks(c, s) |-> XorBytes(Decipher(c, chain[i + 1]), chain[i])]))

Ctr(c, counter, s) ==
  Streamed(s, BlockLen[c], LAMBDA i : Encipher(c, Advanced(counter, BlockLen[c], i - 1)))

\* aes_cfb_process: the register takes in what is sent, or what has arrived.
Cfb(c, iv, s, encrypt) ==
  LET Shifted(register, piece) == Drop(register, Len(piece)) \o piece
      Process(state, piece) ==
        LET out == XorBytes(piece, Encipher(c, state.register)) IN
        [register |-> Shifted(state.register, IF encrypt THEN out ELSE piece),
         out |-> state.out \o out]
  IN FoldLeft(Process, [register |-> iv, out |-> <<>>], Blocks(c, s)).out

Ofb(c, iv, s) ==
  LET Turned(n) == FoldLeft(LAMBDA block, i : Encipher(c, block), iv, [i \in 1 .. n |-> i])
  IN Streamed(s, BlockLen[c], Turned)

\* The modes of a cipher: whole blocks, and streams.
WholeBlocks(c, mode, iv, s, encrypt) ==
  CASE mode = "ecb" -> IF encrypt THEN EcbEncrypt(c, s) ELSE EcbDecrypt(c, s)
    [] mode = "cbc" -> IF encrypt THEN CbcEncrypt(c, iv, s) ELSE CbcDecrypt(c, iv, s)
StreamMode(c, mode, iv, s, encrypt) ==
  CASE mode = "ctr" -> Some(Ctr(c, iv, s))
    [] mode = "cfb" -> Some(Cfb(c, iv, s, encrypt))
    [] mode = "ofb" -> Some(Ofb(c, iv, s))

CamelliaWholeBlocks(mode, iv, s, encrypt) == WholeBlocks(Camellia, mode, iv, s, encrypt)
CamelliaStream(mode, iv, s, encrypt) == StreamMode(Camellia, mode, iv, s, encrypt)
AriaWholeBlocks(mode, iv, s, encrypt) == WholeBlocks(Aria, mode, iv, s, encrypt)
AriaStream(mode, iv, s, encrypt) == StreamMode(Aria, mode, iv, s, encrypt)
DesWholeBlocks(mode, iv, s, encrypt) == WholeBlocks(Des, mode, iv, s, encrypt)
DesStream(mode, iv, s, encrypt) == StreamMode(Des, mode, iv, s, encrypt)

\* xts_mul_x: twice as much, the first byte being the lowest.
Doubled(tweak) ==
  LET High(byte) == byte >= Base \div 2
      twice == [i \in DOMAIN tweak |->
        ((2 * tweak[i]) % Base) + IF i > 1 /\ High(tweak[i - 1]) THEN 1 ELSE 0]
  IN IF High(Last(tweak)) THEN [twice EXCEPT ![1] = XorTable[@, Feedback]] ELSE twice

\* aes_xts_crypt: the last piece, when it is short, takes the bytes it lacks
\* from the block before it, and the two change their places.
Xts(tweak, s, encrypt) ==
  LET blocks == Blocks(Aes, s)
      full == Len(s) \div BlockLen[Aes]
      rest == Len(s) % BlockLen[Aes]
      whole == IF rest = 0 THEN full ELSE full - 1
      Tweak(n) == FoldLeft(LAMBDA t, i : Doubled(t), Encipher(AesTweak, tweak),
                           [i \in 1 .. n - 1 |-> i])
      Crypt(block, n) ==
        LET masked == XorBytes(block, Tweak(n)) IN
        XorBytes(IF encrypt THEN Encipher(Aes, masked) ELSE Decipher(Aes, masked), Tweak(n))
      first == Crypt(blocks[full], IF encrypt THEN full ELSE full + 1)
      second == Crypt(blocks[full + 1] \o Drop(first, rest),
                      IF encrypt THEN full + 1 ELSE full)
  IN
  OnlyIf(full > 0,
    FlattenSeq([i \in 1 .. whole |-> Crypt(blocks[i], i)])
      \o IF rest = 0 THEN <<>> ELSE second \o Take(first, rest))

-----------------------------------------------------------------------------
(***************************************************************************)
(* With a tag.                                                             *)
(***************************************************************************)

BitsOf(block) ==
  FlattenSeq([i \in DOMAIN block |->
    [k \in 1 .. BitsPerByte |-> (block[i] \div 2 ^ (BitsPerByte - k)) % 2]])
XorBits(a, b) == [i \in DOMAIN a |-> (a[i] + b[i]) % 2]

\* gf128_mul: of polynomials, the first bit being the lowest.
Product(x, y) ==
  LET Step(state, bit) ==
        LET shifted == <<0>> \o Front(state.y) IN
        [z |-> IF bit = 1 THEN XorBits(state.z, state.y) ELSE state.z,
         y |-> IF Last(state.y) = 1 THEN XorBits(shifted, Reduction) ELSE shifted]
  IN FoldLeft(Step, [z |-> Zeros(Len(y)), y |-> y], x).z

Hashed(blocks) ==
  LET h == BitsOf(Encipher(Aes, Zeros(BlockLen[Aes]))) IN
  FoldLeft(LAMBDA y, block : Product(XorBits(y, BitsOf(block)), h), Zeros(Len(h)), blocks)

\* ghash: the data in bytes, the text in bits.
GcmMacBlocks(aad, text) ==
  LET n == BlockLen[Aes] IN
  Chunks(Padded(aad, n) \o Padded(text, n), n)
    \o <<Number(Len(aad), n \div 2) \o Number(BitsPerByte * Len(text), n \div 2)>>

\* gcm_j0
GcmFirst(nonce) ==
  LET n == BlockLen[Aes]
      hash == Hashed(Chunks(Padded(nonce, n), n) \o <<Number(BitsPerByte * Len(nonce), n)>>)
  IN
  IF Len(nonce) = n - CounterLen THEN nonce \o Number(1, CounterLen)
  ELSE [i \in 1 .. n |-> FoldLeft(LAMBDA v, bit : 2 * v + bit, 0,
                                  Slice(hash, (i - 1) * BitsPerByte, BitsPerByte))]

\* inc32, gcm_ctr_xor
GcmCounter(nonce, i) == Advanced(GcmFirst(nonce), CounterLen, i)
GcmStreamed(nonce, s) ==
  Streamed(s, BlockLen[Aes], LAMBDA i : Encipher(Aes, GcmCounter(nonce, i)))

GcmTag(nonce, aad, text) ==
  XorBits(BitsOf(Encipher(Aes, GcmCounter(nonce, 0))), Hashed(GcmMacBlocks(aad, text)))
GcmEncrypt(nonce, aad, s) ==
  LET text == GcmStreamed(nonce, s) IN
  Some([text |-> text, tag |-> GcmTag(nonce, aad, text)])
GcmDecrypt(nonce, aad, sealed) ==
  OnlyIf(sealed.tag = GcmTag(nonce, aad, sealed.text), GcmStreamed(nonce, sealed.text))

\* The bytes of the length in a block of CCM.
LengthLen(nonce) == BlockLen[Aes] - 1 - Len(nonce)

\* The limit is a usize of one bit, which a shift by all its width leaves in
\* its place: with the shortest nonce nothing fits but the empty text.
CcmFits(nonce, s) ==
  Len(nonce) \in CcmNonces /\ Len(s) < Base ^ (LengthLen(nonce) % UsizeLen)

\* The blocks of the tag: the header, the data behind its length, the text.
CcmMacBlocks(nonce, aad, s) ==
  LET n == BlockLen[Aes]
      q == LengthLen(nonce)
      header == <<(IF aad = <<>> THEN 0 ELSE AadFlag) + MacFlag + q - 1>>
                  \o nonce \o Number(Len(s), q)
      size == IF Len(aad) < LongAad THEN Number(Len(aad), U16)
              ELSE LongAadMark \o Number(Len(aad), U32)
      data == IF aad = <<>> THEN <<>> ELSE Padded(size \o aad, n)
  IN Chunks(header \o data \o Padded(s, n), n)

CcmCounter(nonce, i) ==
  Advanced(<<LengthLen(nonce) - 1>> \o nonce \o Zeros(LengthLen(nonce)), LengthLen(nonce), i)
CcmStreamed(nonce, s) ==
  Streamed(s, BlockLen[Aes], LAMBDA i : Encipher(Aes, CcmCounter(nonce, i)))
CcmTag(nonce, aad, s) ==
  LET Chain(mac, block) == Encipher(Aes, XorBytes(mac, block))
  IN XorBytes(FoldLeft(Chain, Zeros(BlockLen[Aes]), CcmMacBlocks(nonce, aad, s)),
              Encipher(Aes, CcmCounter(nonce, 0)))

CcmEncrypt(nonce, aad, s) ==
  OnlyIf(CcmFits(nonce, s),
         [text |-> CcmStreamed(nonce, s), tag |-> CcmTag(nonce, aad, s)])
CcmDecrypt(nonce, aad, sealed) ==
  LET s == CcmStreamed(nonce, sealed.text) IN
  IF ~CcmFits(nonce, sealed.text) THEN None
  ELSE OnlyIf(sealed.tag = CcmTag(nonce, aad, s), s)

\* ChaCha20::apply_keystream: a counter of 32 bits that wraps around.
ChaCha20Counter(i) == i % Base ^ U32
ChaCha20Streamed(nonce, s) ==
  Streamed(s, StreamLen, LAMBDA i : StreamBlock(nonce, ChaCha20Counter(i)))

\* build_mac_data: lengths with the lowest byte first.
ChaCha20MacData(aad, text) ==
  LET n == BlockLen[Aes]
      Size(s) == Reverse(Number(Len(s), n \div 2))
  IN Padded(aad, n) \o Padded(text, n) \o Size(aad) \o Size(text)

\* MAX_PLAINTEXT: as many blocks as leave the counter 0 to the tag.
ChaCha20Fits(s) == Len(s) <= Base ^ U32 * StreamLen - StreamLen
ChaCha20Tag(nonce, aad, text) ==
  OneTimeMac(StreamBlock(nonce, ChaCha20Counter(0)), ChaCha20MacData(aad, text))

\* chacha20_poly1305_encrypt
ChaCha20Encrypt(nonce, aad, s) ==
  LET text == ChaCha20Streamed(nonce, s) IN
  OnlyIf(ChaCha20Fits(s), [text |-> text, tag |-> ChaCha20Tag(nonce, aad, text)])
\* chacha20_poly1305_decrypt
ChaCha20Decrypt(nonce, aad, sealed) ==
  OnlyIf(/\ ChaCha20Fits(sealed.text)
         /\ sealed.tag = ChaCha20Tag(nonce, aad, sealed.text),
         ChaCha20Streamed(nonce, sealed.text))
=============================================================================
