------------------------------ MODULE BigNumber -----------------------------
(***************************************************************************)
(* Arithmetic of natural numbers as sequences of limbs, the lowest first   *)
(* and the highest not 0; and RSA with the Chinese remainder theorem.      *)
(***************************************************************************)
EXTENDS Integers, Sequences

LOCAL INSTANCE SequencesExt

CONSTANTS
  LimbBits, \* 32
  FastLens  \* 8, 12, 16, 24, 32, 64: limbs of a modulus of the fast division

ASSUME BigNumberAssumption == LimbBits \in Nat \ {0} /\ FastLens \subseteq Nat \ {0, 1}

LimbBase == 2 ^ LimbBits

\* from_limbs
Stripped(limbs) ==
  SubSeq(limbs, 1, SelectLastInSeq(limbs, LAMBDA limb : limb # 0))
LimbAt(a, i) == IF i \in DOMAIN a THEN a[i] ELSE 0
ValueOf(a) == FoldRight(LAMBDA limb, v : v * LimbBase + limb, a, 0)

\* cmp, and ge_limbs_prefix where the lengths are the same
NotLess(a, b) ==
  \/ Len(a) > Len(b)
  \/ Len(a) = Len(b) /\ ValueOf(a) >= ValueOf(b)

\* Limbs from 1 to n: the lower part of every sum stays, and what is above
\* it, or is missing in it, goes on to the next.
Running(n, first, Sum(_, _)) ==
  FoldLeft(LAMBDA done, i :
             LET sum == Sum(i, done.carry) IN
             [limbs |-> Append(done.limbs, sum % LimbBase), carry |-> sum \div LimbBase],
           [limbs |-> <<>>, carry |-> first], [i \in 1 .. n |-> i])

Plus(a, b) ==
  LET n == IF Len(a) > Len(b) THEN Len(a) ELSE Len(b)
      sum == Running(n, 0, LAMBDA i, carry : LimbAt(a, i) + LimbAt(b, i) + carry)
  IN Stripped(Append(sum.limbs, sum.carry))

\* sub: the last borrow is lost, so it wraps around where b is larger.
Minus(a, b) ==
  Stripped(Running(Len(a), 0, LAMBDA i, carry : a[i] - LimbAt(b, i) + carry).limbs)

Times(a, b) ==
  LET Row(out, i) ==
        LET product == Running(Len(b), 0, LAMBDA j, carry : out[i + j - 1] + a[i] * b[j] + carry)
            above == i + Len(b) - 1
        IN SubSeq(out, 1, i - 1) \o product.limbs
             \o Running(Len(out) - above, product.carry,
                        LAMBDA j, carry : out[above + j] + carry).limbs
  IN IF a = <<>> \/ b = <<>> THEN <<>>
     ELSE Stripped(FoldLeft(Row, [i \in 1 .. Len(a) + Len(b) |-> 0], [i \in DOMAIN a |-> i]))

\* shr1
Halved(a) ==
  Stripped([i \in DOMAIN a |-> (a[i] \div 2) + (LimbAt(a, i + 1) % 2) * (LimbBase \div 2)])

\* limbs_shl_bits and limbs_shr_bits, by less than a limb and in as many limbs
Left(a, bits) == Running(Len(a), 0, LAMBDA i, carry : a[i] * 2 ^ bits + carry).limbs
Right(a, bits) ==
  [i \in DOMAIN a |-> (a[i] \div 2 ^ bits)
     + ((LimbAt(a, i + 1) * 2 ^ (LimbBits - bits)) % LimbBase)]

\* shl_bits
ShiftedLeft(a, bits) ==
  Stripped([i \in 1 .. bits \div LimbBits |-> 0] \o Left(Append(a, 0), bits % LimbBits))

BitLen(a) ==
  IF a = <<>> THEN 0
  ELSE LimbBits * (Len(a) - 1)
         + CHOOSE k \in 1 .. LimbBits : Last(a) \in 2 ^ (k - 1) .. 2 ^ k - 1

-----------------------------------------------------------------------------
(***************************************************************************)
(* Remainders: of one limb, bit by bit, and limb by limb.                  *)
(***************************************************************************)

\* modulo_small_u32
ModuloSmall(a, m) == FoldRight(LAMBDA limb, rem : (rem * LimbBase + limb) % m, a, 0)

\* Less m in the lower limbs, with the borrow from above them.
Reduced(u, m) == Running(Len(m), 0, LAMBDA i, carry : u[i] - m[i] + carry)

\* The last part of modulo.
ModuloBits(a, m) ==
  LET n == Len(m)
      bits == [i \in 1 .. BitLen(a) |-> (ValueOf(a) \div 2 ^ (BitLen(a) - i)) % 2]
      Take1(rem, bit) ==
        LET twice == Running(n + 1, bit, LAMBDA i, carry : 2 * rem[i] + carry).limbs
            high == twice[n + 1]
        IN IF high # 0 \/ NotLess(SubSeq(twice, 1, n), m)
           THEN Append(Reduced(twice, m).limbs, IF high > 0 THEN high - 1 ELSE 0)
           ELSE twice
  IN Stripped(SubSeq(FoldLeft(Take1, [i \in 1 .. n + 1 |-> 0], bits), 1, n))

\* A faulty variant: the estimate is not corrected.
QuotientDigitEstimated(u, v, j) ==
  LET num == u[j + Len(v) + 1] * LimbBase + u[j + Len(v)]
  IN IF num \div v[Len(v)] < LimbBase THEN num \div v[Len(v)] ELSE LimbBase - 1

\* A digit of the quotient: what the two highest limbs say, less one as long
\* as the third ones say that it is too much.
QuotientDigit(u, v, j) ==
  LET n == Len(v)
      num == u[j + n + 1] * LimbBase + u[j + n]
      first == IF num \div v[n] < LimbBase THEN num \div v[n] ELSE LimbBase - 1
      Fine(q) ==
        LET rem == num - q * v[n] IN
        rem >= LimbBase \/ q * v[n - 1] <= rem * LimbBase + u[j + n - 1]
  IN CHOOSE q \in 0 .. first : Fine(q) /\ \A other \in q + 1 .. first : ~Fine(other)

\* limb_mul_sub, and limb_add_at where that was too much
Divided(u, v, j) ==
  LET n == Len(v)
      q == QuotientDigit(u, v, j)
      less == Running(n + 1, 0,
                      LAMBDA i, carry : u[j + i] - q * LimbAt(v, i) + carry)
      more == Running(n + 1, 0,
                      LAMBDA i, carry : less.limbs[i] + LimbAt(v, i) + carry)
      above == SubSeq(u, j + n + 2, Len(u))
      Put(limbs, rest) == SubSeq(u, 1, j) \o limbs \o rest
  IN IF q = 0 THEN u
     ELSE IF less.carry = 0 THEN Put(less.limbs, above)
     ELSE Put(more.limbs, IF above = <<>> THEN above
                          ELSE [above EXCEPT ![1] = (@ + more.carry) % LimbBase])

\* A remainder that is still too large.
RECURSIVE Settled(_, _)
Settled(u, v) ==
  LET n == Len(v)
      less == Reduced(u, v)
      next == less.limbs \o SubSeq(u, n + 1, Len(u))
  IN IF u[n + 1] = 0 /\ ~NotLess(SubSeq(u, 1, n), v) THEN u
     ELSE IF less.carry = 0 THEN Settled(next, v)
     ELSE IF u[n + 1] # 0 THEN Settled([next EXCEPT ![n + 1] = @ - 1], v)
     ELSE next

\* mod_2n_by_n_limb
ModuloFast(a, m) ==
  LET n == Len(m)
      shift == LimbBits * n - BitLen(m)
      v == Left(m, shift)
      u == FoldLeft(LAMBDA w, i : Divided(w, v, n + 1 - i), Left(Append(a, 0), shift),
                    [i \in 1 .. n + 1 |-> i])
      rem == Right(SubSeq(Settled(u, v), 1, n), shift)
  IN Stripped(IF NotLess(rem, m) THEN Reduced(rem, m).limbs ELSE rem)

Modulo(a, m) ==
  IF m = <<>> THEN <<>>
  ELSE IF ~NotLess(a, m) THEN a
  ELSE IF Len(m) = 1 THEN Stripped(<<ModuloSmall(a, m[1])>>)
  ELSE IF Len(m) \in FastLens /\ Len(a) = 2 * Len(m) THEN ModuloFast(a, m)
  ELSE ModuloBits(a, m)

-----------------------------------------------------------------------------
ModTimes(a, b, m) == Modulo(Times(a, b), m)

\* mod_exp: one, where the exponent is zero, even modulo one.
RECURSIVE Powered(_, _, _, _)
Powered(result, b, e, m) ==
  IF e = <<>> THEN result
  ELSE Powered(IF e[1] % 2 = 1 THEN ModTimes(result, b, m) ELSE result,
               ModTimes(b, b, m), Halved(e), m)
ModExp(b, e, m) == IF m = <<>> THEN <<>> ELSE Powered(<<1>>, Modulo(b, m), e, m)

\* div_rem
DivRem(a, divisor) ==
  LET shifts == BitLen(a) - BitLen(divisor)
      Subtracted(state, i) ==
        LET shifted == ShiftedLeft(divisor, shifts + 1 - i) IN
        IF NotLess(state.rem, shifted)
        THEN [rem |-> Minus(state.rem, shifted),
              quotient |-> Plus(state.quotient, ShiftedLeft(<<1>>, shifts + 1 - i))]
        ELSE state
  IN IF divisor = <<>> \/ ~NotLess(a, divisor) THEN [rem |-> a, quotient |-> <<>>]
     ELSE FoldLeft(Subtracted, [rem |-> a, quotient |-> <<>>], [i \in 1 .. shifts + 1 |-> i])

RECURSIVE Gcd(_, _)
Gcd(a, b) == IF b = <<>> THEN a ELSE Gcd(b, Modulo(a, b))

\* mod_inverse: a sequence of at most one.
RECURSIVE Inverted(_, _, _, _, _)
Inverted(t, newT, r, newR, m) ==
  LET step == DivRem(r, newR)
      product == ModTimes(step.quotient, newT, m)
      next == IF NotLess(t, product) THEN Minus(t, product)
              ELSE Minus(Plus(t, m), product)
  IN IF newR # <<>> THEN Inverted(newT, Modulo(next, m), newR, step.rem, m)
     ELSE IF r = <<1>> THEN <<Modulo(t, m)>> ELSE <<>>
ModInverse(a, m) == IF m = <<>> THEN <<>> ELSE Inverted(<<>>, <<1>>, m, Modulo(a, m), m)

-----------------------------------------------------------------------------
\* validate_modulus, validate_private_components
SoundModulus(n) == NotLess(n, Stripped(<<3 % LimbBase, 3 \div LimbBase>>)) /\ n[1] % 2 = 1
SoundPrivate(n, d) ==
  SoundModulus(n) /\ d # <<>> /\ LimbAt(d, 1) % 2 = 1 /\ ~NotLess(d, n)

\* validate_crt_components: which of the primes is the larger is not asked.
SoundCrt(n, crt) ==
  /\ \A part \in {crt.p, crt.q, crt.dp, crt.dq, crt.qinv} : part # <<>>
  /\ crt.p[1] % 2 = 1 /\ crt.q[1] % 2 = 1
  /\ Times(crt.p, crt.q) = n
  /\ ~NotLess(crt.dp, crt.p) /\ ~NotLess(crt.dq, crt.q) /\ ~NotLess(crt.qinv, crt.p)
  /\ Modulo(Times(crt.q, crt.qinv), crt.p) = <<1>>

\* decrypt_*_crt_only, of an encoded message
CrtPower(c, crt) ==
  LET m1 == ModExp(c, crt.dp, crt.p)
      m2 == ModExp(c, crt.dq, crt.q)
      diff == IF NotLess(m1, m2) THEN Minus(m1, m2) ELSE Minus(Plus(m1, crt.p), m2)
      h == Modulo(Times(crt.qinv, diff), crt.p)
  IN Plus(m2, Times(crt.q, h))
CrtDecrypt(n, d, crt, c) ==
  IF SoundPrivate(n, d) /\ SoundCrt(n, crt) THEN <<CrtPower(c, crt)>> ELSE <<>>
=============================================================================
