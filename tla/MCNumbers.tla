------------------------------- MODULE MCNumbers ----------------------------
(***************************************************************************)
(* Arithmetic of limbs against that of numbers: of all small numbers, and  *)
(* of numbers of twice as many limbs as the modulus with extreme limbs.    *)
(***************************************************************************)
EXTENDS MCFormats, BigNumber

LOCAL INSTANCE SequencesExt
LOCAL INSTANCE FiniteSetsExt

Limbs(n) == Stripped([i \in 1 .. 8 |-> (n \div LimbBase ^ (i - 1)) % LimbBase])
InverseOf(a, m) == {t \in 0 .. m - 1 : (a * t) % m = 1 % m}
PowerOf(b, e, m) == FoldLeft(LAMBDA v, i : (v * b) % m, 1 % m, [i \in 1 .. e |-> i])

\* Keys [p, q, d] with d the inverse of 5.
Primes == {3, 5, 7, 11, 13}
Phi(p, q) == (p - 1) * (q - 1)
CrtKeys == {[p |-> p, q |-> q, d |-> CHOOSE d \in InverseOf(5, Phi(p, q)) : TRUE] :
              <<p, q>> \in {pair \in Primes \X Primes :
                              pair[1] # pair[2] /\ InverseOf(5, Phi(pair[1], pair[2])) # {}}}
Crt(key) ==
  [p |-> Limbs(key.p), q |-> Limbs(key.q), dp |-> Limbs(key.d % (key.p - 1)),
   dq |-> Limbs(key.d % (key.q - 1)),
   qinv |-> Limbs(CHOOSE t \in InverseOf(key.q, key.p) : TRUE)]

Computed(op, x) ==
  LET a == Limbs(x[1])
      b == Limbs(x[2])
  IN
  CASE op = "add" -> ValueOf(Plus(a, b))
    [] op = "sub" -> ValueOf(Minus(a, b))
    [] op = "mul" -> ValueOf(Times(a, b))
    [] op = "modulo" -> ValueOf(Modulo(a, b))
    [] op = "div_rem" -> LET all == DivRem(a, b) IN <<ValueOf(all.quotient), ValueOf(all.rem)>>
    [] op = "mod_exp" -> ValueOf(ModExp(a, b, Limbs(x[3])))
    [] op = "gcd" -> ValueOf(Gcd(a, b))
    [] op = "mod_inverse" -> {ValueOf(ModInverse(a, b)[i]) : i \in DOMAIN ModInverse(a, b)}
    [] op = "crt" -> LET key == x[2]
                         m == CrtDecrypt(Limbs(key.p * key.q), Limbs(key.d), Crt(key), a)
                     IN {ValueOf(m[i]) : i \in DOMAIN m}

\* The half of q is more than p above that of p.
Wraps(key, c) ==
  PowerOf(c, key.d % (key.q - 1), key.q) > PowerOf(c, key.d % (key.p - 1), key.p) + key.p
Meant(op, x) ==
  LET a == x[1]
      b == x[2]
  IN
  CASE op = "add" -> a + b
    [] op = "sub" -> IF a >= b THEN a - b ELSE (a - b) % LimbBase ^ Len(Limbs(a))
    [] op = "mul" -> a * b
    [] op = "modulo" -> IF b = 0 THEN 0 ELSE a % b
    [] op = "div_rem" -> IF b = 0 THEN <<0, a>> ELSE <<a \div b, a % b>>
    [] op = "mod_exp" -> IF x[3] = 0 THEN 0 ELSE IF b = 0 THEN 1 ELSE PowerOf(a, b, x[3])
    [] op = "gcd" -> IF a = 0 \/ b = 0 THEN a + b
                     ELSE Max({d \in 1 .. a : a % d = 0 /\ b % d = 0})
    [] op = "mod_inverse" -> IF b = 0 THEN {} ELSE InverseOf(a, b)
    [] op = "crt" -> {PowerOf(a, b.d, b.p * b.q)}

Wide(n, limbs) == {Stripped(w) : w \in {w \in [1 .. n -> limbs] : w[n] # 0}}
ToCompute ==
  \/ \E a, b \in 0 .. 70, op \in {"add", "sub", "mul"} : job = <<"compute", op, <<a, b>>>>
  \/ \E a \in 0 .. 260, b \in 0 .. 70, op \in {"modulo", "div_rem"} : job = <<"compute", op, <<a, b>>>>
  \/ \E a \in Wide(4, {0, 3, LimbBase \div 2, LimbBase - 1}), b \in Wide(2, 0 .. LimbBase - 1) :
       job = <<"compute", "modulo", <<ValueOf(a), ValueOf(b)>>>>
  \/ \E a \in Wide(6, {0, LimbBase \div 2, LimbBase - 1}),
        b \in Wide(3, {0, LimbBase \div 2, LimbBase - 1}) :
       job = <<"compute", "modulo", <<ValueOf(a), ValueOf(b)>>>>
  \/ \E a, b \in 0 .. 9, m \in 0 .. 20 : job = <<"compute", "mod_exp", <<a, b, m>>>>
  \/ \E a, b \in 0 .. 40, op \in {"gcd", "mod_inverse"} : job = <<"compute", op, <<a, b>>>>
  \/ \E key \in CrtKeys : \E c \in 0 .. key.p * key.q - 1 :
       ~Wraps(key, c) /\ job = <<"compute", "crt", <<c, key>>>>
=============================================================================
