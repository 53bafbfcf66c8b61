------------------------------- MODULE HmacDrbg -----------------------------
(***************************************************************************)
(* HmacDrbgSha256: random numbers from a key and a value that are hashed   *)
(* on with every call.  A call yields [drbg, out], or None when refused.   *)
(***************************************************************************)
EXTENDS Wire

LOCAL INSTANCE SequencesExt

CONSTANTS
  MinEntropy,     \* 16 bytes
  ReseedInterval, \* 1,000,000: the outputs between two seeds
  Hmac(_, _),     \* of a key and a message: any function
  FirstKey, FirstValue

\* update: without data the second round is left out.
Mixed(drbg, data) ==
  LET Round(state, mark) ==
        LET k == Hmac(state.k, state.v \o <<mark>> \o data) IN
        [state EXCEPT !.k = k, !.v = Hmac(k, state.v)]
  IN IF data = <<>> THEN Round(drbg, 0) ELSE Round(Round(drbg, 0), 1)

NewDrbg(entropy, nonce, personalization) ==
  OnlyIf(Len(entropy) >= MinEntropy,
    [Mixed([k |-> FirstKey, v |-> FirstValue, counter |-> 1],
           entropy \o nonce \o personalization) EXCEPT !.counter = 1])

Reseed(drbg, entropy, additional) ==
  OnlyIf(Len(entropy) >= MinEntropy,
    [Mixed(drbg, entropy \o additional) EXCEPT !.counter = 1])

\* generate: nothing at all happens where nothing is asked for.
Generate(drbg, n, additional) ==
  LET seeded == IF additional = <<>> THEN drbg ELSE Mixed(drbg, additional)
      Next1(state, i) == LET v == Hmac(seeded.k, state.v) IN [v |-> v, out |-> state.out \o v]
      blocks == (n + Len(drbg.v) - 1) \div Len(drbg.v)
      done == FoldLeft(Next1, [v |-> seeded.v, out |-> <<>>], [i \in 1 .. blocks |-> i])
      after == [Mixed([seeded EXCEPT !.v = done.v], additional) EXCEPT !.counter = @ + 1]
  IN IF n = 0 THEN Some([drbg |-> drbg, out |-> <<>>])
     ELSE OnlyIf(drbg.counter <= ReseedInterval, [drbg |-> after, out |-> Take(done.out, n)])

\* drbg_nonzero_padding: asks again for what the zeros left open.
NonzeroPadding(drbg, n, purpose) ==
  LET RECURSIVE More(_, _)
      More(state, out) ==
        LET got == Generate(state, n - Len(out), purpose) IN
        IF Len(out) = n THEN Some([drbg |-> state, out |-> out])
        ELSE IF got = None THEN None
        ELSE More(got[1].drbg, out \o SelectSeq(got[1].out, LAMBDA byte : byte # 0))
  IN More(drbg, <<>>)
=============================================================================
