---------------------------- MODULE TicketStore ----------------------------
(***************************************************************************)
(* Resumption tickets and the store a server keeps them in (TicketStore),  *)
(* as operators on sets of records.                                        *)
(*                                                                         *)
(* A ticket is named by the number of its issue, which stands for its      *)
(* identity and nonce; a store keeps the order of issue, so a set with     *)
(* those numbers says the same as the vector of the code.  master names    *)
(* the handshake whose resumption secret the ticket's key is derived from. *)
(***************************************************************************)
EXTENDS Integers, FiniteSets

CONSTANTS
  Capacity,      \* max_entries
  Lifetimes,     \* values of lifetime_ms
  AgeModulus,    \* 2^32, the width of an obfuscated age
  AgeAdd,        \* age_add of every ticket
  MaxSkew        \* max_skew_ms

\* Any skew and any lifetime, in particular the u64::MAX of a ticket that is
\* issued without a time: an age may be far beyond the width.
ASSUME TicketAssumption ==
  /\ Capacity \in Nat \ {0}
  /\ Lifetimes \subseteq Nat /\ MaxSkew \in Nat
  /\ AgeModulus \in Nat \ {0}
  /\ AgeAdd \in 0 .. AgeModulus - 1

Tickets(Ids, Masters, Times, Budgets) ==
  [id : Ids, master : Masters, issued : Times, lifetime : Lifetimes,
   budget : Budgets, consumed : BOOLEAN]

\* insert: the oldest tickets above the capacity go.
Insert(store, t) ==
  LET all == store \cup {t}
  IN {u \in all : Cardinality({v \in all : v.id > u.id}) < Capacity}

Age(t, now) == now - t.issued

RemoveConsumed(store) == {t \in store : ~t.consumed}

\* Faulty variant of RemoveExpired: a ticket ends one millisecond early.
RemoveExpiredEarly(store, now) == {t \in store : Age(t, now) < t.lifetime}

\* remove_expired has a comparison of its own, next to that of the age check.
RemoveExpired(store, now) == {t \in store : Age(t, now) <= t.lifetime}

Rotate(store, now) == RemoveExpired(RemoveConsumed(store), now)
InvalidateIdentity(store, id) == {t \in store : t.id # id}

\* Faulty variant of Obfuscated: the sum stops at the width.
ObfuscatedSaturating(age) ==
  IF AgeAdd + age < AgeModulus THEN AgeAdd + age ELSE AgeModulus - 1

\* An age is clamped to the width, then added with wrap-around.
Clamped(age) == IF age < AgeModulus THEN age ELSE AgeModulus - 1

Obfuscated(age) == (AgeAdd + Clamped(age)) % AgeModulus

\* The age that a ClientHello made at the given time claims for a ticket
\* (send_client_hello_with_resumption_tickets_at).
Claimed(t, made) == Obfuscated(IF made < t.issued THEN 0 ELSE made - t.issued)

\* wrapping_u32_distance
Distance(a, b) ==
  LET ab == (a - b) % AgeModulus
      ba == (b - a) % AgeModulus
  IN IF ab < ba THEN ab ELSE ba

\* ticket_age_matches_policy
AgeMatches(t, offered, now) ==
  /\ ~(Age(t, now) > t.lifetime)
  /\ Distance(Obfuscated(Age(t, now)), offered) <= MaxSkew

\* What the single-use policy does to the ticket that matched.
Consume(store, id) ==
  {IF t.id = id THEN [t EXCEPT !.consumed = TRUE] ELSE t : t \in store}
=============================================================================
