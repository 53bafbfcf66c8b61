--------------------------- MODULE DtlsFlight_proofs -----------------------
(***************************************************************************)
(* Proofs about the send side of DTLS, of any size and with any            *)
(* configuration: first about the operations of the retransmission store,  *)
(* whoever calls them; then about the calls of DtlsRetransmit in any       *)
(* order; last about the send side of a DTLS 1.3 connection.               *)
(*                                                                         *)
(* There the store is followed record by record: the stores between the    *)
(* records of a flight, what every call leaves of the keys that are there  *)
(* and of those that are owed, and on these the invariants of the flight.  *)
(***************************************************************************)
EXTENDS DtlsFlight, FiniteSetTheorems, TLAPS

(***************************************************************************)
(* The image of a finite set under a function is finite.                   *)
(***************************************************************************)
LEMMA FiniteImage ==
  ASSUME NEW S, IsFiniteSet(S), NEW f
  PROVE  IsFiniteSet({f[x] : x \in S})
<1> DEFINE T == {f[x] : x \in S}
           g == [x \in S |-> f[x]]
<1>1. g \in Surjection(S, T)
  BY DEF Surjection
<1> QED  BY <1>1, FS_Surjection

\* What two records that differ in their index only have in common.
SameButIndex(q, r) ==
  /\ q.key = r.key
  /\ q.acknowledged = r.acknowledged
  /\ q.count = r.count
  /\ q.next = r.next
  /\ q.timeout = r.timeout
  /\ q.initial = r.initial
  /\ q.since = r.since

(***************************************************************************)
(* Removing records from the Vec changes nothing but the indices of the    *)
(* others.                                                                 *)
(***************************************************************************)
LEMMA ReindexFacts ==
  ASSUME NEW rs \in SUBSET Record, IsFiniteSet(rs)
  PROVE  /\ Reindex(rs) \in SUBSET Record
         /\ IsFiniteSet(Reindex(rs))
         /\ \A q \in Reindex(rs) : \E r \in rs : SameButIndex(q, r)
<1> DEFINE rank(r) == Cardinality({q \in rs : q.at <= r.at})
           moved(r) == [r EXCEPT !.at = rank(r)]
<1>1. Reindex(rs) = {moved(r) : r \in rs}
  BY DEF Reindex
<1>2. ASSUME NEW r \in rs PROVE rank(r) \in Nat
  <2>1. {q \in rs : q.at <= r.at} \subseteq rs
    OBVIOUS
  <2> QED  BY <2>1, FS_Subset, FS_CardinalityType
<1>3. ASSUME NEW r \in rs PROVE moved(r) \in Record /\ SameButIndex(moved(r), r)
  BY <1>2 DEF Record, SameButIndex
<1>4. IsFiniteSet({moved(r) : r \in rs})
  <2> DEFINE f == [r \in rs |-> moved(r)]
  <2>1. IsFiniteSet({f[r] : r \in rs})
    <3> HIDE DEF f
    <3> QED  BY FiniteImage
  <2>2. {f[r] : r \in rs} = {moved(r) : r \in rs}
    <3> HIDE DEF moved
    <3> QED  OBVIOUS
  <2> QED  BY <2>1, <2>2
<1> QED  BY <1>1, <1>3, <1>4

(***************************************************************************)
(* Well-typed finite stores stay so under every operation.                 *)
(***************************************************************************)
Store(rs) == rs \in SUBSET Record /\ IsFiniteSet(rs)

\* A time past the end of the clock is at its end.
LEMMA SaturatedType ==
  ASSUME NEW n \in Nat
  PROVE  /\ Saturated(n) \in 0 .. MaxTime
         /\ Saturated(n) <= n
         /\ n <= MaxTime => Saturated(n) = n
BY StoreAssumption DEF Saturated

\* The first timeout of a record: within the longest, and never zero.
LEMMA TimeoutType ==
  ASSUME NEW t \in 0 .. MaxTime
  PROVE  AtLeastOne(t) \in 1 .. MaxTime
BY StoreAssumption DEF AtLeastOne

\* The record that tracking a packet makes.
LEMMA NewRecordType ==
  ASSUME NEW k \in Keys, NEW at \in Nat,
         NEW t \in 0 .. MaxTime, NEW w \in 0 .. MaxTime
  PROVE  NewRecord(k, at, t, w) \in Record
<1>1. w + t \in Nat
  BY StoreAssumption
<1> QED  BY <1>1, SaturatedType DEF NewRecord, Record

\* Eviction drops records and changes nothing but indices.
LEMMA EvictFacts ==
  ASSUME NEW rs, Store(rs)
  PROVE  /\ Store(EvictOldest(rs))
         /\ \A q \in EvictOldest(rs) : \E r \in rs : SameButIndex(q, r)
<1> DEFINE excess == Cardinality(rs) - Capacity
           kept == {r \in rs : r.at > excess}
<1>1. kept \in SUBSET rs /\ IsFiniteSet(kept)
  BY FS_Subset DEF Store
<1>2. Store(Reindex(kept)) /\ \A q \in Reindex(kept) :
                                \E r \in rs : SameButIndex(q, r)
  BY <1>1, ReindexFacts DEF Store
<1>3. EvictOldest(rs) = IF excess > 0 THEN Reindex(kept) ELSE rs
  BY DEF EvictOldest
<1>4. \A q \in rs : SameButIndex(q, q)
  BY DEF SameButIndex
<1> HIDE DEF excess, kept
<1> QED  BY <1>2, <1>3, <1>4

(***************************************************************************)
(* Tracking a key adds one fresh record and otherwise at most moves the    *)
(* records of other keys.                                                  *)
(***************************************************************************)
LEMMA TrackedFacts ==
  ASSUME NEW rs, Store(rs), NEW k \in Keys, NEW t \in 0 .. MaxTime,
         NEW w \in 0 .. MaxTime
  PROVE  /\ Store(Tracked(rs, k, t, w))
         /\ \A q \in Tracked(rs, k, t, w) :
              \/ \E at \in Nat : SameButIndex(q, NewRecord(k, at, AtLeastOne(t), w))
              \/ \E r \in rs : r.key # k /\ SameButIndex(q, r)
<1> DEFINE T == AtLeastOne(t)
<1>1. T \in 0 .. MaxTime
  BY TimeoutType
<1> HIDE DEF T
<1>2. CASE k \in KeysOf(rs)
  <2> DEFINE renewed(r) == IF r.key = k THEN NewRecord(k, r.at, T, w) ELSE r
             f == [r \in rs |-> renewed(r)]
             S == {renewed(r) : r \in rs}
  <2>1. Tracked(rs, k, t, w) = S
    BY <1>2 DEF Tracked, T
  <2>2. ASSUME NEW r \in rs
        PROVE  /\ renewed(r) \in Record
               /\ \/ r.at \in Nat /\ renewed(r) = NewRecord(k, r.at, T, w)
                  \/ r.key # k /\ renewed(r) = r
    BY <1>1, NewRecordType DEF Store, Record
  <2>3. IsFiniteSet(S)
    <3>1. IsFiniteSet({f[r] : r \in rs})
      <4> HIDE DEF f
      <4> QED  BY FiniteImage DEF Store
    <3>2. S = {f[r] : r \in rs}
      <4> HIDE DEF renewed
      <4> QED  OBVIOUS
    <3> QED  BY <3>1, <3>2
  <2>4. Store(S)
    <3> HIDE DEF renewed
    <3> QED  BY <2>2, <2>3 DEF Store
  <2>5. ASSUME NEW q \in S
        PROVE  \/ \E at \in Nat : SameButIndex(q, NewRecord(k, at, T, w))
               \/ \E r \in rs : r.key # k /\ SameButIndex(q, r)
    <3>1. PICK r \in rs : q = renewed(r)
      OBVIOUS
    <3> HIDE DEF renewed, S
    <3> QED  BY <2>2, <3>1 DEF SameButIndex
  <2> HIDE DEF S
  <2> QED  BY <2>1, <2>4, <2>5 DEF T
<1>3. CASE k \notin KeysOf(rs)
  <2> DEFINE new == NewRecord(k, Cardinality(rs) + 1, T, w)
             S == rs \cup {new}
  <2>1. Cardinality(rs) + 1 \in Nat
    BY FS_CardinalityType DEF Store
  <2>2. Store(S)
    BY <1>1, <2>1, NewRecordType, FS_AddElement DEF Store
  <2>3. Tracked(rs, k, t, w) = EvictOldest(S)
    BY <1>3 DEF Tracked, T
  <2>4. \A r \in rs : r.key # k
    BY <1>3 DEF KeysOf
  <2>5. ASSUME NEW q \in EvictOldest(S)
        PROVE  \/ \E at \in Nat : SameButIndex(q, NewRecord(k, at, T, w))
               \/ \E r \in rs : r.key # k /\ SameButIndex(q, r)
    <3>1. PICK r \in S : SameButIndex(q, r)
      BY <2>2, EvictFacts
    <3> QED  BY <2>1, <2>4, <3>1
  <2> HIDE DEF S
  <2> QED  BY <2>2, <2>3, <2>5, EvictFacts DEF T
<1> QED  BY <1>2, <1>3

(***************************************************************************)
(* The other operations on the store.                                      *)
(***************************************************************************)
LEMMA AcknowledgedAllFacts ==
  ASSUME NEW rs, Store(rs), NEW ks
  PROVE  /\ Store(AcknowledgedAll(rs, ks))
         /\ \A q \in AcknowledgedAll(rs, ks) : \E r \in rs :
              q = IF r.key \in ks THEN [r EXCEPT !.acknowledged = TRUE] ELSE r
<1> DEFINE marked(r) == IF r.key \in ks THEN [r EXCEPT !.acknowledged = TRUE] ELSE r
           f == [r \in rs |-> marked(r)]
           S == {marked(r) : r \in rs}
<1>1. S = AcknowledgedAll(rs, ks)
  BY DEF AcknowledgedAll
<1>2. ASSUME NEW r \in rs PROVE marked(r) \in Record
  BY DEF Store, Record
<1>3. IsFiniteSet({f[r] : r \in rs})
  <2> HIDE DEF f
  <2> QED  BY FiniteImage DEF Store
<1>4. S = {f[r] : r \in rs}
  <2> HIDE DEF marked
  <2> QED  OBVIOUS
<1>5. Store(S)
  <2> HIDE DEF marked
  <2> QED  BY <1>2, <1>3, <1>4 DEF Store
<1>6. \A q \in S : \E r \in rs : q = marked(r)
  <2> HIDE DEF marked
  <2> QED  OBVIOUS
<1> HIDE DEF S
<1> QED  BY <1>1, <1>5, <1>6

\* The same, of a single key.
LEMMA AcknowledgedFacts ==
  ASSUME NEW rs, Store(rs), NEW k \in Keys
  PROVE  /\ Store(Acknowledged(rs, k))
         /\ \A q \in Acknowledged(rs, k) : \E r \in rs :
              q = IF r.key = k THEN [r EXCEPT !.acknowledged = TRUE] ELSE r
<1>1. \A r \in rs : r.key \in {k} <=> r.key = k
  OBVIOUS
<1> QED  BY <1>1, AcknowledgedAllFacts DEF Acknowledged

\* Pruning drops records and changes nothing but indices.
LEMMA PrunedFacts ==
  ASSUME NEW rs, Store(rs)
  PROVE  /\ Store(Pruned(rs))
         /\ \A q \in Pruned(rs) : \E r \in rs : SameButIndex(q, r)
<1>1. Unacknowledged(rs) \subseteq rs
  BY DEF Unacknowledged
<1>2. IsFiniteSet(Unacknowledged(rs))
  BY <1>1, FS_Subset DEF Store
<1> QED  BY <1>1, <1>2, ReindexFacts DEF Pruned, Store

\* A record that is sent again is still one.
LEMMA ResentType ==
  ASSUME NEW r \in Record, NEW w \in 0 .. MaxTime
  PROVE  /\ Resent(r, w) \in Record
         /\ Resent(r, w).key = r.key
         /\ Resent(r, w).at = r.at
         /\ Resent(r, w).acknowledged = r.acknowledged
         /\ Resent(r, w).initial = r.initial
         /\ Resent(r, w).since = r.since
         /\ Resent(r, w).timeout = AtLeastOne(Saturated(2 * r.timeout))
         /\ Resent(r, w).next = Saturated(w + Resent(r, w).timeout)
<1> DEFINE t == AtLeastOne(Saturated(2 * r.timeout))
           d == Saturated(w + t)
<1>1. t \in 1 .. MaxTime
  <2>1. 2 * r.timeout \in Nat
    BY StoreAssumption DEF Record
  <2> QED  BY <2>1, SaturatedType, TimeoutType
<1>2. d \in 0 .. MaxTime
  <2> HIDE DEF t
  <2>1. w + t \in Nat
    BY <1>1, StoreAssumption
  <2> QED  BY <2>1, SaturatedType
<1>3. Resent(r, w) = [r EXCEPT !.count = @ + 1, !.timeout = t, !.next = d]
  BY DEF Resent
<1> HIDE DEF t, d
<1>4. r.count + 1 \in Nat
  BY DEF Record
<1>5. Resent(r, w) = [key |-> r.key, at |-> r.at, acknowledged |-> r.acknowledged,
                      count |-> r.count + 1, next |-> d, timeout |-> t,
                      initial |-> r.initial, since |-> r.since]
  BY <1>3 DEF Record
<1>6. Resent(r, w) \in Record
  BY <1>1, <1>2, <1>4, <1>5, StoreAssumption DEF Record
<1> QED  BY <1>5, <1>6 DEF t, d

\* A poll resends what is due, and drops records.
LEMMA CollectedFacts ==
  ASSUME NEW rs, Store(rs), NEW attempts,
         NEW w \in 0 .. MaxTime
  PROVE  /\ Store(Collected(rs, attempts, w))
         /\ \A q \in Collected(rs, attempts, w) : \E r \in rs :
              \/ SameButIndex(q, r)
              \/ r \in DueNow(rs, attempts, w) /\ SameButIndex(q, Resent(r, w))
<1> DEFINE due == DueNow(rs, attempts, w)
           kept == rs \ Exhausted(rs, attempts)
           polled(r) == IF r \in due THEN Resent(r, w) ELSE r
           f == [r \in kept |-> polled(r)]
           S == {polled(r) : r \in kept}
<1>1. Collected(rs, attempts, w) = Reindex(S)
  BY DEF Collected
<1>2. kept \subseteq rs /\ IsFiniteSet(kept)
  BY FS_Subset DEF Store
<1>3. ASSUME NEW r \in kept PROVE polled(r) \in Record
  BY <1>2, ResentType DEF Store
<1>4. IsFiniteSet({f[r] : r \in kept})
  <2> HIDE DEF f, kept
  <2> QED  BY <1>2, FiniteImage
<1>5. S = {f[r] : r \in kept}
  <2> HIDE DEF polled, kept
  <2> QED  OBVIOUS
<1>6. S \in SUBSET Record /\ IsFiniteSet(S)
  <2> HIDE DEF polled, kept
  <2> QED  BY <1>3, <1>4, <1>5
<1>7. ASSUME NEW q \in Reindex(S)
      PROVE  \E r \in rs : \/ SameButIndex(q, r)
                           \/ r \in due /\ SameButIndex(q, Resent(r, w))
  <2>1. PICK p \in S : SameButIndex(q, p)
    <3> HIDE DEF S
    <3> QED  BY <1>6, ReindexFacts
  <2>2. PICK r \in kept : p = polled(r)
    OBVIOUS
  <2> HIDE DEF S, kept, due
  <2> QED  BY <1>2, <2>1, <2>2
<1> HIDE DEF S, due
<1> QED  BY <1>1, <1>6, <1>7, ReindexFacts DEF Store, due

-----------------------------------------------------------------------------
(***************************************************************************)
(* The set stands for a Vec: no two records share a key, and the indices   *)
(* are those from 1 up to the number of records.                           *)
(***************************************************************************)
Distinct(rs) ==
  /\ Store(rs)
  /\ \A q, r \in rs : q.at = r.at => q = r
  /\ \A q, r \in rs : q.key = r.key => q = r

Vec(rs) ==
  /\ Distinct(rs)
  /\ \A r \in rs : r.at \in 1 .. Cardinality(rs)

(***************************************************************************)
(* As many records have an index up to m as there are indices up to m.     *)
(***************************************************************************)
LEMMA CountUpTo ==
  ASSUME NEW rs, Vec(rs), NEW m \in 0 .. Cardinality(rs)
  PROVE  /\ IsFiniteSet({q \in rs : q.at <= m})
         /\ Cardinality({q \in rs : q.at <= m}) = m
<1> DEFINE c == Cardinality(rs)
           g == [r \in rs |-> r.at]
           B == {q \in rs : q.at <= m}
           h == [q \in B |-> q.at]
<1>1. c \in Nat /\ IsFiniteSet(rs)
  BY FS_CardinalityType DEF Vec, Distinct, Store
<1>2. IsFiniteSet(1 .. c) /\ Cardinality(1 .. c) = c
  BY <1>1, FS_Interval
<1>3. g \in Injection(rs, 1 .. c)
  BY DEF Vec, Distinct, Injection, IsInjective
<1>4. g \in Surjection(rs, 1 .. c)
  <2> HIDE DEF g
  <2> QED  BY <1>1, <1>2, <1>3, FS_Injection
<1>5. \A i \in 1 .. c : \E r \in rs : r.at = i
  BY <1>4 DEF Surjection
<1>6. IsFiniteSet(B)
  BY <1>1, FS_Subset
<1>7. h \in Bijection(B, 1 .. m)
  <2>1. \A q \in B : q.at \in 1 .. m
    BY <1>1 DEF Vec
  <2>2. \A q, r \in B : q.at = r.at => q = r
    BY DEF Vec, Distinct
  <2>3. \A i \in 1 .. m : \E q \in B : q.at = i
    <3>1. 1 .. m \subseteq 1 .. c
      BY <1>1
    <3>2. \A i \in 1 .. m : i <= m
      BY <1>1
    <3> QED  BY <1>5, <3>1, <3>2
  <2> HIDE DEF B
  <2> QED  BY <2>1, <2>2, <2>3 DEF Bijection, Injection, Surjection, IsInjective
<1>8. Cardinality(1 .. m) = Cardinality(B)
  <2>1. ExistsBijection(B, 1 .. m)
    BY <1>7 DEF ExistsBijection
  <2> QED  BY <1>6, <2>1, FS_Bijection
<1>9. Cardinality(1 .. m) = m
  BY <1>1, FS_Interval
<1> QED  BY <1>6, <1>8, <1>9

(***************************************************************************)
(* Removing records leaves a Vec of as many records as are left.           *)
(***************************************************************************)
LEMMA ReindexVec ==
  ASSUME NEW rs, Distinct(rs)
  PROVE  /\ Vec(Reindex(rs))
         /\ Cardinality(Reindex(rs)) = Cardinality(rs)
         /\ \A r \in rs : \E q \in Reindex(rs) :
              /\ SameButIndex(q, r)
              /\ q.at = Cardinality({p \in rs : p.at <= r.at})
<1> DEFINE upTo(r) == {p \in rs : p.at <= r.at}
           rank(r) == Cardinality(upTo(r))
           moved(r) == [r EXCEPT !.at = rank(r)]
           c == Cardinality(rs)
           S == {moved(r) : r \in rs}
           f == [r \in rs |-> moved(r)]
<1>1. Reindex(rs) = S
  BY DEF Reindex
<1>2. rs \in SUBSET Record /\ IsFiniteSet(rs) /\ c \in Nat
  BY FS_CardinalityType DEF Distinct, Store
<1>3. ASSUME NEW r \in rs PROVE rank(r) \in 1 .. c
  <2>1. upTo(r) \subseteq rs /\ r \in upTo(r)
    BY <1>2 DEF Record
  <2> HIDE DEF upTo
  <2>2. /\ IsFiniteSet(upTo(r))
        /\ rank(r) <= c
        /\ rank(r) \in Nat
    BY <1>2, <2>1, FS_Subset, FS_CardinalityType
  <2>3. rank(r) # 0
    BY <2>1, <2>2, FS_EmptySet
  <2> QED  BY <1>2, <2>2, <2>3
<1>4. ASSUME NEW q \in rs, NEW r \in rs, q.at < r.at PROVE rank(q) < rank(r)
  <2>1. q.at \in Nat /\ r.at \in Nat /\ \A p \in rs : p.at \in Nat
    BY <1>2 DEF Record
  <2>2. upTo(q) \subseteq upTo(r) /\ r \in upTo(r) /\ r \notin upTo(q)
    BY <1>4, <2>1
  <2>3. upTo(r) \subseteq rs
    OBVIOUS
  <2> HIDE DEF upTo
  <2>4. IsFiniteSet(upTo(r)) /\ IsFiniteSet(upTo(q))
    BY <1>2, <2>2, <2>3, FS_Subset
  <2>5. rank(q) <= rank(r) /\ rank(q) # rank(r)
    BY <2>2, <2>4, FS_Subset
  <2>6. rank(q) \in Nat /\ rank(r) \in Nat
    BY <2>4, FS_CardinalityType
  <2> QED  BY <2>5, <2>6
<1>5. ASSUME NEW q \in rs, NEW r \in rs, rank(q) = rank(r) PROVE q = r
  <2>1. q.at \in Nat /\ r.at \in Nat
    BY <1>2 DEF Record
  <2>2. rank(q) \in Nat /\ rank(r) \in Nat
    BY <1>2, <1>3
  <2>3. ~(q.at < r.at) /\ ~(r.at < q.at)
    <3> HIDE DEF rank
    <3> QED  BY <1>4, <1>5, <2>2
  <2>4. q.at = r.at
    BY <2>1, <2>3
  <2> QED  BY <2>4 DEF Distinct
<1> HIDE DEF rank
<1>6. ASSUME NEW r \in rs
      PROVE  /\ moved(r) \in Record
             /\ moved(r).at = rank(r)
             /\ SameButIndex(moved(r), r)
  <2>1. rank(r) \in Nat
    BY <1>2, <1>3
  <2> QED  BY <1>2, <2>1 DEF Record, SameButIndex
<1>7. f \in Bijection(rs, S)
  <2>1. \A q, r \in rs : moved(q) = moved(r) => q = r
    BY <1>5, <1>6
  <2> HIDE DEF moved
  <2> QED  BY <2>1 DEF Bijection, Injection, Surjection, IsInjective
<1>8. IsFiniteSet(S) /\ Cardinality(S) = c
  <2>1. ExistsBijection(rs, S)
    BY <1>7 DEF ExistsBijection
  <2> HIDE DEF S
  <2> QED  BY <1>2, <2>1, FS_Bijection
<1> HIDE DEF moved
<1>9. Store(S)
  BY <1>6, <1>8 DEF Store
<1>10. \A q, r \in S : q.at = r.at => q = r
  BY <1>5, <1>6
<1>11. \A q, r \in S : q.key = r.key => q = r
  BY <1>6 DEF SameButIndex, Distinct
<1>12. \A r \in S : r.at \in 1 .. c
  BY <1>3, <1>6
<1>13. \A r \in rs : \E q \in S : SameButIndex(q, r) /\ q.at = rank(r)
  BY <1>6
<1> HIDE DEF S
<1> QED  BY <1>1, <1>8, <1>9, <1>10, <1>11, <1>12, <1>13 DEF Vec, Distinct, rank

(***************************************************************************)
(* Some of the records, or records changed without their key and index,    *)
(* are distinct still.                                                     *)
(***************************************************************************)
LEMMA SomeDistinct ==
  ASSUME NEW rs, Distinct(rs), NEW S, S \subseteq rs
  PROVE  Distinct(S)
BY FS_Subset DEF Distinct, Store

\* A change that leaves keys and indices alone leaves the Vec a Vec.
LEMMA ChangedDistinct ==
  ASSUME NEW rs, Distinct(rs), NEW f,
         \A r \in rs : f[r] \in Record /\ f[r].at = r.at /\ f[r].key = r.key
  PROVE  /\ Distinct({f[r] : r \in rs})
         /\ Vec(rs) => Vec({f[r] : r \in rs})
         /\ Cardinality({f[r] : r \in rs}) = Cardinality(rs)
<1> DEFINE S == {f[r] : r \in rs}
           g == [r \in rs |-> f[r]]
<1>1. g \in Bijection(rs, S)
  <2>1. \A q, r \in rs : f[q] = f[r] => q = r
    BY DEF Distinct
  <2> QED  BY <2>1 DEF Bijection, Injection, Surjection, IsInjective
<1>2. IsFiniteSet(S) /\ Cardinality(S) = Cardinality(rs)
  <2>1. ExistsBijection(rs, S)
    BY <1>1 DEF ExistsBijection
  <2> HIDE DEF S
  <2> QED  BY <2>1, FS_Bijection DEF Distinct, Store
<1>3. Distinct(S)
  BY <1>2 DEF Distinct, Store
<1>4. Vec(rs) => \A r \in S : r.at \in 1 .. Cardinality(rs)
  BY DEF Vec
<1>5. Vec(rs) => Vec(S)
  <2> HIDE DEF S
  <2> QED  BY <1>2, <1>3, <1>4 DEF Vec
<1> QED  BY <1>2, <1>3, <1>5

-----------------------------------------------------------------------------
(***************************************************************************)
(* A store with a place too few loses its oldest record, and every other   *)
(* one moves up by one.                                                    *)
(***************************************************************************)
LEMMA EvictVec ==
  ASSUME NEW rs, Vec(rs), Cardinality(rs) = Capacity + 1
  PROVE  /\ Vec(EvictOldest(rs))
         /\ Cardinality(EvictOldest(rs)) = Capacity
         /\ \A r \in rs : r.at > 1 => \E q \in EvictOldest(rs) :
              SameButIndex(q, r) /\ q.at = r.at - 1
<1> DEFINE kept == {r \in rs : r.at > 1}
           upTo(m) == {q \in rs : q.at <= m}
           keptUpTo(m) == {q \in kept : q.at <= m}
<1>1. Capacity \in Nat /\ Capacity >= 1
  BY StoreAssumption DEF Capacity
<1>2. EvictOldest(rs) = Reindex(kept)
  BY <1>1 DEF EvictOldest
<1>3. rs \in SUBSET Record /\ IsFiniteSet(rs)
  BY DEF Vec, Distinct, Store
<1>4. Distinct(kept)
  <2>1. kept \subseteq rs
    OBVIOUS
  <2> HIDE DEF kept
  <2> QED  BY <2>1, SomeDistinct DEF Vec
<1>5. ASSUME NEW m \in 1 .. Capacity + 1
      PROVE  Cardinality(keptUpTo(m)) = m - 1
  <2>1. /\ IsFiniteSet(upTo(m)) /\ Cardinality(upTo(m)) = m
        /\ IsFiniteSet(upTo(1)) /\ Cardinality(upTo(1)) = 1
    <3>1. m \in 0 .. Cardinality(rs) /\ 1 \in 0 .. Cardinality(rs)
      BY <1>1
    <3> QED  BY <3>1, CountUpTo
  <2>2. \A q \in rs : q.at \in Nat
    BY <1>3 DEF Record
  <2>3. upTo(m) \cap upTo(1) = upTo(1)
    BY <1>1, <2>2
  <2>4. keptUpTo(m) = upTo(m) \ upTo(1)
    BY <1>1, <2>2
  <2> HIDE DEF upTo, keptUpTo
  <2>5. Cardinality(upTo(m) \ upTo(1))
          = Cardinality(upTo(m)) - Cardinality(upTo(m) \cap upTo(1))
    BY <2>1, FS_Difference
  <2>6. Cardinality(upTo(m) \ upTo(1)) = m - 1
    BY <2>1, <2>3, <2>5
  <2> QED  BY <2>4, <2>6
<1>6. Cardinality(kept) = Capacity
  <2>1. PICK m \in 1 .. Capacity + 1 : m = Capacity + 1
    BY <1>1
  <2>2. kept = keptUpTo(m)
    BY <1>1, <2>1 DEF Vec
  <2> HIDE DEF kept, keptUpTo
  <2>3. Cardinality(keptUpTo(m)) = m - 1
    BY <1>5
  <2> QED  BY <1>1, <2>1, <2>2, <2>3
<1>7. ASSUME NEW r \in rs, r.at > 1
      PROVE  \E q \in Reindex(kept) : SameButIndex(q, r) /\ q.at = r.at - 1
  <2>1. r \in kept
    BY <1>7
  <2>2. r.at \in 1 .. Capacity + 1
    BY DEF Vec
  <2>3. Cardinality(keptUpTo(r.at)) = r.at - 1
    <3> HIDE DEF keptUpTo
    <3> QED  BY <1>5, <2>2
  <2> HIDE DEF kept
  <2> QED  BY <1>4, <2>1, <2>3, ReindexVec
<1> HIDE DEF kept
<1> QED  BY <1>2, <1>4, <1>6, <1>7, ReindexVec

(***************************************************************************)
(* A key that is not there is appended.  The store loses its oldest record *)
(* for it exactly when it was full, and no record moves otherwise.         *)
(***************************************************************************)
Shift(rs) == IF Cardinality(rs) = Capacity THEN 1 ELSE 0

\* A packet with a new key goes to the end, and the others move up by Shift.
LEMMA AppendedFacts ==
  ASSUME NEW rs, Vec(rs), Cardinality(rs) <= Capacity,
         NEW k \in Keys \ KeysOf(rs), NEW t \in 0 .. MaxTime,
         NEW w \in 0 .. MaxTime
  PROVE  /\ Vec(Tracked(rs, k, t, w))
         /\ Cardinality(Tracked(rs, k, t, w)) = Cardinality(rs) + 1 - Shift(rs)
         /\ \A r \in rs : r.at > Shift(rs) =>
              \E q \in Tracked(rs, k, t, w) :
                SameButIndex(q, r) /\ q.at = r.at - Shift(rs)
         /\ \E q \in Tracked(rs, k, t, w) :
              /\ q.key = k /\ ~q.acknowledged
              /\ q.at = Cardinality(rs) + 1 - Shift(rs)
<1> DEFINE c == Cardinality(rs)
           new == NewRecord(k, c + 1, AtLeastOne(t), w)
           S == rs \cup {new}
<1>1. c \in Nat /\ Capacity \in Nat /\ Capacity >= 1 /\ IsFiniteSet(rs)
  BY StoreAssumption, FS_CardinalityType DEF Capacity, Vec, Distinct, Store
<1>2. /\ new \in Record
      /\ new.at = c + 1 /\ new.key = k /\ ~new.acknowledged
  <2>1. new \in Record
    BY <1>1, TimeoutType, NewRecordType
  <2> QED  BY <2>1 DEF NewRecord
<1>3. \A r \in rs : r.key # k /\ r.at \in 1 .. c
  BY DEF KeysOf, Vec
<1> HIDE DEF new
<1>4. new \notin rs
  BY <1>2, <1>3
<1>5. IsFiniteSet(S) /\ Cardinality(S) = c + 1
  BY <1>1, <1>4, FS_AddElement
<1>6. Vec(S)
  <2>1. Store(S)
    BY <1>2, <1>5 DEF Vec, Distinct, Store
  <2>2. \A r \in rs : r.at # new.at
    BY <1>1, <1>2, <1>3
  <2>3. \A q, r \in S : q.at = r.at => q = r
    BY <2>2 DEF Vec, Distinct
  <2>4. \A q, r \in S : q.key = r.key => q = r
    BY <1>2, <1>3 DEF Vec, Distinct
  <2>5. \A r \in S : r.at \in 1 .. c + 1
    BY <1>1, <1>2, <1>3
  <2> HIDE DEF S
  <2> QED  BY <1>5, <2>1, <2>3, <2>4, <2>5 DEF Vec, Distinct
<1>7. Tracked(rs, k, t, w) = EvictOldest(S)
  BY DEF Tracked, new
<1>8. CASE c = Capacity
  <2>1. Shift(rs) = 1
    BY <1>8 DEF Shift
  <2>2. /\ Vec(EvictOldest(S))
        /\ Cardinality(EvictOldest(S)) = Capacity
        /\ \A r \in S : r.at > 1 => \E q \in EvictOldest(S) :
             SameButIndex(q, r) /\ q.at = r.at - 1
    <3> HIDE DEF S
    <3> QED  BY <1>5, <1>6, <1>8, EvictVec
  <2>3. new \in S /\ new.at > 1 /\ new.at - 1 = c + 1 - 1
    BY <1>1, <1>2, <1>8
  <2>4. \E q \in EvictOldest(S) : SameButIndex(q, new) /\ q.at = c + 1 - 1
    <3> HIDE DEF S
    <3> QED  BY <2>2, <2>3
  <2>5. rs \subseteq S /\ Capacity = c + 1 - 1
    BY <1>1, <1>8
  <2> HIDE DEF S
  <2> QED  BY <1>2, <1>7, <2>1, <2>2, <2>4, <2>5 DEF SameButIndex
<1>9. CASE c # Capacity
  <2>1. Shift(rs) = 0
    BY <1>9 DEF Shift
  <2>2. EvictOldest(S) = S
    <3> HIDE DEF S
    <3> QED  BY <1>1, <1>5, <1>9 DEF EvictOldest
  <2>3. \A r \in rs : r \in S /\ SameButIndex(r, r) /\ r.at = r.at - 0
    BY <1>3 DEF SameButIndex
  <2>4. new \in S /\ new.at = c + 1 - 0 /\ c + 1 = c + 1 - 0
    BY <1>1, <1>2
  <2> HIDE DEF S
  <2> QED  BY <1>2, <1>5, <1>6, <1>7, <2>1, <2>2, <2>3, <2>4
<1> QED  BY <1>8, <1>9

(***************************************************************************)
(* A key that is there keeps its place.                                    *)
(***************************************************************************)
LEMMA RenewedFacts ==
  ASSUME NEW rs, Vec(rs), NEW k \in KeysOf(rs), NEW t \in 0 .. MaxTime,
         NEW w \in 0 .. MaxTime
  PROVE  /\ Vec(Tracked(rs, k, t, w))
         /\ Cardinality(Tracked(rs, k, t, w)) = Cardinality(rs)
         /\ KeysOf(Tracked(rs, k, t, w)) = KeysOf(rs)
<1> DEFINE T == AtLeastOne(t)
           renewed(r) == IF r.key = k THEN NewRecord(k, r.at, T, w) ELSE r
           f == [r \in rs |-> renewed(r)]
           S == {renewed(r) : r \in rs}
<1>1. T \in 0 .. MaxTime /\ k \in Keys /\ rs \in SUBSET Record
  BY TimeoutType DEF KeysOf, Vec, Distinct, Store, Record
<1> HIDE DEF T
<1>2. Tracked(rs, k, t, w) = S
  BY DEF Tracked, T
<1>3. ASSUME NEW r \in rs
      PROVE  renewed(r) \in Record /\ renewed(r).at = r.at /\ renewed(r).key = r.key
  <2>1. r \in Record /\ r.at \in Nat
    BY <1>1 DEF Record
  <2>2. NewRecord(k, r.at, T, w) \in Record
    BY <1>1, <2>1, NewRecordType
  <2> QED  BY <2>1, <2>2 DEF NewRecord
<1> HIDE DEF renewed
<1>4. S = {f[r] : r \in rs}
  OBVIOUS
<1>5. Vec(S) /\ Cardinality(S) = Cardinality(rs)
  <2>1. \A r \in rs : f[r] \in Record /\ f[r].at = r.at /\ f[r].key = r.key
    BY <1>3
  <2>2. Distinct(rs)
    BY DEF Vec
  <2> HIDE DEF f, S
  <2>3. Vec({f[r] : r \in rs}) /\ Cardinality({f[r] : r \in rs}) = Cardinality(rs)
    BY <2>1, <2>2, ChangedDistinct
  <2> QED  BY <1>4, <2>3
<1>6. KeysOf(S) = KeysOf(rs)
  BY <1>3 DEF KeysOf
<1> HIDE DEF S
<1> QED  BY <1>2, <1>5, <1>6

\* Tracking a packet keeps the store a Vec within its capacity.
LEMMA TrackedVec ==
  ASSUME NEW rs, Vec(rs), Cardinality(rs) <= Capacity,
         NEW k \in Keys, NEW t \in 0 .. MaxTime,
         NEW w \in 0 .. MaxTime
  PROVE  Vec(Tracked(rs, k, t, w)) /\ Cardinality(Tracked(rs, k, t, w)) <= Capacity
<1>1. Cardinality(rs) \in Nat /\ Capacity \in Nat
  BY StoreAssumption, FS_CardinalityType DEF Capacity, Vec, Distinct, Store
<1>2. CASE k \in KeysOf(rs)
  BY <1>2, RenewedFacts
<1>3. CASE k \notin KeysOf(rs)
  <2>1. Cardinality(rs) + 1 - Shift(rs) <= Capacity
    BY <1>1 DEF Shift
  <2> QED  BY <1>3, <2>1, AppendedFacts
<1> QED  BY <1>2, <1>3

-----------------------------------------------------------------------------
(***************************************************************************)
(* What the operations do to the keys the store knows, to those among them *)
(* that the peer still owes an answer for, and to the Vec.                 *)
(***************************************************************************)
OwedIn(rs) == KeysOf(Unacknowledged(rs))

\* Marking: every place is kept, and the marked keys are owed no more.
LEMMA AcknowledgedAllVec ==
  ASSUME NEW rs, Vec(rs), NEW ks
  PROVE  /\ Vec(AcknowledgedAll(rs, ks))
         /\ Cardinality(AcknowledgedAll(rs, ks)) = Cardinality(rs)
         /\ KeysOf(AcknowledgedAll(rs, ks)) = KeysOf(rs)
         /\ OwedIn(AcknowledgedAll(rs, ks)) = OwedIn(rs) \ ks
<1> DEFINE marked(r) == IF r.key \in ks THEN [r EXCEPT !.acknowledged = TRUE] ELSE r
           f == [r \in rs |-> marked(r)]
           S == {marked(r) : r \in rs}
<1>1. AcknowledgedAll(rs, ks) = S
  BY DEF AcknowledgedAll
<1>2. ASSUME NEW r \in rs
      PROVE  /\ marked(r) \in Record /\ marked(r).at = r.at /\ marked(r).key = r.key
             /\ ~marked(r).acknowledged <=> ~r.acknowledged /\ r.key \notin ks
  <2>1. r \in Record
    BY DEF Vec, Distinct, Store
  <2> QED  BY <2>1 DEF Record
<1> HIDE DEF marked
<1>3. S = {f[r] : r \in rs}
  OBVIOUS
<1>4. Vec(S) /\ Cardinality(S) = Cardinality(rs)
  <2>1. \A r \in rs : f[r] \in Record /\ f[r].at = r.at /\ f[r].key = r.key
    BY <1>2
  <2>2. Distinct(rs)
    BY DEF Vec
  <2> HIDE DEF f, S
  <2> QED  BY <1>3, <2>1, <2>2, ChangedDistinct
<1>5. KeysOf(S) = KeysOf(rs)
  BY <1>2 DEF KeysOf
<1>6. OwedIn(S) = OwedIn(rs) \ ks
  <2>1. \A k \in OwedIn(S) : k \in OwedIn(rs) \ ks
    BY <1>2 DEF OwedIn, KeysOf, Unacknowledged
  <2>2. \A k \in OwedIn(rs) \ ks : k \in OwedIn(S)
    BY <1>2 DEF OwedIn, KeysOf, Unacknowledged
  <2> QED  BY <2>1, <2>2
<1> HIDE DEF S
<1> QED  BY <1>1, <1>4, <1>5, <1>6

\* Pruning: what is owed stays, and nothing else.
LEMMA PrunedVec ==
  ASSUME NEW rs, Vec(rs)
  PROVE  /\ Vec(Pruned(rs))
         /\ Cardinality(Pruned(rs)) <= Cardinality(rs)
         /\ KeysOf(Pruned(rs)) = OwedIn(rs)
         /\ OwedIn(Pruned(rs)) = OwedIn(rs)
<1> DEFINE kept == Unacknowledged(rs)
<1>1. kept \subseteq rs /\ \A r \in kept : ~r.acknowledged
  BY DEF Unacknowledged
<1>2. Pruned(rs) = Reindex(kept)
  BY DEF Pruned
<1>3. OwedIn(rs) = KeysOf(kept)
  BY DEF OwedIn
<1> HIDE DEF kept
<1>4. Distinct(kept) /\ Store(kept)
  BY <1>1, SomeDistinct DEF Vec, Distinct
<1>5. Cardinality(kept) <= Cardinality(rs)
  BY <1>1, FS_Subset DEF Vec, Distinct, Store
<1>6. /\ \A q \in Reindex(kept) : \E r \in kept : q.key = r.key /\ ~q.acknowledged
      /\ \A r \in kept : \E q \in Reindex(kept) : q.key = r.key /\ ~q.acknowledged
  BY <1>1, <1>4, ReindexFacts, ReindexVec DEF SameButIndex, Store
<1>7. KeysOf(Reindex(kept)) = KeysOf(kept)
  BY <1>6 DEF KeysOf
<1>8. OwedIn(Reindex(kept)) = KeysOf(kept)
  BY <1>6 DEF OwedIn, KeysOf, Unacknowledged
<1> QED  BY <1>2, <1>3, <1>4, <1>5, <1>7, <1>8, ReindexVec

\* Polling: the exhausted records go, and nothing else.
LEMMA CollectedVec ==
  ASSUME NEW rs, Vec(rs), NEW attempts,
         NEW w \in 0 .. MaxTime
  PROVE  /\ Vec(Collected(rs, attempts, w))
         /\ Cardinality(Collected(rs, attempts, w)) <= Cardinality(rs)
         /\ KeysOf(Collected(rs, attempts, w)) = KeysOf(rs \ Exhausted(rs, attempts))
         /\ OwedIn(Collected(rs, attempts, w))
              = KeysOf(Unacknowledged(rs) \ Exhausted(rs, attempts))
<1> DEFINE due == DueNow(rs, attempts, w)
           kept == rs \ Exhausted(rs, attempts)
           polled(r) == IF r \in due THEN Resent(r, w) ELSE r
           f == [r \in kept |-> polled(r)]
           S == {polled(r) : r \in kept}
<1>1. Collected(rs, attempts, w) = Reindex(S)
  BY DEF Collected
<1>2. kept \subseteq rs /\ rs \in SUBSET Record /\ IsFiniteSet(rs)
  BY DEF Vec, Distinct, Store
<1>3. ASSUME NEW r \in kept
      PROVE  /\ polled(r) \in Record /\ polled(r).at = r.at /\ polled(r).key = r.key
             /\ ~polled(r).acknowledged <=> ~r.acknowledged
  <2>1. r \in Record
    BY <1>2
  <2>2. /\ Resent(r, w) \in Record
        /\ Resent(r, w).at = r.at /\ Resent(r, w).key = r.key
        /\ Resent(r, w).acknowledged = r.acknowledged
    BY <2>1, ResentType
  <2> QED  BY <2>1, <2>2
<1> HIDE DEF polled
<1>4. S = {f[r] : r \in kept}
  OBVIOUS
<1>5. Distinct(S) /\ Cardinality(S) <= Cardinality(rs)
  <2>1. \A r \in kept : f[r] \in Record /\ f[r].at = r.at /\ f[r].key = r.key
    BY <1>3
  <2> HIDE DEF f, S, kept
  <2>2. Distinct(kept) /\ Cardinality(kept) <= Cardinality(rs)
    BY <1>2, SomeDistinct, FS_Subset DEF Vec
  <2> QED  BY <1>4, <2>1, <2>2, ChangedDistinct
<1>6. /\ \A q \in Reindex(S) : \E r \in S :
           q.key = r.key /\ (~q.acknowledged <=> ~r.acknowledged)
      /\ \A r \in S : \E q \in Reindex(S) :
           q.key = r.key /\ (~q.acknowledged <=> ~r.acknowledged)
  <2> HIDE DEF S
  <2>1. S \in SUBSET Record /\ IsFiniteSet(S)
    BY <1>5 DEF Distinct, Store
  <2>2. \A q \in Reindex(S) : \E r \in S : SameButIndex(q, r)
    BY <2>1, ReindexFacts
  <2>3. \A r \in S : \E q \in Reindex(S) : SameButIndex(q, r)
    BY <1>5, ReindexVec
  <2> QED  BY <2>2, <2>3 DEF SameButIndex
<1>7. /\ \A q \in Reindex(S) : \E r \in kept :
           q.key = r.key /\ (~q.acknowledged <=> ~r.acknowledged)
      /\ \A r \in kept : \E q \in Reindex(S) :
           q.key = r.key /\ (~q.acknowledged <=> ~r.acknowledged)
  <2>1. \A r \in S : \E p \in kept : r = polled(p)
    OBVIOUS
  <2>2. \A p \in kept : polled(p) \in S
    OBVIOUS
  <2> HIDE DEF S, kept
  <2>3. ASSUME NEW q \in Reindex(S)
        PROVE  \E r \in kept : q.key = r.key /\ (~q.acknowledged <=> ~r.acknowledged)
    <3>1. PICK r \in S : q.key = r.key /\ (~q.acknowledged <=> ~r.acknowledged)
      BY <1>6
    <3>2. PICK p \in kept : r = polled(p)
      BY <2>1
    <3> QED  BY <1>3, <3>1, <3>2
  <2>4. ASSUME NEW r \in kept
        PROVE  \E q \in Reindex(S) : q.key = r.key /\ (~q.acknowledged <=> ~r.acknowledged)
    <3>1. PICK q \in Reindex(S) :
            q.key = polled(r).key /\ (~q.acknowledged <=> ~polled(r).acknowledged)
      BY <1>6, <2>2
    <3> QED  BY <1>3, <3>1
  <2> QED  BY <2>3, <2>4
<1> HIDE DEF S
<1>8. KeysOf(Reindex(S)) = KeysOf(kept)
  BY <1>7 DEF KeysOf
<1>9. OwedIn(Reindex(S)) = KeysOf(Unacknowledged(kept))
  BY <1>7 DEF OwedIn, KeysOf, Unacknowledged
<1>10. Unacknowledged(kept) = Unacknowledged(rs) \ Exhausted(rs, attempts)
  BY DEF Unacknowledged
<1> QED  BY <1>1, <1>5, <1>8, <1>9, <1>10, ReindexVec

\* Tracking a packet adds no other key than its own.
LEMMA TrackedKeys ==
  ASSUME NEW rs, Vec(rs), NEW k \in Keys, NEW t \in 0 .. MaxTime,
         NEW w \in 0 .. MaxTime
  PROVE  /\ KeysOf(Tracked(rs, k, t, w)) \subseteq KeysOf(rs) \cup {k}
         /\ OwedIn(Tracked(rs, k, t, w)) \subseteq OwedIn(rs) \cup {k}
<1>1. Store(rs)
  BY DEF Vec, Distinct
<1>2. \A q \in Tracked(rs, k, t, w) :
        \/ q.key = k
        \/ \E r \in rs : q.key = r.key /\ q.acknowledged = r.acknowledged
  <2> SUFFICES ASSUME NEW q \in Tracked(rs, k, t, w)
               PROVE  \/ q.key = k
                      \/ \E r \in rs : q.key = r.key /\ q.acknowledged = r.acknowledged
    OBVIOUS
  <2>1. \/ \E at \in Nat : SameButIndex(q, NewRecord(k, at, AtLeastOne(t), w))
        \/ \E r \in rs : r.key # k /\ SameButIndex(q, r)
    BY <1>1, TrackedFacts
  <2> QED  BY <2>1 DEF SameButIndex, NewRecord
<1> QED  BY <1>2 DEF OwedIn, KeysOf, Unacknowledged


-----------------------------------------------------------------------------
(***************************************************************************)
(* The two calls that track a packet differ in the time they take for now. *)
(***************************************************************************)
Tracks(k, t, w) ==
  /\ records' = Tracked(records, k, t, w)
  /\ settled' = settled \ {k}
  /\ returned' = {}
  /\ UNCHANGED now

\* The steps of the store.
LEMMA StoreSteps ==
  ASSUME now \in 0 .. MaxTime, [StoreNext]_retransmitVars
  PROVE  \/ \E k \in Keys, t \in 0 .. MaxTime, w \in 0 .. now : Tracks(k, t, w)
         \/ \E k \in Keys : MarkAcked(k)
         \/ PruneAcked
         \/ \E attempts \in AttemptLimits : CollectDue(attempts)
         \/ TimePasses
         \/ UNCHANGED retransmitVars
<1>1. 0 \in 0 .. now /\ now \in 0 .. now
  OBVIOUS
<1>2. ASSUME NEW k \in Keys, NEW t \in InitialTimeouts, TrackWithSchedule(k, t)
      PROVE  t \in 0 .. MaxTime /\ Tracks(k, t, now)
  BY <1>2, RetransmitAssumption DEF TrackWithSchedule, Tracks
<1>3. ASSUME NEW k \in Keys, TrackOutbound(k)
      PROVE  DefaultTimeout \in 0 .. MaxTime /\ Tracks(k, DefaultTimeout, 0)
  BY <1>3, RetransmitAssumption, StoreAssumption DEF TrackOutbound, Tracks
<1> QED  BY <1>1, <1>2, <1>3 DEF StoreNext

-----------------------------------------------------------------------------
(***************************************************************************)
(* Every reachable store is finite and well typed.                         *)
(***************************************************************************)
THEOREM StoreTypeCorrect == StoreSpec => []StoreTypeOK
<1>1. StoreInit => StoreTypeOK
  BY FS_EmptySet, StoreAssumption DEF StoreInit, StoreTypeOK
<1>2. StoreTypeOK /\ [StoreNext]_retransmitVars => StoreTypeOK'
  <2> SUFFICES ASSUME StoreTypeOK, [StoreNext]_retransmitVars PROVE StoreTypeOK'
    OBVIOUS
  <2>0. Store(records)
    BY DEF StoreTypeOK, Store
  <2>1. ASSUME NEW k \in Keys, NEW t \in 0 .. MaxTime, NEW w \in 0 .. now,
               Tracks(k, t, w)
        PROVE  StoreTypeOK'
    <3>1. w \in 0 .. MaxTime
      BY StoreAssumption DEF StoreTypeOK
    <3> QED  BY <2>0, <2>1, <3>1, TrackedFacts DEF Tracks, StoreTypeOK, Store
  <2>2. ASSUME NEW k \in Keys, MarkAcked(k) PROVE StoreTypeOK'
    BY <2>0, <2>2, AcknowledgedFacts DEF MarkAcked, StoreTypeOK, Store
  <2>3. CASE PruneAcked
    BY <2>0, <2>3, PrunedFacts DEF PruneAcked, StoreTypeOK, Store
  <2>4. ASSUME NEW attempts \in AttemptLimits, CollectDue(attempts)
        PROVE  StoreTypeOK'
    <3>1. KeysOf(DueNow(records, attempts, now)) \subseteq Keys
      BY <2>0 DEF KeysOf, DueNow, Unacknowledged, Store, Record
    <3> QED  BY <2>0, <2>4, <3>1, CollectedFacts DEF CollectDue, StoreTypeOK, Store
  <2>5. CASE TimePasses
    BY <2>0, <2>5, StoreAssumption DEF TimePasses, StoreTypeOK, Store
  <2>6. CASE UNCHANGED retransmitVars
    BY <2>6 DEF retransmitVars, storeVars, StoreTypeOK
  <2> QED  BY <2>1, <2>2, <2>3, <2>4, <2>5, <2>6, StoreSteps DEF StoreTypeOK
<1> QED  BY <1>1, <1>2, PTL DEF StoreSpec

-----------------------------------------------------------------------------
(***************************************************************************)
(* Back-off.  Spaced alone is not inductive: that a resend at most doubles *)
(* the timeout needs the timeout to be at least one.                       *)
(***************************************************************************)
RecordSpaced(r, w) ==
  /\ r.next >= Saturated(r.since + 2 * r.timeout - r.initial)
  /\ r.next <= Saturated(w + r.timeout)
  /\ 1 <= r.timeout

\* Records that differ in their index only are spaced alike.
LEMMA SpacedAlike ==
  ASSUME NEW q, NEW r, SameButIndex(q, r), NEW w, RecordSpaced(r, w)
  PROVE  RecordSpaced(q, w)
BY DEF SameButIndex, RecordSpaced

\* A new record is spaced, whether it is tracked with the time now or with
\* an earlier one.
LEMMA NewSpaced ==
  ASSUME NEW k \in Keys, NEW at \in Nat, NEW t \in 0 .. MaxTime,
         NEW w \in 0 .. MaxTime, NEW v \in 0 .. w
  PROVE  RecordSpaced(NewRecord(k, at, AtLeastOne(t), v), w)
<1> DEFINE T == AtLeastOne(t)
<1>1. T \in 1 .. MaxTime
  BY TimeoutType
<1> HIDE DEF T
<1>2. /\ v + 2 * T - T = v + T
      /\ Saturated(v + T) <= Saturated(w + T)
      /\ Saturated(v + T) \in Int
  BY <1>1, StoreAssumption DEF Saturated
<1> QED  BY <1>1, <1>2, StoreAssumption DEF RecordSpaced, NewRecord, T

\* A record that is due and sent again stays spaced.
LEMMA ResentSpaced ==
  ASSUME NEW r \in Record, NEW w \in 0 .. MaxTime, RecordSpaced(r, w), r.next <= w
  PROVE  RecordSpaced(Resent(r, w), w)
<1> DEFINE t == AtLeastOne(Saturated(2 * r.timeout))
<1>1. /\ r.since \in Nat /\ r.initial \in Nat /\ r.timeout \in Nat /\ r.next \in Nat
      /\ r.next <= MaxTime /\ w \in Nat /\ w <= MaxTime /\ MaxTime \in Nat
  BY StoreAssumption DEF Record
<1>2. t \in Nat /\ 1 <= t /\ t <= 2 * r.timeout
  BY <1>1 DEF AtLeastOne, Saturated, RecordSpaced
<1> HIDE DEF t
<1>3. /\ Resent(r, w).timeout = t
      /\ Resent(r, w).next = Saturated(w + t)
      /\ Resent(r, w).since = r.since
      /\ Resent(r, w).initial = r.initial
  BY ResentType DEF t
<1>4. Saturated(w + t) >= Saturated(r.since + 2 * t - r.initial)
  BY <1>1, <1>2 DEF Saturated, RecordSpaced
<1>5. Saturated(w + t) <= Saturated(w + t)
  BY <1>1, <1>2 DEF Saturated
<1> QED  BY <1>2, <1>3, <1>4, <1>5 DEF RecordSpaced

\* Time passing keeps a record spaced.
LEMMA LaterSpaced ==
  ASSUME NEW r \in Record, NEW w \in 0 .. MaxTime, RecordSpaced(r, w)
  PROVE  RecordSpaced(r, w + 1)
<1>1. r.timeout \in Nat /\ r.next \in Nat /\ w \in Nat /\ MaxTime \in Nat
  BY StoreAssumption DEF Record
<1> QED  BY <1>1 DEF RecordSpaced, Saturated

(***************************************************************************)
(* Resends are spaced exponentially in every reachable state.              *)
(***************************************************************************)
THEOREM AlwaysSpaced == StoreSpec => []Spaced
<1> DEFINE IInv == \A r \in records : RecordSpaced(r, now)
<1>1. StoreInit => IInv
  BY DEF StoreInit
<1>2. StoreTypeOK /\ IInv /\ [StoreNext]_retransmitVars => IInv'
  <2> SUFFICES ASSUME StoreTypeOK, IInv, [StoreNext]_retransmitVars,
                      NEW q \in records'
               PROVE  RecordSpaced(q, now')
    BY DEF RecordSpaced
  <2>0. Store(records) /\ now \in 0 .. MaxTime
    BY DEF StoreTypeOK, Store
  <2>a. \A r \in records : SameButIndex(q, r) => RecordSpaced(q, now)
    BY SpacedAlike
  <2>1. ASSUME NEW k \in Keys, NEW t \in 0 .. MaxTime, NEW w \in 0 .. now,
               Tracks(k, t, w)
        PROVE  RecordSpaced(q, now')
    <3>1. w \in 0 .. MaxTime /\ now' = now
      BY <2>0, <2>1, StoreAssumption DEF Tracks
    <3>2. \/ \E at \in Nat : SameButIndex(q, NewRecord(k, at, AtLeastOne(t), w))
          \/ \E r \in records : SameButIndex(q, r)
      BY <2>0, <2>1, <3>1, TrackedFacts DEF Tracks
    <3>3. \A at \in Nat : RecordSpaced(NewRecord(k, at, AtLeastOne(t), w), now)
      BY <2>0, NewSpaced
    <3> QED  BY <2>a, <3>1, <3>2, <3>3, SpacedAlike
  <2>2. ASSUME NEW k \in Keys, MarkAcked(k) PROVE RecordSpaced(q, now')
    <3>1. PICK r \in records :
            q = IF r.key = k THEN [r EXCEPT !.acknowledged = TRUE] ELSE r
      BY <2>0, <2>2, AcknowledgedFacts DEF MarkAcked
    <3>2. /\ q.next = r.next /\ q.timeout = r.timeout
          /\ q.since = r.since /\ q.initial = r.initial
      BY <2>0, <3>1 DEF Store, Record
    <3> QED  BY <2>2, <3>2 DEF RecordSpaced, MarkAcked
  <2>3. CASE PruneAcked
    BY <2>0, <2>3, <2>a, PrunedFacts DEF PruneAcked
  <2>4. ASSUME NEW attempts \in AttemptLimits, CollectDue(attempts)
        PROVE  RecordSpaced(q, now')
    <3>1. PICK r \in records :
            \/ SameButIndex(q, r)
            \/ r \in DueNow(records, attempts, now) /\ SameButIndex(q, Resent(r, now))
      BY <2>0, <2>4, CollectedFacts DEF CollectDue
    <3>2. CASE r \in DueNow(records, attempts, now) /\ SameButIndex(q, Resent(r, now))
      <4>1. r \in Record /\ r.next <= now
        BY <2>0, <3>2 DEF DueNow, Store
      <4>2. RecordSpaced(Resent(r, now), now)
        BY <2>0, <4>1, ResentSpaced
      <4> QED  BY <2>4, <3>2, <4>2, SpacedAlike DEF CollectDue
    <3> QED  BY <2>4, <2>a, <3>1, <3>2 DEF CollectDue
  <2>5. CASE TimePasses
    <3>1. q \in records /\ now' = now + 1
      BY <2>5 DEF TimePasses
    <3> QED  BY <2>0, <3>1, LaterSpaced DEF Store
  <2>6. CASE UNCHANGED retransmitVars
    BY <2>6 DEF retransmitVars, storeVars
  <2> QED  BY <2>0, <2>1, <2>2, <2>3, <2>4, <2>5, <2>6, StoreSteps
<1>3. IInv => Spaced
  BY DEF RecordSpaced, Spaced
<1> QED  BY <1>1, <1>2, <1>3, StoreTypeCorrect, PTL DEF StoreSpec

(***************************************************************************)
(* A packet that was acknowledged is not returned by any later poll.  The  *)
(* store remembers it as acknowledged or not at all, until it is tracked   *)
(* again.                                                                  *)
(***************************************************************************)
SettledIsAcknowledged ==
  \A r \in records : r.key \in settled => r.acknowledged

\* A settled key never goes back to being owed.
LEMMA SettledStays == StoreSpec => []SettledIsAcknowledged
<1>1. StoreInit => SettledIsAcknowledged
  BY DEF StoreInit, SettledIsAcknowledged
<1>2. StoreTypeOK /\ SettledIsAcknowledged /\ [StoreNext]_retransmitVars
        => SettledIsAcknowledged'
  <2> SUFFICES ASSUME StoreTypeOK, SettledIsAcknowledged, [StoreNext]_retransmitVars,
                      NEW q \in records', q.key \in settled'
               PROVE  q.acknowledged
    BY DEF SettledIsAcknowledged
  <2>0. Store(records)
    BY DEF StoreTypeOK, Store
  <2>a. \A r \in records : SameButIndex(q, r) /\ q.key \in settled
          => q.acknowledged
    BY DEF SameButIndex, SettledIsAcknowledged
  <2>1. ASSUME NEW k \in Keys, NEW t \in 0 .. MaxTime, NEW w \in 0 .. now,
               Tracks(k, t, w)
        PROVE  q.acknowledged
    <3>1. q.key # k /\ q.key \in settled
      BY <2>1 DEF Tracks
    <3>2. \A at \in Nat : ~SameButIndex(q, NewRecord(k, at, AtLeastOne(t), w))
      BY <3>1 DEF SameButIndex, NewRecord
    <3>3. PICK r \in records : SameButIndex(q, r)
      <4>1. w \in 0 .. MaxTime
        BY StoreAssumption DEF StoreTypeOK
      <4> QED  BY <2>0, <2>1, <3>2, <4>1, TrackedFacts DEF Tracks
    <3> QED  BY <2>a, <3>1, <3>3
  <2>2. ASSUME NEW k \in Keys, MarkAcked(k) PROVE q.acknowledged
    <3>1. PICK r \in records :
            q = IF r.key = k THEN [r EXCEPT !.acknowledged = TRUE] ELSE r
      BY <2>0, <2>2, AcknowledgedFacts DEF MarkAcked
    <3>2. r \in Record
      BY <2>0 DEF Store
    <3>3. CASE r.key = k
      BY <3>1, <3>2, <3>3 DEF Record
    <3>4. CASE r.key # k
      BY <2>2, <3>1, <3>4 DEF MarkAcked, SettledIsAcknowledged
    <3> QED  BY <3>3, <3>4
  <2>3. CASE PruneAcked
    BY <2>0, <2>3, <2>a, PrunedFacts DEF PruneAcked
  <2>4. ASSUME NEW attempts \in AttemptLimits, CollectDue(attempts)
        PROVE  q.acknowledged
    <3>1. PICK r \in records :
            \/ SameButIndex(q, r)
            \/ r \in DueNow(records, attempts, now) /\ SameButIndex(q, Resent(r, now))
      BY <2>0, <2>4, CollectedFacts DEF CollectDue, StoreTypeOK
    <3>2. CASE r \in DueNow(records, attempts, now) /\ SameButIndex(q, Resent(r, now))
      <4>1. ~r.acknowledged /\ r \in Record
        BY <2>0, <3>2 DEF DueNow, Unacknowledged, Store
      <4>2. q.key = r.key
        BY <3>2, <4>1 DEF SameButIndex, Resent, Record
      <4> QED  BY <2>4, <4>1, <4>2 DEF CollectDue, SettledIsAcknowledged
    <3> QED  BY <2>4, <2>a, <3>1, <3>2 DEF CollectDue
  <2>5. CASE TimePasses
    BY <2>5 DEF TimePasses, SettledIsAcknowledged
  <2>6. CASE UNCHANGED retransmitVars
    BY <2>6 DEF retransmitVars, storeVars, SettledIsAcknowledged
  <2> QED  BY <2>1, <2>2, <2>3, <2>4, <2>5, <2>6, StoreSteps DEF StoreTypeOK
<1> QED  BY <1>1, <1>2, StoreTypeCorrect, PTL DEF StoreSpec

\* A poll never returns a packet that has been settled.
THEOREM SettledNeverResent == StoreSpec => NeverResentOnceSettled
<1>1. SettledIsAcknowledged /\ [StoreNext]_retransmitVars
        => [returned' \cap settled = {}]_retransmitVars
  <2> SUFFICES ASSUME SettledIsAcknowledged, StoreNext
               PROVE  returned' \cap settled = {}
    BY DEF retransmitVars, storeVars
  <2>1. ASSUME NEW attempts \in AttemptLimits, CollectDue(attempts)
        PROVE  returned' \cap settled = {}
    BY <2>1 DEF CollectDue, KeysOf, DueNow, Unacknowledged,
                SettledIsAcknowledged
  <2> QED  BY <2>1 DEF StoreNext, TrackWithSchedule,
           TrackOutbound, MarkAcked, PruneAcked, TimePasses
<1> QED  BY <1>1, SettledStays, PTL DEF StoreSpec, NeverResentOnceSettled

-----------------------------------------------------------------------------
(***************************************************************************)
(* The records always stand for a Vec with no more than Capacity records.  *)
(***************************************************************************)
WithinCapacity == Vec(records) /\ Cardinality(records) <= Capacity

\* The store is a Vec of at most Capacity records.
LEMMA AlwaysWithinCapacity == StoreSpec => []WithinCapacity
<1>0. Capacity \in Nat
  BY StoreAssumption DEF Capacity
<1>1. StoreInit => WithinCapacity
  <2>1. Store({}) /\ Cardinality({}) = 0
    BY FS_EmptySet DEF Store
  <2> QED  BY <1>0, <2>1 DEF StoreInit, WithinCapacity, Vec, Distinct
<1>2. StoreTypeOK /\ WithinCapacity /\ [StoreNext]_retransmitVars
        => WithinCapacity'
  <2> SUFFICES ASSUME StoreTypeOK, WithinCapacity, [StoreNext]_retransmitVars PROVE WithinCapacity'
    OBVIOUS
  <2>0. Vec(records) /\ Cardinality(records) <= Capacity
    BY DEF WithinCapacity
  <2>b. now \in 0 .. MaxTime
    BY DEF StoreTypeOK
  <2>a. ASSUME Vec(records'), Cardinality(records') <= Cardinality(records)
        PROVE  WithinCapacity'
    <3>1. Cardinality(records) \in Nat /\ Cardinality(records') \in Nat
      BY <2>0, <2>a, FS_CardinalityType DEF Vec, Distinct, Store
    <3>2. Cardinality(records') <= Capacity
      BY <1>0, <2>0, <2>a, <3>1
    <3> QED  BY <2>a, <3>2 DEF WithinCapacity, Vec, Distinct, Store
  <2>1. ASSUME NEW k \in Keys, NEW t \in 0 .. MaxTime, NEW w \in 0 .. now,
               Tracks(k, t, w)
        PROVE  WithinCapacity'
    <3>1. w \in 0 .. MaxTime
      BY <2>b, StoreAssumption
    <3>2. Vec(records') /\ Cardinality(records') <= Capacity
      BY <2>0, <2>1, <3>1, TrackedVec DEF Tracks
    <3> QED  BY <3>2 DEF WithinCapacity, Vec, Distinct, Store
  <2>2. ASSUME NEW k \in Keys, MarkAcked(k) PROVE WithinCapacity'
    BY <2>0, <2>2, AcknowledgedAllVec DEF MarkAcked, Acknowledged, WithinCapacity,
                                          Vec, Distinct, Store
  <2>3. CASE PruneAcked
    BY <2>0, <2>3, <2>a, PrunedVec DEF PruneAcked
  <2>4. ASSUME NEW attempts \in AttemptLimits, CollectDue(attempts)
        PROVE  WithinCapacity'
    BY <2>0, <2>4, <2>a, <2>b, CollectedVec DEF CollectDue
  <2>5. CASE TimePasses
    BY <2>0, <2>5 DEF TimePasses, WithinCapacity, Vec, Distinct, Store
  <2>6. CASE UNCHANGED retransmitVars
    BY <2>0, <2>6 DEF retransmitVars, storeVars, WithinCapacity, Vec, Distinct, Store
  <2> QED  BY <2>1, <2>2, <2>3, <2>4, <2>5, <2>6, StoreSteps DEF StoreTypeOK
<1> QED  BY <1>1, <1>2, StoreTypeCorrect, PTL DEF StoreSpec

(***************************************************************************)
(* No record that is owed leaves the store but by a poll that finds its    *)
(* attempts used up, or as the oldest one of a full store that takes a new *)
(* key.                                                                    *)
(***************************************************************************)
THEOREM NeverForgotten == StoreSpec => NothingForgotten
<1> DEFINE Reason(r) ==
             \/ \E attempts \in AttemptLimits :
                  CollectDue(attempts) /\ r.count >= attempts
             \/ /\ r.at = 1
                /\ Cardinality(records) = Capacity
                /\ \E k \in Keys \ KeysOf(records) : k \in KeysOf(records')
           Step == \A r \in Unacknowledged(records) :
                     r.key \notin KeysOf(records') => Reason(r)
<1>1. StoreTypeOK /\ WithinCapacity /\ [StoreNext]_retransmitVars
        => [Step]_retransmitVars
  <2> SUFFICES ASSUME StoreTypeOK, WithinCapacity, StoreNext,
                      NEW r \in Unacknowledged(records), r.key \notin KeysOf(records')
               PROVE  Reason(r)
    BY DEF retransmitVars, storeVars
  <2>0. Vec(records) /\ Cardinality(records) <= Capacity
    BY DEF WithinCapacity
  <2>b. now \in 0 .. MaxTime
    BY DEF StoreTypeOK
  <2>a. r \in records /\ ~r.acknowledged /\ r.key \in KeysOf(records)
    BY DEF Unacknowledged, KeysOf
  <2>1. ASSUME NEW k \in Keys, NEW t \in 0 .. MaxTime, NEW w \in 0 .. now,
               Tracks(k, t, w)
        PROVE  Reason(r)
    <3>1. w \in 0 .. MaxTime /\ records' = Tracked(records, k, t, w)
      BY <2>b, <2>1, StoreAssumption DEF Tracks
    <3>2. k \in Keys \ KeysOf(records)
      BY <2>0, <2>a, <3>1, RenewedFacts
    <3>3. ~(r.at > Shift(records))
      <4> SUFFICES ASSUME r.at > Shift(records) PROVE FALSE
        OBVIOUS
      <4>1. PICK q \in records' : SameButIndex(q, r)
        BY <2>0, <2>a, <3>1, <3>2, AppendedFacts
      <4> QED  BY <4>1 DEF KeysOf, SameButIndex
    <3>4. r.at \in Nat /\ r.at >= 1
      <4>1. Cardinality(records) \in Nat
        BY <2>0, FS_CardinalityType DEF Vec, Distinct, Store
      <4> QED  BY <2>0, <2>a, <4>1 DEF Vec
    <3>5. r.at = 1 /\ Cardinality(records) = Capacity
      BY <3>3, <3>4 DEF Shift
    <3>6. k \in KeysOf(records')
      BY <2>0, <3>1, <3>2, AppendedFacts DEF KeysOf
    <3> QED  BY <3>2, <3>5, <3>6
  <2>2. ASSUME NEW k \in Keys, MarkAcked(k) PROVE Reason(r)
    BY <2>0, <2>2, <2>a, AcknowledgedAllVec DEF MarkAcked, Acknowledged
  <2>3. CASE PruneAcked
    <3>1. r.key \in OwedIn(records)
      BY DEF OwedIn, KeysOf
    <3> QED  BY <2>0, <2>3, <3>1, PrunedVec DEF PruneAcked
  <2>4. ASSUME NEW attempts \in AttemptLimits, CollectDue(attempts)
        PROVE  Reason(r)
    <3>1. r.key \notin KeysOf(records \ Exhausted(records, attempts))
      BY <2>0, <2>b, <2>4, CollectedVec DEF CollectDue
    <3>2. r \in Exhausted(records, attempts)
      BY <2>a, <3>1 DEF KeysOf
    <3> QED  BY <2>4, <3>2 DEF Exhausted
  <2>5. CASE TimePasses
    BY <2>5, <2>a DEF TimePasses
  <2>6. CASE UNCHANGED retransmitVars
    BY <2>6, <2>a DEF retransmitVars, storeVars
  <2> QED  BY <2>b, <2>1, <2>2, <2>3, <2>4, <2>5, <2>6, StoreSteps
<1> QED  BY <1>1, AlwaysWithinCapacity, StoreTypeCorrect, PTL DEF StoreSpec, NothingForgotten

-----------------------------------------------------------------------------
(***************************************************************************)
(* A set of numbers that has 0 and with every number the next one has them *)
(* all.                                                                    *)
(***************************************************************************)
LEMMA AllNumbers ==
  ASSUME NEW S \in SUBSET Nat, 0 \in S, \A n \in S : n + 1 \in S
  PROVE  S = Nat
<1> SUFFICES ASSUME Nat \ S # {} PROVE FALSE
  OBVIOUS
<1>1. PICK x \in Nat \ S : \A y \in Nat \ S : <<y, x>> \notin OpToRel(<, Nat)
  BY NatLessThanWellFounded, WFMin
<1>2. x # 0 /\ x - 1 \in Nat
  OBVIOUS
<1>3. x - 1 \notin S
  BY <1>2
<1>4. <<x - 1, x>> \in OpToRel(<, Nat)
  BY <1>2 DEF OpToRel
<1> QED  BY <1>1, <1>2, <1>3, <1>4

-----------------------------------------------------------------------------
(***************************************************************************)
(* The stores between the records of a flight: StoreAfter computes the     *)
(* last one of a sequence whose every store is got from the one before.    *)
(***************************************************************************)
NextKey(i) == <<epoch, sequence + i - 1>>

Following(rs, i) == Tracked(rs, NextKey(i), InitialTimeout, now)

\* The recursive function of StoreAfter has a value at every record.
LEMMA StoreAfterIs ==
  ASSUME NEW n \in Nat
  PROVE  \E after : /\ after[0] = records
                    /\ \A i \in 1 .. n : after[i] = Following(after[i - 1], i)
                    /\ StoreAfter(n) = after[n]
<1> DEFINE IsAfter(g, m) ==
             g = [i \in 0 .. m |-> IF i = 0 THEN records ELSE Following(g[i - 1], i)]
           S == {m \in Nat : \E g : IsAfter(g, m)}
<1>1. 0 \in S
  <2> DEFINE g == [i \in 0 .. 0 |-> records]
  <2>1. IsAfter(g, 0)
    OBVIOUS
  <2> QED  BY <2>1
<1>2. ASSUME NEW m \in S PROVE m + 1 \in S
  <2>1. PICK g : IsAfter(g, m)
    OBVIOUS
  <2> DEFINE h == [i \in 0 .. m + 1 |->
                    IF i = m + 1 THEN Following(g[m], m + 1) ELSE g[i]]
  <2>2. m \in Nat /\ m + 1 \in Nat
    OBVIOUS
  <2>3. ASSUME NEW i \in 0 .. m + 1
        PROVE  h[i] = IF i = 0 THEN records ELSE Following(h[i - 1], i)
    <3>1. CASE i = m + 1
      BY <2>2, <3>1
    <3>2. CASE i # m + 1
      <4>1. i \in 0 .. m /\ (i # 0 => i - 1 \in 0 .. m + 1 /\ i - 1 # m + 1)
        BY <2>2, <3>2
      <4>2. h[i] = g[i] /\ (i # 0 => h[i - 1] = g[i - 1])
        BY <4>1, <2>2
      <4>3. g[i] = IF i = 0 THEN records ELSE Following(g[i - 1], i)
        BY <2>1, <4>1
      <4> QED  BY <4>2, <4>3
    <3> QED  BY <3>1, <3>2
  <2>4. IsAfter(h, m + 1)
    BY <2>3
  <2> QED  BY <2>2, <2>4
<1>3. S = Nat
  <2> HIDE DEF S
  <2>1. S \in SUBSET Nat
    BY DEF S
  <2> QED  BY <1>1, <1>2, <2>1, AllNumbers
<1>4. \E g : IsAfter(g, n)
  BY <1>3
<1> DEFINE after == CHOOSE g : IsAfter(g, n)
<1>5. IsAfter(after, n)
  BY <1>4
<1>6. StoreAfter(n) = after[n]
  BY DEF StoreAfter, Following, NextKey
<1> HIDE DEF after
<1>7. after[0] = records /\ \A i \in 1 .. n : after[i] = Following(after[i - 1], i)
  BY <1>5
<1> QED  BY <1>6, <1>7

(***************************************************************************)
(* A store that stands for a Vec of at most Capacity records.              *)
(***************************************************************************)
Fits(rs) == Vec(rs) /\ Cardinality(rs) <= Capacity

TheseKeys(n) == {NextKey(i) : i \in 1 .. n}

(***************************************************************************)
(* Tracking the next n records adds no other keys than theirs.             *)
(***************************************************************************)
LEMMA StoreAfterFacts ==
  ASSUME Fits(records), now \in 0 .. MaxTime,
         NEW n \in Nat, TheseKeys(n) \subseteq Keys
  PROVE  /\ Fits(StoreAfter(n))
         /\ KeysOf(StoreAfter(n)) \subseteq KeysOf(records) \cup TheseKeys(n)
         /\ OwedIn(StoreAfter(n)) \subseteq OwedIn(records) \cup TheseKeys(n)
<1>1. PICK after : /\ after[0] = records
                   /\ \A i \in 1 .. n : after[i] = Following(after[i - 1], i)
                   /\ StoreAfter(n) = after[n]
  BY StoreAfterIs
<1> DEFINE Good(i) ==
             /\ Fits(after[i])
             /\ KeysOf(after[i]) \subseteq KeysOf(records) \cup TheseKeys(n)
             /\ OwedIn(after[i]) \subseteq OwedIn(records) \cup TheseKeys(n)
           S == {i \in Nat : i <= n => Good(i)}
<1>2. 0 \in S
  BY <1>1
<1>3. ASSUME NEW i \in S PROVE i + 1 \in S
  <2> SUFFICES ASSUME i + 1 <= n PROVE Good(i + 1)
    OBVIOUS
  <2>1. i \in Nat /\ Good(i) /\ i + 1 \in 1 .. n /\ i + 1 - 1 = i
    OBVIOUS
  <2>2. after[i + 1] = Tracked(after[i], NextKey(i + 1), InitialTimeout, now)
    <3> HIDE DEF Good
    <3> QED  BY <1>1, <2>1 DEF Following
  <2>3. NextKey(i + 1) \in TheseKeys(n) /\ NextKey(i + 1) \in Keys
    BY <2>1 DEF TheseKeys
  <2>4. InitialTimeout \in 0 .. MaxTime
    BY FlightAssumption, StoreAssumption
  <2>5. Fits(after[i + 1])
    BY <2>1, <2>2, <2>3, <2>4, TrackedVec DEF Fits
  <2>6. /\ KeysOf(after[i + 1]) \subseteq KeysOf(after[i]) \cup {NextKey(i + 1)}
        /\ OwedIn(after[i + 1]) \subseteq OwedIn(after[i]) \cup {NextKey(i + 1)}
    BY <2>1, <2>2, <2>3, <2>4, TrackedKeys DEF Fits
  <2> QED  BY <2>1, <2>3, <2>5, <2>6
<1>4. S = Nat
  <2> HIDE DEF S
  <2>1. S \in SUBSET Nat
    BY DEF S
  <2> QED  BY <1>2, <1>3, <2>1, AllNumbers
<1>5. Good(n)
  BY <1>4
<1> QED  BY <1>1, <1>5

(***************************************************************************)
(* Records whose keys are new to the store and that are no more than it    *)
(* has places for are all in it when the last one is: each one appended    *)
(* stays as far from the end as records have been appended after it.       *)
(***************************************************************************)
LEMMA NewRecordsStay ==
  ASSUME Fits(records), now \in 0 .. MaxTime, NEW n \in Nat, n <= Capacity, TheseKeys(n) \subseteq Keys,
         sequence \in Nat, TheseKeys(n) \cap KeysOf(records) = {}
  PROVE  TheseKeys(n) \subseteq OwedIn(StoreAfter(n))
<1>1. PICK after : /\ after[0] = records
                   /\ \A i \in 1 .. n : after[i] = Following(after[i - 1], i)
                   /\ StoreAfter(n) = after[n]
  BY StoreAfterIs
<1> DEFINE InPlace(rs, j, d) ==
             \E q \in rs : /\ q.key = NextKey(j) /\ ~q.acknowledged
                           /\ q.at = Cardinality(rs) - d
           Good(i) ==
             /\ Fits(after[i])
             /\ KeysOf(after[i]) \subseteq KeysOf(records) \cup TheseKeys(i)
             /\ \A j \in 1 .. i : InPlace(after[i], j, i - j)
           S == {i \in Nat : i <= n => Good(i)}
<1>0. /\ Capacity \in Nat
      /\ InitialTimeout \in 0 .. MaxTime
      /\ \A i, j \in 1 .. n : NextKey(i) = NextKey(j) => i = j
  BY FlightAssumption, StoreAssumption DEF Capacity, NextKey
<1>2. 0 \in S
  BY <1>1
<1>3. ASSUME NEW i \in S PROVE i + 1 \in S
  <2> SUFFICES ASSUME i + 1 <= n PROVE Good(i + 1)
    OBVIOUS
  <2> DEFINE rs == after[i]
             k == NextKey(i + 1)
             c == Cardinality(rs)
  <2>1. i \in Nat /\ Good(i) /\ i + 1 \in 1 .. n /\ i + 1 - 1 = i
    OBVIOUS
  <2>2. after[i + 1] = Tracked(rs, k, InitialTimeout, now)
    <3> HIDE DEF Good
    <3> QED  BY <1>1, <2>1 DEF Following
  <2>3. k \in TheseKeys(i + 1) /\ k \in TheseKeys(n) /\ k \in Keys
    BY <2>1 DEF TheseKeys
  <2>4. k \notin TheseKeys(i)
    <3>1. \A j \in 1 .. i : j \in 1 .. n /\ j # i + 1
      BY <2>1
    <3> QED  BY <1>0, <2>1, <3>1 DEF TheseKeys
  <2>5. k \notin KeysOf(rs)
    BY <2>1, <2>3, <2>4
  <2>6. Vec(rs) /\ c <= Capacity /\ c \in Nat
    BY <2>1, FS_CardinalityType DEF Fits, Vec, Distinct, Store
  <2>7. Shift(rs) = (IF c = Capacity THEN 1 ELSE 0)
    BY DEF Shift
  <2>8. /\ Cardinality(after[i + 1]) = c + 1 - Shift(rs)
        /\ \A r \in rs : r.at > Shift(rs) => \E q \in after[i + 1] :
             SameButIndex(q, r) /\ q.at = r.at - Shift(rs)
        /\ \E q \in after[i + 1] : /\ q.key = k /\ ~q.acknowledged
                                   /\ q.at = c + 1 - Shift(rs)
    <3>1. k \in Keys \ KeysOf(rs)
      BY <2>3, <2>5
    <3> HIDE DEF k, rs, Good
    <3> QED  BY <1>0, <2>2, <2>6, <3>1, AppendedFacts
  <2>9. Fits(after[i + 1])
    <3> HIDE DEF k, rs, Good
    <3> QED  BY <1>0, <2>2, <2>3, <2>6, TrackedVec DEF Fits
  <2>10. KeysOf(after[i + 1]) \subseteq KeysOf(records) \cup TheseKeys(i + 1)
    <3>1. KeysOf(after[i + 1]) \subseteq KeysOf(rs) \cup {k}
      <4> HIDE DEF k, rs, Good
      <4> QED  BY <1>0, <2>2, <2>3, <2>6, TrackedKeys
    <3>2. TheseKeys(i) \subseteq TheseKeys(i + 1)
      BY <2>1 DEF TheseKeys
    <3> QED  BY <2>1, <2>3, <3>1, <3>2
  <2>11. ASSUME NEW j \in 1 .. i + 1 PROVE InPlace(after[i + 1], j, i + 1 - j)
    <3>1. CASE j = i + 1
      <4>1. i + 1 - j = 0 /\ Shift(rs) \in Nat
        BY <2>1, <2>7, <3>1
      <4>2. Cardinality(after[i + 1]) - (i + 1 - j) = c + 1 - Shift(rs)
        <5> HIDE DEF k, rs, Good, InPlace
        <5>1. c \in Nat /\ Cardinality(after[i + 1]) = c + 1 - Shift(rs)
          BY <2>6, <2>8
        <5> QED  BY <4>1, <5>1
      <4> QED  BY <2>8, <3>1, <4>2
    <3>2. CASE j # i + 1
      <4>1. j \in 1 .. i
        BY <2>1, <3>2
      <4>2. PICK r \in rs : /\ r.key = NextKey(j) /\ ~r.acknowledged
                            /\ r.at = c - (i - j)
        BY <2>1, <4>1
      <4>3. r.at \in 1 .. c
        BY <2>6 DEF Vec
      <4>4. r.at > Shift(rs)
        BY <1>0, <2>1, <2>6, <2>7, <4>1, <4>2, <4>3
      <4>5. PICK q \in after[i + 1] : SameButIndex(q, r) /\ q.at = r.at - Shift(rs)
        BY <2>8, <4>4
      <4>6. q.at = Cardinality(after[i + 1]) - (i + 1 - j)
        BY <2>1, <2>6, <2>7, <2>8, <4>1, <4>2, <4>5
      <4> QED  BY <4>2, <4>5, <4>6 DEF SameButIndex
    <3> QED  BY <3>1, <3>2
  <2> QED  BY <2>9, <2>10, <2>11
<1>4. S = Nat
  <2> HIDE DEF S
  <2>1. S \in SUBSET Nat
    BY DEF S
  <2> QED  BY <1>2, <1>3, <2>1, AllNumbers
<1>5. Good(n)
  BY <1>4
<1> QED  BY <1>1, <1>5 DEF TheseKeys, OwedIn, KeysOf, Unacknowledged

(***************************************************************************)
(* The keys a call uses are the next ones, in the outbound epoch and up to *)
(* the last number there is, and the number to go on with is behind them.  *)
(***************************************************************************)
LEMMA NextKeysFacts ==
  ASSUME epoch \in 0 .. MaxEpoch, sequence \in 0 .. MaxSequence,
         NEW n \in Nat \ {0}
  PROVE  LET c == Cardinality(NextKeys(n))
         IN  /\ c \in 1 .. n
             /\ sequence + c <= MaxSequence + 1
             /\ sequence + n - 1 <= MaxSequence => c = n
             /\ NextKeys(n) = TheseKeys(c)
             /\ NextKeys(n) \subseteq Keys
             /\ \A k \in NextKeys(n) :
                  k[1] = epoch /\ sequence <= k[2] /\ k[2] < sequence + c
<1> DEFINE m == IF sequence + n - 1 <= MaxSequence THEN n ELSE MaxSequence - sequence + 1
           f == [i \in 1 .. m |-> NextKey(i)]
           numbers == {s \in sequence .. sequence + n - 1 : s <= MaxSequence}
<1>1. /\ MaxSequence \in Nat /\ sequence \in Nat /\ epoch \in Nat
      /\ m \in 1 .. n /\ sequence + m <= MaxSequence + 1
      /\ \A s \in Int : (s \in sequence .. sequence + n - 1 /\ s <= MaxSequence)
                          <=> s - sequence + 1 \in 1 .. m
  BY FlightAssumption
<1>2. sequence + n - 1 <= MaxSequence => m = n
  OBVIOUS
<1> HIDE DEF m
<1>3. \A s \in numbers :
         s \in Int /\ s - sequence + 1 \in 1 .. m /\ sequence + (s - sequence + 1) - 1 = s
  BY <1>1
<1>4. \A i \in 1 .. m : sequence + i - 1 \in numbers
  <2> SUFFICES ASSUME NEW i \in 1 .. m
               PROVE  /\ sequence + i - 1 \in sequence .. sequence + n - 1
                      /\ sequence + i - 1 <= MaxSequence
    OBVIOUS
  <2> QED  BY <1>1
<1>5. NextKeys(n) = TheseKeys(m)
  <2>1. ASSUME NEW k \in NextKeys(n) PROVE k \in TheseKeys(m)
    <3>1. PICK s \in numbers : k = <<epoch, s>>
      BY DEF NextKeys
    <3>2. s - sequence + 1 \in 1 .. m /\ k = NextKey(s - sequence + 1)
      BY <1>3, <3>1 DEF NextKey
    <3> QED  BY <3>2 DEF TheseKeys
  <2>2. ASSUME NEW k \in TheseKeys(m) PROVE k \in NextKeys(n)
    <3>1. PICK i \in 1 .. m : k = <<epoch, sequence + i - 1>>
      BY DEF TheseKeys, NextKey
    <3> QED  BY <1>4, <3>1 DEF NextKeys
  <2> QED  BY <2>1, <2>2
<1>6. f \in Bijection(1 .. m, TheseKeys(m))
  <2>1. \A i, j \in 1 .. m : NextKey(i) = NextKey(j) => i = j
    BY <1>1 DEF NextKey
  <2> QED  BY <2>1 DEF Bijection, Injection, Surjection, IsInjective, TheseKeys
<1>7. Cardinality(NextKeys(n)) = m
  <2>1. ExistsBijection(1 .. m, TheseKeys(m)) /\ m \in Nat
    BY <1>1, <1>6 DEF ExistsBijection
  <2> QED  BY <1>5, <2>1, FS_CountingElements
<1>8. \A k \in NextKeys(n) :
         /\ k[1] = epoch /\ sequence <= k[2] /\ k[2] < sequence + m
         /\ k \in Keys
  <2> SUFFICES ASSUME NEW i \in 1 .. m
               PROVE  LET k == NextKey(i)
                      IN  /\ k[1] = epoch /\ sequence <= k[2] /\ k[2] < sequence + m
                          /\ k \in Keys
    BY <1>5 DEF TheseKeys
  <2>1. /\ NextKey(i)[1] = epoch /\ NextKey(i)[2] = sequence + i - 1
        /\ NextKey(i) = <<epoch, sequence + i - 1>>
    BY DEF NextKey
  <2>2. /\ sequence <= sequence + i - 1 /\ sequence + i - 1 < sequence + m
        /\ sequence + i - 1 \in 0 .. MaxSequence
    BY <1>1
  <2>3. NextKey(i) \in Keys
    BY <2>1, <2>2, FlightAssumption DEF RecordKeys
  <2> QED  BY <2>1, <2>2, <2>3
<1> QED  BY <1>1, <1>2, <1>5, <1>7, <1>8

-----------------------------------------------------------------------------
(***************************************************************************)
(* Type correctness, together with the store being a Vec that has its      *)
(* places kept to.                                                         *)
(***************************************************************************)
WellFormed == TypeOK /\ Fits(records)

(***************************************************************************)
(* What the calls that seal records and track them do to the store.        *)
(***************************************************************************)
LEMMA SealedAndTracked ==
  ASSUME WellFormed, sequence <= MaxSequence, NEW n \in 1 .. MaxFlight,
         Seal(NextKeys(n)), TrackAll(NextKeys(n))
  PROVE  /\ epoch' = epoch /\ sequence' \in 0 .. MaxSequence + 1
         /\ Cardinality(NextKeys(n)) \in 1 .. n
         /\ NextKeys(n) \subseteq Keys
         /\ \A k \in NextKeys(n) :
              k[1] = epoch /\ sequence <= k[2] /\ k[2] < sequence'
         /\ Fits(records')
         /\ KeysOf(records') \subseteq KeysOf(records) \cup NextKeys(n)
         /\ OwedIn(records') \subseteq OwedIn(records) \cup NextKeys(n)
         /\ settled' = settled \ NextKeys(n)
<1> DEFINE c == Cardinality(NextKeys(n))
<1>1. /\ epoch \in 0 .. MaxEpoch /\ sequence \in 0 .. MaxSequence
      /\ n \in Nat \ {0} /\ MaxSequence \in Nat
  BY FlightAssumption DEF WellFormed, TypeOK, StoreTypeOK
<1>2. /\ c \in 1 .. n
      /\ sequence + c <= MaxSequence + 1
      /\ NextKeys(n) = TheseKeys(c)
      /\ NextKeys(n) \subseteq Keys
      /\ \A k \in NextKeys(n) :
           k[1] = epoch /\ sequence <= k[2] /\ k[2] < sequence + c
  BY <1>1, NextKeysFacts
<1>3. epoch' = epoch /\ sequence' = sequence + c
  BY DEF Seal
<1>4. records' = StoreAfter(c) /\ settled' = settled \ NextKeys(n)
  BY DEF TrackAll
<1> HIDE DEF c
<1>5. c \in Nat /\ sequence + c \in 0 .. MaxSequence + 1
  BY <1>1, <1>2
<1>6. /\ Fits(StoreAfter(c))
      /\ KeysOf(StoreAfter(c)) \subseteq KeysOf(records) \cup NextKeys(n)
      /\ OwedIn(StoreAfter(c)) \subseteq OwedIn(records) \cup NextKeys(n)
  <2>1. Fits(records) /\ TheseKeys(c) \subseteq Keys /\ now \in 0 .. MaxTime
    BY <1>2 DEF WellFormed, TypeOK, StoreTypeOK
  <2> QED  BY <1>2, <1>5, <2>1, StoreAfterFacts
<1>7. c \in 1 .. n
  BY <1>2
<1> QED  BY <1>2, <1>3, <1>4, <1>5, <1>6, <1>7 DEF c

(***************************************************************************)
(* What is left of a store by the calls that mark, prune, poll or wait.    *)
(***************************************************************************)
LessOf(rs, old) ==
  /\ Fits(rs)
  /\ KeysOf(rs) \subseteq KeysOf(old)
  /\ OwedIn(rs) \subseteq OwedIn(old)

\* What marking, pruning and polling leave is less of the store.
LEMMA LessFacts ==
  ASSUME NEW rs, Fits(rs), now \in 0 .. MaxTime
  PROVE  /\ LessOf(rs, rs)
         /\ \A ks : LessOf(AcknowledgedAll(rs, ks), rs)
         /\ LessOf(Pruned(rs), rs)
         /\ \A ks : LessOf(Pruned(AcknowledgedAll(rs, ks)), rs)
         /\ LessOf(Collected(rs, MaxAttempts, now), rs)
<1>0. /\ Capacity \in Nat
      /\ \A s : Vec(s) => Cardinality(s) \in Nat
      /\ Vec(rs) /\ Cardinality(rs) <= Capacity
  BY StoreAssumption, FS_CardinalityType DEF Capacity, Fits, Vec, Distinct, Store
<1>1. ASSUME NEW ks PROVE LessOf(AcknowledgedAll(rs, ks), rs)
  BY <1>0, AcknowledgedAllVec DEF LessOf, Fits
<1>2. ASSUME NEW s, Fits(s) PROVE LessOf(Pruned(s), s)
  <2>1. OwedIn(s) \subseteq KeysOf(s)
    BY DEF OwedIn, KeysOf, Unacknowledged
  <2>2. /\ Vec(Pruned(s))
        /\ Cardinality(Pruned(s)) <= Cardinality(s)
        /\ KeysOf(Pruned(s)) = OwedIn(s)
        /\ OwedIn(Pruned(s)) = OwedIn(s)
    BY <1>2, PrunedVec DEF Fits
  <2>3. Vec(s) /\ Cardinality(s) <= Capacity
    BY <1>2 DEF Fits
  <2>4. Cardinality(Pruned(s)) <= Capacity
    BY <1>0, <2>2, <2>3
  <2> QED  BY <2>1, <2>2, <2>4 DEF LessOf, Fits
<1>3. ASSUME NEW ks PROVE LessOf(Pruned(AcknowledgedAll(rs, ks)), rs)
  <2>1. Fits(AcknowledgedAll(rs, ks))
    BY <1>1 DEF LessOf
  <2> QED  BY <1>1, <1>2, <2>1 DEF LessOf
<1>4. LessOf(Collected(rs, MaxAttempts, now), rs)
  <2>0. /\ Vec(Collected(rs, MaxAttempts, now))
        /\ Cardinality(Collected(rs, MaxAttempts, now)) <= Cardinality(rs)
    BY <1>0, CollectedVec
  <2>1. Cardinality(Collected(rs, MaxAttempts, now)) <= Capacity
    BY <1>0, <2>0
  <2>2. /\ KeysOf(rs \ Exhausted(rs, MaxAttempts)) \subseteq KeysOf(rs)
        /\ KeysOf(Unacknowledged(rs) \ Exhausted(rs, MaxAttempts)) \subseteq OwedIn(rs)
    BY DEF KeysOf, OwedIn
  <2> QED  BY <1>0, <2>1, <2>2, CollectedVec DEF LessOf, Fits
<1>5. LessOf(rs, rs)
  BY DEF LessOf
<1> QED  BY <1>1, <1>2, <1>3, <1>4, <1>5

\* The calls that track nothing.
TracksNothing ==
  \/ SealRecord
  \/ Poll
  \/ \E acked \in SUBSET flight :
       AcknowledgeFlight(acked) \/ AcknowledgeFlightMalformed(acked)
  \/ Abort
  \/ \E e \in 0 .. MaxEpoch : SetOutboundEpoch(e)
  \/ AdvanceOutboundEpoch
  \/ \E k \in Keys : MarkRecordAcked(k)
  \/ PruneAckedRecords
  \/ PollStore
  \/ InstallRecordKeys
  \/ Tick
  \/ UNCHANGED vars

\* So is what a call that tracks nothing leaves of it.
LEMMA LessTracked ==
  ASSUME Fits(records), now \in 0 .. MaxTime, TracksNothing
  PROVE  LessOf(records', records)
<1>1. CASE SealRecord \/ InstallRecordKeys \/ AdvanceOutboundEpoch \/ UNCHANGED vars
  BY <1>1, LessFacts DEF SealRecord, InstallRecordKeys, AdvanceOutboundEpoch,
     vars, retransmitVars, storeVars
<1>2. CASE Poll
  BY <1>2, LessFacts DEF Poll, PollTimedOut, PollMissing, PollExhausted, PollDue,
                         AbortEffects
<1>3. ASSUME NEW acked \in SUBSET flight,
             AcknowledgeFlight(acked) \/ AcknowledgeFlightMalformed(acked)
      PROVE  LessOf(records', records)
  BY <1>3, LessFacts DEF AcknowledgeFlight, AcknowledgeFlightMalformed
<1>4. CASE Abort
  BY <1>4, LessFacts DEF Abort, AbortEffects
<1>5. ASSUME NEW e \in 0 .. MaxEpoch, SetOutboundEpoch(e)
      PROVE  LessOf(records', records)
  BY <1>5, LessFacts DEF SetOutboundEpoch
<1>6. ASSUME NEW k \in Keys, MarkRecordAcked(k) PROVE LessOf(records', records)
  BY <1>6, LessFacts DEF MarkRecordAcked, MarkAcked, Acknowledged
<1>7. CASE PruneAckedRecords \/ PollStore \/ Tick
  BY <1>7, LessFacts DEF PruneAckedRecords, PollStore, CollectDue, Tick, TimePasses
<1> QED  BY <1>1, <1>2, <1>3, <1>4, <1>5, <1>6, <1>7 DEF TracksNothing

\* The calls that track.
TracksRecords(n) ==
  StartFlight(n) \/ StartFlightExhausted(n) \/ SealForFlight(n)

\* A call that tracks records seals and tracks the next ones.
LEMMA TrackedBy ==
  ASSUME NEW n \in 1 .. MaxFlight, WellFormed, TracksRecords(n)
  PROVE  sequence <= MaxSequence /\ Seal(NextKeys(n)) /\ TrackAll(NextKeys(n))
<1>1. sequence \in Nat /\ MaxSequence \in Nat /\ n \in Nat /\ n >= 1
  BY FlightAssumption DEF WellFormed, TypeOK, StoreTypeOK
<1> QED  BY <1>1 DEF TracksRecords, StartFlight, StartFlightExhausted, SealForFlight

\* Every step is of one of the two kinds.
LEMMA EveryStep ==
  ASSUME [Next]_vars
  PROVE  TracksNothing \/ \E n \in 1 .. MaxFlight : TracksRecords(n)
BY DEF Next, FlightCalls, StoreCalls, TracksNothing, TracksRecords

-----------------------------------------------------------------------------
(***************************************************************************)
(* Every step keeps the store and the variables beside it well formed.     *)
(***************************************************************************)
LEMMA StoreTyped ==
  ASSUME NEW rs, Fits(rs)
  PROVE  rs \in SUBSET Record /\ IsFiniteSet(rs) /\ KeysOf(rs) \subseteq Keys
BY DEF Fits, Vec, Distinct, Store, KeysOf, Record

\* The initial state is well formed.
LEMMA InitWellFormed == Init => WellFormed
<1> SUFFICES ASSUME Init PROVE WellFormed
  OBVIOUS
<1>1. IsFiniteSet({}) /\ Cardinality({}) = 0
  BY FS_EmptySet
<1>2. Capacity \in Nat
  BY StoreAssumption DEF Capacity
<1>3. Fits(records)
  BY <1>1, <1>2 DEF Init, StoreInit, Fits, Vec, Distinct, Store
<1>4. /\ 0 \in 0 .. MaxEpoch /\ 0 \in 0 .. MaxSequence + 1
      /\ 0 \in 0 .. MaxTime
  BY FlightAssumption, StoreAssumption
<1>5. StoreTypeOK
  BY <1>1, <1>4 DEF Init, StoreInit, StoreTypeOK
<1>6. TypeOK
  BY <1>4, <1>5 DEF Init, TypeOK
<1> QED  BY <1>3, <1>6 DEF WellFormed

\* Sealing a record that is not tracked moves the next number up.
LEMMA SealedAlone ==
  ASSUME WellFormed, SealRecord
  PROVE  /\ epoch' = epoch /\ sequence' \in 0 .. MaxSequence + 1
         /\ sequence <= sequence' /\ returned' \in SUBSET Keys
<1>1. /\ epoch \in 0 .. MaxEpoch /\ sequence \in 0 .. MaxSequence /\ 1 \in Nat \ {0}
      /\ MaxSequence \in Nat
  BY FlightAssumption DEF WellFormed, TypeOK, StoreTypeOK, SealRecord
<1> DEFINE c == Cardinality(NextKeys(1))
<1>2. c \in 1 .. 1 /\ sequence + c <= MaxSequence + 1 /\ NextKeys(1) \subseteq Keys
  BY <1>1, NextKeysFacts
<1>3. sequence' = sequence + c
  BY DEF SealRecord, Seal
<1> HIDE DEF c
<1>4. sequence' \in 0 .. MaxSequence + 1 /\ sequence <= sequence'
  BY <1>1, <1>2, <1>3
<1> QED  BY <1>2, <1>4 DEF SealRecord, Seal

\* Every step keeps the state well formed.
LEMMA WellFormedStep ==
  ASSUME WellFormed, [Next]_vars
  PROVE  WellFormed'
<1> USE DEF WellFormed
<1>0. /\ FlightTimeout \in Nat \ {0} /\ MaxEpoch \in Nat /\ MaxSequence \in Nat
      /\ NotStarted \in {NotStarted}
      /\ now \in 0 .. MaxTime /\ now \in 0 .. now
      /\ 0 \in 0 .. MaxEpoch /\ 0 \in 0 .. MaxSequence + 1
  BY FlightAssumption, StoreAssumption DEF TypeOK, StoreTypeOK
<1>1. CASE TracksNothing
  <2>1. Fits(records') /\ records' \in SUBSET Record /\ IsFiniteSet(records')
    BY <1>0, <1>1, LessTracked, StoreTyped DEF LessOf
  <2>2. CASE SealRecord
    BY <2>1, <2>2, SealedAlone DEF TypeOK, StoreTypeOK, SealRecord, flightVars
  <2>3. CASE Poll
    BY <2>1, <2>3, <1>0 DEF TypeOK, StoreTypeOK, Poll, PollTimedOut, PollMissing,
       PollExhausted,
       PollDue, AbortEffects, EndFlight, sealVars, flightVars
  <2>4. ASSUME NEW acked \in SUBSET flight,
               AcknowledgeFlight(acked) \/ AcknowledgeFlightMalformed(acked)
        PROVE  WellFormed'
    BY <2>1, <2>4, <1>0 DEF TypeOK, StoreTypeOK, AcknowledgeFlight,
       AcknowledgeFlightMalformed,
       EndFlight, sealVars, flightVars
  <2>5. CASE Abort
    BY <2>1, <2>5, <1>0 DEF TypeOK, StoreTypeOK, Abort, AbortEffects, EndFlight,
       sealVars
  <2>6. ASSUME NEW e \in 0 .. MaxEpoch, SetOutboundEpoch(e) PROVE WellFormed'
    BY <2>1, <2>6, <1>0 DEF TypeOK, StoreTypeOK, SetOutboundEpoch, flightVars
  <2>7. CASE AdvanceOutboundEpoch
    <3>1. epoch' \in 0 .. MaxEpoch
      BY <1>0, <2>7 DEF TypeOK, StoreTypeOK, AdvanceOutboundEpoch
    <3> QED  BY <2>1, <2>7, <1>0, <3>1 DEF TypeOK, StoreTypeOK,
                AdvanceOutboundEpoch, flightVars
  <2>8. ASSUME NEW k \in Keys, MarkRecordAcked(k) PROVE WellFormed'
    BY <2>1, <2>8 DEF TypeOK, StoreTypeOK, MarkRecordAcked, MarkAcked, sealVars,
       flightVars
  <2>9. CASE PruneAckedRecords
    BY <2>1, <2>9 DEF TypeOK, StoreTypeOK, PruneAckedRecords, sealVars, flightVars
  <2>10. CASE PollStore
    <3>1. KeysOf(DueNow(records, MaxAttempts, now)) \subseteq KeysOf(records)
      BY DEF KeysOf, DueNow, Unacknowledged
    <3>2. returned' \in SUBSET Keys
      BY <2>10, <3>1, StoreTyped DEF PollStore, CollectDue
    <3> QED  BY <2>1, <2>10, <3>2 DEF TypeOK, StoreTypeOK, PollStore, CollectDue,
                sealVars, flightVars
  <2>11. CASE InstallRecordKeys
    BY <2>1, <2>11, <1>0 DEF TypeOK, StoreTypeOK, InstallRecordKeys, flightVars
  <2>12. CASE Tick
    <3>1. now' \in 0 .. MaxTime /\ startedAt' \in {NotStarted} \cup (0 .. now')
      BY <2>12, StoreAssumption DEF TypeOK, StoreTypeOK, Tick, TimePasses, flightVars
    <3> QED  BY <2>1, <2>12, <3>1
             DEF TypeOK, StoreTypeOK, Tick, TimePasses, sealVars, flightVars
  <2>13. CASE UNCHANGED vars
    BY <2>1, <2>13 DEF TypeOK, StoreTypeOK, vars, retransmitVars, storeVars, sealVars,
       flightVars
  <2> QED  BY <1>1, <2>2, <2>3, <2>4, <2>5, <2>6, <2>7, <2>8, <2>9, <2>10, <2>11,
              <2>12, <2>13 DEF TracksNothing
<1>2. ASSUME NEW n \in 1 .. MaxFlight, TracksRecords(n) PROVE WellFormed'
  <2>1. /\ epoch' = epoch /\ sequence' \in 0 .. MaxSequence + 1
        /\ NextKeys(n) \subseteq Keys
        /\ Fits(records')
        /\ settled' = settled \ NextKeys(n)
    BY <1>2, TrackedBy, SealedAndTracked
  <2>2. records' \in SUBSET Record /\ IsFiniteSet(records')
    BY <2>1, StoreTyped
  <2>3. settled' \in SUBSET Keys
    BY <2>1 DEF TypeOK, StoreTypeOK
  <2> QED  BY <1>0, <1>2, <2>1, <2>2, <2>3
           DEF TypeOK, StoreTypeOK, TracksRecords, StartFlight,
               StartFlightExhausted,
               SealForFlight, flightVars
<1> QED  BY <1>1, <1>2, EveryStep

\* Whatever calls the embedder makes, the state is well formed.
LEMMA AlwaysWellFormed == Spec => []WellFormed
<1>1. WellFormed /\ [Next]_vars => WellFormed'
  BY WellFormedStep
<1> QED  BY <1>1, InitWellFormed, PTL DEF Spec

(***************************************************************************)
(* The variables of the flight keep their types, whatever calls the        *)
(* embedder makes.                                                         *)
(***************************************************************************)
THEOREM TypeCorrect == Spec => []TypeOK
<1>1. WellFormed => TypeOK
  BY DEF WellFormed
<1> QED  BY <1>1, AlwaysWellFormed, PTL

-----------------------------------------------------------------------------
(***************************************************************************)
(* A record of the flight that is owed was sealed in the outbound epoch,   *)
(* below the next number, as long as the keys have not been replaced.      *)
(***************************************************************************)
LEMMA OwedStep ==
  ASSUME WellFormed, OwedInOutboundEpoch, [Next]_vars
  PROVE  OwedInOutboundEpoch'
<1>0. /\ epoch \in Nat /\ sequence \in Nat
      /\ Owed = OwedIn(records) /\ Owed' = OwedIn(records')
      /\ Fits(records) /\ now \in 0 .. MaxTime
      /\ \A k \in Keys : k[2] \in Nat
  BY FlightAssumption DEF WellFormed, TypeOK, StoreTypeOK, Owed, OwedIn, RecordKeys
<1>a. flight \subseteq Keys
  BY DEF WellFormed, TypeOK, StoreTypeOK
<1>1. CASE TracksNothing
  <2>1. OwedIn(records') \subseteq OwedIn(records)
    BY <1>0, <1>1, LessTracked DEF LessOf
  <2>2. CASE SealRecord
    <3>1. sequence' \in Nat /\ sequence <= sequence' /\ epoch' = epoch
      BY <2>2, SealedAlone, FlightAssumption
    <3>2. flight' = flight /\ rekeyed' = rekeyed
      BY <2>2 DEF SealRecord, flightVars
    <3> QED  BY <1>0, <1>a, <2>1, <3>1, <3>2 DEF OwedInOutboundEpoch
  <2>3. CASE \/ Poll
             \/ \E acked \in SUBSET flight :
                  AcknowledgeFlight(acked) \/ AcknowledgeFlightMalformed(acked)
             \/ Abort
             \/ \E k \in Keys : MarkRecordAcked(k)
             \/ PruneAckedRecords \/ PollStore \/ Tick \/ UNCHANGED vars
    <3>1. /\ epoch' = epoch /\ sequence' = sequence /\ rekeyed' = rekeyed
          /\ flight' \subseteq flight
      BY <2>3 DEF Poll, PollTimedOut, PollMissing, PollExhausted, PollDue,
         AcknowledgeFlight, AcknowledgeFlightMalformed, Abort, AbortEffects,
         EndFlight, MarkRecordAcked, MarkAcked, PruneAckedRecords, PollStore,
         CollectDue, Tick, TimePasses, vars, retransmitVars, storeVars,
         sealVars, flightVars
    <3> QED  BY <1>0, <2>1, <3>1 DEF OwedInOutboundEpoch
  <2>4. CASE (\E e \in 0 .. MaxEpoch : SetOutboundEpoch(e)) \/ AdvanceOutboundEpoch
    <3>1. flight' = flight /\ flight \cap Owed = {}
      BY <2>4 DEF SetOutboundEpoch, AdvanceOutboundEpoch, flightVars, Complete, Owed
    <3> QED  BY <1>0, <2>1, <3>1 DEF OwedInOutboundEpoch
  <2>5. CASE InstallRecordKeys
    BY <2>5 DEF InstallRecordKeys, OwedInOutboundEpoch
  <2> QED  BY <1>1, <2>2, <2>3, <2>4, <2>5 DEF TracksNothing
<1>2. ASSUME NEW n \in 1 .. MaxFlight, TracksRecords(n)
      PROVE  OwedInOutboundEpoch'
  <2>1. /\ epoch' = epoch /\ sequence' \in Nat
        /\ \A k \in NextKeys(n) :
             k[1] = epoch /\ sequence <= k[2] /\ k[2] < sequence'
        /\ NextKeys(n) # {} /\ NextKeys(n) \subseteq Keys
        /\ OwedIn(records') \subseteq OwedIn(records) \cup NextKeys(n)
    <3>1. n \in Nat /\ n # 0 /\ Cardinality({}) = 0
      BY FS_EmptySet, FlightAssumption
    <3>2. /\ epoch' = epoch /\ sequence' \in 0 .. MaxSequence + 1
          /\ Cardinality(NextKeys(n)) \in 1 .. n
          /\ \A k \in NextKeys(n) :
               k[1] = epoch /\ sequence <= k[2] /\ k[2] < sequence'
          /\ NextKeys(n) \subseteq Keys
          /\ OwedIn(records') \subseteq OwedIn(records) \cup NextKeys(n)
      BY <1>2, TrackedBy, SealedAndTracked
    <3>3. NextKeys(n) # {}
      BY <3>1, <3>2
    <3> QED  BY <3>2, <3>3, FlightAssumption
  <2>2. PICK l \in NextKeys(n) : TRUE
    BY <2>1
  <2>3. sequence <= sequence'
    BY <1>0, <2>1, <2>2
  <2>4. CASE StartFlight(n)
    BY <2>1, <2>4 DEF StartFlight, OwedInOutboundEpoch
  <2>5. CASE StartFlightExhausted(n) \/ SealForFlight(n)
    <3>1. flight' = flight /\ rekeyed' = rekeyed
      BY <2>5 DEF StartFlightExhausted, SealForFlight, flightVars
    <3> SUFFICES ASSUME ~rekeyed, NEW k \in flight, k \in OwedIn(records')
                 PROVE  k[1] = epoch /\ k[2] < sequence'
      BY <1>0, <2>1, <3>1 DEF OwedInOutboundEpoch
    <3>2. CASE k \in OwedIn(records)
      <4>1. k[1] = epoch /\ k[2] < sequence /\ k[2] \in Nat
        BY <1>0, <1>a, <3>2 DEF OwedInOutboundEpoch
      <4> QED  BY <1>0, <2>1, <2>3, <4>1
    <3>3. CASE k \in NextKeys(n)
      BY <2>1, <3>3
    <3> QED  BY <2>1, <3>2, <3>3
  <2> QED  BY <1>2, <2>4, <2>5 DEF TracksRecords
<1> QED  BY <1>1, <1>2, EveryStep

\* Owed records of the flight are of the outbound epoch, already numbered.
THEOREM OwedBelowNextNumber == Spec => []OwedInOutboundEpoch
<1>1. Init => OwedInOutboundEpoch
  BY DEF Init, StoreInit, OwedInOutboundEpoch
<1>2. WellFormed /\ OwedInOutboundEpoch /\ [Next]_vars => OwedInOutboundEpoch'
  BY OwedStep
<1> QED  BY <1>1, <1>2, AlwaysWellFormed, PTL DEF Spec

-----------------------------------------------------------------------------
(***************************************************************************)
(* What the peer has acknowledged is not owed any more, until its number   *)
(* is tracked anew.                                                        *)
(***************************************************************************)
SettledNotOwed == settled \cap OwedIn(records) = {}

\* Only tracking a number anew makes it owed again.
LEMMA ConfirmedStep ==
  ASSUME WellFormed, SettledNotOwed, [Next]_vars
  PROVE  SettledNotOwed'
<1>0. Fits(records) /\ Vec(records) /\ now \in 0 .. MaxTime
  BY DEF WellFormed, Fits, TypeOK, StoreTypeOK
<1>1. CASE TracksNothing
  <2>1. OwedIn(records') \subseteq OwedIn(records)
    BY <1>0, <1>1, LessTracked DEF LessOf
  <2>2. ASSUME NEW acked \in SUBSET flight,
               AcknowledgeFlight(acked) \/ AcknowledgeFlightMalformed(acked)
        PROVE  SettledNotOwed'
    <3> DEFINE ks == acked \cap flight
               marked == AcknowledgedAll(records, ks)
    <3>1. Vec(marked) /\ OwedIn(marked) = OwedIn(records) \ ks
      BY <1>0, AcknowledgedAllVec
    <3>2. OwedIn(Pruned(marked)) = OwedIn(marked)
      <4> HIDE DEF marked
      <4> QED  BY <3>1, PrunedVec
    <3>3. OwedIn(records') = OwedIn(records) \ ks /\ settled' = settled \cup ks
      BY <2>2, <3>1, <3>2 DEF AcknowledgeFlight, AcknowledgeFlightMalformed
    <3> QED  BY <3>3 DEF SettledNotOwed
  <2>3. ASSUME NEW k \in Keys, MarkRecordAcked(k) PROVE SettledNotOwed'
    <3>1. OwedIn(AcknowledgedAll(records, {k})) = OwedIn(records) \ {k}
      BY <1>0, AcknowledgedAllVec
    <3> QED  BY <2>3, <3>1 DEF MarkRecordAcked, MarkAcked, Acknowledged,
                SettledNotOwed
  <2>4. CASE \/ SealRecord \/ Poll \/ Abort
             \/ \E e \in 0 .. MaxEpoch : SetOutboundEpoch(e)
             \/ AdvanceOutboundEpoch \/ PruneAckedRecords \/ PollStore
             \/ InstallRecordKeys \/ Tick \/ UNCHANGED vars
    <3>1. settled' = settled
      BY <2>4 DEF SealRecord, Poll, PollTimedOut, PollMissing, PollExhausted,
         PollDue,
         Abort, SetOutboundEpoch, AdvanceOutboundEpoch, PruneAckedRecords,
         PollStore, CollectDue,
         InstallRecordKeys, Tick, TimePasses, vars, retransmitVars, storeVars
    <3> QED  BY <2>1, <3>1 DEF SettledNotOwed
  <2> QED  BY <1>1, <2>2, <2>3, <2>4 DEF TracksNothing
<1>2. ASSUME NEW n \in 1 .. MaxFlight, TracksRecords(n) PROVE SettledNotOwed'
  <2>1. /\ settled' = settled \ NextKeys(n)
        /\ OwedIn(records') \subseteq OwedIn(records) \cup NextKeys(n)
    BY <1>2, TrackedBy, SealedAndTracked
  <2> QED  BY <2>1 DEF SettledNotOwed
<1> QED  BY <1>1, <1>2, EveryStep

\* Nothing is acknowledged in the initial state.
LEMMA InitConfirmed == Init => SettledNotOwed
BY DEF Init, StoreInit, SettledNotOwed

\* No poll hands out a record that the peer has acknowledged.
THEOREM ConfirmedNeverResent == Spec => NoResendAfterAck
<1>1. WellFormed /\ SettledNotOwed /\ [Next]_vars => SettledNotOwed'
  BY ConfirmedStep
<1>2. SettledNotOwed => (Poll \/ PollStore => returned' \cap settled = {})
  <2>1. KeysOf(DueNow(records, MaxAttempts, now)) \subseteq OwedIn(records)
    BY DEF KeysOf, DueNow, OwedIn
  <2>2. Poll \/ PollStore => returned' \subseteq KeysOf(DueNow(records, MaxAttempts, now))
    BY DEF Poll, PollTimedOut, PollMissing, PollExhausted, PollDue, PollStore,
       CollectDue
  <2> QED  BY <2>1, <2>2 DEF SettledNotOwed
<1> QED  BY <1>1, <1>2, InitConfirmed, AlwaysWellFormed, PTL DEF Spec,
            NoResendAfterAck

-----------------------------------------------------------------------------
(***************************************************************************)
(* As long as no numbers have started over, every key of the store and of  *)
(* the flight is behind the next one, so the next ones are new to both.    *)
(***************************************************************************)
InUse(k) == k[1] < epoch \/ (k[1] = epoch /\ k[2] < sequence)
NumbersInUse == ~restarted => \A k \in KeysOf(records) \cup flight : InUse(k)

\* InUse, of the next state.
InUseThen(k) == k[1] < epoch' \/ (k[1] = epoch' /\ k[2] < sequence')

\* The epoch calls leave the flight alone, and move to a later epoch unless
\* they start the numbers over.
LEMMA EpochCalls ==
  ASSUME WellFormed,
         (\E e \in 0 .. MaxEpoch : SetOutboundEpoch(e)) \/ AdvanceOutboundEpoch
  PROVE  /\ flight' = flight /\ records' = records /\ settled' = settled
         /\ ~restarted' => ~restarted /\ epoch' \in Nat /\ epoch < epoch'
<1>1. epoch \in Nat /\ restarted \in BOOLEAN /\ MaxEpoch \in Nat
  BY FlightAssumption DEF WellFormed, TypeOK, StoreTypeOK
<1>2. ASSUME NEW e \in 0 .. MaxEpoch, SetOutboundEpoch(e), ~restarted'
      PROVE  ~restarted /\ epoch' \in Nat /\ epoch < epoch'
  <2>1. restarted' = (restarted \/ e = epoch)
    BY <1>2 DEF SetOutboundEpoch
  <2>2. ~restarted /\ e # epoch
    BY <1>2, <2>1
  <2>3. e \in Nat /\ e >= epoch /\ epoch' = e
    BY <1>1, <1>2 DEF SetOutboundEpoch
  <2> QED  BY <1>1, <2>2, <2>3
<1>3. ASSUME AdvanceOutboundEpoch, ~restarted'
      PROVE  ~restarted /\ epoch' \in Nat /\ epoch < epoch'
  BY <1>1, <1>3 DEF AdvanceOutboundEpoch
<1>4. flight' = flight /\ records' = records /\ settled' = settled
  BY DEF SetOutboundEpoch, AdvanceOutboundEpoch, flightVars
<1> QED  BY <1>2, <1>3, <1>4

\* A step that does not start the numbers over keeps the next ones new.
LEMMA NumbersStep ==
  ASSUME WellFormed, NumbersInUse, [Next]_vars
  PROVE  NumbersInUse'
<1>0. /\ epoch \in Nat /\ sequence \in Nat
      /\ Fits(records) /\ now \in 0 .. MaxTime
      /\ KeysOf(records) \cup flight \subseteq Keys
      /\ \A k \in Keys : k[1] \in Nat /\ k[2] \in Nat
  BY FlightAssumption, StoreTyped DEF WellFormed, TypeOK, StoreTypeOK, RecordKeys
<1>1. SUFFICES ASSUME ~restarted', NEW k \in KeysOf(records') \cup flight'
               PROVE  InUseThen(k)
  BY DEF NumbersInUse, InUse, InUseThen
<1>2. CASE TracksNothing
  <2>1. KeysOf(records') \subseteq KeysOf(records)
    BY <1>0, <1>2, LessTracked DEF LessOf
  <2>2. CASE SealRecord
    <3>1. sequence' \in Nat /\ sequence <= sequence' /\ epoch' = epoch
      BY <2>2, SealedAlone, FlightAssumption
    <3>2. flight' = flight /\ restarted' = restarted
      BY <2>2 DEF SealRecord, flightVars
    <3>3. InUse(k) /\ k[1] \in Nat /\ k[2] \in Nat
      BY <1>0, <1>1, <2>1, <3>2 DEF NumbersInUse
    <3> QED  BY <1>0, <3>1, <3>3 DEF InUse, InUseThen
  <2>3. CASE \/ Poll
             \/ \E acked \in SUBSET flight :
                  AcknowledgeFlight(acked) \/ AcknowledgeFlightMalformed(acked)
             \/ Abort
             \/ \E l \in Keys : MarkRecordAcked(l)
             \/ PruneAckedRecords \/ PollStore \/ Tick \/ UNCHANGED vars
    <3>1. /\ epoch' = epoch /\ sequence' = sequence /\ restarted' = restarted
          /\ flight' \subseteq flight
      BY <2>3 DEF Poll, PollTimedOut, PollMissing, PollExhausted, PollDue,
         AcknowledgeFlight, AcknowledgeFlightMalformed, Abort, AbortEffects,
         EndFlight, MarkRecordAcked, MarkAcked, PruneAckedRecords, PollStore,
         CollectDue, Tick, TimePasses, vars, retransmitVars, storeVars,
         sealVars, flightVars
    <3> QED  BY <1>1, <2>1, <3>1 DEF NumbersInUse, InUse, InUseThen
  <2>4. CASE (\E e \in 0 .. MaxEpoch : SetOutboundEpoch(e)) \/ AdvanceOutboundEpoch
    <3>1. flight' = flight /\ ~restarted /\ epoch' \in Nat /\ epoch < epoch'
      BY <1>0, <1>1, <2>4, EpochCalls
    <3>2. InUse(k) /\ k[1] \in Nat
      BY <1>0, <1>1, <2>1, <3>1 DEF NumbersInUse
    <3> QED  BY <1>0, <3>1, <3>2 DEF InUse, InUseThen
  <2>5. CASE InstallRecordKeys
    BY <1>1, <2>5 DEF InstallRecordKeys
  <2> QED  BY <1>2, <2>2, <2>3, <2>4, <2>5 DEF TracksNothing
<1>3. ASSUME NEW n \in 1 .. MaxFlight, TracksRecords(n) PROVE InUseThen(k)
  <2>1. /\ epoch' = epoch /\ sequence' \in 0 .. MaxSequence + 1
        /\ Cardinality(NextKeys(n)) \in 1 .. n
        /\ \A l \in NextKeys(n) :
             l[1] = epoch /\ sequence <= l[2] /\ l[2] < sequence'
        /\ NextKeys(n) \subseteq Keys
        /\ KeysOf(records') \subseteq KeysOf(records) \cup NextKeys(n)
    BY <1>3, TrackedBy, SealedAndTracked
  <2>2. restarted' = restarted /\ flight' \subseteq flight \cup NextKeys(n)
    BY <1>3 DEF TracksRecords, StartFlight, StartFlightExhausted, SealForFlight,
       flightVars
  <2>3. sequence' \in Nat /\ sequence <= sequence'
    <3>1. n \in Nat /\ Cardinality({}) = 0
      BY FS_EmptySet, FlightAssumption
    <3>2. PICK l \in NextKeys(n) : TRUE
      BY <2>1, <3>1
    <3>3. sequence' \in Nat /\ l[2] \in Nat /\ sequence <= l[2] /\ l[2] < sequence'
      BY <1>0, <2>1, FlightAssumption
    <3> QED  BY <1>0, <3>3
  <2>4. CASE k \in NextKeys(n)
    BY <2>1, <2>4 DEF InUseThen
  <2>5. CASE k \in KeysOf(records) \cup flight
    <3>1. InUse(k) /\ k[1] \in Nat /\ k[2] \in Nat
      BY <1>0, <1>1, <2>2, <2>5 DEF NumbersInUse
    <3> QED  BY <1>0, <2>1, <2>3, <3>1 DEF InUse, InUseThen
  <2> QED  BY <1>1, <2>1, <2>2, <2>4, <2>5
<1> QED  BY <1>2, <1>3, EveryStep

(***************************************************************************)
(* A flight the store has room for is kept: each of its records is owed,   *)
(* or the peer has acknowledged it.                                        *)
(***************************************************************************)
FlightKept == FlightFits => flight \subseteq settled \cup OwedIn(records)

\* A flight call loses no record of a flight that fits.
LEMMA KeptStep ==
  ASSUME WellFormed, NumbersInUse, FlightKept, [NextFlightOnly]_vars
  PROVE  FlightKept'
<1>0. /\ Fits(records) /\ Vec(records) /\ now \in 0 .. MaxTime
      /\ Owed = OwedIn(records)
      /\ epoch \in Nat /\ sequence \in Nat
      /\ \A k \in Keys : k[2] \in Nat
  BY FlightAssumption DEF WellFormed, TypeOK, StoreTypeOK, Fits, Owed, OwedIn,
     RecordKeys
<1>1. CASE flight' = {}
  BY <1>1 DEF FlightKept
<1>2. CASE SealRecord \/ UNCHANGED vars
  BY <1>2 DEF SealRecord, vars, retransmitVars, storeVars, flightVars, FlightKept, FlightFits
<1>3. ASSUME NEW n \in 1 .. MaxFlight, StartFlight(n)
      PROVE  FlightKept'
  <2> DEFINE c == Cardinality(NextKeys(n))
  <2>1. TracksRecords(n)
    BY <1>3 DEF TracksRecords
  <2>2. sequence <= MaxSequence /\ records' = StoreAfter(c)
    BY <2>1, TrackedBy DEF TrackAll
  <2>3. /\ epoch \in 0 .. MaxEpoch /\ sequence \in 0 .. MaxSequence
        /\ n \in Nat \ {0}
    BY <2>2, FlightAssumption DEF WellFormed, TypeOK, StoreTypeOK
  <2>4. /\ c \in 1 .. n
        /\ NextKeys(n) = TheseKeys(c)
        /\ NextKeys(n) \subseteq Keys
        /\ \A k \in NextKeys(n) : k[1] = epoch /\ sequence <= k[2]
    BY <2>3, NextKeysFacts
  <2>5. flight' = NextKeys(n) /\ restarted' = restarted
    BY <1>3 DEF StartFlight
  <2>6. SUFFICES ASSUME ~restarted, c <= Capacity
                 PROVE  TheseKeys(c) \subseteq OwedIn(records')
    BY <2>4, <2>5 DEF FlightKept, FlightFits
  <2>7. TheseKeys(c) \cap KeysOf(records) = {}
    <3> SUFFICES ASSUME NEW k \in NextKeys(n), k \in KeysOf(records)
                 PROVE  FALSE
      BY <2>4
    <3>1. InUse(k)
      BY <2>6 DEF NumbersInUse
    <3>2. k[1] = epoch /\ sequence <= k[2] /\ k[2] \in Nat
      BY <1>0, <2>4
    <3> QED  BY <1>0, <3>1, <3>2 DEF InUse
  <2> HIDE DEF c
  <2>8. c \in Nat
    BY <2>4
  <2>9. TheseKeys(c) \subseteq Keys
    BY <2>4
  <2>10. TheseKeys(c) \subseteq OwedIn(StoreAfter(c))
    BY <1>0, <2>6, <2>7, <2>8, <2>9, NewRecordsStay
  <2> QED  BY <2>2, <2>10
<1>4. ASSUME NEW n \in 1 .. MaxFlight, StartFlightExhausted(n)
      PROVE  FlightKept'
  <2>1. /\ flight' = flight /\ restarted' = restarted
        /\ flight \cap OwedIn(records) = {}
        /\ TracksRecords(n)
    BY <1>0, <1>4 DEF StartFlightExhausted, flightVars, TracksRecords, Complete,
       Owed
  <2>2. /\ settled' = settled \ NextKeys(n)
        /\ \A k \in NextKeys(n) : k[1] = epoch /\ sequence <= k[2]
    BY <2>1, TrackedBy, SealedAndTracked
  <2>3. SUFFICES ASSUME FlightFits PROVE flight \subseteq settled'
    BY <2>1 DEF FlightKept, FlightFits
  <2>4. flight \subseteq settled
    BY <2>1, <2>3 DEF FlightKept
  <2>5. flight \cap NextKeys(n) = {}
    <3> SUFFICES ASSUME NEW k \in NextKeys(n), k \in flight PROVE FALSE
      OBVIOUS
    <3>1. InUse(k)
      BY <2>3 DEF NumbersInUse, FlightFits
    <3>2. k[1] = epoch /\ sequence <= k[2] /\ k[2] \in Nat
      BY <1>0, <2>2 DEF WellFormed, TypeOK, StoreTypeOK
    <3> QED  BY <1>0, <3>1, <3>2 DEF InUse
  <2> QED  BY <2>2, <2>4, <2>5
<1>5. CASE PollDue
  <2>1. /\ flight' = flight /\ restarted' = restarted /\ settled' = settled
        /\ records' = Collected(records, MaxAttempts, now)
        /\ flight \subseteq KeysOf(Collected(records, MaxAttempts, now))
    BY <1>5 DEF PollDue, flightVars, Missing
  <2>2. flight \cap OwedIn(records) \subseteq OwedIn(records')
    <3> SUFFICES ASSUME NEW k \in flight, k \in OwedIn(records)
                 PROVE  k \in OwedIn(records')
      OBVIOUS
    <3>1. PICK r \in Unacknowledged(records) : r.key = k
      BY DEF OwedIn, KeysOf
    <3>2. k \in KeysOf(records \ Exhausted(records, MaxAttempts))
      BY <1>0, <2>1, CollectedVec
    <3>3. PICK q \in records \ Exhausted(records, MaxAttempts) : q.key = k
      BY <3>2 DEF KeysOf
    <3>4. q = r
      BY <1>0, <3>1, <3>3 DEF Vec, Distinct, Unacknowledged
    <3>5. k \in KeysOf(Unacknowledged(records) \ Exhausted(records, MaxAttempts))
      BY <3>1, <3>3, <3>4 DEF KeysOf
    <3> QED  BY <1>0, <2>1, <3>5, CollectedVec
  <2> QED  BY <2>1, <2>2 DEF FlightKept, FlightFits
<1>6. ASSUME NEW acked \in SUBSET flight,
             AcknowledgeFlight(acked) \/ AcknowledgeFlightMalformed(acked)
      PROVE  FlightKept'
  <2> DEFINE ks == acked \cap flight
             marked == AcknowledgedAll(records, ks)
  <2>1. Vec(marked) /\ OwedIn(marked) = OwedIn(records) \ ks
    BY <1>0, AcknowledgedAllVec
  <2>2. OwedIn(Pruned(marked)) = OwedIn(marked)
    <3> HIDE DEF marked
    <3> QED  BY <2>1, PrunedVec
  <2>3. /\ OwedIn(records') = OwedIn(records) \ ks /\ settled' = settled \cup ks
        /\ restarted' = restarted /\ (flight' = flight \/ flight' = {})
    BY <1>6, <2>1, <2>2
    DEF AcknowledgeFlight, AcknowledgeFlightMalformed, EndFlight, flightVars
  <2> QED  BY <1>1, <2>3 DEF FlightKept, FlightFits
<1>7. CASE (\E e \in 0 .. MaxEpoch : SetOutboundEpoch(e)) \/ AdvanceOutboundEpoch
  <2>1. /\ flight' = flight /\ records' = records /\ settled' = settled
        /\ ~restarted' => ~restarted
    BY <1>7, EpochCalls
  <2> QED  BY <2>1 DEF FlightKept, FlightFits
<1>8. CASE Tick
  BY <1>8 DEF Tick, TimePasses, flightVars, FlightKept, FlightFits
<1>9. CASE PollTimedOut \/ PollMissing \/ PollExhausted \/ Abort
  <2>1. flight' = {}
    BY <1>9 DEF PollTimedOut, PollMissing, PollExhausted, Abort, AbortEffects,
       EndFlight
  <2> QED  BY <1>1, <2>1
<1> QED  BY <1>2, <1>3, <1>4, <1>5, <1>6, <1>7, <1>8, <1>9
         DEF NextFlightOnly, FlightCalls, Poll

(***************************************************************************)
(* What holds in every state of an embedder that keeps to the calls of the *)
(* active flight.                                                          *)
(***************************************************************************)
FlightInv == WellFormed /\ NumbersInUse /\ FlightKept

\* The three together are an invariant of such an embedder.
LEMMA FlightInvariant == SpecFlightOnly => []FlightInv
<1>1. Init => FlightInv
  BY InitWellFormed DEF Init, StoreInit, FlightInv, NumbersInUse, FlightKept, KeysOf
<1>2. FlightInv /\ [NextFlightOnly]_vars => FlightInv'
  <2> SUFFICES ASSUME FlightInv, [NextFlightOnly]_vars PROVE FlightInv'
    OBVIOUS
  <2>1. [Next]_vars
    BY DEF NextFlightOnly, Next
  <2> QED  BY <2>1, WellFormedStep, NumbersStep, KeptStep DEF FlightInv
<1> QED  BY <1>1, <1>2, PTL DEF SpecFlightOnly

(***************************************************************************)
(* A flight that an acknowledgement ends was acknowledged in full.         *)
(***************************************************************************)
THEOREM EndedInFull == SpecFlightOnly => CompletionIsAcknowledged
<1> DEFINE InFull == \A acked \in SUBSET flight :
                       FlightFits /\ AcknowledgeFlight(acked) /\ flight' = {}
                         => flight \subseteq settled'
<1>1. FlightInv => InFull
  <2> SUFFICES ASSUME FlightInv, NEW acked \in SUBSET flight, FlightFits,
                      AcknowledgeFlight(acked), flight' = {}
               PROVE  flight \subseteq settled'
    OBVIOUS
  <2> DEFINE ks == acked \cap flight
             marked == AcknowledgedAll(records, ks)
  <2>1. Vec(records) /\ flight \subseteq settled \cup OwedIn(records)
    BY DEF FlightInv, WellFormed, Fits, FlightKept
  <2>2. Vec(marked) /\ OwedIn(marked) = OwedIn(records) \ ks
    BY <2>1, AcknowledgedAllVec
  <2>3. KeysOf(Pruned(marked)) = OwedIn(marked)
    <3> HIDE DEF marked
    <3> QED  BY <2>2, PrunedVec
  <2>4. KeysOf(records') = OwedIn(records) \ ks /\ settled' = settled \cup ks
    BY <2>2, <2>3 DEF AcknowledgeFlight
  <2>5. flight \cap KeysOf(records') = {}
    BY DEF AcknowledgeFlight, flightVars
  <2> QED  BY <2>1, <2>4, <2>5
<1> QED  BY <1>1, FlightInvariant, PTL DEF CompletionIsAcknowledged

(***************************************************************************)
(* A flight that is given up has had all its time, or one of its records   *)
(* all its attempts, or was acknowledged in part.                          *)
(***************************************************************************)
THEOREM NeverGivenUpEarly == SpecFlightOnly => GivenUpLate
<1> DEFINE Late ==
      FlightFits /\ flight # {} /\ flight' = {}
      /\ ~(\E acked \in SUBSET flight : AcknowledgeFlight(acked))
        => \/ Abort
           \/ now - startedAt > FlightTimeout
           \/ flight \cap settled # {}
           \/ \E r \in records : r.key \in flight /\ r.count >= MaxAttempts
<1>1. FlightInv /\ [NextFlightOnly]_vars => Late
  <2> SUFFICES ASSUME FlightInv, [NextFlightOnly]_vars,
                      FlightFits, flight # {}, flight' = {},
                      ~(\E acked \in SUBSET flight : AcknowledgeFlight(acked))
               PROVE  \/ Abort
                      \/ now - startedAt > FlightTimeout
                      \/ flight \cap settled # {}
                      \/ \E r \in records : r.key \in flight /\ r.count >= MaxAttempts
    OBVIOUS
  <2>1. /\ Vec(records) /\ flight \subseteq settled \cup OwedIn(records)
        /\ WellFormed /\ now \in 0 .. MaxTime
    BY DEF FlightInv, WellFormed, Fits, FlightKept, TypeOK, StoreTypeOK
  <2>2. CASE \/ SealRecord \/ PollDue
             \/ \E n \in 1 .. MaxFlight : StartFlightExhausted(n)
             \/ \E acked \in SUBSET flight : AcknowledgeFlightMalformed(acked)
             \/ \E e \in 0 .. MaxEpoch : SetOutboundEpoch(e)
             \/ AdvanceOutboundEpoch \/ Tick \/ UNCHANGED vars
    BY <2>2 DEF SealRecord, PollDue, StartFlightExhausted,
       AcknowledgeFlightMalformed,
       SetOutboundEpoch, AdvanceOutboundEpoch, Tick, TimePasses, vars, retransmitVars, storeVars,
       flightVars
  <2>3. ASSUME NEW n \in 1 .. MaxFlight, StartFlight(n) PROVE FALSE
    <3>1. /\ TracksRecords(n) /\ flight' = NextKeys(n)
          /\ n \in Nat /\ Cardinality({}) = 0
      BY <2>3, FS_EmptySet, FlightAssumption DEF TracksRecords, StartFlight
    <3>2. Cardinality(NextKeys(n)) \in 1 .. n
      BY <2>1, <3>1, TrackedBy, SealedAndTracked
    <3> QED  BY <3>1, <3>2
  <2>4. CASE PollTimedOut
    BY <2>4 DEF PollTimedOut, TimedOut
  <2>5. CASE PollMissing
    <3>1. PICK k \in flight : k \notin KeysOf(records)
      BY <2>5 DEF PollMissing, Missing
    <3>2. k \in settled
      BY <2>1, <3>1 DEF OwedIn, KeysOf, Unacknowledged
    <3> QED  BY <3>2
  <2>6. CASE PollExhausted
    <3>1. PICK k \in flight : k \notin KeysOf(Collected(records, MaxAttempts, now))
      BY <2>6 DEF PollExhausted, Missing
    <3>2. k \in KeysOf(records)
      BY <2>6 DEF PollExhausted, Missing
    <3>3. PICK r \in records : r.key = k
      BY <3>2 DEF KeysOf
    <3>4. k \notin KeysOf(records \ Exhausted(records, MaxAttempts))
      BY <2>1, <3>1, CollectedVec
    <3>5. r \in Exhausted(records, MaxAttempts)
      BY <3>3, <3>4 DEF KeysOf
    <3> QED  BY <3>3, <3>5 DEF Exhausted
  <2> QED  BY <2>2, <2>3, <2>4, <2>5, <2>6 DEF NextFlightOnly, FlightCalls, Poll
<1> QED  BY <1>1, FlightInvariant, PTL DEF GivenUpLate, SpecFlightOnly
=============================================================================
