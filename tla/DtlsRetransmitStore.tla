-------------------------- MODULE DtlsRetransmitStore ----------------------
(***************************************************************************)
(* The store of outbound DTLS packets that may have to be sent again       *)
(* (DtlsFlightRetransmitTracker): bounded, with a retransmission timer per *)
(* packet that doubles at every resend.                                    *)
(*                                                                         *)
(* The Vec of records is a set whose members carry their index, "at".      *)
(* Times are absolute: the operations take the now_ms of their caller, and *)
(* "next" is next_retransmit_at_ms.  A sum past the end of a u64 stays     *)
(* there, a deadline as well as a timeout.  last_sent_at_ms is written but *)
(* never read and is left out, and so are the bytes of a packet: its key   *)
(* identifies it.                                                          *)
(***************************************************************************)
EXTENDS Integers, FiniteSets

CONSTANTS
  Keys,        \* (epoch, sequence) pairs
  MaxRecords,  \* max_records, 256 for a Connection
  MaxTime      \* u64::MAX, the end of the clock, where sums saturate

ASSUME StoreAssumption ==
  /\ MaxRecords \in Nat      \* new clamps it to at least 1
  /\ MaxTime \in Nat \ {0}

Capacity == IF MaxRecords = 0 THEN 1 ELSE MaxRecords
AtLeastOne(n) == IF n = 0 THEN 1 ELSE n
Saturated(t) == IF t > MaxTime THEN MaxTime ELSE t

(***************************************************************************)
(* A tracked record.  The fields "initial" and "since" are history: the    *)
(* first timeout, and the now_ms the record was tracked with.              *)
(***************************************************************************)
Record ==
  [key : Keys, at : Nat, acknowledged : BOOLEAN, count : Nat,
   next : 0 .. MaxTime, timeout : 0 .. MaxTime,
   initial : 0 .. MaxTime, since : 0 .. MaxTime]

KeysOf(rs) == {r.key : r \in rs}

\* Faulty variant of Unacknowledged: the flag is not looked at.
UnacknowledgedIgnored(rs) == rs

Unacknowledged(rs) == {r \in rs : ~r.acknowledged}

\* Indices after a removal: a record moves up past the removed ones.
Reindex(rs) ==
  {[r EXCEPT !.at = Cardinality({q \in rs : q.at <= r.at})] : r \in rs}

\* records.remove(0) as long as there are too many
EvictOldest(rs) ==
  LET excess == Cardinality(rs) - Capacity
  IN  IF excess > 0 THEN Reindex({r \in rs : r.at > excess}) ELSE rs

NewRecord(k, at, t, now) ==
  [key |-> k, at |-> at, acknowledged |-> FALSE, count |-> 0,
   next |-> Saturated(now + t), timeout |-> t, initial |-> t, since |-> now]

(***************************************************************************)
(* track_outbound_with_schedule: a key that is there starts afresh in its  *)
(* place, any other is appended.                                           *)
(***************************************************************************)
Tracked(rs, k, initialTimeout, now) ==
  LET t == AtLeastOne(initialTimeout)
  IN  IF k \in KeysOf(rs)
      THEN {IF r.key = k THEN NewRecord(k, r.at, t, now) ELSE r : r \in rs}
      ELSE EvictOldest(rs \cup {NewRecord(k, Cardinality(rs) + 1, t, now)})

\* mark_acked, for each of the keys ks and for one
AcknowledgedAll(rs, ks) ==
  {IF r.key \in ks THEN [r EXCEPT !.acknowledged = TRUE] ELSE r : r \in rs}

Acknowledged(rs, k) == AcknowledgedAll(rs, {k})

\* prune_acked
Pruned(rs) == Reindex(Unacknowledged(rs))

\* Faulty variant of Exhausted: one attempt too few.
ExhaustedEarly(rs, attempts) == {r \in Unacknowledged(rs) : r.count + 1 >= attempts}

\* The records a poll drops first: they have used up their attempts.
Exhausted(rs, attempts) == {r \in Unacknowledged(rs) : r.count >= attempts}

\* Faulty variant of Resent: the timer is not restarted.
ResentAtOnce(r, now) ==
  LET t == AtLeastOne(Saturated(2 * r.timeout))
  IN  [r EXCEPT !.count = @ + 1, !.timeout = t]

\* A resend: the timeout doubles and the timer restarts with it.
Resent(r, now) ==
  LET t == AtLeastOne(Saturated(2 * r.timeout))
  IN  [r EXCEPT !.count = @ + 1, !.timeout = t, !.next = Saturated(now + t)]

\* The records a poll returns for resending, and the store it leaves
\* (collect_due_retransmit_packets).
DueNow(rs, attempts, now) ==
  {r \in Unacknowledged(rs) \ Exhausted(rs, attempts) : r.next <= now}

Collected(rs, attempts, now) ==
  LET due == DueNow(rs, attempts, now)
  IN  Reindex({IF r \in due THEN Resent(r, now) ELSE r :
                 r \in rs \ Exhausted(rs, attempts)})
=============================================================================
