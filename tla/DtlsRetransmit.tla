--------------------------- MODULE DtlsRetransmit ---------------------------
(***************************************************************************)
(* The store of DtlsRetransmitStore under any sequence of calls: packets   *)
(* are tracked, acknowledged, pruned and polled in every order, and time   *)
(* passes between the calls.  The callers' clock, now_ms, is monotonic and *)
(* the same for all of them, but for track_outbound, which takes the time  *)
(* to be zero.                                                             *)
(***************************************************************************)
EXTENDS DtlsRetransmitStore

CONSTANTS
  InitialTimeouts,  \* values of initial_timeout_ms
  DefaultTimeout,   \* the one of track_outbound, 1000
  AttemptLimits     \* values of max_retransmit_attempts

ASSUME RetransmitAssumption ==
  /\ InitialTimeouts \subseteq 0 .. MaxTime
  /\ DefaultTimeout \in 1 .. MaxTime
  /\ AttemptLimits \subseteq Nat

VARIABLES
  now,        \* the time in milliseconds
  records,    \* the tracked records
  returned,   \* the keys the last poll returned
  settled     \* history: keys acknowledged since they were last tracked

storeVars == <<records, returned, settled>>
retransmitVars == <<now, storeVars>>

StoreTypeOK ==
  /\ now \in 0 .. MaxTime
  /\ records \in SUBSET Record
  /\ IsFiniteSet(records)
  /\ returned \in SUBSET Keys
  /\ settled \in SUBSET Keys

StoreInit ==
  /\ now = 0
  /\ records = {}
  /\ returned = {}
  /\ settled = {}

\* track_outbound_with_schedule
TrackWithSchedule(k, initialTimeout) ==
  /\ records' = Tracked(records, k, initialTimeout, now)
  /\ settled' = settled \ {k}
  /\ returned' = {}
  /\ UNCHANGED now

\* track_outbound: a packet tracked with it later than DefaultTimeout is due
\* at once.
TrackOutbound(k) ==
  /\ records' = Tracked(records, k, DefaultTimeout, 0)
  /\ settled' = settled \ {k}
  /\ returned' = {}
  /\ UNCHANGED now

MarkAcked(k) ==
  /\ k \in KeysOf(records)
  /\ records' = Acknowledged(records, k)
  /\ settled' = settled \cup {k}
  /\ returned' = {}
  /\ UNCHANGED now

PruneAcked ==
  /\ \E r \in records : r.acknowledged
  /\ records' = Pruned(records)
  /\ returned' = {}
  /\ UNCHANGED <<now, settled>>

CollectDue(attempts) ==
  /\ returned' = KeysOf(DueNow(records, attempts, now))
  /\ records' = Collected(records, attempts, now)
  /\ UNCHANGED <<now, settled>>

TimePasses ==
  /\ now < MaxTime
  /\ now' = now + 1
  /\ returned' = {}
  /\ UNCHANGED <<records, settled>>

StoreNext ==
  \/ \E k \in Keys, t \in InitialTimeouts : TrackWithSchedule(k, t)
  \/ \E k \in Keys : TrackOutbound(k) \/ MarkAcked(k)
  \/ PruneAcked
  \/ \E attempts \in AttemptLimits : CollectDue(attempts)
  \/ TimePasses

StoreSpec == StoreInit /\ [][StoreNext]_retransmitVars

-----------------------------------------------------------------------------
(***************************************************************************)
(* Properties.                                                             *)
(***************************************************************************)

(***************************************************************************)
(* Exponential back-off: counted from the time a packet was tracked with,  *)
(* the next resend comes no earlier than after the sum of all earlier      *)
(* waits plus the current one, however late and however often the store is *)
(* polled, and no later than a timeout from now.  A deadline past the end  *)
(* of the clock is at its end: there, and only there, a timer waits less   *)
(* than its timeout.  Since track_outbound tracks with time zero, the sum  *)
(* for its packets is counted from the start of the clock.                 *)
(***************************************************************************)
Spaced ==
  \A r \in records :
    /\ r.next >= Saturated(r.since + 2 * r.timeout - r.initial)
    /\ r.next <= Saturated(now + r.timeout)

(***************************************************************************)
(* A packet that was acknowledged after it was last tracked is not resent. *)
(***************************************************************************)
NeverResentOnceSettled ==
  [][returned' \cap settled = {}]_retransmitVars

(***************************************************************************)
(* A packet still owed to the peer leaves the store only when a poll finds *)
(* its attempts used up, or as the oldest one when a new key needs room.   *)
(***************************************************************************)
NothingForgotten ==
  [][\A r \in Unacknowledged(records) :
       r.key \notin KeysOf(records') =>
         \/ \E attempts \in AttemptLimits :
              CollectDue(attempts) /\ r.count >= attempts
         \/ /\ r.at = 1
            /\ Cardinality(records) = Capacity
            /\ \E k \in Keys \ KeysOf(records) : k \in KeysOf(records')
    ]_retransmitVars
=============================================================================
