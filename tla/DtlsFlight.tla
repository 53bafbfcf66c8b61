----------------------------- MODULE DtlsFlight -----------------------------
(***************************************************************************)
(* The send side of a DTLS 1.3 connection: records are sealed under an     *)
(* outbound epoch and sequence number, flights of them are tracked until   *)
(* the peer has acknowledged every record, and an embedder that holds the  *)
(* clock polls for what has to be sent again.                              *)
(*                                                                         *)
(* The retransmission store is the one of DtlsRetransmit.  It belongs to   *)
(* the whole connection: besides the active flight, the record-level calls *)
(* and the DTLS 1.2 scheduler calls work on it.  Its variables come from   *)
(* there: now (the clock), records (dtls_retransmit_tracker), returned     *)
(* (the packets the last call returned for sending) and settled, a         *)
(* history.                                                                *)
(***************************************************************************)
EXTENDS DtlsRetransmit

CONSTANTS
  MaxEpoch,        \* u16::MAX
  MaxSequence,     \* DTLS13_MAX_SEQUENCE, 2^48 - 1
  InitialTimeout,  \* dtls_retransmit_initial_timeout_ms, 1000 by default
  MaxAttempts,     \* dtls_max_retransmit_attempts, 4 by default
  FlightTimeout,   \* dtls13_active_flight_timeout_ms, 10000 by default
  MaxFlight        \* bound: records in one flight

\* What the store knows a record by (parse_dtls_packet_key).
RecordKeys == (0 .. MaxEpoch) \X (0 .. MaxSequence)

ASSUME FlightAssumption ==
  /\ MaxEpoch \in Nat /\ MaxSequence \in Nat
  /\ Keys = RecordKeys
  /\ MaxFlight \in Nat \ {0}
  \* the setters clamp all three to at least 1
  /\ InitialTimeout \in 1 .. MaxTime /\ InitialTimeout \in InitialTimeouts
  /\ MaxAttempts \in Nat \ {0} /\ MaxAttempts \in AttemptLimits
  /\ FlightTimeout \in Nat \ {0}

NotStarted == -1

VARIABLES
  epoch,        \* dtls13_outbound_epoch
  sequence,     \* dtls13_outbound_sequence, the next number to seal
  flight,       \* dtls13_active_flight, the keys of its records
  startedAt,    \* dtls13_active_flight_started_at_ms, or NotStarted
  failed,       \* dtls13_active_flight_failed
  rekeyed,      \* history: new keys came after the active flight started
  restarted     \* history: numbers that were in use have started over

sealVars == <<epoch, sequence>>
flightVars == <<flight, startedAt, failed>>
vars == <<sealVars, flightVars, retransmitVars, rekeyed, restarted>>

TypeOK ==
  /\ StoreTypeOK
  /\ epoch \in 0 .. MaxEpoch
  /\ sequence \in 0 .. MaxSequence + 1
  /\ flight \in SUBSET Keys
  /\ startedAt \in {NotStarted} \cup (0 .. now)
  /\ failed \in BOOLEAN
  /\ rekeyed \in BOOLEAN /\ restarted \in BOOLEAN

Init ==
  /\ StoreInit
  /\ epoch = 0 /\ sequence = 0
  /\ flight = {} /\ startedAt = NotStarted /\ failed = FALSE
  /\ rekeyed = FALSE /\ restarted = FALSE

-----------------------------------------------------------------------------
(***************************************************************************)
(* Sealing.                                                                *)
(***************************************************************************)

\* The keys of the next n records, as far as the sequence numbers reach: a
\* call that runs out of numbers keeps what it has sealed so far.
NextKeys(n) ==
  {epoch} \X {s \in sequence .. sequence + n - 1 : s <= MaxSequence}

\* The sealing of a record at the outbound epoch and sequence.
Seal(ks) ==
  /\ sequence' = sequence + Cardinality(ks)
  /\ UNCHANGED epoch

\* The store after the next n records: one after the other is tracked, in the
\* order of their numbers.
StoreAfter(n) ==
  LET after[i \in 0 .. n] ==
        IF i = 0 THEN records
        ELSE Tracked(after[i - 1], <<epoch, sequence + i - 1>>, InitialTimeout, now)
  IN  after[n]

TrackAll(ks) ==
  /\ records' = StoreAfter(Cardinality(ks))
  /\ settled' = settled \ ks

\* seal_dtls13_record: not tracked, so never sent again.
SealRecord ==
  /\ sequence <= MaxSequence
  /\ Seal(NextKeys(1))
  /\ returned' = NextKeys(1)
  /\ UNCHANGED <<now, flightVars, records, rekeyed, restarted, settled>>

\* seal_dtls13_record_for_flight, and seal_dtls13_record_flight for n > 1
SealForFlight(n) ==
  /\ sequence <= MaxSequence
  /\ Seal(NextKeys(n))
  /\ TrackAll(NextKeys(n))
  /\ returned' = NextKeys(n)
  /\ UNCHANGED <<now, flightVars, rekeyed, restarted>>

-----------------------------------------------------------------------------
(***************************************************************************)
(* The active flight.                                                      *)
(***************************************************************************)

\* is_dtls13_active_flight_complete: no record of it is owed any more.
Complete == flight \cap KeysOf(Unacknowledged(records)) = {}

\* dtls13_active_flight_missing_tracked_records
Missing(rs) == ~(flight \subseteq KeysOf(rs))

\* dtls13_active_flight_has_timed_out
TimedOut == startedAt # NotStarted /\ now - startedAt > FlightTimeout

EndFlight(asFailed) ==
  /\ flight' = {}
  /\ startedAt' = NotStarted
  /\ failed' = asFailed

\* start_dtls13_active_flight
StartFlight(n) ==
  /\ Complete
  /\ sequence + n - 1 <= MaxSequence
  /\ Seal(NextKeys(n))
  /\ TrackAll(NextKeys(n))
  /\ flight' = NextKeys(n)
  /\ startedAt' = now
  /\ failed' = FALSE
  /\ rekeyed' = FALSE
  /\ returned' = NextKeys(n)
  /\ UNCHANGED <<now, restarted>>

\* ... when the sequence numbers run out on the way: the call fails, the
\* records it has sealed stay tracked and are not part of any flight.
StartFlightExhausted(n) ==
  /\ Complete
  /\ sequence <= MaxSequence
  /\ sequence + n - 1 > MaxSequence
  /\ Seal(NextKeys(n))
  /\ TrackAll(NextKeys(n))
  /\ returned' = {}
  /\ UNCHANGED <<now, flightVars, rekeyed, restarted>>

\* Faulty variant of AbortEffects: the flight itself is not cleared.
AbortEffectsKept ==
  /\ records' = Pruned(AcknowledgedAll(records, flight))
  /\ UNCHANGED flightVars

\* What abort_dtls13_active_flight does to a flight in progress.
AbortEffects ==
  /\ records' = Pruned(AcknowledgedAll(records, flight))
  /\ EndFlight(FALSE)

Abort ==
  /\ flight # {}
  /\ AbortEffects
  /\ returned' = {}
  /\ UNCHANGED <<now, sealVars, rekeyed, restarted, settled>>

(***************************************************************************)
(* poll_dtls13_active_flight_due_packets.  The outcomes in their order: a  *)
(* flight that is over time is aborted, one with a record missing from the *)
(* store has failed, before or after this poll drops the exhausted ones;   *)
(* else the due packets of the flight are returned.                        *)
(***************************************************************************)
PollTimedOut ==
  /\ flight # {}
  /\ TimedOut
  /\ AbortEffects
  /\ returned' = {}
  /\ UNCHANGED <<now, sealVars, rekeyed, restarted, settled>>

PollMissing ==
  /\ flight # {}
  /\ ~TimedOut
  /\ Missing(records)
  /\ EndFlight(TRUE)
  /\ returned' = {}
  /\ UNCHANGED <<now, sealVars, records, rekeyed, restarted, settled>>

PollExhausted ==
  /\ flight # {}
  /\ ~TimedOut
  /\ ~Missing(records)
  /\ Missing(Collected(records, MaxAttempts, now))
  /\ records' = Collected(records, MaxAttempts, now)
  /\ EndFlight(TRUE)
  /\ returned' = {}
  /\ UNCHANGED <<now, sealVars, rekeyed, restarted, settled>>

PollDue ==
  /\ flight # {}
  /\ ~TimedOut
  /\ ~Missing(records)
  /\ ~Missing(Collected(records, MaxAttempts, now))
  /\ records' = Collected(records, MaxAttempts, now)
  /\ returned' = flight \cap KeysOf(DueNow(records, MaxAttempts, now))
  /\ UNCHANGED <<now, sealVars, flightVars, rekeyed, restarted, settled>>

Poll == PollTimedOut \/ PollMissing \/ PollExhausted \/ PollDue

\* Faulty variant of AcknowledgeFlight: one acknowledged record is enough.
AcknowledgeFlightAny(acked) ==
  /\ flight # {}
  /\ records' = Pruned(AcknowledgedAll(records, acked \cap flight))
  /\ settled' = settled \cup (acked \cap flight)
  /\ IF acked # {} THEN EndFlight(FALSE) ELSE UNCHANGED flightVars
  /\ returned' = {}
  /\ UNCHANGED <<now, sealVars, rekeyed, restarted>>

(***************************************************************************)
(* acknowledge_dtls13_active_flight_packets, given the packets with keys   *)
(* acked: they are marked, everything acknowledged is pruned, and a flight *)
(* that is complete then is over.                                          *)
(***************************************************************************)
AcknowledgeFlight(acked) ==
  /\ flight # {}
  /\ records' = Pruned(AcknowledgedAll(records, acked \cap flight))
  /\ settled' = settled \cup (acked \cap flight)
  /\ IF flight \cap KeysOf(records') = {}
     THEN EndFlight(FALSE)
     ELSE UNCHANGED flightVars
  /\ returned' = {}
  /\ UNCHANGED <<now, sealVars, rekeyed, restarted>>

\* ... when a packet after these cannot be parsed: they stay marked, and
\* nothing else happens.
AcknowledgeFlightMalformed(acked) ==
  /\ flight # {} /\ acked # {}
  /\ records' = AcknowledgedAll(records, acked \cap flight)
  /\ settled' = settled \cup (acked \cap flight)
  /\ returned' = {}
  /\ UNCHANGED <<now, sealVars, flightVars, rekeyed, restarted>>

-----------------------------------------------------------------------------
(***************************************************************************)
(* Calls on the shared store that know nothing of the flight.              *)
(***************************************************************************)

\* mark_dtls12_record_acked, mark_dtls13_record_acked_from_packet
MarkRecordAcked(k) ==
  /\ MarkAcked(k)
  /\ UNCHANGED <<sealVars, flightVars, rekeyed, restarted>>

\* prune_dtls12_acked_records
PruneAckedRecords ==
  /\ records' = Pruned(records)
  /\ returned' = {}
  /\ UNCHANGED <<now, sealVars, flightVars, rekeyed, restarted, settled>>

\* poll_dtls12_due_retransmit_packets
PollStore ==
  /\ CollectDue(MaxAttempts)
  /\ UNCHANGED <<sealVars, flightVars, rekeyed, restarted>>

-----------------------------------------------------------------------------
(***************************************************************************)
(* Epochs and keys.                                                        *)
(***************************************************************************)

\* Faulty variant of SetOutboundEpoch: it does not wait for the flight.
SetOutboundEpochAnytime(e) ==
  /\ e >= epoch
  /\ epoch' = e
  /\ sequence' = 0
  /\ returned' = {}
  /\ UNCHANGED <<now, flightVars, records, rekeyed, restarted, settled>>

\* set_dtls13_outbound_epoch takes the current epoch as well as a later one.
SetOutboundEpoch(e) ==
  /\ Complete
  /\ e >= epoch
  /\ epoch' = e
  /\ sequence' = 0
  /\ restarted' = (restarted \/ e = epoch)
  /\ returned' = {}
  /\ UNCHANGED <<now, flightVars, records, rekeyed, settled>>

\* advance_dtls13_outbound_epoch
AdvanceOutboundEpoch ==
  /\ Complete
  /\ epoch < MaxEpoch
  /\ epoch' = epoch + 1
  /\ sequence' = 0
  /\ returned' = {}
  /\ UNCHANGED <<now, flightVars, records, rekeyed, restarted, settled>>

\* sync_dtls13_traffic_keys_from_record_protection_state, called whenever
\* the handshake or a key update installs record keys: the numbers start
\* over under the new keys, whatever the flight is doing.
InstallRecordKeys ==
  /\ epoch' = 0
  /\ sequence' = 0
  /\ rekeyed' = TRUE /\ restarted' = TRUE
  /\ returned' = {}
  /\ UNCHANGED <<now, flightVars, records, settled>>

\* A millisecond passes.
Tick ==
  /\ TimePasses
  /\ UNCHANGED <<sealVars, flightVars, rekeyed, restarted>>

-----------------------------------------------------------------------------
(***************************************************************************)
(* An embedder that keeps to the active-flight calls, and any embedder.    *)
(***************************************************************************)
FlightCalls ==
  \/ SealRecord
  \/ \E n \in 1 .. MaxFlight : StartFlight(n) \/ StartFlightExhausted(n)
  \/ Poll
  \/ \E acked \in SUBSET flight :
       AcknowledgeFlight(acked) \/ AcknowledgeFlightMalformed(acked)
  \/ Abort
  \/ \E e \in 0 .. MaxEpoch : SetOutboundEpoch(e)
  \/ AdvanceOutboundEpoch

StoreCalls ==
  \/ \E n \in 1 .. MaxFlight : SealForFlight(n)
  \/ \E k \in Keys : MarkRecordAcked(k)
  \/ PruneAckedRecords
  \/ PollStore

Next == FlightCalls \/ StoreCalls \/ InstallRecordKeys \/ Tick
Spec == Init /\ [][Next]_vars

NextFlightOnly == FlightCalls \/ Tick

\* The embedder's timer calls poll again and again, and time passes.
SpecFlightOnly ==
  Init /\ [][NextFlightOnly]_vars /\ WF_vars(Poll) /\ WF_vars(Tick)

-----------------------------------------------------------------------------
(***************************************************************************)
(* Properties.                                                             *)
(***************************************************************************)
Owed == KeysOf(Unacknowledged(records))

(***************************************************************************)
(* A record of the flight that the peer still owes an answer for was       *)
(* sealed in the outbound epoch, below the next number, unless the keys    *)
(* were replaced under it: the epoch calls wait for the flight, and no     *)
(* other call moves the numbers back.                                      *)
(***************************************************************************)
OwedInOutboundEpoch ==
  ~rekeyed => \A k \in flight \cap Owed : k[1] = epoch /\ k[2] < sequence

(***************************************************************************)
(* No poll hands out a packet that the peer has acknowledged.              *)
(***************************************************************************)
NoResendAfterAck ==
  [][Poll \/ PollStore => returned' \cap settled = {}]_vars

(***************************************************************************)
(* The store has room for the flight, and no number has been used twice.   *)
(* Without the first the flight evicts its own records.  Without the       *)
(* second a number of it may be in the store already: such a record keeps  *)
(* its old place, and the records behind it can push it out.               *)
(***************************************************************************)
FlightFits == ~restarted /\ Cardinality(flight) <= Capacity

(***************************************************************************)
(* A flight that acknowledge_dtls13_active_flight_packets ends was         *)
(* acknowledged in full, record by record, by this call or earlier ones,   *)
(* and not because the store has lost a record of it.                      *)
(***************************************************************************)
CompletionIsAcknowledged ==
  [][\A acked \in SUBSET flight :
       FlightFits /\ AcknowledgeFlight(acked) /\ flight' = {}
         => flight \subseteq settled']_vars

(***************************************************************************)
(* A flight that times out has had its whole budget of time, and one that  *)
(* is given up for its attempts has had a record resent MaxAttempts times  *)
(* or was acknowledged in part.                                            *)
(***************************************************************************)
GivenUpLate ==
  [][FlightFits /\ flight # {} /\ flight' = {}
     /\ ~(\E acked \in SUBSET flight : AcknowledgeFlight(acked))
       => \/ Abort
          \/ now - startedAt > FlightTimeout
          \/ flight \cap settled # {}
          \/ \E r \in records : r.key \in flight /\ r.count >= MaxAttempts]_vars

(***************************************************************************)
(* Every active flight ends, acknowledged, aborted, failed or timed out:   *)
(* one that was started at s is over some time later, unless the clock     *)
(* ends before its timeout.                                                *)
(***************************************************************************)
FlightEnds ==
  \A s \in 0 .. MaxTime - FlightTimeout - 1 :
    startedAt = s ~> startedAt # s

(***************************************************************************)
(* "Reports whether the most recent active DTLS1.3 flight failed due to    *)
(* retry budget exhaustion", says dtls13_active_flight_failed: the flag is *)
(* raised only by a flight one of whose records has used up its attempts.  *)
(***************************************************************************)
FailedMeansExhausted ==
  [][~failed /\ failed' =>
       \E r \in records : r.key \in flight /\ r.count >= MaxAttempts]_vars

(***************************************************************************)
(* "Sequence numbers: Monotonic per direction", and "dtls13 outbound epoch *)
(* must be monotonic": as long as the keys stay in force, the epoch and    *)
(* number the next record is sealed with never move back.                  *)
(***************************************************************************)
NumbersMonotonic ==
  [][epoch' > epoch \/ (epoch' = epoch /\ sequence' >= sequence)]_vars
=============================================================================
