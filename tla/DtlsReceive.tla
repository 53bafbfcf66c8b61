---------------------------- MODULE DtlsReceive ----------------------------
(***************************************************************************)
(* The receive side of a DTLS 1.3 connection: records arrive late, twice,  *)
(* out of order, from any epoch and possibly damaged, and                  *)
(* open_dtls13_aes128gcm_record decides which of them to deliver.          *)
(*                                                                         *)
(* A Connection holds two such receivers that share nothing, one for       *)
(* server records (open_dtls13_record) and one for client records          *)
(* (open_dtls13_client_record); this module is either of them.             *)
(***************************************************************************)
EXTENDS DtlsReplay

CONSTANTS MaxEpoch,      \* u16::MAX in the code
          MaxSequence    \* DTLS_MAX_SEQUENCE, 2^48 - 1 in the code

ASSUME BoundsAssumption == MaxEpoch \in Nat /\ MaxSequence \in Nat

Epochs == 0 .. MaxEpoch
Sequences == 0 .. MaxSequence

VARIABLES
  keysInstalled,   \* the write key and the IV of the peer are there
  inbound,         \* dtls13_inbound_replay_tracker
  marked,          \* history: numbers check_and_mark has taken, by epoch
  deliveries,      \* history: how often each record's plaintext was returned
  answer           \* the last record opened and what the call returned

vars == <<keysInstalled, inbound, marked, deliveries, answer>>

\* Ok, the error of the decryption, the error of the replay check.
Results == {"plaintext", "damaged", "replay"}

TypeOK ==
  /\ keysInstalled \in BOOLEAN
  /\ inbound \in Tracker(Epochs, Sequences)
  /\ marked \in [Epochs -> SUBSET Sequences]
  /\ deliveries \in [Epochs -> [Sequences -> Nat]]
  /\ answer \in {<<>>} \cup Epochs \X Sequences \X Results

NothingMarked == [e \in Epochs |-> {}]
NothingDelivered == [e \in Epochs |-> [s \in Sequences |-> 0]]

Init ==
  /\ keysInstalled = FALSE
  /\ inbound = NewTracker
  /\ marked = NothingMarked
  /\ deliveries = NothingDelivered
  /\ answer = <<>>

(***************************************************************************)
(* New traffic keys start an empty tracker.  Records are counted under the *)
(* keys in force: one sealed under other keys cannot be decrypted and is a *)
(* damaged record from then on.                                            *)
(***************************************************************************)
InstallKeys ==
  /\ keysInstalled' = TRUE
  /\ inbound' = NewTracker
  /\ marked' = NothingMarked
  /\ deliveries' = NothingDelivered
  /\ answer' = <<>>

(***************************************************************************)
(* A well-formed record with header (e, s) is opened.  The replay check    *)
(* comes first and marks the number; decryption comes after it, and only   *)
(* an intact record passes it.                                             *)
(***************************************************************************)
OpenRecord(e, s, intact) ==
  /\ keysInstalled
  /\ Acceptable(inbound, e, s)
  /\ inbound' = Track(inbound, e, s)
  /\ marked' = [marked EXCEPT ![e] = @ \cup {s}]
  /\ deliveries' = IF intact THEN [deliveries EXCEPT ![e][s] = @ + 1]
                             ELSE deliveries
  /\ answer' = <<e, s, IF intact THEN "plaintext" ELSE "damaged">>
  /\ UNCHANGED keysInstalled

\* "dtls replay detected or epoch/sequence is too old"
RefuseReplay(e, s) ==
  /\ keysInstalled
  /\ ~Acceptable(inbound, e, s)
  /\ inbound' = Track(inbound, e, s)
  /\ answer' = <<e, s, "replay">>
  /\ UNCHANGED <<keysInstalled, marked, deliveries>>

Next ==
  \/ InstallKeys
  \/ \E e \in Epochs, s \in Sequences, intact \in BOOLEAN :
       OpenRecord(e, s, intact)
  \/ \E e \in Epochs, s \in Sequences : RefuseReplay(e, s)

Spec == Init /\ [][Next]_vars

-----------------------------------------------------------------------------
(***************************************************************************)
(* Properties.                                                             *)
(***************************************************************************)

\* w is what a window over the numbers taken so far has to be: it knows the
\* newest and, below it, exactly the taken numbers within its width.
Covers(w, taken) ==
  /\ w.initialized <=> taken # {}
  /\ w.initialized =>
       /\ w.latest \in taken
       /\ \A s \in taken : s <= w.latest
       /\ w.bitmap = {d \in Offsets : w.latest - d \in taken}

(***************************************************************************)
(* Each bitmap agrees with the numbers taken in its epoch, however they    *)
(* were shifted, and nothing has been taken in an epoch the tracker has    *)
(* not reached (check_and_mark, promote_epoch).                            *)
(***************************************************************************)
WindowExact ==
  /\ inbound.current # NoEpoch =>
       Covers(inbound.currentWindow, marked[inbound.current])
  /\ inbound.previous # NoEpoch =>
       /\ inbound.previous < inbound.current
       /\ Covers(inbound.previousWindow, marked[inbound.previous])
  /\ \A e \in Epochs : e > inbound.current => marked[e] = {}

(***************************************************************************)
(* A record is delivered at most once under one set of keys, over          *)
(* duplication, reordering and any number of epoch changes.                *)
(***************************************************************************)
AtMostOnce ==
  \A e \in Epochs, s \in Sequences : deliveries[e][s] <= 1

(***************************************************************************)
(* Two bitmaps do the work of a full history: every call answers as the    *)
(* receiver of DtlsDelivery does, which remembers all numbers.  A record   *)
(* that is new and recent enough is taken, intact or not, and every other  *)
(* is refused, over all shifts, promotions and late records.               *)
(***************************************************************************)
Delivery == INSTANCE DtlsDelivery WITH taken <- marked
ImplementsDelivery == Delivery!Spec

(***************************************************************************)
(* What the tracker refuses once it refuses until the keys change: no      *)
(* shift, promotion or late record re-opens a number.                      *)
(***************************************************************************)
RefusalIsFinal ==
  [][InstallKeys \/
     \A e \in Epochs, s \in Sequences :
       ~Acceptable(inbound, e, s) => ~Acceptable(inbound', e, s)]_vars

(***************************************************************************)
(* The documentation of open_dtls13_aes128gcm_record says that the tracker *)
(* is "updated on successful acceptance path": a step that changes it      *)
(* delivers a record, unless it installs keys.                             *)
(***************************************************************************)
UpdatedOnAcceptance ==
  [][inbound' # inbound => InstallKeys \/ deliveries' # deliveries]_vars
=============================================================================
