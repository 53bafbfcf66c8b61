---------------------------- MODULE DtlsDelivery ----------------------------
(***************************************************************************)
(* What the receive side of a DTLS 1.3 connection promises, with no window *)
(* and no tracker: a receiver that remembers every number it has taken and *)
(* answers each record from that history.  DtlsReceive implements it with  *)
(* two bitmaps.                                                            *)
(***************************************************************************)
EXTENDS Integers

CONSTANTS WindowSize, MaxEpoch, MaxSequence

Epochs == 0 .. MaxEpoch
Sequences == 0 .. MaxSequence

VARIABLES
  keysInstalled,
  taken,        \* the numbers taken in each epoch, under the keys in force
  deliveries,   \* how often each record's plaintext was returned
  answer        \* the last record opened and the answer to it

vars == <<keysInstalled, taken, deliveries, answer>>

\* The two newest epochs something was taken in: at most one is newer.
InUse == {e \in Epochs : taken[e] # {}}
Remembered == {e \in InUse : \A f, g \in InUse : f > e /\ g > e => f = g}

\* What a peer may expect of the receiver: (e, s) is new, less than a window
\* behind the newest number of its epoch, and its epoch is the newest yet or
\* one of the two in use.
Expected(e, s) ==
  /\ s \notin taken[e]
  /\ \A x \in taken[e] : x - s < WindowSize
  /\ e \in Remembered \/ \A f \in InUse : e > f

NothingYet ==
  /\ taken = [e \in Epochs |-> {}]
  /\ deliveries = [e \in Epochs |-> [s \in Sequences |-> 0]]
  /\ answer = <<>>

Init == keysInstalled = FALSE /\ NothingYet

InstallKeys == keysInstalled' = TRUE /\ NothingYet'

\* An expected record is taken, and delivered if it is intact.
Take(e, s, intact) ==
  /\ keysInstalled /\ Expected(e, s)
  /\ taken' = [taken EXCEPT ![e] = @ \cup {s}]
  /\ deliveries' = IF intact THEN [deliveries EXCEPT ![e][s] = @ + 1]
                             ELSE deliveries
  /\ answer' = <<e, s, IF intact THEN "plaintext" ELSE "damaged">>
  /\ UNCHANGED keysInstalled

\* Any other is refused, and nothing else happens.
Refuse(e, s) ==
  /\ keysInstalled /\ ~Expected(e, s)
  /\ answer' = <<e, s, "replay">>
  /\ UNCHANGED <<keysInstalled, taken, deliveries>>

Next ==
  \/ InstallKeys
  \/ \E e \in Epochs, s \in Sequences :
       Refuse(e, s) \/ \E intact \in BOOLEAN : Take(e, s, intact)

Spec == Init /\ [][Next]_vars
=============================================================================
