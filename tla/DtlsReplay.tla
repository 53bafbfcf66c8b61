----------------------------- MODULE DtlsReplay -----------------------------
(***************************************************************************)
(* The anti-replay window of one DTLS epoch (DtlsReplayWindow) and the     *)
(* tracker that keeps the windows of the current and the previous epoch    *)
(* (DtlsEpochReplayTracker), as operators on records.                      *)
(*                                                                         *)
(* The 64-bit bitmap is the set of its set bits: bit d stands for the      *)
(* sequence number latest - d.  Operators that return what a call answers  *)
(* (Fresh, Acceptable) are kept apart from those that return the state it  *)
(* leaves behind (Mark, Track).                                            *)
(***************************************************************************)
EXTENDS Integers

CONSTANT WindowSize      \* bits in the bitmap, 64 in the code

ASSUME WindowSizeAssumption == WindowSize \in Nat \ {0}

Offsets == 0 .. WindowSize - 1

\* An Option<u16> that holds no epoch.
NoEpoch == -1

Window(Seqs) ==
  [initialized : BOOLEAN, latest : Seqs \cup {0}, bitmap : SUBSET Offsets]

NewWindow == [initialized |-> FALSE, latest |-> 0, bitmap |-> {}]

\* Faulty variant of ShiftLeft: one bit short.
ShiftShort(bitmap, shift) == {d \in Offsets : d - shift + 1 \in bitmap}

\* bitmap << shift: bits pushed past the width are lost, all of them when
\* the shift reaches the width.
ShiftLeft(bitmap, shift) == {d \in Offsets : d - shift \in bitmap}

\* Faulty variant of Fresh: the oldest bit of the window is not used.
FreshNarrow(w, s) ==
  \/ ~w.initialized
  \/ s > w.latest
  \/ w.latest - s \in (0 .. WindowSize - 2) \ w.bitmap

\* What check_and_mark answers for sequence number s.
Fresh(w, s) ==
  \/ ~w.initialized
  \/ s > w.latest
  \/ w.latest - s \in Offsets \ w.bitmap

\* The window check_and_mark leaves behind, whatever it answers.
Mark(w, s) ==
  IF ~w.initialized
  THEN [initialized |-> TRUE, latest |-> s, bitmap |-> {0}]
  ELSE IF s > w.latest
  THEN [initialized |-> TRUE, latest |-> s,
        bitmap |-> ShiftLeft(w.bitmap, s - w.latest) \cup {0}]
  ELSE [w EXCEPT !.bitmap = @ \cup (Offsets \cap {w.latest - s})]

(***************************************************************************)
(* The epoch tracker.                                                      *)
(***************************************************************************)
Tracker(Epochs, Seqs) ==
  [current : Epochs \cup {NoEpoch}, currentWindow : Window(Seqs),
   previous : Epochs \cup {NoEpoch}, previousWindow : Window(Seqs)]

NewTracker ==
  [current |-> NoEpoch, currentWindow |-> NewWindow,
   previous |-> NoEpoch, previousWindow |-> NewWindow]

\* Record (e, s) is answered by the window of its epoch; a newer epoch is
\* always welcome, any other is too old.
Acceptable(t, e, s) ==
  \/ t.current = NoEpoch
  \/ e = t.current /\ Fresh(t.currentWindow, s)
  \/ e # t.current /\ e = t.previous /\ Fresh(t.previousWindow, s)
  \/ e > t.current /\ e # t.previous

\* Faulty variants of Promote: the old window is emptied, or not kept at all.
PromoteEmptied(t, e) ==
  [current |-> e, currentWindow |-> NewWindow,
   previous |-> t.current, previousWindow |-> NewWindow]
PromoteDropped(t, e) ==
  [current |-> e, currentWindow |-> NewWindow,
   previous |-> NoEpoch, previousWindow |-> NewWindow]

\* promote_epoch: the current epoch becomes the previous one.
Promote(t, e) ==
  [current |-> e, currentWindow |-> NewWindow,
   previous |-> t.current, previousWindow |-> t.currentWindow]

\* The tracker check_and_mark leaves behind.
Track(t, e, s) ==
  IF t.current = NoEpoch
  THEN [current |-> e, currentWindow |-> Mark(NewWindow, s),
        previous |-> t.previous, previousWindow |-> t.previousWindow]
  ELSE IF e = t.current
  THEN [t EXCEPT !.currentWindow = Mark(@, s)]
  ELSE IF e = t.previous
  THEN [t EXCEPT !.previousWindow = Mark(@, s)]
  ELSE IF e > t.current
  THEN [Promote(t, e) EXCEPT !.currentWindow = Mark(@, s)]
  ELSE t
=============================================================================
