------------------------- MODULE DtlsReceive_proofs -------------------------
(***************************************************************************)
(* Proofs about DtlsReceive, for every window width, number of epochs and  *)
(* number of sequence numbers.                                             *)
(***************************************************************************)
EXTENDS DtlsReceive, TLAPS

(***************************************************************************)
(* Marking keeps a window a window (DtlsReplayWindow::check_and_mark).     *)
(***************************************************************************)
LEMMA MarkType ==
  ASSUME NEW w \in Window(Sequences), NEW s \in Sequences
  PROVE  Mark(w, s) \in Window(Sequences)
<1> USE BoundsAssumption DEF Sequences
<1>1. CASE ~w.initialized
  BY <1>1, WindowSizeAssumption DEF Mark, Window, Offsets
<1>2. CASE w.initialized /\ s > w.latest
  <2>1. ShiftLeft(w.bitmap, s - w.latest) \cup {0} \in SUBSET Offsets
    BY WindowSizeAssumption DEF ShiftLeft, Offsets
  <2>2. Mark(w, s) = [initialized |-> TRUE, latest |-> s,
                      bitmap |-> ShiftLeft(w.bitmap, s - w.latest) \cup {0}]
    BY <1>2 DEF Mark
  <2> QED  BY <2>1, <2>2 DEF Window
<1>3. CASE w.initialized /\ ~(s > w.latest)
  BY <1>3, WindowSizeAssumption DEF Mark, Window, Offsets
<1> QED  BY <1>1, <1>2, <1>3 DEF Window

(***************************************************************************)
(* An empty window covers nothing taken.                                   *)
(***************************************************************************)
LEMMA NewWindowFacts ==
  /\ NewWindow \in Window(Sequences)
  /\ Covers(NewWindow, {})
BY BoundsAssumption DEF NewWindow, Window, Covers, Sequences, Offsets

(***************************************************************************)
(* Marking a number adds it to what the window covers, also when the       *)
(* number is too old to have a bit.                                        *)
(***************************************************************************)
LEMMA MarkCovers ==
  ASSUME NEW w \in Window(Sequences), NEW s \in Sequences,
         NEW taken \in SUBSET Sequences, Covers(w, taken)
  PROVE  Covers(Mark(w, s), taken \cup {s})
<1> USE WindowSizeAssumption, BoundsAssumption DEF Sequences, Offsets
<1> DEFINE m == Mark(w, s)
<1>1. CASE ~w.initialized
  <2>1. m = [initialized |-> TRUE, latest |-> s, bitmap |-> {0}]
    BY <1>1 DEF Mark
  <2>2. taken = {}
    BY <1>1 DEF Covers
  <2> QED  BY <2>1, <2>2 DEF Covers
<1>2. CASE w.initialized /\ s > w.latest
  <2>1. /\ m.initialized
        /\ m.latest = s
        /\ m.bitmap = ShiftLeft(w.bitmap, s - w.latest) \cup {0}
    BY <1>2 DEF Mark, Window
  <2>2. \A x \in taken \cup {s} : x <= s
    BY <1>2 DEF Covers, Window
  <2>3. ASSUME NEW d \in Offsets
        PROVE  d \in m.bitmap <=> s - d \in taken \cup {s}
    BY <1>2, <2>1 DEF Covers, ShiftLeft, Window
  <2>4. m.bitmap = {d \in Offsets : s - d \in taken \cup {s}}
    BY <2>1, <2>3 DEF ShiftLeft
  <2> QED  BY <2>1, <2>2, <2>4 DEF Covers
<1>3. CASE w.initialized /\ s <= w.latest
  <2>1. /\ m.initialized
        /\ m.latest = w.latest
        /\ m.bitmap = w.bitmap \cup (Offsets \cap {w.latest - s})
    BY <1>3 DEF Mark, Window
  <2>2. \A x \in taken \cup {s} : x <= w.latest
    BY <1>3 DEF Covers, Window
  <2>3. m.bitmap = {d \in Offsets : w.latest - d \in taken \cup {s}}
    BY <1>3, <2>1 DEF Covers, Window
  <2> QED  BY <1>3, <2>1, <2>2, <2>3 DEF Covers
<1> QED  BY <1>1, <1>2, <1>3 DEF Window

(***************************************************************************)
(* A refused number leaves the window as it was, and a window refuses      *)
(* whatever it covers.                                                     *)
(***************************************************************************)
LEMMA RefusedLeavesWindow ==
  ASSUME NEW w \in Window(Sequences), NEW s \in Sequences, ~Fresh(w, s)
  PROVE  Mark(w, s) = w
<1> USE BoundsAssumption DEF Sequences
<1>1. w.initialized /\ s <= w.latest /\ w.latest - s \notin Offsets \ w.bitmap
  BY DEF Fresh, Window
<1>2. w.bitmap \cup (Offsets \cap {w.latest - s}) = w.bitmap
  BY <1>1
<1> QED  BY <1>1, <1>2 DEF Mark, Window

LEMMA CoveredIsRefused ==
  ASSUME NEW w \in Window(Sequences), NEW taken \in SUBSET Sequences,
         Covers(w, taken), NEW s \in taken
  PROVE  ~Fresh(w, s)
BY WindowSizeAssumption, BoundsAssumption
   DEF Covers, Fresh, Window, Offsets, Sequences

(***************************************************************************)
(* Marking another number never re-opens a refused one: a bit that is set  *)
(* stays set or leaves the window at its old end.                          *)
(***************************************************************************)
LEMMA MarkKeepsRefusal ==
  ASSUME NEW w \in Window(Sequences), NEW s \in Sequences,
         NEW x \in Sequences, ~Fresh(w, s)
  PROVE  ~Fresh(Mark(w, x), s)
<1> USE BoundsAssumption DEF Sequences
<1> USE WindowSizeAssumption DEF Offsets
<1>1. w.initialized /\ s <= w.latest /\ w.latest - s \notin Offsets \ w.bitmap
  BY DEF Fresh, Window
<1>2. CASE x > w.latest
  <2>1. /\ Mark(w, x).initialized
        /\ Mark(w, x).latest = x
        /\ Mark(w, x).bitmap = ShiftLeft(w.bitmap, x - w.latest) \cup {0}
    BY <1>1, <1>2 DEF Mark, Window
  <2>2. x - s \in Offsets => x - s \in ShiftLeft(w.bitmap, x - w.latest)
    BY <1>1, <1>2 DEF ShiftLeft, Window
  <2> QED  BY <1>1, <1>2, <2>1, <2>2 DEF Fresh, Window
<1>3. CASE x <= w.latest
  <2>1. /\ Mark(w, x).initialized
        /\ Mark(w, x).latest = w.latest
        /\ w.bitmap \subseteq Mark(w, x).bitmap
    BY <1>1, <1>3 DEF Mark, Window
  <2> QED  BY <1>1, <2>1 DEF Fresh, Window
<1> QED  BY <1>2, <1>3 DEF Window

(***************************************************************************)
(* Type correctness.                                                       *)
(***************************************************************************)
LEMMA TrackType ==
  ASSUME NEW t \in Tracker(Epochs, Sequences),
         NEW e \in Epochs, NEW s \in Sequences
  PROVE  Track(t, e, s) \in Tracker(Epochs, Sequences)
<1>1. /\ NewWindow \in Window(Sequences)
      /\ Mark(NewWindow, s) \in Window(Sequences)
      /\ Mark(t.currentWindow, s) \in Window(Sequences)
      /\ Mark(t.previousWindow, s) \in Window(Sequences)
  BY NewWindowFacts, MarkType DEF Tracker
<1> QED  BY <1>1 DEF Track, Tracker, Promote

(***************************************************************************)
(* Every reachable state is well typed: no window, tracker or history      *)
(* leaves its domain, whatever is opened.                                  *)
(***************************************************************************)
THEOREM TypeCorrect == Spec => []TypeOK
<1>1. Init => TypeOK
  <2>1. NewTracker \in Tracker(Epochs, Sequences)
    BY NewWindowFacts DEF NewTracker, Tracker
  <2>2. /\ NothingMarked \in [Epochs -> SUBSET Sequences]
        /\ NothingDelivered \in [Epochs -> [Sequences -> Nat]]
    BY DEF NothingMarked, NothingDelivered
  <2> QED  BY <2>1, <2>2 DEF Init, TypeOK
<1>2. TypeOK /\ [Next]_vars => TypeOK'
  <2> SUFFICES ASSUME TypeOK, [Next]_vars PROVE TypeOK'
    OBVIOUS
  <2>1. CASE InstallKeys
    BY <2>1, NewWindowFacts DEF InstallKeys, TypeOK, NewTracker, Tracker,
                                NothingMarked, NothingDelivered
  <2>2. ASSUME NEW e \in Epochs, NEW s \in Sequences, NEW intact \in BOOLEAN,
               OpenRecord(e, s, intact)
        PROVE  TypeOK'
    <3>1. inbound' \in Tracker(Epochs, Sequences)
      BY <2>2, TrackType DEF OpenRecord, TypeOK
    <3>2. marked' \in [Epochs -> SUBSET Sequences]
      BY <2>2 DEF OpenRecord, TypeOK
    <3>3. deliveries' \in [Epochs -> [Sequences -> Nat]]
      BY <2>2 DEF OpenRecord, TypeOK
    <3>4. answer' \in Epochs \X Sequences \X Results
      BY <2>2 DEF OpenRecord, Results
    <3> QED  BY <2>2, <3>1, <3>2, <3>3, <3>4 DEF OpenRecord, TypeOK
  <2>3. ASSUME NEW e \in Epochs, NEW s \in Sequences, RefuseReplay(e, s)
        PROVE  TypeOK'
    BY <2>3, TrackType DEF RefuseReplay, TypeOK, Results
  <2>4. CASE UNCHANGED vars
    BY <2>4 DEF vars, TypeOK
  <2> QED  BY <2>1, <2>2, <2>3, <2>4 DEF Next
<1> QED  BY <1>1, <1>2, PTL DEF Spec

(***************************************************************************)
(* A refused record leaves the tracker as it was.                          *)
(***************************************************************************)
LEMMA RefusedLeavesTracker ==
  ASSUME NEW t \in Tracker(Epochs, Sequences),
         NEW e \in Epochs, NEW s \in Sequences, ~Acceptable(t, e, s)
  PROVE  Track(t, e, s) = t
<1>1. /\ t.currentWindow \in Window(Sequences)
      /\ t.previousWindow \in Window(Sequences)
  BY DEF Tracker
<1>2. t.current # NoEpoch
  BY DEF Acceptable
<1>3. CASE e = t.current
  <2>1. Mark(t.currentWindow, s) = t.currentWindow
    BY <1>1, <1>3, RefusedLeavesWindow DEF Acceptable
  <2> QED  BY <1>2, <1>3, <2>1 DEF Track, Tracker
<1>4. CASE e # t.current /\ e = t.previous
  <2>1. Mark(t.previousWindow, s) = t.previousWindow
    BY <1>1, <1>4, RefusedLeavesWindow DEF Acceptable
  <2> QED  BY <1>2, <1>4, <2>1 DEF Track, Tracker
<1>5. CASE e # t.current /\ e # t.previous
  BY <1>2, <1>5 DEF Track, Acceptable
<1> QED  BY <1>3, <1>4, <1>5

(***************************************************************************)
(* Taking a record keeps the windows exact.                                *)
(***************************************************************************)
LEMMA TrackExact ==
  ASSUME TypeOK, WindowExact, NEW e \in Epochs, NEW s \in Sequences,
         Acceptable(inbound, e, s),
         inbound' = Track(inbound, e, s),
         marked' = [marked EXCEPT ![e] = @ \cup {s}]
  PROVE  WindowExact'
<1> DEFINE t == inbound
<1>a. /\ t \in Tracker(Epochs, Sequences)
      /\ marked \in [Epochs -> SUBSET Sequences]
      /\ t.currentWindow \in Window(Sequences)
      /\ t.previousWindow \in Window(Sequences)
      /\ t.current \in Epochs \cup {NoEpoch}
      /\ t.previous \in Epochs \cup {NoEpoch}
  BY DEF TypeOK, Tracker
<1>b. Epochs \subseteq Nat /\ NoEpoch = -1
  BY BoundsAssumption DEF Epochs, NoEpoch
<1>c. /\ marked'[e] = marked[e] \cup {s}
      /\ \A f \in Epochs : f # e => marked'[f] = marked[f]
  BY <1>a
<1>1. CASE t.current = NoEpoch
  <2>1. /\ inbound'.current = e
        /\ inbound'.currentWindow = Mark(NewWindow, s)
        /\ inbound'.previous = t.previous
    BY <1>a, <1>1 DEF Track, Tracker
  <2>2. marked[e] = {} /\ t.previous = NoEpoch
    BY <1>a, <1>b, <1>1 DEF WindowExact
  <2>3. Covers(Mark(NewWindow, s), marked'[e])
    BY <1>c, <2>2, NewWindowFacts, MarkCovers
  <2>4. \A f \in Epochs : f > e => marked'[f] = {}
    BY <1>b, <1>c, <1>1 DEF WindowExact
  <2> QED  BY <2>1, <2>2, <2>3, <2>4 DEF WindowExact
<1>2. CASE t.current # NoEpoch /\ e = t.current
  <2>1. /\ inbound'.current = e
        /\ inbound'.currentWindow = Mark(t.currentWindow, s)
        /\ inbound'.previous = t.previous
        /\ inbound'.previousWindow = t.previousWindow
    BY <1>a, <1>2 DEF Track, Tracker
  <2>2. Covers(Mark(t.currentWindow, s), marked'[e])
    BY <1>a, <1>c, <1>2, MarkCovers DEF WindowExact
  <2>3. t.previous # NoEpoch => /\ t.previous < e
                                /\ Covers(t.previousWindow, marked'[t.previous])
    BY <1>a, <1>b, <1>c, <1>2 DEF WindowExact
  <2>4. \A f \in Epochs : f > e => marked'[f] = {}
    BY <1>b, <1>c, <1>2 DEF WindowExact
  <2> QED  BY <2>1, <2>2, <2>3, <2>4 DEF WindowExact
<1>3. CASE t.current # NoEpoch /\ e # t.current /\ e = t.previous
  <2>1. /\ inbound'.current = t.current
        /\ inbound'.currentWindow = t.currentWindow
        /\ inbound'.previous = e
        /\ inbound'.previousWindow = Mark(t.previousWindow, s)
    BY <1>a, <1>3 DEF Track, Tracker
  <2>2. e # NoEpoch
    BY <1>b
  <2>3. e < t.current /\ Covers(Mark(t.previousWindow, s), marked'[e])
    BY <1>a, <1>c, <1>3, <2>2, MarkCovers DEF WindowExact
  <2>4. Covers(t.currentWindow, marked'[t.current])
    BY <1>a, <1>c, <1>3 DEF WindowExact
  <2>5. \A f \in Epochs : f > t.current => marked'[f] = {}
    BY <1>a, <1>b, <1>c, <1>3, <2>3 DEF WindowExact
  <2> QED  BY <2>1, <2>3, <2>4, <2>5 DEF WindowExact
<1>4. CASE t.current # NoEpoch /\ e # t.current /\ e # t.previous
  <2>1. e > t.current
    BY <1>4 DEF Acceptable
  <2>2. /\ inbound'.current = e
        /\ inbound'.currentWindow = Mark(NewWindow, s)
        /\ inbound'.previous = t.current
        /\ inbound'.previousWindow = t.currentWindow
    BY <1>a, <1>4, <2>1 DEF Track, Promote, Tracker
  <2>3. marked[e] = {}
    BY <2>1 DEF WindowExact
  <2>4. Covers(Mark(NewWindow, s), marked'[e])
    BY <1>c, <2>3, NewWindowFacts, MarkCovers
  <2>5. Covers(t.currentWindow, marked'[t.current])
    BY <1>a, <1>c, <1>4 DEF WindowExact
  <2>6. ASSUME NEW f \in Epochs, f > e PROVE marked'[f] = {}
    <3>1. f # e /\ f > t.current
      <4>1. e \in Int /\ f \in Int /\ t.current \in Int
        BY <1>a, <1>b
      <4> QED  BY <2>1, <2>6, <4>1
    <3> QED  BY <1>c, <3>1 DEF WindowExact
  <2> QED  BY <2>1, <2>2, <2>4, <2>5, <2>6 DEF WindowExact
<1> QED  BY <1>1, <1>2, <1>3, <1>4

(***************************************************************************)
(* The windows are exact in every reachable state.                         *)
(***************************************************************************)
THEOREM WindowsStayExact == Spec => []WindowExact
<1>1. Init => WindowExact
  BY DEF Init, WindowExact, NewTracker, NothingMarked
<1>2. TypeOK /\ WindowExact /\ [Next]_vars => WindowExact'
  <2> SUFFICES ASSUME TypeOK, WindowExact, [Next]_vars PROVE WindowExact'
    OBVIOUS
  <2>1. CASE InstallKeys
    BY <2>1 DEF InstallKeys, WindowExact, NewTracker, NothingMarked
  <2>2. ASSUME NEW e \in Epochs, NEW s \in Sequences, NEW intact \in BOOLEAN,
               OpenRecord(e, s, intact)
        PROVE  WindowExact'
    BY <2>2, TrackExact DEF OpenRecord
  <2>3. ASSUME NEW e \in Epochs, NEW s \in Sequences, RefuseReplay(e, s)
        PROVE  WindowExact'
    <3>1. inbound' = inbound /\ marked' = marked
      BY <2>3, RefusedLeavesTracker DEF RefuseReplay, TypeOK
    <3> QED  BY <3>1 DEF WindowExact
  <2>4. CASE UNCHANGED vars
    BY <2>4 DEF vars, WindowExact
  <2> QED  BY <2>1, <2>2, <2>3, <2>4 DEF Next
<1> QED  BY <1>1, <1>2, TypeCorrect, PTL DEF Spec

(***************************************************************************)
(* The tracker takes no number twice.                                      *)
(***************************************************************************)
LEMMA AcceptableIsNew ==
  ASSUME TypeOK, WindowExact, NEW e \in Epochs, NEW s \in Sequences,
         Acceptable(inbound, e, s)
  PROVE  s \notin marked[e]
<1>a. /\ marked[e] \in SUBSET Sequences
      /\ inbound.currentWindow \in Window(Sequences)
      /\ inbound.previousWindow \in Window(Sequences)
      /\ inbound.current \in Epochs \cup {NoEpoch}
  BY DEF TypeOK, Tracker
<1>b. Epochs \subseteq Nat /\ NoEpoch = -1
  BY BoundsAssumption DEF Epochs, NoEpoch
<1>1. CASE e = inbound.current /\ Fresh(inbound.currentWindow, s)
  BY <1>a, <1>b, <1>1, CoveredIsRefused DEF WindowExact
<1>2. CASE e = inbound.previous /\ Fresh(inbound.previousWindow, s)
  BY <1>a, <1>b, <1>2, CoveredIsRefused DEF WindowExact
<1>3. CASE e > inbound.current
  BY <1>3 DEF WindowExact
<1>4. CASE inbound.current = NoEpoch
  BY <1>a, <1>b, <1>4 DEF WindowExact
<1> QED  BY <1>1, <1>2, <1>3, <1>4 DEF Acceptable

(***************************************************************************)
(* AtMostOnce is not inductive: a second delivery is excluded because the  *)
(* first one marked its number, which the exact windows remember or have   *)
(* left behind for good.                                                   *)
(***************************************************************************)
DeliveredIsMarked ==
  \A e \in Epochs, s \in Sequences : deliveries[e][s] > 0 => s \in marked[e]

(***************************************************************************)
(* No record is delivered twice under one set of keys, for any window      *)
(* width, any number of epochs and any order of arrival.                   *)
(***************************************************************************)
THEOREM DeliveredAtMostOnce == Spec => []AtMostOnce
<1> DEFINE IInv == DeliveredIsMarked /\ AtMostOnce
<1>1. Init => IInv
  BY DEF Init, DeliveredIsMarked, AtMostOnce, NothingDelivered
<1>2. TypeOK /\ WindowExact /\ IInv /\ [Next]_vars => IInv'
  <2> SUFFICES ASSUME TypeOK, WindowExact, IInv, [Next]_vars PROVE IInv'
    OBVIOUS
  <2>1. CASE InstallKeys
    BY <2>1 DEF InstallKeys, DeliveredIsMarked, AtMostOnce, NothingDelivered
  <2>2. ASSUME NEW e \in Epochs, NEW s \in Sequences, NEW intact \in BOOLEAN,
               OpenRecord(e, s, intact)
        PROVE  IInv'
    <3>1. s \notin marked[e]
      BY <2>2, AcceptableIsNew DEF OpenRecord
    <3>2. deliveries[e][s] = 0
      BY <3>1 DEF DeliveredIsMarked, TypeOK
    <3>3. ASSUME NEW f \in Epochs, NEW x \in Sequences
          PROVE  /\ deliveries'[f][x] > 0 => x \in marked'[f]
                 /\ deliveries'[f][x] <= 1
      <4>1. CASE f = e /\ x = s
        BY <2>2, <3>2, <4>1 DEF OpenRecord, TypeOK
      <4>2. CASE ~(f = e /\ x = s)
        <5>1. deliveries'[f][x] = deliveries[f][x]
          BY <2>2, <4>2 DEF OpenRecord, TypeOK
        <5>2. marked[f] \subseteq marked'[f]
          BY <2>2 DEF OpenRecord, TypeOK
        <5> QED  BY <5>1, <5>2 DEF DeliveredIsMarked, AtMostOnce
      <4> QED  BY <4>1, <4>2
    <3> QED  BY <3>3 DEF DeliveredIsMarked, AtMostOnce
  <2>3. ASSUME NEW e \in Epochs, NEW s \in Sequences, RefuseReplay(e, s)
        PROVE  IInv'
    BY <2>3 DEF RefuseReplay, DeliveredIsMarked, AtMostOnce
  <2>4. CASE UNCHANGED vars
    BY <2>4 DEF vars, DeliveredIsMarked, AtMostOnce
  <2> QED  BY <2>1, <2>2, <2>3, <2>4 DEF Next
<1> QED  BY <1>1, <1>2, TypeCorrect, WindowsStayExact, PTL DEF Spec

(***************************************************************************)
(* Taking one record re-opens no other.                                    *)
(***************************************************************************)
LEMMA TrackKeepsRefusal ==
  ASSUME TypeOK, WindowExact,
         NEW e \in Epochs, NEW s \in Sequences, Acceptable(inbound, e, s),
         NEW f \in Epochs, NEW x \in Sequences, ~Acceptable(inbound, f, x)
  PROVE  ~Acceptable(Track(inbound, e, s), f, x)
<1> DEFINE t == inbound
           u == Track(t, e, s)
<1>a. /\ t \in Tracker(Epochs, Sequences)
      /\ t.currentWindow \in Window(Sequences)
      /\ t.previousWindow \in Window(Sequences)
      /\ t.current \in Epochs \cup {NoEpoch}
      /\ t.previous \in Epochs \cup {NoEpoch}
  BY DEF TypeOK, Tracker
<1>b. Epochs \subseteq Nat /\ NoEpoch = -1
  BY BoundsAssumption DEF Epochs, NoEpoch
<1>c. t.previous # NoEpoch => t.previous < t.current
  BY DEF WindowExact
<1>d. /\ t.current # NoEpoch
      /\ f <= t.current
      /\ f = t.current => ~Fresh(t.currentWindow, x)
      /\ f # t.current /\ f = t.previous => ~Fresh(t.previousWindow, x)
  <2>1. /\ t.current # NoEpoch
        /\ f = t.current => ~Fresh(t.currentWindow, x)
        /\ f # t.current /\ f = t.previous => ~Fresh(t.previousWindow, x)
        /\ f > t.current => f = t.previous
    BY DEF Acceptable
  <2>2. f \in Nat /\ t.current \in Nat /\ t.previous \in Nat \cup {NoEpoch}
    BY <1>a, <1>b, <2>1
  <2>3. ~(f > t.current)
    BY <1>b, <1>c, <2>1, <2>2
  <2> QED  BY <2>1, <2>2, <2>3
<1>2. CASE e = t.current
  <2>1. u = [t EXCEPT !.currentWindow = Mark(@, s)]
    BY <1>2, <1>d DEF Track
  <2>2. /\ u.current = t.current
        /\ u.previous = t.previous
        /\ u.currentWindow = Mark(t.currentWindow, s)
        /\ u.previousWindow = t.previousWindow
    BY <1>a, <2>1 DEF Tracker
  <2>3. f = t.current => ~Fresh(Mark(t.currentWindow, s), x)
    BY <1>a, <1>d, MarkKeepsRefusal
  <2> QED  BY <1>a, <1>b, <1>d, <2>2, <2>3 DEF Acceptable
<1>3. CASE e # t.current /\ e = t.previous
  <2>1. u = [t EXCEPT !.previousWindow = Mark(@, s)]
    BY <1>3, <1>d DEF Track
  <2>2. /\ u.current = t.current
        /\ u.previous = t.previous
        /\ u.currentWindow = t.currentWindow
        /\ u.previousWindow = Mark(t.previousWindow, s)
    BY <1>a, <2>1 DEF Tracker
  <2>3. f # t.current /\ f = t.previous
          => ~Fresh(Mark(t.previousWindow, s), x)
    BY <1>a, <1>d, MarkKeepsRefusal
  <2> QED  BY <1>a, <1>b, <1>d, <2>2, <2>3 DEF Acceptable
<1>4. CASE e # t.current /\ e # t.previous
  <2>1. e > t.current
    BY <1>4, <1>d DEF Acceptable
  <2>2. u = [Promote(t, e) EXCEPT !.currentWindow = Mark(@, s)]
    BY <1>4, <1>d, <2>1 DEF Track
  <2>3. /\ u.current = e
        /\ u.previous = t.current
        /\ u.previousWindow = t.currentWindow
    BY <2>2 DEF Promote
  <2>4. f # e /\ ~(f > e)
    <3>1. f \in Nat /\ e \in Nat /\ t.current \in Nat
      BY <1>a, <1>b, <1>d
    <3> QED  BY <1>d, <2>1, <3>1
  <2> QED  BY <1>a, <1>b, <1>d, <2>1, <2>3, <2>4 DEF Acceptable
<1> QED  BY <1>2, <1>3, <1>4

(***************************************************************************)
(* A refused number stays refused until new keys are installed.            *)
(***************************************************************************)
THEOREM RefusalStays == Spec => RefusalIsFinal
<1>1. TypeOK /\ WindowExact /\ [Next]_vars
      => [InstallKeys \/
          \A e \in Epochs, s \in Sequences :
            ~Acceptable(inbound, e, s) => ~Acceptable(inbound', e, s)]_vars
  <2> SUFFICES ASSUME TypeOK, WindowExact, [Next]_vars, ~InstallKeys,
                      vars' # vars,
                      NEW f \in Epochs, NEW x \in Sequences,
                      ~Acceptable(inbound, f, x)
               PROVE  ~Acceptable(inbound', f, x)
    OBVIOUS
  <2>1. ASSUME NEW e \in Epochs, NEW s \in Sequences, NEW intact \in BOOLEAN,
               OpenRecord(e, s, intact)
        PROVE  ~Acceptable(inbound', f, x)
    BY <2>1, TrackKeepsRefusal DEF OpenRecord
  <2>2. ASSUME NEW e \in Epochs, NEW s \in Sequences, RefuseReplay(e, s)
        PROVE  ~Acceptable(inbound', f, x)
    BY <2>2, RefusedLeavesTracker DEF RefuseReplay, TypeOK
  <2> QED  BY <2>1, <2>2 DEF Next
<1> QED  BY <1>1, TypeCorrect, WindowsStayExact, PTL DEF Spec, RefusalIsFinal

-----------------------------------------------------------------------------
(***************************************************************************)
(* A window answers what the numbers taken say: a number is fresh when it  *)
(* is new and less than a window behind all of them.                       *)
(***************************************************************************)
LEMMA FreshIs ==
  ASSUME NEW w \in Window(Sequences), NEW taken \in SUBSET Sequences,
         Covers(w, taken), NEW s \in Sequences
  PROVE  Fresh(w, s) <=> s \notin taken /\ \A x \in taken : x - s < WindowSize
<1>a. /\ WindowSize \in Nat /\ s \in Nat /\ w.latest \in Nat
      /\ \A x \in taken : x \in Nat
      /\ \A d \in Int : d \in Offsets <=> 0 <= d /\ d < WindowSize
  BY WindowSizeAssumption, BoundsAssumption DEF Sequences, Offsets, Window
<1>1. CASE ~w.initialized
  BY <1>1 DEF Covers, Fresh
<1>2. CASE w.initialized
  <2>1. /\ w.latest \in taken
        /\ \A x \in taken : x <= w.latest
        /\ w.bitmap = {d \in Offsets : w.latest - d \in taken}
    BY <1>2 DEF Covers
  <2> DEFINE far == w.latest - s
  <2>2. far \in Int /\ w.latest - far = s
    BY <1>a
  <2>3. CASE s > w.latest
    <3>1. s \notin taken
      BY <1>a, <2>1, <2>3
    <3>2. ASSUME NEW x \in taken PROVE x - s < WindowSize
      <4>1. x \in Nat /\ x <= w.latest
        BY <1>a, <2>1
      <4> QED  BY <1>a, <2>3, <4>1
    <3> QED  BY <2>3, <3>1, <3>2 DEF Fresh
  <2>4. CASE ~(s > w.latest)
    <3>1. 0 <= far
      BY <1>a, <2>4
    <3>2. far \in Offsets => (far \in w.bitmap <=> s \in taken)
      BY <2>1, <2>2
    <3>3. far \in Offsets <=> far < WindowSize
      BY <1>a, <2>2, <3>1
    <3>4. far < WindowSize => \A x \in taken : x - s < WindowSize
      <4> SUFFICES ASSUME far < WindowSize, NEW x \in taken
                   PROVE  x - s < WindowSize
        OBVIOUS
      <4>1. x \in Nat /\ x <= w.latest
        BY <1>a, <2>1
      <4> QED  BY <1>a, <4>1
    <3>5. (\A x \in taken : x - s < WindowSize) => far < WindowSize
      BY <2>1
    <3>6. Fresh(w, s) <=> far \in Offsets \ w.bitmap
      BY <1>2, <2>4 DEF Fresh
    <3> HIDE DEF far
    <3> QED  BY <3>2, <3>3, <3>4, <3>5, <3>6
  <2> QED  BY <2>3, <2>4
<1> QED  BY <1>1, <1>2

(***************************************************************************)
(* The tracker has the two newest epochs anything was taken in.            *)
(***************************************************************************)
NewestKept ==
  /\ inbound.current # NoEpoch => marked[inbound.current] # {}
  /\ inbound.previous # NoEpoch => marked[inbound.previous] # {}
  /\ \A e \in Delivery!InUse :
       e = inbound.current \/ e = inbound.previous \/ e < inbound.previous

\* Taking a record keeps it so: a promotion keeps the epoch it replaces.
LEMMA TrackKeepsNewest ==
  ASSUME TypeOK, WindowExact, NewestKept, NEW e \in Epochs, NEW s \in Sequences,
         Acceptable(inbound, e, s),
         inbound' = Track(inbound, e, s),
         marked' = [marked EXCEPT ![e] = @ \cup {s}]
  PROVE  NewestKept'
<1> DEFINE t == inbound
<1>a. /\ t \in Tracker(Epochs, Sequences)
      /\ marked \in [Epochs -> SUBSET Sequences]
      /\ t.current \in Epochs \cup {NoEpoch}
      /\ t.previous \in Epochs \cup {NoEpoch}
  BY DEF TypeOK, Tracker
<1>b. Epochs \subseteq Nat /\ NoEpoch = -1
  BY BoundsAssumption DEF Epochs, NoEpoch
<1>c. /\ marked'[e] # {}
      /\ \A f \in Epochs : f # e => marked'[f] = marked[f]
      /\ \A f \in Epochs : marked[f] # {} => marked'[f] # {}
  BY <1>a
<1>d. Delivery!InUse' = Delivery!InUse \cup {e}
  BY <1>a, <1>c DEF Delivery!InUse, Delivery!Epochs, Epochs
<1>e. \A f \in Delivery!InUse : f \in Epochs /\ marked[f] # {}
  BY DEF Delivery!InUse, Delivery!Epochs, Epochs
<1>1. CASE t.current = NoEpoch
  <2>1. inbound'.current = e /\ inbound'.previous = t.previous
    BY <1>a, <1>1 DEF Track, Tracker
  <2>2. \A f \in Epochs : marked[f] = {}
    <3>1. \A f \in Epochs : f > NoEpoch
      BY <1>b
    <3> QED  BY <1>1, <3>1 DEF WindowExact
  <2>3. t.previous = NoEpoch
    BY <1>a, <1>b, <1>1 DEF WindowExact
  <2>4. Delivery!InUse = {}
    BY <1>e, <2>2
  <2> QED  BY <1>c, <1>d, <2>1, <2>3, <2>4 DEF NewestKept
<1>2. CASE t.current # NoEpoch /\ (e = t.current \/ e = t.previous)
  <2>1. inbound'.current = t.current /\ inbound'.previous = t.previous
    BY <1>a, <1>2 DEF Track, Tracker
  <2>2. /\ marked'[t.current] # {}
        /\ t.previous # NoEpoch => marked'[t.previous] # {}
    BY <1>a, <1>c, <1>2 DEF NewestKept
  <2> QED  BY <1>2, <1>d, <2>1, <2>2 DEF NewestKept
<1>3. CASE t.current # NoEpoch /\ e # t.current /\ e # t.previous
  <2>1. e > t.current
    BY <1>3 DEF Acceptable
  <2>2. inbound'.current = e /\ inbound'.previous = t.current
    BY <1>a, <1>3, <2>1 DEF Track, Promote, Tracker
  <2>3. marked'[t.current] # {}
    BY <1>a, <1>c, <1>3 DEF NewestKept
  <2>4. ASSUME NEW f \in Delivery!InUse PROVE f = t.current \/ f < t.current
    <3>1. f \in Nat /\ t.current \in Nat /\ ~(f > t.current)
      BY <1>a, <1>b, <1>e, <1>3 DEF WindowExact
    <3> QED  BY <3>1
  <2> QED  BY <1>c, <1>d, <2>2, <2>3, <2>4 DEF NewestKept
<1> QED  BY <1>1, <1>2, <1>3

LEMMA NewestInvariant == Spec => []NewestKept
<1>1. Init => NewestKept
  BY DEF Init, NewestKept, NewTracker, NothingMarked, Delivery!InUse,
         Delivery!Epochs, Epochs
<1>2. TypeOK /\ WindowExact /\ NewestKept /\ [Next]_vars => NewestKept'
  <2> SUFFICES ASSUME TypeOK, WindowExact, NewestKept, [Next]_vars PROVE NewestKept'
    OBVIOUS
  <2>1. CASE InstallKeys
    BY <2>1 DEF InstallKeys, NewestKept, NewTracker, NothingMarked, Delivery!InUse,
         Delivery!Epochs, Epochs
  <2>2. ASSUME NEW e \in Epochs, NEW s \in Sequences, NEW intact \in BOOLEAN,
               OpenRecord(e, s, intact)
        PROVE  NewestKept'
    BY <2>2, TrackKeepsNewest DEF OpenRecord
  <2>3. ASSUME NEW e \in Epochs, NEW s \in Sequences, RefuseReplay(e, s)
        PROVE  NewestKept'
    <3>1. inbound' = inbound /\ marked' = marked
      BY <2>3, RefusedLeavesTracker DEF RefuseReplay, TypeOK
    <3> QED  BY <3>1 DEF NewestKept, Delivery!InUse, Delivery!Epochs
  <2>4. CASE UNCHANGED vars
    BY <2>4 DEF vars, NewestKept, Delivery!InUse, Delivery!Epochs
  <2> QED  BY <2>1, <2>2, <2>3, <2>4 DEF Next
<1> QED  BY <1>1, <1>2, TypeCorrect, WindowsStayExact, PTL DEF Spec

(***************************************************************************)
(* The epochs remembered are therefore the two of the tracker.             *)
(***************************************************************************)
LEMMA RememberedAre ==
  ASSUME TypeOK, WindowExact, NewestKept
  PROVE  Delivery!Remembered = {inbound.current, inbound.previous} \ {NoEpoch}
<1> DEFINE c == inbound.current
           p == inbound.previous
<1>1. /\ c \in Epochs \cup {NoEpoch} /\ p \in Epochs \cup {NoEpoch}
      /\ Epochs \subseteq Nat /\ NoEpoch = -1
      /\ Delivery!InUse \subseteq Epochs
  BY BoundsAssumption DEF TypeOK, Tracker, Epochs, NoEpoch, Delivery!InUse, Delivery!Epochs
<1>2. /\ c # NoEpoch => c \in Delivery!InUse
      /\ p # NoEpoch => p \in Delivery!InUse /\ p < c
      /\ \A e \in Delivery!InUse : e = c \/ e = p \/ e < p
      /\ \A e \in Delivery!InUse : ~(e > c)
  BY <1>1 DEF NewestKept, WindowExact, Delivery!InUse, Delivery!Epochs, Epochs
<1> HIDE DEF c, p
<1>3. ASSUME NEW e \in Delivery!InUse, e = c \/ e = p PROVE e \in Delivery!Remembered
  <2>1. ASSUME NEW f \in Delivery!InUse, f > e PROVE f = c
    <3>1. e \in Nat /\ f \in Nat /\ ~(f > c) /\ (f = c \/ f = p \/ f < p)
      BY <1>1, <1>2
    <3>2. e = p /\ p \in Nat
      BY <1>3, <2>1, <3>1
    <3> QED  BY <2>1, <3>1, <3>2
  <2> QED  BY <2>1 DEF Delivery!Remembered
<1>4. ASSUME NEW e \in Delivery!InUse, e # c, e # p PROVE e \notin Delivery!Remembered
  <2>1. e \in Nat /\ e < p
    BY <1>1, <1>2, <1>4
  <2>2. p # NoEpoch /\ p \in Nat
    BY <1>1, <2>1
  <2>3. c \in Nat /\ p < c /\ p \in Delivery!InUse /\ c \in Delivery!InUse
    BY <1>1, <1>2, <2>2
  <2>4. c > e /\ p > e /\ c # p
    BY <2>1, <2>2, <2>3
  <2> QED  BY <2>3, <2>4 DEF Delivery!Remembered
<1>5. NoEpoch \notin Delivery!InUse /\ Delivery!Remembered \subseteq Delivery!InUse
  BY <1>1 DEF Delivery!Remembered
<1>6. Delivery!Remembered = {c, p} \ {NoEpoch}
  BY <1>2, <1>3, <1>4, <1>5
<1> QED  BY <1>6 DEF c, p

(***************************************************************************)
(* The tracker accepts exactly what the history lets the peer expect.      *)
(***************************************************************************)
LEMMA ExpectedIsAcceptable ==
  ASSUME TypeOK, WindowExact, NewestKept, NEW e \in Epochs, NEW s \in Sequences
  PROVE  Delivery!Expected(e, s) <=> Acceptable(inbound, e, s)
<1> DEFINE t == inbound
<1>a. /\ marked \in [Epochs -> SUBSET Sequences]
      /\ t.currentWindow \in Window(Sequences)
      /\ t.previousWindow \in Window(Sequences)
      /\ t.current \in Epochs \cup {NoEpoch}
      /\ t.previous \in Epochs \cup {NoEpoch}
      /\ marked[e] \in SUBSET Sequences
  BY DEF TypeOK, Tracker
<1>b. Epochs \subseteq Nat /\ NoEpoch = -1 /\ e \in Nat
  BY BoundsAssumption DEF Epochs, NoEpoch
<1>c. /\ Delivery!Remembered = {t.current, t.previous} \ {NoEpoch}
      /\ t.current # NoEpoch => t.current \in Delivery!InUse
      /\ t.previous # NoEpoch => t.previous < t.current
      /\ \A f \in Delivery!InUse : f \in Epochs /\ ~(f > t.current)
  BY <1>a, RememberedAre DEF NewestKept, WindowExact, Delivery!InUse,
                             Delivery!Epochs, Epochs
<1>1. CASE t.current = NoEpoch
  <2>1. \A f \in Epochs : marked[f] = {}
    <3>1. \A f \in Epochs : f > NoEpoch
      BY <1>b
    <3> QED  BY <1>1, <3>1 DEF WindowExact
  <2>2. Delivery!InUse = {}
    BY <2>1 DEF Delivery!InUse, Delivery!Epochs, Epochs
  <2> QED  BY <1>1, <2>1, <2>2 DEF Acceptable, Delivery!Expected
<1>2. CASE t.current # NoEpoch /\ e = t.current
  <2>1. Covers(t.currentWindow, marked[e])
    BY <1>2 DEF WindowExact
  <2>2. Fresh(t.currentWindow, s)
          <=> s \notin marked[e] /\ \A x \in marked[e] : x - s < WindowSize
    BY <1>a, <2>1, FreshIs
  <2>3. e \in Delivery!Remembered
    BY <1>c, <1>2
  <2>4. Acceptable(t, e, s) <=> Fresh(t.currentWindow, s)
    BY <1>b, <1>2 DEF Acceptable
  <2> QED  BY <2>2, <2>3, <2>4 DEF Delivery!Expected
<1>3. CASE t.current # NoEpoch /\ e # t.current /\ e = t.previous
  <2>1. t.previous # NoEpoch
    BY <1>b, <1>3
  <2>2. Covers(t.previousWindow, marked[e])
    BY <1>3, <2>1 DEF WindowExact
  <2>3. Fresh(t.previousWindow, s)
          <=> s \notin marked[e] /\ \A x \in marked[e] : x - s < WindowSize
    BY <1>a, <2>2, FreshIs
  <2>4. e \in Delivery!Remembered
    BY <1>c, <1>3, <2>1
  <2>5. Acceptable(t, e, s) <=> Fresh(t.previousWindow, s)
    BY <1>3 DEF Acceptable
  <2> QED  BY <2>3, <2>4, <2>5 DEF Delivery!Expected
<1>4. CASE t.current # NoEpoch /\ e # t.current /\ e # t.previous
  <2>1. t.current \in Nat
    BY <1>a, <1>b, <1>4
  <2>2. CASE e > t.current
    <3>1. marked[e] = {}
      BY <2>2 DEF WindowExact
    <3>2. \A f \in Delivery!InUse : e > f
      <4> SUFFICES ASSUME NEW f \in Delivery!InUse PROVE e > f
        OBVIOUS
      <4>1. f \in Nat /\ ~(f > t.current)
        BY <1>b, <1>c
      <4> HIDE DEF t
      <4> QED  BY <1>b, <2>1, <2>2, <4>1
    <3> QED  BY <1>4, <2>2, <3>1, <3>2 DEF Acceptable, Delivery!Expected
  <2>3. CASE e < t.current
    <3>1. ~(\A f \in Delivery!InUse : e > f)
      BY <1>b, <1>c, <1>4, <2>1, <2>3
    <3>2. e \notin Delivery!Remembered
      BY <1>c, <1>4
    <3>3. ~Acceptable(t, e, s)
      BY <1>b, <1>4, <2>1, <2>3 DEF Acceptable
    <3> QED  BY <3>1, <3>2, <3>3 DEF Delivery!Expected
  <2> QED  BY <1>b, <1>4, <2>1, <2>2, <2>3
<1> QED  BY <1>1, <1>2, <1>3, <1>4

(***************************************************************************)
(* The receiver does what one that remembers every number does, for every  *)
(* width of the window and every range of epochs and numbers.              *)
(***************************************************************************)
THEOREM DeliveryImplemented == Spec => ImplementsDelivery
<1> USE DEF Delivery!Epochs, Delivery!Sequences, Epochs, Sequences
<1>1. Init => Delivery!Init
  BY DEF Init, NothingMarked, NothingDelivered, Delivery!Init, Delivery!NothingYet
<1>2. ASSUME TypeOK, WindowExact, NewestKept, [Next]_vars
      PROVE  [Delivery!Next]_(Delivery!vars)
  <2>1. CASE InstallKeys
    BY <2>1 DEF InstallKeys, NothingMarked, NothingDelivered, Delivery!InstallKeys,
                Delivery!NothingYet, Delivery!Next
  <2>2. ASSUME NEW e \in Epochs, NEW s \in Sequences, NEW intact \in BOOLEAN,
               OpenRecord(e, s, intact)
        PROVE  Delivery!Take(e, s, intact)
    BY <1>2, <2>2, ExpectedIsAcceptable DEF OpenRecord, Delivery!Take
  <2>3. ASSUME NEW e \in Epochs, NEW s \in Sequences, RefuseReplay(e, s)
        PROVE  Delivery!Refuse(e, s)
    BY <1>2, <2>3, ExpectedIsAcceptable DEF RefuseReplay, Delivery!Refuse
  <2>4. CASE UNCHANGED vars
    BY <2>4 DEF vars, Delivery!vars
  <2> QED  BY <1>2, <2>1, <2>2, <2>3, <2>4 DEF Next, Delivery!Next
<1> QED  BY <1>1, <1>2, TypeCorrect, WindowsStayExact, NewestInvariant, PTL
         DEF Spec, ImplementsDelivery, Delivery!Spec
=============================================================================
