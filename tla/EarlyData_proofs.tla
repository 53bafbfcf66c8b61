-------------------------- MODULE EarlyData_proofs --------------------------
(***************************************************************************)
(* Proofs about EarlyData, for every capacity, lifetime, number of tickets *)
(* and handshakes, and window width.                                       *)
(*                                                                         *)
(* The invariants rest on each other: a spent ticket stays spent because   *)
(* its copies in the file belong to an earlier handshake, a record is      *)
(* refused the second time because its ticket cannot be accepted again,    *)
(* and the budget holds because the counter is reset only together with    *)
(* the acceptance.                                                         *)
(***************************************************************************)
EXTENDS EarlyData, FiniteSetTheorems, TLAPS

-----------------------------------------------------------------------------
(***************************************************************************)
(* The anti-replay window of early data, for every width and every range   *)
(* of sequence numbers.  A new window is empty.                            *)
(***************************************************************************)
LEMMA NewWindowType ==
  ASSUME NEW N \in Nat
  PROVE  NewWindow \in Window(0 .. N)
BY DEF NewWindow, Window

(***************************************************************************)
(* Marking keeps a window a window.                                        *)
(***************************************************************************)
LEMMA MarkWindow ==
  ASSUME NEW N \in Nat, NEW w \in Window(0 .. N), NEW s \in 0 .. N
  PROVE  Mark(w, s) \in Window(0 .. N)
<1>1. CASE ~w.initialized
  BY <1>1, WindowSizeAssumption DEF Mark, Window, Offsets
<1>2. CASE w.initialized /\ s > w.latest
  <2>1. ShiftLeft(w.bitmap, s - w.latest) \cup {0} \in SUBSET Offsets
    BY WindowSizeAssumption DEF ShiftLeft, Offsets
  <2>2. Mark(w, s) = [initialized |-> TRUE, latest |-> s,
                      bitmap |-> ShiftLeft(w.bitmap, s - w.latest) \cup {0}]
    BY <1>2 DEF Mark
  <2> QED  BY <2>1, <2>2 DEF Window
<1>3. CASE w.initialized /\ ~(s > w.latest)
  BY <1>3, WindowSizeAssumption DEF Mark, Window, Offsets
<1> QED  BY <1>1, <1>2, <1>3 DEF Window

(***************************************************************************)
(* A marked number is refused.                                             *)
(***************************************************************************)
LEMMA MarkedIsRefused ==
  ASSUME NEW N \in Nat, NEW w \in Window(0 .. N), NEW s \in 0 .. N
  PROVE  ~Fresh(Mark(w, s), s)
<1> USE WindowSizeAssumption DEF Offsets
<1> DEFINE m == Mark(w, s)
<1>1. CASE ~w.initialized
  <2>1. m = [initialized |-> TRUE, latest |-> s, bitmap |-> {0}]
    BY <1>1 DEF Mark
  <2> QED  BY <2>1 DEF Fresh
<1>2. CASE w.initialized /\ s > w.latest
  <2>1. /\ m.initialized
        /\ m.latest = s
        /\ 0 \in m.bitmap
    BY <1>2 DEF Mark, Window
  <2> QED  BY <2>1 DEF Fresh
<1>3. CASE w.initialized /\ ~(s > w.latest)
  <2>1. /\ m.initialized
        /\ m.latest = w.latest
        /\ m.bitmap = w.bitmap \cup (Offsets \cap {w.latest - s})
    BY <1>3 DEF Mark, Window
  <2> QED  BY <1>3, <2>1 DEF Fresh, Window
<1> QED  BY <1>1, <1>2, <1>3 DEF Window

(***************************************************************************)
(* Marking another number never re-opens a refused one: a bit that is set  *)
(* stays set or leaves the window at its old end.                          *)
(***************************************************************************)
LEMMA RefusedStaysRefused ==
  ASSUME NEW N \in Nat, NEW w \in Window(0 .. N), NEW s \in 0 .. N, NEW x \in 0 .. N,
         ~Fresh(w, s)
  PROVE  ~Fresh(Mark(w, x), s)
<1> USE WindowSizeAssumption DEF Offsets
<1>1. w.initialized /\ s <= w.latest /\ w.latest - s \notin Offsets \ w.bitmap
  BY DEF Fresh, Window
<1>2. CASE x > w.latest
  <2>1. /\ Mark(w, x).initialized
        /\ Mark(w, x).latest = x
        /\ Mark(w, x).bitmap = ShiftLeft(w.bitmap, x - w.latest) \cup {0}
    BY <1>1, <1>2 DEF Mark, Window
  <2>2. x - s \in Offsets => x - s \in ShiftLeft(w.bitmap, x - w.latest)
    BY <1>1, <1>2 DEF ShiftLeft, Window
  <2> QED  BY <1>1, <1>2, <2>1, <2>2 DEF Fresh, Window
<1>3. CASE x <= w.latest
  <2>1. /\ Mark(w, x).initialized
        /\ Mark(w, x).latest = w.latest
        /\ w.bitmap \subseteq Mark(w, x).bitmap
    BY <1>1, <1>3 DEF Mark, Window
  <2> QED  BY <1>1, <2>1 DEF Fresh, Window
<1> QED  BY <1>2, <1>3 DEF Window

-----------------------------------------------------------------------------
(***************************************************************************)
(* The age check of a ticket, for every lifetime, skew, width and age_add. *)
(***************************************************************************)

(***************************************************************************)
(* Wrapping addition, and the two wrapping differences of numbers that are *)
(* d apart or d short of a full turn.                                      *)
(***************************************************************************)
LEMMA WrappingSum ==
  ASSUME NEW M \in Nat \ {0}, NEW x \in 0 .. M - 1, NEW y \in 0 .. M - 1
  PROVE  (x + y) % M = IF x + y < M THEN x + y ELSE x + y - M
OBVIOUS

LEMMA WrappingDifference ==
  ASSUME NEW M \in Nat \ {0}, NEW x \in Int, -M < x, x < M
  PROVE  x % M = IF x < 0 THEN x + M ELSE x
OBVIOUS

LEMMA WrappingDifferences ==
  ASSUME NEW M \in Nat \ {0}, NEW x \in 0 .. M - 1, NEW y \in 0 .. M - 1,
         NEW d \in 0 .. M - 1, x - y = d \/ x - y = d - M
  PROVE  /\ (x - y) % M = d
         /\ (y - x) % M = IF d = 0 THEN 0 ELSE M - d
<1>1. x - y \in Int /\ -M < x - y /\ x - y < M
  OBVIOUS
<1>2. y - x \in Int /\ -M < y - x /\ y - x < M
  OBVIOUS
<1>3. (x - y) % M = IF x - y < 0 THEN x - y + M ELSE x - y
  BY <1>1, WrappingDifference
<1>4. (y - x) % M = IF y - x < 0 THEN y - x + M ELSE y - x
  BY <1>2, WrappingDifference
<1>5. (x - y) % M = d
  BY <1>3
<1>6. (y - x) % M = IF d = 0 THEN 0 ELSE M - d
  BY <1>4
<1> QED  BY <1>5, <1>6

LEMMA ObfuscatedIs ==
  ASSUME NEW age \in Nat
  PROVE  /\ Clamped(age) \in 0 .. AgeModulus - 1
         /\ Obfuscated(age) \in 0 .. AgeModulus - 1
         /\ \/ Obfuscated(age) = AgeAdd + Clamped(age)
            \/ Obfuscated(age) = AgeAdd + Clamped(age) - AgeModulus
<1>1. AgeModulus \in Nat \ {0} /\ AgeAdd \in 0 .. AgeModulus - 1
  BY TicketAssumption
<1>2. Clamped(age) \in 0 .. AgeModulus - 1
  BY <1>1 DEF Clamped
<1>3. Obfuscated(age) = IF AgeAdd + Clamped(age) < AgeModulus
                        THEN AgeAdd + Clamped(age) ELSE AgeAdd + Clamped(age) - AgeModulus
  BY <1>1, <1>2, WrappingSum DEF Obfuscated
<1> QED  BY <1>1, <1>2, <1>3

(***************************************************************************)
(* The obfuscated ages of a ticket are as far apart as the clamped ages,   *)
(* one way round or the other.  So the wrap-around never makes a fresh     *)
(* ClientHello look stale, nor a stale one fresh as long as the age and    *)
(* the skew do not fill the width.                                         *)
(***************************************************************************)
LEMMA ObfuscatedDistance ==
  ASSUME NEW age \in Nat, NEW claimed \in 0 .. age
  PROVE  LET near == Distance(Obfuscated(age), Obfuscated(claimed)) <= MaxSkew
         IN /\ age - claimed <= MaxSkew => near
            /\ near /\ age + MaxSkew < AgeModulus => age - claimed <= MaxSkew
<1>1. AgeModulus \in Nat \ {0} /\ MaxSkew \in Nat /\ AgeAdd \in 0 .. AgeModulus - 1
  BY TicketAssumption
<1>2. PICK c \in 0 .. AgeModulus - 1, x \in 0 .. AgeModulus - 1 :
        /\ c = Clamped(age) /\ x = Obfuscated(age)
        /\ x = AgeAdd + c \/ x = AgeAdd + c - AgeModulus
  BY ObfuscatedIs
<1>3. PICK k \in 0 .. AgeModulus - 1, y \in 0 .. AgeModulus - 1 :
        /\ k = Clamped(claimed) /\ y = Obfuscated(claimed)
        /\ y = AgeAdd + k \/ y = AgeAdd + k - AgeModulus
  <2>1. claimed \in Nat
    OBVIOUS
  <2> QED  BY <2>1, ObfuscatedIs
<1>4. PICK d \in 0 .. AgeModulus - 1 :
        /\ d = c - k /\ d <= age - claimed
        /\ age < AgeModulus => d = age - claimed
  <2>1. /\ k <= c /\ c - k <= age - claimed
        /\ age < AgeModulus => c - k = age - claimed
    BY <1>1, <1>2, <1>3 DEF Clamped
  <2> QED  BY <1>1, <1>2, <1>3, <2>1
<1>5. x - y = d \/ x - y = d - AgeModulus
  <2>1. /\ x \in 0 .. AgeModulus - 1 /\ y \in 0 .. AgeModulus - 1
        /\ AgeModulus \in Int /\ AgeAdd \in Int /\ c \in Int /\ k \in Int
    BY <1>1, <1>2, <1>3
  <2>2. CASE x = AgeAdd + c
    BY <1>3, <1>4, <2>1, <2>2
  <2>3. CASE x = AgeAdd + c - AgeModulus
    BY <1>3, <1>4, <2>1, <2>3
  <2> QED  BY <1>2, <2>2, <2>3
<1>6. /\ (x - y) % AgeModulus = d
      /\ (y - x) % AgeModulus = IF d = 0 THEN 0 ELSE AgeModulus - d
  BY <1>1, <1>5, WrappingDifferences
<1>7. Distance(x, y) <= MaxSkew <=> d <= MaxSkew \/ AgeModulus - d <= MaxSkew
  BY <1>1, <1>4, <1>6 DEF Distance
<1>8. age + MaxSkew < AgeModulus => ~(AgeModulus - d <= MaxSkew) /\ d = age - claimed
  BY <1>1, <1>4
<1>9. Distance(Obfuscated(age), Obfuscated(claimed)) = Distance(x, y)
  BY <1>2, <1>3
<1>10. age - claimed <= MaxSkew => d <= MaxSkew
  BY <1>1, <1>4
<1> QED  BY <1>7, <1>8, <1>9, <1>10

-----------------------------------------------------------------------------
(***************************************************************************)
(* The invariants.                                                         *)
(***************************************************************************)

AllTickets == Tickets(Ids, 1 .. MaxHandshakes, 0 .. MaxTime, Budgets)

\* Domains, as far as the proofs need them.
Typed ==
  /\ now \in 0 .. MaxTime
  /\ state = "Finished" => master # 0
  /\ handshakes \in 0 .. MaxHandshakes /\ master \in 0 .. handshakes
  /\ issued \in 0 .. MaxTickets
  /\ store \subseteq AllTickets /\ file.tickets \subseteq AllTickets
  /\ limit \in Nat \cup {None} /\ opened \in Nat /\ banked \in Nat
  /\ accepted \in Ids \cup {None}
  /\ window \in Window(Seqs)

\* No ticket and no history is ahead of the counters.
Known ==
  /\ \A t \in store \cup file.tickets : t.id <= issued /\ t.master <= handshakes
  /\ spent \subseteq 1 .. issued
  /\ served \subseteq spent \X Seqs

\* A spent ticket in the store is consumed, or came back from the file into a
\* process whose secret is another.
Used == \A t \in store : t.id \in spent => t.consumed \/ t.master # master

\* What is accepted, and what has been delivered under it.
Acceptance ==
  /\ accepted = None <=> limit = None
  /\ master = 0 => accepted = None
  /\ accepted # None =>
       /\ limit > 0 /\ banked = opened /\ opened <= limit
       /\ transcript \in Hellos => transcript = [id |-> accepted, kind |-> "early"]

\* The window refuses what it has let through for the accepted ticket.
Refusing ==
  accepted # None => \A s \in Seqs : <<accepted, s>> \in served => ~Fresh(window, s)

IInv == Typed /\ Known /\ Used /\ Acceptance /\ Refusing

(***************************************************************************)
(* What the usage policy does to the tickets: it consumes, and renames or  *)
(* moves none.                                                             *)
(***************************************************************************)
LEMMA StoreAfterFacts ==
  ASSUME Typed, NEW id \in Ids, NEW singleUse \in BOOLEAN,
         NEW u \in StoreAfter(id, singleUse)
  PROVE  /\ u \in AllTickets
         /\ singleUse /\ u.id = id => u.consumed
         /\ \E t \in store : /\ t.id = u.id /\ t.master = u.master
                             /\ t.issued = u.issued
                             /\ t.consumed => u.consumed
<1>1. CASE ~singleUse
  BY <1>1 DEF StoreAfter, Typed
<1>2. CASE singleUse
  <2>1. PICK t \in store : u = IF t.id = id THEN [t EXCEPT !.consumed = TRUE] ELSE t
    BY <1>2 DEF StoreAfter, Consume
  <2>2. t \in AllTickets
    BY DEF Typed
  <2>3. /\ u \in AllTickets /\ u.id = t.id /\ u.master = t.master
        /\ u.issued = t.issued
        /\ t.consumed => u.consumed
        /\ u.id = id => u.consumed
    BY <2>1, <2>2 DEF AllTickets, Tickets
  <2> QED  BY <2>3
<1> QED  BY <1>1, <1>2

(***************************************************************************)
(* A ticket whose ClientHello passes all checks has not been spent.        *)
(***************************************************************************)
LEMMA MatchIsUnspent ==
  ASSUME Used, NEW h, NEW made, NEW t \in store, Matches(t, h, made)
  PROVE  h.id \notin spent
BY DEF Used, Matches, Candidate, BinderMatches

(***************************************************************************)
(* The tickets and their histories after a call that applies the usage     *)
(* policy: the ticket has not been spent before, and is consumed from now  *)
(* on if it counts as spent.                                               *)
(***************************************************************************)
LEMMA PolicyKeeps ==
  ASSUME Typed, Known, Used, NEW h \in Hellos, NEW made, NEW singleUse \in BOOLEAN,
         \E t \in store : Matches(t, h, made),
         store' = StoreAfter(h.id, singleUse),
         spent' = IF singleUse THEN spent \cup {h.id} ELSE spent,
         UNCHANGED <<file, issued, handshakes, master, served>>
  PROVE  /\ store' \subseteq AllTickets
         /\ Known' /\ Used'
<1>a. h.id \in Ids
  BY DEF Hellos
<1>b. ASSUME NEW u \in store'
      PROVE  /\ u \in AllTickets
             /\ singleUse /\ u.id = h.id => u.consumed
             /\ \E t \in store : /\ t.id = u.id /\ t.master = u.master
                                 /\ t.consumed => u.consumed
  <2>1. u \in StoreAfter(h.id, singleUse)
    OBVIOUS
  <2> QED  BY <1>a, <2>1, StoreAfterFacts
<1>1. store' \subseteq AllTickets
  BY <1>b
<1>2. h.id \in 1 .. issued
  <2>1. PICK t \in store : t.id = h.id
    BY DEF Matches, Candidate
  <2>2. t.id <= issued
    BY DEF Known
  <2> QED  BY <1>a, <2>1, <2>2 DEF Typed, Ids
<1>3. Known'
  <2>1. ASSUME NEW u \in store'
        PROVE  u.id <= issued /\ u.master <= handshakes
    <3>1. PICK t \in store : t.id = u.id /\ t.master = u.master
      BY <1>b
    <3> QED  BY <3>1 DEF Known
  <2>2. \A t \in store' \cup (file').tickets : t.id <= issued' /\ t.master <= handshakes'
    BY <2>1 DEF Known
  <2>3. spent' \subseteq 1 .. issued' /\ served' \subseteq spent' \X Seqs
    BY <1>2 DEF Known
  <2> QED  BY <2>2, <2>3 DEF Known
<1>4. Used'
  <2> SUFFICES ASSUME NEW u \in store', u.id \in spent'
               PROVE  u.consumed \/ u.master # master
    BY DEF Used
  <2>1. PICK t \in store : /\ t.id = u.id /\ t.master = u.master
                           /\ t.consumed => u.consumed
    BY <1>b
  <2>2. CASE u.id \in spent
    BY <2>1, <2>2 DEF Used
  <2>3. CASE u.id \notin spent
    <3>1. singleUse /\ u.id = h.id
      BY <2>3
    <3> QED  BY <3>1, <1>b
  <2> QED  BY <2>2, <2>3
<1> QED  BY <1>1, <1>3, <1>4

(***************************************************************************)
(* IInv holds initially and every step keeps it.                           *)
(***************************************************************************)
LEMMA InitIInv == Init => IInv
<1> SUFFICES ASSUME Init PROVE IInv
  OBVIOUS
<1>1. Typed
  BY NewWindowType, EarlyDataAssumption DEF Init, Typed, Torn, None, Seqs, Window, NewWindow
<1>2. Known /\ Used
  BY DEF Init, Known, Used, Torn
<1>3. Acceptance /\ Refusing
  BY DEF Init, Acceptance, Refusing
<1> QED  BY <1>1, <1>2, <1>3 DEF IInv

(***************************************************************************)
(* Cleaning removes tickets and does nothing else.                         *)
(***************************************************************************)
LEMMA CleanStep ==
  ASSUME IInv, Clean
  PROVE  IInv'
<1>1. store' \subseteq store
  BY DEF Clean, Cleanings, RemoveConsumed, RemoveExpired, Rotate, InvalidateIdentity
<1>2. Typed'
  BY <1>1 DEF Clean, IInv, Typed, acceptVars
<1>3. Known' /\ Used'
  BY <1>1 DEF Clean, IInv, Known, Used
<1>4. Acceptance' /\ Refusing'
  BY DEF Clean, IInv, Acceptance, Refusing, acceptVars
<1> QED  BY <1>2, <1>3, <1>4 DEF IInv

\* What the transcript holds besides a received ClientHello is none.
LEMMA NoHello == OwnHello \notin Hellos /\ NoMessages \notin Hellos /\ Handshake \notin Hellos
BY EarlyDataAssumption DEF OwnHello, NoMessages, Handshake, Hellos, Ids

(***************************************************************************)
(* A handshake brings a secret no ticket of the store belongs to, a new    *)
(* ticket a number nobody has spent, a new process no secret at all.       *)
(***************************************************************************)
LEMMA FinishHandshakeStep ==
  ASSUME IInv, FinishHandshake
  PROVE  IInv'
<1> USE DEF FinishHandshake, acceptVars
<1>1. Typed'
  BY EarlyDataAssumption DEF IInv, Typed
<1>2. Known' /\ Used'
  <2>1. \A t \in store : t.master <= handshakes /\ t \in AllTickets
    BY DEF IInv, Known, Typed
  <2>2. \A t \in store : t.master # handshakes + 1
    BY <2>1, EarlyDataAssumption DEF AllTickets, Tickets, IInv, Typed
  <2>3. \A t \in store \cup file.tickets : t.master <= handshakes + 1
    <3>1. \A t \in store \cup file.tickets : t \in AllTickets /\ t.master <= handshakes
      BY DEF IInv, Known, Typed
    <3> QED  BY <3>1, EarlyDataAssumption DEF AllTickets, Tickets, IInv, Typed
  <2> QED  BY <2>2, <2>3 DEF IInv, Known, Used
<1>3. Acceptance' /\ Refusing'
  BY NoHello, EarlyDataAssumption DEF IInv, Acceptance, Refusing, Typed
<1> QED  BY <1>1, <1>2, <1>3 DEF IInv

(***************************************************************************)
(* The steps of a handshake before its end touch no ticket.  They put no   *)
(* received ClientHello into the transcript, and what they clear they      *)
(* clear as a whole.                                                       *)
(***************************************************************************)
LEMMA HandshakeSteps ==
  ASSUME IInv, NEW retry \in BOOLEAN, NEW cleared \in BOOLEAN, NEW taken \in BOOLEAN,
         \/ SendHello \/ HelloNotSent \/ RecvServerHello(retry)
         \/ RecvEncryptedExtensions(cleared, taken)
         \/ DeriveHandshakeSecret \/ FatalAlert
  PROVE  IInv'
<1> USE DEF SendHello, HelloNotSent, RecvServerHello, RecvEncryptedExtensions,
            DeriveHandshakeSecret, FatalAlert, ticketVars, acceptVars, policyVars
<1>1. /\ UNCHANGED <<now, master, store, handshakes, issued, file, spent, served>>
      /\ state' \in {state, "ClientHelloSent", "Idle", "ServerHelloReceived", "KeysPending"}
      /\ transcript' \in {transcript, OwnHello, NoMessages, Handshake}
  OBVIOUS
<1>2. \/ UNCHANGED <<accepted, limit, opened, banked, window>>
      \/ accepted' = None /\ limit' = None /\ opened' = 0 /\ banked' = 0
         /\ window' = NewWindow
  OBVIOUS
<1> HIDE DEF SendHello, HelloNotSent, RecvServerHello, RecvEncryptedExtensions,
             DeriveHandshakeSecret, FatalAlert
<1>3. Typed'
  BY <1>1, <1>2, NewWindowType, EarlyDataAssumption DEF IInv, Typed, Seqs, None
<1>4. Known' /\ Used'
  BY <1>1 DEF IInv, Known, Used
<1>5. Acceptance'
  <2>1. transcript' = transcript \/ transcript' \notin Hellos
    BY <1>1, NoHello
  <2> QED  BY <1>1, <1>2, <2>1 DEF IInv, Acceptance
<1>6. Refusing'
  BY <1>1, <1>2 DEF IInv, Refusing
<1> QED  BY <1>3, <1>4, <1>5, <1>6 DEF IInv

LEMMA IssueStep ==
  ASSUME IInv, NEW terms \in Terms, Issue(terms)
  PROVE  IInv'
<1> DEFINE new == NewTicket(terms)
<1>1. store' \subseteq store \cup {new}
  BY DEF Issue, Insert
<1>2. new \in AllTickets
  <2>1. terms.lifetime \in Lifetimes /\ terms.budget \in Budgets
    BY EarlyDataAssumption
  <2>2. /\ issued + 1 \in Ids /\ master \in 1 .. MaxHandshakes
        /\ (IF terms.timed THEN now ELSE 0) \in 0 .. MaxTime
    BY EarlyDataAssumption DEF Issue, IInv, Typed, Ids
  <2> QED  BY <2>1, <2>2 DEF NewTicket, AllTickets, Tickets
<1>3. Typed'
  <2>1. store' \subseteq AllTickets
    BY <1>1, <1>2 DEF IInv, Typed
  <2>2. issued' \in 0 .. MaxTickets
    BY EarlyDataAssumption DEF Issue, IInv, Typed
  <2> QED  BY <2>1, <2>2 DEF Issue, acceptVars, IInv, Typed
<1>4. new.id \notin spent /\ new.id = issued + 1 /\ new.master = master
  BY EarlyDataAssumption DEF IInv, Known, Typed, NewTicket
<1>5. \A t \in store \cup file.tickets : t.id <= issued + 1 /\ t.master <= handshakes
  <2>1. \A t \in store \cup file.tickets :
          t \in AllTickets /\ t.id <= issued /\ t.master <= handshakes
    BY DEF IInv, Known, Typed
  <2> QED  BY <2>1, EarlyDataAssumption DEF AllTickets, Tickets, Ids, IInv, Typed
<1>6. \A t \in store' : t.id <= issued' /\ t.master <= handshakes'
  <2> SUFFICES ASSUME NEW t \in store'
               PROVE  t.id <= issued + 1 /\ t.master <= handshakes
    BY DEF Issue
  <2>1. CASE t \in store
    BY <2>1, <1>5
  <2>2. CASE t = new
    <3>1. issued + 1 <= issued + 1 /\ master <= handshakes
      BY EarlyDataAssumption DEF IInv, Typed
    <3> QED  BY <2>2, <3>1, <1>4
  <2> QED  BY <1>1, <2>1, <2>2
<1>7. spent \subseteq 1 .. issued + 1
  BY EarlyDataAssumption DEF IInv, Known, Typed
<1>8. Known'
  BY <1>5, <1>6, <1>7 DEF Issue, IInv, Known
<1>9. Used'
  BY <1>1, <1>4 DEF Issue, IInv, Used
<1>10. Acceptance' /\ Refusing'
  BY DEF Issue, acceptVars, IInv, Acceptance, Refusing
<1> QED  BY <1>3, <1>8, <1>9, <1>10 DEF IInv

LEMMA RestartStep ==
  ASSUME IInv, NEW saving \in BOOLEAN, Restart(saving)
  PROVE  IInv'
<1>1. store' = (file').tickets /\ (file').tickets \subseteq file.tickets
  BY DEF Restart, Torn
<1>2. Typed'
  BY <1>1, NewWindowType, EarlyDataAssumption
     DEF Restart, FreshConnection, IInv, Typed, Seqs
<1>3. Known'
  BY <1>1 DEF Restart, IInv, Known
<1>4. Used'
  <2>1. \A t \in store' : t.master # 0
    BY <1>1, EarlyDataAssumption DEF IInv, Typed, AllTickets, Tickets
  <2> QED  BY <2>1 DEF Restart, FreshConnection, Used
<1>5. Acceptance' /\ Refusing'
  BY DEF Restart, FreshConnection, Acceptance, Refusing
<1> QED  BY <1>2, <1>3, <1>4, <1>5 DEF IInv

(***************************************************************************)
(* The usage policy and the acceptance of early data.                      *)
(***************************************************************************)
LEMMA ApplyPolicyStep ==
  ASSUME IInv, NEW h \in Hellos, NEW made, NEW singleUse \in BOOLEAN,
         ApplyPolicy(h, made, singleUse)
  PROVE  IInv'
<1>1. store' \subseteq AllTickets /\ Known' /\ Used'
  BY PolicyKeeps DEF ApplyPolicy, IInv
<1>2. Typed'
  BY <1>1 DEF ApplyPolicy, acceptVars, IInv, Typed
<1>3. Acceptance' /\ Refusing'
  BY DEF ApplyPolicy, acceptVars, IInv, Acceptance, Refusing
<1> QED  BY <1>1, <1>2, <1>3 DEF IInv

LEMMA AcceptEarlyDataStep ==
  ASSUME IInv, NEW h \in Hellos, NEW made, NEW singleUse \in BOOLEAN,
         AcceptEarlyData(h, made, singleUse)
  PROVE  IInv'
<1> USE DEF AcceptEarlyData, TakeHello
<1>1. PICK t \in store : /\ Matches(t, h, made) /\ h.kind = "early"
                         /\ t.budget > 0 /\ limit' = t.budget
  OBVIOUS
<1>2. store' \subseteq AllTickets /\ Known' /\ Used'
  BY <1>1, PolicyKeeps DEF IInv
<1>3. h.id \in Ids /\ h.id # None /\ h = [id |-> h.id, kind |-> "early"]
  BY <1>1, EarlyDataAssumption DEF Hellos, Ids, None
<1>4. t.budget \in Nat /\ t.budget # None
  <2>1. t \in AllTickets
    BY DEF IInv, Typed
  <2>2. t.budget \in Budgets
    BY <2>1 DEF AllTickets, Tickets
  <2>3. t.budget \in Nat
    BY <2>2, EarlyDataAssumption
  <2> QED  BY <2>3 DEF None
<1>5. Typed'
  BY <1>1, <1>2, <1>3, <1>4, NewWindowType, EarlyDataAssumption DEF IInv, Typed, Seqs
<1>6. Acceptance'
  BY <1>1, <1>3, <1>4 DEF Acceptance
<1>7. Refusing'
  <2>1. h.id \notin spent
    BY <1>1, MatchIsUnspent DEF IInv
  <2>2. \A s \in Seqs : <<h.id, s>> \notin served
    BY <2>1 DEF IInv, Known
  <2> QED  BY <2>2 DEF Refusing
<1> QED  BY <1>2, <1>5, <1>6, <1>7 DEF IInv

LEMMA ResumeOnlyStep ==
  ASSUME IInv, NEW h \in Hellos, NEW made, NEW singleUse \in BOOLEAN,
         ResumeOnly(h, made, singleUse)
  PROVE  IInv'
<1> USE DEF ResumeOnly, TakeHello, ClearAcceptance
<1>1. store' \subseteq AllTickets /\ Known' /\ Used'
  BY PolicyKeeps DEF IInv
<1>2. Typed'
  BY <1>1 DEF IInv, Typed
<1>3. Acceptance' /\ Refusing'
  BY DEF Acceptance, Refusing
<1> QED  BY <1>1, <1>2, <1>3 DEF IInv

\* A call that fails for want of a secret leaves the acceptance alone, and
\* there is none.
LEMMA RefusalSteps ==
  ASSUME IInv, NEW h \in Hellos, NEW made,
         RefuseHello(h, made) \/ FailOnHello(h, made)
  PROVE  IInv'
<1> USE DEF RefuseHello, FailOnHello, TakeHello, ClearAcceptance
<1>1. Typed'
  BY DEF IInv, Typed
<1>2. Known' /\ Used'
  BY DEF IInv, Known, Used
<1>3. accepted' = None /\ limit' = None
  BY DEF NoSecretFor, IInv, Acceptance
<1>4. Acceptance' /\ Refusing'
  BY <1>3 DEF Acceptance, Refusing
<1> QED  BY <1>1, <1>2, <1>4 DEF IInv

(***************************************************************************)
(* Records and policy.                                                     *)
(***************************************************************************)
LEMMA MarkNumberFacts ==
  ASSUME Typed, NEW s \in Seqs, MarkNumber(s)
  PROVE  /\ window' \in Window(Seqs)
         /\ antiReplay => ~Fresh(window', s)
         /\ \A x \in Seqs : ~Fresh(window, x) => ~Fresh(window', x)
<1> MaxSequence \in Nat
  BY EarlyDataAssumption
<1> QED
  BY MarkWindow, MarkedIsRefused, RefusedStaysRefused DEF MarkNumber, Typed, Seqs

LEMMA OpenRecordStep ==
  ASSUME IInv, NEW id \in 1 .. issued, NEW s \in Seqs, NEW len \in Lengths,
         OpenRecord(id, s, len)
  PROVE  IInv'
<1> USE DEF OpenRecord, ticketVars, policyVars
<1>1. /\ window' \in Window(Seqs)
      /\ antiReplay => ~Fresh(window', s)
      /\ \A x \in Seqs : ~Fresh(window, x) => ~Fresh(window', x)
  BY MarkNumberFacts DEF IInv
<1>2. len \in Nat /\ opened \in Nat /\ banked \in Nat
  BY EarlyDataAssumption DEF IInv, Typed
<1>3. Typed'
  BY <1>1, <1>2 DEF IInv, Typed
<1>4. Known' /\ Used'
  BY DEF IInv, Known, Used
<1>5. Acceptance'
  BY <1>2 DEF WithinLimit, IInv, Acceptance
<1>6. Refusing'
  BY <1>1 DEF IInv, Refusing
<1> QED  BY <1>3, <1>4, <1>5, <1>6 DEF IInv

LEMMA SpoilRecordStep ==
  ASSUME IInv, NEW id \in 1 .. issued, NEW s \in Seqs, SpoilRecord(id, s)
  PROVE  IInv'
<1> USE DEF SpoilRecord, ticketVars, policyVars, acceptVars
<1>1. /\ window' \in Window(Seqs)
      /\ \A x \in Seqs : ~Fresh(window, x) => ~Fresh(window', x)
  BY MarkNumberFacts DEF IInv
<1>2. Typed'
  BY <1>1 DEF IInv, Typed
<1>3. Known' /\ Used'
  BY DEF IInv, Known, Used
<1>4. Acceptance' /\ Refusing'
  BY <1>1 DEF IInv, Acceptance, Refusing
<1> QED  BY <1>2, <1>3, <1>4 DEF IInv

LEMMA PolicySteps ==
  ASSUME IInv, NEW on \in BOOLEAN, NEW required \in BOOLEAN,
         SetAntiReplay(on) \/ SetRequireAcceptance(on) \/ SetPolicy(required, on)
  PROVE  IInv'
<1> USE DEF SetAntiReplay, SetRequireAcceptance, SetPolicy, ClearAcceptance,
            ticketVars, acceptVars
<1>1. Typed'
  BY NewWindowType, EarlyDataAssumption DEF IInv, Typed, Seqs
<1>2. Known' /\ Used'
  BY DEF IInv, Known, Used
<1>3. Acceptance'
  BY DEF IInv, Acceptance
<1>4. Refusing'
  BY DEF IInv, Refusing
<1> QED  BY <1>1, <1>2, <1>3, <1>4 DEF IInv

\* Steps that touch the clock or the file only, and stuttering.
LEMMA QuietSteps ==
  ASSUME IInv, SaveToFile \/ Tick \/ UNCHANGED vars
  PROVE  IInv'
<1> USE DEF SaveToFile, Holding, Tick, vars, ticketVars, acceptVars
<1>1. Typed'
  BY EarlyDataAssumption DEF IInv, Typed
<1>2. Known' /\ Used'
  <2>1. /\ (file').tickets \subseteq store \cup file.tickets
        /\ UNCHANGED <<store, master, handshakes, issued, spent, served>>
    OBVIOUS
  <2> QED  BY <2>1 DEF IInv, Known, Used
<1>3. Acceptance' /\ Refusing'
  BY DEF IInv, Acceptance, Refusing
<1> QED  BY <1>1, <1>2, <1>3 DEF IInv

LEMMA NextIInv ==
  ASSUME IInv, [Next]_vars
  PROVE  IInv'
<1>1. CASE Accepting
  <2>1. PICK h \in Hellos, made \in 0 .. now :
          \/ \E singleUse \in BOOLEAN :
               \/ AcceptEarlyData(h, made, singleUse)
               \/ ResumeOnly(h, made, singleUse)
               \/ ApplyPolicy(h, made, singleUse)
          \/ RefuseHello(h, made) \/ FailOnHello(h, made)
    BY <1>1 DEF Accepting
  <2> QED
    BY <2>1, AcceptEarlyDataStep, ResumeOnlyStep, ApplyPolicyStep, RefusalSteps
<1>2. CASE Opening
  BY <1>2, OpenRecordStep, SpoilRecordStep DEF Opening
<1>3. CASE Managing
  BY <1>3, QuietSteps, IssueStep, CleanStep, RestartStep DEF Managing
<1>4. CASE Policies
  BY <1>4, PolicySteps DEF Policies
<1>5. CASE Handshaking
  <2>1. PICK retry, cleared, taken \in BOOLEAN :
          \/ SendHello \/ HelloNotSent \/ RecvServerHello(retry)
          \/ RecvEncryptedExtensions(cleared, taken)
          \/ DeriveHandshakeSecret \/ FatalAlert \/ FinishHandshake
    BY <1>5 DEF Handshaking
  <2> QED  BY <2>1, HandshakeSteps, FinishHandshakeStep
<1>6. CASE Tick \/ UNCHANGED vars
  BY <1>6, QuietSteps
<1> QED  BY <1>1, <1>2, <1>3, <1>4, <1>5, <1>6 DEF Next

LEMMA Inductive == Spec => []IInv
<1>1. IInv /\ [Next]_vars => IInv'
  BY NextIInv
<1> QED  BY InitIInv, <1>1, PTL DEF Spec

(***************************************************************************)
(* A ticket accepted under the single-use policy is never accepted again,  *)
(* over evictions, cleanings, crashes and restarts from any earlier file.  *)
(***************************************************************************)
THEOREM SpentTicketsStaySpent == Spec => []SpentStaysSpent
<1>1. IInv => SpentStaysSpent
  BY MatchIsUnspent DEF IInv, SpentStaysSpent
<1> QED  BY <1>1, Inductive, PTL

(***************************************************************************)
(* No early data record of a single-use ticket is delivered twice while    *)
(* both checks are on.                                                     *)
(***************************************************************************)
THEOREM ServedAtMostOnce == Spec => ServedOnce
<1>1. ASSUME IInv, NEW id \in Ids, NEW s \in Seqs, NEW len \in Lengths,
             OpenRecord(id, s, len), require, antiReplay
      PROVE  <<id, s>> \notin served
  <2>1. accepted = id /\ Fresh(window, s)
    BY <1>1 DEF OpenRecord, MayOpen
  <2>2. accepted # None
    BY <2>1, EarlyDataAssumption DEF Ids, None
  <2> QED  BY <1>1, <2>1, <2>2 DEF IInv, Refusing
<1>2. IInv => [\A id \in Ids, s \in Seqs, len \in Lengths :
                 OpenRecord(id, s, len) /\ require /\ antiReplay /\ id \in spent
                   => <<id, s>> \notin served]_vars
  BY <1>1
<1> QED  BY <1>2, Inductive, PTL DEF ServedOnce

(***************************************************************************)
(* The early data delivered under an acceptance stays within the ticket's  *)
(* budget.                                                                 *)
(***************************************************************************)
THEOREM BudgetIsKept == Spec => []BudgetKept
<1>1. IInv => BudgetKept
  BY DEF IInv, Acceptance, BudgetKept
<1> QED  BY <1>1, Inductive, PTL

(***************************************************************************)
(* A received ClientHello in the transcript is the accepted one.           *)
(***************************************************************************)
THEOREM AcceptedIsOffered == Spec => []AcceptanceOfTranscript
<1>1. IInv => AcceptanceOfTranscript
  BY DEF IInv, Acceptance, AcceptanceOfTranscript
<1> QED  BY <1>1, Inductive, PTL

(***************************************************************************)
(* A ticket passes the age check with a fresh ClientHello exactly when it  *)
(* is within its lifetime, and with no stale one as long as its age and    *)
(* the skew do not fill the width.                                         *)
(***************************************************************************)
LEMMA AgeDecides ==
  ASSUME Typed, NEW t \in store, NEW made \in t.issued .. now
  PROVE  LET passes == AgeMatches(t, Claimed(t, made), now)
             live == now - t.issued <= t.lifetime
         IN /\ passes => live
            /\ live /\ now - made <= MaxSkew => passes
            /\ passes /\ (now - t.issued) + MaxSkew < AgeModulus => now - made <= MaxSkew
<1>1. t.issued \in Nat /\ now \in Nat /\ t.lifetime \in Nat
  <2>1. t.issued \in 0 .. MaxTime /\ t.lifetime \in Lifetimes
    BY DEF Typed, AllTickets, Tickets
  <2>2. MaxTime \in Nat /\ Lifetimes \subseteq Nat /\ now \in 0 .. MaxTime
    BY TicketAssumption, EarlyDataAssumption DEF Typed
  <2>3. t.lifetime \in Nat
    BY <2>1, <2>2
  <2>4. t.issued \in Nat /\ now \in Nat
    BY <2>1, <2>2
  <2> QED  BY <2>3, <2>4
<1>2. /\ now - t.issued \in Nat /\ made - t.issued \in 0 .. now - t.issued
      /\ now - made = (now - t.issued) - (made - t.issued)
      /\ ~(made < t.issued)
  BY <1>1
<1>3. Claimed(t, made) = Obfuscated(made - t.issued)
  BY <1>2 DEF Claimed
<1>4. AgeMatches(t, Claimed(t, made), now)
        <=> /\ now - t.issued <= t.lifetime
            /\ Distance(Obfuscated(now - t.issued), Obfuscated(made - t.issued)) <= MaxSkew
  BY <1>1, <1>3 DEF AgeMatches, Age
<1> QED  BY <1>2, <1>4, ObfuscatedDistance

\* The age check, clamped and wrapping, decides lifetime and skew.
THEOREM AgePolicyHolds == Spec => []AgePolicyExact
<1>1. IInv => AgePolicyExact
  BY AgeDecides DEF IInv, AgePolicyExact
<1> QED  BY <1>1, Inductive, PTL

-----------------------------------------------------------------------------
(***************************************************************************)
(* What a step makes of the store, its file and the clock.                 *)
(***************************************************************************)
LEMMA StoreSteps ==
  ASSUME [Next]_vars
  PROVE  /\ \/ store' \subseteq store
            \/ \E id \in Ids : store' = Consume(store, id)
            \/ store' = (file').tickets
            \/ \E terms \in Terms : Issue(terms)
         /\ (file').tickets \in {{}, store, file.tickets}
         /\ now' \in {now, now + 1}
<1>1. CASE Accepting
  <2>1. PICK h \in Hellos, made \in 0 .. now :
          \/ \E singleUse \in BOOLEAN :
               AcceptEarlyData(h, made, singleUse) \/ ResumeOnly(h, made, singleUse) \/ ApplyPolicy(h, made, singleUse)
          \/ RefuseHello(h, made)
          \/ FailOnHello(h, made)
    BY <1>1 DEF Accepting
  <2>2. UNCHANGED <<file, now>>
    BY <2>1 DEF AcceptEarlyData, ResumeOnly, ApplyPolicy, RefuseHello, FailOnHello, TakeHello
  <2>3. store' = store \/ \E singleUse \in BOOLEAN : store' = StoreAfter(h.id, singleUse)
    BY <2>1 DEF AcceptEarlyData, ResumeOnly, ApplyPolicy, RefuseHello, FailOnHello
  <2>4. h.id \in Ids
    BY DEF Hellos
  <2>5. store' = store \/ store' = Consume(store, h.id)
    BY <2>3 DEF StoreAfter
  <2> QED  BY <2>2, <2>4, <2>5
<1>2. CASE Opening \/ Policies
  BY <1>2 DEF Opening, SpoilRecord, OpenRecord, Policies, SetAntiReplay,
              SetRequireAcceptance, SetPolicy, ticketVars
<1>3. CASE Managing
  <2>1. CASE \E terms \in Terms : Issue(terms)
    BY <2>1 DEF Issue
  <2>2. CASE Clean
    BY <2>2 DEF Clean, Cleanings, RemoveConsumed, RemoveExpired, Rotate, InvalidateIdentity
  <2>3. CASE \E saving \in BOOLEAN : Restart(saving)
    BY <2>3 DEF Restart, Torn
  <2>4. CASE SaveToFile
    BY <2>4 DEF SaveToFile, Holding, ticketVars
  <2> QED  BY <1>3, <2>1, <2>2, <2>3, <2>4 DEF Managing
<1>4. CASE Handshaking
  BY <1>4 DEF Handshaking, SendHello, HelloNotSent, RecvServerHello, RecvEncryptedExtensions,
              DeriveHandshakeSecret, FinishHandshake, FatalAlert, ticketVars
<1>5. CASE Tick \/ UNCHANGED vars
  BY <1>5 DEF Tick, vars, ticketVars
<1> QED  BY <1>1, <1>2, <1>3, <1>4, <1>5 DEF Next

(***************************************************************************)
(* No ticket was issued in the future: every ticket of the store and its   *)
(* file keeps the time of its issue, and the clock does not go back.       *)
(***************************************************************************)
Past == \A t \in store \cup file.tickets : t.issued <= now

LEMMA IssueTimesKept ==
  ASSUME Typed, [Next]_vars
  PROVE  /\ \A u \in store' : \/ \E t \in store \cup file.tickets : u.issued = t.issued
                              \/ u.issued \in {0, now}
         /\ (file').tickets \subseteq store \cup file.tickets
         /\ now' \in {now, now + 1}
<1>1. (file').tickets \subseteq store \cup file.tickets /\ now' \in {now, now + 1}
  BY StoreSteps
<1>2. ASSUME NEW u \in store'
      PROVE  (\E t \in store \cup file.tickets : u.issued = t.issued) \/ u.issued \in {0, now}
  <2>1. CASE store' \subseteq store \/ store' = (file').tickets
    BY <1>1, <2>1
  <2>2. CASE \E id \in Ids : store' = Consume(store, id)
    <3>1. PICK id \in Ids : store' = StoreAfter(id, TRUE)
      BY <2>2 DEF StoreAfter
    <3>2. u \in StoreAfter(id, TRUE)
      BY <3>1
    <3> QED  BY <3>2, StoreAfterFacts
  <2>3. CASE \E terms \in Terms : Issue(terms)
    BY <2>3 DEF Issue, Insert, NewTicket
  <2> QED  BY <2>1, <2>2, <2>3, StoreSteps
<1> QED  BY <1>1, <1>2

LEMMA PastStep ==
  ASSUME Typed, Past, [Next]_vars
  PROVE  Past'
<1>1. now \in Nat /\ now' \in Nat /\ now <= now'
  BY IssueTimesKept, EarlyDataAssumption DEF Typed
<1>2. \A t \in store \cup file.tickets : t.issued \in Nat /\ t.issued <= now'
  <2> SUFFICES ASSUME NEW t \in store \cup file.tickets
               PROVE  t.issued \in Nat /\ t.issued <= now'
    OBVIOUS
  <2>1. t \in AllTickets
    BY DEF Typed
  <2>2. t.issued \in Nat
    BY <2>1, EarlyDataAssumption DEF AllTickets, Tickets
  <2> QED  BY <1>1, <2>2 DEF Past
<1> QED  BY <1>1, <1>2, IssueTimesKept DEF Past

(***************************************************************************)
(* Cleaning the store and checking an offer agree on the tickets that are  *)
(* of use: a ticket rotate keeps passes the checks of flag and age with a  *)
(* ClientHello made now, and one it drops passes them with none.           *)
(***************************************************************************)
THEOREM RotateKeepsTheUsable == Spec => []RotateKeepsUsable
<1>1. ASSUME Typed, Past, NEW t \in store
      PROVE  t \in Rotate(store, now)
               <=> \E h \in Hellos, made \in 0 .. now : Candidate(t, h, made)
  <2>1. t.issued \in 0 .. MaxTime /\ t.lifetime \in Lifetimes /\ t.id \in Ids
    BY <1>1 DEF Typed, AllTickets, Tickets
  <2>a. /\ MaxTime \in Nat /\ MaxSkew \in Nat /\ Lifetimes \subseteq Nat
        /\ now \in 0 .. MaxTime /\ t.issued <= now
    BY <1>1, TicketAssumption, EarlyDataAssumption DEF Typed, Past
  <2>2. /\ t.issued \in Nat /\ now \in Nat /\ t.issued <= now
        /\ t.lifetime \in Nat /\ MaxSkew \in Nat /\ t.id \in Ids
    <3>1. t.lifetime \in Nat
      BY <2>1, <2>a
    <3>2. t.issued \in Nat /\ now \in Nat
      BY <2>1, <2>a
    <3> QED  BY <2>1, <2>a, <3>1, <3>2
  <2>3. t \in Rotate(store, now) <=> ~t.consumed /\ now - t.issued <= t.lifetime
    BY <1>1 DEF Rotate, RemoveExpired, RemoveConsumed, Age
  <2>4. ASSUME ~t.consumed, now - t.issued <= t.lifetime
        PROVE  \E h \in Hellos, made \in 0 .. now : Candidate(t, h, made)
    <3>1. now \in t.issued .. now /\ now \in 0 .. now /\ now - now <= MaxSkew
      BY <2>2
    <3>2. AgeMatches(t, Claimed(t, now), now)
      BY <1>1, <2>4, <3>1, AgeDecides
    <3>3. [id |-> t.id, kind |-> "plain"] \in Hellos
      BY <2>2 DEF Hellos
    <3> QED  BY <2>4, <3>1, <3>2, <3>3 DEF Candidate
  <2>5. ASSUME NEW h \in Hellos, NEW made \in 0 .. now, Candidate(t, h, made)
        PROVE  ~t.consumed /\ now - t.issued <= t.lifetime
    BY <2>2, <2>5 DEF Candidate, AgeMatches, Age
  <2> QED  BY <2>3, <2>4, <2>5
<1>2. Typed /\ Past => RotateKeepsUsable
  BY <1>1 DEF RotateKeepsUsable
<1>3. Init => Past
  BY DEF Init, Past, Torn
<1>4. IInv /\ Past /\ [Next]_vars => Past'
  BY PastStep DEF IInv
<1>5. IInv => Typed
  BY DEF IInv
<1> QED  BY <1>2, <1>3, <1>4, <1>5, Inductive, PTL DEF Spec

-----------------------------------------------------------------------------
(***************************************************************************)
(* The capacity of the store (TicketStore::insert, load_from_file).  No    *)
(* two tickets of a store have the same number, and there are never more   *)
(* of them than its capacity; so it is with the file.                      *)
(***************************************************************************)
Fits(tickets) ==
  /\ IsFiniteSet(tickets) /\ Cardinality(tickets) <= Capacity
  /\ \A t, u \in tickets : t.id = u.id => t = u

\* Fewer tickets fit where more do.
LEMMA SubsetFits ==
  ASSUME NEW tickets, Fits(tickets), NEW fewer \in SUBSET tickets
  PROVE  Fits(fewer)
<1>1. IsFiniteSet(tickets) /\ Cardinality(tickets) \in Nat /\ Cardinality(fewer) \in Nat
  BY FS_Subset, FS_CardinalityType DEF Fits
<1>2. IsFiniteSet(fewer) /\ Cardinality(fewer) <= Cardinality(tickets)
  BY <1>1, FS_Subset
<1>3. Cardinality(fewer) <= Capacity
  BY <1>1, <1>2, TicketAssumption DEF Fits
<1> QED  BY <1>2, <1>3 DEF Fits

\* What is left of a store into which a ticket with a new number goes: the
\* count of newer tickets tells the ones that are left apart.
LEMMA InsertFits ==
  ASSUME NEW tickets, Fits(tickets), NEW t,
         t.id \in Int, \A u \in tickets : u.id \in Int /\ u.id # t.id
  PROVE  Fits(Insert(tickets, t))
<1> DEFINE all == tickets \cup {t}
           newer(u) == {v \in all : v.id > u.id}
           left == Insert(tickets, t)
           f == [u \in left |-> Cardinality(newer(u))]
           places == 0 .. Capacity - 1
<1>1. /\ \A u \in all : u.id \in Int
      /\ \A u, v \in all : u.id = v.id => u = v
  BY DEF Fits
<1>2. IsFiniteSet(all)
  BY FS_AddElement DEF Fits
<1>3. ASSUME NEW u \in all
      PROVE  IsFiniteSet(newer(u)) /\ Cardinality(newer(u)) \in Nat
  <2>1. newer(u) \in SUBSET all
    OBVIOUS
  <2>2. IsFiniteSet(newer(u))
    BY <1>2, <2>1, FS_Subset
  <2> QED  BY <2>2, FS_CardinalityType
<1>4. ASSUME NEW u \in all, NEW v \in all, u.id < v.id
      PROVE  Cardinality(newer(v)) < Cardinality(newer(u))
  <2> DEFINE N == newer(v)
             M == newer(u)
  <2>1. v \in M /\ v \notin N /\ N \subseteq M
    BY <1>1, <1>4
  <2>2. /\ IsFiniteSet(N) /\ Cardinality(N) \in Nat
        /\ IsFiniteSet(M) /\ Cardinality(M) \in Nat
    BY <1>3
  <2> HIDE DEF N, M
  <2>3. Cardinality(N) <= Cardinality(M) /\ (Cardinality(N) = Cardinality(M) => M = N)
    BY <2>1, <2>2, FS_Subset
  <2>4. Cardinality(N) # Cardinality(M)
    BY <2>1, <2>3
  <2>5. Cardinality(N) < Cardinality(M)
    BY <2>2, <2>3, <2>4
  <2> QED  BY <2>5 DEF N, M
<1>5. left = {u \in all : Cardinality(newer(u)) < Capacity}
  BY DEF Insert
<1>6. f \in Injection(left, places)
  <2>1. ASSUME NEW u \in left PROVE f[u] \in places
    <3>1. u \in all /\ f[u] = Cardinality(newer(u)) /\ Cardinality(newer(u)) < Capacity
      BY <1>5
    <3>2. f[u] \in Nat
      BY <1>3, <3>1
    <3> QED  BY <3>1, <3>2, TicketAssumption
  <2>2. ASSUME NEW u \in left, NEW v \in left, f[u] = f[v] PROVE u = v
    <3>1. u \in all /\ v \in all
      BY <1>5
    <3>2. Cardinality(newer(u)) = Cardinality(newer(v)) /\ Cardinality(newer(u)) \in Nat
      BY <1>3, <2>2, <3>1
    <3>3. ~(u.id < v.id) /\ ~(v.id < u.id)
      <4> DEFINE n(w) == Cardinality(newer(w))
      <4>1. n(u) = n(v) /\ n(u) \in Nat
        BY <3>2
      <4>2. /\ u.id < v.id => n(v) < n(u)
            /\ v.id < u.id => n(u) < n(v)
        BY <1>4, <3>1
      <4> HIDE DEF n
      <4> QED  BY <4>1, <4>2
    <3>4. u.id = v.id
      BY <1>1, <3>1, <3>3
    <3> QED  BY <1>1, <3>1, <3>4
  <2>3. f \in [left -> places]
    BY <2>1
  <2> HIDE DEF f, left, places
  <2> QED  BY <2>2, <2>3 DEF Injection, IsInjective
<1>7. IsFiniteSet(places) /\ Cardinality(places) = Capacity
  BY TicketAssumption, FS_Interval
<1>8. IsFiniteSet(left) /\ Cardinality(left) <= Capacity
  <2> HIDE DEF f, left, places
  <2> QED  BY <1>6, <1>7, FS_Injection
<1>9. \A u, v \in left : u.id = v.id => u = v
  BY <1>1, <1>5
<1> QED  BY <1>8, <1>9 DEF Fits

\* A ticket that is used up keeps its number and its place.
LEMMA ConsumeFits ==
  ASSUME Typed, Fits(store), NEW id \in Ids
  PROVE  Fits(Consume(store, id))
<1> DEFINE f == [t \in store |-> IF t.id = id THEN [t EXCEPT !.consumed = TRUE] ELSE t]
           after == Consume(store, id)
<1>1. after = {f[t] : t \in store}
  BY DEF Consume
<1>2. \A t \in store : f[t].id = t.id
  BY DEF Typed, AllTickets, Tickets
<1>3. \A t \in store : f[t] \in after
  BY <1>1
<1>4. \A u \in after : \E t \in store : u = f[t]
  BY <1>1
<1>5. f \in Surjection(store, after)
  <2>1. f \in [store -> after]
    BY <1>3
  <2> HIDE DEF f, after
  <2> QED  BY <1>4, <2>1 DEF Surjection
<1>6. IsFiniteSet(store) /\ Cardinality(store) \in Nat /\ Cardinality(store) <= Capacity
  BY FS_CardinalityType DEF Fits
<1>7. IsFiniteSet(after) /\ Cardinality(after) <= Cardinality(store)
  <2> HIDE DEF f, after
  <2> QED  BY <1>5, <1>6, FS_Surjection
<1>8. Cardinality(after) \in Nat
  BY <1>7, FS_CardinalityType
<1>9. ASSUME NEW u \in after, NEW v \in after, u.id = v.id PROVE u = v
  <2>1. PICK t \in store : u = f[t]
    BY <1>4
  <2>2. PICK s \in store : v = f[s]
    BY <1>4
  <2>3. t.id = s.id
    BY <1>2, <1>9, <2>1, <2>2
  <2>4. t = s
    BY <2>3 DEF Fits
  <2> QED  BY <2>1, <2>2, <2>4
<1>10. Cardinality(after) <= Capacity
  BY <1>6, <1>7, <1>8, TicketAssumption
<1> HIDE DEF after, f
<1>11. Fits(after)
  BY <1>7, <1>9, <1>10 DEF Fits
<1> QED  BY <1>11 DEF after

AllFit == Fits(store) /\ Fits(file.tickets)

LEMMA StepFits ==
  ASSUME IInv, AllFit, [Next]_vars
  PROVE  AllFit'
<1>1. Fits({})
  BY FS_EmptySet, TicketAssumption DEF Fits
<1>2. Fits((file').tickets)
  BY <1>1, StoreSteps DEF AllFit
<1>3. Fits(store')
  <2>1. CASE store' \subseteq store
    BY <2>1, SubsetFits DEF AllFit
  <2>2. CASE \E id \in Ids : store' = Consume(store, id)
    BY <2>2, ConsumeFits DEF AllFit, IInv
  <2>3. CASE store' = (file').tickets
    BY <1>2, <2>3
  <2>4. CASE \E terms \in Terms : Issue(terms)
    <3>1. PICK terms \in Terms : Issue(terms)
      BY <2>4
    <3> DEFINE new == NewTicket(terms)
    <3>2. store' = Insert(store, new) /\ new.id = issued + 1
      BY <3>1 DEF Issue, NewTicket
    <3>3. issued \in Nat
      BY EarlyDataAssumption DEF IInv, Typed
    <3>4. \A u \in store : u.id \in Int /\ u.id <= issued
      BY EarlyDataAssumption DEF IInv, Typed, Known, AllTickets, Tickets, Ids
    <3>5. new.id \in Int /\ \A u \in store : u.id \in Int /\ u.id # new.id
      BY <3>2, <3>3, <3>4
    <3> HIDE DEF new
    <3> QED  BY <3>2, <3>5, InsertFits DEF AllFit
  <2> QED  BY <2>1, <2>2, <2>3, <2>4, StoreSteps
<1> QED  BY <1>2, <1>3 DEF AllFit

LEMMA AlwaysFit == Spec => []AllFit
<1>1. Init => AllFit
  BY FS_EmptySet, TicketAssumption DEF Init, AllFit, Fits, Torn
<1>2. IInv /\ AllFit /\ [Next]_vars => AllFit'
  BY StepFits
<1> QED  BY <1>1, <1>2, Inductive, PTL DEF Spec

(***************************************************************************)
(* The variables Typed says less of, or nothing.                           *)
(***************************************************************************)
RestTyped ==
  /\ state \in States /\ require \in BOOLEAN /\ antiReplay \in BOOLEAN
  /\ transcript \in Hellos \cup {OwnHello, NoMessages, Handshake}
  /\ limit \in Budgets \cup {None}
  /\ file \in [readable : BOOLEAN, tickets : SUBSET AllTickets]

LEMMA RestStep ==
  ASSUME IInv, RestTyped, [Next]_vars
  PROVE  RestTyped'
<1>a. Torn \in [readable : BOOLEAN, tickets : SUBSET AllTickets]
  BY DEF Torn
<1>1. CASE Accepting
  <2>1. PICK h \in Hellos, made \in 0 .. now :
          \/ \E singleUse \in BOOLEAN :
               AcceptEarlyData(h, made, singleUse) \/ ResumeOnly(h, made, singleUse) \/ ApplyPolicy(h, made, singleUse)
          \/ RefuseHello(h, made)
          \/ FailOnHello(h, made)
    BY <1>1 DEF Accepting
  <2>2. /\ UNCHANGED <<state, require, antiReplay, file>>
        /\ transcript' \in {h, transcript}
    BY <2>1 DEF AcceptEarlyData, ResumeOnly, ApplyPolicy, RefuseHello, FailOnHello,
                TakeHello, policyVars
  <2>3. limit' \in {limit, None} \/ \E t \in store : limit' = t.budget
    BY <2>1 DEF AcceptEarlyData, ResumeOnly, ApplyPolicy, RefuseHello, FailOnHello,
                ClearAcceptance, acceptVars
  <2>4. \A t \in store : t.budget \in Budgets
    BY DEF IInv, Typed, AllTickets, Tickets
  <2> QED  BY <2>2, <2>3, <2>4 DEF RestTyped
<1>2. CASE Opening
  BY <1>2 DEF Opening, SpoilRecord, OpenRecord, ticketVars, acceptVars, policyVars, RestTyped
<1>3. CASE Policies
  BY <1>3 DEF Policies, SetAntiReplay, SetRequireAcceptance, SetPolicy, ClearAcceptance,
              ticketVars, acceptVars, RestTyped
<1>4. CASE Managing
  <2>1. CASE SaveToFile
    <3>1. file' \in [readable : BOOLEAN, tickets : SUBSET AllTickets]
      BY <2>1 DEF SaveToFile, Holding, IInv, Typed
    <3> QED  BY <2>1, <3>1 DEF SaveToFile, ticketVars, acceptVars, policyVars, RestTyped
  <2>2. CASE \E saving \in BOOLEAN : Restart(saving)
    BY <1>a, <2>2 DEF Restart, FreshConnection, States, RestTyped
  <2>3. CASE ~SaveToFile /\ ~(\E saving \in BOOLEAN : Restart(saving))
    BY <1>4, <2>3 DEF Managing, Issue, Clean, acceptVars, policyVars, RestTyped
  <2> QED  BY <2>1, <2>2, <2>3
<1>5. CASE Handshaking
  BY <1>5 DEF Handshaking, SendHello, HelloNotSent, RecvServerHello, RecvEncryptedExtensions,
              DeriveHandshakeSecret, FinishHandshake, FatalAlert, ticketVars, acceptVars,
              policyVars, States, RestTyped
<1>6. CASE Tick \/ UNCHANGED vars
  BY <1>6 DEF Tick, vars, ticketVars, acceptVars, policyVars, RestTyped
<1> QED  BY <1>1, <1>2, <1>3, <1>4, <1>5, <1>6 DEF Next

(***************************************************************************)
(* Every reachable state is well typed, and the store never holds more     *)
(* tickets than its capacity: not after an issue, and not after a restart. *)
(***************************************************************************)
THEOREM TypeCorrect == Spec => []TypeOK
<1>1. Init => RestTyped
  <2>1. Torn \in [readable : BOOLEAN, tickets : SUBSET AllTickets]
    BY DEF Torn
  <2> QED  BY <2>1 DEF Init, States, RestTyped
<1>2. IInv /\ RestTyped /\ [Next]_vars => RestTyped'
  BY RestStep
<1>3. IInv /\ AllFit /\ RestTyped => TypeOK
  <2> SUFFICES ASSUME IInv, AllFit, RestTyped PROVE TypeOK
    OBVIOUS
  <2>1. Typed /\ Known
    BY DEF IInv
  <2>2. master \in 0 .. MaxHandshakes
    BY <2>1, EarlyDataAssumption DEF Typed
  <2>3. spent \subseteq Ids /\ served \subseteq Ids \X Seqs
    <3>1. 1 .. issued \subseteq Ids
      BY <2>1, EarlyDataAssumption DEF Typed, Ids
    <3> QED  BY <2>1, <3>1 DEF Known
  <2>4. Cardinality(store) <= Capacity
    BY DEF AllFit, Fits
  <2> QED  BY <2>1, <2>2, <2>3, <2>4 DEF TypeOK, Typed, RestTyped, AllTickets
<1> QED  BY <1>1, <1>2, <1>3, Inductive, AlwaysFit, PTL DEF Spec
=============================================================================
