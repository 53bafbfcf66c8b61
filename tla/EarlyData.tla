----------------------------- MODULE EarlyData -----------------------------
(***************************************************************************)
(* Session tickets and early data on the server's side of a TLS 1.3        *)
(* Connection: issue, acceptance of the ticket a ClientHello offers, early *)
(* data records under the accepted ticket, the cleaning of the ticket      *)
(* store, its file, and crashes.                                           *)
(*                                                                         *)
(* A ClientHello may be delivered again at any later time, an early data   *)
(* record in any order and any number of times, and both damaged.  The     *)
(* network is not a variable: every hello a client can have made by now    *)
(* and every record it can have sealed under one is an input.              *)
(***************************************************************************)
EXTENDS DtlsReplay, TicketStore

CONSTANTS
  MaxTime,        \* bound: the clock stops here
  MaxHandshakes,  \* bound: handshakes, over all processes
  MaxTickets,     \* bound: tickets issued, over all processes
  MaxSequence,    \* bound: highest record number
  Budgets,        \* values of max_early_data_size
  Terms,          \* how tickets are issued: with the time or at 0, and for how long
  Lengths         \* lengths of a plaintext

ASSUME EarlyDataAssumption ==
  /\ {MaxTime, MaxHandshakes, MaxTickets, MaxSequence} \subseteq Nat
  /\ Budgets \subseteq Nat /\ Lengths \subseteq Nat
  /\ Terms \subseteq [timed : BOOLEAN, lifetime : Lifetimes, budget : Budgets]

\* An Option that holds nothing.
None == -1

\* A file that cannot be read, or none at all, and one that was written whole.
Torn == [readable |-> FALSE, tickets |-> {}]
Holding(tickets) == [readable |-> TRUE, tickets |-> tickets]

\* Transcripts other than one received ClientHello: the ClientHello this
\* Connection has sent, none at all, and messages of a handshake.
OwnHello == [id |-> 0, kind |-> "own"]
NoMessages == [id |-> 0, kind |-> "empty"]
Handshake == [id |-> 0, kind |-> "handshake"]

\* HandshakeState; "KeysPending" stands for the states from
\* ServerEncryptedExtensionsReceived to KeysDerived.
States == {"Idle", "ClientHelloSent", "ServerHelloReceived", "KeysPending", "Finished"}

Ids == 1 .. MaxTickets
Seqs == 0 .. MaxSequence

\* A ClientHello: the ticket it offers, and whether it offers early data with
\* it, does not, or has a binder that was not made with the key of the ticket.
\* When it was made, which decides the age it claims, is a second input.
Hellos == [id : Ids, kind : {"early", "plain", "forged"}]

VARIABLES
  now,
  master,      \* handshake whose resumption secret is installed, 0 for none
  state,
  transcript,  \* the ClientHello that makes up the transcript, or what else does
  store,       \* the TicketStore in memory
  file,        \* what its file holds
  accepted,    \* tls13_early_data_accepted_psk, named by its ticket
  limit,       \* tls13_early_data_max_bytes
  opened,      \* tls13_early_data_opened_bytes
  window,      \* tls13_early_data_replay_window
  require,     \* tls13_early_data_require_acceptance
  antiReplay,  \* tls13_early_data_anti_replay_enabled
  handshakes,  \* history: handshakes finished so far
  issued,      \* history: tickets issued so far
  spent,       \* history: tickets accepted under the single-use policy
  served,      \* history: (ticket, number) delivered under both checks
  banked       \* history: plaintext delivered under the acceptance

ticketVars == <<master, state, store, handshakes, issued>>
acceptVars == <<accepted, limit, opened>>
policyVars == <<require, antiReplay>>
vars == <<now, ticketVars, transcript, file, acceptVars, window, policyVars,
          spent, served, banked>>

TypeOK ==
  /\ now \in 0 .. MaxTime
  /\ master \in 0 .. MaxHandshakes /\ handshakes \in 0 .. MaxHandshakes
  /\ state \in States
  /\ transcript \in Hellos \cup {OwnHello, NoMessages, Handshake}
  /\ store \subseteq Tickets(Ids, 1 .. MaxHandshakes, 0 .. MaxTime, Budgets)
  /\ file \in [readable : BOOLEAN,
               tickets : SUBSET Tickets(Ids, 1 .. MaxHandshakes, 0 .. MaxTime, Budgets)]
  /\ Cardinality(store) <= Capacity
  /\ accepted \in Ids \cup {None}
  /\ limit \in Budgets \cup {None}
  /\ opened \in Nat /\ banked \in Nat
  /\ window \in Window(Seqs)
  /\ require \in BOOLEAN /\ antiReplay \in BOOLEAN
  /\ issued \in 0 .. MaxTickets
  /\ spent \subseteq Ids
  /\ served \subseteq Ids \X Seqs

\* A new Connection: new() and its defaults.
FreshConnection ==
  /\ master' = 0 /\ state' = "Idle" /\ transcript' = NoMessages
  /\ accepted' = None /\ limit' = None /\ opened' = 0
  /\ window' = NewWindow
  /\ require' = FALSE /\ antiReplay' = TRUE
  /\ banked' = 0

Init ==
  /\ now = 0
  /\ master = 0 /\ state = "Idle" /\ transcript = NoMessages
  /\ store = {} /\ file = Torn
  /\ accepted = None /\ limit = None /\ opened = 0
  /\ window = NewWindow
  /\ require = FALSE /\ antiReplay = TRUE
  /\ handshakes = 0 /\ issued = 0
  /\ spent = {} /\ served = {} /\ banked = 0

(***************************************************************************)
(* The handshake, tickets and the store.                                   *)
(***************************************************************************)
\* send_client_hello and its variants: what was accepted stays.  Only the
\* calls that take a list of tickets work in every state, with a resumption
\* secret to derive the keys of the tickets from.
SendHello ==
  /\ state = "Idle" \/ master # 0
  /\ handshakes < MaxHandshakes
  /\ state' = "ClientHelloSent" /\ transcript' = OwnHello
  /\ UNCHANGED <<now, master, store, handshakes, issued, file, acceptVars, window,
                 policyVars, spent, served, banked>>

\* The call fails after it has cleared the transcript, and leaves the state.
HelloNotSent ==
  /\ transcript' = NoMessages
  /\ UNCHANGED <<now, ticketVars, file, acceptVars, window, policyVars, spent,
                 served, banked>>

\* recv_server_hello: a HelloRetryRequest asks for another hello.
RecvServerHello(retry) ==
  /\ state = "ClientHelloSent"
  /\ state' = IF retry THEN "Idle" ELSE "ServerHelloReceived"
  /\ transcript' = Handshake
  /\ UNCHANGED <<now, master, store, handshakes, issued, file, acceptVars, window,
                 policyVars, spent, served, banked>>

\* recv_encrypted_extensions clears what was accepted when early data was
\* offered and the peer refuses it.  What it says of ALPN may be refused after
\* that.
RecvEncryptedExtensions(cleared, taken) ==
  /\ state = "ServerHelloReceived"
  /\ IF taken THEN state' = "KeysPending" /\ transcript' = Handshake
              ELSE UNCHANGED <<state, transcript>>
  /\ IF cleared
     THEN /\ accepted' = None /\ limit' = None /\ opened' = 0 /\ banked' = 0
          /\ window' = NewWindow
     ELSE UNCHANGED <<acceptVars, banked, window>>
  /\ UNCHANGED <<now, master, store, handshakes, issued, file, policyVars, spent, served>>

\* derive_handshake_secret leads on without EncryptedExtensions, too.
DeriveHandshakeSecret ==
  /\ state = "ServerHelloReceived" /\ state' = "KeysPending"
  /\ UNCHANGED <<now, master, store, handshakes, issued, transcript, file,
                 acceptVars, window, policyVars, spent, served, banked>>

\* finish: the handshake has a resumption secret of its own.
FinishHandshake ==
  /\ state = "KeysPending" /\ handshakes < MaxHandshakes
  /\ state' = "Finished" /\ transcript' = Handshake
  /\ handshakes' = handshakes + 1 /\ master' = handshakes + 1
  /\ UNCHANGED <<now, store, issued, file, acceptVars, banked, window, policyVars,
                 spent, served>>

\* A fatal alert, sent or received, leaves the secrets where they are.
FatalAlert ==
  /\ state' = "Idle"
  /\ UNCHANGED <<now, master, store, handshakes, issued, transcript, file,
                 acceptVars, window, policyVars, spent, served, banked>>

\* The ticket that is issued next.  Without a time it counts as issued at 0.
NewTicket(terms) ==
  [id |-> issued + 1, master |-> master, issued |-> IF terms.timed THEN now ELSE 0,
   lifetime |-> terms.lifetime, budget |-> terms.budget, consumed |-> FALSE]

\* issue_tls13_resumption_ticket_..._into_store
Issue(terms) ==
  /\ state = "Finished" /\ issued < MaxTickets
  /\ issued' = issued + 1
  /\ store' = Insert(store, NewTicket(terms))
  /\ UNCHANGED <<now, master, state, handshakes, transcript, file, acceptVars,
                 window, policyVars, spent, served, banked>>

\* rotate, remove_consumed, remove_expired, invalidate_identity
Cleanings ==
  {RemoveConsumed(store), RemoveExpired(store, now), Rotate(store, now)}
    \cup {InvalidateIdentity(store, id) : id \in Ids}

Clean ==
  /\ store' \in Cleanings
  /\ UNCHANGED <<now, master, state, handshakes, issued, transcript, file,
                 acceptVars, window, policyVars, spent, served, banked>>

\* save_to_file that runs to its end.
SaveToFile ==
  /\ file' = Holding(store)
  /\ UNCHANGED <<now, ticketVars, transcript, acceptVars, window, policyVars,
                 spent, served, banked>>

\* The process ends, between two calls or inside save_to_file, which has
\* truncated the file by then, and starts again: load_from_file brings back
\* the store, an error of it makes a new one, and a handshake comes later.
Restart(saving) ==
  /\ handshakes > 0
  /\ FreshConnection
  /\ file' = IF saving THEN Torn ELSE file
  /\ store' = file'.tickets
  /\ UNCHANGED <<now, handshakes, issued, spent, served>>

Tick ==
  /\ now < MaxTime /\ now' = now + 1
  /\ UNCHANGED <<ticketVars, transcript, file, acceptVars, window, policyVars,
                 spent, served, banked>>

(***************************************************************************)
(* The ticket a ClientHello offers.                                        *)
(***************************************************************************)
\* The checks that come before the key of the ticket is derived.
Candidate(t, h, made) == t.id = h.id /\ ~t.consumed /\ AgeMatches(t, Claimed(t, made), now)

\* Faulty variant of BinderMatches: the key does not depend on the handshake.
BinderMatchesAny(t, h) == h.kind # "forged"

\* The key is derived from the resumption secret installed now: the binder
\* fits only when that is the one the ticket was issued under.
BinderMatches(t, h) == h.kind # "forged" /\ t.master = master

Matches(t, h, made) == Candidate(t, h, made) /\ BinderMatches(t, h)

\* verify_client_hello_psk_binder_for_tickets_with_age fails on the first
\* candidate while no resumption secret is installed.
NoSecretFor(h, made) == master = 0 /\ \E t \in store : Candidate(t, h, made)

\* The store after the usage policy has been applied to the match.
StoreAfter(id, singleUse) == IF singleUse THEN Consume(store, id) ELSE store

\* verify_and_apply_client_hello_psk_policy alone: resumption without early data.
ApplyPolicy(h, made, singleUse) ==
  /\ master # 0 /\ \E t \in store : Matches(t, h, made)
  /\ store' = StoreAfter(h.id, singleUse)
  /\ spent' = IF singleUse THEN spent \cup {h.id} ELSE spent
  /\ UNCHANGED <<now, master, state, handshakes, issued, transcript, file,
                 acceptVars, window, policyVars, served, banked>>

(***************************************************************************)
(* accept_tls13_early_data_with_ticket_policy, by what becomes of the      *)
(* ClientHello.                                                            *)
(***************************************************************************)
\* What the call does before it looks for a ticket.
TakeHello(h) ==
  /\ transcript' = h
  /\ opened' = 0
  /\ UNCHANGED <<now, master, state, handshakes, issued, file, policyVars>>

\* Faulty variant of ClearAcceptance: the key stays.
ClearAcceptanceKept == UNCHANGED accepted /\ limit' = None

ClearAcceptance == accepted' = None /\ limit' = None

\* The ticket matches and early data is offered and allowed.
AcceptEarlyData(h, made, singleUse) ==
  /\ master # 0
  /\ \E t \in store :
       /\ Matches(t, h, made) /\ h.kind = "early" /\ t.budget > 0
       /\ limit' = t.budget
  /\ TakeHello(h)
  /\ accepted' = h.id
  /\ window' = NewWindow /\ banked' = 0
  /\ store' = StoreAfter(h.id, singleUse)
  /\ spent' = IF singleUse THEN spent \cup {h.id} ELSE spent
  /\ UNCHANGED served

\* The ticket matches, and is used up if the policy says so, but there is no
\* early data to accept.
ResumeOnly(h, made, singleUse) ==
  /\ master # 0
  /\ \E t \in store : Matches(t, h, made) /\ ~(h.kind = "early" /\ t.budget > 0)
  /\ TakeHello(h)
  /\ ClearAcceptance /\ banked' = 0
  /\ store' = StoreAfter(h.id, singleUse)
  /\ spent' = IF singleUse THEN spent \cup {h.id} ELSE spent
  /\ UNCHANGED <<window, served>>

RefuseHello(h, made) ==
  /\ ~NoSecretFor(h, made) /\ ~\E t \in store : Matches(t, h, made)
  /\ TakeHello(h)
  /\ ClearAcceptance /\ banked' = 0
  /\ UNCHANGED <<window, store, spent, served>>

\* The search fails with an error: what was accepted stays.
FailOnHello(h, made) ==
  /\ NoSecretFor(h, made)
  /\ TakeHello(h)
  /\ UNCHANGED <<accepted, limit, window, store, spent, served, banked>>

(***************************************************************************)
(* Early data records.                                                     *)
(***************************************************************************)
\* The checks of open_tls13_early_data_record before the number is marked.
\* The key named by id is the caller's argument.
MayOpen(id, s) ==
  /\ state \in {"ClientHelloSent", "ServerHelloReceived", "Finished"}
  /\ require => accepted = id
  /\ antiReplay => Fresh(window, s)

\* Faulty variant of MarkNumber: the window is left alone.
MarkNumberNot(s) == UNCHANGED window

MarkNumber(s) == window' = IF antiReplay THEN Mark(window, s) ELSE window

\* Faulty variant of WithinLimit: the last record may overshoot.
WithinLimitBefore(len) == limit # None => opened < limit

WithinLimit(len) == limit # None => opened + len <= limit

\* The record number s, sealed under the key of ticket id and what is in the
\* transcript, is opened: nobody seals over more than one ClientHello.
OpenRecord(id, s, len) ==
  /\ MayOpen(id, s) /\ transcript # Handshake /\ WithinLimit(len)
  /\ MarkNumber(s)
  /\ opened' = IF limit # None THEN opened + len ELSE opened
  /\ banked' = IF accepted # None THEN banked + len ELSE banked
  /\ served' = IF require /\ antiReplay /\ id \in spent
             THEN served \cup {<<id, s>>}
             ELSE served
  /\ UNCHANGED <<now, ticketVars, transcript, file, accepted, limit, policyVars, spent>>

\* The number is marked, then the record fails: it was damaged or sealed
\* under other keys, is too long, or exceeds the budget.
SpoilRecord(id, s) ==
  /\ MayOpen(id, s)
  /\ MarkNumber(s)
  /\ UNCHANGED <<now, ticketVars, transcript, file, acceptVars, policyVars,
                 spent, served, banked>>

(***************************************************************************)
(* Policy.                                                                 *)
(***************************************************************************)
\* set_tls13_early_data_anti_replay_enabled: switched on, even when it is on,
\* the check starts with an empty window.
SetAntiReplay(on) ==
  /\ antiReplay' = on
  /\ window' = IF on THEN NewWindow ELSE window
  /\ served' = IF on THEN {} ELSE served
  /\ UNCHANGED <<now, ticketVars, transcript, file, acceptVars, require, spent, banked>>

\* set_tls13_early_data_operational_policy; with the anti-replay check left
\* as it is, set_tls13_require_early_data_acceptance.
SetPolicy(required, on) ==
  /\ require' = required
  /\ ClearAcceptance /\ opened' = 0 /\ banked' = 0
  /\ antiReplay' = on
  /\ window' = IF on THEN NewWindow ELSE window
  /\ UNCHANGED <<now, ticketVars, transcript, file, spent, served>>

SetRequireAcceptance(required) ==
  /\ require' = required
  /\ ClearAcceptance /\ opened' = 0 /\ banked' = 0
  /\ UNCHANGED <<now, ticketVars, transcript, file, antiReplay, window, spent, served>>

Accepting ==
  \E h \in Hellos, made \in 0 .. now :
    \/ \E singleUse \in BOOLEAN :
         AcceptEarlyData(h, made, singleUse) \/ ResumeOnly(h, made, singleUse) \/ ApplyPolicy(h, made, singleUse)
    \/ RefuseHello(h, made)
    \/ FailOnHello(h, made)

Opening ==
  \E id \in 1 .. issued, s \in Seqs :
    SpoilRecord(id, s) \/ \E len \in Lengths : OpenRecord(id, s, len)

Handshaking ==
  \/ SendHello \/ HelloNotSent
  \/ \E retry \in BOOLEAN : RecvServerHello(retry)
  \/ \E cleared, taken \in BOOLEAN : RecvEncryptedExtensions(cleared, taken)
  \/ DeriveHandshakeSecret
  \/ FinishHandshake
  \/ FatalAlert

Managing ==
  \/ \E terms \in Terms : Issue(terms)
  \/ Clean
  \/ SaveToFile
  \/ \E saving \in BOOLEAN : Restart(saving)

Policies ==
  \E on \in BOOLEAN :
    \/ SetAntiReplay(on) \/ SetRequireAcceptance(on)
    \/ \E required \in BOOLEAN : SetPolicy(required, on)

Next == Handshaking \/ Accepting \/ Opening \/ Managing \/ Policies \/ Tick

Spec == Init /\ [][Next]_vars

(***************************************************************************)
(* Properties.                                                             *)
(***************************************************************************)
\* Client and server compute the age of a ticket on their own, clamp it and
\* add with wrap-around.  A ticket passes with a ClientHello made just now, or
\* up to MaxSkew ago, exactly when it is within its lifetime; and as long as its
\* age and MaxSkew stay within the width, with no older ClientHello.
AgePolicyExact ==
  \A t \in store : \A made \in t.issued .. now :
    LET passes == AgeMatches(t, Claimed(t, made), now)
        live == now - t.issued <= t.lifetime
    IN /\ passes => live
       /\ live /\ now - made <= MaxSkew => passes
       /\ passes /\ (now - t.issued) + MaxSkew < AgeModulus => now - made <= MaxSkew

\* A ticket accepted under the single-use policy is never accepted again, by
\* any call and under any policy: not after evictions and cleanings, and not
\* after a restart from a file written before the ticket was used.
SpentStaysSpent ==
  \A h \in Hellos, made \in 0 .. now :
    (\E t \in store : Matches(t, h, made)) => h.id \notin spent

\* With acceptance required and the anti-replay check on, no early data record
\* of a single-use ticket is delivered twice, whatever hellos are replayed,
\* refused or accepted in between, and over restarts.  Enabling the check by
\* its own setter starts a new window, and the count with it.
ServedOnce ==
  [][\A id \in Ids, s \in Seqs, len \in Lengths :
       OpenRecord(id, s, len) /\ require /\ antiReplay /\ id \in spent
         => <<id, s>> \notin served]_vars

\* The early data delivered under an acceptance, damaged and repeated records
\* and changes of policy included, never exceeds the ticket's budget.
BudgetKept == limit # None => banked <= limit

\* Of all the ClientHellos received, only the one whose ticket is accepted, with
\* its offer of early data, is ever in the transcript that early data keys are
\* derived from: no refusal and no plain resumption leaves an older acceptance
\* behind.  A hello of this Connection's own does.
AcceptanceOfTranscript ==
  accepted # None =>
    /\ limit # None /\ limit > 0
    /\ transcript \in Hellos => transcript = [id |-> accepted, kind |-> "early"]

\* Cleaning the store and checking an offer decide on their own which tickets
\* are of use: rotate keeps exactly those that some ClientHello made by now
\* passes the checks of flag and age with.
RotateKeepsUsable ==
  \A t \in store :
    t \in Rotate(store, now) <=> \E h \in Hellos, made \in 0 .. now : Candidate(t, h, made)

\* The doc comment of max_skew_ms: it bounds how old the ClientHello is that
\* passes.  Not so for an age beyond the width, which both sides clamp.
NoStaleHello ==
  \A t \in store : \A made \in t.issued .. now :
    AgeMatches(t, Claimed(t, made), now) => now - made <= MaxSkew
=============================================================================
