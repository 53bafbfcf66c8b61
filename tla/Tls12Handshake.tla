--------------------------- MODULE Tls12Handshake ---------------------------
(***************************************************************************)
(* A Connection in TLS 1.2: the server flight, ChangeCipherSpec and the    *)
(* client flight, key derivation and Finished, record numbers and alerts.  *)
(*                                                                         *)
(* A flight is handed over whole, as a sequence of messages, and taken     *)
(* message by message: what comes before the first message that is out of  *)
(* order or malformed stays in the transcript, and in the state.  Nothing  *)
(* takes it back, so that a client flight can be tried again behind what   *)
(* the failed one left.  A handler that changes nothing is left out.       *)
(***************************************************************************)
EXTENDS Integers, Sequences, FiniteSets, Functions

LOCAL INSTANCE SequencesExt

CONSTANTS
  MaxSequence,     \* u64::MAX
  ServerFlights,   \* bound: the server flights that arrive
  ClientFlights,   \* bound: the client flights that arrive
  MaxAttempts,     \* bound: ClientHellos sent
  MaxTranscript,   \* bound: messages in the transcript
  MaxTorn          \* bound: those of a handshake that a refused hello has torn

\* Messages of a flight by type; a malformed message has the type "Malformed",
\* a ServerHello with a key share (there is no private key for it in TLS 1.2)
\* the type "ShareHello".
ServerTypes ==
  {"ServerHello", "ShareHello", "HelloRetryRequest", "Certificate",
   "ServerKeyExchange", "CertificateRequest", "ServerHelloDone", "Malformed"}
ClientTypes ==
  {"ClientKeyExchange", "CertificateVerify", "Finished", "Malformed"}

ASSUME Tls12Assumption ==
  /\ MaxSequence \in Nat \ {0} /\ MaxAttempts \in Nat
  /\ MaxTranscript \in Nat /\ MaxTorn \in Nat
  /\ ServerFlights \subseteq Seq(ServerTypes)
  /\ ClientFlights \subseteq Seq(ClientTypes)

States ==
  {"Idle", "ClientHelloSent", "ServerHelloReceived", "ServerCertificateReceived",
   "ServerCertificateVerified", "KeysDerived", "Finished"}

MessageTypes ==
  ServerTypes \cup ClientTypes \cup {"ClientHello", "MessageHash", "VerifyData"}
Message == [type : MessageTypes, attempt : Nat]
Transcript == Seq(Message)

\* Keys and the handshake secret are named by the transcript they come from,
\* which may be empty.
NoKeys == {}
KeysOf(t) == {t}

VARIABLES
  state,       \* state
  attempt,     \* history: ClientHellos sent
  hrr,         \* tls13_hrr_seen
  transcript,  \* transcript, and transcript_hash that is a hash of it
  ccs,         \* tls12_change_cipher_spec_seen
  keys,        \* handshake_secret, and the write keys and IVs
  sequence,    \* client_sequence (seal) and server_sequence (open)
  used,        \* history: keys and number of every record sealed and opened
  fresh,       \* history: a ChangeCipherSpec was received since the last client
               \* flight that succeeded
  last,        \* history: what the last client flight that succeeded had
  retried,     \* history: a client flight of this handshake has failed
  torn         \* history: a refused hello cut the transcript of a handshake

hsVars == <<state, attempt, hrr, transcript, retried, torn>>
ccsVars == <<ccs, fresh, last>>
recordVars == <<sequence, used>>
vars == <<hsVars, ccsVars, keys, recordVars>>

Directions == {"seal", "open"}

TypeOK ==
  /\ state \in States /\ attempt \in 0 .. MaxAttempts /\ hrr \in BOOLEAN
  /\ transcript \in Transcript /\ keys \in SUBSET Transcript
  /\ ccs \in BOOLEAN /\ retried \in BOOLEAN /\ torn \in BOOLEAN
  /\ sequence \in [Directions -> 0 .. MaxSequence]
  /\ used \in [Directions -> Seq((SUBSET Transcript) \X Nat)]
  /\ fresh \in BOOLEAN /\ last \in {"none", "ccs", "noccs"}

Init ==
  /\ state = "Idle" /\ attempt = 0 /\ hrr = FALSE /\ transcript = <<>>
  /\ ccs = FALSE /\ keys = NoKeys
  /\ sequence = [d \in Directions |-> 0] /\ used = [d \in Directions |-> <<>>]
  /\ fresh = FALSE /\ last = "none" /\ retried = FALSE
  /\ torn = FALSE

\* The transcript after the messages of these types.
Extended(types) ==
  transcript \o [i \in DOMAIN types |-> [type |-> types[i], attempt |-> attempt]]

\* Bound: the messages of a transcript.
RoomFor(n) == Len(transcript) + n <= IF torn THEN MaxTorn ELSE MaxTranscript

-----------------------------------------------------------------------------
(***************************************************************************)
(* ClientHello.                                                            *)
(***************************************************************************)

HelloSent ==
  /\ attempt < MaxAttempts
  /\ attempt' = attempt + 1
  /\ transcript' = <<[type |-> "ClientHello", attempt |-> attempt']>>
  /\ state' = "ClientHelloSent" /\ retried' = FALSE /\ torn' = FALSE
  /\ UNCHANGED <<hrr, ccsVars, keys, recordVars>>

SendClientHello == state = "Idle" /\ HelloSent

\* The call for a list of tickets checks neither version nor state; in TLS 1.2
\* it succeeds for an empty list.
SendClientHelloNoTickets == HelloSent

\* It fails for any other, or for a random of the wrong length, once the
\* transcript is cleared; the handshake in progress goes on over what follows.
RefuseHello ==
  /\ transcript' = <<>> /\ torn' = (state # "Idle")
  /\ UNCHANGED <<state, attempt, hrr, retried, ccsVars, keys, recordVars>>

-----------------------------------------------------------------------------
(***************************************************************************)
(* The server flight.                                                      *)
(***************************************************************************)

\* A faulty variant: the certificate may come after other messages.
InServerOrderLoose(f) ==
  \A i \in DOMAIN f :
    \/ i = 1 /\ f[i] = "ServerHello"
    \/ i > 1 /\ f[i] \in {"Certificate", "ServerKeyExchange", "CertificateRequest"}
    \/ i > 2 /\ i = Len(f) /\ f[i] = "ServerHelloDone"

\* A prefix of ServerHello, Certificate, any number of ServerKeyExchange and
\* CertificateRequest in any order, ServerHelloDone.
InServerOrder(f) ==
  \A i \in DOMAIN f :
    \/ i = 1 /\ f[i] = "ServerHello"
    \/ i = 2 /\ f[i] = "Certificate"
    \/ i > 2 /\ f[i] \in {"ServerKeyExchange", "CertificateRequest"}
    \/ i > 2 /\ i = Len(f) /\ f[i] = "ServerHelloDone"

\* The longest prefix of a flight that is in order; every shorter one is, too.
Taken(f, InOrder(_)) ==
  SubSeq(f, 1, Cardinality({n \in DOMAIN f : InOrder(SubSeq(f, 1, n))}))

ServerStateAfter(n) ==
  IF n = 1 THEN "ServerHelloReceived" ELSE "ServerCertificateReceived"

\* recv_server_hello on a ServerHello: appended, and an earlier retry is over.
RecvServerHello ==
  /\ state = "ClientHelloSent"
  /\ transcript' = Extended(<<"ServerHello">>)
  /\ state' = "ServerHelloReceived" /\ hrr' = FALSE
  /\ UNCHANGED <<attempt, retried, torn, ccsVars, keys, recordVars>>

RecvHelloRetryRequest ==
  /\ state = "ClientHelloSent" /\ ~ hrr
  /\ hrr' = TRUE
  /\ transcript' =
       <<[type |-> "MessageHash", attempt |-> attempt],
         [type |-> "HelloRetryRequest", attempt |-> attempt]>>
  /\ state' = "Idle"
  /\ UNCHANGED <<attempt, retried, torn, ccsVars, keys, recordVars>>

\* A key share is refused after the marks of a retry are cleared.
RefuseShareHello ==
  /\ state = "ClientHelloSent" /\ hrr
  /\ hrr' = FALSE
  /\ UNCHANGED <<state, attempt, transcript, retried, torn, ccsVars, keys, recordVars>>

ServerFlight(f) ==
  LET taken == Taken(f, InServerOrder) IN
  /\ state = "ClientHelloSent" /\ Len(f) >= 3
  /\ \/ f[1] = "HelloRetryRequest" /\ RecvHelloRetryRequest
     \/ f[1] = "ShareHello" /\ RefuseShareHello
     \/ /\ taken # <<>>
        /\ transcript' = Extended(taken) /\ hrr' = FALSE
        /\ state' = IF taken = f /\ Last(f) = "ServerHelloDone"
                    THEN "ServerCertificateVerified"
                    ELSE ServerStateAfter(Len(taken))
        /\ UNCHANGED <<attempt, retried, torn, ccsVars, keys, recordVars>>

-----------------------------------------------------------------------------
(***************************************************************************)
(* ChangeCipherSpec and the client flight.                                 *)
(***************************************************************************)

RecvChangeCipherSpec ==
  /\ state = "ServerCertificateVerified"
  /\ ccs' = TRUE /\ fresh' = TRUE
  /\ UNCHANGED <<last, hsVars, keys, recordVars>>

\* A prefix of ClientKeyExchange, optional CertificateVerify, Finished; the
\* last is looked at only once a ChangeCipherSpec has been seen.
InClientOrder(f) ==
  \A i \in DOMAIN f :
    \/ i = 1 /\ f[i] = "ClientKeyExchange"
    \/ i = 2 /\ f[i] = "CertificateVerify"
    \/ /\ i \in {2, 3} /\ i = Len(f)
       /\ f[i] = "Finished" /\ f[i - 1] # "Finished" /\ ccs

\* A faulty variant: the signal is not taken back.
ClientFlightDoneKeeping(f) ==
  /\ Taken(f, InClientOrder) = f /\ Last(f) = "Finished"
  /\ transcript' = Extended(f)
  /\ state' = "Finished"
  /\ last' = (IF fresh THEN "ccs" ELSE "noccs") /\ fresh' = FALSE
  /\ UNCHANGED <<attempt, hrr, ccs, retried, torn, keys, recordVars>>

ClientFlightDone(f) ==
  /\ Taken(f, InClientOrder) = f /\ Last(f) = "Finished"
  /\ transcript' = Extended(f)
  /\ ccs' = FALSE /\ state' = "Finished"
  /\ last' = (IF fresh THEN "ccs" ELSE "noccs") /\ fresh' = FALSE
  /\ UNCHANGED <<attempt, hrr, retried, torn, keys, recordVars>>

\* What was taken stays; so does a ChangeCipherSpec.
ClientFlightFailed(f) ==
  LET taken == Taken(f, InClientOrder) IN
  /\ taken # <<>> /\ ~ (taken = f /\ Last(f) = "Finished")
  /\ transcript' = Extended(taken) /\ retried' = TRUE
  /\ UNCHANGED <<state, attempt, hrr, torn, ccsVars, keys, recordVars>>

ClientFlight(f) ==
  /\ state = "ServerCertificateVerified" /\ Len(f) >= 2
  /\ RoomFor(Len(f))
  /\ ClientFlightDone(f) \/ ClientFlightFailed(f)

-----------------------------------------------------------------------------
(***************************************************************************)
(* Keys, Finished by its verify_data, records and alerts.                  *)
(***************************************************************************)

\* Secret and keys are computed from the transcript; no number is reset.
DeriveHandshakeSecret ==
  /\ state \in {"ServerHelloReceived", "ServerCertificateVerified"}
  /\ keys' = KeysOf(transcript) /\ state' = "KeysDerived"
  /\ UNCHANGED <<attempt, hrr, transcript, retried, torn, ccsVars, recordVars>>

\* The secret of an earlier handshake serves if this one has derived none.
Finish ==
  /\ state \in {"KeysDerived", "ServerCertificateVerified"}
  /\ keys # NoKeys
  /\ RoomFor(1)
  /\ transcript' = Extended(<<"VerifyData">>) /\ state' = "Finished"
  /\ UNCHANGED <<attempt, hrr, retried, torn, ccsVars, keys, recordVars>>

\* One more record under the keys in force, in direction d.
NextRecord(d) ==
  /\ state = "Finished" /\ keys # NoKeys /\ sequence[d] < MaxSequence
  /\ sequence' = [sequence EXCEPT ![d] = @ + 1]
  /\ used' = [used EXCEPT ![d] = Append(@, <<keys, sequence[d]>>)]
  /\ UNCHANGED <<hsVars, ccsVars, keys>>

SealRecord == NextRecord("seal")

SendAlert == NextRecord("seal")

\* The number is part of nonce and additional data, so that of all records the
\* peer has sealed only the one of the next number opens.
OpenRecord == NextRecord("open")

\* An alert of any level leaves the state as it is.
RecvAlert == NextRecord("open")

\* A faulty variant: the alert is sealed without counting it.
RefuseFlightWithAlertUncounted ==
  /\ state = "Finished" /\ keys # NoKeys /\ sequence["seal"] < MaxSequence
  /\ used' = [used EXCEPT !["seal"] = Append(@, <<keys, sequence["seal"]>>)]
  /\ Len(used["seal"]) < MaxSequence
  /\ UNCHANGED <<hsVars, ccsVars, keys, sequence>>

\* A flight that is refused once the handshake is over has its alert sealed;
\* before, the alert cannot be sealed and the failure is that of the flight.
RefuseFlightWithAlert == NextRecord("seal")

Next ==
  \/ SendClientHello \/ SendClientHelloNoTickets \/ RefuseHello
  \/ RecvServerHello \/ RecvHelloRetryRequest \/ RefuseShareHello
  \/ \E f \in ServerFlights : ServerFlight(f)
  \/ RecvChangeCipherSpec
  \/ \E f \in ClientFlights : ClientFlight(f)
  \/ DeriveHandshakeSecret \/ Finish
  \/ SealRecord \/ OpenRecord \/ SendAlert \/ RecvAlert \/ RefuseFlightWithAlert

Spec == Init /\ [][Next]_vars
-----------------------------------------------------------------------------
(***************************************************************************)
(* Properties.                                                             *)
(***************************************************************************)

\* Every client flight that succeeds has a ChangeCipherSpec of its own: one
\* received since the last that succeeded, whatever failed, began again or was
\* skipped in between (process_tls12_client_handshake_flight and
\* recv_tls12_change_cipher_spec).
ChangeCipherSpecPerFinished == last # "noccs"

\* No number seals or opens two records under one key, over any number of
\* handshakes of a connection (seal_record, open_record).
NumbersUsedOnce == \A d \in Directions : IsInjective(used[d])

ServerPart == {"ClientHello", "ServerHello", "Certificate", "ServerKeyExchange",
               "CertificateRequest", "ServerHelloDone"}
Rank(type) ==
  CASE type = "ClientHello" -> 1 [] type = "ServerHello" -> 2
    [] type = "Certificate" -> 3
    [] type \in {"ServerKeyExchange", "CertificateRequest"} -> 4
    [] type = "ServerHelloDone" -> 5 [] type = "ClientKeyExchange" -> 6
    [] type = "CertificateVerify" -> 7 [] OTHER -> 8

\* What a handshake is finished over: messages of this handshake only, the
\* server's before the client's, each part in its order unless a client flight
\* has failed, and nothing missing of a server flight that was taken whole,
\* unless a refused hello has torn the handshake
\* (process_tls12_server_handshake_flight, process_tls12_client_handshake_flight).
FinishedOverThisHandshake ==
  state = "Finished" /\ ~ torn =>
    LET type(i) == transcript[i].type
        Server == {i \in DOMAIN transcript : type(i) \in ServerPart} IN
    /\ \A i \in DOMAIN transcript : transcript[i].attempt = attempt
    /\ type(1) = "ClientHello" /\ type(2) = "ServerHello"
    /\ \A i, j \in DOMAIN transcript :
         i < j /\ (j \in Server \/ ~ retried) => Rank(type(i)) <= Rank(type(j))
    /\ \A i, j \in Server :
         i # j /\ type(i) = type(j) => Rank(type(i)) = 4
    /\ (\E i \in DOMAIN transcript : type(i) = "ClientKeyExchange")
         => \E i \in Server : type(i) = "ServerHelloDone"
=============================================================================
