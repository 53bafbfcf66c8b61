--------------------------- MODULE Tls13Connection --------------------------
(***************************************************************************)
(* A client Connection in TLS 1.3: one handshake after the other over the  *)
(* same object, the key schedule, the record sequence numbers, key updates *)
(* and alerts.                                                             *)
(*                                                                         *)
(* The embedder calls the handlers in any order and passes any message; a  *)
(* handler that returns an error and changes nothing is left out, one that *)
(* returns an error after it has changed something is an action.  Bytes    *)
(* and keys are named by what they were computed from: a message by its    *)
(* type and the handshake attempt it belongs to, a secret by its key share *)
(* or transcript, traffic keys by their secret, transcript and update.     *)
(***************************************************************************)
EXTENDS Integers, Sequences, FiniteSets

LOCAL INSTANCE SequencesExt

CONSTANTS
  MaxSequence,     \* u64::MAX
  RequireStaple,   \* tls13_require_ocsp_staple
  MaxAttempts,     \* bound: ClientHellos prepared
  MaxUpdates,      \* bound: key updates after one handshake
  MaxLater,        \* bound: messages accepted after the first Finished
  MaxFragments     \* bound: records of one call

ASSUME ConnectionAssumption ==
  /\ MaxSequence \in Nat \ {0}
  /\ RequireStaple \in BOOLEAN
  /\ MaxAttempts \in Nat /\ MaxUpdates \in Nat /\ MaxLater \in Nat
  /\ MaxFragments \in Nat \ {0}

States ==
  {"Idle", "ClientHelloSent", "ServerHelloReceived",
   "ServerEncryptedExtensionsReceived", "ServerCertificateRequestReceived",
   "ServerCertificateReceived", "ServerCertificateVerified", "KeysDerived",
   "Finished"}

LaterMessages == {"NewSessionTicket", "KeyUpdate"}
MessageTypes ==
  {"ClientHello", "MessageHash", "HelloRetryRequest", "ServerHello",
   "EncryptedExtensions", "CertificateRequest", "Certificate",
   "CertificateVerify", "Finished"} \cup LaterMessages

Message == [type : MessageTypes, attempt : Nat]
Transcript == Seq(Message)

\* No key share, no ClientHello yet
None == 0
NotDerived == -1
NoSecret == [share |-> NotDerived, transcript |-> <<>>]
NoTrafficKeys == [secret |-> NoSecret, transcript |-> <<>>, update |-> None]

\* share: the attempt whose key share it came from, or None and then the
\* transcript it came from.  The first update is that of the handshake.
Secret == [share : Nat \cup {NotDerived}, transcript : Transcript]
TrafficKeys == [secret : Secret, transcript : Transcript, update : Nat]
HandshakeKeys == 1
ApplicationKeys == 2

\* The client's write keys seal, the server's open.
Directions == {"seal", "open"}
Both(k) == [d \in Directions |-> k]
NoKeys == Both(NoTrafficKeys)

VARIABLES
  state,       \* state
  attempt,     \* history: ClientHellos prepared, that is, key shares made
  hrr,         \* tls13_hrr_seen, and whether its requested group is supported
  transcript,  \* transcript, and transcript_hash that is a hash of it
  share,       \* tls13_shared_secret
  suite,       \* selected_cipher_suite: is it one of TLS 1.3?
  secret,      \* handshake_secret and tls13_finished_key
  keys,        \* client_ and server_write_key and _iv
  app,         \* the application traffic secrets, and whether there is a
               \* resumption secret
  clientSeq,   \* client_sequence
  serverSeq,   \* server_sequence
  auth,        \* tls13_require_certificate_auth
  peer,        \* what was learnt of the server, by attempt
  torn,        \* history: a refused hello cut the transcript of a handshake
  past,        \* history: keys that were in force, by direction
  dead         \* history: keys a fatal alert was sent or received under

hsVars == <<state, transcript, torn>>
secretVars == <<share, suite, secret, keys, app, past>>
seqVars == <<clientSeq, serverSeq>>
policyVars == <<auth, dead>>
vars == <<hsVars, attempt, hrr, secretVars, seqVars, policyVars, peer>>

TypeOK ==
  /\ state \in States
  /\ attempt \in Nat
  /\ hrr \in {"none", "supported", "unsupported"}
  /\ transcript \in Transcript
  /\ share \in Nat
  /\ suite \in {"none", "tls12", "tls13"}
  /\ secret \in Secret
  /\ keys \in [Directions -> TrafficKeys] /\ app \in [Directions -> TrafficKeys]
  /\ clientSeq \in 0 .. MaxSequence /\ serverSeq \in 0 .. MaxSequence
  /\ auth \in BOOLEAN
  /\ peer \in [leaf : Nat, staple : Nat]
  /\ torn \in BOOLEAN
  /\ past \in [Directions -> SUBSET TrafficKeys]
  /\ dead \subseteq TrafficKeys

\* reset_tls13_certificate_auth_state
NothingLearnt == [leaf |-> None, staple |-> None]

Init ==
  /\ state = "Idle" /\ attempt = 0 /\ hrr = "none"
  /\ transcript = <<>> /\ torn = FALSE
  /\ share = None /\ suite = "none" /\ secret = NoSecret
  /\ keys = NoKeys /\ app = NoKeys
  /\ clientSeq = 0 /\ serverSeq = 0 /\ past = Both({})
  /\ auth = FALSE /\ peer = NothingLearnt
  /\ dead = {}

Extended(t, type) == Append(t, [type |-> type, attempt |-> attempt])

-----------------------------------------------------------------------------
(***************************************************************************)
(* ClientHello.                                                            *)
(***************************************************************************)

\* validate_tls13_hrr_retry_group_support
RetryGroupSupported == hrr # "unsupported"

\* What a ClientHello call that succeeds leaves behind.
HelloSent(prefix, learnt) ==
  /\ attempt < MaxAttempts
  /\ attempt' = attempt + 1
  /\ transcript' = Append(prefix, [type |-> "ClientHello", attempt |-> attempt'])
  /\ peer' = learnt
  /\ state' = "ClientHelloSent"
  /\ torn' = FALSE
  /\ UNCHANGED <<hrr, secretVars, seqVars, policyVars>>

\* Faulty variants of BeginHandshake: the transcript, and what was learnt of
\* the last server, are not reset.
BeginHandshakeAppending == HelloSent(transcript, NothingLearnt)
BeginHandshakeRemembering == HelloSent(<<>>, peer)

\* What every ClientHello call does once its checks have passed.
BeginHandshake == HelloSent(<<>>, NothingLearnt)

\* send_client_hello, ..._with_psk and ..._with_resumption_ticket
SendClientHello ==
  /\ state = "Idle"
  /\ RetryGroupSupported
  /\ BeginHandshake

\* send_client_hello_with_resumption_tickets, which does not look at state
SendResumptionHello ==
  /\ RetryGroupSupported
  /\ app # NoKeys
  /\ BeginHandshake

\* The errors of these calls that come after the transcript is cleared: there
\* is no support for the group of the retry; a ticket without a nonce, or no
\* resumption secret for it; an empty list of tickets or a random of the wrong
\* length, which is found once the private keys have been replaced.  The last
\* two are of the call that does not look at state.
HelloRefusals ==
  \/ ~RetryGroupSupported /\ UNCHANGED <<attempt, peer>>
  \/ RetryGroupSupported /\ peer' = NothingLearnt /\ UNCHANGED attempt
  \/ /\ RetryGroupSupported /\ peer' = NothingLearnt
     /\ attempt < MaxAttempts /\ attempt' = attempt + 1

RefuseHello ==
  /\ HelloRefusals
  /\ transcript' = <<>>
  /\ torn' = (state # "Idle")
  /\ UNCHANGED <<state, hrr, secretVars, seqVars, policyVars>>

-----------------------------------------------------------------------------
(***************************************************************************)
(* The server's flight.                                                    *)
(***************************************************************************)

\* A handshake message is accepted: it joins the transcript.
Accept(type, next) ==
  /\ transcript' = Extended(transcript, type)
  /\ state' = next
  /\ UNCHANGED <<torn, attempt>>

\* reset_transcript_for_hrr: a message_hash of the transcript replaces it.
RetryTranscript == Extended(<<>>, "MessageHash")

\* recv_server_hello, given the first HelloRetryRequest
RecvHelloRetryRequest(group) ==
  /\ state = "ClientHelloSent"
  /\ hrr = "none"
  /\ hrr' = group
  /\ transcript' = Extended(RetryTranscript, "HelloRetryRequest")
  /\ state' = "Idle"
  /\ UNCHANGED <<torn, attempt, secretVars, seqVars, policyVars, peer>>

\* recv_server_hello.  The three-byte form of the message and one of
\* DTLS 1.3 may come without a key share.
RecvServerHello(withShare, s) ==
  /\ state = "ClientHelloSent"
  /\ hrr' = "none"
  /\ share' = IF withShare THEN attempt ELSE share
  /\ suite' = s
  /\ Accept("ServerHello", "ServerHelloReceived")
  /\ UNCHANGED <<secret, keys, app, past, seqVars, policyVars, peer>>

\* recv_server_hello, when no secret can be computed from the key share
RecvServerHelloBadShare ==
  /\ state = "ClientHelloSent"
  /\ hrr' = "none"
  /\ UNCHANGED <<hsVars, attempt, secretVars, seqVars, policyVars, peer>>

\* recv_encrypted_extensions.  What it says of early data, names and ALPN
\* stays out: nothing else reads it.
RecvEncryptedExtensions ==
  /\ state = "ServerHelloReceived"
  /\ Accept("EncryptedExtensions", "ServerEncryptedExtensionsReceived")
  /\ UNCHANGED <<hrr, secretVars, seqVars, policyVars, peer>>

RecvCertificateRequest ==
  /\ state = "ServerEncryptedExtensionsReceived"
  /\ Accept("CertificateRequest", "ServerCertificateRequestReceived")
  /\ UNCHANGED <<hrr, secretVars, seqVars, policyVars, peer>>

\* recv_certificate: the staple is stored and verified before the chain,
\* and is kept when the chain is refused.
RecvCertificate(staple, chainValid) ==
  LET stapleOK == staple # "bad" /\ (RequireStaple => staple = "good")
      chainOK == auth => chainValid
      kept == [peer EXCEPT !.staple = IF staple = "good" THEN attempt ELSE None]
  IN  /\ state \in {"ServerEncryptedExtensionsReceived",
                    "ServerCertificateRequestReceived"}
      /\ IF stapleOK /\ chainOK
         THEN /\ peer' = IF auth THEN [kept EXCEPT !.leaf = attempt] ELSE kept
              /\ Accept("Certificate", "ServerCertificateReceived")
         ELSE peer' = kept /\ UNCHANGED <<hsVars, attempt>>
      /\ UNCHANGED <<hrr, secretVars, seqVars, policyVars>>

\* recv_certificate_verify, given a signature that the leaf key accepts
RecvCertificateVerify ==
  /\ state = "ServerCertificateReceived"
  /\ auth => peer.leaf # None
  /\ Accept("CertificateVerify", "ServerCertificateVerified")
  /\ UNCHANGED <<hrr, secretVars, seqVars, policyVars, peer>>

-----------------------------------------------------------------------------
(***************************************************************************)
(* Keys.                                                                   *)
(***************************************************************************)

\* install_tls13_record_protection_keys
InstallRecordKeys(k) ==
  /\ keys' = k
  /\ past' = [d \in Directions |-> past[d] \cup {keys[d]}]

\* derive_handshake_secret: the sequence numbers stay as they are.
DeriveHandshakeSecret ==
  /\ state \in {"ServerHelloReceived", "ServerCertificateVerified"}
  /\ suite = "tls13"
  /\ secret' = [share |-> share,
                transcript |-> IF share = None THEN transcript ELSE <<>>]
  /\ InstallRecordKeys(Both([secret |-> secret', transcript |-> transcript,
                             update |-> HandshakeKeys]))
  /\ state' = "KeysDerived"
  /\ UNCHANGED <<transcript, torn, attempt, hrr, share, suite, app, seqVars,
                 policyVars, peer>>

\* install_tls13_application_traffic_keys and update_tls13_traffic_keys
InstallApplicationKeys(k) ==
  /\ InstallRecordKeys(k)
  /\ app' = k
  /\ clientSeq' = 0 /\ serverSeq' = 0
  /\ UNCHANGED <<share, suite, secret>>

\* Bound: the messages accepted after the first Finished.
RoomForLater ==
  Cardinality({i \in DOMAIN transcript :
                 transcript[i].type \in LaterMessages \cup {"Finished"}}) <= MaxLater

\* The keys Finish installs come from the transcript t.
FinishOver(t) ==
  /\ state \in {"KeysDerived", "ServerCertificateVerified"}
  /\ secret # NoSecret
  /\ RoomForLater
  /\ transcript' = Extended(transcript, "Finished")
  /\ IF suite = "tls13"
     THEN /\ InstallApplicationKeys(Both([secret |-> secret,
               transcript |-> t, update |-> ApplicationKeys]))
          /\ state' = "Finished"
     ELSE UNCHANGED <<state, secretVars, seqVars>>
  /\ UNCHANGED <<torn, attempt, hrr, policyVars, peer>>

\* Faulty variant of Finish: the keys come before the append.
FinishKeysFirst == FinishOver(transcript)

\* finish, recv_finished_message: with verify_data that matches the finished
\* key, which is any one left from an earlier handshake when this one has
\* derived none.  The Finished joins the transcript even if the
\* application keys cannot be installed then.
Finish == FinishOver(Extended(transcript, "Finished"))

RecvNewSessionTicket ==
  /\ state = "Finished"
  /\ RoomForLater
  /\ Accept("NewSessionTicket", "Finished")
  /\ UNCHANGED <<hrr, secretVars, seqVars, policyVars, peer>>

\* Faulty variant of NextKeys: the sequence numbers start over, the keys stay.
NextKeysSame == app

NextKeys == [d \in Directions |-> [app[d] EXCEPT !.update = @ + 1]]

\* Bound: key updates under one handshake.
RoomForUpdate == \A d \in Directions : app[d].update < ApplicationKeys + MaxUpdates

\* update_tls13_traffic_keys: both directions at once
UpdateTrafficKeys ==
  /\ state = "Finished"
  /\ RoomForUpdate
  /\ InstallApplicationKeys(NextKeys)
  /\ UNCHANGED <<hsVars, attempt, hrr, policyVars, peer>>

\* recv_key_update_message, with update_requested or not: the same
RecvKeyUpdate(requested) ==
  /\ state = "Finished"
  /\ RoomForLater /\ RoomForUpdate
  /\ InstallApplicationKeys(NextKeys)
  /\ Accept("KeyUpdate", "Finished")
  /\ UNCHANGED <<hrr, policyVars, peer>>

-----------------------------------------------------------------------------
(***************************************************************************)
(* Records and alerts.                                                     *)
(***************************************************************************)

\* The numbers a call for n records uses: seal_record stops at the last one,
\* and what was sealed before it stays sealed.
Sealed(n) == {s \in clientSeq .. clientSeq + n - 1 : s < MaxSequence}

Seal(n) ==
  /\ state = "Finished"
  /\ clientSeq < MaxSequence
  /\ clientSeq + n - 1 <= MaxSequence
  /\ clientSeq' = clientSeq + Cardinality(Sealed(n))
  /\ UNCHANGED serverSeq

\* n records in sequence are opened, and any that follow are refused.
Open(n) ==
  /\ state = "Finished"
  /\ serverSeq + n <= MaxSequence
  /\ serverSeq' = serverSeq + n
  /\ UNCHANGED clientSeq

\* seal_record, seal_record_fragments and what wraps them
SealRecords(n) ==
  /\ Seal(n)
  /\ UNCHANGED <<hsVars, attempt, hrr, secretVars, policyVars, peer>>

\* open_record, open_record_fragments and what wraps them
OpenRecords(n) ==
  /\ Open(n)
  /\ UNCHANGED <<hsVars, attempt, hrr, secretVars, policyVars, peer>>

\* Faulty variant of FatalEffects: the connection goes on.
FatalEffectsIgnored ==
  /\ dead' = dead \cup {keys[d] : d \in Directions}
  /\ UNCHANGED <<hsVars, auth, attempt, hrr, secretVars, peer>>

\* apply_tls13_alert_effects at the fatal level.  Any other alert changes no
\* more than a record does, but for the close_notify flags.
FatalEffects ==
  /\ state' = "Idle"
  /\ dead' = dead \cup {keys[d] : d \in Directions}
  /\ UNCHANGED <<transcript, torn, auth, attempt, hrr, secretVars, peer>>

\* send_tls13_alert, recv_tls13_alert
SendFatalAlert == Seal(1) /\ FatalEffects
RecvFatalAlert == Open(1) /\ FatalEffects

\* recv_own_tls13_alert, in any state and any number of times, given a record
\* this end has sealed.
RecvOwnFatalAlert ==
  /\ keys["seal"] = app["seal"] /\ clientSeq > 0
  /\ FatalEffects
  /\ UNCHANGED seqVars

-----------------------------------------------------------------------------
\* set_tls13_require_certificate_auth
SetRequireCertificateAuth ==
  /\ auth' = ~auth
  /\ UNCHANGED <<hsVars, attempt, hrr, secretVars, seqVars, dead, peer>>

ClientHello ==
  \/ SendClientHello \/ SendResumptionHello
  \/ RefuseHello

ServerFlight ==
  \/ \E group \in {"supported", "unsupported"} : RecvHelloRetryRequest(group)
  \/ \E withShare \in BOOLEAN, s \in {"tls12", "tls13"} : RecvServerHello(withShare, s)
  \/ RecvServerHelloBadShare
  \/ RecvEncryptedExtensions
  \/ RecvCertificateRequest
  \/ \E staple \in {"none", "good", "bad"}, valid \in BOOLEAN :
       RecvCertificate(staple, valid)
  \/ RecvCertificateVerify
  \/ DeriveHandshakeSecret
  \/ Finish

Established ==
  \/ RecvNewSessionTicket
  \/ UpdateTrafficKeys
  \/ \E requested \in BOOLEAN : RecvKeyUpdate(requested)
  \/ \E n \in 1 .. MaxFragments : SealRecords(n) \/ OpenRecords(n)

Alerts == SendFatalAlert \/ RecvFatalAlert \/ RecvOwnFatalAlert

Next == ClientHello \/ ServerFlight \/ Established \/ Alerts \/ SetRequireCertificateAuth

Spec == Init /\ [][Next]_vars

-----------------------------------------------------------------------------
(***************************************************************************)
(* Properties.                                                             *)
(***************************************************************************)
Through(t, last, n) == [i \in DOMAIN t |-> [type |-> t[i], attempt |-> n]] \o last
RetryPart == {<<>>, <<"MessageHash", "HelloRetryRequest">>}
ServerPart ==
  {<<>>, <<"EncryptedExtensions", "Certificate", "CertificateVerify">>,
   <<"EncryptedExtensions", "CertificateRequest", "Certificate", "CertificateVerify">>}

\* The transcripts of attempt n: what a retry leaves, one full flight of this
\* attempt and none of its messages twice.
HandshakeOf(n) ==
  {Through(r, Through(<<"ClientHello", "ServerHello">> \o p \o <<"Finished">>, <<>>, n),
           n - 1) : r \in RetryPart, p \in ServerPart}

(***************************************************************************)
(* The transcript of a finished handshake holds each message of that       *)
(* handshake once, in the order of the protocol, none of an earlier one,   *)
(* and after its Finished nothing but post-handshake messages, over        *)
(* retries, fatal alerts, refused messages and new handshakes.             *)
(***************************************************************************)
TranscriptInOrder ==
  state = "Finished" /\ ~torn =>
    \E t \in HandshakeOf(attempt) :
      /\ IsPrefix(t, transcript)
      /\ \A i \in DOMAIN transcript \ DOMAIN t : transcript[i].type \in LaterMessages

(***************************************************************************)
(* The record keys of a finished connection come from the transcript of    *)
(* this handshake up to and with its Finished, after any number of tickets *)
(* and key updates.                                                        *)
(***************************************************************************)
KeysBindTranscript ==
  state = "Finished" /\ ~torn =>
    \A d \in Directions :
      LET t == keys[d].transcript
      IN  /\ t # <<>> /\ IsPrefix(t, transcript)
          /\ Last(t) = [type |-> "Finished", attempt |-> attempt]

\* Keys that a ClientHello went into.  A torn handshake may derive others,
\* and of those the names here are finer than the bytes: a Finished under the
\* same secret and over the same bytes is the same in any attempt.
BoundToHello(k) ==
  k.transcript # <<>> /\ k.transcript[1].type = "ClientHello"

(***************************************************************************)
(* No record number is used twice under keys a ClientHello went into: the  *)
(* counters move back only together with new keys, and keys that come into *)
(* force have never been in force before (seal_record, open_record,        *)
(* derive_handshake_secret, update_tls13_traffic_keys,                     *)
(* install_tls13_application_traffic_keys), over handshakes that refused   *)
(* hellos have torn and what those leave behind.                           *)
(***************************************************************************)
NumbersUsedOnce ==
  [][/\ BoundToHello(keys'["seal"]) /\ clientSeq' < clientSeq => keys'["seal"] # keys["seal"]
     /\ BoundToHello(keys'["open"]) /\ serverSeq' < serverSeq => keys'["open"] # keys["open"]
     /\ \A d \in Directions :
          BoundToHello(keys'[d]) /\ keys'[d] # keys[d] => keys'[d] \notin past[d]]_vars

(***************************************************************************)
(* "Treat fatal alerts as terminal": no record is sealed or opened under   *)
(* keys a fatal alert was sent or received under, if a ClientHello went    *)
(* into them, whatever handshake the connection tries afterwards.          *)
(***************************************************************************)
FatalIsTerminal ==
  [][/\ BoundToHello(keys["seal"]) /\ clientSeq' > clientSeq => keys["seal"] \notin dead
     /\ BoundToHello(keys["open"]) /\ serverSeq' > serverSeq => keys["open"] \notin dead]_vars

(***************************************************************************)
(* When a CertificateVerify is accepted, the leaf key it was checked with  *)
(* was validated in this very handshake, and so was the staple that policy *)
(* requires, although the policy may change at any time and the connection *)
(* may have authenticated another server before.                           *)
(***************************************************************************)
AuthenticatedInThisHandshake ==
  [][RecvCertificateVerify =>
       /\ auth => peer.leaf = attempt
       /\ RequireStaple /\ ~torn => peer.staple = attempt]_vars

(***************************************************************************)
(* reset_transcript_for_hrr "applies TLS 1.3 HRR transcript reset via      *)
(* synthetic message_hash entry": the ClientHello that answers a           *)
(* HelloRetryRequest continues that transcript.                            *)
(***************************************************************************)
RetryKeptInTranscript ==
  [][hrr # "none" /\ attempt' > attempt /\ state' = "ClientHelloSent"
       => IsPrefix(transcript, transcript')]_vars

(***************************************************************************)
(* "Sequence numbers: Monotonic per direction": keys that come into force, *)
(* with the counters that Finish then sets to 0, are never ones that have  *)
(* been in force before.                                                   *)
(***************************************************************************)
EveryKeyOnce ==
  [][\A d \in Directions : keys'[d] # keys[d] => keys'[d] \notin past[d]]_vars

(***************************************************************************)
(* build_key_update_message: "request_update: Whether peer should also     *)
(* update its sending keys".  A KeyUpdate without the request leaves the   *)
(* keys this end sends with alone.                                         *)
(***************************************************************************)
SendKeysKeptUnlessRequested ==
  [][RecvKeyUpdate(FALSE) => keys'["seal"] = keys["seal"]]_vars
=============================================================================
