----------------------- MODULE Tls13Connection_proofs ----------------------
(***************************************************************************)
(* Theorems about Tls13Connection, for any number of handshakes, messages  *)
(* and key updates and any width of the record counters.                   *)
(***************************************************************************)
EXTENDS Tls13Connection, FiniteSetTheorems, TLAPS

LOCAL INSTANCE SequencesExt

(***************************************************************************)
(* Types.                                                                  *)
(***************************************************************************)
\* A message of the attempt joins a transcript.
LEMMA ExtendedType ==
  ASSUME attempt \in Nat, NEW t \in Transcript, NEW type \in MessageTypes
  PROVE  /\ Extended(t, type) \in Transcript
         /\ Len(Extended(t, type)) = Len(t) + 1
         /\ \A i \in 1 .. Len(t) : Extended(t, type)[i] = t[i]
         /\ Extended(t, type)[Len(t) + 1] = [type |-> type, attempt |-> attempt]
<1>1. [type |-> type, attempt |-> attempt] \in Message
  BY DEF Message
<1> QED  BY <1>1 DEF Extended, Transcript

\* A ClientHello alone is a transcript.
LEMMA HelloType ==
  ASSUME NEW n \in Nat
  PROVE  <<[type |-> "ClientHello", attempt |-> n]>> \in Transcript
<1>1. [type |-> "ClientHello", attempt |-> n] \in Message
  BY DEF Message, MessageTypes
<1> QED  BY <1>1 DEF Transcript

\* No keys is a value of keys.
LEMMA NoKeysType ==
  /\ NoTrafficKeys \in TrafficKeys
  /\ NoSecret \in Secret
<1>1. NoSecret \in Secret
  BY DEF NoSecret, Secret, Transcript, NotDerived
<1> QED  BY <1>1 DEF NoTrafficKeys, TrafficKeys, None, Transcript

\* Installing record keys.
LEMMA InstallType ==
  ASSUME TypeOK, NEW k \in [Directions -> TrafficKeys], InstallRecordKeys(k)
  PROVE  /\ keys' \in [Directions -> TrafficKeys]
         /\ past' \in [Directions -> SUBSET TrafficKeys]
<1>1. keys \in [Directions -> TrafficKeys] /\ past \in [Directions -> SUBSET TrafficKeys]
  BY DEF TypeOK
<1> QED  BY <1>1 DEF InstallRecordKeys

\* The initial state.
LEMMA InitType == Init => TypeOK
<1> SUFFICES ASSUME Init PROVE TypeOK
  OBVIOUS
<1>1. NoKeys \in [Directions -> TrafficKeys]
  BY NoKeysType DEF NoKeys, Both
<1>2. Both({}) \in [Directions -> SUBSET TrafficKeys]
  BY DEF Both
<1>3. <<>> \in Transcript
  BY DEF Transcript
<1>4. 0 \in 0 .. MaxSequence
  BY ConnectionAssumption
<1>5. NothingLearnt \in [leaf : Nat, staple : Nat] /\ None \in Nat
  BY DEF NothingLearnt, None
<1>6. state \in States
  BY DEF Init, States
<1> QED
  BY <1>1, <1>2, <1>3, <1>4, <1>5, <1>6, NoKeysType DEF Init, TypeOK

\* ClientHello calls.
LEMMA HelloTypes ==
  ASSUME TypeOK, ClientHello
  PROVE  TypeOK'
<1> USE DEF TypeOK
<1>1. CASE RefuseHello
  <2>1. transcript' \in Transcript
    BY <1>1 DEF RefuseHello, Transcript
  <2>2. peer' \in [leaf : Nat, staple : Nat] /\ attempt' \in Nat
    BY <1>1 DEF RefuseHello, HelloRefusals, NothingLearnt, None
  <2> QED  BY <1>1, <2>1, <2>2 DEF RefuseHello, secretVars, seqVars, policyVars
<1>2. CASE BeginHandshake
  <2>1. attempt' \in Nat
    BY <1>2 DEF BeginHandshake, HelloSent
  <2>2. transcript' = <<[type |-> "ClientHello", attempt |-> attempt']>>
    BY <1>2 DEF BeginHandshake, HelloSent
  <2>3. transcript' \in Transcript
    BY <2>1, <2>2, HelloType
  <2> QED
    BY <1>2, <2>1, <2>3
    DEF BeginHandshake, HelloSent, NothingLearnt, None, States, secretVars, seqVars, policyVars
<1> QED  BY <1>1, <1>2 DEF ClientHello, SendClientHello, SendResumptionHello

\* Actions that accept a message, and no more than that and what they learn.
LEMMA AcceptTypes ==
  ASSUME TypeOK, NEW type \in MessageTypes, NEW next \in States, Accept(type, next)
  PROVE  transcript' \in Transcript /\ state' \in States /\ attempt' \in Nat
         /\ torn' \in BOOLEAN
BY ExtendedType DEF Accept, TypeOK

\* The server's flight and tickets, but for what derives keys.
LEMMA FlightTypes ==
  ASSUME TypeOK,
         \/ \E group \in {"supported", "unsupported"} : RecvHelloRetryRequest(group)
         \/ \E withShare \in BOOLEAN, s \in {"tls12", "tls13"} : RecvServerHello(withShare, s)
         \/ RecvServerHelloBadShare
         \/ RecvEncryptedExtensions
         \/ RecvCertificateRequest
         \/ \E staple \in {"none", "good", "bad"}, valid \in BOOLEAN :
              RecvCertificate(staple, valid)
         \/ RecvCertificateVerify
         \/ RecvNewSessionTicket
  PROVE  TypeOK'
<1>0. {"ServerHello", "EncryptedExtensions", "CertificateRequest", "Certificate", "CertificateVerify",
       "NewSessionTicket", "MessageHash", "HelloRetryRequest"} \subseteq MessageTypes
  BY DEF MessageTypes, LaterMessages
<1>1. ASSUME NEW group \in {"supported", "unsupported"}, RecvHelloRetryRequest(group)
      PROVE  TypeOK'
  <2>0. attempt \in Nat /\ <<>> \in Transcript
    BY DEF TypeOK, Transcript
  <2>1. RetryTranscript \in Transcript
    BY <1>0, <2>0, ExtendedType DEF RetryTranscript
  <2>2. transcript' \in Transcript
    BY <1>0, <1>1, <2>0, <2>1, ExtendedType DEF RecvHelloRetryRequest
  <2> QED
    BY <1>1, <2>2 DEF RecvHelloRetryRequest, TypeOK, States, secretVars, seqVars, policyVars
<1>2. ASSUME NEW withShare \in BOOLEAN, NEW s \in {"tls12", "tls13"}, RecvServerHello(withShare, s)
      PROVE  TypeOK'
  <2>1. Accept("ServerHello", "ServerHelloReceived") /\ "ServerHelloReceived" \in States
    BY <1>2 DEF RecvServerHello, States
  <2>2. transcript' \in Transcript /\ state' \in States /\ attempt' \in Nat /\ torn' \in BOOLEAN
    BY <1>0, <2>1, AcceptTypes
  <2> QED  BY <1>2, <2>2 DEF RecvServerHello, TypeOK, seqVars, policyVars
<1>3. CASE RecvServerHelloBadShare
  BY <1>3 DEF RecvServerHelloBadShare, TypeOK, hsVars, secretVars, seqVars, policyVars
<1>4. CASE RecvEncryptedExtensions
  <2>1. /\ Accept("EncryptedExtensions", "ServerEncryptedExtensionsReceived")
        /\ "ServerEncryptedExtensionsReceived" \in States
    BY <1>4 DEF RecvEncryptedExtensions, States
  <2>2. transcript' \in Transcript /\ state' \in States /\ attempt' \in Nat /\ torn' \in BOOLEAN
    BY <1>0, <2>1, AcceptTypes
  <2> QED
    BY <1>4, <2>2 DEF RecvEncryptedExtensions, TypeOK, secretVars, seqVars, policyVars
<1>5. CASE RecvCertificateRequest
  <2>1. /\ Accept("CertificateRequest", "ServerCertificateRequestReceived")
        /\ "ServerCertificateRequestReceived" \in States
    BY <1>5 DEF RecvCertificateRequest, States
  <2>2. transcript' \in Transcript /\ state' \in States /\ attempt' \in Nat /\ torn' \in BOOLEAN
    BY <1>0, <2>1, AcceptTypes
  <2> QED
    BY <1>5, <2>2 DEF RecvCertificateRequest, TypeOK, secretVars, seqVars, policyVars
<1>6. ASSUME NEW staple \in {"none", "good", "bad"}, NEW valid \in BOOLEAN,
             RecvCertificate(staple, valid)
      PROVE  TypeOK'
  <2> DEFINE kept == [peer EXCEPT !.staple = IF staple = "good" THEN attempt ELSE None]
  <2>0. kept \in [leaf : Nat, staple : Nat] /\ [kept EXCEPT !.leaf = attempt] \in [leaf : Nat, staple : Nat]
    BY DEF TypeOK, None
  <2>a. peer' = kept \/ peer' = [kept EXCEPT !.leaf = attempt]
    BY <1>6 DEF RecvCertificate
  <2> HIDE DEF kept
  <2>1. peer' \in [leaf : Nat, staple : Nat]
    BY <2>0, <2>a
  <2>2. CASE Accept("Certificate", "ServerCertificateReceived")
    <3>1. "ServerCertificateReceived" \in States
      BY DEF States
    <3>2. transcript' \in Transcript /\ state' \in States /\ attempt' \in Nat /\ torn' \in BOOLEAN
      BY <1>0, <2>2, <3>1, AcceptTypes
    <3> QED
      BY <1>6, <2>1, <3>2 DEF RecvCertificate, TypeOK, secretVars, seqVars, policyVars
  <2>3. CASE UNCHANGED <<hsVars, attempt>>
    BY <1>6, <2>1, <2>3 DEF RecvCertificate, TypeOK, hsVars, secretVars, seqVars, policyVars
  <2> QED  BY <1>6, <2>2, <2>3 DEF RecvCertificate
<1>7. CASE RecvCertificateVerify
  <2>1. /\ Accept("CertificateVerify", "ServerCertificateVerified")
        /\ "ServerCertificateVerified" \in States
    BY <1>7 DEF RecvCertificateVerify, States
  <2>2. transcript' \in Transcript /\ state' \in States /\ attempt' \in Nat /\ torn' \in BOOLEAN
    BY <1>0, <2>1, AcceptTypes
  <2> QED
    BY <1>7, <2>2 DEF RecvCertificateVerify, TypeOK, secretVars, seqVars, policyVars
<1>8. CASE RecvNewSessionTicket
  <2>1. Accept("NewSessionTicket", "Finished") /\ "Finished" \in States
    BY <1>8 DEF RecvNewSessionTicket, States
  <2>2. transcript' \in Transcript /\ state' \in States /\ attempt' \in Nat /\ torn' \in BOOLEAN
    BY <1>0, <2>1, AcceptTypes
  <2> QED
    BY <1>8, <2>2 DEF RecvNewSessionTicket, TypeOK, secretVars, seqVars, policyVars
<1> QED  BY <1>1, <1>2, <1>3, <1>4, <1>5, <1>6, <1>7, <1>8

\* The same keys in both directions.
LEMMA BothType ==
  ASSUME NEW S, NEW k \in S
  PROVE  Both(k) \in [Directions -> S]
BY DEF Both

\* The keys after a key update.
LEMMA NextKeysType ==
  ASSUME TypeOK
  PROVE  NextKeys \in [Directions -> TrafficKeys]
<1> SUFFICES ASSUME NEW d \in Directions
             PROVE  [app[d] EXCEPT !.update = @ + 1] \in TrafficKeys
  BY DEF NextKeys
<1>1. app[d] \in TrafficKeys
  BY DEF TypeOK
<1> QED  BY <1>1 DEF TrafficKeys

\* Every action that installs keys.
LEMMA KeyTypes ==
  ASSUME TypeOK,
         \/ DeriveHandshakeSecret \/ Finish \/ UpdateTrafficKeys
         \/ \E requested \in BOOLEAN : RecvKeyUpdate(requested)
  PROVE  TypeOK'
<1>0. {"Finished", "KeyUpdate"} \subseteq MessageTypes
  BY DEF MessageTypes, LaterMessages
<1>1. CASE DeriveHandshakeSecret
  <2>1. secret' \in Secret
    BY <1>1 DEF DeriveHandshakeSecret, Secret, TypeOK, Transcript
  <2>2. [secret |-> secret', transcript |-> transcript, update |-> HandshakeKeys] \in TrafficKeys
    BY <2>1 DEF TypeOK, TrafficKeys, HandshakeKeys
  <2>3. /\ keys' \in [Directions -> TrafficKeys]
        /\ past' \in [Directions -> SUBSET TrafficKeys]
    BY <1>1, <2>2, BothType, InstallType DEF DeriveHandshakeSecret
  <2> QED
    BY <1>1, <2>1, <2>3 DEF DeriveHandshakeSecret, TypeOK, States, seqVars, policyVars
<1>2. CASE Finish
  <2> DEFINE t == Extended(transcript, "Finished")
  <2>1. t \in Transcript
    BY <1>0, ExtendedType DEF TypeOK
  <2>2. transcript' = t
    BY <1>2 DEF Finish, FinishOver
  <2> DEFINE k == [secret |-> secret, transcript |-> t, update |-> ApplicationKeys]
  <2>3. k \in TrafficKeys
    BY <2>1 DEF TypeOK, TrafficKeys, ApplicationKeys
  <2>4. Both(k) \in [Directions -> TrafficKeys]
    BY <2>3, BothType
  <2>5. CASE suite = "tls13"
    <3>1. InstallApplicationKeys(Both(k)) /\ state' = "Finished"
      BY <1>2, <2>5 DEF Finish, FinishOver
    <3>2. InstallRecordKeys(Both(k)) /\ app' = Both(k)
      BY <3>1 DEF InstallApplicationKeys
    <3>3. /\ keys' \in [Directions -> TrafficKeys]
          /\ past' \in [Directions -> SUBSET TrafficKeys]
      BY <2>4, <3>2, InstallType
    <3>4. UNCHANGED <<share, suite, secret>> /\ clientSeq' = 0 /\ serverSeq' = 0
      BY <3>1 DEF InstallApplicationKeys
    <3>5. UNCHANGED <<torn, attempt, hrr, policyVars, peer>>
      BY <1>2 DEF Finish, FinishOver
    <3>6. app' \in [Directions -> TrafficKeys]
      BY <2>4, <3>2
    <3> HIDE DEF t, k
    <3> QED
      BY <2>1, <2>2, <3>1, <3>3, <3>4, <3>5, <3>6, ConnectionAssumption
      DEF TypeOK, States, policyVars
  <2>6. CASE suite # "tls13"
    <3>1. UNCHANGED <<state, secretVars, seqVars, torn, attempt, hrr, policyVars, peer>>
      BY <1>2, <2>6 DEF Finish, FinishOver
    <3> HIDE DEF t
    <3> QED  BY <2>1, <2>2, <3>1 DEF TypeOK, secretVars, seqVars, policyVars
  <2> QED  BY <2>5, <2>6
<1>3. ASSUME InstallApplicationKeys(NextKeys)
      PROVE  /\ keys' \in [Directions -> TrafficKeys] /\ app' \in [Directions -> TrafficKeys]
             /\ past' \in [Directions -> SUBSET TrafficKeys]
             /\ clientSeq' \in 0 .. MaxSequence /\ serverSeq' \in 0 .. MaxSequence
             /\ UNCHANGED <<share, suite, secret>>
  BY <1>3, NextKeysType, InstallType, ConnectionAssumption DEF InstallApplicationKeys
<1>4. CASE UpdateTrafficKeys
  <2>1. InstallApplicationKeys(NextKeys)
    BY <1>4 DEF UpdateTrafficKeys
  <2> QED  BY <1>3, <1>4, <2>1 DEF UpdateTrafficKeys, TypeOK, hsVars, policyVars
<1>5. ASSUME NEW requested \in BOOLEAN, RecvKeyUpdate(requested)
      PROVE  TypeOK'
  <2>1. InstallApplicationKeys(NextKeys) /\ Accept("KeyUpdate", "Finished") /\ "Finished" \in States
    BY <1>5 DEF RecvKeyUpdate, States
  <2>2. transcript' \in Transcript /\ state' \in States /\ attempt' \in Nat /\ torn' \in BOOLEAN
    BY <1>0, <2>1, AcceptTypes
  <2> QED  BY <1>3, <1>5, <2>1, <2>2 DEF RecvKeyUpdate, TypeOK, policyVars
<1> QED  BY <1>1, <1>2, <1>4, <1>5

\* A call seals no more records than numbers are left.
LEMMA SealedCount ==
  ASSUME TypeOK, NEW n \in Nat \ {0}, Seal(n)
  PROVE  /\ Cardinality(Sealed(n)) \in 0 .. MaxSequence - clientSeq
         /\ clientSeq' = clientSeq + Cardinality(Sealed(n))
<1>1. clientSeq \in Nat /\ MaxSequence \in Nat /\ clientSeq < MaxSequence
  BY ConnectionAssumption DEF TypeOK, Seal
<1>2. Sealed(n) \subseteq clientSeq .. MaxSequence - 1
  BY <1>1 DEF Sealed
<1>3. /\ IsFiniteSet(clientSeq .. MaxSequence - 1)
      /\ Cardinality(clientSeq .. MaxSequence - 1) = MaxSequence - clientSeq
  BY <1>1, FS_Interval
<1>4. IsFiniteSet(Sealed(n)) /\ Cardinality(Sealed(n)) <= MaxSequence - clientSeq
  BY <1>2, <1>3, FS_Subset
<1>5. Cardinality(Sealed(n)) \in Nat
  BY <1>4, FS_CardinalityType
<1> QED  BY <1>1, <1>4, <1>5 DEF Seal

\* Records move their counter forwards, and not past the last number.
LEMMA CounterTypes ==
  ASSUME TypeOK, NEW n \in Nat \ {0}, Seal(n) \/ Open(n)
  PROVE  /\ clientSeq' \in 0 .. MaxSequence /\ serverSeq' \in 0 .. MaxSequence
         /\ clientSeq' >= clientSeq /\ serverSeq' >= serverSeq
<1>1. clientSeq \in 0 .. MaxSequence /\ serverSeq \in 0 .. MaxSequence /\ MaxSequence \in Nat
  BY ConnectionAssumption DEF TypeOK
<1>2. CASE Seal(n)
  <2>1. serverSeq' = serverSeq
    BY <1>2 DEF Seal
  <2>2. /\ Cardinality(Sealed(n)) \in 0 .. MaxSequence - clientSeq
        /\ clientSeq' = clientSeq + Cardinality(Sealed(n))
    BY <1>2, SealedCount
  <2> QED  BY <1>1, <2>1, <2>2
<1>3. CASE Open(n)
  BY <1>1, <1>3 DEF Open
<1> QED  BY <1>2, <1>3

\* Records, alerts and policy.
LEMMA RecordTypes ==
  ASSUME TypeOK,
         \/ \E n \in 1 .. MaxFragments : SealRecords(n) \/ OpenRecords(n)
         \/ Alerts \/ SetRequireCertificateAuth
  PROVE  TypeOK'
<1>1. ASSUME NEW n \in 1 .. MaxFragments, SealRecords(n) \/ OpenRecords(n)
      PROVE  TypeOK'
  <2>1. n \in Nat \ {0}
    BY ConnectionAssumption
  <2>2. clientSeq' \in 0 .. MaxSequence /\ serverSeq' \in 0 .. MaxSequence
    BY <1>1, <2>1, CounterTypes DEF SealRecords, OpenRecords
  <2> QED
    BY <1>1, <2>2
    DEF SealRecords, OpenRecords, TypeOK, hsVars, secretVars, policyVars
<1>2. CASE Alerts
  <2>1. FatalEffects
    BY <1>2 DEF Alerts, SendFatalAlert, RecvFatalAlert, RecvOwnFatalAlert
  <2>2. clientSeq' \in 0 .. MaxSequence /\ serverSeq' \in 0 .. MaxSequence
    <3>1. CASE Seal(1) \/ Open(1)
      BY <3>1, CounterTypes
    <3>2. CASE UNCHANGED seqVars
      BY <3>2 DEF seqVars, TypeOK
    <3> QED
      BY <1>2, <3>1, <3>2 DEF Alerts, SendFatalAlert, RecvFatalAlert, RecvOwnFatalAlert
  <2>3. dead' \subseteq TrafficKeys
    BY <2>1 DEF FatalEffects, TypeOK
  <2> QED  BY <2>1, <2>2, <2>3 DEF FatalEffects, TypeOK, States, secretVars
<1>3. CASE SetRequireCertificateAuth
  BY <1>3 DEF SetRequireCertificateAuth, TypeOK, hsVars, secretVars, seqVars
<1> QED  BY <1>1, <1>2, <1>3

\* Every step keeps the types.
LEMMA StepType == TypeOK /\ [Next]_vars => TypeOK'
<1> SUFFICES ASSUME TypeOK, [Next]_vars PROVE TypeOK'
  OBVIOUS
<1>1. CASE ClientHello
  BY <1>1, HelloTypes
<1>2. CASE ServerFlight
  BY <1>2, FlightTypes, KeyTypes DEF ServerFlight
<1>3. CASE Established
  BY <1>3, FlightTypes, KeyTypes, RecordTypes DEF Established
<1>4. CASE Alerts \/ SetRequireCertificateAuth
  BY <1>4, RecordTypes
<1>5. CASE UNCHANGED vars
  BY <1>5 DEF vars, hsVars, secretVars, seqVars, policyVars, TypeOK
<1> QED  BY <1>1, <1>2, <1>3, <1>4, <1>5 DEF Next

\* Every state is well-typed.
THEOREM TypeCorrect == Spec => []TypeOK
<1>1. Init => TypeOK
  BY InitType
<1>2. TypeOK /\ [Next]_vars => TypeOK'
  BY StepType
<1> QED  BY <1>1, <1>2, PTL DEF Spec

-----------------------------------------------------------------------------
(***************************************************************************)
(* The inductive invariant of the key schedule.                            *)
(***************************************************************************)
\* A handshake that has not derived its keys yet.
Early ==
  {"ClientHelloSent", "ServerHelloReceived", "ServerEncryptedExtensionsReceived",
   "ServerCertificateRequestReceived", "ServerCertificateReceived",
   "ServerCertificateVerified"}

\* The keys that are or were in force.
Seen == past["seal"] \cup {keys["seal"]}

\* Keys that come from messages of earlier handshakes only.
FromBefore(k) == \A i \in DOMAIN k.transcript : k.transcript[i].attempt < attempt

\* A retry for a group there is no support for leaves the connection in Idle.
RetryWaits == hrr = "unsupported" => state = "Idle"

\* Both directions go through the same keys.
OneSchedule ==
  /\ keys["seal"] = keys["open"]
  /\ app["seal"] = app["open"]
  /\ past["seal"] = past["open"]

\* Before the first Finished there is at most one derivation, and no record.
FirstKeys ==
  app = NoKeys =>
    /\ clientSeq = 0 /\ state # "Finished"
    /\ state # "KeysDerived" => keys = NoKeys /\ past = Both({})

\* The transcript of a handshake in progress is of this handshake.
OwnTranscript ==
  state # "Idle" => \A i \in DOMAIN transcript : transcript[i].attempt = attempt

\* No key comes from a later handshake, and none from this one before the
\* step that derives it.
KeysNotAhead ==
  \A k \in Seen :
    /\ \A i \in DOMAIN k.transcript : k.transcript[i].attempt <= attempt
    /\ state \in Early \/ (state = "KeysDerived" /\ k.update >= ApplicationKeys)
         => FromBefore(k)

\* The application keys are the last update of their secret and transcript.
LatestUpdate ==
  app # NoKeys =>
    /\ app["seal"].update >= ApplicationKeys
    /\ \A k \in Seen :
         k.secret = app["seal"].secret /\ k.transcript = app["seal"].transcript
           => k.update <= app["seal"].update

\* A finished connection works under its application keys, which no fatal
\* alert has been seen under.
AliveKeys ==
  /\ dead \subseteq Seen
  /\ state = "Finished" => keys = app /\ app # NoKeys /\ keys["seal"] \notin dead

KeysInv ==
  /\ RetryWaits /\ OneSchedule /\ FirstKeys /\ OwnTranscript /\ KeysNotAhead
  /\ LatestUpdate /\ AliveKeys

\* The initial state.
LEMMA InitKeysInv == Init => KeysInv
BY DEF Init, KeysInv, RetryWaits, OneSchedule, FirstKeys, OwnTranscript, KeysNotAhead,
       LatestUpdate, AliveKeys, Seen, FromBefore, Early, NoKeys, Both, Directions,
       NoTrafficKeys

\* What leaves keys, counters and alerts alone keeps the invariant, as long
\* as it keeps the transcript within the handshake.
LEMMA SameKeys ==
  ASSUME KeysInv, UNCHANGED <<keys, app, past, dead, attempt>>,
         RetryWaits', OwnTranscript', state' # "Finished" \/ state = "Finished",
         app = NoKeys => clientSeq' = 0 /\ (state = "KeysDerived" => state' = "KeysDerived"),
         state' \in Early => state \in Early,
         state' = "KeysDerived" => state = "KeysDerived"
  PROVE  KeysInv'
<1>1. OneSchedule' /\ LatestUpdate' /\ AliveKeys'
  BY DEF KeysInv, OneSchedule, LatestUpdate, AliveKeys, Seen
<1>2. FirstKeys'
  BY DEF KeysInv, FirstKeys
<1>3. KeysNotAhead'
  BY DEF KeysInv, KeysNotAhead, Seen, FromBefore
<1> QED  BY <1>1, <1>2, <1>3 DEF KeysInv

\* A handshake in progress goes on with one more message.
LEMMA AcceptOwn ==
  ASSUME TypeOK, OwnTranscript, state # "Idle", NEW type \in MessageTypes,
         transcript' = Extended(transcript, type), UNCHANGED attempt
  PROVE  OwnTranscript'
<1>1. transcript \in Transcript /\ attempt \in Nat /\ attempt' = attempt
  BY DEF TypeOK
<1>2. /\ Len(transcript') = Len(transcript) + 1
      /\ transcript' \in Transcript
      /\ \A i \in 1 .. Len(transcript) : transcript'[i] = transcript[i]
      /\ transcript'[Len(transcript) + 1] = [type |-> type, attempt |-> attempt]
  BY <1>1, ExtendedType
<1>3. \A i \in DOMAIN transcript : transcript[i].attempt = attempt
  BY DEF OwnTranscript
<1>4. DOMAIN transcript = 1 .. Len(transcript) /\ Len(transcript) \in Nat
      /\ DOMAIN transcript' = 1 .. Len(transcript) + 1
  BY <1>1, <1>2 DEF Transcript
<1>5. \A i \in DOMAIN transcript' : transcript'[i].attempt = attempt'
  BY <1>1, <1>2, <1>3, <1>4
<1> QED  BY <1>5 DEF OwnTranscript

\* The messages under the keys are of no later attempt when there is one more.
LEMMA NotAheadLater ==
  ASSUME TypeOK, KeysNotAhead, UNCHANGED <<keys, past>>, attempt' \in {attempt, attempt + 1},
         attempt' = attempt + 1 \/ UNCHANGED state
  PROVE  KeysNotAhead'
<1>0. Seen' = Seen
  BY DEF Seen
<1>1. attempt \in Nat
  BY DEF TypeOK
<1>2. ASSUME NEW k \in Seen, NEW i \in DOMAIN k.transcript
      PROVE  k.transcript[i].attempt \in Nat /\ k.transcript[i].attempt <= attempt
  <2>1. k \in TrafficKeys
    BY DEF TypeOK, Seen, Directions
  <2>2. k.transcript \in Transcript
    BY <2>1 DEF TrafficKeys
  <2>3. k.transcript[i] \in Message
    BY <1>2, <2>2 DEF Transcript
  <2> QED  BY <1>2, <2>3 DEF Message, KeysNotAhead
<1>3. CASE attempt' = attempt + 1
  BY <1>0, <1>1, <1>2, <1>3 DEF KeysNotAhead, FromBefore
<1>4. CASE attempt' = attempt /\ UNCHANGED state
  BY <1>0, <1>4 DEF KeysNotAhead, FromBefore
<1> QED  BY <1>3, <1>4

\* ClientHello calls keep the key schedule.
LEMMA HelloKeys ==
  ASSUME TypeOK, KeysInv, ClientHello
  PROVE  KeysInv'
<1>1. CASE RefuseHello
  <2>1. /\ UNCHANGED <<keys, app, past, dead, state, hrr, clientSeq>> /\ transcript' = <<>>
        /\ attempt' \in {attempt, attempt + 1}
    BY <1>1 DEF RefuseHello, HelloRefusals, secretVars, seqVars, policyVars
  <2>2. RetryWaits' /\ OwnTranscript'
    BY <2>1 DEF KeysInv, RetryWaits, OwnTranscript
  <2>3. OneSchedule' /\ FirstKeys' /\ LatestUpdate' /\ AliveKeys'
    BY <2>1 DEF KeysInv, OneSchedule, FirstKeys, LatestUpdate, AliveKeys, Seen
  <2>4. KeysNotAhead'
    BY <2>1, NotAheadLater DEF KeysInv
  <2> QED  BY <2>2, <2>3, <2>4 DEF KeysInv
<1>2. CASE BeginHandshake /\ RetryGroupSupported /\ (state = "Idle" \/ app # NoKeys)
  <2>1. /\ UNCHANGED <<keys, app, past, dead, hrr, clientSeq>>
        /\ attempt' = attempt + 1 /\ state' = "ClientHelloSent"
        /\ transcript' = <<[type |-> "ClientHello", attempt |-> attempt']>>
    BY <1>2 DEF BeginHandshake, HelloSent, secretVars, seqVars, policyVars
  <2>2. RetryWaits'
    BY <1>2, <2>1 DEF RetryGroupSupported, RetryWaits
  <2>3. OneSchedule' /\ LatestUpdate' /\ AliveKeys'
    BY <2>1 DEF KeysInv, OneSchedule, LatestUpdate, AliveKeys, Seen
  <2>4. FirstKeys'
    BY <1>2, <2>1 DEF KeysInv, FirstKeys
  <2>5. OwnTranscript'
    BY <2>1 DEF OwnTranscript
  <2>6. KeysNotAhead'
    BY <2>1, NotAheadLater DEF KeysInv
  <2> QED  BY <2>2, <2>3, <2>4, <2>5, <2>6 DEF KeysInv
<1> QED
  BY <1>1, <1>2 DEF ClientHello, SendClientHello, SendResumptionHello

\* So do the server's flight, but for what derives keys, and tickets.
LEMMA FlightKeys ==
  ASSUME TypeOK, KeysInv,
         \/ \E group \in {"supported", "unsupported"} : RecvHelloRetryRequest(group)
         \/ \E withShare \in BOOLEAN, s \in {"tls12", "tls13"} : RecvServerHello(withShare, s)
         \/ RecvServerHelloBadShare
         \/ RecvEncryptedExtensions
         \/ RecvCertificateRequest
         \/ \E staple \in {"none", "good", "bad"}, valid \in BOOLEAN :
              RecvCertificate(staple, valid)
         \/ RecvCertificateVerify
         \/ RecvNewSessionTicket
  PROVE  KeysInv'
<1>0. /\ UNCHANGED <<keys, app, past, dead, attempt, clientSeq>>
      /\ app = NoKeys => clientSeq = 0 /\ state # "Finished"
      /\ OwnTranscript /\ RetryWaits
  BY DEF KeysInv, FirstKeys, RecvHelloRetryRequest, RecvServerHello, RecvServerHelloBadShare,
    RecvEncryptedExtensions, RecvCertificateRequest, RecvCertificate, RecvCertificateVerify,
    RecvNewSessionTicket, Accept, secretVars, seqVars, policyVars, hsVars
<1>1. CASE \E group \in {"supported", "unsupported"} : RecvHelloRetryRequest(group)
  <2>1. state' = "Idle" /\ state = "ClientHelloSent"
    BY <1>1 DEF RecvHelloRetryRequest
  <2>2. RetryWaits' /\ OwnTranscript'
    BY <2>1 DEF RetryWaits, OwnTranscript, Early
  <2> QED  BY <1>0, <2>1, <2>2, SameKeys DEF Early
<1>2. ASSUME NEW type \in MessageTypes, NEW next \in Early,
             state \in Early, Accept(type, next), hrr' \in {hrr, "none"}
      PROVE  KeysInv'
  <2>1. state' = next /\ next \in States /\ state # "Idle" /\ state' # "Idle"
        /\ state' \notin {"Finished", "KeysDerived"} /\ state # "KeysDerived"
    BY <1>2 DEF Accept, Early, States
  <2>2. RetryWaits'
    BY <1>0, <1>2, <2>1 DEF RetryWaits
  <2>3. OwnTranscript'
    BY <1>0, <1>2, <2>1, AcceptOwn DEF Accept
  <2> QED  BY <1>0, <1>2, <2>1, <2>2, <2>3, SameKeys
<1>3. ASSUME UNCHANGED <<state, transcript>>, state \in Early, hrr' \in {hrr, "none"}
      PROVE  KeysInv'
  <2>1. RetryWaits' /\ OwnTranscript'
    BY <1>0, <1>3 DEF RetryWaits, OwnTranscript
  <2> QED  BY <1>0, <1>3, <2>1, SameKeys DEF Early
<1>4. CASE \E withShare \in BOOLEAN, s \in {"tls12", "tls13"} : RecvServerHello(withShare, s)
  BY <1>2, <1>4 DEF RecvServerHello, Early, MessageTypes
<1>5. CASE RecvServerHelloBadShare
  BY <1>3, <1>5 DEF RecvServerHelloBadShare, Early, hsVars
<1>6. CASE RecvEncryptedExtensions
  BY <1>2, <1>6 DEF RecvEncryptedExtensions, Early, MessageTypes
<1>7. CASE RecvCertificateRequest
  BY <1>2, <1>7 DEF RecvCertificateRequest, Early, MessageTypes
<1>8. CASE \E staple \in {"none", "good", "bad"}, valid \in BOOLEAN : RecvCertificate(staple, valid)
  <2>1. /\ state \in Early /\ hrr' = hrr
        /\ Accept("Certificate", "ServerCertificateReceived") \/ UNCHANGED <<hsVars, attempt>>
    BY <1>8 DEF RecvCertificate, Early
  <2> QED  BY <1>2, <1>3, <2>1 DEF Early, MessageTypes, hsVars
<1>9. CASE RecvCertificateVerify
  BY <1>2, <1>9 DEF RecvCertificateVerify, Early, MessageTypes
<1>10. CASE RecvNewSessionTicket
  <2>1. state = "Finished" /\ state' = "Finished" /\ hrr' = hrr
        /\ Accept("NewSessionTicket", "Finished")
        /\ "NewSessionTicket" \in MessageTypes /\ "Finished" \in States
    BY <1>10 DEF RecvNewSessionTicket, Accept, MessageTypes, LaterMessages, States
  <2>2. RetryWaits' /\ OwnTranscript'
    BY <1>0, <2>1, AcceptOwn DEF RetryWaits, Accept
  <2> QED  BY <1>0, <2>1, <2>2, SameKeys DEF Early
<1> QED  BY <1>1, <1>4, <1>5, <1>6, <1>7, <1>8, <1>9, <1>10

\* Keys that no one has seen, come into force as the application keys.
LEMMA NewKeys ==
  ASSUME TypeOK, KeysInv, NEW k \in TrafficKeys, k \notin Seen, k.update >= ApplicationKeys,
         \A i \in DOMAIN k.transcript : k.transcript[i].attempt <= attempt,
         \A j \in Seen : j.secret = k.secret /\ j.transcript = k.transcript
                           => j.update <= k.update,
         InstallApplicationKeys(Both(k)), UNCHANGED <<dead, attempt>>,
         state' = "Finished", RetryWaits', OwnTranscript'
  PROVE  KeysInv'
<1>1. /\ keys' = Both(k) /\ app' = Both(k)
      /\ past' = [d \in Directions |-> past[d] \cup {keys[d]}]
  BY DEF InstallApplicationKeys, InstallRecordKeys
<1>2. /\ keys'["seal"] = k /\ keys'["open"] = k /\ app'["seal"] = k /\ app'["open"] = k
      /\ past'["seal"] = past["seal"] \cup {keys["seal"]}
      /\ past'["open"] = past["open"] \cup {keys["open"]}
  BY <1>1 DEF Both, Directions
<1>3. OneSchedule'
  BY <1>2 DEF KeysInv, OneSchedule
<1>4. Seen' = Seen \cup {k}
  BY <1>2 DEF Seen
<1>5. k.update \in Nat
  BY DEF TrafficKeys
<1>6. app' # NoKeys
  <2>1. NoKeys["seal"].update = 0
    BY DEF NoKeys, Both, Directions, NoTrafficKeys, None
  <2> QED  BY <1>2, <1>5, <2>1 DEF ApplicationKeys
<1>7. FirstKeys'
  BY <1>6 DEF FirstKeys
<1>8. KeysNotAhead'
  BY <1>4 DEF KeysNotAhead, KeysInv, Early
<1>9. LatestUpdate'
  BY <1>2, <1>4, <1>5 DEF LatestUpdate
<1>10. AliveKeys'
  BY <1>1, <1>2, <1>4, <1>6 DEF AliveKeys, KeysInv
<1> QED  BY <1>3, <1>7, <1>8, <1>9, <1>10 DEF KeysInv

\* What derive_handshake_secret installs has not been in force before, unless
\* the handshake is torn.
LEMMA DerivedIsNew ==
  ASSUME TypeOK, KeysInv, DeriveHandshakeSecret, BoundToHello(keys'["seal"])
  PROVE  keys'["seal"] \notin past["seal"]
<1>1. /\ keys'["seal"].transcript = transcript
      /\ state \in Early
  BY DEF DeriveHandshakeSecret, InstallRecordKeys, Both, Directions, Early
<1> SUFFICES ASSUME keys'["seal"] \in past["seal"]
             PROVE  FALSE
  OBVIOUS
<1>2. \A i \in DOMAIN transcript : transcript[i].attempt < attempt
  BY <1>1 DEF KeysInv, KeysNotAhead, Seen, FromBefore
<1>3. \A i \in DOMAIN transcript : transcript[i].attempt = attempt
  BY <1>1 DEF KeysInv, OwnTranscript, Early
<1>4. attempt \in Nat /\ transcript \in Seq(Message)
  BY DEF TypeOK, Transcript
<1>5. DOMAIN transcript = {}
  BY <1>2, <1>3, <1>4
<1>6. transcript = <<>>
  BY <1>4, <1>5
<1> QED  BY <1>1, <1>6 DEF BoundToHello

\* derive_handshake_secret keeps the key schedule.
LEMMA DeriveKeys ==
  ASSUME TypeOK, KeysInv, DeriveHandshakeSecret
  PROVE  KeysInv'
<1> DEFINE k == [secret |-> secret', transcript |-> transcript, update |-> HandshakeKeys]
<1>1. /\ keys' = Both(k)
      /\ past' = [d \in Directions |-> past[d] \cup {keys[d]}]
      /\ state' = "KeysDerived" /\ state \in Early
      /\ UNCHANGED <<transcript, attempt, hrr, app, dead, clientSeq>>
  BY DEF DeriveHandshakeSecret, InstallRecordKeys, seqVars, policyVars, Early
<1>2. k.transcript = transcript /\ k.update = 1
  BY DEF HandshakeKeys
<1> HIDE DEF k
<1>3. /\ keys'["seal"] = k /\ keys'["open"] = k
      /\ past'["seal"] = past["seal"] \cup {keys["seal"]}
      /\ past'["open"] = past["open"] \cup {keys["open"]}
  BY <1>1 DEF Both, Directions
<1>4. OneSchedule'
  BY <1>1, <1>3 DEF KeysInv, OneSchedule
<1>5. Seen' = Seen \cup {k}
  BY <1>3 DEF Seen
<1>6. FirstKeys' /\ RetryWaits'
  BY <1>1 DEF KeysInv, FirstKeys, RetryWaits, Early
<1>7. OwnTranscript'
  BY <1>1 DEF KeysInv, OwnTranscript, Early
<1>8. KeysNotAhead'
  <2>1. \A i \in DOMAIN k.transcript : k.transcript[i].attempt <= attempt
    <3>1. \A i \in DOMAIN transcript : transcript[i].attempt = attempt
      BY <1>1 DEF KeysInv, OwnTranscript, Early
    <3>2. attempt <= attempt
      BY DEF TypeOK
    <3> QED  BY <1>2, <3>1, <3>2
  <2>2. ~(k.update >= ApplicationKeys)
    BY <1>2 DEF ApplicationKeys
  <2>3. \A j \in Seen : /\ \A i \in DOMAIN j.transcript : j.transcript[i].attempt <= attempt
                        /\ FromBefore(j)
    BY <1>1 DEF KeysInv, KeysNotAhead
  <2> QED
    BY <1>1, <1>5, <2>1, <2>2, <2>3 DEF KeysNotAhead, FromBefore, Early
<1>9. LatestUpdate'
  <2>1. app["seal"].update \in Nat
    BY DEF TypeOK, TrafficKeys, Directions
  <2> QED  BY <1>1, <1>2, <1>5, <2>1 DEF KeysInv, LatestUpdate, ApplicationKeys
<1>10. AliveKeys'
  BY <1>1, <1>5 DEF KeysInv, AliveKeys
<1> QED  BY <1>4, <1>6, <1>7, <1>8, <1>9, <1>10 DEF KeysInv

\* What Finish installs has not been in force before.
LEMMA FinishedIsNew ==
  ASSUME TypeOK, KeysInv, Finish, NEW k \in TrafficKeys,
         k.transcript = Extended(transcript, "Finished")
  PROVE  /\ k.update >= ApplicationKeys => k \notin Seen
         /\ \A j \in Seen : j.transcript = k.transcript => j.update < ApplicationKeys
<1>1. state \in Early \/ state = "KeysDerived"
  BY DEF Finish, FinishOver, Early
<1>2. "Finished" \in MessageTypes /\ transcript \in Transcript /\ attempt \in Nat
  BY DEF TypeOK, MessageTypes
<1>3. /\ k.transcript \in Transcript
      /\ Len(k.transcript) = Len(transcript) + 1 /\ Len(transcript) \in Nat
      /\ k.transcript[Len(transcript) + 1].attempt = attempt
  <2>1. Len(transcript) \in Nat
    BY <1>2 DEF Transcript
  <2>2. Extended(transcript, "Finished")[Len(transcript) + 1]
          = [type |-> "Finished", attempt |-> attempt]
    BY <1>2, ExtendedType
  <2>3. /\ Extended(transcript, "Finished") \in Transcript
        /\ Len(Extended(transcript, "Finished")) = Len(transcript) + 1
    BY <1>2, ExtendedType
  <2>4. k.transcript[Len(transcript) + 1].attempt = attempt
    BY <2>2
  <2> QED  BY <2>1, <2>3, <2>4
<1>4. Len(transcript) + 1 \in DOMAIN k.transcript
  BY <1>3 DEF Transcript
<1>5. ASSUME NEW j \in Seen, j.transcript = k.transcript, j.update >= ApplicationKeys
      PROVE  FALSE
  <2>1. FromBefore(j)
    BY <1>1, <1>5 DEF KeysInv, KeysNotAhead
  <2>2. attempt < attempt
    BY <1>3, <1>4, <1>5, <2>1 DEF FromBefore
  <2> QED  BY <1>2, <2>2
<1>6. \A j \in Seen : j.update \in Nat
  BY DEF TypeOK, Seen, Directions, TrafficKeys
<1> QED  BY <1>5, <1>6 DEF ApplicationKeys

\* Finish keeps it, with a suite of TLS 1.3 or not.
LEMMA FinishKeys ==
  ASSUME TypeOK, KeysInv, Finish
  PROVE  KeysInv'
<1> DEFINE t == Extended(transcript, "Finished")
<1> DEFINE k == [secret |-> secret, transcript |-> t, update |-> ApplicationKeys]
<1>1. /\ transcript' = t /\ state \in {"KeysDerived", "ServerCertificateVerified"}
      /\ UNCHANGED <<attempt, hrr, dead>>
  BY DEF Finish, FinishOver, policyVars
<1>2. "Finished" \in MessageTypes
  BY DEF MessageTypes
<1>3. RetryWaits' /\ OwnTranscript'
  BY <1>1, <1>2, AcceptOwn DEF KeysInv, RetryWaits
<1>4. CASE suite = "tls13"
  <2>1. InstallApplicationKeys(Both(k)) /\ state' = "Finished"
    BY <1>4 DEF Finish, FinishOver
  <2>2. t \in Transcript
    BY <1>2, ExtendedType DEF TypeOK
  <2>3. k \in TrafficKeys
    BY <2>2 DEF TypeOK, TrafficKeys, ApplicationKeys
  <2>4. /\ k.transcript = t /\ k.update = ApplicationKeys
        /\ k.update >= ApplicationKeys
    BY DEF ApplicationKeys
  <2>5. \A i \in DOMAIN t : t[i].attempt <= attempt
    <3>1. \A i \in DOMAIN t : t[i].attempt = attempt
      BY <1>1, <1>3, <2>1 DEF OwnTranscript
    <3>2. attempt <= attempt
      BY DEF TypeOK
    <3> QED  BY <3>1, <3>2
  <2>6. \A j \in Seen : j.update \in Nat
    BY DEF TypeOK, Seen, Directions, TrafficKeys
  <2> HIDE DEF k
  <2>7. /\ k \notin Seen
        /\ \A j \in Seen : j.transcript = k.transcript => j.update < ApplicationKeys
    BY <2>3, <2>4, FinishedIsNew
  <2> HIDE DEF t
  <2>8. \A j \in Seen : j.secret = k.secret /\ j.transcript = k.transcript
                          => j.update <= k.update
    BY <2>4, <2>6, <2>7 DEF ApplicationKeys
  <2> QED  BY <1>1, <1>3, <2>1, <2>3, <2>4, <2>5, <2>7, <2>8, NewKeys
<1>5. CASE suite # "tls13"
  <2>1. UNCHANGED <<state, keys, app, past, clientSeq>>
    BY <1>5 DEF Finish, FinishOver, secretVars, seqVars
  <2>2. app = NoKeys => clientSeq = 0
    BY DEF KeysInv, FirstKeys
  <2> QED  BY <1>1, <1>3, <2>1, <2>2, SameKeys DEF Early
<1> QED  BY <1>4, <1>5

\* What a key update installs has not been in force before.
LEMMA NextIsNew ==
  ASSUME TypeOK, KeysInv, state = "Finished"
  PROVE  \E k \in TrafficKeys :
           /\ NextKeys = Both(k) /\ k \notin Seen
           /\ k.update >= ApplicationKeys
           /\ k.secret = keys["seal"].secret /\ k.transcript = keys["seal"].transcript
           /\ \A j \in Seen : j.secret = k.secret /\ j.transcript = k.transcript
                                => j.update <= k.update
<1> DEFINE k == [app["seal"] EXCEPT !.update = @ + 1]
<1>1. app["seal"] \in TrafficKeys /\ app["seal"] = app["open"]
  BY DEF TypeOK, Directions, KeysInv, OneSchedule
<1>2. /\ k \in TrafficKeys
      /\ k.secret = app["seal"].secret /\ k.transcript = app["seal"].transcript
      /\ k.update = app["seal"].update + 1
      /\ app["seal"].update \in Nat
  BY <1>1 DEF TrafficKeys
<1>3. NextKeys = Both(k)
  BY <1>1 DEF NextKeys, Both, Directions
<1> HIDE DEF k
<1>4. keys = app /\ app # NoKeys
  BY DEF KeysInv, AliveKeys
<1>5. /\ app["seal"].update >= ApplicationKeys
      /\ \A j \in Seen : j.secret = app["seal"].secret /\ j.transcript = app["seal"].transcript
                           => j.update <= app["seal"].update
  BY <1>4 DEF KeysInv, LatestUpdate
<1>6. k \notin Seen /\ k.update >= ApplicationKeys
  BY <1>2, <1>5 DEF ApplicationKeys
<1>7. \A j \in Seen : j.update \in Nat
  BY DEF TypeOK, Seen, Directions, TrafficKeys
<1>8. \A j \in Seen : j.secret = k.secret /\ j.transcript = k.transcript => j.update <= k.update
  BY <1>2, <1>5, <1>7
<1> QED  BY <1>2, <1>3, <1>4, <1>6, <1>8

\* Key updates keep it.
LEMMA UpdateKeys ==
  ASSUME TypeOK, KeysInv,
         UpdateTrafficKeys \/ \E requested \in BOOLEAN : RecvKeyUpdate(requested)
  PROVE  KeysInv'
<1>1. /\ InstallApplicationKeys(NextKeys) /\ state = "Finished" /\ state' = "Finished"
      /\ UNCHANGED <<attempt, hrr, dead>>
  BY DEF UpdateTrafficKeys, RecvKeyUpdate, Accept, policyVars, hsVars
<1>2. PICK k \in TrafficKeys :
        /\ NextKeys = Both(k) /\ k \notin Seen
        /\ k.update >= ApplicationKeys
        /\ k.transcript = keys["seal"].transcript
        /\ \A j \in Seen : j.secret = k.secret /\ j.transcript = k.transcript
                             => j.update <= k.update
  BY <1>1, NextIsNew
<1>3. \A i \in DOMAIN k.transcript : k.transcript[i].attempt <= attempt
  BY <1>2 DEF KeysInv, KeysNotAhead, Seen
<1>4. RetryWaits'
  BY <1>1 DEF KeysInv, RetryWaits
<1>5. OwnTranscript'
  <2>1. CASE UpdateTrafficKeys
    BY <1>1, <2>1 DEF UpdateTrafficKeys, hsVars, KeysInv, OwnTranscript, Early
  <2>2. CASE \E requested \in BOOLEAN : RecvKeyUpdate(requested)
    <3>1. transcript' = Extended(transcript, "KeyUpdate") /\ "KeyUpdate" \in MessageTypes
      BY <2>2 DEF RecvKeyUpdate, Accept, MessageTypes, LaterMessages
    <3> QED  BY <1>1, <3>1, AcceptOwn DEF KeysInv
  <2> QED  BY <2>1, <2>2
<1>6. InstallApplicationKeys(Both(k))
  BY <1>1, <1>2
<1> QED  BY <1>1, <1>2, <1>3, <1>4, <1>5, <1>6, NewKeys

\* Records and policy keep it.
LEMMA RecordKeys ==
  ASSUME TypeOK, KeysInv,
         \/ \E n \in 1 .. MaxFragments : SealRecords(n) \/ OpenRecords(n)
         \/ SetRequireCertificateAuth
         \/ UNCHANGED vars
  PROVE  KeysInv'
<1>1. /\ UNCHANGED <<keys, app, past, dead, attempt, state, hrr, transcript>>
      /\ state = "Finished" \/ UNCHANGED clientSeq
  BY DEF SealRecords, OpenRecords, Seal, Open, SetRequireCertificateAuth, vars, hsVars,
    secretVars, seqVars, policyVars
<1>2. /\ app = NoKeys => clientSeq = 0
      /\ state = "Finished" => app # NoKeys
  BY DEF KeysInv, FirstKeys
<1>3. RetryWaits' /\ OwnTranscript'
  BY <1>1 DEF KeysInv, RetryWaits, OwnTranscript
<1> QED  BY <1>1, <1>2, <1>3, SameKeys

\* A fatal alert ends the connection; its keys are dead from then on.
LEMMA AlertKeys ==
  ASSUME TypeOK, KeysInv, Alerts
  PROVE  KeysInv'
<1>1. /\ UNCHANGED <<keys, app, past, attempt, hrr, transcript>> /\ state' = "Idle"
      /\ dead' = dead \cup {keys[d] : d \in Directions}
  BY DEF Alerts, SendFatalAlert, RecvFatalAlert, RecvOwnFatalAlert, FatalEffects, secretVars
<1>2. app # NoKeys
  <2>1. state = "Finished" \/ clientSeq > 0
    BY DEF Alerts, SendFatalAlert, RecvFatalAlert, RecvOwnFatalAlert, Seal, Open
  <2>2. app = NoKeys => clientSeq = 0 /\ state # "Finished"
    BY DEF KeysInv, FirstKeys
  <2> QED  BY <2>1, <2>2
<1>3. RetryWaits' /\ OwnTranscript' /\ FirstKeys'
  BY <1>1, <1>2 DEF RetryWaits, OwnTranscript, FirstKeys, Early
<1>4. OneSchedule' /\ LatestUpdate'
  BY <1>1 DEF KeysInv, OneSchedule, LatestUpdate, Seen
<1>5. KeysNotAhead'
  BY <1>1 DEF KeysInv, KeysNotAhead, Seen, Early
<1>6. AliveKeys'
  BY <1>1 DEF KeysInv, AliveKeys, OneSchedule, Seen, Directions
<1> QED  BY <1>3, <1>4, <1>5, <1>6 DEF KeysInv

\* Every step keeps the key schedule.
LEMMA StepKeysInv == TypeOK /\ KeysInv /\ [Next]_vars => KeysInv'
<1> SUFFICES ASSUME TypeOK, KeysInv, [Next]_vars PROVE KeysInv'
  OBVIOUS
<1>1. CASE ClientHello
  BY <1>1, HelloKeys
<1>2. CASE ServerFlight
  BY <1>2, FlightKeys, DeriveKeys, FinishKeys DEF ServerFlight
<1>3. CASE Established
  BY <1>3, FlightKeys, UpdateKeys, RecordKeys DEF Established
<1>4. CASE Alerts
  BY <1>4, AlertKeys
<1>5. CASE SetRequireCertificateAuth \/ UNCHANGED vars
  BY <1>5, RecordKeys
<1> QED  BY <1>1, <1>2, <1>3, <1>4, <1>5 DEF Next

\* The key schedule and its record counters stay consistent.
LEMMA KeysInvariant == Spec => []KeysInv
<1>1. Init => KeysInv
  BY InitKeysInv
<1>2. TypeOK /\ KeysInv /\ [Next]_vars => KeysInv'
  BY StepKeysInv
<1> QED  BY <1>1, <1>2, TypeCorrect, PTL DEF Spec

\* The counters move only forwards, but with new keys, and new keys are new.
LEMMA NumbersStep ==
  TypeOK /\ KeysInv /\ [Next]_vars =>
    /\ BoundToHello(keys'["seal"]) /\ clientSeq' < clientSeq => keys'["seal"] # keys["seal"]
    /\ BoundToHello(keys'["open"]) /\ serverSeq' < serverSeq => keys'["open"] # keys["open"]
    /\ \A d \in Directions :
         BoundToHello(keys'[d]) /\ keys'[d] # keys[d] => keys'[d] \notin past[d]
<1> DEFINE Kept == keys' = keys /\ clientSeq' >= clientSeq /\ serverSeq' >= serverSeq
<1> DEFINE Fresh == /\ keys'["seal"] = keys'["open"]
                    /\ BoundToHello(keys'["seal"]) => keys'["seal"] \notin past["seal"]
                    /\ keys'["seal"] # keys["seal"] \/ UNCHANGED seqVars
<1> SUFFICES ASSUME TypeOK, KeysInv, [Next]_vars
             PROVE  /\ BoundToHello(keys'["seal"]) /\ clientSeq' < clientSeq
                         => keys'["seal"] # keys["seal"]
                    /\ BoundToHello(keys'["open"]) /\ serverSeq' < serverSeq
                         => keys'["open"] # keys["open"]
                    /\ \A d \in Directions :
                         BoundToHello(keys'[d]) /\ keys'[d] # keys[d]
                           => keys'[d] \notin past[d]
  OBVIOUS
<1> SUFFICES Kept \/ Fresh
  <2>1. /\ keys["seal"] = keys["open"] /\ past["seal"] = past["open"]
        /\ clientSeq \in Nat /\ serverSeq \in Nat
    BY ConnectionAssumption DEF KeysInv, OneSchedule, TypeOK
  <2>2. clientSeq' \in Nat /\ serverSeq' \in Nat
    BY StepType, ConnectionAssumption DEF TypeOK
  <2>3. CASE Kept
    BY <2>1, <2>2, <2>3
  <2>4. CASE Fresh
    BY <2>1, <2>2, <2>4 DEF Directions, seqVars
  <2> QED  BY <2>3, <2>4
<1>0. clientSeq \in Nat /\ serverSeq \in Nat
  BY ConnectionAssumption DEF TypeOK
<1>1. ASSUME UNCHANGED <<keys, seqVars>>
      PROVE  Kept
  BY <1>0, <1>1 DEF seqVars
<1>2. ASSUME UNCHANGED keys, NEW n \in Nat \ {0}, Seal(n) \/ Open(n)
      PROVE  Kept
  BY <1>2, CounterTypes
<1>3. ASSUME NEW k, k \notin Seen, InstallApplicationKeys(Both(k))
      PROVE  Fresh
  BY <1>3 DEF InstallApplicationKeys, InstallRecordKeys, Both, Directions, Seen
<1>4. CASE ClientHello
  BY <1>1, <1>4
  DEF ClientHello, SendClientHello, SendResumptionHello, RefuseHello, BeginHandshake,
      HelloSent, secretVars
<1>5. CASE DeriveHandshakeSecret
  <2>1. BoundToHello(keys'["seal"]) => keys'["seal"] \notin past["seal"]
    BY <1>5, DerivedIsNew
  <2> QED
    BY <1>5, <2>1 DEF DeriveHandshakeSecret, InstallRecordKeys, Both, Directions
<1>6. CASE Finish
  <2> DEFINE t == Extended(transcript, "Finished")
  <2> DEFINE k == [secret |-> secret, transcript |-> t, update |-> ApplicationKeys]
  <2>1. CASE suite = "tls13"
    <3>1. InstallApplicationKeys(Both(k))
      BY <1>6, <2>1 DEF Finish, FinishOver
    <3>2. k \in TrafficKeys
      BY ExtendedType DEF TypeOK, TrafficKeys, ApplicationKeys, MessageTypes
    <3>3. k \notin Seen
      BY <1>6, <3>2, FinishedIsNew DEF ApplicationKeys
    <3> HIDE DEF k, Fresh
    <3> QED  BY <1>3, <3>1, <3>3
  <2>2. CASE suite # "tls13"
    BY <1>1, <1>6, <2>2 DEF Finish, FinishOver, secretVars
  <2> QED  BY <2>1, <2>2
<1>7. CASE UpdateTrafficKeys \/ \E requested \in BOOLEAN : RecvKeyUpdate(requested)
  <2>1. InstallApplicationKeys(NextKeys) /\ state = "Finished"
    BY <1>7 DEF UpdateTrafficKeys, RecvKeyUpdate
  <2>2. \E k \in TrafficKeys : NextKeys = Both(k) /\ k \notin Seen
    BY <2>1, NextIsNew
  <2> HIDE DEF Fresh
  <2> QED  BY <1>3, <2>1, <2>2
<1>8. CASE ServerFlight /\ ~DeriveHandshakeSecret /\ ~Finish
  BY <1>1, <1>8
  DEF ServerFlight, RecvHelloRetryRequest, RecvServerHello, RecvServerHelloBadShare,
      RecvEncryptedExtensions, RecvCertificateRequest, RecvCertificate,
      RecvCertificateVerify, secretVars
<1>9. CASE RecvNewSessionTicket \/ SetRequireCertificateAuth \/ UNCHANGED vars
  BY <1>1, <1>9 DEF RecvNewSessionTicket, SetRequireCertificateAuth, secretVars, vars
<1>10. ASSUME NEW n \in 1 .. MaxFragments, SealRecords(n) \/ OpenRecords(n)
       PROVE  Kept
  <2>1. n \in Nat \ {0}
    BY ConnectionAssumption
  <2> QED  BY <1>2, <1>10, <2>1 DEF SealRecords, OpenRecords, secretVars
<1>11. CASE Alerts
  BY <1>1, <1>2, <1>11
  DEF Alerts, SendFatalAlert, RecvFatalAlert, RecvOwnFatalAlert, FatalEffects, secretVars
<1> HIDE DEF Kept, Fresh
<1> QED
  BY <1>4, <1>5, <1>6, <1>7, <1>8, <1>9, <1>10, <1>11 DEF Next, Established

\* No record number is used twice under keys of a ClientHello, whatever the
\* calls.
THEOREM NumbersOnce == Spec => NumbersUsedOnce
BY NumbersStep, TypeCorrect, KeysInvariant, PTL DEF Spec, NumbersUsedOnce

\* The counters move forwards only in a finished connection.
LEMMA ForwardsWhenFinished ==
  ASSUME TypeOK, [Next]_vars
  PROVE  clientSeq' > clientSeq \/ serverSeq' > serverSeq => state = "Finished"
<1> SUFFICES ASSUME state # "Finished"
             PROVE  ~(clientSeq' > clientSeq) /\ ~(serverSeq' > serverSeq)
  OBVIOUS
<1> SUFFICES ASSUME Next
             PROVE  UNCHANGED seqVars \/ (clientSeq' = 0 /\ serverSeq' = 0)
  <2>1. clientSeq \in Nat /\ serverSeq \in Nat
    BY ConnectionAssumption DEF TypeOK
  <2> QED  BY <2>1 DEF seqVars, vars
<1>1. CASE ClientHello
  BY <1>1
  DEF ClientHello, SendClientHello, SendResumptionHello, RefuseHello, BeginHandshake, HelloSent
<1>2. CASE ServerFlight
  BY <1>2
  DEF ServerFlight, RecvHelloRetryRequest, RecvServerHello, RecvServerHelloBadShare,
      RecvEncryptedExtensions, RecvCertificateRequest, RecvCertificate,
      RecvCertificateVerify, DeriveHandshakeSecret, Finish, FinishOver, InstallApplicationKeys
<1>3. CASE Established \/ Alerts \/ SetRequireCertificateAuth
  BY <1>3
  DEF Established, RecvNewSessionTicket, UpdateTrafficKeys, RecvKeyUpdate, SealRecords,
      OpenRecords, Seal, Open, Alerts, SendFatalAlert, RecvFatalAlert, RecvOwnFatalAlert,
      SetRequireCertificateAuth
<1> QED  BY <1>1, <1>2, <1>3 DEF Next

\* Nothing is sealed or opened under keys of a ClientHello that a fatal alert
\* has ended.
THEOREM FatalEndsKeys == Spec => FatalIsTerminal
<1>1. ASSUME TypeOK, KeysInv, [Next]_vars
      PROVE  /\ clientSeq' > clientSeq => keys["seal"] \notin dead
             /\ serverSeq' > serverSeq => keys["open"] \notin dead
  BY <1>1, ForwardsWhenFinished DEF KeysInv, AliveKeys, OneSchedule
<1> QED  BY <1>1, TypeCorrect, KeysInvariant, PTL DEF Spec, FatalIsTerminal

-----------------------------------------------------------------------------
(***************************************************************************)
(* What was learnt of the server.                                          *)
(***************************************************************************)
LearntNow ==
  /\ peer.leaf \in {None, attempt} /\ peer.staple \in {None, attempt}
  /\ state = "ServerCertificateReceived" /\ RequireStaple /\ ~torn
       => peer.staple = attempt

\* Nothing is learnt yet.
LEMMA InitLearnt == Init => LearntNow
BY DEF Init, LearntNow, NothingLearnt

\* A new attempt forgets, and one attempt learns of one server.
LEMMA StepLearnt == TypeOK /\ LearntNow /\ [Next]_vars => LearntNow'
<1> SUFFICES ASSUME TypeOK, LearntNow, [Next]_vars PROVE LearntNow'
  OBVIOUS
<1>1. CASE RefuseHello
  <2>1. /\ UNCHANGED state
        /\ state = "ServerCertificateReceived" => torn'
        /\ peer' = NothingLearnt \/ UNCHANGED <<peer, attempt>>
    BY <1>1 DEF RefuseHello, HelloRefusals
  <2>2. CASE peer' = NothingLearnt
    <3>1. peer'.leaf = None /\ peer'.staple = None
      BY <2>2 DEF NothingLearnt
    <3> QED  BY <2>1, <3>1 DEF LearntNow
  <2>3. CASE UNCHANGED <<peer, attempt>>
    BY <2>1, <2>3 DEF LearntNow
  <2> QED  BY <2>1, <2>2, <2>3
<1>2. CASE SendClientHello \/ SendResumptionHello
  BY <1>2 DEF SendClientHello, SendResumptionHello, BeginHandshake, HelloSent, LearntNow,
    NothingLearnt
<1>3. ASSUME UNCHANGED <<peer, attempt, torn>>,
             state' # "ServerCertificateReceived" \/ state' = state
      PROVE  LearntNow'
  BY <1>3 DEF LearntNow
<1>4. ASSUME NEW staple \in {"none", "good", "bad"}, NEW valid \in BOOLEAN,
             RecvCertificate(staple, valid)
      PROVE  LearntNow'
  <2>1. peer \in [leaf : Nat, staple : Nat]
    BY DEF TypeOK
  <2>2. /\ UNCHANGED <<attempt, torn>>
        /\ peer'.staple = IF staple = "good" THEN attempt ELSE None
        /\ peer'.leaf \in {peer.leaf, attempt}
    BY <1>4, <2>1 DEF RecvCertificate, Accept, hsVars
  <2>3. state' = "ServerCertificateReceived" /\ RequireStaple => staple = "good"
    BY <1>4 DEF RecvCertificate, Accept, hsVars
  <2> QED  BY <2>2, <2>3 DEF LearntNow
<1>5. CASE ServerFlight /\ ~(\E staple \in {"none", "good", "bad"}, valid \in BOOLEAN :
                               RecvCertificate(staple, valid))
  BY <1>3, <1>5
  DEF ServerFlight, RecvHelloRetryRequest, RecvServerHello, RecvServerHelloBadShare,
      RecvEncryptedExtensions, RecvCertificateRequest, RecvCertificateVerify,
      DeriveHandshakeSecret, Finish, FinishOver, Accept, hsVars
<1>6. CASE Established \/ Alerts \/ SetRequireCertificateAuth \/ UNCHANGED vars
  BY <1>3, <1>6
  DEF Established, RecvNewSessionTicket, UpdateTrafficKeys, RecvKeyUpdate, SealRecords,
      OpenRecords, Alerts, SendFatalAlert, RecvFatalAlert, RecvOwnFatalAlert, FatalEffects,
      SetRequireCertificateAuth, Accept, hsVars, vars
<1> QED  BY <1>1, <1>2, <1>4, <1>5, <1>6 DEF Next, ClientHello

\* At every time, what is learnt is of this attempt.
LEMMA LearntInvariant == Spec => []LearntNow
BY InitLearnt, StepLearnt, TypeCorrect, PTL DEF Spec

\* A CertificateVerify is checked with what this very handshake validated.
THEOREM Authenticated == Spec => AuthenticatedInThisHandshake
<1>1. ASSUME LearntNow, RecvCertificateVerify
      PROVE  /\ auth => peer.leaf = attempt
             /\ RequireStaple /\ ~torn => peer.staple = attempt
  BY <1>1 DEF LearntNow, RecvCertificateVerify
<1>2. LearntNow /\ [Next]_vars =>
        (RecvCertificateVerify =>
           /\ auth => peer.leaf = attempt
           /\ RequireStaple /\ ~torn => peer.staple = attempt)
  BY <1>1
<1> QED
  BY <1>2, LearntInvariant, PTL DEF Spec, AuthenticatedInThisHandshake

-----------------------------------------------------------------------------
(***************************************************************************)
(* The transcript under the record keys.                                   *)
(***************************************************************************)
\* A transcript begins with itself, and still does when a message joins it.
LEMMA PrefixGrows ==
  ASSUME NEW s \in Transcript, NEW t \in Transcript, NEW m \in Message
  PROVE  /\ IsPrefix(s, s)
         /\ IsPrefix(s, t) => IsPrefix(s, Append(t, m))
<1>1. s \in Seq(Message) /\ t \in Seq(Message)
  BY DEF Transcript
<1>2. IsPrefix(s, s)
  BY <1>1 DEF IsPrefix
<1>3. ASSUME IsPrefix(s, t)
      PROVE  IsPrefix(s, Append(t, m))
  <2>1. Len(s) <= Len(t) /\ SubSeq(s, 1, Len(s)) = SubSeq(t, 1, Len(s))
    BY <1>3 DEF IsPrefix
  <2>2. SubSeq(Append(t, m), 1, Len(s)) = SubSeq(t, 1, Len(s))
    BY <1>1, <2>1
  <2>3. Len(s) <= Len(Append(t, m))
    BY <1>1, <2>1
  <2> QED  BY <2>1, <2>2, <2>3 DEF IsPrefix
<1> QED  BY <1>2, <1>3

\* The transcript as it is bound by keys of this attempt.
Binds(k) ==
  /\ k.transcript # <<>> /\ IsPrefix(k.transcript, transcript)
  /\ Last(k.transcript) = [type |-> "Finished", attempt |-> attempt]

\* Every step keeps the keys of a finished connection bound.
LEMMA StepBinds ==
  TypeOK /\ KeysInv /\ KeysBindTranscript /\ [Next]_vars => KeysBindTranscript'
<1> SUFFICES ASSUME TypeOK, KeysInv, KeysBindTranscript, [Next]_vars,
                    state' = "Finished", ~torn', NEW d \in Directions
             PROVE  Binds(keys[d])'
  BY DEF KeysBindTranscript, Binds
<1>0. /\ keys[d].transcript \in Transcript /\ app[d].transcript \in Transcript
      /\ transcript \in Transcript /\ attempt \in Nat
  BY DEF TypeOK, TrafficKeys
<1>1. ASSUME state = "Finished", ~torn
      PROVE  Binds(keys[d])
  BY <1>1 DEF KeysBindTranscript, Binds
<1>2. ASSUME UNCHANGED <<state, torn, attempt>>, keys'[d].transcript = keys[d].transcript,
             \/ UNCHANGED transcript
             \/ \E type \in MessageTypes : transcript' = Extended(transcript, type)
      PROVE  Binds(keys[d])'
  <2>1. Binds(keys[d])
    BY <1>1, <1>2
  <2>2. IsPrefix(keys[d].transcript, transcript')
    <3>1. CASE UNCHANGED transcript
      BY <2>1, <3>1 DEF Binds
    <3>2. ASSUME NEW type \in MessageTypes, transcript' = Extended(transcript, type)
          PROVE  IsPrefix(keys[d].transcript, transcript')
      <4>1. [type |-> type, attempt |-> attempt] \in Message
        BY <1>0 DEF Message
      <4> QED  BY <1>0, <2>1, <3>2, <4>1, PrefixGrows DEF Binds, Extended
    <3> QED  BY <1>2, <3>1, <3>2
  <2> QED  BY <1>2, <2>1, <2>2 DEF Binds
<1>3. CASE ClientHello
  BY <1>3
  DEF ClientHello, SendClientHello, SendResumptionHello, RefuseHello, BeginHandshake, HelloSent
<1>4. CASE Finish
  <2> DEFINE t == Extended(transcript, "Finished")
  <2> DEFINE k == [secret |-> secret, transcript |-> t, update |-> ApplicationKeys]
  <2>1. suite = "tls13"
    BY <1>4 DEF Finish, FinishOver
  <2>2. transcript' = t /\ keys' = Both(k) /\ attempt' = attempt
    BY <1>4, <2>1 DEF Finish, FinishOver, InstallApplicationKeys, InstallRecordKeys
  <2>3. keys'[d].transcript = t
    BY <2>2 DEF Both
  <2>4. /\ t \in Transcript /\ Len(t) = Len(transcript) + 1
        /\ t[Len(transcript) + 1] = [type |-> "Finished", attempt |-> attempt]
    BY <1>0, ExtendedType DEF MessageTypes
  <2>5. Len(transcript) \in Nat
    BY <1>0 DEF Transcript
  <2> HIDE DEF t, k
  <2>6. Last(t) = [type |-> "Finished", attempt |-> attempt]
    BY <2>4 DEF Last
  <2>7. t # <<>>
    BY <2>4, <2>5
  <2>8. IsPrefix(t, t)
    BY <2>4 DEF IsPrefix
  <2> QED  BY <2>2, <2>3, <2>6, <2>7, <2>8 DEF Binds
<1>5. CASE ServerFlight /\ ~Finish
  BY <1>5
  DEF ServerFlight, RecvHelloRetryRequest, RecvServerHello, RecvServerHelloBadShare,
      RecvEncryptedExtensions, RecvCertificateRequest, RecvCertificate,
      RecvCertificateVerify, DeriveHandshakeSecret, Accept, hsVars
<1>6. CASE UpdateTrafficKeys \/ \E requested \in BOOLEAN : RecvKeyUpdate(requested)
  <2>1. /\ keys' = NextKeys /\ UNCHANGED <<state, torn, attempt>> /\ state = "Finished"
        /\ UNCHANGED transcript \/ transcript' = Extended(transcript, "KeyUpdate")
    BY <1>6 DEF UpdateTrafficKeys, RecvKeyUpdate, InstallApplicationKeys, InstallRecordKeys,
      Accept, hsVars
  <2>2. keys = app
    BY <2>1 DEF KeysInv, AliveKeys
  <2>3. app[d] \in TrafficKeys
    BY DEF TypeOK
  <2>4. keys'[d].transcript = keys[d].transcript
    BY <2>1, <2>2, <2>3 DEF NextKeys, TrafficKeys
  <2>5. "KeyUpdate" \in MessageTypes
    BY DEF MessageTypes, LaterMessages
  <2> QED  BY <1>2, <2>1, <2>4, <2>5
<1>7. CASE RecvNewSessionTicket
  <2>1. "NewSessionTicket" \in MessageTypes
    BY DEF MessageTypes, LaterMessages
  <2>2. /\ UNCHANGED <<state, torn, attempt, keys>>
        /\ transcript' = Extended(transcript, "NewSessionTicket")
    BY <1>7 DEF RecvNewSessionTicket, Accept, secretVars
  <2> QED  BY <1>2, <2>1, <2>2
<1>8. CASE \/ \E n \in 1 .. MaxFragments : SealRecords(n) \/ OpenRecords(n)
           \/ SetRequireCertificateAuth \/ UNCHANGED vars
  BY <1>2, <1>8
  DEF SealRecords, OpenRecords, SetRequireCertificateAuth, vars, hsVars, secretVars
<1>9. CASE Alerts
  BY <1>9 DEF Alerts, SendFatalAlert, RecvFatalAlert, RecvOwnFatalAlert, FatalEffects
<1> QED
  BY <1>3, <1>4, <1>5, <1>6, <1>7, <1>8, <1>9 DEF Next, Established

\* The keys of a finished connection come from its own transcript.
THEOREM KeysBound == Spec => []KeysBindTranscript
<1>1. Init => KeysBindTranscript
  BY DEF Init, KeysBindTranscript
<1> QED  BY <1>1, StepBinds, TypeCorrect, KeysInvariant, PTL DEF Spec

-----------------------------------------------------------------------------
(***************************************************************************)
(* The transcript, state by state.                                         *)
(***************************************************************************)
\* The messages of a handshake that has come as far as the state.
Flight ==
  [ClientHelloSent |-> {<<"ClientHello">>},
   ServerHelloReceived |-> {<<"ClientHello", "ServerHello">>},
   ServerEncryptedExtensionsReceived |->
     {<<"ClientHello", "ServerHello", "EncryptedExtensions">>},
   ServerCertificateRequestReceived |->
     {<<"ClientHello", "ServerHello", "EncryptedExtensions", "CertificateRequest">>},
   ServerCertificateReceived |->
     {<<"ClientHello", "ServerHello", "EncryptedExtensions", "Certificate">>,
      <<"ClientHello", "ServerHello", "EncryptedExtensions", "CertificateRequest",
        "Certificate">>},
   ServerCertificateVerified |->
     {<<"ClientHello", "ServerHello">> \o p : p \in ServerPart \ {<<>>}},
   KeysDerived |-> {<<"ClientHello", "ServerHello">> \o p : p \in ServerPart},
   Finished |->
     {<<"ClientHello", "ServerHello">> \o p \o <<"Finished">> : p \in ServerPart}]

\* A handshake has come this far in the order of the protocol.
CameInOrder == \E types \in Flight[state] : transcript = Through(types, <<>>, attempt)

\* And then only post-handshake messages have followed.
Follows(t) ==
  /\ IsPrefix(t, transcript)
  /\ \A i \in DOMAIN transcript \ DOMAIN t : transcript[i].type \in LaterMessages

TranscriptSoFar ==
  /\ state \notin {"Idle", "Finished"} /\ ~torn /\ (state = "ClientHelloSent" \/ suite = "tls13")
       => CameInOrder
  /\ state = "Finished" /\ ~torn
       => \E types \in Flight.Finished : Follows(Through(types, <<>>, attempt))

\* One more message of the attempt continues the list of types.
LEMMA ThroughGrows ==
  ASSUME NEW types \in Seq(MessageTypes), NEW n \in Nat, NEW type \in MessageTypes
  PROVE  /\ Through(types, <<>>, n) \in Transcript
         /\ Append(Through(types, <<>>, n), [type |-> type, attempt |-> n])
              = Through(Append(types, type), <<>>, n)
<1> DEFINE M(t) == [i \in DOMAIN t |-> [type |-> t[i], attempt |-> n]]
<1> DEFINE more == Append(types, type)
<1>1. ASSUME NEW t \in Seq(MessageTypes)
      PROVE  /\ M(t) \in Seq(Message) /\ Len(M(t)) = Len(t)
             /\ Through(t, <<>>, n) = M(t)
  <2>1. \A i \in DOMAIN t : t[i] \in MessageTypes
    OBVIOUS
  <2>2. \A i \in DOMAIN t : [type |-> t[i], attempt |-> n] \in Message
    BY <2>1 DEF Message
  <2>3. M(t) \in [1 .. Len(t) -> Message] /\ Len(t) \in Nat
    BY <2>2
  <2>4. M(t) \in Seq(Message) /\ Len(M(t)) = Len(t)
    BY <2>3
  <2>5. M(t) \o <<>> = M(t)
    BY <2>4
  <2> QED  BY <2>4, <2>5 DEF Through
<1>2. /\ more \in Seq(MessageTypes) /\ Len(more) = Len(types) + 1
      /\ \A i \in 1 .. Len(types) : more[i] = types[i]
      /\ more[Len(types) + 1] = type
  OBVIOUS
<1>3. Append(M(types), [type |-> type, attempt |-> n]) = M(more)
  <2>1. /\ M(types) \in Seq(Message) /\ Len(M(types)) = Len(types)
        /\ M(more) \in Seq(Message) /\ Len(M(more)) = Len(types) + 1
    BY <1>1, <1>2
  <2>2. \A i \in 1 .. Len(types) : M(more)[i] = M(types)[i]
    BY <1>2
  <2>3. M(more)[Len(types) + 1] = [type |-> type, attempt |-> n]
    BY <1>2
  <2>4. [type |-> type, attempt |-> n] \in Message
    BY DEF Message
  <2> HIDE DEF M, more
  <2> QED  BY <2>1, <2>2, <2>3, <2>4
<1> HIDE DEF M, more
<1>4. Through(types, <<>>, n) = M(types) /\ M(types) \in Transcript
  BY <1>1 DEF Transcript
<1>5. Through(more, <<>>, n) = M(more)
  BY <1>1, <1>2
<1> QED  BY <1>3, <1>4, <1>5 DEF more

\* Each state's message, and the state it leads to.
LEMMA TypesFollow ==
  /\ \A types \in Flight.ClientHelloSent :
       Append(types, "ServerHello") \in Flight.ServerHelloReceived
  /\ \A types \in Flight.ServerHelloReceived :
       Append(types, "EncryptedExtensions") \in Flight.ServerEncryptedExtensionsReceived
  /\ \A types \in Flight.ServerEncryptedExtensionsReceived :
       /\ Append(types, "CertificateRequest") \in Flight.ServerCertificateRequestReceived
       /\ Append(types, "Certificate") \in Flight.ServerCertificateReceived
  /\ \A types \in Flight.ServerCertificateRequestReceived :
       Append(types, "Certificate") \in Flight.ServerCertificateReceived
<1>1. <<"ClientHello", "ServerHello">> = Append(<<"ClientHello">>, "ServerHello")
  OBVIOUS
<1>2. <<"ClientHello", "ServerHello", "EncryptedExtensions">>
        = Append(<<"ClientHello", "ServerHello">>, "EncryptedExtensions")
  OBVIOUS
<1>3. <<"ClientHello", "ServerHello", "EncryptedExtensions", "CertificateRequest">>
        = Append(<<"ClientHello", "ServerHello", "EncryptedExtensions">>, "CertificateRequest")
  OBVIOUS
<1>4. <<"ClientHello", "ServerHello", "EncryptedExtensions", "Certificate">>
        = Append(<<"ClientHello", "ServerHello", "EncryptedExtensions">>, "Certificate")
  OBVIOUS
<1>5. <<"ClientHello", "ServerHello", "EncryptedExtensions", "CertificateRequest", "Certificate">>
        = Append(<<"ClientHello", "ServerHello", "EncryptedExtensions", "CertificateRequest">>,
                 "Certificate")
  OBVIOUS
<1> QED  BY <1>1, <1>2, <1>3, <1>4, <1>5 DEF Flight

\* The lists of a verified certificate.
LEMMA TypesVerified ==
  \A types \in Flight.ServerCertificateReceived :
    Append(types, "CertificateVerify") \in Flight.ServerCertificateVerified
<1> DEFINE h == <<"ClientHello", "ServerHello">>
<1>1. h \o <<"EncryptedExtensions", "Certificate", "CertificateVerify">>
        = Append(<<"ClientHello", "ServerHello", "EncryptedExtensions", "Certificate">>,
                 "CertificateVerify")
  OBVIOUS
<1>2. h \o <<"EncryptedExtensions", "CertificateRequest", "Certificate", "CertificateVerify">>
        = Append(<<"ClientHello", "ServerHello", "EncryptedExtensions", "CertificateRequest",
                   "Certificate">>, "CertificateVerify")
  OBVIOUS
<1>3. {<<"EncryptedExtensions", "Certificate", "CertificateVerify">>,
       <<"EncryptedExtensions", "CertificateRequest", "Certificate", "CertificateVerify">>}
        \subseteq ServerPart \ {<<>>}
  BY DEF ServerPart
<1> HIDE DEF h
<1> QED  BY <1>1, <1>2, <1>3 DEF Flight, h

\* The optional part of the flight.
LEMMA PartType == ServerPart \subseteq Seq(MessageTypes)
BY DEF ServerPart, MessageTypes

\* The lists of derived keys, and what Finish makes of them.
LEMMA TypesDerived ==
  /\ Flight.ServerHelloReceived \subseteq Flight.KeysDerived
  /\ Flight.ServerCertificateVerified \subseteq Flight.KeysDerived
  /\ \A types \in Flight.KeysDerived : Append(types, "Finished") \in Flight.Finished
<1>1. <<"ClientHello", "ServerHello">> \o <<>> = <<"ClientHello", "ServerHello">>
  OBVIOUS
<1>2. <<>> \in ServerPart
  BY DEF ServerPart
<1>3. ASSUME NEW p \in ServerPart
      PROVE  Append(<<"ClientHello", "ServerHello">> \o p, "Finished")
               = <<"ClientHello", "ServerHello">> \o p \o <<"Finished">>
  <2>1. p \in Seq(MessageTypes)
    BY PartType
  <2>2. <<"ClientHello", "ServerHello">> \in Seq(MessageTypes) /\ "Finished" \in MessageTypes
    BY DEF MessageTypes
  <2>3. <<"ClientHello", "ServerHello">> \o p \in Seq(MessageTypes)
    BY <2>1, <2>2
  <2> QED  BY <2>2, <2>3
<1> QED  BY <1>1, <1>2, <1>3 DEF Flight

\* Every list is one of message types.
LEMMA FlightType ==
  ASSUME NEW s \in States \ {"Idle"}
  PROVE  Flight[s] \subseteq Seq(MessageTypes)
<1>1. ServerPart \subseteq Seq(MessageTypes)
  BY PartType
<1>2. <<"ClientHello", "ServerHello">> \in Seq(MessageTypes) /\ <<"Finished">> \in Seq(MessageTypes)
  BY DEF MessageTypes
<1>3. \A p \in ServerPart :
        /\ <<"ClientHello", "ServerHello">> \o p \in Seq(MessageTypes)
        /\ <<"ClientHello", "ServerHello">> \o p \o <<"Finished">> \in Seq(MessageTypes)
  BY <1>1, <1>2
<1>4. /\ Flight.ServerCertificateVerified \subseteq Seq(MessageTypes)
      /\ Flight.KeysDerived \subseteq Seq(MessageTypes)
      /\ Flight.Finished \subseteq Seq(MessageTypes)
  BY <1>3 DEF Flight
<1>5. /\ Flight.ClientHelloSent \subseteq Seq(MessageTypes)
      /\ Flight.ServerHelloReceived \subseteq Seq(MessageTypes)
      /\ Flight.ServerEncryptedExtensionsReceived \subseteq Seq(MessageTypes)
  BY DEF Flight, MessageTypes
<1>6. /\ Flight.ServerCertificateRequestReceived \subseteq Seq(MessageTypes)
      /\ Flight.ServerCertificateReceived \subseteq Seq(MessageTypes)
  BY DEF Flight, MessageTypes
<1> QED  BY <1>4, <1>5, <1>6 DEF States

\* A handshake in order goes on in order.
LEMMA GoesOn ==
  ASSUME TypeOK, TranscriptSoFar, state \notin {"Idle", "Finished"}, ~torn,
         state = "ClientHelloSent" \/ suite = "tls13", NEW type \in MessageTypes,
         NEW next \in States, transcript' = Extended(transcript, type), UNCHANGED attempt,
         \A types \in Flight[state] : Append(types, type) \in Flight[next]
  PROVE  \E types \in Flight[next] : transcript' = Through(types, <<>>, attempt')
<1>1. PICK types \in Flight[state] : transcript = Through(types, <<>>, attempt)
  BY DEF TranscriptSoFar, CameInOrder
<1>2. types \in Seq(MessageTypes) /\ attempt \in Nat
  BY FlightType DEF TypeOK
<1>3. transcript' = Through(Append(types, type), <<>>, attempt)
  BY <1>1, <1>2, ThroughGrows DEF Extended
<1> QED  BY <1>1, <1>3

\* Post-handshake messages follow a finished flight.
LEMMA LaterFollows ==
  ASSUME TypeOK, NEW t \in Transcript, Follows(t), NEW type \in LaterMessages,
         transcript' = Extended(transcript, type)
  PROVE  Follows(t)'
<1>1. transcript \in Transcript /\ attempt \in Nat /\ type \in MessageTypes
  BY DEF TypeOK, MessageTypes
<1>2. [type |-> type, attempt |-> attempt] \in Message
  BY <1>1 DEF Message
<1>3. IsPrefix(t, transcript')
  BY <1>1, <1>2, PrefixGrows DEF Follows, Extended
<1>4. /\ Len(transcript') = Len(transcript) + 1
      /\ transcript' \in Transcript
      /\ \A i \in 1 .. Len(transcript) : transcript'[i] = transcript[i]
      /\ transcript'[Len(transcript) + 1] = [type |-> type, attempt |-> attempt]
  BY <1>1, ExtendedType
<1>5. /\ Len(transcript) \in Nat /\ DOMAIN transcript = 1 .. Len(transcript)
      /\ DOMAIN transcript' = 1 .. Len(transcript) + 1
  BY <1>1, <1>4 DEF Transcript
<1>6. ASSUME NEW i \in DOMAIN transcript' \ DOMAIN t
      PROVE  transcript'[i].type \in LaterMessages
  <2>1. CASE i \in DOMAIN transcript
    BY <1>4, <1>5, <1>6, <2>1 DEF Follows
  <2>2. CASE i \notin DOMAIN transcript
    <3>1. i = Len(transcript) + 1
      BY <1>5, <2>2
    <3> QED  BY <1>4, <3>1
  <2> QED  BY <2>1, <2>2
<1> QED  BY <1>3, <1>6 DEF Follows

\* The initial state.
LEMMA InitSoFar == Init => TranscriptSoFar
BY DEF Init, TranscriptSoFar

\* ClientHello calls keep the order.
LEMMA HelloSoFar ==
  ASSUME TypeOK, TranscriptSoFar, ClientHello
  PROVE  TranscriptSoFar'
<1>1. CASE RefuseHello
  <2>1. UNCHANGED state /\ (state # "Idle" => torn')
    BY <1>1 DEF RefuseHello
  <2> QED  BY <2>1 DEF TranscriptSoFar
<1>2. CASE BeginHandshake
  <2>1. /\ state' = "ClientHelloSent" /\ attempt' = attempt + 1
        /\ transcript' = <<[type |-> "ClientHello", attempt |-> attempt']>>
    BY <1>2 DEF BeginHandshake, HelloSent
  <2>2. transcript' = Through(<<"ClientHello">>, <<>>, attempt')
    BY <2>1 DEF Through
  <2>3. CameInOrder'
    BY <2>1, <2>2 DEF CameInOrder, Flight
  <2> QED  BY <2>1, <2>3 DEF TranscriptSoFar
<1> QED  BY <1>1, <1>2 DEF ClientHello, SendClientHello, SendResumptionHello

\* The server's flight keeps it.
LEMMA FlightSoFar ==
  ASSUME TypeOK, TranscriptSoFar, ServerFlight
  PROVE  TranscriptSoFar'
<1>0. {"ServerHello", "EncryptedExtensions", "CertificateRequest", "Certificate",
       "CertificateVerify", "Finished"} \subseteq MessageTypes
  BY DEF MessageTypes
<1>1. CASE \E group \in {"supported", "unsupported"} : RecvHelloRetryRequest(group)
  BY <1>1 DEF RecvHelloRetryRequest, TranscriptSoFar
<1>2. ASSUME state \notin {"Idle", "Finished"}, state = "ClientHelloSent" \/ UNCHANGED suite,
             NEW type \in MessageTypes, NEW next \in States \ {"Idle", "Finished", "ClientHelloSent"},
             Accept(type, next),
             \A types \in Flight[state] : Append(types, type) \in Flight[next]
      PROVE  TranscriptSoFar'
  <2>1. /\ transcript' = Extended(transcript, type) /\ state' = next
        /\ UNCHANGED <<torn, attempt>>
    BY <1>2 DEF Accept
  <2>2. ASSUME ~torn', suite' = "tls13"
        PROVE  CameInOrder'
    <3>1. \E types \in Flight[next] : transcript' = Through(types, <<>>, attempt')
      BY <1>2, <2>1, <2>2, GoesOn
    <3> QED  BY <2>1, <3>1 DEF CameInOrder
  <2> QED  BY <1>2, <2>1, <2>2 DEF TranscriptSoFar
<1>3. CASE \E withShare \in BOOLEAN, s \in {"tls12", "tls13"} : RecvServerHello(withShare, s)
  <2>1. state = "ClientHelloSent" /\ Accept("ServerHello", "ServerHelloReceived")
    BY <1>3 DEF RecvServerHello
  <2> QED  BY <1>0, <1>2, <2>1, TypesFollow DEF States
<1>4. ASSUME UNCHANGED <<state, transcript, torn, attempt, suite>>
      PROVE  TranscriptSoFar'
  BY <1>4 DEF TranscriptSoFar, CameInOrder, Follows
<1>5. CASE RecvServerHelloBadShare
  BY <1>4, <1>5 DEF RecvServerHelloBadShare, hsVars, secretVars
<1>6. CASE RecvEncryptedExtensions
  <2>1. /\ state = "ServerHelloReceived" /\ UNCHANGED suite
        /\ Accept("EncryptedExtensions", "ServerEncryptedExtensionsReceived")
    BY <1>6 DEF RecvEncryptedExtensions, secretVars
  <2> QED  BY <1>0, <1>2, <2>1, TypesFollow DEF States
<1>7. CASE RecvCertificateRequest
  <2>1. /\ state = "ServerEncryptedExtensionsReceived" /\ UNCHANGED suite
        /\ Accept("CertificateRequest", "ServerCertificateRequestReceived")
    BY <1>7 DEF RecvCertificateRequest, secretVars
  <2> QED  BY <1>0, <1>2, <2>1, TypesFollow DEF States
<1>8. CASE \E staple \in {"none", "good", "bad"}, valid \in BOOLEAN : RecvCertificate(staple, valid)
  <2>1. /\ state \in {"ServerEncryptedExtensionsReceived", "ServerCertificateRequestReceived"}
        /\ UNCHANGED suite
        /\ Accept("Certificate", "ServerCertificateReceived") \/ UNCHANGED <<hsVars, attempt>>
    BY <1>8 DEF RecvCertificate, secretVars
  <2>2. CASE Accept("Certificate", "ServerCertificateReceived")
    BY <1>0, <1>2, <2>1, <2>2, TypesFollow DEF States
  <2>3. CASE UNCHANGED <<hsVars, attempt>>
    BY <1>4, <2>1, <2>3 DEF hsVars
  <2> QED  BY <2>1, <2>2, <2>3
<1>9. CASE RecvCertificateVerify
  <2>1. /\ state = "ServerCertificateReceived" /\ UNCHANGED suite
        /\ Accept("CertificateVerify", "ServerCertificateVerified")
    BY <1>9 DEF RecvCertificateVerify, secretVars
  <2> QED  BY <1>0, <1>2, <2>1, TypesVerified DEF States
<1>10. CASE DeriveHandshakeSecret
  <2>1. /\ state \in {"ServerHelloReceived", "ServerCertificateVerified"} /\ suite = "tls13"
        /\ state' = "KeysDerived" /\ UNCHANGED <<transcript, torn, attempt>>
    BY <1>10 DEF DeriveHandshakeSecret
  <2>2. ASSUME ~torn'
        PROVE  CameInOrder'
    <3>1. CameInOrder
      BY <2>1, <2>2 DEF TranscriptSoFar
    <3>2. Flight[state] \subseteq Flight["KeysDerived"]
      BY <2>1, TypesDerived
    <3> QED  BY <2>1, <3>1, <3>2 DEF CameInOrder
  <2> QED  BY <2>1, <2>2 DEF TranscriptSoFar
<1>11. CASE Finish
  <2>1. /\ state \in {"KeysDerived", "ServerCertificateVerified"}
        /\ transcript' = Extended(transcript, "Finished") /\ UNCHANGED <<torn, attempt>>
        /\ IF suite = "tls13" THEN state' = "Finished" ELSE UNCHANGED <<state, suite>>
    BY <1>11 DEF Finish, FinishOver, secretVars
  <2>2. CASE suite # "tls13"
    BY <2>1, <2>2 DEF TranscriptSoFar
  <2>3. CASE suite = "tls13"
    <3>1. ASSUME ~torn'
          PROVE  \E types \in Flight.Finished : Follows(Through(types, <<>>, attempt))'
      <4>1. \A types \in Flight[state] : Append(types, "Finished") \in Flight["Finished"]
        BY <2>1, TypesDerived
      <4>2. PICK types \in Flight["Finished"] : transcript' = Through(types, <<>>, attempt')
        BY <1>0, <2>1, <2>3, <3>1, <4>1, GoesOn DEF States
      <4>3. transcript' \in Transcript
        BY <1>0, <2>1, ExtendedType DEF TypeOK
      <4>4. IsPrefix(transcript', transcript')
        BY <4>3 DEF IsPrefix
      <4> QED  BY <2>1, <4>2, <4>4 DEF Follows
    <3> QED  BY <2>1, <2>3, <3>1 DEF TranscriptSoFar
  <2> QED  BY <2>2, <2>3
<1> QED
  BY <1>1, <1>3, <1>5, <1>6, <1>7, <1>8, <1>9, <1>10, <1>11 DEF ServerFlight

\* Whatever follows the handshake keeps it.
LEMMA EstablishedSoFar ==
  ASSUME TypeOK, TranscriptSoFar,
         Established \/ Alerts \/ SetRequireCertificateAuth \/ UNCHANGED vars
  PROVE  TranscriptSoFar'
<1>1. ASSUME NEW type \in LaterMessages, state = "Finished", Accept(type, "Finished")
      PROVE  TranscriptSoFar'
  <2>1. /\ transcript' = Extended(transcript, type) /\ state' = "Finished"
        /\ UNCHANGED <<torn, attempt>>
    BY <1>1 DEF Accept
  <2>2. ASSUME ~torn'
        PROVE  \E types \in Flight.Finished : Follows(Through(types, <<>>, attempt))'
    <3>1. PICK types \in Flight.Finished : Follows(Through(types, <<>>, attempt))
      BY <1>1, <2>1, <2>2 DEF TranscriptSoFar
    <3>2. types \in Seq(MessageTypes) /\ attempt \in Nat
      BY <3>1, FlightType DEF States, TypeOK
    <3>3. Through(types, <<>>, attempt) \in Transcript
      BY <3>2, ThroughGrows DEF MessageTypes
    <3>4. Through(types, <<>>, attempt)' = Through(types, <<>>, attempt)
      BY <2>1
    <3> QED  BY <2>1, <3>1, <3>3, <3>4, LaterFollows
  <2> QED  BY <2>1, <2>2 DEF TranscriptSoFar
<1>2. CASE RecvNewSessionTicket
  BY <1>1, <1>2 DEF RecvNewSessionTicket, LaterMessages
<1>3. CASE \E requested \in BOOLEAN : RecvKeyUpdate(requested)
  BY <1>1, <1>3 DEF RecvKeyUpdate, LaterMessages
<1>4. ASSUME UNCHANGED <<state, transcript, torn, attempt, suite>>
      PROVE  TranscriptSoFar'
  BY <1>4 DEF TranscriptSoFar, CameInOrder, Follows
<1>5. CASE \/ UpdateTrafficKeys \/ SetRequireCertificateAuth \/ UNCHANGED vars
           \/ \E n \in 1 .. MaxFragments : SealRecords(n) \/ OpenRecords(n)
  BY <1>4, <1>5
  DEF UpdateTrafficKeys, InstallApplicationKeys, SealRecords, OpenRecords,
      SetRequireCertificateAuth, vars, hsVars, secretVars
<1>6. CASE Alerts
  BY <1>6 DEF Alerts, SendFatalAlert, RecvFatalAlert, RecvOwnFatalAlert, FatalEffects,
    TranscriptSoFar
<1> QED  BY <1>2, <1>3, <1>5, <1>6 DEF Established

\* The transcript is in order in every state.
LEMMA SoFarInvariant == Spec => []TranscriptSoFar
<1>1. Init => TranscriptSoFar
  BY InitSoFar
<1>2. TypeOK /\ TranscriptSoFar /\ [Next]_vars => TranscriptSoFar'
  BY HelloSoFar, FlightSoFar, EstablishedSoFar DEF Next
<1> QED  BY <1>1, <1>2, TypeCorrect, PTL DEF Spec

\* The flights named here are transcripts of a handshake without a retry.
LEMMA FlightIsHandshake ==
  ASSUME NEW n \in Nat, NEW types \in Flight.Finished
  PROVE  Through(types, <<>>, n) \in HandshakeOf(n)
<1>1. PICK p \in ServerPart : types = <<"ClientHello", "ServerHello">> \o p \o <<"Finished">>
  BY DEF Flight
<1> DEFINE t == Through(types, <<>>, n)
<1>2. t \in Transcript
  BY FlightType, ThroughGrows DEF States, MessageTypes
<1>3. <<>> \in RetryPart
  BY DEF RetryPart
<1>4. Through(<<>>, t, n - 1) \in HandshakeOf(n)
  BY <1>1, <1>3 DEF HandshakeOf
<1> HIDE DEF t
<1>5. Through(<<>>, t, n - 1) = <<>> \o t
  BY DEF Through
<1>6. <<>> \o t = t
  BY <1>2 DEF Transcript
<1> QED  BY <1>4, <1>5, <1>6 DEF t

\* A finished connection's transcript is in the order of the protocol.
THEOREM TranscriptOrdered == Spec => []TranscriptInOrder
<1>1. ASSUME TypeOK, TranscriptSoFar, state = "Finished", ~torn
      PROVE  \E t \in HandshakeOf(attempt) : Follows(t)
  <2>1. PICK types \in Flight.Finished : Follows(Through(types, <<>>, attempt))
    BY <1>1 DEF TranscriptSoFar
  <2>2. Through(types, <<>>, attempt) \in HandshakeOf(attempt)
    BY <1>1, FlightIsHandshake DEF TypeOK
  <2> QED  BY <2>1, <2>2
<1>2. TypeOK /\ TranscriptSoFar => TranscriptInOrder
  BY <1>1 DEF TranscriptInOrder, Follows
<1> QED  BY <1>2, TypeCorrect, SoFarInvariant, PTL
=============================================================================
