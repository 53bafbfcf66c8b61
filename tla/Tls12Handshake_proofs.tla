----------------------- MODULE Tls12Handshake_proofs -----------------------
(***************************************************************************)
(* Theorems about Tls12Handshake, for any flights of any length, any       *)
(* number of handshakes and any width of the record counters.              *)
(***************************************************************************)
EXTENDS Tls12Handshake, FiniteSetTheorems, TLAPS

LOCAL INSTANCE SequencesExt

(***************************************************************************)
(* What is taken of a flight.                                              *)
(***************************************************************************)
\* There are no more indices of one kind in a sequence than the sequence has.
LEMMA CountInRange ==
  ASSUME NEW n \in Nat, NEW S, S \subseteq 1 .. n
  PROVE  Cardinality(S) \in 0 .. n
<1>1. IsFiniteSet(1 .. n) /\ Cardinality(1 .. n) = n
  BY FS_Interval
<1>2. IsFiniteSet(S) /\ Cardinality(S) <= Cardinality(1 .. n)
  BY <1>1, FS_Subset
<1>3. Cardinality(S) \in Nat
  BY <1>2, FS_CardinalityType
<1> QED  BY <1>1, <1>2, <1>3

\* A set of all so many indices has the last one.
LEMMA FullCount ==
  ASSUME NEW n \in Nat, n > 0, NEW S, S \subseteq 1 .. n, Cardinality(S) = n
  PROVE  n \in S
<1>1. SUFFICES ASSUME n \notin S PROVE FALSE
  OBVIOUS
<1>2. S \subseteq 1 .. n - 1 /\ n - 1 \in Nat
  BY <1>1
<1>3. Cardinality(S) \in 0 .. n - 1
  BY <1>2, CountInRange
<1> QED  BY <1>3

\* A prefix of a flight is a flight.
LEMMA PrefixType ==
  ASSUME NEW S, NEW f \in Seq(S), NEW n \in 0 .. Len(f)
  PROVE  SubSeq(f, 1, n) \in Seq(S)
OBVIOUS

\* What is taken of a server flight is one.
LEMMA TakenOfServerFlight ==
  ASSUME NEW f \in Seq(ServerTypes)
  PROVE  Taken(f, InServerOrder) \in Seq(ServerTypes)
<1> DEFINE S == {n \in DOMAIN f : InServerOrder(SubSeq(f, 1, n))}
<1>1. Cardinality(S) \in 0 .. Len(f)
  BY CountInRange
<1> QED  BY <1>1, PrefixType DEF Taken

\* What is taken of a client flight is one.
LEMMA TakenOfClientFlight ==
  ASSUME NEW f \in Seq(ClientTypes)
  PROVE  Taken(f, InClientOrder) \in Seq(ClientTypes)
<1> DEFINE S == {n \in DOMAIN f : InClientOrder(SubSeq(f, 1, n))}
<1>1. Cardinality(S) \in 0 .. Len(f)
  BY CountInRange
<1> QED  BY <1>1, PrefixType DEF Taken

\* The transcript stays one under messages of known types.
LEMMA ExtendedType ==
  ASSUME transcript \in Transcript, attempt \in Nat,
         NEW types \in Seq(MessageTypes)
  PROVE  Extended(types) \in Transcript
<1> DEFINE m == [i \in DOMAIN types |-> [type |-> types[i], attempt |-> attempt]]
<1>1. \A i \in DOMAIN types : [type |-> types[i], attempt |-> attempt] \in Message
  <2> TAKE i \in DOMAIN types
  <2>1. types[i] \in MessageTypes
    OBVIOUS
  <2> QED  BY <2>1 DEF Message
<1>2. DOMAIN types = 1 .. Len(types) /\ Len(types) \in Nat
  OBVIOUS
<1> HIDE DEF m
<1>3. m \in [1 .. Len(types) -> Message]
  BY <1>1, <1>2 DEF m
<1>4. m \in Seq(Message)
  BY <1>2, <1>3
<1> QED  BY <1>4 DEF Extended, Transcript, m

-----------------------------------------------------------------------------
(***************************************************************************)
(* Type correctness.                                                       *)
(***************************************************************************)
\* The messages the connection itself puts into the transcript are messages.
LEMMA OwnMessages ==
  ASSUME NEW n \in Nat,
         NEW t \in {"ClientHello", "MessageHash", "HelloRetryRequest"}
  PROVE  [type |-> t, attempt |-> n] \in Message
BY DEF Message, MessageTypes, ServerTypes

\* ClientHello starts a transcript of its own.
LEMMA HelloTypes ==
  ASSUME TypeOK, HelloSent
  PROVE  TypeOK'
<1> USE Tls12Assumption DEF TypeOK
<1>1. attempt' \in 0 .. MaxAttempts
  BY DEF HelloSent
<1>2. transcript' \in Transcript
  <2>1. attempt' \in Nat
    BY <1>1
  <2>2. [type |-> "ClientHello", attempt |-> attempt'] \in Message
    BY <2>1, OwnMessages
  <2> QED  BY <2>2 DEF HelloSent, Transcript
<1>3. state' \in States /\ retried' \in BOOLEAN /\ torn' \in BOOLEAN
  BY DEF HelloSent, States
<1> QED
  BY <1>1, <1>2, <1>3 DEF HelloSent, ccsVars, recordVars

\* A refused one cuts the transcript.
LEMMA RefusedTypes ==
  ASSUME TypeOK, RefuseHello
  PROVE  TypeOK'
<1>1. transcript' \in Transcript /\ torn' \in BOOLEAN
  BY DEF RefuseHello, Transcript
<1> QED  BY <1>1 DEF RefuseHello, TypeOK, ccsVars, recordVars

\* The answers to the ClientHello, one by one.
LEMMA ServerHelloTypes ==
  ASSUME TypeOK, RecvServerHello \/ RecvHelloRetryRequest \/ RefuseShareHello
  PROVE  TypeOK'
<1> USE Tls12Assumption DEF TypeOK
<1>0. attempt \in Nat
  OBVIOUS
<1>1. CASE RecvServerHello
  <2>1. <<"ServerHello">> \in Seq(MessageTypes)
    BY DEF MessageTypes, ServerTypes
  <2>2. transcript' \in Transcript
    BY <1>0, <1>1, <2>1, ExtendedType DEF RecvServerHello
  <2> QED  BY <1>1, <2>2 DEF RecvServerHello, ccsVars, recordVars, States
<1>2. CASE RecvHelloRetryRequest
  <2>1. /\ [type |-> "MessageHash", attempt |-> attempt] \in Message
        /\ [type |-> "HelloRetryRequest", attempt |-> attempt] \in Message
    BY <1>0, OwnMessages
  <2>2. transcript' \in Transcript
    BY <1>2, <2>1 DEF RecvHelloRetryRequest, Transcript
  <2> QED  BY <1>2, <2>2 DEF RecvHelloRetryRequest, ccsVars, recordVars, States
<1>3. CASE RefuseShareHello
  BY <1>3 DEF RefuseShareHello, ccsVars, recordVars
<1> QED  BY <1>1, <1>2, <1>3

\* A server flight, whole or in part.
LEMMA ServerFlightTypes ==
  ASSUME TypeOK, NEW f \in ServerFlights, ServerFlight(f)
  PROVE  TypeOK'
<1> USE Tls12Assumption DEF TypeOK
<1> DEFINE taken == Taken(f, InServerOrder)
<1>1. CASE RecvHelloRetryRequest \/ RefuseShareHello
  BY <1>1, ServerHelloTypes
<1>2. CASE
  /\ transcript' = Extended(taken) /\ hrr' = FALSE
  /\ state' = IF taken = f /\ Last(f) = "ServerHelloDone"
              THEN "ServerCertificateVerified"
              ELSE ServerStateAfter(Len(taken))
  /\ UNCHANGED <<attempt, retried, torn, ccsVars, keys, recordVars>>
  <2>1. taken \in Seq(ServerTypes)
    BY TakenOfServerFlight
  <2>2. taken \in Seq(MessageTypes)
    <3> HIDE DEF taken
    <3> QED  BY <2>1 DEF MessageTypes
  <2> HIDE DEF taken
  <2>3. Extended(taken) \in Transcript
    BY <2>2, ExtendedType
  <2>4. state' \in States
    BY <1>2 DEF States, ServerStateAfter
  <2> QED  BY <1>2, <2>3, <2>4 DEF ccsVars, recordVars
<1> QED  BY <1>1, <1>2 DEF ServerFlight

\* A client flight, whole or in part.
LEMMA ClientFlightTypes ==
  ASSUME TypeOK, NEW f \in ClientFlights, ClientFlight(f)
  PROVE  TypeOK'
<1> USE Tls12Assumption DEF TypeOK
<1>0. \A g \in Seq(ClientTypes) : Extended(g) \in Transcript
  <2> TAKE g \in Seq(ClientTypes)
  <2>1. g \in Seq(MessageTypes)
    BY DEF MessageTypes
  <2> QED  BY <2>1, ExtendedType
<1>1. CASE ClientFlightDone(f)
  <2>1. transcript' \in Transcript
    BY <1>0, <1>1 DEF ClientFlightDone
  <2>2. last' \in {"none", "ccs", "noccs"}
    BY <1>1 DEF ClientFlightDone
  <2> QED  BY <1>1, <2>1, <2>2 DEF ClientFlightDone, recordVars, States
<1>2. CASE ClientFlightFailed(f)
  <2>1. transcript' \in Transcript
    BY <1>0, <1>2, TakenOfClientFlight DEF ClientFlightFailed
  <2> QED  BY <1>2, <2>1 DEF ClientFlightFailed, ccsVars, recordVars
<1> QED  BY <1>1, <1>2 DEF ClientFlight

\* The calls that derive, finish and signal.
LEMMA KeyTypes ==
  ASSUME TypeOK, RecvChangeCipherSpec \/ DeriveHandshakeSecret \/ Finish
  PROVE  TypeOK'
<1> USE Tls12Assumption DEF TypeOK
<1>1. CASE RecvChangeCipherSpec
  BY <1>1 DEF RecvChangeCipherSpec, hsVars, recordVars
<1>2. CASE DeriveHandshakeSecret
  BY <1>2 DEF DeriveHandshakeSecret, KeysOf, ccsVars, recordVars, States
<1>3. CASE Finish
  <2>1. <<"VerifyData">> \in Seq(MessageTypes)
    BY DEF MessageTypes
  <2>2. Extended(<<"VerifyData">>) \in Transcript
    <3>1. transcript \in Transcript /\ attempt \in Nat
      OBVIOUS
    <3> QED  BY <2>1, <3>1, ExtendedType
  <2>3. transcript' \in Transcript
    BY <1>3, <2>2 DEF Finish
  <2> QED  BY <1>3, <2>3 DEF Finish, ccsVars, recordVars, States
<1> QED  BY <1>1, <1>2, <1>3

\* One record more.
LEMMA RecordTypes ==
  ASSUME TypeOK, NEW d \in Directions, NextRecord(d)
  PROVE  TypeOK'
<1> USE Tls12Assumption DEF TypeOK
<1>1. sequence' \in [Directions -> 0 .. MaxSequence]
  <2>1. sequence[d] + 1 \in 0 .. MaxSequence
    BY DEF NextRecord
  <2> QED  BY <2>1 DEF NextRecord
<1>2. used' \in [Directions -> Seq((SUBSET Transcript) \X Nat)]
  <2>1. <<keys, sequence[d]>> \in (SUBSET Transcript) \X Nat
    OBVIOUS
  <2>2. Append(used[d], <<keys, sequence[d]>>) \in Seq((SUBSET Transcript) \X Nat)
    BY <2>1
  <2> QED  BY <2>2 DEF NextRecord
<1> QED  BY <1>1, <1>2 DEF NextRecord, hsVars, ccsVars

LEMMA TypesKept ==
  ASSUME TypeOK, [Next]_vars
  PROVE  TypeOK'
<1>1. CASE SendClientHello \/ SendClientHelloNoTickets
  BY <1>1, HelloTypes DEF SendClientHello, SendClientHelloNoTickets
<1>8. CASE RefuseHello
  BY <1>8, RefusedTypes
<1>2. CASE RecvServerHello \/ RecvHelloRetryRequest \/ RefuseShareHello
  BY <1>2, ServerHelloTypes
<1>3. CASE \E f \in ServerFlights : ServerFlight(f)
  BY <1>3, ServerFlightTypes
<1>4. CASE \E f \in ClientFlights : ClientFlight(f)
  BY <1>4, ClientFlightTypes
<1>5. CASE RecvChangeCipherSpec \/ DeriveHandshakeSecret \/ Finish
  BY <1>5, KeyTypes
<1>6. CASE NextRecord("seal") \/ NextRecord("open")
  BY <1>6, RecordTypes DEF Directions
<1>7. CASE UNCHANGED vars
  BY <1>7 DEF TypeOK, vars, hsVars, ccsVars, recordVars
<1> QED
  BY <1>1, <1>2, <1>3, <1>4, <1>5, <1>6, <1>7, <1>8
  DEF Next, SealRecord, SendAlert, OpenRecord, RecvAlert, RefuseFlightWithAlert

\* Every variable keeps its type: a flight that is taken in part leaves a
\* transcript of messages, and no call moves a counter beyond its width
\* (all handlers of the TLS 1.2 connection).
THEOREM TypeCorrect == Spec => []TypeOK
<1>1. ASSUME Init PROVE TypeOK
  <2> USE <1>1, Tls12Assumption DEF Init
  <2>1. state \in States
    BY DEF States
  <2>5. attempt \in 0 .. MaxAttempts
    OBVIOUS
  <2>2. transcript \in Transcript /\ keys \in SUBSET Transcript
    BY DEF Transcript, NoKeys
  <2>3. sequence \in [Directions -> 0 .. MaxSequence]
    OBVIOUS
  <2>4. used \in [Directions -> Seq((SUBSET Transcript) \X Nat)]
    <3>1. <<>> \in Seq((SUBSET Transcript) \X Nat)
      OBVIOUS
    <3> QED  BY <3>1
  <2> QED  BY <2>1, <2>2, <2>3, <2>4, <2>5 DEF TypeOK
<1>2. TypeOK /\ [Next]_vars => TypeOK'
  BY TypesKept
<1> QED  BY <1>1, <1>2, PTL DEF Spec

-----------------------------------------------------------------------------
(***************************************************************************)
(* ChangeCipherSpec.                                                       *)
(***************************************************************************)
\* The flag is set only by a ChangeCipherSpec that no client flight has used.
FlagIsFresh == ccs => fresh

\* A flight is taken to a Finished only with the flag.
LEMMA FinishedNeedsFlag ==
  ASSUME NEW f \in Seq(ClientTypes), Len(f) >= 2,
         Taken(f, InClientOrder) = f, f[Len(f)] = "Finished"
  PROVE  ccs
<1> DEFINE S == {n \in DOMAIN f : InClientOrder(SubSeq(f, 1, n))}
<1>0. S \subseteq 1 .. Len(f) /\ Len(f) \in Nat /\ Len(f) > 0
  OBVIOUS
<1>1. Cardinality(S) \in 0 .. Len(f)
  <2> HIDE DEF S
  <2> QED  BY <1>0, CountInRange
<1>2. Len(SubSeq(f, 1, Cardinality(S))) = Cardinality(S)
  <2> HIDE DEF S
  <2> QED  BY <1>1
<1>3. Cardinality(S) = Len(f)
  BY <1>2 DEF Taken
<1>4. Len(f) \in S
  <2> HIDE DEF S
  <2> QED  BY <1>0, <1>3, FullCount
<1>5. SubSeq(f, 1, Len(f)) = f
  OBVIOUS
<1>6. InClientOrder(f)
  BY <1>4, <1>5
<1> QED  BY <1>6 DEF InClientOrder

\* Every call keeps the flag true to the history, and takes a client flight to
\* its end only under a flag.
LEMMA SignalKept ==
  ASSUME FlagIsFresh, ChangeCipherSpecPerFinished, [Next]_vars
  PROVE  FlagIsFresh' /\ ChangeCipherSpecPerFinished'
<1> USE DEF FlagIsFresh, ChangeCipherSpecPerFinished
<1>1. CASE UNCHANGED ccsVars
  BY <1>1 DEF ccsVars
<1>2. CASE RecvChangeCipherSpec
  BY <1>2 DEF RecvChangeCipherSpec
<1>3. ASSUME NEW f \in ClientFlights, ClientFlight(f)
      PROVE  FlagIsFresh' /\ ChangeCipherSpecPerFinished'
  <2>1. CASE ClientFlightFailed(f)
    BY <1>1, <2>1 DEF ClientFlightFailed
  <2>2. CASE ClientFlightDone(f)
    <3>1. f \in Seq(ClientTypes) /\ Len(f) >= 2
      BY <1>3, Tls12Assumption DEF ClientFlight
    <3>2. Taken(f, InClientOrder) = f /\ f[Len(f)] = "Finished"
      BY <2>2 DEF ClientFlightDone, Last
    <3>3. ccs
      BY <3>1, <3>2, FinishedNeedsFlag
    <3> QED  BY <2>2, <3>3 DEF ClientFlightDone
  <2> QED  BY <1>3, <2>1, <2>2 DEF ClientFlight
<1>4. CASE SendClientHello \/ SendClientHelloNoTickets \/ RefuseHello
  BY <1>1, <1>4 DEF SendClientHello, SendClientHelloNoTickets, HelloSent, RefuseHello
<1>5. CASE RecvServerHello \/ RecvHelloRetryRequest \/ RefuseShareHello
  BY <1>1, <1>5 DEF RecvServerHello, RecvHelloRetryRequest, RefuseShareHello
<1>6. ASSUME NEW f \in ServerFlights, ServerFlight(f) PROVE UNCHANGED ccsVars
  BY <1>6 DEF ServerFlight, RecvHelloRetryRequest, RefuseShareHello
<1>7. CASE DeriveHandshakeSecret \/ Finish
  BY <1>1, <1>7 DEF DeriveHandshakeSecret, Finish
<1>8. CASE NextRecord("seal") \/ NextRecord("open")
  BY <1>1, <1>8 DEF NextRecord
<1>9. CASE UNCHANGED vars
  BY <1>1, <1>9 DEF vars
<1> QED
  BY <1>1, <1>2, <1>3, <1>4, <1>5, <1>6, <1>7, <1>8, <1>9
  DEF Next, SealRecord, SendAlert, OpenRecord, RecvAlert, RefuseFlightWithAlert

\* A client flight of any form is taken to its Finished only with a
\* ChangeCipherSpec of its own, whatever failed or began again before it
\* (process_tls12_client_handshake_flight, recv_tls12_change_cipher_spec).
THEOREM EveryFinishedHasItsSignal == Spec => []ChangeCipherSpecPerFinished
<1>1. Init => FlagIsFresh /\ ChangeCipherSpecPerFinished
  BY DEF Init, FlagIsFresh, ChangeCipherSpecPerFinished
<1>2. /\ FlagIsFresh /\ ChangeCipherSpecPerFinished /\ [Next]_vars
      => FlagIsFresh' /\ ChangeCipherSpecPerFinished'
  BY SignalKept
<1> QED  BY <1>1, <1>2, PTL DEF Spec

-----------------------------------------------------------------------------
(***************************************************************************)
(* Record numbers.                                                         *)
(***************************************************************************)
\* The n-th record in a direction has the number n - 1, under whatever key.
Counted ==
  \A d \in Directions :
    /\ Len(used[d]) = sequence[d]
    /\ \A i \in 1 .. Len(used[d]) : used[d][i][2] = i - 1

\* One record more is counted.
LEMMA RecordCounted ==
  ASSUME TypeOK, Counted, NEW d \in Directions, NextRecord(d)
  PROVE  Counted'
<1> DEFINE s == used[d]
           e == <<keys, sequence[d]>>
<1>1. s \in Seq((SUBSET Transcript) \X Nat) /\ e \in (SUBSET Transcript) \X Nat
  BY Tls12Assumption DEF TypeOK
<1>2. /\ Len(s) = sequence[d]
      /\ \A i \in 1 .. Len(s) : s[i][2] = i - 1
  BY DEF Counted
<1>3. /\ used' = [used EXCEPT ![d] = Append(s, e)]
      /\ sequence' = [sequence EXCEPT ![d] = Len(s) + 1]
  BY <1>2 DEF NextRecord
<1>4. e[2] = Len(s)
  BY <1>2
<1>5. DOMAIN used = Directions /\ DOMAIN sequence = Directions
  BY DEF TypeOK
<1> HIDE DEF s, e
<1>6. /\ Len(Append(s, e)) = Len(s) + 1
      /\ \A i \in 1 .. Len(s) + 1 : Append(s, e)[i][2] = i - 1
  BY <1>1, <1>2, <1>4
<1>7. SUFFICES ASSUME NEW c \in Directions
               PROVE  /\ Len(used'[c]) = sequence'[c]
                      /\ \A i \in 1 .. Len(used'[c]) : used'[c][i][2] = i - 1
  BY DEF Counted
<1>8. CASE c = d
  <2>1. used'[c] = Append(s, e) /\ sequence'[c] = Len(s) + 1
    BY <1>3, <1>5, <1>8
  <2> QED  BY <1>6, <2>1
<1>9. CASE c # d
  BY <1>3, <1>5, <1>9 DEF Counted
<1> QED  BY <1>8, <1>9

\* Every other call leaves numbers and history alone.
LEMMA CountKept ==
  ASSUME TypeOK, Counted, [Next]_vars
  PROVE  Counted'
<1>1. CASE NextRecord("seal") \/ NextRecord("open")
  BY <1>1, RecordCounted DEF Directions
<1>2. CASE UNCHANGED recordVars
  BY <1>2 DEF Counted, recordVars
<1>3. CASE SendClientHello \/ SendClientHelloNoTickets \/ RefuseHello
  BY <1>2, <1>3 DEF SendClientHello, SendClientHelloNoTickets, HelloSent, RefuseHello
<1>4. CASE RecvServerHello \/ RecvHelloRetryRequest \/ RefuseShareHello
  BY <1>2, <1>4 DEF RecvServerHello, RecvHelloRetryRequest, RefuseShareHello
<1>5. ASSUME NEW f \in ServerFlights, ServerFlight(f) PROVE UNCHANGED recordVars
  BY <1>5 DEF ServerFlight, RecvHelloRetryRequest, RefuseShareHello
<1>6. ASSUME NEW f \in ClientFlights, ClientFlight(f) PROVE UNCHANGED recordVars
  BY <1>6 DEF ClientFlight, ClientFlightDone, ClientFlightFailed
<1>7. CASE RecvChangeCipherSpec \/ DeriveHandshakeSecret \/ Finish
  BY <1>2, <1>7 DEF RecvChangeCipherSpec, DeriveHandshakeSecret, Finish
<1>8. CASE UNCHANGED vars
  BY <1>2, <1>8 DEF vars
<1> QED
  BY <1>1, <1>2, <1>3, <1>4, <1>5, <1>6, <1>7, <1>8
  DEF Next, SealRecord, SendAlert, OpenRecord, RecvAlert, RefuseFlightWithAlert

\* No two records of a direction have one number, over handshakes, alerts and
\* new keys, at any width of the counters (seal_record, open_record: no
\* call of the TLS 1.2 connection moves a counter back).
THEOREM NumbersAreUsedOnce == Spec => []NumbersUsedOnce
<1>1. Init => Counted
  BY DEF Init, Counted
<1>2. TypeOK /\ Counted /\ [Next]_vars => Counted'
  BY CountKept
<1>3. ASSUME TypeOK, Counted PROVE NumbersUsedOnce
  <2> SUFFICES ASSUME NEW d \in Directions
               PROVE  IsInjective(used[d])
    BY DEF NumbersUsedOnce
  <2>1. used[d] \in Seq((SUBSET Transcript) \X Nat)
    BY <1>3 DEF TypeOK
  <2>2. \A i \in 1 .. Len(used[d]) : used[d][i][2] = i - 1
    BY <1>3 DEF Counted
  <2>3. DOMAIN used[d] = 1 .. Len(used[d]) /\ Len(used[d]) \in Nat
    BY <2>1
  <2>4. ASSUME NEW i \in DOMAIN used[d], NEW j \in DOMAIN used[d],
               used[d][i] = used[d][j]
        PROVE  i = j
    BY <2>2, <2>3, <2>4
  <2> QED  BY <2>4 DEF IsInjective
<1> QED  BY <1>1, <1>2, <1>3, TypeCorrect, PTL DEF Spec
-----------------------------------------------------------------------------
(***************************************************************************)
(* What a handshake is finished over.                                      *)
(***************************************************************************)
\* The client's messages.
ClientPart == {"ClientKeyExchange", "CertificateVerify", "Finished", "VerifyData"}

\* The server's messages come before the client's.
LEMMA Ranks ==
  /\ Rank("ClientHello") = 1 /\ Rank("ServerHello") = 2 /\ Rank("Certificate") = 3
  /\ Rank("ServerKeyExchange") = 4 /\ Rank("CertificateRequest") = 4
  /\ Rank("ServerHelloDone") = 5 /\ Rank("ClientKeyExchange") = 6
  /\ Rank("CertificateVerify") = 7 /\ Rank("Finished") = 8 /\ Rank("VerifyData") = 8
<1>1. Rank("ClientHello") = 1 /\ Rank("ServerHello") = 2 /\ Rank("Certificate") = 3
  BY DEF Rank
<1>2. Rank("ServerKeyExchange") = 4 /\ Rank("CertificateRequest") = 4
  BY DEF Rank
<1>3. Rank("ServerHelloDone") = 5 /\ Rank("ClientKeyExchange") = 6
  BY DEF Rank
<1>4. Rank("CertificateVerify") = 7 /\ Rank("Finished") = 8 /\ Rank("VerifyData") = 8
  BY DEF Rank
<1> QED  BY <1>1, <1>2, <1>3, <1>4

LEMMA PartRanks ==
  /\ \A t \in ServerPart : Rank(t) \in 1 .. 5
  /\ \A t \in ClientPart : Rank(t) \in 6 .. 8
  /\ ServerPart \cap ClientPart = {}
BY Ranks DEF ServerPart, ClientPart

\* A set of indices with all below each of its own holds its cardinality.
LEMMA CountIsLast ==
  ASSUME NEW n \in Nat, NEW S, S \subseteq 1 .. n, Cardinality(S) > 0,
         \A i \in S : 1 .. i \subseteq S
  PROVE  Cardinality(S) \in S
<1> DEFINE c == Cardinality(S)
<1>1. c \in 0 .. n
  BY CountInRange
<1>2. SUFFICES ASSUME c \notin S PROVE FALSE
  OBVIOUS
<1>3. S \subseteq 1 .. c - 1
  <2> SUFFICES ASSUME NEW i \in S PROVE i < c
    BY <1>1
  <2>1. CASE c <= i
    BY <1>1, <1>2, <2>1
  <2>2. i \in Int /\ c \in Int
    BY <1>1
  <2> HIDE DEF c
  <2> QED  BY <2>1, <2>2
<1>4. c - 1 \in Nat
  BY <1>1
<1>5. c \in 0 .. c - 1
  BY <1>3, <1>4, CountInRange
<1> HIDE DEF c
<1> QED  BY <1>1, <1>5

\* What is taken of a server flight is in order.
LEMMA TakenInServerOrder ==
  ASSUME NEW f \in Seq(ServerTypes), Taken(f, InServerOrder) # <<>>
  PROVE  InServerOrder(Taken(f, InServerOrder))
<1> DEFINE S == {n \in DOMAIN f : InServerOrder(SubSeq(f, 1, n))}
<1>1. S \subseteq 1 .. Len(f) /\ Len(f) \in Nat
  OBVIOUS
<1>2. Cardinality(S) \in 0 .. Len(f)
  BY <1>1, CountInRange
<1>3. Cardinality(S) > 0
  <2>1. CASE Cardinality(S) = 0
    <3>1. SubSeq(f, 1, 0) = <<>>
      OBVIOUS
    <3> QED  BY <2>1, <3>1 DEF Taken
  <2> HIDE DEF S
  <2> QED  BY <1>2, <2>1
<1>4. ASSUME NEW n \in S, NEW m \in 1 .. n
      PROVE  m \in S
  <2>1. /\ n \in 1 .. Len(f) /\ m \in 1 .. Len(f) /\ m <= n
        /\ InServerOrder(SubSeq(f, 1, n))
    OBVIOUS
  <2>2. /\ Len(SubSeq(f, 1, n)) = n /\ DOMAIN SubSeq(f, 1, n) = 1 .. n
        /\ \A i \in 1 .. n : SubSeq(f, 1, n)[i] = f[i]
    BY <2>1
  <2>3. /\ Len(SubSeq(f, 1, m)) = m /\ DOMAIN SubSeq(f, 1, m) = 1 .. m
        /\ \A i \in 1 .. m : SubSeq(f, 1, m)[i] = f[i]
    BY <2>1
  <2>4. InServerOrder(SubSeq(f, 1, m))
    <3> SUFFICES ASSUME NEW i \in 1 .. m
                 PROVE  \/ i = 1 /\ f[i] = "ServerHello"
                        \/ i = 2 /\ f[i] = "Certificate"
                        \/ i > 2 /\ f[i] \in {"ServerKeyExchange", "CertificateRequest"}
                        \/ i > 2 /\ i = m /\ f[i] = "ServerHelloDone"
      BY <2>3 DEF InServerOrder
    <3>1. \/ i = 1 /\ f[i] = "ServerHello"
          \/ i = 2 /\ f[i] = "Certificate"
          \/ i > 2 /\ f[i] \in {"ServerKeyExchange", "CertificateRequest"}
          \/ i > 2 /\ i = n /\ f[i] = "ServerHelloDone"
      BY <2>1, <2>2 DEF InServerOrder
    <3> QED  BY <2>1, <3>1
  <2> QED  BY <2>1, <2>4
<1> HIDE DEF S
<1>5. Cardinality(S) \in S
  BY <1>1, <1>3, <1>4, CountIsLast
<1> QED  BY <1>5 DEF S, Taken

\* So is what is taken of a client flight.
LEMMA TakenInClientOrder ==
  ASSUME NEW f \in Seq(ClientTypes), Taken(f, InClientOrder) # <<>>
  PROVE  InClientOrder(Taken(f, InClientOrder))
<1> DEFINE S == {n \in DOMAIN f : InClientOrder(SubSeq(f, 1, n))}
<1>1. S \subseteq 1 .. Len(f) /\ Len(f) \in Nat
  OBVIOUS
<1>2. Cardinality(S) \in 0 .. Len(f)
  BY <1>1, CountInRange
<1>3. Cardinality(S) > 0
  <2>1. CASE Cardinality(S) = 0
    <3>1. SubSeq(f, 1, 0) = <<>>
      OBVIOUS
    <3> QED  BY <2>1, <3>1 DEF Taken
  <2> HIDE DEF S
  <2> QED  BY <1>2, <2>1
<1>4. ASSUME NEW n \in S, NEW m \in 1 .. n
      PROVE  m \in S
  <2>1. /\ n \in 1 .. Len(f) /\ m \in 1 .. Len(f) /\ m <= n
        /\ InClientOrder(SubSeq(f, 1, n))
    OBVIOUS
  <2>2. /\ Len(SubSeq(f, 1, n)) = n /\ DOMAIN SubSeq(f, 1, n) = 1 .. n
        /\ \A i \in 1 .. n : SubSeq(f, 1, n)[i] = f[i]
    BY <2>1
  <2>3. /\ Len(SubSeq(f, 1, m)) = m /\ DOMAIN SubSeq(f, 1, m) = 1 .. m
        /\ \A i \in 1 .. m : SubSeq(f, 1, m)[i] = f[i]
    BY <2>1
  <2>4. InClientOrder(SubSeq(f, 1, m))
    <3> SUFFICES ASSUME NEW i \in 1 .. m
                 PROVE  \/ i = 1 /\ f[i] = "ClientKeyExchange"
                        \/ i = 2 /\ f[i] = "CertificateVerify"
                        \/ /\ i \in {2, 3} /\ i = m
                           /\ f[i] = "Finished" /\ f[i - 1] # "Finished" /\ ccs
      BY <2>3 DEF InClientOrder
    <3>1. \/ i = 1 /\ f[i] = "ClientKeyExchange"
          \/ i = 2 /\ f[i] = "CertificateVerify"
          \/ /\ i \in {2, 3} /\ i = n
             /\ f[i] = "Finished" /\ f[i - 1] # "Finished" /\ ccs
      <4>1. i \in 1 .. n /\ SubSeq(f, 1, n)[i] = f[i]
        BY <2>1, <2>2
      <4>2. i \in {2, 3} => SubSeq(f, 1, n)[i - 1] = f[i - 1]
        <5>1. i \in {2, 3} => i - 1 \in 1 .. n
          BY <4>1
        <5> QED  BY <2>2, <5>1
      <4> QED  BY <2>1, <2>2, <4>1, <4>2 DEF InClientOrder
    <3> QED  BY <2>1, <3>1
  <2> QED  BY <2>1, <2>4
<1> HIDE DEF S
<1>5. Cardinality(S) \in S
  BY <1>1, <1>3, <1>4, CountIsLast
<1> QED  BY <1>5 DEF S, Taken

\* The messages of a handshake: the server's in order and once, and before
\* the client's, which are in order unless a flight of theirs has failed (r).
Ordered(t, r) ==
  /\ \A i \in DOMAIN t : t[i].type \in ServerPart \cup ClientPart
  /\ \A i, j \in DOMAIN t :
       i < j /\ (t[j].type \in ServerPart \/ ~ r) => Rank(t[i].type) <= Rank(t[j].type)
  /\ \A i, j \in DOMAIN t :
       i # j /\ t[i].type = t[j].type /\ t[i].type \in ServerPart => Rank(t[i].type) = 4

OfServer(t) == \A i \in DOMAIN t : t[i].type \in ServerPart

Has(t, type) == \E i \in DOMAIN t : t[i].type = type

\* The inductive invariant: the transcript of a handshake in progress that no
\* refused hello has torn.
Shape ==
  state # "Idle" /\ ~ torn =>
    /\ \A i \in DOMAIN transcript : transcript[i].attempt = attempt
    /\ Ordered(transcript, retried)
    /\ Len(transcript) >= 1 /\ transcript[1].type = "ClientHello"
    /\ IF state = "ClientHelloSent" THEN Len(transcript) = 1
       ELSE Len(transcript) >= 2 /\ transcript[2].type = "ServerHello"
    /\ state # "Finished" /\ ~ retried => OfServer(transcript)
    /\ state = "ServerCertificateVerified" \/ Has(transcript, "ClientKeyExchange")
         => Has(transcript, "ServerHelloDone")

\* No handshake is in progress yet.
LEMMA InitShape == Init => Shape
BY DEF Init, Shape

\* A ClientHello begins a new transcript.
LEMMA HelloShape ==
  ASSUME TypeOK, HelloSent
  PROVE  Shape'
<1>1. /\ transcript' = <<[type |-> "ClientHello", attempt |-> attempt']>>
      /\ state' = "ClientHelloSent"
  BY DEF HelloSent
<1>2. /\ Len(transcript') = 1 /\ DOMAIN transcript' = {1}
      /\ transcript'[1].type = "ClientHello" /\ transcript'[1].attempt = attempt'
  BY <1>1
<1>3. Ordered(transcript, retried)' /\ OfServer(transcript)'
  BY <1>2 DEF Ordered, OfServer, ServerPart
<1>4. ~ Has(transcript, "ClientKeyExchange")'
  BY <1>2 DEF Has
<1> QED  BY <1>1, <1>2, <1>3, <1>4 DEF Shape

\* What joins a transcript, message by message.
LEMMA ExtendedIs ==
  ASSUME TypeOK, NEW types \in Seq(MessageTypes), transcript' = Extended(types)
  PROVE  /\ Len(transcript') = Len(transcript) + Len(types)
         /\ Len(transcript) \in Nat /\ Len(types) \in Nat
         /\ DOMAIN transcript = 1 .. Len(transcript)
         /\ DOMAIN transcript' = 1 .. Len(transcript) + Len(types)
         /\ \A i \in 1 .. Len(transcript) : transcript'[i] = transcript[i]
         /\ \A i \in 1 .. Len(types) :
              transcript'[Len(transcript) + i] = [type |-> types[i], attempt |-> attempt]
<1> DEFINE m == [i \in DOMAIN types |-> [type |-> types[i], attempt |-> attempt]]
<1>0. attempt \in Nat /\ transcript \in Seq(Message)
  BY Tls12Assumption DEF TypeOK, Transcript
<1>1. \A i \in DOMAIN types : [type |-> types[i], attempt |-> attempt] \in Message
  BY <1>0 DEF Message
<1>2. m \in [1 .. Len(types) -> Message] /\ Len(types) \in Nat
  BY <1>1
<1>3. m \in Seq(Message) /\ Len(m) = Len(types)
  BY <1>2
<1>4. \A i \in 1 .. Len(types) : m[i] = [type |-> types[i], attempt |-> attempt]
  OBVIOUS
<1>5. transcript' = transcript \o m
  BY DEF Extended
<1> HIDE DEF m
<1>6. /\ Len(transcript \o m) = Len(transcript) + Len(m)
      /\ transcript \o m \in Seq(Message)
      /\ Len(transcript) \in Nat
      /\ \A i \in 1 .. Len(transcript) : (transcript \o m)[i] = transcript[i]
  BY <1>0, <1>3
<1>7. ASSUME NEW i \in 1 .. Len(m)
      PROVE  (transcript \o m)[Len(transcript) + i] = m[i]
  BY <1>0, <1>3
<1> QED  BY <1>0, <1>2, <1>3, <1>4, <1>5, <1>6, <1>7

\* A server flight in order follows the ClientHello.
LEMMA ServerFlightShape ==
  ASSUME TypeOK, Shape, state = "ClientHelloSent", NEW f \in Seq(ServerTypes),
         f # <<>>, InServerOrder(f), transcript' = Extended(f),
         UNCHANGED <<attempt, retried, torn>>,
         state' \in {"ServerHelloReceived", "ServerCertificateReceived",
                     "ServerCertificateVerified"},
         state' = "ServerCertificateVerified" => f[Len(f)] = "ServerHelloDone"
  PROVE  Shape'
<1> DEFINE n == Len(f)
<1>0. n \in Nat /\ n >= 1 /\ f \in Seq(MessageTypes)
  BY DEF MessageTypes
<1> SUFFICES ASSUME ~ torn PROVE Shape'
  BY DEF Shape
<1>1. /\ Len(transcript) = 1 /\ transcript[1].type = "ClientHello"
      /\ transcript[1].attempt = attempt
  BY DEF Shape
<1>2. /\ Len(transcript') = n + 1 /\ DOMAIN transcript' = 1 .. n + 1
      /\ transcript'[1] = transcript[1]
      /\ \A i \in 1 .. n : transcript'[i + 1] = [type |-> f[i], attempt |-> attempt]
  BY <1>0, <1>1, ExtendedIs
<1>3. \A i \in 1 .. n :
        \/ i = 1 /\ f[i] = "ServerHello"
        \/ i = 2 /\ f[i] = "Certificate"
        \/ i > 2 /\ f[i] \in {"ServerKeyExchange", "CertificateRequest"}
        \/ i > 2 /\ i = n /\ f[i] = "ServerHelloDone"
  BY DEF InServerOrder
<1> HIDE DEF n
<1>4. \A k \in DOMAIN transcript' :
        \/ k = 1 /\ transcript'[k].type = "ClientHello"
        \/ k = 2 /\ transcript'[k].type = "ServerHello"
        \/ k = 3 /\ transcript'[k].type = "Certificate"
        \/ k > 3 /\ transcript'[k].type \in {"ServerKeyExchange", "CertificateRequest"}
        \/ k > 3 /\ k = n + 1 /\ transcript'[k].type = "ServerHelloDone"
  <2> SUFFICES ASSUME NEW k \in 2 .. n + 1
               PROVE  \/ k = 2 /\ transcript'[k].type = "ServerHello"
                      \/ k = 3 /\ transcript'[k].type = "Certificate"
                      \/ k > 3 /\ transcript'[k].type \in {"ServerKeyExchange", "CertificateRequest"}
                      \/ k > 3 /\ k = n + 1 /\ transcript'[k].type = "ServerHelloDone"
    BY <1>0, <1>1, <1>2
  <2>1. PICK i \in 1 .. n : k = i + 1
    BY <1>0
  <2>2. transcript'[i + 1] = [type |-> f[i], attempt |-> attempt]
    BY <1>2
  <2>3. transcript'[k].type = f[i]
    BY <2>1, <2>2
  <2> QED  BY <1>0, <1>3, <2>1, <2>3
<1>5. \A k \in DOMAIN transcript' : transcript'[k].attempt = attempt'
  <2> SUFFICES ASSUME NEW k \in 2 .. n + 1
               PROVE  transcript'[k].attempt = attempt'
    BY <1>0, <1>1, <1>2
  <2>1. PICK i \in 1 .. n : k = i + 1
    BY <1>0
  <2>2. transcript'[i + 1] = [type |-> f[i], attempt |-> attempt]
    BY <1>2
  <2> QED  BY <2>1, <2>2
<1>6. OfServer(transcript)'
  BY <1>4 DEF OfServer, ServerPart
<1>7. Ordered(transcript, retried)'
  <2>1. \A i \in DOMAIN transcript' : transcript'[i].type \in ServerPart
    BY <1>6 DEF OfServer
  <2>2. ASSUME NEW i \in DOMAIN transcript', NEW j \in DOMAIN transcript', i < j
        PROVE  Rank(transcript'[i].type) <= Rank(transcript'[j].type)
    BY <1>0, <1>2, <1>4, <2>2, Ranks
  <2>3. ASSUME NEW i \in DOMAIN transcript', NEW j \in DOMAIN transcript', i < j,
               transcript'[i].type = transcript'[j].type
        PROVE  Rank(transcript'[i].type) = 4
    BY <1>0, <1>2, <1>4, <2>3, Ranks
  <2>4. ASSUME NEW i \in DOMAIN transcript', NEW j \in DOMAIN transcript', i # j,
               transcript'[i].type = transcript'[j].type
        PROVE  Rank(transcript'[i].type) = 4
    <3>1. i \in Int /\ j \in Int
      BY <1>2
    <3>2. i < j \/ j < i
      BY <2>4, <3>1
    <3> QED  BY <2>3, <2>4, <3>2
  <2> QED  BY <2>1, <2>2, <2>4 DEF Ordered
<1>8. ~ Has(transcript, "ClientKeyExchange")'
  BY <1>6 DEF Has, OfServer, ServerPart
<1>9. state' = "ServerCertificateVerified" => Has(transcript, "ServerHelloDone")'
  <2>1. n \in 1 .. n /\ n + 1 \in DOMAIN transcript'
    BY <1>0, <1>2
  <2>2. transcript'[n + 1] = [type |-> f[n], attempt |-> attempt]
    BY <1>2, <2>1
  <2>3. state' = "ServerCertificateVerified" => f[n] = "ServerHelloDone"
    BY DEF n
  <2> QED  BY <2>1, <2>2, <2>3 DEF Has
<1>10. Len(transcript') >= 2 /\ transcript'[2].type = "ServerHello"
  <2>1. 2 \in DOMAIN transcript'
    BY <1>0, <1>2
  <2> QED  BY <1>0, <1>2, <1>4, <2>1
<1> QED
  BY <1>1, <1>2, <1>5, <1>6, <1>7, <1>8, <1>9, <1>10 DEF Shape

\* The client's messages follow the server's.
LEMMA ClientShape ==
  ASSUME TypeOK, Shape, state \notin {"Idle", "ClientHelloSent", "Finished"},
         NEW f \in Seq(MessageTypes), \A i \in DOMAIN f : f[i] \in ClientPart,
         transcript' = Extended(f), UNCHANGED <<attempt, torn>>,
         \/ retried' /\ (retried' = retried \/ state' # "Finished")
         \/ /\ ~ retried' /\ ~ retried /\ state' = "Finished"
            /\ \A i, j \in DOMAIN f : i < j => Rank(f[i]) <= Rank(f[j]),
         state' \in {"ServerCertificateVerified", "Finished"},
         state = "ServerCertificateVerified" \/
           (state' = "Finished" /\ \A i \in DOMAIN f : f[i] # "ClientKeyExchange")
  PROVE  Shape'
<1> DEFINE n == Len(transcript)
<1>1. /\ Len(transcript') = n + Len(f) /\ n \in Nat /\ Len(f) \in Nat
      /\ DOMAIN transcript = 1 .. n /\ DOMAIN transcript' = 1 .. n + Len(f)
      /\ \A i \in 1 .. n : transcript'[i] = transcript[i]
      /\ \A i \in 1 .. Len(f) : transcript'[n + i] = [type |-> f[i], attempt |-> attempt]
  BY ExtendedIs
<1> SUFFICES ASSUME ~ torn PROVE Shape'
  BY DEF Shape
<1>2. /\ \A i \in DOMAIN transcript : transcript[i].attempt = attempt
      /\ Ordered(transcript, retried)
      /\ n >= 2 /\ transcript[1].type = "ClientHello" /\ transcript[2].type = "ServerHello"
      /\ ~ retried => OfServer(transcript)
      /\ state = "ServerCertificateVerified" \/ Has(transcript, "ClientKeyExchange")
           => Has(transcript, "ServerHelloDone")
  BY DEF Shape
<1> HIDE DEF n
<1>3. ASSUME NEW k \in DOMAIN transcript', k > n
      PROVE  /\ k - n \in DOMAIN f /\ transcript'[k].type = f[k - n]
             /\ transcript'[k].attempt = attempt' /\ transcript'[k].type \in ClientPart
             /\ transcript'[k].type \notin ServerPart
  <2>1. k - n \in 1 .. Len(f) /\ k = n + (k - n)
    BY <1>1, <1>3
  <2>2. transcript'[k] = [type |-> f[k - n], attempt |-> attempt]
    BY <1>1, <2>1
  <2>3. k - n \in DOMAIN f
    BY <2>1
  <2>4. f[k - n] \in ClientPart
    BY <2>3
  <2> QED  BY <2>2, <2>3, <2>4, PartRanks
<1>4. ASSUME NEW k \in DOMAIN transcript', ~ (k > n)
      PROVE  k \in DOMAIN transcript /\ transcript'[k] = transcript[k]
  BY <1>1, <1>4
<1>5. \A k \in DOMAIN transcript' : transcript'[k].attempt = attempt'
  BY <1>2, <1>3, <1>4
<1>6. Ordered(transcript, retried)'
  <2>1. ASSUME NEW i \in DOMAIN transcript'
        PROVE  transcript'[i].type \in ServerPart \cup ClientPart
    BY <1>2, <1>3, <1>4 DEF Ordered
  <2>2. ASSUME NEW i \in DOMAIN transcript', NEW j \in DOMAIN transcript', i < j,
               transcript'[j].type \in ServerPart \/ ~ retried'
        PROVE  Rank(transcript'[i].type) <= Rank(transcript'[j].type)
    <3>0. i \in Int /\ j \in Int /\ n \in Int
      BY <1>1
    <3>1. CASE ~ (j > n)
      <4>1. ~ (i > n)
        BY <2>2, <3>0, <3>1
      <4>2. /\ i \in DOMAIN transcript /\ transcript'[i] = transcript[i]
            /\ j \in DOMAIN transcript /\ transcript'[j] = transcript[j]
        BY <1>4, <3>1, <4>1
      <4>3. transcript[j].type \in ServerPart \/ ~ retried
        BY <2>2, <4>2
      <4> QED  BY <1>2, <2>2, <4>2, <4>3 DEF Ordered
    <3>2. CASE j > n
      <4>1. /\ ~ retried' /\ ~ retried
            /\ \A k, l \in DOMAIN f : k < l => Rank(f[k]) <= Rank(f[l])
        BY <1>3, <2>2, <3>2
      <4>2. Rank(transcript'[j].type) \in 6 .. 8
        BY <1>3, <3>2, PartRanks
      <4>3. CASE i > n
        <5>1. /\ i - n \in DOMAIN f /\ transcript'[i].type = f[i - n]
              /\ j - n \in DOMAIN f /\ transcript'[j].type = f[j - n]
          BY <1>3, <3>2, <4>3
        <5>2. i - n < j - n
          BY <2>2, <3>0
        <5> QED  BY <4>1, <5>1, <5>2
      <4>4. CASE ~ (i > n)
        <5>1. transcript'[i].type \in ServerPart
          BY <1>2, <1>4, <4>1, <4>4 DEF OfServer
        <5>2. Rank(transcript'[i].type) \in 1 .. 5
          BY <5>1, PartRanks
        <5> QED  BY <4>2, <5>2
      <4> QED  BY <4>3, <4>4
    <3> QED  BY <3>1, <3>2
  <2>3. ASSUME NEW i \in DOMAIN transcript', NEW j \in DOMAIN transcript', i # j,
               transcript'[i].type = transcript'[j].type, transcript'[i].type \in ServerPart
        PROVE  Rank(transcript'[i].type) = 4
    <3>1. ~ (i > n) /\ ~ (j > n)
      BY <1>3, <2>3
    <3>2. /\ i \in DOMAIN transcript /\ transcript'[i] = transcript[i]
          /\ j \in DOMAIN transcript /\ transcript'[j] = transcript[j]
      BY <1>4, <3>1
    <3> QED  BY <1>2, <2>3, <3>2 DEF Ordered
  <2> QED  BY <2>1, <2>2, <2>3 DEF Ordered
<1>7. /\ Len(transcript') >= 2 /\ transcript'[1].type = "ClientHello"
      /\ transcript'[2].type = "ServerHello"
  BY <1>1, <1>2
<1>8. Has(transcript, "ServerHelloDone") => Has(transcript, "ServerHelloDone")'
  <2> SUFFICES ASSUME NEW i \in DOMAIN transcript
               PROVE  i \in DOMAIN transcript' /\ transcript'[i] = transcript[i]
    BY DEF Has
  <2> QED  BY <1>1
<1>9. Has(transcript, "ClientKeyExchange")' /\ state # "ServerCertificateVerified"
        => Has(transcript, "ClientKeyExchange")
  BY <1>3, <1>4 DEF Has
<1>10. state' # "Finished" => retried'
  OBVIOUS
<1>11. state' = "ServerCertificateVerified" => state = "ServerCertificateVerified"
  OBVIOUS
<1> QED
  BY <1>2, <1>5, <1>6, <1>7, <1>8, <1>9, <1>10, <1>11 DEF Shape

\* A client flight keeps the shape, taken whole or in part.
LEMMA ClientFlightShape ==
  ASSUME TypeOK, Shape, NEW f \in Seq(ClientTypes), ClientFlight(f)
  PROVE  Shape'
<1> DEFINE taken == Taken(f, InClientOrder)
<1>1. state = "ServerCertificateVerified" /\ UNCHANGED <<attempt, torn>>
  BY DEF ClientFlight, ClientFlightDone, ClientFlightFailed
<1>2. ASSUME NEW g \in Seq(ClientTypes), InClientOrder(g)
      PROVE  /\ g \in Seq(MessageTypes)
             /\ \A i \in DOMAIN g : g[i] \in ClientPart
             /\ \A i, j \in DOMAIN g : i < j => Rank(g[i]) <= Rank(g[j])
  <2>1. /\ g \in Seq(MessageTypes) /\ DOMAIN g = 1 .. Len(g) /\ Len(g) \in Nat
    BY DEF MessageTypes
  <2>2. \A i \in DOMAIN g :
          \/ i = 1 /\ g[i] = "ClientKeyExchange"
          \/ i = 2 /\ g[i] = "CertificateVerify"
          \/ i \in {2, 3} /\ i = Len(g) /\ g[i] = "Finished"
    BY <1>2 DEF InClientOrder
  <2>3. \A i \in DOMAIN g : g[i] \in ClientPart
    BY <2>2 DEF ClientPart
  <2>4. \A i, j \in DOMAIN g : i < j => Rank(g[i]) <= Rank(g[j])
    BY <2>1, <2>2, Ranks
  <2> QED  BY <2>1, <2>3, <2>4
<1>3. CASE ClientFlightDone(f)
  <2>1. /\ taken = f /\ f # <<>> /\ transcript' = Extended(f) /\ state' = "Finished"
        /\ UNCHANGED retried
    BY <1>3 DEF ClientFlight, ClientFlightDone
  <2>2. InClientOrder(f)
    BY <2>1, TakenInClientOrder
  <2>3. retried \in BOOLEAN
    BY DEF TypeOK
  <2> HIDE DEF taken
  <2> QED  BY <1>1, <1>2, <2>1, <2>2, <2>3, ClientShape
<1>4. CASE ClientFlightFailed(f)
  <2>1. /\ taken # <<>> /\ transcript' = Extended(taken) /\ retried'
        /\ state' = "ServerCertificateVerified"
    BY <1>1, <1>4 DEF ClientFlightFailed
  <2>2. InClientOrder(taken) /\ taken \in Seq(ClientTypes)
    BY <2>1, TakenInClientOrder, TakenOfClientFlight
  <2> HIDE DEF taken
  <2> QED  BY <1>1, <1>2, <2>1, <2>2, ClientShape
<1> QED  BY <1>3, <1>4 DEF ClientFlight

\* So do the answers to the ClientHello, alone or as a flight.
LEMMA ServerShape ==
  ASSUME TypeOK, Shape, NEW f \in Seq(ServerTypes), ServerFlight(f) \/ RecvServerHello
  PROVE  Shape'
<1> DEFINE taken == Taken(f, InServerOrder)
<1>1. ASSUME NEW g \in Seq(ServerTypes), g # <<>>, InServerOrder(g), state = "ClientHelloSent",
             transcript' = Extended(g), UNCHANGED <<attempt, retried, torn>>,
             \/ state' = "ServerCertificateVerified" /\ g[Len(g)] = "ServerHelloDone"
             \/ state' \in {"ServerHelloReceived", "ServerCertificateReceived"}
      PROVE  Shape'
  BY <1>1, ServerFlightShape
<1>2. CASE RecvServerHello
  <2> DEFINE g == <<"ServerHello">>
  <2>1. g \in Seq(ServerTypes) /\ g # <<>> /\ InServerOrder(g)
    BY DEF InServerOrder, ServerTypes
  <2>2. /\ state = "ClientHelloSent" /\ transcript' = Extended(g)
        /\ UNCHANGED <<attempt, retried, torn>> /\ state' = "ServerHelloReceived"
    BY <1>2 DEF RecvServerHello
  <2> HIDE DEF g
  <2> QED  BY <1>1, <2>1, <2>2
<1>3. CASE RecvHelloRetryRequest
  BY <1>3 DEF RecvHelloRetryRequest, Shape
<1>4. CASE RefuseShareHello
  BY <1>4 DEF RefuseShareHello, Shape
<1>5. CASE /\ state = "ClientHelloSent" /\ taken # <<>> /\ transcript' = Extended(taken)
           /\ state' = IF taken = f /\ Last(f) = "ServerHelloDone"
                       THEN "ServerCertificateVerified" ELSE ServerStateAfter(Len(taken))
           /\ UNCHANGED <<attempt, retried, torn>>
  <2>1. InServerOrder(taken) /\ taken \in Seq(ServerTypes)
    BY <1>5, TakenInServerOrder, TakenOfServerFlight
  <2>2. \/ state' = "ServerCertificateVerified" /\ taken[Len(taken)] = "ServerHelloDone"
        \/ state' \in {"ServerHelloReceived", "ServerCertificateReceived"}
    <3> HIDE DEF taken
    <3> QED  BY <1>5 DEF Last, ServerStateAfter
  <2> HIDE DEF taken
  <2> QED  BY <1>1, <1>5, <2>1, <2>2
<1> QED  BY <1>2, <1>3, <1>4, <1>5 DEF ServerFlight

\* So does Finish by its verify_data.
LEMMA FinishShape ==
  ASSUME TypeOK, Shape, Finish
  PROVE  Shape'
<1> DEFINE f == <<"VerifyData">>
<1>1. /\ state \in {"KeysDerived", "ServerCertificateVerified"} /\ state' = "Finished"
      /\ transcript' = Extended(f) /\ UNCHANGED <<attempt, retried, torn>>
  BY DEF Finish
<1>2. /\ f \in Seq(MessageTypes) /\ \A i \in DOMAIN f : f[i] \in ClientPart
      /\ \A i, j \in DOMAIN f : i < j => Rank(f[i]) <= Rank(f[j])
      /\ \A i \in DOMAIN f : f[i] # "ClientKeyExchange"
  BY DEF MessageTypes, ClientPart
<1>3. retried \in BOOLEAN
  BY DEF TypeOK
<1> HIDE DEF f
<1> QED  BY <1>1, <1>2, <1>3, ClientShape

\* Every step keeps the shape.
LEMMA StepShape == TypeOK /\ Shape /\ [Next]_vars => Shape'
<1> SUFFICES ASSUME TypeOK, Shape, [Next]_vars PROVE Shape'
  OBVIOUS
<1>1. CASE SendClientHello \/ SendClientHelloNoTickets
  BY <1>1, HelloShape DEF SendClientHello, SendClientHelloNoTickets
<1>9. CASE RefuseHello
  BY <1>9 DEF RefuseHello, Shape
<1>2. CASE RecvServerHello \/ \E f \in ServerFlights : ServerFlight(f)
  <2>1. ServerFlights \subseteq Seq(ServerTypes) /\ <<>> \in Seq(ServerTypes)
    BY Tls12Assumption
  <2> QED  BY <1>2, <2>1, ServerShape
<1>3. CASE \E f \in ClientFlights : ClientFlight(f)
  <2>1. ClientFlights \subseteq Seq(ClientTypes)
    BY Tls12Assumption
  <2> QED  BY <1>3, <2>1, ClientFlightShape
<1>4. CASE RecvHelloRetryRequest \/ RefuseShareHello
  BY <1>4 DEF RecvHelloRetryRequest, RefuseShareHello, Shape
<1>5. CASE DeriveHandshakeSecret
  BY <1>5 DEF DeriveHandshakeSecret, Shape
<1>6. CASE Finish
  BY <1>6, FinishShape
<1>7. CASE UNCHANGED hsVars
  BY <1>7 DEF hsVars, Shape
<1>8. CASE \/ RecvChangeCipherSpec \/ SealRecord \/ OpenRecord \/ SendAlert \/ RecvAlert
           \/ RefuseFlightWithAlert \/ UNCHANGED vars
  BY <1>7, <1>8
  DEF RecvChangeCipherSpec, SealRecord, OpenRecord, SendAlert, RecvAlert,
      RefuseFlightWithAlert, NextRecord, vars
<1> QED  BY <1>1, <1>2, <1>3, <1>4, <1>5, <1>6, <1>8, <1>9 DEF Next

\* A handshake is finished over its own messages, in their order and complete,
\* unless a refused hello has torn it.
THEOREM FinishedOverOwnMessages == Spec => []FinishedOverThisHandshake
<1>1. TypeOK /\ Shape => FinishedOverThisHandshake
  <2> SUFFICES ASSUME TypeOK, Shape, state = "Finished", ~ torn
               PROVE  FinishedOverThisHandshake
    BY DEF FinishedOverThisHandshake
  <2> DEFINE Server == {i \in DOMAIN transcript : transcript[i].type \in ServerPart}
  <2>1. /\ \A i \in DOMAIN transcript : transcript[i].attempt = attempt
        /\ Ordered(transcript, retried)
        /\ transcript[1].type = "ClientHello" /\ transcript[2].type = "ServerHello"
        /\ Has(transcript, "ClientKeyExchange") => Has(transcript, "ServerHelloDone")
    BY DEF Shape
  <2>2. \A i, j \in DOMAIN transcript :
          i < j /\ (j \in Server \/ ~ retried) => Rank(transcript[i].type) <= Rank(transcript[j].type)
    BY <2>1 DEF Ordered
  <2>3. \A i, j \in Server :
          i # j /\ transcript[i].type = transcript[j].type => Rank(transcript[i].type) = 4
    BY <2>1 DEF Ordered
  <2>4. (\E i \in DOMAIN transcript : transcript[i].type = "ClientKeyExchange")
          => \E i \in Server : transcript[i].type = "ServerHelloDone"
    BY <2>1 DEF Has, ServerPart
  <2> HIDE DEF Server
  <2> QED  BY <2>1, <2>2, <2>3, <2>4 DEF FinishedOverThisHandshake, Server
<1>2. Init => Shape
  BY InitShape
<1>3. TypeOK /\ Shape /\ [Next]_vars => Shape'
  BY StepShape
<1> QED  BY <1>1, <1>2, <1>3, TypeCorrect, PTL DEF Spec
=============================================================================
