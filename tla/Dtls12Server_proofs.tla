------------------------- MODULE Dtls12Server_proofs -------------------------
(***************************************************************************)
(* Theorems about Dtls12Server, for any ClientHellos and secrets, any      *)
(* sizes of datagrams, any factor and any width of the counters.           *)
(***************************************************************************)
EXTENDS Dtls12Server, TLAPS

(***************************************************************************)
(* The inductive invariant.                                                *)
(***************************************************************************)
\* A cookie that the client has, or has sent, is one it was sent.
CookiesWereSent ==
  /\ cookie # None => reached
  /\ \A m \in net : m.kind = "hello" /\ m.cookie # None => reached

\* The challenge is open exactly between the two ClientHellos.
ChallengeOpen ==
  /\ phase = "AwaitingClientHelloWithCookie" =>
       challenged \in Randoms /\ \E s \in Secrets : expected = CookieOf(s, challenged)
  /\ ~Validated => accepted = 0

IInv == CookiesWereSent /\ ChallengeOpen /\ CookieProvesReach

(***************************************************************************)
(* Type correctness.                                                       *)
(***************************************************************************)
LEMMA SaturatingType ==
  ASSUME NEW n \in Nat
  PROVE  Saturating(n) \in 0 .. MaxBytes
BY Dtls12Assumption DEF Dtls12Assumption, Saturating

\* A datagram that is sent leaves a set of datagrams under way.
LEMMA SendType ==
  ASSUME NEW m \in Datagrams, net \subseteq Datagrams, Send(m)
  PROVE  net' \subseteq Datagrams
BY DEF Send, After

LEMMA DatagramTypes ==
  ASSUME NEW k \in Kinds \ {"hello"}, NEW r \in Randoms, NEW c \in Cookies \cup {None}
  PROVE  Datagram(k) \in Datagrams /\ Hello(r, c) \in Datagrams /\ Verify(c) \in Datagrams
BY DEF Datagram, Hello, Verify, Datagrams, Kinds

\* The size of a datagram under way is a number.
LEMMA SizeType ==
  ASSUME NEW m \in Datagrams
  PROVE  Size[m.kind] \in Nat
<1>1. Size \in [Kinds -> Nat]
  BY Dtls12Assumption DEF Dtls12Assumption
<1>2. m.kind \in Kinds
  BY DEF Datagrams, Kinds
<1> QED BY <1>1, <1>2

\* What every datagram that arrives at the server leaves well-typed.
LEMMA RecordInboundType ==
  ASSUME TypeOK, NEW m \in net, RecordInbound(m)
  PROVE  /\ inbound' \in 0 .. MaxBytes /\ outbound' \in 0 .. MaxBytes
         /\ net' \subseteq Datagrams
         /\ secret' \in Secrets /\ random' \in Randoms /\ cookie' \in Cookies \cup {None}
         /\ enforced' \in BOOLEAN /\ heard' \in BOOLEAN /\ reached' \in BOOLEAN
         /\ lifted' \in BOOLEAN /\ disturbed' \in BOOLEAN
<1>1. m \in Datagrams /\ inbound \in Nat
  BY DEF TypeOK
<1>2. inbound + Size[m.kind] \in Nat
  BY <1>1, SizeType
<1>3. inbound' \in 0 .. MaxBytes
  BY <1>2, SaturatingType DEF RecordInbound
<1>4. net' \subseteq Datagrams
  BY DEF TypeOK, RecordInbound, Receive
<1> QED BY <1>3, <1>4 DEF TypeOK, RecordInbound, clientVars, policyVars

\* And every datagram the server sends.
LEMMA RecordOutboundType ==
  ASSUME TypeOK, NEW m \in Datagrams, RecordOutbound(m)
  PROVE  TypeOK'
<1>1. outbound + Size[m.kind] \in Nat
  BY SizeType DEF TypeOK
<1>2. outbound' \in 0 .. MaxBytes
  BY <1>1, SaturatingType DEF RecordOutbound
<1>3. net' \subseteq Datagrams
  BY SendType DEF TypeOK, RecordOutbound
<1> QED BY <1>2, <1>3 DEF TypeOK, RecordOutbound, serverVars, clientVars, policyVars

LEMMA InitType == Init => TypeOK
<1> SUFFICES ASSUME Init PROVE TypeOK
  OBVIOUS
<1>1. inbound \in 0 .. MaxBytes /\ outbound \in 0 .. MaxBytes
  BY Dtls12Assumption DEF Init, Dtls12Assumption
<1>2. /\ enforced \in BOOLEAN /\ heard \in BOOLEAN /\ reached \in BOOLEAN
      /\ lifted \in BOOLEAN /\ disturbed \in BOOLEAN
  BY DEF Init
<1> QED BY <1>1, <1>2 DEF Init, TypeOK, Phases

LEMMA StepType == TypeOK /\ [Next]_vars => TypeOK'
<1> SUFFICES ASSUME TypeOK, [Next]_vars PROVE TypeOK'
  OBVIOUS
<1>1. CASE UNCHANGED vars
  BY <1>1 DEF TypeOK, vars, serverVars, byteVars, clientVars, policyVars
<1>2. CASE Client
  <2>1. CASE SendHello
    <3>1. Hello(random, cookie) \in Datagrams
      BY DatagramTypes DEF TypeOK, Kinds
    <3> QED BY <2>1, <3>1, SendType DEF TypeOK, SendHello, serverVars, byteVars, clientVars, policyVars
  <2>2. CASE SendKeyExchange \/ SendFinished
    <3>1. Datagram("key_exchange") \in Datagrams /\ Datagram("finished") \in Datagrams
      BY DEF Datagram, Datagrams, Kinds
    <3>2. net' \subseteq Datagrams
      BY <2>2, <3>1, SendType DEF TypeOK, SendKeyExchange, SendFinished
    <3> QED BY <2>2, <3>2
          DEF TypeOK, SendKeyExchange, SendFinished, serverVars, byteVars, clientVars, policyVars
  <2>3. CASE \E m \in net : ReceiveVerify(m) \/ ReceiveServerFlight(m)
    BY <2>3 DEF TypeOK, ReceiveVerify, ReceiveServerFlight, Receive, Datagrams,
                serverVars, byteVars, policyVars
  <2>4. CASE \E r \in Randoms, c \in {cookie, None} : StartOver(r, c)
    BY <2>4 DEF TypeOK, StartOver, serverVars, byteVars
  <2> QED BY <1>2, <2>1, <2>2, <2>3, <2>4 DEF Client
<1>3. CASE ReceiveHello
  <2> PICK m \in net : Challenge(m) \/ VerifyCookie(m) \/ RefuseHello(m)
    BY <1>3 DEF ReceiveHello
  <2>1. m \in Datagrams /\ RecordInbound(m)
    BY DEF TypeOK, Challenge, VerifyCookie, RefuseHello
  <2>2. CASE Challenge(m)
    <3>1. m.random \in Randoms
      BY <2>1, <2>2 DEF Datagrams, Challenge
    <3>2. expected' \in Cookies
      BY <2>2, <3>1 DEF TypeOK, Challenge, CookieOf, Cookies
    <3> QED BY <2>1, <2>2, <3>1, <3>2, RecordInboundType DEF TypeOK, Challenge, Phases
  <2>3. CASE VerifyCookie(m)
    BY <2>1, <2>3, RecordInboundType DEF TypeOK, VerifyCookie, Phases, Datagrams
  <2>4. CASE RefuseHello(m)
    BY <2>1, <2>4, RecordInboundType DEF TypeOK, RefuseHello, KeepPhase, serverVars
  <2> QED BY <2>2, <2>3, <2>4
<1>4. CASE ReceiveKeyExchange \/ ReceiveFinished
  <2> PICK m \in net : TakeKeyExchange(m) \/ TakeFinished(m) \/ RefuseMessage(m)
    BY <1>4 DEF ReceiveKeyExchange, ReceiveFinished
  <2>1. RecordInbound(m)
    BY DEF TakeKeyExchange, TakeFinished, RefuseMessage
  <2> QED BY <2>1, RecordInboundType
        DEF TypeOK, TakeKeyExchange, TakeFinished, RefuseMessage, KeepPhase, serverVars, Phases
<1>5. CASE SendVerify \/ SendServerFlight
  <2>1. Verify(expected) \in Datagrams /\ Datagram("server_flight") \in Datagrams
    BY DEF TypeOK, Verify, Datagram, Datagrams, Kinds
  <2> QED BY <1>5, <2>1, RecordOutboundType DEF SendVerify, SendServerFlight
<1>6. CASE \E on \in BOOLEAN : SetEnforced(on)
  BY <1>6 DEF TypeOK, SetEnforced, serverVars, byteVars, clientVars
<1>7. CASE \E s \in Secrets : RotateSecret(s)
  BY <1>7 DEF TypeOK, RotateSecret, serverVars, byteVars, clientVars
<1>8. CASE \E m \in net : Lose(m)
  BY <1>8 DEF TypeOK, Lose, serverVars, byteVars, clientVars, policyVars
<1> QED BY <1>1, <1>2, <1>3, <1>4, <1>5, <1>6, <1>7, <1>8 DEF Next, Server

\* The variables keep their types, for any sizes of datagrams and counters
\* (the fields of a Connection of DTLS 1.2).
THEOREM TypeCorrect == Spec => []TypeOK
BY InitType, StepType, PTL DEF Spec

(***************************************************************************)
(* The cookie.                                                             *)
(***************************************************************************)
LEMMA InitCookies == Init => IInv
BY DEF Init, IInv, CookiesWereSent, ChallengeOpen, CookieProvesReach, Validated

\* A datagram under way was under way, or has just been sent.
LEMMA SendAdds ==
  ASSUME NEW m, Send(m)
  PROVE  net' \subseteq net \cup {m}
BY DEF Send, After

\* What the server receives changes nothing of the client, and sends nothing.
LEMMA InboundKeepsCookies ==
  ASSUME NEW m \in net, RecordInbound(m), CookiesWereSent
  PROVE  CookiesWereSent'
BY DEF RecordInbound, Receive, CookiesWereSent, clientVars

LEMMA StepCookies == TypeOK /\ IInv /\ [Next]_vars => IInv'
<1> SUFFICES ASSUME TypeOK, IInv, [Next]_vars PROVE IInv'
  OBVIOUS
<1> DEFINE ServerPart == ChallengeOpen /\ CookieProvesReach
<1>1. ASSUME UNCHANGED serverVars, reached => reached'
      PROVE  ServerPart'
  BY <1>1 DEF IInv, ChallengeOpen, CookieProvesReach, Validated, serverVars
<1>2. CASE UNCHANGED vars
  BY <1>2 DEF IInv, CookiesWereSent, ChallengeOpen, CookieProvesReach, Validated,
              vars, serverVars, clientVars
<1>3. CASE Client
  <2>1. UNCHANGED serverVars /\ (reached => reached')
    BY <1>3 DEF Client, SendHello, SendKeyExchange, SendFinished, ReceiveVerify,
                ReceiveServerFlight, StartOver, clientVars
  <2>2. CookiesWereSent'
    <3>1. CASE SendHello
      <4>1. net' \subseteq net \cup {Hello(random, cookie)} /\ UNCHANGED <<cookie, reached>>
        BY <3>1, SendAdds DEF SendHello, clientVars
      <4>2. Hello(random, cookie).cookie = cookie
        BY DEF Hello
      <4> QED BY <4>1, <4>2 DEF IInv, CookiesWereSent
    <3>2. CASE SendKeyExchange \/ SendFinished
      BY <3>2, SendAdds
         DEF IInv, CookiesWereSent, SendKeyExchange, SendFinished, Datagram, clientVars
    <3>3. CASE \E m \in net : ReceiveVerify(m) \/ ReceiveServerFlight(m)
      BY <3>3 DEF IInv, CookiesWereSent, ReceiveVerify, ReceiveServerFlight, Receive
    <3>4. CASE \E r \in Randoms, c \in {cookie, None} : StartOver(r, c)
      BY <3>4 DEF IInv, CookiesWereSent, StartOver
    <3> QED BY <1>3, <3>1, <3>2, <3>3, <3>4 DEF Client
  <2> QED BY <1>1, <2>1, <2>2 DEF IInv
<1>4. CASE ReceiveHello
  <2> PICK m \in net : Challenge(m) \/ VerifyCookie(m) \/ RefuseHello(m)
    BY <1>4 DEF ReceiveHello
  <2>1. RecordInbound(m) /\ m.kind = "hello" /\ m.random \in Randoms
    BY DEF TypeOK, Datagrams, Challenge, VerifyCookie, RefuseHello
  <2>2. reached' = reached /\ CookiesWereSent'
    BY <2>1, InboundKeepsCookies DEF IInv, RecordInbound, clientVars
  <2>3. CASE Challenge(m)
    <3>1. phase = "AwaitingClientHello" /\ accepted = 0
      BY <2>3 DEF Challenge, MayChallenge, IInv, ChallengeOpen, Validated
    <3>2. ~Validated' /\ accepted' = 0
      BY <2>3, <3>1 DEF Challenge, Validated
    <3>3. challenged' \in Randoms /\ expected' = CookieOf(secret, challenged') /\ secret \in Secrets
      BY <2>1, <2>3 DEF Challenge, TypeOK
    <3> QED BY <2>2, <3>2, <3>3 DEF IInv, ChallengeOpen, CookieProvesReach
  <2>4. CASE VerifyCookie(m)
    <3>1. /\ m.cookie # None /\ m.cookie = expected
          /\ m.cookie = CookieOf(secret, m.random)
          /\ phase = "AwaitingClientHelloWithCookie"
      BY <2>4 DEF VerifyCookie, MayVerify, CookieMatches
    <3>2. reached
      BY <2>1, <3>1 DEF IInv, CookiesWereSent
    <3>3. m.random = challenged
      <4>1. PICK s \in Secrets : expected = CookieOf(s, challenged)
        BY <3>1 DEF IInv, ChallengeOpen
      <4>2. CookieOf(s, challenged).random = challenged
        BY DEF CookieOf
      <4>3. CookieOf(secret, m.random).random = m.random
        BY DEF CookieOf
      <4> QED BY <3>1, <4>1, <4>2, <4>3
    <3>4. m.random # 0
      BY <2>1, Dtls12Assumption DEF Dtls12Assumption
    <3>5. Validated' /\ phase' # "AwaitingClientHelloWithCookie"
      BY <2>4 DEF VerifyCookie, Validated
    <3>6. accepted' = challenged' /\ accepted' # 0
      BY <2>4, <3>3, <3>4 DEF VerifyCookie
    <3> QED BY <2>2, <3>2, <3>5, <3>6 DEF IInv, ChallengeOpen, CookieProvesReach
  <2>5. CASE RefuseHello(m)
    BY <1>1, <2>2, <2>5 DEF RefuseHello, KeepPhase, IInv
  <2> QED BY <2>3, <2>4, <2>5
<1>5. CASE ReceiveKeyExchange \/ ReceiveFinished
  <2> PICK m \in net : TakeKeyExchange(m) \/ TakeFinished(m) \/ RefuseMessage(m)
    BY <1>5 DEF ReceiveKeyExchange, ReceiveFinished
  <2>1. reached' = reached /\ CookiesWereSent'
    BY InboundKeepsCookies
       DEF IInv, RecordInbound, clientVars, TakeKeyExchange, TakeFinished, RefuseMessage
  <2>2. CASE TakeKeyExchange(m) \/ TakeFinished(m)
    <3>1. /\ Validated /\ Validated' /\ phase' # "AwaitingClientHelloWithCookie"
          /\ UNCHANGED <<accepted, challenged>>
      BY <2>2 DEF TakeKeyExchange, TakeFinished, Validated
    <3> QED BY <2>1, <3>1 DEF IInv, ChallengeOpen, CookieProvesReach
  <2>3. CASE RefuseMessage(m)
    BY <1>1, <2>1, <2>3 DEF RefuseMessage, KeepPhase, IInv
  <2> QED BY <2>2, <2>3
<1>6. CASE SendVerify \/ SendServerFlight
  <2> PICK m : RecordOutbound(m) /\ m.kind # "hello"
    BY <1>6 DEF SendVerify, SendServerFlight, Verify, Datagram
  <2>1. UNCHANGED serverVars /\ UNCHANGED clientVars /\ net' \subseteq net \cup {m}
    BY SendAdds DEF RecordOutbound
  <2>2. CookiesWereSent'
    BY <2>1 DEF IInv, CookiesWereSent, clientVars
  <2> QED BY <1>1, <2>1, <2>2 DEF IInv, clientVars
<1>7. CASE \/ \E on \in BOOLEAN : SetEnforced(on)
           \/ \E s \in Secrets : RotateSecret(s)
           \/ \E m \in net : Lose(m)
  <2>1. UNCHANGED serverVars /\ UNCHANGED clientVars /\ net' \subseteq net
    BY <1>7 DEF SetEnforced, RotateSecret, Lose
  <2>2. CookiesWereSent'
    BY <2>1 DEF IInv, CookiesWereSent, clientVars
  <2> QED BY <1>1, <2>1, <2>2 DEF IInv, clientVars
<1> QED BY <1>2, <1>3, <1>4, <1>5, <1>6, <1>7 DEF Next, Server

\* The server goes on only with a client that its HelloVerifyRequest has
\* reached, and with the ClientHello that was challenged
\* (process_dtls12_client_hello_with_cookie).
THEOREM CookiesProveReach == Spec => []CookieProvesReach
<1>1. IInv => CookieProvesReach
  BY DEF IInv
<1> QED BY <1>1, InitType, StepType, InitCookies, StepCookies, PTL DEF Spec

(***************************************************************************)
(* The byte budget.                                                        *)
(***************************************************************************)
LEMMA ProductMonotone ==
  ASSUME NEW f \in Nat, NEW a \in Nat, NEW b \in Nat, a <= b
  PROVE  f * a \in Nat /\ f * b \in Nat /\ f * a <= f * b
<1> DEFINE d == b - a
<1>1. d \in Nat /\ b = a + d
  OBVIOUS
<1>2. f * b = f * a + f * d /\ f * d \in Nat /\ f * a \in Nat
  BY <1>1
<1> QED BY <1>2

\* Receiving never takes from the budget, also where the counters saturate.
LEMMA BudgetGrows ==
  ASSUME NEW a \in 0 .. MaxBytes, NEW n \in Nat
  PROVE  Saturating(Factor * a) <= Saturating(Factor * Saturating(a + n))
<1>1. a \in Nat /\ Saturating(a + n) \in Nat /\ a <= Saturating(a + n)
  BY Dtls12Assumption DEF Dtls12Assumption, Saturating
<1> DEFINE b == Saturating(a + n)
<1>2. Factor * a \in Nat /\ Factor * b \in Nat /\ Factor * a <= Factor * b
  BY <1>1, ProductMonotone, Dtls12Assumption DEF Dtls12Assumption
<1> HIDE DEF b
<1>3. ASSUME NEW x \in Nat, NEW y \in Nat, x <= y
      PROVE  Saturating(x) <= Saturating(y)
  BY <1>3, Dtls12Assumption DEF Dtls12Assumption, Saturating
<1>4. Saturating(Factor * a) <= Saturating(Factor * b)
  BY <1>2, <1>3
<1> QED BY <1>4 DEF b

\* The switch off is remembered.
EnforcedUnlessLifted == ~lifted => enforced

\* The budget, as the code has it: by the phase.
BudgetOfPhase == ~lifted /\ ~Validated => outbound <= Saturating(Factor * inbound)

BudgetInv == EnforcedUnlessLifted /\ BudgetOfPhase

LEMMA InitBudget == Init => BudgetInv
<1> SUFFICES ASSUME Init PROVE BudgetInv
  OBVIOUS
<1>1. Factor * 0 = 0 /\ Saturating(0) = 0
  BY Dtls12Assumption DEF Dtls12Assumption, Saturating
<1> QED BY <1>1 DEF Init, BudgetInv, EnforcedUnlessLifted, BudgetOfPhase

LEMMA StepBudget == TypeOK /\ BudgetInv /\ [Next]_vars => BudgetInv'
<1> SUFFICES ASSUME TypeOK, BudgetInv, [Next]_vars PROVE BudgetInv'
  OBVIOUS
<1>1. ASSUME UNCHANGED <<inbound, outbound, enforced, lifted>>, Validated => Validated'
      PROVE  BudgetInv'
  BY <1>1 DEF BudgetInv, EnforcedUnlessLifted, BudgetOfPhase
<1>2. CASE \/ UNCHANGED vars \/ Client \/ \E m \in net : Lose(m)
           \/ \E s \in Secrets : RotateSecret(s)
  <2>1. UNCHANGED <<inbound, outbound, enforced, lifted, phase>>
    BY <1>2 DEF vars, Client, Lose, RotateSecret, SendHello, SendKeyExchange, SendFinished,
                ReceiveVerify, ReceiveServerFlight, StartOver, serverVars, byteVars, policyVars
  <2> QED BY <1>1, <2>1 DEF Validated
<1>3. ASSUME NEW m \in net, RecordInbound(m), Validated => Validated'
      PROVE  BudgetInv'
  <2>1. m \in Datagrams /\ Size[m.kind] \in Nat /\ inbound \in 0 .. MaxBytes /\ outbound \in Nat
    BY SizeType DEF TypeOK
  <2>2. inbound' = Saturating(inbound + Size[m.kind]) /\ UNCHANGED <<outbound, enforced, lifted>>
    BY <1>3 DEF RecordInbound, policyVars
  <2>3. Saturating(Factor * inbound) <= Saturating(Factor * inbound')
    BY <2>1, <2>2, BudgetGrows
  <2>4. Factor * inbound \in Nat /\ Factor * inbound' \in Nat
    BY <2>1, <2>2, ProductMonotone, Dtls12Assumption DEF Dtls12Assumption, Saturating
  <2>5. Saturating(Factor * inbound) \in Nat /\ Saturating(Factor * inbound') \in Nat
    BY <2>4, SaturatingType, Dtls12Assumption DEF Dtls12Assumption
  <2> QED BY <1>3, <2>1, <2>2, <2>3, <2>5 DEF BudgetInv, EnforcedUnlessLifted, BudgetOfPhase
<1>4. CASE ReceiveHello \/ ReceiveKeyExchange \/ ReceiveFinished
  <2>1. PICK m \in net : RecordInbound(m) /\ (Validated => Validated')
    BY <1>4 DEF ReceiveHello, ReceiveKeyExchange, ReceiveFinished, Challenge, VerifyCookie,
                RefuseHello, TakeKeyExchange, TakeFinished, RefuseMessage, KeepPhase,
                MayChallenge, MayVerify, Validated, serverVars
  <2> QED BY <1>3, <2>1
<1>5. CASE SendVerify \/ SendServerFlight
  <2> PICK m : RecordOutbound(m)
    BY <1>5 DEF SendVerify, SendServerFlight
  <2>1. /\ UNCHANGED <<inbound, enforced, lifted, phase>>
        /\ outbound' = Saturating(outbound + Size[m.kind])
        /\ CanSend(Size[m.kind])
    BY DEF RecordOutbound, serverVars, policyVars
  <2> QED BY <2>1 DEF BudgetInv, EnforcedUnlessLifted, BudgetOfPhase, CanSend, Validated
<1>6. CASE \E on \in BOOLEAN : SetEnforced(on)
  <2> PICK on \in BOOLEAN : SetEnforced(on)
    BY <1>6
  <2>1. UNCHANGED <<inbound, outbound, phase>>
    BY DEF SetEnforced, serverVars, byteVars
  <2>2. enforced' = on /\ (lifted' <=> (lifted \/ ~on))
    BY DEF SetEnforced
  <2>3. EnforcedUnlessLifted'
    BY <2>2 DEF EnforcedUnlessLifted
  <2>4. ~lifted' => ~lifted
    BY <2>2
  <2>5. BudgetOfPhase'
    BY <2>1, <2>4 DEF BudgetInv, BudgetOfPhase, Validated
  <2> QED BY <2>3, <2>5 DEF BudgetInv
<1> QED BY <1>2, <1>4, <1>5, <1>6 DEF Next, Server

\* Until a cookie has come back the server has sent at most Factor times what
\* it has received, unless the embedder has switched the budget off
\* (record_dtls12_outbound_datagram).
THEOREM BudgetHolds == Spec => []WithinBudget
<1>1. IInv /\ BudgetInv => WithinBudget
  BY DEF IInv, CookieProvesReach, BudgetInv, BudgetOfPhase, WithinBudget
<1> QED BY <1>1, InitType, StepType, InitCookies, StepCookies, InitBudget, StepBudget,
           PTL DEF Spec
=============================================================================
