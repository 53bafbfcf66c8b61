---------------------- MODULE ChainValidation_proofs ------------------------
(***************************************************************************)
(* Theorems about ChainValidation, for every request and every bound on    *)
(* the length of a chain.                                                  *)
(***************************************************************************)
EXTENDS ChainValidation, WellFoundedInduction, TLAPS

(***************************************************************************)
(* A set of numbers that has 0 and with every number the next one has them *)
(* all.                                                                    *)
(***************************************************************************)
LEMMA AllNumbers ==
  ASSUME NEW S \in SUBSET Nat, 0 \in S, \A n \in S : n + 1 \in S
  PROVE  S = Nat
<1> SUFFICES ASSUME Nat \ S # {} PROVE FALSE
  OBVIOUS
<1>1. PICK x \in Nat \ S : \A y \in Nat \ S : <<y, x>> \notin OpToRel(<, Nat)
  BY NatLessThanWellFounded, WFMin
<1>2. x # 0 /\ x - 1 \in Nat
  OBVIOUS
<1>3. x - 1 \notin S
  BY <1>2
<1>4. <<x - 1, x>> \in OpToRel(<, Nat)
  BY <1>2 DEF OpToRel
<1> QED  BY <1>1, <1>2, <1>3, <1>4

\* The smallest of some numbers is one of them.
LEMMA MinIs ==
  ASSUME NEW S \in SUBSET Nat, S # {}
  PROVE  Min(S) \in S /\ \A x \in S : Min(S) <= x
<1>1. PICK x \in S : \A y \in S : <<y, x>> \notin OpToRel(<, Nat)
  BY NatLessThanWellFounded, WFMin
<1>2. \A y \in S : x <= y
  <2> SUFFICES ASSUME NEW y \in S, ~ (x <= y) PROVE FALSE
    OBVIOUS
  <2>1. x \in Nat /\ y \in Nat /\ y < x
    OBVIOUS
  <2>2. <<y, x>> \in OpToRel(<, Nat)
    BY <2>1 DEF OpToRel
  <2> QED  BY <1>1, <2>2
<1> QED  BY <1>2 DEF Min

\* The largest of some numbers up to a bound is one of them.
LEMMA MaxIs ==
  ASSUME NEW n \in Nat, NEW S \in SUBSET (0 .. n), S # {}
  PROVE  Max(S) \in S
<1> DEFINE T == {n - x : x \in S}
<1>0. \A x \in 0 .. n : x \in Int /\ n - x \in Nat
  OBVIOUS
<1>1. T \in SUBSET Nat /\ T # {}
  BY <1>0
<1>2. Min(T) \in T /\ \A y \in T : Min(T) <= y
  BY <1>1, MinIs
<1>3. PICK x \in S : Min(T) = n - x
  BY <1>2
<1>4. \A y \in S : x >= y
  <2> SUFFICES ASSUME NEW y \in S PROVE x >= y
    OBVIOUS
  <2>1. n - y \in T
    OBVIOUS
  <2>2. n - x <= n - y /\ x \in Int /\ y \in Int
    <3> HIDE DEF T
    <3> QED  BY <1>0, <1>2, <1>3, <2>1
  <2> QED  BY <2>2
<1> QED  BY <1>4 DEF Max

-----------------------------------------------------------------------------
(***************************************************************************)
(* The checks: no error means that all of them are good.                   *)
(***************************************************************************)
LEMMA NoneFails ==
  ASSUME NEW n \in Nat, NEW checks, DOMAIN checks = 1 .. n,
         \A i \in 1 .. n : checks[i].bad => checks[i].error # "none"
  PROVE  FirstError(checks) = "none" <=> \A i \in 1 .. n : ~ checks[i].bad
<1> DEFINE failing == {i \in DOMAIN checks : checks[i].bad}
<1>1. CASE failing = {}
  BY <1>1 DEF FirstError
<1>2. CASE failing # {}
  <2>1. Min(failing) \in failing
    BY <1>2, MinIs
  <2>2. FirstError(checks) = checks[Min(failing)].error
    BY <1>2 DEF FirstError
  <2> QED  BY <1>2, <2>1, <2>2
<1> QED  BY <1>1, <1>2

LEMMA TimeIs ==
  ASSUME NEW cert \in Certificate, NEW now \in Time, WellFormedTime(now)
  PROVE  TimeError(cert, CanonicalTime(now)) = "none" <=> InTime(cert, now)
<1> DEFINE a == now
           early == CanonicalTime(now) < CanonicalTime(cert.notBefore)
           late == CanonicalTime(now) > CanonicalTime(cert.notAfter)
           checks == <<Check(early, "CertificateNotYetValid"),
                       Check(late, "CertificateExpired")>>
<1>1. FirstError(checks) = "none" <=> ~ early /\ ~ late
  <2>1. DOMAIN checks = 1 .. 2
    OBVIOUS
  <2>2. /\ checks[1].bad <=> early
        /\ checks[2].bad <=> late
        /\ checks[1].error # "none" /\ checks[2].error # "none"
    BY DEF Check
  <2> HIDE DEF checks, early, late
  <2>3. \A i \in 1 .. 2 : i = 1 \/ i = 2
    OBVIOUS
  <2>4. FirstError(checks) = "none" <=> \A i \in 1 .. 2 : ~ checks[i].bad
    BY <2>1, <2>2, <2>3, NoneFails
  <2> QED  BY <2>2, <2>3, <2>4
<1>2. \A t \in Time : WellFormedTime(t) => CanonicalTime(t) \in Int
  BY DEF Time, WellFormedTime, CanonicalTime
<1>3. cert.notBefore \in Time /\ cert.notAfter \in Time
  BY DEF Certificate
<1> QED  BY <1>1, <1>2, <1>3 DEF TimeError, InTime

LEMMA MeetsIs ==
  ASSUME NEW cert \in Certificate, NEW options \in ValidationOptions, NEW isLeaf \in BOOLEAN
  PROVE  PolicyAndRevocationError(cert, options, isLeaf) = "none"
           <=> Meets(cert, options) /\ (isLeaf => ToSet(options.eku) \subseteq cert.eku)
<1> DEFINE lacks == \E p \in ToSet(options.policy) : p \notin cert.policies
           noCrl == options.crl /\ ~ cert.crl /\ ~ SelfIssued(cert)
           noLocator == options.locator /\ ~ cert.crl /\ ~ cert.aia /\ ~ SelfIssued(cert)
           noUsage == isLeaf /\ \E u \in ToSet(options.eku) : u \notin cert.eku
           checks == <<Check(lacks, "MissingRequiredPolicy"),
                       Check(noCrl, "MissingRevocationInfo"),
                       Check(noLocator, "MissingRevocationLocator"),
                       Check(noUsage, "MissingRequiredExtendedKeyUsage")>>
<1>1. PolicyAndRevocationError(cert, options, isLeaf) = FirstError(checks)
  BY DEF PolicyAndRevocationError
<1>2. FirstError(checks) = "none" <=> ~ lacks /\ ~ noCrl /\ ~ noLocator /\ ~ noUsage
  <2>1. DOMAIN checks = 1 .. 4
    OBVIOUS
  <2>2. /\ checks[1].bad <=> lacks
        /\ checks[2].bad <=> noCrl
        /\ checks[3].bad <=> noLocator
        /\ checks[4].bad <=> noUsage
        /\ checks[1].error # "none" /\ checks[2].error # "none"
        /\ checks[3].error # "none" /\ checks[4].error # "none"
    BY DEF Check
  <2> HIDE DEF checks, lacks, noCrl, noLocator, noUsage
  <2>3. \A i \in 1 .. 4 : i = 1 \/ i = 2 \/ i = 3 \/ i = 4
    OBVIOUS
  <2>4. FirstError(checks) = "none" <=> \A i \in 1 .. 4 : ~ checks[i].bad
    BY <2>1, <2>2, <2>3, NoneFails
  <2> QED  BY <2>2, <2>3, <2>4
<1> QED  BY <1>1, <1>2 DEF Meets

LEMMA IssuerIs ==
  ASSUME NEW issuer \in Certificate, NEW hops \in Nat
  PROVE  IssuerError(issuer, hops) = "none"
           <=> /\ issuer.ca /\ issuer.keyUsage # Some("noCertSign")
               /\ issuer.pathLen # None => hops <= issuer.pathLen[1]
<1> DEFINE noCa == ~ issuer.ca
           noSign == issuer.keyUsage = Some("noCertSign")
           long == issuer.pathLen # None /\ hops > issuer.pathLen[1]
           checks == <<Check(noCa, "IssuerNotCa"),
                       Check(noSign, "IssuerMissingKeyCertSign"),
                       Check(long, "PathLenExceeded")>>
<1>1. IssuerError(issuer, hops) = FirstError(checks)
  BY DEF IssuerError
<1>2. FirstError(checks) = "none" <=> ~ noCa /\ ~ noSign /\ ~ long
  <2>1. DOMAIN checks = 1 .. 3
    OBVIOUS
  <2>2. /\ checks[1].bad <=> noCa
        /\ checks[2].bad <=> noSign
        /\ checks[3].bad <=> long
        /\ checks[1].error # "none" /\ checks[2].error # "none" /\ checks[3].error # "none"
    BY DEF Check
  <2> HIDE DEF checks, noCa, noSign, long
  <2>3. \A i \in 1 .. 3 : i = 1 \/ i = 2 \/ i = 3
    OBVIOUS
  <2>4. FirstError(checks) = "none" <=> \A i \in 1 .. 3 : ~ checks[i].bad
    BY <2>1, <2>2, <2>3, NoneFails
  <2> QED  BY <2>2, <2>3, <2>4
<1>3. issuer.pathLen # None => issuer.pathLen[1] \in Nat
  BY DEF Certificate, Optional, None
<1>4. long <=> ~ (issuer.pathLen # None => hops <= issuer.pathLen[1])
  BY <1>3
<1> QED  BY <1>1, <1>2, <1>4

LEMMA NamesAre ==
  ASSUME NEW issuer, NEW subject
  PROVE  NameError(issuer, subject) = "none"
           <=> \A name \in subject.dns :
                 /\ \A c \in issuer.excluded : ~ DnsNameMatchesConstraint(name, c)
                 /\ issuer.permitted # {} =>
                      \E c \in issuer.permitted : DnsNameMatchesConstraint(name, c)
<1> DEFINE Within(name, constraints) ==
             \E c \in constraints : DnsNameMatchesConstraint(name, c)
           outside == \E name \in subject.dns :
                        \/ Within(name, issuer.excluded)
                        \/ issuer.permitted # {} /\ ~ Within(name, issuer.permitted)
           checks == <<Check(outside, "NameConstraintsViolation")>>
<1>1. NameError(issuer, subject) = FirstError(checks)
  BY DEF NameError
<1>2. FirstError(checks) = "none" <=> ~ outside
  <2>1. DOMAIN checks = 1 .. 1
    OBVIOUS
  <2>2. (checks[1].bad <=> outside) /\ checks[1].error # "none"
    BY DEF Check
  <2> HIDE DEF checks, outside
  <2>3. \A i \in 1 .. 1 : i = 1
    OBVIOUS
  <2>4. FirstError(checks) = "none" <=> \A i \in 1 .. 1 : ~ checks[i].bad
    BY <2>1, <2>2, <2>3, NoneFails
  <2> QED  BY <2>2, <2>3, <2>4
<1> QED  BY <1>1, <1>2

LEMMA SignedIs ==
  ASSUME NEW cert, NEW issuer
  PROVE  SignatureError(cert, issuer) = "none" <=> Signed(issuer, cert)
<1> DEFINE a == cert.tbsAlgorithm # cert.algorithm
           b == issuer.keyType = "rsa" /\ ~ issuer.keyDecodes
           c == issuer.keyType \notin DOMAIN AlgorithmsOf
           d == issuer.keyType \in DOMAIN AlgorithmsOf
                  /\ cert.algorithm \notin AlgorithmsOf[issuer.keyType]
           e == ~ issuer.keyDecodes
           f == cert.signedWith # issuer.key
           checks == <<Check(a, "SignatureAlgorithmMismatch"),
                       Check(b, "PublicKeyDecodeFailed"),
                       Check(c, "UnsupportedPublicKeyAlgorithm"),
                       Check(d, "UnsupportedSignatureAlgorithm"),
                       Check(e, "PublicKeyDecodeFailed"),
                       Check(f, "SignatureVerificationFailed")>>
<1>1. SignatureError(cert, issuer) = FirstError(checks)
  BY DEF SignatureError
<1>2. FirstError(checks) = "none" <=> ~ a /\ ~ b /\ ~ c /\ ~ d /\ ~ e /\ ~ f
  <2>1. DOMAIN checks = 1 .. 6
    OBVIOUS
  <2>2. /\ checks[1].bad <=> a
        /\ checks[2].bad <=> b
        /\ checks[3].bad <=> c
        /\ checks[4].bad <=> d
        /\ checks[5].bad <=> e
        /\ checks[6].bad <=> f
        /\ checks[1].error # "none" /\ checks[2].error # "none" /\ checks[3].error # "none"
        /\ checks[4].error # "none" /\ checks[5].error # "none" /\ checks[6].error # "none"
    BY DEF Check
  <2> HIDE DEF checks, a, b, c, d, e, f
  <2>3. \A i \in 1 .. 6 : i = 1 \/ i = 2 \/ i = 3 \/ i = 4 \/ i = 5 \/ i = 6
    OBVIOUS
  <2>4. FirstError(checks) = "none" <=> \A i \in 1 .. 6 : ~ checks[i].bad
    BY <2>1, <2>2, <2>3, NoneFails
  <2> QED  BY <2>2, <2>3, <2>4
<1> QED  BY <1>1, <1>2 DEF Signed

LEMMA LinkIs ==
  ASSUME NEW current, NEW issuer, NEW input, NEW hops, NEW next
  PROVE  LinkError(current, issuer, input, hops, next) = "none"
           <=> /\ TimeError(issuer, CanonicalTime(input.now)) = "none"
               /\ PolicyAndRevocationError(issuer, input.options, FALSE) = "none"
               /\ ~ LacksPolicy(next)
               /\ ~ MappingInhibited(current, next) /\ ~ MappingInhibited(issuer, next)
               /\ IssuerError(issuer, hops) = "none"
               /\ NameError(issuer, current) = "none"
               /\ input.signatures => SignatureError(current, issuer) = "none"
<1> DEFINE time == TimeError(issuer, CanonicalTime(input.now))
           policy == PolicyAndRevocationError(issuer, input.options, FALSE)
           constraints == IssuerError(issuer, hops)
           names == NameError(issuer, current)
           signature == SignatureError(current, issuer)
           mapped == MappingInhibited(current, next) \/ MappingInhibited(issuer, next)
           lacks == LacksPolicy(next)
           unsigned == input.signatures /\ signature # "none"
           checks == <<Check(time # "none", time), Check(policy # "none", policy),
                       Check(lacks, "ExplicitPolicyRequired"),
                       Check(mapped, "PolicyMappingInhibited"),
                       Check(constraints # "none", constraints),
                       Check(names # "none", names), Check(unsigned, signature)>>
<1>1. LinkError(current, issuer, input, hops, next) = FirstError(checks)
  BY DEF LinkError
<1>2. FirstError(checks) = "none"
        <=> /\ time = "none" /\ policy = "none" /\ ~ lacks /\ ~ mapped
            /\ constraints = "none" /\ names = "none" /\ ~ unsigned
  <2>1. DOMAIN checks = 1 .. 7
    OBVIOUS
  <2> HIDE DEF lacks, mapped, time, policy, constraints, names
  <2>2. /\ checks[1].bad <=> time # "none"
        /\ checks[2].bad <=> policy # "none"
        /\ checks[3].bad <=> lacks
        /\ checks[4].bad <=> mapped
        /\ checks[5].bad <=> constraints # "none"
        /\ checks[6].bad <=> names # "none"
        /\ checks[7].bad <=> unsigned
    BY DEF Check
  <2>3. /\ checks[1].error = time /\ checks[2].error = policy
        /\ checks[3].error # "none" /\ checks[4].error # "none"
        /\ checks[5].error = constraints /\ checks[6].error = names
        /\ checks[7].error = signature
    BY DEF Check
  <2>4. unsigned => signature # "none"
    OBVIOUS
  <2> HIDE DEF checks, unsigned, signature
  <2>5. \A i \in 1 .. 7 : i = 1 \/ i = 2 \/ i = 3 \/ i = 4 \/ i = 5 \/ i = 6 \/ i = 7
    OBVIOUS
  <2>6. \A i \in 1 .. 7 : checks[i].bad => checks[i].error # "none"
    BY <2>2, <2>3, <2>4, <2>5
  <2>7. FirstError(checks) = "none" <=> \A i \in 1 .. 7 : ~ checks[i].bad
    BY <2>1, <2>6, NoneFails
  <2> QED  BY <2>2, <2>5, <2>7
<1> QED  BY <1>1, <1>2

LEMMA StepIs ==
  ASSUME NEW current, NEW input, NEW hops \in Nat, NEW state, NEW reached
  PROVE  StepError(current, input, hops, state, reached) = "none"
           <=> /\ hops <= MaxHops
               /\ TimeError(current, CanonicalTime(input.now)) = "none"
               /\ PolicyAndRevocationError(current, input.options, hops = 0) = "none"
               /\ ~ LacksPolicy(reached)
               /\ ~ MappingInhibited(current, reached)
               /\ current.serial \notin state.serials
<1> DEFINE time == TimeError(current, CanonicalTime(input.now))
           policy == PolicyAndRevocationError(current, input.options, hops = 0)
           deep == hops > MaxHops
           lacks == LacksPolicy(reached)
           mapped == MappingInhibited(current, reached)
           loop == current.serial \in state.serials
           checks == <<Check(deep, "MaxChainDepthExceeded"),
                       Check(time # "none", time), Check(policy # "none", policy),
                       Check(lacks, "ExplicitPolicyRequired"),
                       Check(mapped, "PolicyMappingInhibited"),
                       Check(loop, "ChainLoopDetected")>>
<1>1. StepError(current, input, hops, state, reached) = FirstError(checks)
  BY DEF StepError
<1>2. FirstError(checks) = "none"
        <=> /\ ~ deep /\ time = "none" /\ policy = "none"
            /\ ~ lacks /\ ~ mapped /\ ~ loop
  <2>1. DOMAIN checks = 1 .. 6
    OBVIOUS
  <2> HIDE DEF deep, lacks, mapped, time, policy, loop
  <2>2. /\ checks[1].bad <=> deep
        /\ checks[2].bad <=> time # "none"
        /\ checks[3].bad <=> policy # "none"
        /\ checks[4].bad <=> lacks
        /\ checks[5].bad <=> mapped
        /\ checks[6].bad <=> loop
    BY DEF Check
  <2>3. /\ checks[2].error = time /\ checks[3].error = policy
        /\ checks[1].error # "none" /\ checks[4].error # "none"
        /\ checks[5].error # "none" /\ checks[6].error # "none"
    BY DEF Check
  <2> HIDE DEF checks
  <2>4. \A i \in 1 .. 6 : i = 1 \/ i = 2 \/ i = 3 \/ i = 4 \/ i = 5 \/ i = 6
    OBVIOUS
  <2>5. \A i \in 1 .. 6 : checks[i].bad => checks[i].error # "none"
    BY <2>2, <2>3, <2>4
  <2>6. FirstError(checks) = "none" <=> \A i \in 1 .. 6 : ~ checks[i].bad
    BY <2>1, <2>5, NoneFails
  <2> QED  BY <2>2, <2>4, <2>6
<1>3. deep <=> ~ (hops <= MaxHops)
  BY ChainAssumption
<1> QED  BY <1>1, <1>2, <1>3
-----------------------------------------------------------------------------
(***************************************************************************)
(* One step of the search.                                                 *)
(***************************************************************************)
LEMMA AnchorIs ==
  ASSUME NEW anchors \in Seq(Certificate), NEW name
  PROVE  \/ AnchorNamed(anchors, name) = None
         \/ \E i \in DOMAIN anchors :
              AnchorNamed(anchors, name) = Some(i) /\ anchors[i].subject = name
<1> DEFINE named == {i \in DOMAIN anchors : anchors[i].subject = name}
<1>1. CASE named = {}
  BY <1>1 DEF AnchorNamed
<1>2. CASE named # {}
  <2>1. Min(named) \in named
    <3>1. named \in SUBSET Nat
      <4>1. DOMAIN anchors = 1 .. Len(anchors) /\ Len(anchors) \in Nat
        OBVIOUS
      <4> QED  BY <4>1
    <3> HIDE DEF named
    <3> QED  BY <1>2, <3>1, MinIs
  <2>2. AnchorNamed(anchors, name) = Some(Min(named))
    BY <1>2 DEF AnchorNamed
  <2> QED  BY <2>1, <2>2
<1> QED  BY <1>1, <1>2

\* The first candidate that leads to an anchor, if there is one.
LEMMA FirstIs ==
  ASSUME NEW n \in Nat, NEW I \in SUBSET (1 .. n), NEW tried, DOMAIN tried = I
  PROVE  /\ FirstAccepted(tried).ok =>
              \E i \in I : tried[i].ok /\ FirstAccepted(tried) = tried[i]
         /\ (\E i \in I : tried[i].ok) => FirstAccepted(tried).ok
<1> DEFINE good == {i \in DOMAIN tried : tried[i].ok}
<1>1. CASE I = {}
  <2>1. FirstAccepted(tried) = Failed("IssuerNotFound")
    BY <1>1 DEF FirstAccepted
  <2> QED  BY <1>1, <2>1 DEF Failed
<1>2. CASE I # {} /\ good # {}
  <2>1. Min(good) \in good
    BY <1>2, MinIs
  <2>2. FirstAccepted(tried) = tried[Min(good)]
    BY <1>2 DEF FirstAccepted
  <2> QED  BY <2>1, <2>2
<1>3. CASE I # {} /\ good = {}
  <2>1. Max(I) \in I
    <3>1. I \in SUBSET (0 .. n)
      OBVIOUS
    <3> QED  BY <1>3, <3>1, MaxIs
  <2>2. FirstAccepted(tried) = tried[Max(I)]
    BY <1>3 DEF FirstAccepted
  <2> QED  BY <1>3, <2>1, <2>2
<1> QED  BY <1>1, <1>2, <1>3

LEMMA StepCases ==
  ASSUME NEW current, NEW input \in ChainInput, NEW hops \in Nat, NEW state, NEW above
  PROVE  LET reached == Reached(state, current)
             result == ChainStep(current, input, hops, state, above)
             anchor == AnchorNamed(input.anchors, current.issuer)
             issuer == input.anchors[anchor[1]]
             With(i) == input.intermediates[i]
             Next(i) == WithIssuer(reached, With(i))
             Up(i) == above[<<With(i), Passed(Next(i), current)>>]
         IN
         /\ StepError(current, input, hops, state, reached) # "none" => ~ result.ok
         /\ StepError(current, input, hops, state, reached) = "none" =>
              /\ SelfIssued(current) =>
                   /\ result.ok <=> anchor # None
                   /\ result.ok => result = Report(hops + 1, anchor[1], reached)
              /\ ~ SelfIssued(current) /\ anchor # None =>
                   /\ result.ok <=> LinkError(current, issuer, input, hops,
                                              WithIssuer(reached, issuer)) = "none"
                   /\ result.ok => result = Report(hops + 2, anchor[1],
                                                   WithIssuer(reached, issuer))
              /\ ~ SelfIssued(current) /\ anchor = None =>
                   /\ result.ok =>
                        \E i \in Candidates(input, current) :
                          /\ LinkError(current, With(i), input, hops, Next(i)) = "none"
                          /\ Up(i).ok /\ result = Up(i)
                   /\ \A i \in Candidates(input, current) :
                        LinkError(current, With(i), input, hops, Next(i)) = "none" /\ Up(i).ok
                          => result.ok
<1> DEFINE reached == Reached(state, current)
           result == ChainStep(current, input, hops, state, above)
           root == AnchorNamed(input.anchors, current.subject)
           anchor == AnchorNamed(input.anchors, current.issuer)
           issuer == input.anchors[anchor[1]]
           With(i) == input.intermediates[i]
           Next(i) == WithIssuer(reached, With(i))
           Up(i) == above[<<With(i), Passed(Next(i), current)>>]
           error == StepError(current, input, hops, state, reached)
           LinkOf(i) == LinkError(current, With(i), input, hops, Next(i))
           tried == [i \in Candidates(input, current) |->
                       IF LinkOf(i) # "none" THEN Failed(LinkOf(i)) ELSE Up(i)]
<1>1. error # "none" => ~ result.ok
  BY DEF ChainStep, Failed
<1>2. SelfIssued(current) => root = anchor
  BY DEF SelfIssued
<1>3. ASSUME error = "none", SelfIssued(current)
      PROVE  /\ result.ok <=> anchor # None
             /\ result.ok => result = Report(hops + 1, anchor[1], reached)
  <2>1. result = IF anchor = None THEN Failed("UntrustedRoot")
                 ELSE Report(hops + 1, anchor[1], reached)
    BY <1>2, <1>3 DEF ChainStep
  <2>2. ~ Failed("UntrustedRoot").ok /\ Report(hops + 1, anchor[1], reached).ok
    BY DEF Failed, Report
  <2> QED  BY <2>1, <2>2
<1>4. ASSUME error = "none", ~ SelfIssued(current), anchor # None
      PROVE  /\ result.ok <=> LinkError(current, issuer, input, hops,
                                        WithIssuer(reached, issuer)) = "none"
             /\ result.ok => result = Report(hops + 2, anchor[1], WithIssuer(reached, issuer))
  <2> DEFINE link == LinkError(current, issuer, input, hops, WithIssuer(reached, issuer))
  <2>1. result = IF link # "none" THEN Failed(link)
                 ELSE Report(hops + 2, anchor[1], WithIssuer(reached, issuer))
    BY <1>4 DEF ChainStep
  <2>2. ~ Failed(link).ok /\ Report(hops + 2, anchor[1], WithIssuer(reached, issuer)).ok
    BY DEF Failed, Report
  <2> QED  BY <2>1, <2>2
<1>5. ASSUME error = "none", ~ SelfIssued(current), anchor = None
      PROVE  /\ result.ok => \E i \in Candidates(input, current) :
                               LinkOf(i) = "none" /\ Up(i).ok /\ result = Up(i)
             /\ \A i \in Candidates(input, current) :
                  LinkOf(i) = "none" /\ Up(i).ok => result.ok
  <2>1. result = FirstAccepted(tried)
    BY <1>5 DEF ChainStep
  <2>2. PICK n \in Nat : Candidates(input, current) \in SUBSET (1 .. n)
    <3>1. input.intermediates \in Seq(Certificate)
      BY DEF ChainInput
    <3>2. /\ Len(input.intermediates) \in Nat
          /\ DOMAIN input.intermediates = 1 .. Len(input.intermediates)
      BY <3>1
    <3>3. Candidates(input, current) \in SUBSET (1 .. Len(input.intermediates))
      BY <3>2 DEF Candidates
    <3> QED  BY <3>2, <3>3
  <2>3. \A i \in Candidates(input, current) :
          /\ tried[i] = IF LinkOf(i) # "none" THEN Failed(LinkOf(i)) ELSE Up(i)
          /\ ~ Failed(LinkOf(i)).ok
    BY DEF Failed
  <2>4. DOMAIN tried = Candidates(input, current)
    OBVIOUS
  <2> HIDE DEF tried, result, LinkOf, Up
  <2>5. /\ FirstAccepted(tried).ok =>
             \E i \in Candidates(input, current) : tried[i].ok /\ FirstAccepted(tried) = tried[i]
        /\ (\E i \in Candidates(input, current) : tried[i].ok) => FirstAccepted(tried).ok
    BY <2>2, <2>4, FirstIs
  <2> QED  BY <2>1, <2>3, <2>5
<1> HIDE DEF result
<1> QED  BY <1>1, <1>3, <1>4, <1>5 DEF result
(***************************************************************************)
(* The recursion of the search has a solution: a step above the bound      *)
(* fails whatever is above it, and each step is got from the one above.    *)
(***************************************************************************)
LEMMA StepsAre ==
  ASSUME NEW input
  PROVE  \A hops \in 0 .. MaxHops + 1 :
           ChainSteps(input)[hops] =
             [at \in Pool(input) \X PathState |->
                ChainStep(at[1], input, hops, at[2], ChainSteps(input)[hops + 1])]
<1> DEFINE M == MaxHops + 1
           StepOf(h, above) ==
             [at \in Pool(input) \X PathState |-> ChainStep(at[1], input, h, at[2], above)]
           IsSteps(f, m) == f = [h \in M - m .. M |-> StepOf(h, f[h + 1])]
           S == {m \in Nat : m <= M => \E f : IsSteps(f, m)}
<1>0. M \in Nat /\ MaxHops \in Nat
  BY ChainAssumption
<1>1. \A x, y : StepOf(M, x) = StepOf(M, y)
  <2>1. \A c, s, r : StepError(c, input, M, s, r) # "none"
    <3> SUFFICES ASSUME NEW c, NEW s, NEW r PROVE StepError(c, input, M, s, r) # "none"
      OBVIOUS
    <3>1. ~ (M <= MaxHops)
      BY <1>0
    <3> HIDE DEF M
    <3> QED  BY <1>0, <3>1, StepIs
  <2>2. \A c, s, x, y : ChainStep(c, input, M, s, x) = ChainStep(c, input, M, s, y)
    BY <2>1 DEF ChainStep
  <2> QED  BY <2>2
<1> HIDE DEF M, StepOf
<1>2. 0 \in S
  <2> DEFINE f == [h \in M - 0 .. M |-> StepOf(h, <<>>)]
  <2>1. M - 0 .. M = {M}
    BY <1>0
  <2>2. f = [h \in M - 0 .. M |-> StepOf(h, f[h + 1])]
    BY <1>1, <2>1
  <2>3. IsSteps(f, 0)
    BY <2>2
  <2> QED  BY <2>3
<1>3. ASSUME NEW m \in S PROVE m + 1 \in S
  <2>1. m \in Nat /\ m + 1 \in Nat
    OBVIOUS
  <2>2. CASE m + 1 <= M
    <3>1. PICK f : IsSteps(f, m)
      BY <1>0, <2>1, <2>2
    <3> DEFINE low == M - (m + 1)
               g == [h \in low .. M |-> IF h = low THEN StepOf(h, f[h + 1]) ELSE f[h]]
    <3>2. ASSUME NEW h \in low .. M PROVE g[h] = StepOf(h, g[h + 1])
      <4>1. CASE h = M
        <5>1. h # low /\ h \in M - m .. M
          BY <1>0, <2>1, <2>2, <4>1
        <5>2. g[h] = f[h] /\ f[h] = StepOf(h, f[h + 1])
          BY <3>1, <5>1
        <5> QED  BY <1>1, <4>1, <5>2
      <4>2. CASE h # M
        <5>1. h + 1 \in low .. M /\ h + 1 # low /\ g[h + 1] = f[h + 1]
          BY <1>0, <2>1, <2>2, <4>2
        <5>2. CASE h = low
          BY <5>1, <5>2
        <5>3. CASE h # low
          <6>1. h \in M - m .. M
            BY <1>0, <2>1, <2>2, <5>3
          <6>2. g[h] = f[h] /\ f[h] = StepOf(h, f[h + 1])
            BY <3>1, <5>3, <6>1
          <6> QED  BY <5>1, <6>2
        <5> QED  BY <5>2, <5>3
      <4> QED  BY <4>1, <4>2
    <3>3. g = [h \in low .. M |-> g[h]]
      OBVIOUS
    <3>4. IsSteps(g, m + 1)
      <4> HIDE DEF g
      <4> QED  BY <3>2, <3>3
    <3> QED  BY <2>1, <3>4
  <2>3. CASE ~ (m + 1 <= M)
    BY <2>1, <2>3
  <2> QED  BY <2>2, <2>3
<1>4. S = Nat
  <2> HIDE DEF S
  <2>1. S \in SUBSET Nat
    BY DEF S
  <2> QED  BY <1>2, <1>3, <2>1, AllNumbers
<1>5. M - M = 0
  BY <1>0
<1>6. \E f : IsSteps(f, M)
  <2> HIDE DEF IsSteps
  <2>1. M \in S /\ M <= M
    <3> HIDE DEF S
    <3> QED  BY <1>0, <1>4
  <2> QED  BY <2>1
<1> DEFINE step == CHOOSE f : f = [h \in 0 .. M |-> StepOf(h, f[h + 1])]
<1>7. step = [h \in 0 .. M |-> StepOf(h, step[h + 1])]
  BY <1>5, <1>6
<1>8. ChainSteps(input) = step
  BY DEF ChainSteps, StepOf, M
<1> HIDE DEF step
<1>9. \A h \in 0 .. M : step[h] = StepOf(h, step[h + 1])
  BY <1>7
<1> QED  BY <1>8, <1>9 DEF StepOf, M
-----------------------------------------------------------------------------
(***************************************************************************)
(* What a path carries stays what it is.                                   *)
(***************************************************************************)
LEMMA OptionalIs ==
  ASSUME NEW S, NEW x
  PROVE  x \in Optional(S) <=> x = None \/ \E y \in S : x = Some(y)
<1>1. None \in Optional(S)
  BY DEF None, Optional
<1>2. ASSUME NEW y \in S PROVE Some(y) \in Optional(S)
  BY DEF Some, Optional
<1>3. ASSUME x \in Optional(S), x # None PROVE \E y \in S : x = Some(y)
  <2>1. x \in Seq(S) /\ Len(x) = 1
    <3>1. x \in Seq(S) /\ Len(x) <= 1 /\ x # <<>>
      BY <1>3 DEF Optional, None
    <3>2. Len(x) \in Nat /\ Len(x) # 0
      BY <3>1
    <3> QED  BY <3>1, <3>2
  <2>2. x[1] \in S /\ x = <<x[1]>>
    BY <2>1
  <2> QED  BY <2>2 DEF Some
<1> QED  BY <1>1, <1>2, <1>3

LEMMA MinOf ==
  ASSUME NEW a \in Nat, NEW b \in Nat
  PROVE  Min({a, b}) = IF a <= b THEN a ELSE b
<1>1. Min({a, b}) \in {a, b} /\ \A x \in {a, b} : Min({a, b}) <= x
  <2>1. {a, b} \in SUBSET Nat /\ {a, b} # {}
    OBVIOUS
  <2> HIDE DEF Min
  <2> QED  BY <2>1, MinIs
<1>2. Min({a, b}) \in Nat /\ Min({a, b}) <= a /\ Min({a, b}) <= b
      /\ (Min({a, b}) = a \/ Min({a, b}) = b)
  BY <1>1
<1> DEFINE m == Min({a, b})
<1> HIDE DEF m
<1>3. m \in Nat /\ m <= a /\ m <= b /\ (m = a \/ m = b)
  BY <1>2 DEF m
<1>4. m = IF a <= b THEN a ELSE b
  BY <1>3
<1> QED  BY <1>4 DEF m

LEMMA MaxOf ==
  ASSUME NEW a \in Nat
  PROVE  Max({0, a - 1}) = IF a = 0 THEN 0 ELSE a - 1
<1> DEFINE top == IF a = 0 THEN 0 ELSE a - 1
<1>1. top \in {0, a - 1} /\ \A x \in {0, a - 1} : top >= x
  OBVIOUS
<1>2. \A y \in {0, a - 1} : (\A x \in {0, a - 1} : y >= x) => y = top
  <2> SUFFICES ASSUME NEW y \in {0, a - 1}, y >= 0 /\ y >= a - 1 PROVE y = top
    OBVIOUS
  <2> QED  OBVIOUS
<1>3. Max({0, a - 1}) = top
  <2> HIDE DEF top
  <2> QED  BY <1>1, <1>2 DEF Max
<1> QED  BY <1>3

LEMMA LimitedIs ==
  ASSUME NEW counter \in Optional(Nat), NEW said \in Optional(Nat)
  PROVE  /\ Limited(counter, said) \in Optional(Nat)
         /\ Limited(counter, None) = counter
         /\ \A a \in Nat : counter = Some(a) =>
              \E b \in Nat : Limited(counter, said) = Some(b) /\ b <= a
<1>1. ASSUME NEW a \in Nat, NEW b \in Nat, counter = Some(a), said = Some(b)
      PROVE  Limited(counter, said) = Some(IF b <= a THEN b ELSE a)
  <2>1. Limited(counter, said) = Some(Min({a, b}))
    BY <1>1 DEF Limited, None, Some
  <2>2. Min({a, b}) = IF b <= a THEN b ELSE a
    BY MinOf
  <2> QED  BY <2>1, <2>2
<1>2. counter = None => Limited(counter, said) = said
  BY DEF Limited
<1>3. said = None => Limited(counter, said) = counter
  BY DEF Limited
<1>4. counter = None \/ \E a \in Nat : counter = Some(a)
  BY OptionalIs
<1>5. said = None \/ \E a \in Nat : said = Some(a)
  BY OptionalIs
<1>6. \A a \in Nat : Some(a) \in Optional(Nat) /\ Some(a) # None
  BY OptionalIs DEF Some, None
<1>7. \A a, b \in Nat : Some(a) = Some(b) => a = b
  BY DEF Some
<1> QED  BY <1>1, <1>2, <1>3, <1>4, <1>5, <1>6, <1>7 DEF Limited

LEMMA DecrementedIs ==
  ASSUME NEW counter \in Optional(Nat), NEW cert
  PROVE  /\ Decremented(counter, cert) \in Optional(Nat)
         /\ counter = None => Decremented(counter, cert) = None
         /\ counter = Some(0) => Decremented(counter, cert) = Some(0)
         /\ \A a \in Nat : counter = Some(a) =>
              Decremented(counter, cert) =
                Some(IF SelfIssued(cert) \/ a = 0 THEN a ELSE a - 1)
<1>1. ASSUME NEW a \in Nat, counter = Some(a)
      PROVE  Decremented(counter, cert) = Some(IF SelfIssued(cert) \/ a = 0 THEN a ELSE a - 1)
  <2>1. CASE SelfIssued(cert)
    BY <1>1, <2>1 DEF Decremented
  <2>2. CASE ~ SelfIssued(cert)
    <3>1. Decremented(counter, cert) = Some(Max({0, a - 1}))
      BY <1>1, <2>2 DEF Decremented, None, Some
    <3> QED  BY <2>2, <3>1, MaxOf
  <2> QED  BY <2>1, <2>2
<1>2. counter = None => Decremented(counter, cert) = None
  BY DEF Decremented
<1>3. counter = None \/ \E a \in Nat : counter = Some(a)
  BY OptionalIs
<1>4. None \in Optional(Nat) /\ \A a \in Nat : Some(a) \in Optional(Nat)
  BY OptionalIs
<1>5. counter = Some(0) => Decremented(counter, cert) = Some(0)
  BY <1>1
<1>6. \A a \in Nat : (IF SelfIssued(cert) \/ a = 0 THEN a ELSE a - 1) \in Nat
  OBVIOUS
<1> QED  BY <1>1, <1>2, <1>3, <1>4, <1>5, <1>6

LEMMA MappedType ==
  ASSUME NEW effective \in Optional(SUBSET STRING), NEW cert \in Certificate
  PROVE  Mapped(effective, cert) \in Optional(SUBSET STRING)
<1> DEFINE old == {p \in effective[1] : \A m \in cert.mappings : m[2] # p}
           new == {m[1] : m \in {m \in cert.mappings : m[2] \in effective[1]}}
<1>1. CASE effective = None \/ cert.mappings = {}
  BY <1>1 DEF Mapped
<1>2. CASE ~ (effective = None \/ cert.mappings = {})
  <2>1. effective[1] \in SUBSET STRING
    BY <1>2, OptionalIs DEF Some
  <2>2. cert.mappings \in SUBSET (STRING \X STRING)
    BY DEF Certificate
  <2>3. old \in SUBSET STRING /\ new \in SUBSET STRING
    BY <2>1, <2>2
  <2>4. Mapped(effective, cert) = Some(old \cup new)
    BY <1>2 DEF Mapped
  <2>5. old \cup new \in SUBSET STRING
    BY <2>3
  <2> QED  BY <2>4, <2>5, OptionalIs
<1> QED  BY <1>1, <1>2

LEMMA PoliciesType ==
  ASSUME NEW effective \in Optional(SUBSET STRING), NEW cert \in Certificate, NEW any
  PROVE  EffectivePolicies(effective, cert, any) \in Optional(SUBSET STRING)
<1>1. cert.policies \in SUBSET STRING
  BY DEF Certificate
<1>2. effective # None => effective[1] \cap cert.policies \in SUBSET STRING
  BY <1>1
<1>3. \A X \in SUBSET STRING : Some(X) \in Optional(SUBSET STRING)
  BY OptionalIs
<1> QED  BY <1>1, <1>2, <1>3 DEF EffectivePolicies

LEMMA StateTypes ==
  ASSUME NEW state \in PathState, NEW cert \in Certificate
  PROVE  /\ Applied(state, cert) \in PathState
         /\ WithIssuer(state, cert) \in PathState
         /\ Reached(state, cert) \in PathState
         /\ \A c : Passed(state, c) \in PathState
<1>1. ASSUME NEW s \in PathState PROVE Applied(s, cert) \in PathState
  <2>1. /\ s.effective \in Optional(SUBSET STRING) /\ s.explicit \in Optional(Nat)
        /\ s.inhibitAny \in Optional(Nat) /\ s.inhibitMapping \in Optional(Nat)
    BY DEF PathState
  <2>2. /\ cert.explicit \in Optional(Nat) /\ cert.inhibitAny \in Optional(Nat)
        /\ cert.inhibitMapping \in Optional(Nat)
    BY DEF Certificate
  <2>3. /\ Limited(s.inhibitAny, cert.inhibitAny) \in Optional(Nat)
        /\ Limited(s.explicit, cert.explicit) \in Optional(Nat)
        /\ Limited(s.inhibitMapping, cert.inhibitMapping) \in Optional(Nat)
    BY <2>1, <2>2, LimitedIs
  <2>4. \A any : EffectivePolicies(s.effective, cert, any) \in Optional(SUBSET STRING)
    BY <2>1, PoliciesType
  <2> QED  BY <2>3, <2>4 DEF Applied, PathState
<1>2. [state EXCEPT !.effective = Mapped(state.effective, cert)] \in PathState
  <2>1. Mapped(state.effective, cert) \in Optional(SUBSET STRING)
    BY MappedType DEF PathState
  <2> QED  BY <2>1 DEF PathState
<1>3. WithIssuer(state, cert) \in PathState
  BY <1>1, <1>2 DEF WithIssuer
<1>4. Reached(state, cert) \in PathState
  <2>1. Applied(state, cert) \in PathState
    BY <1>1
  <2>2. state.serials \cup {cert.serial} \in SUBSET STRING
    BY DEF PathState, Certificate
  <2> QED  BY <2>1, <2>2 DEF Reached, PathState
<1>5. ASSUME NEW c PROVE Passed(state, c) \in PathState
  <2>1. /\ Decremented(state.inhibitAny, c) \in Optional(Nat)
        /\ Decremented(state.explicit, c) \in Optional(Nat)
        /\ Decremented(state.inhibitMapping, c) \in Optional(Nat)
    BY DecrementedIs DEF PathState
  <2> QED  BY <2>1 DEF Passed, PathState
<1> QED  BY <1>1, <1>3, <1>4, <1>5

LEMMA InitialType ==
  ASSUME NEW options PROVE InitialState(options) \in PathState
<1>1. \A S : None \in Optional(S)
  BY OptionalIs
<1>2. Some(0) \in Optional(Nat)
  BY OptionalIs
<1> QED  BY <1>1, <1>2 DEF InitialState, PathState
-----------------------------------------------------------------------------
(***************************************************************************)
(* What holds at the bound, and at each step if at the one above, holds at *)
(* every step.                                                             *)
(***************************************************************************)
LEMMA Downward ==
  ASSUME NEW S, MaxHops + 1 \in S, \A h \in 0 .. MaxHops : h + 1 \in S => h \in S
  PROVE  \A h \in 0 .. MaxHops + 1 : h \in S
<1> DEFINE M == MaxHops + 1
           T == {m \in Nat : m <= M => M - m \in S}
<1>0. M \in Nat /\ MaxHops \in Nat
  BY ChainAssumption
<1>1. 0 \in T
  BY <1>0
<1>2. ASSUME NEW m \in T PROVE m + 1 \in T
  <2>1. m \in Nat /\ (m <= M => M - m \in S)
    OBVIOUS
  <2>2. ASSUME m + 1 <= M PROVE M - (m + 1) \in S
    <3>1. M - m \in S
      BY <1>0, <2>1, <2>2
    <3>2. M - (m + 1) \in 0 .. MaxHops /\ (M - (m + 1)) + 1 = M - m
      BY <1>0, <2>1, <2>2
    <3> QED  BY <3>1, <3>2
  <2> QED  BY <2>1, <2>2
<1>3. T = Nat
  <2> HIDE DEF T
  <2>1. T \in SUBSET Nat
    BY DEF T
  <2> QED  BY <1>1, <1>2, <2>1, AllNumbers
<1>4. ASSUME NEW h \in 0 .. M PROVE h \in S
  <2>1. M - h \in Nat /\ M - h <= M /\ M - (M - h) = h
    BY <1>0
  <2>2. M - h \in T
    BY <1>3, <2>1
  <2> QED  BY <2>1, <2>2
<1> QED  BY <1>4

LEMMA StepAt ==
  ASSUME NEW input, NEW hops \in 0 .. MaxHops + 1, NEW c \in Pool(input),
         NEW state \in PathState
  PROVE  /\ ChainSteps(input)[hops][<<c, state>>] =
              ChainStep(c, input, hops, state, ChainSteps(input)[hops + 1])
         /\ hops = MaxHops + 1 => ~ ChainSteps(input)[hops][<<c, state>>].ok
<1>1. ChainSteps(input)[hops][<<c, state>>] =
        ChainStep(c, input, hops, state, ChainSteps(input)[hops + 1])
  <2>1. ChainSteps(input)[hops] =
          [at \in Pool(input) \X PathState |->
             ChainStep(at[1], input, hops, at[2], ChainSteps(input)[hops + 1])]
    BY StepsAre
  <2>2. <<c, state>> \in Pool(input) \X PathState
    OBVIOUS
  <2> QED  BY <2>1, <2>2
<1>2. ASSUME hops = MaxHops + 1 PROVE ~ ChainSteps(input)[hops][<<c, state>>].ok
  <2>1. hops \in Nat /\ ~ (hops <= MaxHops)
    BY <1>2, ChainAssumption
  <2>2. StepError(c, input, hops, state, Reached(state, c)) # "none"
    BY <2>1, StepIs
  <2> QED  BY <1>1, <2>2 DEF ChainStep, Failed
<1> QED  BY <1>1, <1>2

\* The parts of an input.
LEMMA InputParts ==
  ASSUME NEW input \in ChainInput
  PROVE  /\ input.leaf \in Certificate /\ input.leaf \in Pool(input)
         /\ input.intermediates \in Seq(Certificate) /\ input.anchors \in Seq(Certificate)
         /\ Pool(input) \subseteq Certificate
         /\ \A i \in DOMAIN input.intermediates :
              /\ input.intermediates[i] \in Pool(input)
              /\ input.intermediates[i] \in ToSet(input.intermediates)
         /\ \A i \in DOMAIN input.anchors : input.anchors[i] \in Certificate
         /\ input.now \in Time /\ input.options \in ValidationOptions
<1>1. /\ input.leaf \in Certificate /\ input.intermediates \in Seq(Certificate)
      /\ input.anchors \in Seq(Certificate)
      /\ input.now \in Time /\ input.options \in ValidationOptions
  BY DEF ChainInput
<1>2. \A i \in DOMAIN input.intermediates : input.intermediates[i] \in Certificate
  BY <1>1
<1>3. \A i \in DOMAIN input.anchors : input.anchors[i] \in Certificate
  BY <1>1
<1> QED  BY <1>1, <1>2, <1>3 DEF Pool, ToSet

-----------------------------------------------------------------------------
(***************************************************************************)
(* Certificates that demand less.                                          *)
(***************************************************************************)
LEMMA LenientIs ==
  ASSUME NEW cert \in Certificate
  PROVE  LET c == Lenient(cert) IN
         /\ c \in Certificate
         /\ c.explicit = None /\ c.inhibitMapping = None /\ c.inhibitAny = cert.inhibitAny
         /\ c.subject = cert.subject /\ c.issuer = cert.issuer /\ c.serial = cert.serial
         /\ c.notBefore = cert.notBefore /\ c.notAfter = cert.notAfter
         /\ c.ca = cert.ca /\ c.keyUsage = cert.keyUsage /\ c.pathLen = cert.pathLen
         /\ c.dns = cert.dns /\ c.permitted = cert.permitted /\ c.excluded = cert.excluded
         /\ c.key = cert.key /\ c.keyType = cert.keyType /\ c.keyDecodes = cert.keyDecodes
         /\ c.algorithm = cert.algorithm /\ c.tbsAlgorithm = cert.tbsAlgorithm
         /\ c.signedWith = cert.signedWith /\ c.crl = cert.crl /\ c.aia = cert.aia
         /\ c.eku = cert.eku /\ c.policies = cert.policies /\ c.mappings = cert.mappings
<1>1. None \in Optional(Nat)
  BY OptionalIs
<1> QED  BY <1>1 DEF Lenient, Certificate

LEMMA LenientInputIs ==
  ASSUME NEW input \in ChainInput
  PROVE  LET l == LenientInput(input) IN
         /\ l \in ChainInput
         /\ l.leaf = Lenient(input.leaf)
         /\ l.now = input.now /\ l.signatures = input.signatures /\ l.options = input.options
         /\ DOMAIN l.anchors = DOMAIN input.anchors
         /\ \A i \in DOMAIN input.anchors : l.anchors[i] = Lenient(input.anchors[i])
         /\ DOMAIN l.intermediates = DOMAIN input.intermediates
         /\ \A i \in DOMAIN input.intermediates :
              l.intermediates[i] = Lenient(input.intermediates[i])
         /\ \A c \in Pool(input) : Lenient(c) \in Pool(l)
<1> DEFINE l == LenientInput(input)
           lower == [i \in DOMAIN input.intermediates |-> Lenient(input.intermediates[i])]
           roots == [i \in DOMAIN input.anchors |-> Lenient(input.anchors[i])]
<1>1. l.leaf = Lenient(input.leaf) /\ l.intermediates = lower /\ l.anchors = roots
      /\ l.now = input.now /\ l.signatures = input.signatures /\ l.options = input.options
  BY DEF LenientInput, ChainInput
<1>2. ASSUME NEW s \in Seq(Certificate)
      PROVE  [i \in DOMAIN s |-> Lenient(s[i])] \in Seq(Certificate)
  <2>1. Len(s) \in Nat /\ DOMAIN s = 1 .. Len(s)
    OBVIOUS
  <2>2. \A i \in 1 .. Len(s) : Lenient(s[i]) \in Certificate
    BY <2>1, LenientIs
  <2> QED  BY <2>1, <2>2
<1>3. l \in ChainInput
  <2>1. /\ Lenient(input.leaf) \in Certificate
        /\ lower \in Seq(Certificate) /\ roots \in Seq(Certificate)
    BY <1>2, InputParts, LenientIs
  <2> HIDE DEF lower, roots
  <2> QED  BY <2>1 DEF LenientInput, ChainInput, lower, roots
<1>4. ASSUME NEW c \in Pool(input) PROVE Lenient(c) \in Pool(l)
  <2>1. CASE c = input.leaf
    BY <1>1, <2>1 DEF Pool
  <2>2. CASE c \in ToSet(input.intermediates)
    <3>1. PICK i \in DOMAIN input.intermediates : c = input.intermediates[i]
      BY <2>2 DEF ToSet
    <3>2. i \in DOMAIN lower /\ lower[i] = Lenient(c)
      BY <3>1
    <3>3. Lenient(c) \in ToSet(l.intermediates)
      BY <1>1, <3>2 DEF ToSet
    <3> QED  BY <3>3 DEF Pool
  <2> QED  BY <2>1, <2>2 DEF Pool
<1> HIDE DEF l
<1>5. /\ DOMAIN l.anchors = DOMAIN input.anchors
      /\ \A i \in DOMAIN input.anchors : l.anchors[i] = Lenient(input.anchors[i])
      /\ DOMAIN l.intermediates = DOMAIN input.intermediates
      /\ \A i \in DOMAIN input.intermediates :
           l.intermediates[i] = Lenient(input.intermediates[i])
  BY <1>1
<1> QED  BY <1>1, <1>3, <1>4, <1>5 DEF l

LEMMA LenientChecks ==
  ASSUME NEW input \in ChainInput, NEW cert \in Certificate, NEW issuer \in Certificate
  PROVE  /\ \A now : TimeError(Lenient(cert), now) = TimeError(cert, now)
         /\ \A o, leaf : PolicyAndRevocationError(Lenient(cert), o, leaf)
                           = PolicyAndRevocationError(cert, o, leaf)
         /\ \A hops : IssuerError(Lenient(cert), hops) = IssuerError(cert, hops)
         /\ NameError(Lenient(issuer), Lenient(cert)) = NameError(issuer, cert)
         /\ SignatureError(Lenient(cert), Lenient(issuer)) = SignatureError(cert, issuer)
         /\ SelfIssued(Lenient(cert)) <=> SelfIssued(cert)
         /\ \A name : AnchorNamed(LenientInput(input).anchors, name)
                        = AnchorNamed(input.anchors, name)
         /\ Candidates(LenientInput(input), Lenient(cert)) = Candidates(input, cert)
<1> DEFINE c == Lenient(cert)
           i == Lenient(issuer)
           l == LenientInput(input)
<1>1. /\ c.subject = cert.subject /\ c.issuer = cert.issuer
      /\ c.notBefore = cert.notBefore /\ c.notAfter = cert.notAfter
      /\ c.ca = cert.ca /\ c.keyUsage = cert.keyUsage /\ c.pathLen = cert.pathLen
      /\ c.dns = cert.dns /\ c.algorithm = cert.algorithm
      /\ c.tbsAlgorithm = cert.tbsAlgorithm /\ c.signedWith = cert.signedWith
      /\ c.crl = cert.crl /\ c.aia = cert.aia /\ c.eku = cert.eku
      /\ c.policies = cert.policies
  BY LenientIs
<1>2. /\ i.permitted = issuer.permitted /\ i.excluded = issuer.excluded
      /\ i.key = issuer.key /\ i.keyType = issuer.keyType
      /\ i.keyDecodes = issuer.keyDecodes
  BY LenientIs
<1>3. /\ DOMAIN l.anchors = DOMAIN input.anchors
      /\ DOMAIN l.intermediates = DOMAIN input.intermediates
      /\ \A k \in DOMAIN input.anchors : l.anchors[k].subject = input.anchors[k].subject
      /\ \A k \in DOMAIN input.intermediates :
           l.intermediates[k].subject = input.intermediates[k].subject
  BY LenientInputIs, InputParts, LenientIs
<1> HIDE DEF c, i, l
<1>4. SelfIssued(c) <=> SelfIssued(cert)
  BY <1>1 DEF SelfIssued
<1>5. \A now : TimeError(c, now) = TimeError(cert, now)
  BY <1>1 DEF TimeError
<1>6. \A o, leaf : PolicyAndRevocationError(c, o, leaf) = PolicyAndRevocationError(cert, o, leaf)
  BY <1>1 DEF PolicyAndRevocationError, SelfIssued
<1>7. \A hops : IssuerError(c, hops) = IssuerError(cert, hops)
  BY <1>1 DEF IssuerError
<1>8. NameError(i, c) = NameError(issuer, cert)
  BY <1>1, <1>2 DEF NameError
<1>9. SignatureError(c, i) = SignatureError(cert, issuer)
  BY <1>1, <1>2 DEF SignatureError
<1>10. \A name : AnchorNamed(l.anchors, name) = AnchorNamed(input.anchors, name)
  <2> SUFFICES ASSUME NEW name
               PROVE  {k \in DOMAIN l.anchors : l.anchors[k].subject = name}
                        = {k \in DOMAIN input.anchors : input.anchors[k].subject = name}
    BY DEF AnchorNamed
  <2> QED  BY <1>3
<1>11. Candidates(l, c) = Candidates(input, cert)
  BY <1>1, <1>3 DEF Candidates
<1> QED  BY <1>4, <1>5, <1>6, <1>7, <1>8, <1>9, <1>10, <1>11 DEF c, i, l
-----------------------------------------------------------------------------
(***************************************************************************)
(* The search over certificates that demand less goes where the other one  *)
(* goes: a state with the same policies, and counters no smaller, accepts  *)
(* what the state accepts.                                                 *)
(***************************************************************************)
Laxer(l, s) == l = None \/ \E a, b \in Nat : l = Some(a) /\ s = Some(b) /\ b <= a

LaxState(l, s) ==
  /\ l.serials = s.serials /\ l.effective = s.effective /\ l.inhibitAny = s.inhibitAny
  /\ Laxer(l.explicit, s.explicit) /\ Laxer(l.inhibitMapping, s.inhibitMapping)

LEMMA LaxerIs ==
  ASSUME NEW s \in Optional(Nat), NEW l \in Optional(Nat), NEW said \in Optional(Nat),
         NEW cert \in Certificate, Laxer(l, s)
  PROVE  /\ Laxer(Limited(l, None), Limited(s, said))
         /\ Laxer(Decremented(l, Lenient(cert)), Decremented(s, cert))
         /\ Active(l) => Active(s)
<1>1. CASE l = None
  <2>1. Limited(l, None) = None /\ Decremented(l, Lenient(cert)) = None
    BY <1>1, LimitedIs, DecrementedIs
  <2>2. ~ Active(l)
    BY <1>1 DEF Active, None, Some
  <2> QED  BY <2>1, <2>2 DEF Laxer
<1>2. CASE l # None
  <2>1. PICK a, b \in Nat : l = Some(a) /\ s = Some(b) /\ b <= a
    BY <1>2 DEF Laxer
  <2>2. Limited(l, None) = Some(a)
    BY <2>1, LimitedIs
  <2>3. PICK d \in Nat : Limited(s, said) = Some(d) /\ d <= b
    BY <2>1, LimitedIs
  <2>4. Laxer(Limited(l, None), Limited(s, said))
    <3>1. d <= a
      BY <2>1, <2>3
    <3> QED  BY <2>2, <2>3, <3>1 DEF Laxer
  <2>5. SelfIssued(Lenient(cert)) <=> SelfIssued(cert)
    BY LenientIs DEF SelfIssued
  <2> DEFINE x == IF SelfIssued(cert) \/ a = 0 THEN a ELSE a - 1
             y == IF SelfIssued(cert) \/ b = 0 THEN b ELSE b - 1
  <2>6. Decremented(l, Lenient(cert)) = Some(x) /\ Decremented(s, cert) = Some(y)
    BY <2>1, <2>5, DecrementedIs
  <2>7. x \in Nat /\ y \in Nat /\ y <= x
    BY <2>1
  <2>8. Laxer(Decremented(l, Lenient(cert)), Decremented(s, cert))
    <3> HIDE DEF x, y
    <3> QED  BY <2>6, <2>7 DEF Laxer
  <2>9. Active(l) => Active(s)
    <3> SUFFICES ASSUME Active(l) PROVE b = 0
      BY <2>1 DEF Active
    <3>1. a = 0
      BY <2>1 DEF Active, Some
    <3> QED  BY <2>1, <3>1
  <2> QED  BY <2>4, <2>8, <2>9
<1> QED  BY <1>1, <1>2

LEMMA LaxSteps ==
  ASSUME NEW s \in PathState, NEW l \in PathState, NEW cert \in Certificate, LaxState(l, s)
  PROVE  /\ LaxState(Reached(l, Lenient(cert)), Reached(s, cert))
         /\ LaxState(WithIssuer(l, Lenient(cert)), WithIssuer(s, cert))
         /\ LaxState(Passed(l, Lenient(cert)), Passed(s, cert))
<1> DEFINE c == Lenient(cert)
<1>1. /\ c.explicit = None /\ c.inhibitMapping = None /\ c.inhibitAny = cert.inhibitAny
      /\ c.serial = cert.serial /\ c.policies = cert.policies /\ c.mappings = cert.mappings
      /\ c.subject = cert.subject /\ c.issuer = cert.issuer
      /\ cert.explicit \in Optional(Nat) /\ cert.inhibitMapping \in Optional(Nat)
  BY LenientIs DEF Certificate
<1> HIDE DEF c
<1>2. ASSUME NEW u \in PathState, NEW v \in PathState, LaxState(v, u)
      PROVE  LaxState(Applied(v, c), Applied(u, cert))
  <2>1. /\ u.explicit \in Optional(Nat) /\ v.explicit \in Optional(Nat)
        /\ u.inhibitMapping \in Optional(Nat) /\ v.inhibitMapping \in Optional(Nat)
    BY DEF PathState
  <2>2. /\ Laxer(Limited(v.explicit, None), Limited(u.explicit, cert.explicit))
        /\ Laxer(Limited(v.inhibitMapping, None),
                 Limited(u.inhibitMapping, cert.inhibitMapping))
    BY <1>1, <1>2, <2>1, LaxerIs DEF LaxState
  <2>3. \A any : EffectivePolicies(v.effective, c, any) = EffectivePolicies(u.effective, cert, any)
    BY <1>1, <1>2 DEF EffectivePolicies, LaxState
  <2>4. Limited(v.inhibitAny, c.inhibitAny) = Limited(u.inhibitAny, cert.inhibitAny)
    BY <1>1, <1>2 DEF LaxState
  <2>5. v.serials = u.serials
    BY <1>2 DEF LaxState
  <2> QED  BY <1>1, <2>2, <2>3, <2>4, <2>5 DEF Applied, LaxState, PathState
<1>3. LaxState(Reached(l, c), Reached(s, cert))
  <2>1. LaxState(Applied(l, c), Applied(s, cert))
    BY <1>2
  <2>2. Applied(l, c) \in PathState /\ Applied(s, cert) \in PathState
    BY StateTypes, LenientIs DEF c
  <2>3. l.serials \cup {c.serial} = s.serials \cup {cert.serial}
    BY <1>1 DEF LaxState
  <2> QED  BY <2>1, <2>2, <2>3 DEF Reached, LaxState, PathState
<1>4. LaxState(WithIssuer(l, c), WithIssuer(s, cert))
  <2> DEFINE v == [l EXCEPT !.effective = Mapped(l.effective, c)]
             u == [s EXCEPT !.effective = Mapped(s.effective, cert)]
  <2>1. Mapped(l.effective, c) = Mapped(s.effective, cert)
    BY <1>1 DEF Mapped, LaxState
  <2>2. Mapped(s.effective, cert) \in Optional(SUBSET STRING)
    BY MappedType DEF PathState
  <2>3. u \in PathState /\ v \in PathState /\ LaxState(v, u)
    BY <2>1, <2>2 DEF PathState, LaxState
  <2> QED  BY <1>2, <2>3 DEF WithIssuer
<1>5. LaxState(Passed(l, c), Passed(s, cert))
  <2>1. /\ s.explicit \in Optional(Nat) /\ l.explicit \in Optional(Nat)
        /\ s.inhibitMapping \in Optional(Nat) /\ l.inhibitMapping \in Optional(Nat)
    BY DEF PathState
  <2>2. /\ Laxer(Decremented(l.explicit, c), Decremented(s.explicit, cert))
        /\ Laxer(Decremented(l.inhibitMapping, c), Decremented(s.inhibitMapping, cert))
    BY <2>1, LaxerIs, OptionalIs DEF LaxState, c
  <2>3. Decremented(l.inhibitAny, c) = Decremented(s.inhibitAny, cert)
    BY <1>1 DEF Decremented, SelfIssued, LaxState
  <2> QED  BY <2>2, <2>3 DEF Passed, LaxState, PathState
<1> QED  BY <1>3, <1>4, <1>5 DEF c

LEMMA LaxChecks ==
  ASSUME NEW input \in ChainInput, NEW current \in Certificate, NEW issuer \in Certificate,
         NEW hops \in Nat, NEW s \in PathState, NEW l \in PathState, LaxState(l, s),
         NEW t \in PathState, NEW m \in PathState, LaxState(m, t)
  PROVE  /\ StepError(current, input, hops, t, s) = "none" =>
              StepError(Lenient(current), LenientInput(input), hops, m, l) = "none"
         /\ LinkError(current, issuer, input, hops, s) = "none" =>
              LinkError(Lenient(current), Lenient(issuer), LenientInput(input), hops, l) = "none"
<1> DEFINE c == Lenient(current)
           i == Lenient(issuer)
           k == LenientInput(input)
<1>1. LacksPolicy(l) => LacksPolicy(s)
  <2>1. Active(l.explicit) => Active(s.explicit)
    BY LaxerIs, OptionalIs DEF LaxState, PathState
  <2> QED  BY <2>1 DEF LacksPolicy, LaxState
<1>2. /\ MappingInhibited(c, l) => MappingInhibited(current, s)
      /\ MappingInhibited(i, l) => MappingInhibited(issuer, s)
  <2>1. Active(l.inhibitMapping) => Active(s.inhibitMapping)
    BY LaxerIs, OptionalIs DEF LaxState, PathState
  <2> QED  BY <2>1, LenientIs DEF MappingInhibited
<1>3. k.now = input.now /\ k.options = input.options /\ k.signatures = input.signatures
  BY LenientInputIs
<1>4. /\ \A now : TimeError(c, now) = TimeError(current, now)
      /\ \A o, leaf : PolicyAndRevocationError(c, o, leaf)
                        = PolicyAndRevocationError(current, o, leaf)
      /\ NameError(i, c) = NameError(issuer, current)
      /\ SignatureError(c, i) = SignatureError(current, issuer)
      /\ \A now : TimeError(i, now) = TimeError(issuer, now)
      /\ \A o, leaf : PolicyAndRevocationError(i, o, leaf)
                        = PolicyAndRevocationError(issuer, o, leaf)
      /\ IssuerError(i, hops) = IssuerError(issuer, hops)
  BY LenientChecks
<1>5. c.serial = current.serial /\ m.serials = t.serials
  BY LenientIs DEF LaxState
<1> HIDE DEF c, i, k
<1>6. ASSUME StepError(current, input, hops, t, s) = "none"
      PROVE  StepError(c, k, hops, m, l) = "none"
  <2>1. /\ hops <= MaxHops
        /\ TimeError(current, CanonicalTime(input.now)) = "none"
        /\ PolicyAndRevocationError(current, input.options, hops = 0) = "none"
        /\ ~ LacksPolicy(s) /\ ~ MappingInhibited(current, s)
        /\ current.serial \notin t.serials
    BY <1>6, StepIs
  <2>2. /\ hops <= MaxHops
        /\ TimeError(c, CanonicalTime(k.now)) = "none"
        /\ PolicyAndRevocationError(c, k.options, hops = 0) = "none"
        /\ ~ LacksPolicy(l) /\ ~ MappingInhibited(c, l)
        /\ c.serial \notin m.serials
    BY <1>1, <1>2, <1>3, <1>4, <1>5, <2>1
  <2> QED  BY <2>2, StepIs
<1>7. ASSUME LinkError(current, issuer, input, hops, s) = "none"
      PROVE  LinkError(c, i, k, hops, l) = "none"
  <2>1. /\ TimeError(issuer, CanonicalTime(input.now)) = "none"
        /\ PolicyAndRevocationError(issuer, input.options, FALSE) = "none"
        /\ ~ LacksPolicy(s)
        /\ ~ MappingInhibited(current, s) /\ ~ MappingInhibited(issuer, s)
        /\ IssuerError(issuer, hops) = "none"
        /\ NameError(issuer, current) = "none"
        /\ input.signatures => SignatureError(current, issuer) = "none"
    BY <1>7, LinkIs
  <2>2. /\ TimeError(i, CanonicalTime(k.now)) = "none"
        /\ PolicyAndRevocationError(i, k.options, FALSE) = "none"
        /\ ~ LacksPolicy(l)
        /\ ~ MappingInhibited(c, l) /\ ~ MappingInhibited(i, l)
        /\ IssuerError(i, hops) = "none"
        /\ NameError(i, c) = "none"
        /\ k.signatures => SignatureError(c, i) = "none"
    BY <1>1, <1>2, <1>3, <1>4, <2>1
  <2> QED  BY <2>2, LinkIs
<1> QED  BY <1>6, <1>7 DEF c, i, k
LaxAt(input, hops) ==
  \A c \in Pool(input), s \in PathState, l \in PathState :
    LaxState(l, s) /\ ChainSteps(input)[hops][<<c, s>>].ok =>
      ChainSteps(LenientInput(input))[hops][<<Lenient(c), l>>].ok

LEMMA LaxSearch ==
  ASSUME NEW input \in ChainInput
  PROVE  \A hops \in 0 .. MaxHops + 1 : LaxAt(input, hops)
<1> DEFINE k == LenientInput(input)
           S == {hops \in 0 .. MaxHops + 1 : LaxAt(input, hops)}
<1>0. MaxHops \in Nat
  BY ChainAssumption
<1>1. MaxHops + 1 \in S
  <2>1. MaxHops + 1 \in 0 .. MaxHops + 1
    BY <1>0
  <2>2. \A c \in Pool(input), s \in PathState : ~ ChainSteps(input)[MaxHops + 1][<<c, s>>].ok
    BY <2>1, StepAt
  <2> QED  BY <2>1, <2>2 DEF LaxAt
<1>2. ASSUME NEW h \in 0 .. MaxHops, h + 1 \in S PROVE h \in S
  <2>1. /\ h \in Nat /\ h \in 0 .. MaxHops + 1 /\ h + 1 \in 0 .. MaxHops + 1
        /\ LaxAt(input, h + 1)
    BY <1>0, <1>2
  <2>2. SUFFICES ASSUME NEW c \in Pool(input), NEW s \in PathState, NEW l \in PathState,
                        LaxState(l, s), ChainSteps(input)[h][<<c, s>>].ok
                 PROVE  ChainSteps(k)[h][<<Lenient(c), l>>].ok
    BY <2>1 DEF LaxAt
  <2> DEFINE d == Lenient(c)
             reached == Reached(s, c)
             lax == Reached(l, d)
             above == ChainSteps(input)[h + 1]
             laxAbove == ChainSteps(k)[h + 1]
             result == ChainStep(c, input, h, s, above)
             laxResult == ChainStep(d, k, h, l, laxAbove)
             anchor == AnchorNamed(input.anchors, c.issuer)
             issuer == input.anchors[anchor[1]]
  <2>3. c \in Certificate /\ d \in Certificate /\ d \in Pool(k) /\ k \in ChainInput
    BY InputParts, LenientInputIs, LenientIs
  <2>4. ChainSteps(input)[h][<<c, s>>] = result /\ ChainSteps(k)[h][<<d, l>>] = laxResult
    BY <2>1, <2>3, StepAt
  <2>5. reached \in PathState /\ lax \in PathState /\ LaxState(lax, reached)
    BY <2>2, <2>3, StateTypes, LaxSteps
  <2>6. StepError(c, input, h, s, reached) = "none"
    BY <2>1, <2>2, <2>4, StepCases
  <2>7. StepError(d, k, h, l, lax) = "none"
    BY <2>1, <2>2, <2>3, <2>5, <2>6, LaxChecks
  <2>8. /\ AnchorNamed(k.anchors, d.issuer) = anchor
        /\ SelfIssued(d) <=> SelfIssued(c)
        /\ Candidates(k, d) = Candidates(input, c)
    BY <2>3, LenientChecks, LenientIs
  <2>9. CASE SelfIssued(c)
    <3>1. anchor # None
      BY <2>1, <2>2, <2>4, <2>6, <2>9, StepCases
    <3>2. laxResult.ok
      <4> HIDE DEF d, k, lax
      <4> QED  BY <2>1, <2>3, <2>7, <2>8, <2>9, <3>1, StepCases DEF lax
    <3> QED  BY <2>4, <3>2
  <2>10. CASE ~ SelfIssued(c) /\ anchor # None
    <3>1. LinkError(c, issuer, input, h, WithIssuer(reached, issuer)) = "none"
      BY <2>1, <2>2, <2>4, <2>6, <2>10, StepCases
    <3>2. anchor[1] \in DOMAIN input.anchors
      BY <2>10, InputParts, AnchorIs DEF Some
    <3>3. issuer \in Certificate /\ k.anchors[anchor[1]] = Lenient(issuer)
      BY <3>2, InputParts, LenientInputIs
    <3>4. LaxState(WithIssuer(lax, Lenient(issuer)), WithIssuer(reached, issuer))
      BY <2>5, <3>3, LaxSteps
    <3>5. /\ WithIssuer(reached, issuer) \in PathState
          /\ WithIssuer(lax, Lenient(issuer)) \in PathState
      BY <2>5, <3>3, StateTypes, LenientIs
    <3>6. LinkError(d, Lenient(issuer), k, h, WithIssuer(lax, Lenient(issuer))) = "none"
      BY <2>1, <2>2, <2>3, <3>1, <3>3, <3>4, <3>5, LaxChecks
    <3>7. laxResult.ok
      <4> DEFINE root == Lenient(issuer)
      <4> HIDE DEF d, k, lax, issuer, root
      <4>1. k.anchors[AnchorNamed(k.anchors, d.issuer)[1]] = root
        BY <2>8, <3>3 DEF root
      <4>2. LinkError(d, root, k, h, WithIssuer(lax, root)) = "none"
        BY <3>6 DEF root
      <4> QED  BY <2>1, <2>3, <2>7, <2>8, <2>10, <4>1, <4>2, StepCases DEF lax
    <3> QED  BY <2>4, <3>7
  <2>11. CASE ~ SelfIssued(c) /\ anchor = None
    <3> DEFINE With(i) == input.intermediates[i]
               Next(i) == WithIssuer(reached, With(i))
               LaxWith(i) == k.intermediates[i]
               LaxNext(i) == WithIssuer(lax, LaxWith(i))
    <3>1. PICK i \in Candidates(input, c) :
            /\ LinkError(c, With(i), input, h, Next(i)) = "none"
            /\ above[<<With(i), Passed(Next(i), c)>>].ok
      BY <2>1, <2>2, <2>4, <2>6, <2>11, StepCases
    <3>2. i \in DOMAIN input.intermediates
      BY DEF Candidates
    <3>3. With(i) \in Certificate /\ With(i) \in Pool(input) /\ LaxWith(i) = Lenient(With(i))
      BY <3>2, InputParts, LenientInputIs
    <3>4. LaxState(LaxNext(i), Next(i)) /\ LaxNext(i) \in PathState /\ Next(i) \in PathState
      BY <2>5, <3>3, LaxSteps, StateTypes, LenientIs
    <3>5. LinkError(d, LaxWith(i), k, h, LaxNext(i)) = "none"
      BY <2>1, <2>2, <2>3, <3>1, <3>3, <3>4, LaxChecks
    <3>6. /\ LaxState(Passed(LaxNext(i), d), Passed(Next(i), c))
          /\ Passed(LaxNext(i), d) \in PathState /\ Passed(Next(i), c) \in PathState
      BY <2>3, <3>3, <3>4, LaxSteps, StateTypes
    <3>7. laxAbove[<<LaxWith(i), Passed(LaxNext(i), d)>>].ok
      <4> DEFINE u == Passed(LaxNext(i), d)
                 v == Passed(Next(i), c)
                 w == With(i)
      <4> HIDE DEF u, v, w
      <4>1. u \in PathState /\ v \in PathState /\ LaxState(u, v) /\ w \in Pool(input)
        BY <3>3, <3>6 DEF u, v, w
      <4>2. above[<<w, v>>].ok
        BY <3>1 DEF w, v
      <4>3. laxAbove[<<Lenient(w), u>>].ok
        BY <2>1, <4>1, <4>2 DEF LaxAt
      <4> QED  BY <3>3, <4>3 DEF u, w
    <3>8. laxResult.ok
      <4>1. i \in Candidates(k, d)
        BY <2>8
      <4> HIDE DEF d, k, lax, laxAbove
      <4> QED  BY <2>1, <2>3, <2>7, <2>8, <2>11, <3>5, <3>7, <4>1, StepCases DEF lax
    <3> QED  BY <2>4, <3>8
  <2> QED  BY <2>9, <2>10, <2>11
<1>3. \A h \in 0 .. MaxHops + 1 : h \in S
  <2> HIDE DEF S
  <2> QED  BY <1>1, <1>2, Downward
<1> QED  BY <1>3

(***************************************************************************)
(* What certificates demand of policies only restricts what is accepted.   *)
(***************************************************************************)
LEMMA LenientAccepted ==
  ASSUME NEW input \in ChainInput, ValidateCertificateChain(input).ok
  PROVE  ValidateCertificateChain(LenientInput(input)).ok
<1> DEFINE k == LenientInput(input)
<1>1. /\ k.leaf = Lenient(input.leaf) /\ k.now = input.now /\ k.options = input.options
      /\ DOMAIN k.anchors = DOMAIN input.anchors /\ k \in ChainInput
  BY LenientInputIs
<1>2. input.anchors # <<>> /\ WellFormedTime(input.now)
  BY DEF ValidateCertificateChain, Failed
<1>3. k.anchors # <<>>
  <2>1. DOMAIN input.anchors # {}
    BY <1>2, InputParts
  <2> QED  BY <1>1, <2>1
<1>4. ChainSteps(input)[0][<<input.leaf, InitialState(input.options)>>].ok
  BY <1>2 DEF ValidateCertificateChain
<1>5. LaxState(InitialState(input.options), InitialState(input.options))
  BY DEF LaxState, InitialState, Laxer
<1>6. 0 \in 0 .. MaxHops + 1
  BY ChainAssumption
<1>7. ChainSteps(k)[0][<<k.leaf, InitialState(input.options)>>].ok
  BY <1>1, <1>4, <1>5, <1>6, LaxSearch, InitialType, InputParts DEF LaxAt
<1> HIDE DEF k
<1>8. ValidateCertificateChain(k) = ChainSteps(k)[0][<<k.leaf, InitialState(k.options)>>]
  BY <1>1, <1>2, <1>3 DEF ValidateCertificateChain
<1> QED  BY <1>1, <1>7, <1>8 DEF k

\* What is known of the two variables.
Answered == request \in ChainInput /\ verdict \in {None, Some(ValidateCertificateChain(request))}

LEMMA AnsweredAlways == Spec => []Answered
<1>1. Init => Answered
  BY DEF Init, Answered
<1>2. Answered /\ [Validate]_vars => Answered'
  BY DEF Answered, Validate, vars
<1> QED  BY <1>1, <1>2, PTL DEF Spec

(***************************************************************************)
(* A chain accepted with what its certificates demand of policies is       *)
(* accepted without (validate_chain_step).                                 *)
(***************************************************************************)
THEOREM AlwaysOnlyRestrict == Spec => []LimitsOnlyRestrict
<1>1. Answered => LimitsOnlyRestrict
  BY LenientAccepted DEF Answered, LimitsOnlyRestrict, Some, None
<1> QED  BY <1>1, AnsweredAlways, PTL
-----------------------------------------------------------------------------
(***************************************************************************)
(* Lines of policies.                                                      *)
(***************************************************************************)
IsLine(chain, first, top, t) ==
  /\ t[first] \in chain[first].policies
  /\ \A k \in first + 1 .. top :
       /\ t[k] \in From(chain[k], t[k - 1])
       /\ Naming(chain[k]) => t[k] \in chain[k].policies

\* The policies of the certificates up to one, and those mapped to.
Named(chain, k) ==
  UNION {chain[j].policies \cup {m[1] : m \in chain[j].mappings} : j \in 0 .. k}

LEMMA FromIs ==
  ASSUME NEW cert, NEW p, NEW q
  PROVE  q \in From(cert, p) <=>
           \/ q = p /\ \A m \in cert.mappings : m[2] # p
           \/ \E m \in cert.mappings : m[2] = p /\ q = m[1]
<1> DEFINE these == {m \in cert.mappings : m[2] = p}
           above == {m[1] : m \in these}
<1>1. above = {} <=> \A m \in cert.mappings : m[2] # p
  <2>1. above = {} <=> these = {}
    OBVIOUS
  <2>2. these = {} <=> \A m \in cert.mappings : m[2] # p
    OBVIOUS
  <2> QED  BY <2>1, <2>2
<1>2. q \in above <=> \E m \in cert.mappings : m[2] = p /\ q = m[1]
  OBVIOUS
<1>3. From(cert, p) = IF above = {} THEN {p} ELSE above
  BY DEF From
<1> HIDE DEF above
<1> QED  BY <1>1, <1>2, <1>3

LEMMA LineNamed ==
  ASSUME NEW chain, NEW top \in Nat, NEW first \in 0 .. top, NEW t,
         IsLine(chain, first, top, t)
  PROVE  \A k \in first .. top : t[k] \in Named(chain, top)
<1> DEFINE S == {n \in Nat : first + n <= top => t[first + n] \in Named(chain, top)}
<1>0. first \in Nat
  OBVIOUS
<1>1. 0 \in S
  <2>1. t[first] \in chain[first].policies
    BY DEF IsLine
  <2>2. t[first] \in Named(chain, top)
    BY <2>1 DEF Named
  <2> QED  BY <1>0, <2>2
<1>2. ASSUME NEW n \in S PROVE n + 1 \in S
  <2>1. n \in Nat
    OBVIOUS
  <2>2. ASSUME first + (n + 1) <= top PROVE t[first + (n + 1)] \in Named(chain, top)
    <3> DEFINE k == first + (n + 1)
    <3>1. /\ k \in first + 1 .. top /\ k - 1 = first + n /\ k \in 0 .. top
          /\ first + n <= top
      BY <1>0, <2>1, <2>2
    <3>2. t[k - 1] \in Named(chain, top)
      BY <3>1
    <3> HIDE DEF k
    <3>3. t[k] \in From(chain[k], t[k - 1])
      BY <3>1 DEF IsLine
    <3>4. t[k] = t[k - 1] \/ \E m \in chain[k].mappings : t[k] = m[1]
      BY <3>3, FromIs
    <3>5. ASSUME NEW m \in chain[k].mappings, t[k] = m[1] PROVE t[k] \in Named(chain, top)
      <4>1. t[k] \in {x[1] : x \in chain[k].mappings}
        BY <3>5
      <4> QED  BY <3>1, <4>1 DEF Named
    <3>6. t[k] \in Named(chain, top)
      BY <3>2, <3>4, <3>5
    <3> QED  BY <3>6 DEF k
  <2> QED  BY <2>1, <2>2
<1>3. S = Nat
  <2> HIDE DEF S
  <2>1. S \in SUBSET Nat
    BY DEF S
  <2> QED  BY <1>1, <1>2, <2>1, AllNumbers
<1> SUFFICES ASSUME NEW k \in first .. top PROVE t[k] \in Named(chain, top)
  OBVIOUS
<1>4. k - first \in Nat /\ first + (k - first) = k /\ k <= top
  BY <1>0
<1>5. k - first \in S
  BY <1>3, <1>4
<1> QED  BY <1>4, <1>5

LEMMA LinesAre ==
  ASSUME NEW chain, NEW top \in Nat, NEW q
  PROVE  q \in Lines(chain, top) <=>
           \E first \in 0 .. top : /\ NamesFirst(chain, first, top)
                                   /\ \E t : IsLine(chain, first, top, t) /\ t[top] = q
<1>1. ASSUME NEW first \in 0 .. top
      PROVE  LinesFrom(chain, first, top)
               = {t \in [first .. top -> Named(chain, top)] : IsLine(chain, first, top, t)}
  BY DEF LinesFrom, IsLine, Named
<1>2. ASSUME NEW first \in 0 .. top, NEW t, IsLine(chain, first, top, t)
      PROVE  \E u \in LinesFrom(chain, first, top) : u[top] = t[top]
  <2> DEFINE u == [k \in first .. top |-> t[k]]
  <2>1. \A k \in first .. top : t[k] \in Named(chain, top)
    BY <1>2, LineNamed
  <2>2. u \in [first .. top -> Named(chain, top)]
    BY <2>1
  <2>3. /\ first \in first .. top /\ top \in first .. top
        /\ \A k \in first + 1 .. top : k \in first .. top /\ k - 1 \in first .. top
    OBVIOUS
  <2>4. u[first] = t[first] /\ u[top] = t[top]
        /\ \A k \in first + 1 .. top : u[k] = t[k] /\ u[k - 1] = t[k - 1]
    BY <2>3
  <2> HIDE DEF u
  <2>5. IsLine(chain, first, top, u)
    BY <1>2, <2>4 DEF IsLine
  <2> QED  BY <1>1, <2>2, <2>4, <2>5
<1>3. q \in Lines(chain, top) <=>
        \E first \in 0 .. top : /\ NamesFirst(chain, first, top)
                                /\ \E t \in LinesFrom(chain, first, top) : t[top] = q
  BY DEF Lines
<1> QED  BY <1>1, <1>2, <1>3

LEMMA FirstNamed ==
  ASSUME NEW chain, NEW k \in Nat
  PROVE  /\ (\E j \in 0 .. k : Naming(chain[j])) => \E f \in 0 .. k : NamesFirst(chain, f, k)
         /\ \A f, g \in 0 .. k : NamesFirst(chain, f, k) /\ NamesFirst(chain, g, k) => f = g
<1>1. ASSUME \E j \in 0 .. k : Naming(chain[j])
      PROVE  \E f \in 0 .. k : NamesFirst(chain, f, k)
  <2> DEFINE S == {j \in 0 .. k : Naming(chain[j])}
  <2>1. S \in SUBSET Nat /\ S # {}
    BY <1>1
  <2>2. Min(S) \in S /\ \A x \in S : Min(S) <= x
    <3> HIDE DEF S
    <3> QED  BY <2>1, MinIs
  <2>3. PICK f \in S : \A x \in S : f <= x
    BY <2>2
  <2>4. \A j \in 0 .. f - 1 : ~ Naming(chain[j])
    <3> SUFFICES ASSUME NEW j \in 0 .. f - 1, Naming(chain[j]) PROVE FALSE
      OBVIOUS
    <3>1. j \in S /\ j < f
      OBVIOUS
    <3> QED  BY <2>3, <3>1
  <2> QED  BY <2>4 DEF NamesFirst
<1>2. ASSUME NEW f \in 0 .. k, NEW g \in 0 .. k,
             NamesFirst(chain, f, k), NamesFirst(chain, g, k), f < g
      PROVE  FALSE
  <2>1. f \in 0 .. g - 1
    BY <1>2
  <2> QED  BY <1>2, <2>1 DEF NamesFirst
<1>3. ASSUME NEW f \in 0 .. k, NEW g \in 0 .. k,
             NamesFirst(chain, f, k), NamesFirst(chain, g, k)
      PROVE  f = g
  <2>1. ~ (f < g) /\ ~ (g < f)
    BY <1>2, <1>3
  <2> QED  BY <2>1
<1> QED  BY <1>1, <1>3

\* The lines of the first certificates of two chains that begin alike.
LEMMA LinesAgree ==
  ASSUME NEW c, NEW d, NEW k \in Nat, \A j \in 0 .. k : c[j] = d[j]
  PROVE  Lines(c, k) = Lines(d, k)
<1>1. ASSUME NEW f \in 0 .. k
      PROVE  /\ NamesFirst(c, f, k) <=> NamesFirst(d, f, k)
             /\ \A t : IsLine(c, f, k, t) <=> IsLine(d, f, k, t)
  <2>1. \A j \in 0 .. f - 1 : j \in 0 .. k
    OBVIOUS
  <2>2. \A j \in f + 1 .. k : j \in 0 .. k
    OBVIOUS
  <2> QED  BY <2>1, <2>2 DEF NamesFirst, IsLine
<1>2. \A q : q \in Lines(c, k) <=> q \in Lines(d, k)
  BY <1>1, LinesAre
<1> QED  BY <1>2

LEMMA NoLines ==
  ASSUME NEW chain, NEW k \in Nat, \A j \in 0 .. k : ~ Naming(chain[j])
  PROVE  Lines(chain, k) = {}
<1>1. \A f \in 0 .. k : ~ NamesFirst(chain, f, k)
  BY DEF NamesFirst
<1> QED  BY <1>1, LinesAre

LEMMA FirstLines ==
  ASSUME NEW chain, NEW k \in Nat, NamesFirst(chain, k, k)
  PROVE  Lines(chain, k) = chain[k].policies
<1>1. \A t : IsLine(chain, k, k, t) <=> t[k] \in chain[k].policies
  BY DEF IsLine
<1>2. \A q : q \in Lines(chain, k) <=> \E t : IsLine(chain, k, k, t) /\ t[k] = q
  <2>1. k \in 0 .. k
    OBVIOUS
  <2> QED  BY <2>1, LinesAre, FirstNamed
<1>3. ASSUME NEW q \in chain[k].policies PROVE q \in Lines(chain, k)
  <2>1. [j \in {k} |-> q][k] = q
    OBVIOUS
  <2> QED  BY <1>1, <1>2, <2>1
<1>4. \A q : q \in Lines(chain, k) => q \in chain[k].policies
  BY <1>1, <1>2
<1> QED  BY <1>3, <1>4

LEMMA NextLines ==
  ASSUME NEW chain, NEW k \in Nat, NEW f \in 0 .. k, NamesFirst(chain, f, k)
  PROVE  /\ NamesFirst(chain, f, k + 1)
         /\ \A q : q \in Lines(chain, k + 1) <=>
              /\ \E p \in Lines(chain, k) : q \in From(chain[k + 1], p)
              /\ Naming(chain[k + 1]) => q \in chain[k + 1].policies
<1> DEFINE n == k + 1
<1>0. n \in Nat /\ f \in 0 .. n /\ n - 1 = k /\ n \in f + 1 .. n /\ f # n
  OBVIOUS
<1>1. NamesFirst(chain, f, n)
  BY <1>0 DEF NamesFirst
<1>2. \A q : q \in Lines(chain, n) <=> \E t : IsLine(chain, f, n, t) /\ t[n] = q
  <2> HIDE DEF n
  <2> QED  BY <1>0, <1>1, LinesAre, FirstNamed
<1>3. \A q : q \in Lines(chain, k) <=> \E t : IsLine(chain, f, k, t) /\ t[k] = q
  BY LinesAre, FirstNamed
<1>4. \A t : IsLine(chain, f, n, t) <=>
        /\ IsLine(chain, f, k, t)
        /\ t[n] \in From(chain[n], t[k])
        /\ Naming(chain[n]) => t[n] \in chain[n].policies
  <2>1. \A j : j \in f + 1 .. n <=> j \in f + 1 .. k \/ j = n
    OBVIOUS
  <2> HIDE DEF n
  <2> QED  BY <1>0, <2>1 DEF IsLine
<1> HIDE DEF n
<1>5. ASSUME NEW q, q \in Lines(chain, n)
      PROVE  /\ \E p \in Lines(chain, k) : q \in From(chain[n], p)
             /\ Naming(chain[n]) => q \in chain[n].policies
  <2>1. PICK t : IsLine(chain, f, n, t) /\ t[n] = q
    BY <1>2, <1>5
  <2>2. t[k] \in Lines(chain, k)
    BY <1>3, <1>4, <2>1
  <2> QED  BY <1>4, <2>1, <2>2
<1>6. ASSUME NEW q, NEW p \in Lines(chain, k), q \in From(chain[n], p),
             Naming(chain[n]) => q \in chain[n].policies
      PROVE  q \in Lines(chain, n)
  <2>1. PICK t : IsLine(chain, f, k, t) /\ t[k] = p
    BY <1>3
  <2> DEFINE u == [j \in f .. n |-> IF j = n THEN q ELSE t[j]]
  <2>2. /\ f \in f .. n /\ k \in f .. n /\ n \in f .. n /\ k # n
        /\ \A j \in f + 1 .. k : j \in f .. n /\ j - 1 \in f .. n /\ j # n /\ j - 1 # n
    BY <1>0
  <2>3. /\ u[f] = t[f] /\ u[k] = p /\ u[n] = q
        /\ \A j \in f + 1 .. k : u[j] = t[j] /\ u[j - 1] = t[j - 1]
    BY <1>0, <2>1, <2>2
  <2> HIDE DEF u
  <2>4. IsLine(chain, f, k, u)
    BY <2>1, <2>3 DEF IsLine
  <2> QED  BY <1>2, <1>4, <1>6, <2>3, <2>4
<1> QED  BY <1>1, <1>5, <1>6 DEF n
-----------------------------------------------------------------------------
(***************************************************************************)
(* What the search carries, if no certificate limits policies itself: the  *)
(* serials below, the policies the lines so far lead to, and the limits    *)
(* the options set.                                                        *)
(***************************************************************************)
EffectiveAt(chain, k) ==
  IF \A j \in 0 .. k : ~ Naming(chain[j]) THEN None ELSE Some(Lines(chain, k))

LEMMA MappedIs ==
  ASSUME NEW X, NEW cert
  PROVE  /\ Mapped(None, cert) = None
         /\ \E Y : /\ Mapped(Some(X), cert) = Some(Y)
                   /\ \A q : q \in Y <=> \E p \in X : q \in From(cert, p)
<1> DEFINE old == {p \in X : \A m \in cert.mappings : m[2] # p}
           new == {m[1] : m \in {m \in cert.mappings : m[2] \in X}}
           Y == IF cert.mappings = {} THEN X ELSE old \cup new
<1>1. Mapped(None, cert) = None
  BY DEF Mapped
<1>2. Some(X) # None /\ Some(X)[1] = X
  BY DEF Some, None
<1>3. Mapped(Some(X), cert) = Some(Y)
  BY <1>2 DEF Mapped
<1>4. \A q : q \in new <=> \E m \in cert.mappings : m[2] \in X /\ q = m[1]
  OBVIOUS
<1>5. ASSUME NEW q PROVE q \in Y <=> \E p \in X : q \in From(cert, p)
  <2>1. CASE cert.mappings = {}
    <3>1. \A p : q \in From(cert, p) <=> q = p
      BY <2>1, FromIs
    <3> QED  BY <2>1, <3>1
  <2>2. CASE cert.mappings # {}
    <3>1. q \in Y <=> \/ q \in X /\ \A m \in cert.mappings : m[2] # q
                      \/ \E m \in cert.mappings : m[2] \in X /\ q = m[1]
      BY <1>4, <2>2
    <3> HIDE DEF Y
    <3> QED  BY <3>1, FromIs
  <2> QED  BY <2>1, <2>2
<1> QED  BY <1>1, <1>3, <1>5

LEMMA EffectiveIs ==
  ASSUME NEW chain, NEW k \in Nat
  PROVE  /\ Policies(EffectiveAt(chain, k)) = Lines(chain, k)
         /\ EffectivePolicies(None, chain[0], FALSE) = EffectiveAt(chain, 0)
         /\ EffectivePolicies(EffectiveAt(chain, k), chain[k], FALSE) = EffectiveAt(chain, k)
         /\ EffectivePolicies(Mapped(EffectiveAt(chain, k), chain[k + 1]), chain[k + 1], FALSE)
              = EffectiveAt(chain, k + 1)
<1>0. \A X : Some(X) # None /\ Some(X)[1] = X
  BY DEF Some, None
<1>1. Policies(EffectiveAt(chain, k)) = Lines(chain, k)
  <2>1. CASE \A j \in 0 .. k : ~ Naming(chain[j])
    BY <2>1, NoLines DEF EffectiveAt, Policies
  <2>2. CASE ~ \A j \in 0 .. k : ~ Naming(chain[j])
    BY <1>0, <2>2 DEF EffectiveAt, Policies
  <2> QED  BY <2>1, <2>2
<1>2. ASSUME NEW e, NEW cert
      PROVE  EffectivePolicies(e, cert, FALSE) =
               IF Naming(cert)
               THEN Some(IF e = None THEN cert.policies ELSE e[1] \cap cert.policies)
               ELSE e
  BY DEF EffectivePolicies, Naming
<1>3. EffectivePolicies(None, chain[0], FALSE) = EffectiveAt(chain, 0)
  <2>1. \A j : j \in 0 .. 0 <=> j = 0
    OBVIOUS
  <2>2. CASE Naming(chain[0])
    <3>1. NamesFirst(chain, 0, 0)
      BY <2>2 DEF NamesFirst
    <3>2. Lines(chain, 0) = chain[0].policies
      BY <3>1, FirstLines
    <3> QED  BY <1>2, <2>1, <2>2, <3>2 DEF EffectiveAt
  <2>3. CASE ~ Naming(chain[0])
    BY <1>2, <2>1, <2>3 DEF EffectiveAt
  <2> QED  BY <2>2, <2>3
\* Every line up to a certificate that names policies ends in one of them.
<1>4. ASSUME NEW n \in Nat, Naming(chain[n])
      PROVE  Lines(chain, n) \subseteq chain[n].policies
  <2> SUFFICES ASSUME NEW q \in Lines(chain, n) PROVE q \in chain[n].policies
    OBVIOUS
  <2>1. PICK f \in 0 .. n : NamesFirst(chain, f, n) /\ \E t : IsLine(chain, f, n, t) /\ t[n] = q
    BY LinesAre
  <2>2. PICK t : IsLine(chain, f, n, t) /\ t[n] = q
    BY <2>1
  <2>3. f = n \/ n \in f + 1 .. n
    OBVIOUS
  <2> QED  BY <1>4, <2>2, <2>3 DEF IsLine
<1>5. EffectivePolicies(EffectiveAt(chain, k), chain[k], FALSE) = EffectiveAt(chain, k)
  <2>1. CASE Naming(chain[k])
    <3>1. k \in 0 .. k
      OBVIOUS
    <3>2. EffectiveAt(chain, k) = Some(Lines(chain, k))
      BY <2>1, <3>1 DEF EffectiveAt
    <3>3. Lines(chain, k) \cap chain[k].policies = Lines(chain, k)
      BY <1>4, <2>1
    <3> QED  BY <1>0, <1>2, <2>1, <3>2, <3>3
  <2>2. CASE ~ Naming(chain[k])
    BY <1>2, <2>2
  <2> QED  BY <2>1, <2>2
<1>6. EffectivePolicies(Mapped(EffectiveAt(chain, k), chain[k + 1]), chain[k + 1], FALSE)
        = EffectiveAt(chain, k + 1)
  <2> DEFINE n == k + 1
  <2>0. n \in Nat /\ \A j : j \in 0 .. n <=> j \in 0 .. k \/ j = n
    OBVIOUS
  <2>1. CASE \A j \in 0 .. k : ~ Naming(chain[j])
    <3> HIDE DEF n
    <3>1. Mapped(EffectiveAt(chain, k), chain[n]) = None
      BY <2>1, MappedIs DEF EffectiveAt
    <3>2. CASE Naming(chain[n])
      <4>1. n - 1 = k /\ n \in 0 .. n
        BY <2>0 DEF n
      <4>2. NamesFirst(chain, n, n)
        BY <2>1, <3>2, <4>1 DEF NamesFirst
      <4>3. EffectiveAt(chain, n) = Some(chain[n].policies)
        BY <2>0, <3>2, <4>1, <4>2, FirstLines DEF EffectiveAt
      <4> QED  BY <1>2, <3>1, <3>2, <4>3 DEF n
    <3>3. CASE ~ Naming(chain[n])
      <4>1. EffectiveAt(chain, n) = None
        BY <2>0, <2>1, <3>3 DEF EffectiveAt
      <4> QED  BY <1>2, <3>1, <3>3, <4>1 DEF n
    <3> QED  BY <3>2, <3>3
  <2>2. CASE \E j \in 0 .. k : Naming(chain[j])
    <3>1. PICK f \in 0 .. k : NamesFirst(chain, f, k)
      BY <2>2, FirstNamed
    <3>2. \A q : q \in Lines(chain, n) <=>
            /\ \E p \in Lines(chain, k) : q \in From(chain[n], p)
            /\ Naming(chain[n]) => q \in chain[n].policies
      BY <3>1, NextLines
    <3> HIDE DEF n
    <3>3. EffectiveAt(chain, k) = Some(Lines(chain, k))
      BY <2>2 DEF EffectiveAt
    <3>4. PICK Y : /\ Mapped(EffectiveAt(chain, k), chain[n]) = Some(Y)
                   /\ \A q : q \in Y <=> \E p \in Lines(chain, k) : q \in From(chain[n], p)
      BY <3>3, MappedIs
    <3>5. EffectiveAt(chain, n) = Some(Lines(chain, n))
      BY <2>0, <2>2 DEF EffectiveAt
    <3>6. CASE Naming(chain[n])
      <4>1. Y \cap chain[n].policies = Lines(chain, n)
        BY <3>2, <3>4, <3>6
      <4>2. Some(Y)[1] = Y /\ Some(Y) # None
        BY <1>0
      <4>3. EffectivePolicies(Some(Y), chain[n], FALSE) = Some(Y \cap chain[n].policies)
        BY <1>2, <3>6, <4>2
      <4> QED  BY <3>4, <3>5, <4>1, <4>3 DEF n
    <3>7. CASE ~ Naming(chain[n])
      <4>1. Y = Lines(chain, n)
        BY <3>2, <3>4, <3>7
      <4> QED  BY <1>2, <3>4, <3>5, <3>7, <4>1 DEF n
    <3> QED  BY <3>6, <3>7
  <2> QED  BY <2>1, <2>2
<1> QED  BY <1>1, <1>3, <1>5, <1>6

\* No line gets over a gap: there is one to each certificate below the last.
LEMMA LinesBelow ==
  ASSUME NEW chain, NEW top \in Nat, Naming(chain[0]), Lines(chain, top) # {}
  PROVE  \A k \in 0 .. top : Lines(chain, k) # {}
<1> DEFINE S == {n \in Nat : n <= top => Lines(chain, top - n) # {}}
<1>1. 0 \in S
  <2>1. top - 0 = top
    OBVIOUS
  <2> QED  BY <2>1
<1>2. ASSUME NEW n \in S PROVE n + 1 \in S
  <2>1. n \in Nat
    OBVIOUS
  <2>2. ASSUME n + 1 <= top PROVE Lines(chain, top - (n + 1)) # {}
    <3> DEFINE k == top - (n + 1)
    <3>1. k \in Nat /\ k + 1 = top - n /\ n <= top /\ 0 \in 0 .. k
      BY <2>1, <2>2
    <3>2. Lines(chain, k + 1) # {}
      BY <3>1
    <3> HIDE DEF k
    <3>3. NamesFirst(chain, 0, k)
      BY <3>1 DEF NamesFirst
    <3>4. Lines(chain, k) # {}
      BY <3>1, <3>2, <3>3, NextLines
    <3> QED  BY <3>4 DEF k
  <2> QED  BY <2>1, <2>2
<1>3. S = Nat
  <2> HIDE DEF S
  <2>1. S \in SUBSET Nat
    BY DEF S
  <2> QED  BY <1>1, <1>2, <2>1, AllNumbers
<1> SUFFICES ASSUME NEW k \in 0 .. top PROVE Lines(chain, k) # {}
  OBVIOUS
<1>4. top - k \in Nat /\ top - k <= top /\ top - (top - k) = k
  OBVIOUS
<1>5. top - k \in S
  BY <1>3, <1>4
<1> QED  BY <1>4, <1>5
Limit(on) == IF on THEN Some(0) ELSE None
Carried(options, serials, effective) ==
  [serials |-> serials, effective |-> effective, inhibitAny |-> None,
   explicit |-> Limit(options.explicit), inhibitMapping |-> Limit(options.inhibitMapping)]

StateAt(options, chain, k) ==
  Carried(options, {chain[j].serial : j \in 0 .. k - 1},
          IF k = 0 THEN None ELSE EffectiveAt(chain, k))
ReachedAt(options, chain, k) ==
  Carried(options, {chain[j].serial : j \in 0 .. k}, EffectiveAt(chain, k))
WithIssuerAt(options, chain, k) ==
  Carried(options, {chain[j].serial : j \in 0 .. k}, EffectiveAt(chain, k + 1))

SaysNothing(cert) ==
  cert.explicit = None /\ cert.inhibitAny = None /\ cert.inhibitMapping = None

LEMMA AppliedIs ==
  ASSUME NEW options, NEW s, NEW e, NEW cert, SaysNothing(cert)
  PROVE  Applied(Carried(options, s, e), cert)
           = Carried(options, s, EffectivePolicies(e, cert, FALSE))
<1> DEFINE state == Carried(options, s, e)
           next == EffectivePolicies(e, cert, FALSE)
<1>1. \A c : Limited(c, None) = c
  BY DEF Limited
<1>2. ~ Active(None)
  BY DEF Active, None, Some
<1>3. EffectivePolicies(e, cert, Active(None)) = next
  BY <1>2 DEF EffectivePolicies
<1>4. state.effective = e /\ state.inhibitAny = None
  BY DEF Carried
<1> HIDE DEF state, next
<1>5. Applied(state, cert) = [state EXCEPT
                !.inhibitAny = None, !.effective = next,
                !.explicit = state.explicit, !.inhibitMapping = state.inhibitMapping]
  BY <1>1, <1>3, <1>4 DEF Applied, SaysNothing
<1>6. [state EXCEPT !.inhibitAny = None, !.effective = next,
                !.explicit = state.explicit, !.inhibitMapping = state.inhibitMapping]
        = Carried(options, s, next)
  <2> DEFINE x == Limit(options.explicit)
             y == Limit(options.inhibitMapping)
  <2>1. /\ state = [serials |-> s, effective |-> e, inhibitAny |-> None,
                    explicit |-> x, inhibitMapping |-> y]
        /\ Carried(options, s, next) = [serials |-> s, effective |-> next,
                    inhibitAny |-> None, explicit |-> x, inhibitMapping |-> y]
    BY DEF Carried, state
  <2> DEFINE result == Carried(options, s, next)
  <2> HIDE DEF x, y, result
  <2>2. state.explicit = x /\ state.inhibitMapping = y
    BY <2>1
  <2>3. [state EXCEPT !.inhibitAny = None] = state
    BY <2>1
  <2>4. [state EXCEPT !.effective = next] = result
    BY <2>1 DEF result
  <2>5. [result EXCEPT !.explicit = x] = result
    BY <2>1 DEF result
  <2>6. [result EXCEPT !.inhibitMapping = y] = result
    BY <2>1 DEF result
  <2>7. [state EXCEPT !.inhibitAny = None, !.effective = next,
                      !.explicit = x, !.inhibitMapping = y] = result
    BY <2>3, <2>4, <2>5, <2>6
  <2> QED  BY <2>2, <2>7 DEF result
<1> QED  BY <1>5, <1>6 DEF state, next

LEMMA ReachedIs ==
  ASSUME NEW options, NEW chain, NEW k \in Nat, SaysNothing(chain[k])
  PROVE  Reached(StateAt(options, chain, k), chain[k]) = ReachedAt(options, chain, k)
<1> DEFINE s == {chain[j].serial : j \in 0 .. k - 1}
           e == IF k = 0 THEN None ELSE EffectiveAt(chain, k)
           all == {chain[j].serial : j \in 0 .. k}
           state == Carried(options, s, e)
           next == EffectiveAt(chain, k)
<1>1. EffectivePolicies(e, chain[k], FALSE) = next
  BY EffectiveIs
<1>2. s \cup {chain[k].serial} = all
  <2>1. \A j : j \in 0 .. k <=> j \in 0 .. k - 1 \/ j = k
    OBVIOUS
  <2> QED  BY <2>1
<1> HIDE DEF s, e, all, next
<1>3. Applied(state, chain[k]) = Carried(options, s, next)
  BY <1>1, AppliedIs
<1>4. state.serials = s
  BY DEF Carried
<1> HIDE DEF state
<1>5. Reached(state, chain[k]) = [Carried(options, s, next) EXCEPT !.serials = all]
  BY <1>2, <1>3, <1>4 DEF Reached
<1>6. [Carried(options, s, next) EXCEPT !.serials = all] = Carried(options, all, next)
  BY DEF Carried
<1> QED  BY <1>5, <1>6 DEF StateAt, ReachedAt, state, s, e, all, next

LEMMA WithIssuerIs ==
  ASSUME NEW options, NEW chain, NEW k \in Nat, SaysNothing(chain[k + 1])
  PROVE  WithIssuer(ReachedAt(options, chain, k), chain[k + 1])
           = WithIssuerAt(options, chain, k)
<1> DEFINE all == {chain[j].serial : j \in 0 .. k}
           e == EffectiveAt(chain, k)
           issuer == chain[k + 1]
           m == Mapped(e, issuer)
           reached == Carried(options, all, e)
<1>1. EffectivePolicies(m, issuer, FALSE) = EffectiveAt(chain, k + 1)
  BY EffectiveIs
<1>2. reached.effective = e
  BY DEF Carried
<1> HIDE DEF all, e, m, issuer
<1>3. [reached EXCEPT !.effective = m] = Carried(options, all, m)
  BY DEF Carried
<1> HIDE DEF reached
<1>4. WithIssuer(reached, issuer) = Applied(Carried(options, all, m), issuer)
  BY <1>2, <1>3 DEF WithIssuer, m
<1>5. SaysNothing(issuer)
  BY DEF issuer
<1>6. WithIssuer(reached, issuer) = Carried(options, all, EffectiveAt(chain, k + 1))
  <2>1. Applied(Carried(options, all, m), issuer)
          = Carried(options, all, EffectivePolicies(m, issuer, FALSE))
    BY <1>5, AppliedIs
  <2> QED  BY <1>1, <1>4, <2>1
<1> QED  BY <1>6 DEF WithIssuerAt, ReachedAt, all, e, reached, issuer

LEMMA PassedIs ==
  ASSUME NEW options, NEW chain, NEW k \in Nat
  PROVE  Passed(WithIssuerAt(options, chain, k), chain[k]) = StateAt(options, chain, k + 1)
<1> DEFINE all == {chain[j].serial : j \in 0 .. k}
           e == EffectiveAt(chain, k + 1)
           state == Carried(options, all, e)
<1>1. \A c : c \in {None, Some(0)} => Decremented(c, chain[k]) = c
  BY DecrementedIs, OptionalIs
<1>2. /\ state.explicit \in {None, Some(0)} /\ state.inhibitMapping \in {None, Some(0)}
      /\ state.inhibitAny = None
  BY DEF Carried, Limit
<1> HIDE DEF all, e, state
<1>3. Passed(state, chain[k]) =
        [state EXCEPT !.inhibitAny = state.inhibitAny, !.explicit = state.explicit,
                      !.inhibitMapping = state.inhibitMapping]
  BY <1>1, <1>2 DEF Passed
<1>4. [state EXCEPT !.inhibitAny = state.inhibitAny, !.explicit = state.explicit,
                    !.inhibitMapping = state.inhibitMapping] = state
  BY DEF state, Carried
<1>5. StateAt(options, chain, k + 1) = state
  <2>1. (k + 1) - 1 = k /\ k + 1 # 0
    OBVIOUS
  <2> QED  BY <2>1 DEF StateAt, state, all, e
<1>6. WithIssuerAt(options, chain, k) = state
  BY DEF WithIssuerAt, state, all, e
<1> QED  BY <1>3, <1>4, <1>5, <1>6

LEMMA InitialIs ==
  ASSUME NEW options, NEW chain
  PROVE  StateAt(options, chain, 0) = InitialState(options)
<1>1. {chain[j].serial : j \in 0 .. 0 - 1} = {}
  <2>1. 0 .. 0 - 1 = {}
    OBVIOUS
  <2> QED  BY <2>1
<1> QED  BY <1>1 DEF StateAt, InitialState, Carried, Limit

\* States of chains that begin alike.
LEMMA StatesAgree ==
  ASSUME NEW options, NEW c, NEW d, NEW k \in Nat, \A j \in 0 .. k : c[j] = d[j]
  PROVE  /\ EffectiveAt(c, k) = EffectiveAt(d, k)
         /\ StateAt(options, c, k) = StateAt(options, d, k)
         /\ ReachedAt(options, c, k) = ReachedAt(options, d, k)
<1>1. EffectiveAt(c, k) = EffectiveAt(d, k)
  BY LinesAgree DEF EffectiveAt
<1>2. \A j \in 0 .. k - 1 : j \in 0 .. k
  OBVIOUS
<1>3. /\ {c[j].serial : j \in 0 .. k - 1} = {d[j].serial : j \in 0 .. k - 1}
      /\ {c[j].serial : j \in 0 .. k} = {d[j].serial : j \in 0 .. k}
  BY <1>2
<1> QED  BY <1>1, <1>3 DEF StateAt, ReachedAt

-----------------------------------------------------------------------------
(***************************************************************************)
(* What the checks of the search ask of a chain.                           *)
(***************************************************************************)
AsOptions(input, chain, k) ==
  /\ input.options.explicit => Lines(chain, k) # {}
  /\ input.options.inhibitMapping => chain[k].mappings = {}

HopOK(input, chain, k) ==
  /\ InTime(chain[k], input.now) /\ Meets(chain[k], input.options)
  /\ k = 0 => ToSet(input.options.eku) \subseteq chain[k].eku
  /\ AsOptions(input, chain, k)
  /\ \A j \in 0 .. k - 1 : chain[k].serial # chain[j].serial

LinkOK(input, chain, k) ==
  /\ InTime(chain[k + 1], input.now) /\ Meets(chain[k + 1], input.options)
  /\ input.options.explicit => Lines(chain, k + 1) # {}
  /\ input.options.inhibitMapping => chain[k].mappings = {} /\ chain[k + 1].mappings = {}
  /\ Certifies(chain[k + 1], chain[k], k)
  /\ input.signatures => Signed(chain[k + 1], chain[k])

LEMMA Limits ==
  ASSUME NEW options, NEW chain, NEW k \in Nat
  PROVE  /\ LacksPolicy(ReachedAt(options, chain, k))
              <=> options.explicit /\ Lines(chain, k) = {}
         /\ LacksPolicy(WithIssuerAt(options, chain, k))
              <=> options.explicit /\ Lines(chain, k + 1) = {}
         /\ \A cert : MappingInhibited(cert, ReachedAt(options, chain, k))
              <=> options.inhibitMapping /\ cert.mappings # {}
         /\ \A cert : MappingInhibited(cert, WithIssuerAt(options, chain, k))
              <=> options.inhibitMapping /\ cert.mappings # {}
<1> DEFINE r == ReachedAt(options, chain, k)
           w == WithIssuerAt(options, chain, k)
<1>1. /\ r.effective = EffectiveAt(chain, k) /\ w.effective = EffectiveAt(chain, k + 1)
      /\ r.explicit = Limit(options.explicit) /\ w.explicit = Limit(options.explicit)
      /\ r.inhibitMapping = Limit(options.inhibitMapping)
      /\ w.inhibitMapping = Limit(options.inhibitMapping)
  BY DEF ReachedAt, WithIssuerAt, Carried
<1>2. \A on : Active(Limit(on)) <=> on
  BY DEF Active, Limit, Some, None
<1> HIDE DEF r, w
<1>3. /\ Active(r.explicit) <=> options.explicit
      /\ Active(w.explicit) <=> options.explicit
      /\ Active(r.inhibitMapping) <=> options.inhibitMapping
      /\ Active(w.inhibitMapping) <=> options.inhibitMapping
  BY <1>1, <1>2
<1>4. /\ Policies(r.effective) = Lines(chain, k)
      /\ Policies(w.effective) = Lines(chain, k + 1)
  <2>1. k + 1 \in Nat
    OBVIOUS
  <2>2. \A n \in Nat : Policies(EffectiveAt(chain, n)) = Lines(chain, n)
    BY EffectiveIs
  <2> QED  BY <1>1, <2>1, <2>2
<1> QED  BY <1>3, <1>4 DEF LacksPolicy, MappingInhibited, r, w

LEMMA HopIs ==
  ASSUME NEW input \in ChainInput, WellFormedTime(input.now), NEW chain, NEW k \in Nat,
         chain[k] \in Certificate, SaysNothing(chain[k])
  PROVE  LET o == input.options
             state == StateAt(o, chain, k) IN
         StepError(chain[k], input, k, state, Reached(state, chain[k])) = "none"
           <=> k <= MaxHops /\ HopOK(input, chain, k)
<1> DEFINE o == input.options
           state == StateAt(o, chain, k)
           reached == ReachedAt(o, chain, k)
<1>1. input.now \in Time /\ o \in ValidationOptions
  BY InputParts
<1>2. TimeError(chain[k], CanonicalTime(input.now)) = "none" <=> InTime(chain[k], input.now)
  BY <1>1, TimeIs
<1>3. PolicyAndRevocationError(chain[k], o, k = 0) = "none"
        <=> Meets(chain[k], o) /\ (k = 0 => ToSet(o.eku) \subseteq chain[k].eku)
  <2>1. (k = 0) \in BOOLEAN
    OBVIOUS
  <2> HIDE DEF o
  <2> QED  BY <1>1, <2>1, MeetsIs
<1>4. LacksPolicy(reached) <=> o.explicit /\ Lines(chain, k) = {}
  BY Limits
<1>5. MappingInhibited(chain[k], reached) <=> o.inhibitMapping /\ chain[k].mappings # {}
  BY Limits
<1>6. state.serials = {chain[j].serial : j \in 0 .. k - 1}
  BY DEF StateAt, Carried
<1>7. Reached(state, chain[k]) = reached
  BY ReachedIs
<1>8. chain[k].serial \notin state.serials
        <=> \A j \in 0 .. k - 1 : chain[k].serial # chain[j].serial
  BY <1>6
<1> HIDE DEF state, reached
<1>9. StepError(chain[k], input, k, state, reached) = "none"
        <=> /\ k <= MaxHops
            /\ TimeError(chain[k], CanonicalTime(input.now)) = "none"
            /\ PolicyAndRevocationError(chain[k], o, k = 0) = "none"
            /\ ~ LacksPolicy(reached)
            /\ ~ MappingInhibited(chain[k], reached)
            /\ chain[k].serial \notin state.serials
  <2> DEFINE current == chain[k]
  <2> HIDE DEF current
  <2>1. StepError(current, input, k, state, reached) = "none"
          <=> /\ k <= MaxHops
              /\ TimeError(current, CanonicalTime(input.now)) = "none"
              /\ PolicyAndRevocationError(current, input.options, k = 0) = "none"
              /\ ~ LacksPolicy(reached)
              /\ ~ MappingInhibited(current, reached)
              /\ current.serial \notin state.serials
    <3>1. StepError(current, input, k, state, reached) = "none" =>
            /\ k <= MaxHops
            /\ TimeError(current, CanonicalTime(input.now)) = "none"
            /\ PolicyAndRevocationError(current, input.options, k = 0) = "none"
            /\ ~ LacksPolicy(reached) /\ ~ MappingInhibited(current, reached)
            /\ current.serial \notin state.serials
      BY StepIs
    <3>2. /\ k <= MaxHops
          /\ TimeError(current, CanonicalTime(input.now)) = "none"
          /\ PolicyAndRevocationError(current, input.options, k = 0) = "none"
          /\ ~ LacksPolicy(reached) /\ ~ MappingInhibited(current, reached)
          /\ current.serial \notin state.serials
          => StepError(current, input, k, state, reached) = "none"
      BY StepIs
    <3> QED  BY <3>1, <3>2
  <2> QED  BY <2>1 DEF current
<1>10. StepError(chain[k], input, k, state, reached) = "none"
         <=> k <= MaxHops /\ HopOK(input, chain, k)
  <2> DEFINE time == TimeError(chain[k], CanonicalTime(input.now)) = "none"
             policy == PolicyAndRevocationError(chain[k], o, k = 0) = "none"
  <2> HIDE DEF time, policy
  <2>1. /\ time <=> InTime(chain[k], input.now)
        /\ policy <=> Meets(chain[k], o) /\ (k = 0 => ToSet(o.eku) \subseteq chain[k].eku)
    BY <1>2, <1>3 DEF time, policy
  <2>2. StepError(chain[k], input, k, state, reached) = "none"
          <=> /\ k <= MaxHops /\ time /\ policy /\ ~ LacksPolicy(reached)
              /\ ~ MappingInhibited(chain[k], reached) /\ chain[k].serial \notin state.serials
    BY <1>9 DEF time, policy
  <2> QED  BY <1>4, <1>5, <1>8, <2>1, <2>2 DEF HopOK, AsOptions
<1> QED  BY <1>7, <1>10 DEF state

LEMMA LinkedIs ==
  ASSUME NEW input \in ChainInput, WellFormedTime(input.now), NEW chain, NEW k \in Nat,
         chain[k + 1] \in Certificate, SaysNothing(chain[k + 1])
  PROVE  LET reached == ReachedAt(input.options, chain, k) IN
         LinkError(chain[k], chain[k + 1], input, k, WithIssuer(reached, chain[k + 1])) = "none"
           <=> LinkOK(input, chain, k)
<1> DEFINE o == input.options
           c == chain[k]
           i == chain[k + 1]
           next == WithIssuerAt(o, chain, k)
           time == TimeError(i, CanonicalTime(input.now)) = "none"
           policy == PolicyAndRevocationError(i, o, FALSE) = "none"
           constraints == IssuerError(i, k) = "none"
           names == NameError(i, c) = "none"
           signature == SignatureError(c, i) = "none"
<1>1. input.now \in Time /\ o \in ValidationOptions /\ FALSE \in BOOLEAN /\ i \in Certificate
  BY InputParts
<1>2. WithIssuer(ReachedAt(o, chain, k), i) = next
  BY WithIssuerIs
<1>3. time <=> InTime(i, input.now)
  BY <1>1, TimeIs
<1>4. policy <=> Meets(i, o)
  <2> HIDE DEF i, o
  <2> QED  BY <1>1, MeetsIs
<1>5. constraints /\ names <=> Certifies(i, c, k)
  BY <1>1, IssuerIs, NamesAre DEF Certifies
<1>6. signature <=> Signed(i, c)
  BY SignedIs
<1>7. LacksPolicy(next) <=> o.explicit /\ Lines(chain, k + 1) = {}
  BY Limits
<1>8. /\ MappingInhibited(c, next) <=> o.inhibitMapping /\ c.mappings # {}
      /\ MappingInhibited(i, next) <=> o.inhibitMapping /\ i.mappings # {}
  BY Limits
<1> HIDE DEF next
<1>9. LinkError(c, i, input, k, next) = "none"
        <=> /\ time /\ policy /\ ~ LacksPolicy(next)
            /\ ~ MappingInhibited(c, next) /\ ~ MappingInhibited(i, next)
            /\ constraints /\ names /\ (input.signatures => signature)
  <2> HIDE DEF c, i
  <2> QED  BY LinkIs
<1> HIDE DEF time, policy, constraints, names, signature
<1>10. LinkError(c, i, input, k, next) = "none" <=> LinkOK(input, chain, k)
  BY <1>3, <1>4, <1>5, <1>6, <1>7, <1>8, <1>9 DEF LinkOK
<1> QED  BY <1>2, <1>10
LEMMA StateType ==
  ASSUME NEW options, NEW chain, NEW k \in Nat, \A j \in 0 .. k : chain[j] \in Certificate
  PROVE  StateAt(options, chain, k) \in PathState
<1>1. Lines(chain, k) \in SUBSET STRING
  <2> SUFFICES ASSUME NEW q \in Lines(chain, k) PROVE q \in STRING
    OBVIOUS
  <2>1. PICK f \in 0 .. k : \E t : IsLine(chain, f, k, t) /\ t[k] = q
    BY LinesAre
  <2>2. PICK t : IsLine(chain, f, k, t) /\ t[k] = q
    BY <2>1
  <2>3. k \in f .. k
    OBVIOUS
  <2>4. q \in Named(chain, k)
    BY <2>2, <2>3, LineNamed
  <2>5. \A j \in 0 .. k : /\ chain[j].policies \in SUBSET STRING
                          /\ chain[j].mappings \in SUBSET (STRING \X STRING)
    BY DEF Certificate
  <2>6. PICK j \in 0 .. k : q \in chain[j].policies \cup {m[1] : m \in chain[j].mappings}
    BY <2>4 DEF Named
  <2> QED  BY <2>5, <2>6
<1>2. EffectiveAt(chain, k) \in Optional(SUBSET STRING)
  BY <1>1, OptionalIs DEF EffectiveAt
<1>3. \A S : None \in Optional(S)
  BY OptionalIs
<1>4. \A on : Limit(on) \in Optional(Nat)
  BY OptionalIs DEF Limit
<1>5. {chain[j].serial : j \in 0 .. k - 1} \in SUBSET STRING
  <2>1. \A j \in 0 .. k - 1 : j \in 0 .. k
    OBVIOUS
  <2>2. \A j \in 0 .. k - 1 : chain[j].serial \in STRING
    BY <2>1 DEF Certificate
  <2> QED  BY <2>2
<1>6. (IF k = 0 THEN None ELSE EffectiveAt(chain, k)) \in Optional(SUBSET STRING)
  BY <1>2, <1>3
<1>7. \A s \in SUBSET STRING, e \in Optional(SUBSET STRING) :
        Carried(options, s, e) \in PathState
  BY <1>3, <1>4 DEF Carried, PathState
<1> QED  BY <1>5, <1>6, <1>7 DEF StateAt

LEMMA ChecksAgree ==
  ASSUME NEW input, NEW c, NEW d, NEW k \in Nat, \A j \in 0 .. k : c[j] = d[j]
  PROVE  /\ HopOK(input, c, k) <=> HopOK(input, d, k)
         /\ c[k + 1] = d[k + 1] => (LinkOK(input, c, k) <=> LinkOK(input, d, k))
<1>1. c[k] = d[k] /\ Lines(c, k) = Lines(d, k)
  BY LinesAgree
<1>2. \A j \in 0 .. k - 1 : c[j] = d[j]
  <2>1. \A j \in 0 .. k - 1 : j \in 0 .. k
    OBVIOUS
  <2> QED  BY <2>1
<1>3. ASSUME c[k + 1] = d[k + 1] PROVE Lines(c, k + 1) = Lines(d, k + 1)
  <2>1. k + 1 \in Nat /\ \A j \in 0 .. k + 1 : j \in 0 .. k \/ j = k + 1
    OBVIOUS
  <2>2. \A j \in 0 .. k + 1 : c[j] = d[j]
    BY <1>3, <2>1
  <2> QED  BY <2>1, <2>2, LinesAgree
<1>4. HopOK(input, c, k) <=> HopOK(input, d, k)
  BY <1>1, <1>2 DEF HopOK, AsOptions
<1>5. c[k + 1] = d[k + 1] => (LinkOK(input, c, k) <=> LinkOK(input, d, k))
  BY <1>1, <1>3 DEF LinkOK
<1> QED  BY <1>4, <1>5

-----------------------------------------------------------------------------
(***************************************************************************)
(* Routes: the path a route stands for is acceptable iff the checks of the *)
(* search are good at all of its certificates and links.                   *)
(***************************************************************************)
LEMMA RouteIs ==
  ASSUME NEW input \in ChainInput, Unlimited(input), NEW n \in Nat, NEW r \in Routes(input, n)
  PROVE  LET chain == Chain(input, r, n)
             top == Top(r, n)
             anchor == AnchorNamed(input.anchors, r[n].issuer) IN
         /\ \A k \in 0 .. n : chain[k] = r[k] /\ r[k] \in Pool(input)
         /\ \A k \in 0 .. top : chain[k] \in Certificate /\ SaysNothing(chain[k])
         /\ r[0] = input.leaf /\ anchor # None
         /\ SelfIssued(r[n]) => top = n
         /\ ~ SelfIssued(r[n]) => top = n + 1 /\ chain[n + 1] = input.anchors[anchor[1]]
         /\ \A k \in 0 .. n - 1 :
              /\ ~ SelfIssued(r[k]) /\ AnchorNamed(input.anchors, r[k].issuer) = None
              /\ \E i \in Candidates(input, r[k]) : input.intermediates[i] = r[k + 1]
<1> DEFINE chain == Chain(input, r, n)
           top == Top(r, n)
           anchor == AnchorNamed(input.anchors, r[n].issuer)
<1>1. /\ r \in [0 .. n -> Pool(input)] /\ r[0] = input.leaf /\ anchor # None
      /\ \A k \in 0 .. n - 1 :
           /\ r[k + 1] \in ToSet(input.intermediates) /\ r[k + 1].subject = r[k].issuer
           /\ ~ SelfIssued(r[k]) /\ AnchorNamed(input.anchors, r[k].issuer) = None
  BY DEF Routes
<1>2. /\ SelfIssued(r[n]) => top = n
      /\ ~ SelfIssued(r[n]) => top = n + 1
      /\ \A k \in 0 .. n : k \in 0 .. top /\ k <= n
      /\ \A k \in 0 .. top : k \in 0 .. n \/ (k = n + 1 /\ ~ (k <= n) /\ ~ SelfIssued(r[n]))
  BY DEF Top
<1>3. \A k \in 0 .. n : chain[k] = r[k] /\ r[k] \in Pool(input)
  BY <1>1, <1>2 DEF Chain
<1>4. anchor[1] \in DOMAIN input.anchors
  BY <1>1, InputParts, AnchorIs DEF Some
<1>5. input.anchors[anchor[1]] \in Certificate /\ SaysNothing(input.anchors[anchor[1]])
  BY <1>4, InputParts DEF Unlimited, SaysNothing, ToSet
<1>6. \A c \in Pool(input) : c \in Certificate /\ SaysNothing(c)
  BY InputParts DEF Unlimited, SaysNothing
<1>7. ~ SelfIssued(r[n]) => chain[n + 1] = input.anchors[anchor[1]]
  <2>1. ~ SelfIssued(r[n]) => n + 1 \in 0 .. top /\ ~ (n + 1 <= n)
    BY <1>2
  <2> QED  BY <2>1 DEF Chain
<1>8. \A k \in 0 .. top : chain[k] \in Certificate /\ SaysNothing(chain[k])
  BY <1>2, <1>3, <1>5, <1>6, <1>7
<1>9. \A k \in 0 .. n - 1 : \E i \in Candidates(input, r[k]) : input.intermediates[i] = r[k + 1]
  <2> SUFFICES ASSUME NEW k \in 0 .. n - 1
               PROVE  \E i \in Candidates(input, r[k]) : input.intermediates[i] = r[k + 1]
    OBVIOUS
  <2>1. PICK i \in DOMAIN input.intermediates : input.intermediates[i] = r[k + 1]
    BY <1>1 DEF ToSet
  <2> QED  BY <1>1, <2>1 DEF Candidates
<1> HIDE DEF chain, top
<1> QED  BY <1>1, <1>2, <1>3, <1>7, <1>8, <1>9 DEF chain, top

\* The checks from one certificate of a route up.
AllOK(input, r, n, h) ==
  /\ \A k \in h .. n : HopOK(input, Chain(input, r, n), k)
  /\ \A k \in h .. Top(r, n) - 1 : LinkOK(input, Chain(input, r, n), k)

LEMMA PathIs ==
  ASSUME NEW input \in ChainInput, Unlimited(input), NEW n \in Nat, NEW r \in Routes(input, n)
  PROVE  PathOK(input, r, n) <=> AllOK(input, r, n, 0)
<1> DEFINE chain == Chain(input, r, n)
           top == Top(r, n)
           o == input.options
<1>1. /\ \A k \in 0 .. n : chain[k] = r[k]
      /\ r[0] = input.leaf
      /\ top = n \/ top = n + 1
  BY RouteIs
<1>2. chain[0] = input.leaf
  BY <1>1
<1> HIDE DEF chain, top
<1>3. /\ top \in Nat /\ 0 \in 0 .. n /\ n \in 0 .. n /\ 0 \in 0 .. top
      /\ \A k \in 0 .. n : k \in 0 .. top
      /\ \A k \in 0 .. top - 1 : k \in 0 .. n /\ k + 1 \in 0 .. top /\ k \in Nat
      /\ \A k \in 0 .. top : k \in 0 .. n \/ (k - 1 \in 0 .. top - 1 /\ (k - 1) + 1 = k)
      /\ \A k \in 0 .. n : \A j \in 0 .. k - 1 : j \in 0 .. n /\ j # k
      /\ \A i, j \in 0 .. n : i # j => i \in 0 .. j - 1 \/ j \in 0 .. i - 1
  BY <1>1
<1>4. PathOK(input, r, n) <=>
        /\ \A k \in 0 .. top : InTime(chain[k], input.now) /\ Meets(chain[k], o)
        /\ ToSet(o.eku) \subseteq input.leaf.eku
        /\ \A i, j \in 0 .. n : i # j => chain[i].serial # chain[j].serial
        /\ \A k \in 0 .. top - 1 :
             /\ Certifies(chain[k + 1], chain[k], k)
             /\ input.signatures => Signed(chain[k + 1], chain[k])
        /\ o.inhibitMapping => \A k \in 0 .. top : chain[k].mappings = {}
        /\ o.explicit => Naming(input.leaf) /\ Lines(chain, top) # {}
  <2>1. (\A i, j \in 0 .. n : i # j => r[i].serial # r[j].serial)
          <=> \A i, j \in 0 .. n : i # j => chain[i].serial # chain[j].serial
    BY <1>1
  <2> QED  BY <2>1 DEF PathOK, chain, top
<1>5. ASSUME PathOK(input, r, n)
      PROVE  /\ \A k \in 0 .. n : HopOK(input, chain, k)
             /\ \A k \in 0 .. top - 1 : LinkOK(input, chain, k)
  <2>1. o.explicit => \A k \in 0 .. top : Lines(chain, k) # {}
    BY <1>2, <1>3, <1>4, <1>5, LinesBelow
  <2>2. ASSUME NEW k \in 0 .. n PROVE HopOK(input, chain, k)
    <3>1. k \in 0 .. top /\ \A j \in 0 .. k - 1 : j \in 0 .. n /\ j # k
      BY <1>3
    <3>2. \A j \in 0 .. k - 1 : chain[k].serial # chain[j].serial
      BY <1>4, <1>5, <3>1
    <3>3. InTime(chain[k], input.now) /\ Meets(chain[k], o)
      BY <1>4, <1>5, <3>1
    <3>4. k = 0 => ToSet(o.eku) \subseteq chain[k].eku
      BY <1>2, <1>4, <1>5
    <3>5. AsOptions(input, chain, k)
      BY <1>4, <1>5, <2>1, <3>1 DEF AsOptions
    <3> QED  BY <3>2, <3>3, <3>4, <3>5 DEF HopOK
  <2>3. ASSUME NEW k \in 0 .. top - 1 PROVE LinkOK(input, chain, k)
    <3>1. k \in 0 .. top /\ k + 1 \in 0 .. top
      BY <1>3
    <3>2. InTime(chain[k + 1], input.now) /\ Meets(chain[k + 1], o)
      BY <1>4, <1>5, <3>1
    <3>3. o.inhibitMapping => chain[k].mappings = {} /\ chain[k + 1].mappings = {}
      BY <1>4, <1>5, <3>1
    <3>4. o.explicit => Lines(chain, k + 1) # {}
      BY <2>1, <3>1
    <3>5. /\ Certifies(chain[k + 1], chain[k], k)
          /\ input.signatures => Signed(chain[k + 1], chain[k])
      BY <1>4, <1>5
    <3> QED  BY <3>2, <3>3, <3>4, <3>5 DEF LinkOK
  <2> QED  BY <2>2, <2>3
<1>6. ASSUME \A k \in 0 .. n : HopOK(input, chain, k),
             \A k \in 0 .. top - 1 : LinkOK(input, chain, k)
      PROVE  PathOK(input, r, n)
  <2>1. ASSUME NEW k \in 0 .. top
        PROVE  /\ InTime(chain[k], input.now) /\ Meets(chain[k], o)
               /\ o.inhibitMapping => chain[k].mappings = {}
               /\ o.explicit => Lines(chain, k) # {}
    <3>1. CASE k \in 0 .. n
      BY <1>6, <3>1 DEF HopOK, AsOptions
    <3>2. CASE k - 1 \in 0 .. top - 1 /\ (k - 1) + 1 = k
      <4>1. LinkOK(input, chain, k - 1)
        BY <1>6, <3>2
      <4> QED  BY <3>2, <4>1 DEF LinkOK
    <3> QED  BY <1>3, <3>1, <3>2
  <2>2. ToSet(o.eku) \subseteq input.leaf.eku
    BY <1>2, <1>3, <1>6 DEF HopOK
  <2>3. ASSUME NEW i \in 0 .. n, NEW j \in 0 .. n, i # j
        PROVE  chain[i].serial # chain[j].serial
    <3>1. i \in 0 .. j - 1 \/ j \in 0 .. i - 1
      BY <1>3, <2>3
    <3> QED  BY <1>6, <3>1 DEF HopOK
  <2>4. \A k \in 0 .. top - 1 : /\ Certifies(chain[k + 1], chain[k], k)
                                /\ input.signatures => Signed(chain[k + 1], chain[k])
    BY <1>6 DEF LinkOK
  <2>5. o.explicit => Naming(input.leaf) /\ Lines(chain, top) # {}
    <3>1. o.explicit => Lines(chain, 0) # {} /\ Lines(chain, top) # {}
      <4>1. top \in 0 .. top
        BY <1>3
      <4> QED  BY <1>3, <2>1, <4>1
    <3>2. \A j \in 0 .. 0 : j = 0
      OBVIOUS
    <3> QED  BY <1>2, <3>1, <3>2, NoLines
  <2> QED  BY <1>4, <2>1, <2>2, <2>3, <2>4, <2>5
<1> QED  BY <1>5, <1>6 DEF AllOK, chain, top
-----------------------------------------------------------------------------
(***************************************************************************)
(* The search is complete: from any certificate of an acceptable route it  *)
(* accepts, if it has come there along the route.                          *)
(***************************************************************************)
LEMMA RouteAccepted ==
  ASSUME NEW input \in ChainInput, Unlimited(input), WellFormedTime(input.now),
         NEW n \in 0 .. MaxHops, NEW r \in Routes(input, n), AllOK(input, r, n, 0)
  PROVE  ChainSteps(input)[0][<<input.leaf, InitialState(input.options)>>].ok
<1> DEFINE chain == Chain(input, r, n)
           top == Top(r, n)
           o == input.options
           anchor == AnchorNamed(input.anchors, r[n].issuer)
           State(h) == StateAt(o, chain, h)
           S == {h \in 0 .. MaxHops + 1 :
                   h <= n => ChainSteps(input)[h][<<r[h], State(h)>>].ok}
<1>0. MaxHops \in Nat /\ n \in Nat /\ n <= MaxHops
  BY ChainAssumption
<1>1. /\ \A k \in 0 .. n : chain[k] = r[k] /\ r[k] \in Pool(input)
      /\ \A k \in 0 .. top : chain[k] \in Certificate /\ SaysNothing(chain[k])
      /\ r[0] = input.leaf /\ anchor # None
      /\ SelfIssued(r[n]) => top = n
      /\ ~ SelfIssued(r[n]) => top = n + 1 /\ chain[n + 1] = input.anchors[anchor[1]]
      /\ \A k \in 0 .. n - 1 :
           /\ ~ SelfIssued(r[k]) /\ AnchorNamed(input.anchors, r[k].issuer) = None
           /\ \E i \in Candidates(input, r[k]) : input.intermediates[i] = r[k + 1]
  BY <1>0, RouteIs
<1>2. /\ \A k \in 0 .. n : HopOK(input, chain, k)
      /\ \A k \in 0 .. top - 1 : LinkOK(input, chain, k)
  BY DEF AllOK
<1> HIDE DEF chain, top, anchor
<1>3. MaxHops + 1 \in S
  BY <1>0
<1>4. ASSUME NEW h \in 0 .. MaxHops, h + 1 \in S PROVE h \in S
  <2>1. h \in Nat /\ h \in 0 .. MaxHops + 1 /\ h + 1 \in 0 .. MaxHops + 1
    BY <1>0
  <2>2. SUFFICES ASSUME h <= n PROVE ChainSteps(input)[h][<<r[h], State(h)>>].ok
    BY <2>1
  <2> DEFINE c == r[h]
             state == State(h)
             reached == Reached(state, c)
             above == ChainSteps(input)[h + 1]
             result == ChainStep(c, input, h, state, above)
  <2>3. h \in 0 .. n /\ h \in 0 .. top /\ \A j \in 0 .. h : j \in 0 .. top
    BY <1>0, <1>1, <2>1, <2>2
  <2>4. c = chain[h] /\ c \in Pool(input) /\ c \in Certificate /\ SaysNothing(c)
    BY <1>1, <2>3
  <2>5. state \in PathState
    BY <1>1, <2>1, <2>3, StateType
  <2>6. ChainSteps(input)[h][<<c, state>>] = result
    BY <2>1, <2>4, <2>5, StepAt
  <2>7. StepError(c, input, h, state, reached) = "none"
    BY <1>0, <1>2, <2>1, <2>2, <2>3, <2>4, HopIs
  <2>8. reached = ReachedAt(o, chain, h)
    BY <2>1, <2>4, ReachedIs
  <2>9. CASE SelfIssued(c)
    <3>1. h = n
      <4>1. h \notin 0 .. n - 1
        BY <1>1, <2>9
      <4> QED  BY <1>0, <2>1, <2>2, <4>1
    <3>2. AnchorNamed(input.anchors, c.issuer) # None
      BY <1>1, <3>1 DEF anchor
    <3>3. result.ok
      <4> HIDE DEF c, state, reached, above
      <4> QED  BY <2>1, <2>7, <2>9, <3>2, StepCases DEF reached
    <3> QED  BY <2>6, <3>3
  <2>10. CASE ~ SelfIssued(c) /\ h = n
    <3>1. /\ top = h + 1 /\ chain[h + 1] = input.anchors[anchor[1]]
          /\ AnchorNamed(input.anchors, c.issuer) = anchor
      BY <1>1, <2>10 DEF anchor
    <3>2. /\ h \in 0 .. top - 1 /\ h + 1 \in 0 .. top
      BY <2>1, <3>1
    <3>3. LinkOK(input, chain, h) /\ chain[h + 1] \in Certificate /\ SaysNothing(chain[h + 1])
      BY <1>1, <1>2, <3>2
    <3>4. LinkError(c, chain[h + 1], input, h, WithIssuer(reached, chain[h + 1])) = "none"
      BY <2>1, <2>4, <2>8, <3>3, LinkedIs
    <3>5. result.ok
      <4> DEFINE issuer == chain[h + 1]
      <4>1. LinkError(c, issuer, input, h, WithIssuer(reached, issuer)) = "none"
        BY <3>4
      <4> HIDE DEF c, state, reached, above, issuer
      <4>2. input.anchors[AnchorNamed(input.anchors, c.issuer)[1]] = issuer
        BY <3>1 DEF issuer
      <4>3. AnchorNamed(input.anchors, c.issuer) # None
        BY <1>1, <3>1
      <4> QED  BY <2>1, <2>7, <2>10, <4>1, <4>2, <4>3, StepCases DEF reached
    <3> QED  BY <2>6, <3>5
  <2>11. CASE ~ SelfIssued(c) /\ h # n
    <3>1. h \in 0 .. n - 1 /\ h + 1 \in 0 .. n /\ h + 1 <= n
      BY <1>0, <2>1, <2>2, <2>11
    <3>2. h \in 0 .. top - 1 /\ h + 1 \in 0 .. top /\ chain[h + 1] = r[h + 1]
      BY <1>0, <1>1, <3>1
    <3>3. AnchorNamed(input.anchors, c.issuer) = None
      BY <1>1, <3>1
    <3>4. PICK i \in Candidates(input, c) : input.intermediates[i] = chain[h + 1]
      BY <1>1, <3>1, <3>2
    <3>5. LinkOK(input, chain, h) /\ chain[h + 1] \in Certificate /\ SaysNothing(chain[h + 1])
      BY <1>1, <1>2, <3>2
    <3>6. LinkError(c, chain[h + 1], input, h, WithIssuer(reached, chain[h + 1])) = "none"
      BY <2>1, <2>4, <2>8, <3>5, LinkedIs
    <3>7. Passed(WithIssuer(reached, chain[h + 1]), c) = State(h + 1)
      <4>1. WithIssuer(reached, chain[h + 1]) = WithIssuerAt(o, chain, h)
        BY <2>1, <2>8, <3>5, WithIssuerIs
      <4> QED  BY <2>1, <2>4, <4>1, PassedIs
    <3>8. above[<<chain[h + 1], Passed(WithIssuer(reached, chain[h + 1]), c)>>].ok
      BY <1>4, <3>1, <3>2, <3>7
    <3>9. result.ok
      <4> DEFINE issuer == chain[h + 1]
      <4>1. /\ LinkError(c, issuer, input, h, WithIssuer(reached, issuer)) = "none"
            /\ above[<<issuer, Passed(WithIssuer(reached, issuer), c)>>].ok
            /\ input.intermediates[i] = issuer
        BY <3>4, <3>6, <3>8
      <4> HIDE DEF c, state, reached, above, issuer
      <4> QED  BY <2>1, <2>7, <2>11, <3>3, <3>4, <4>1, StepCases DEF reached
    <3> QED  BY <2>6, <3>9
  <2> QED  BY <2>9, <2>10, <2>11
<1>5. 0 \in S
  <2> HIDE DEF S
  <2>1. \A h \in 0 .. MaxHops + 1 : h \in S
    BY <1>3, <1>4, Downward
  <2> QED  BY <1>0, <2>1
<1>6. ChainSteps(input)[0][<<r[0], State(0)>>].ok
  BY <1>0, <1>5
<1> QED  BY <1>1, <1>6, InitialIs
(***************************************************************************)
(* The search is sound: what it accepts, having come along the beginning   *)
(* of a route, is an acceptable route with that beginning, and what it     *)
(* reports is of that route.                                               *)
(***************************************************************************)
Beginnings(input, h) ==
  {p \in [0 .. h -> Pool(input)] :
     /\ p[0] = input.leaf
     /\ \A k \in 0 .. h - 1 :
          /\ p[k + 1] \in ToSet(input.intermediates)
          /\ p[k + 1].subject = p[k].issuer
          /\ ~ SelfIssued(p[k])
          /\ AnchorNamed(input.anchors, p[k].issuer) = None}

Reports(input, v, r, n) ==
  /\ v.length = Top(r, n) + 1
  /\ input.anchors[v.anchor].subject = r[n].issuer
  /\ v.policies = Lines(Chain(input, r, n), Top(r, n))

Found(input, p, h, v) ==
  \E n \in h .. MaxHops : \E r \in Routes(input, n) :
    /\ \A k \in 0 .. h : r[k] = p[k]
    /\ AllOK(input, r, n, h) /\ Reports(input, v, r, n)

\* A beginning that is a whole route.
LEMMA WholeRoute ==
  ASSUME NEW input, NEW h \in Nat, NEW p \in Beginnings(input, h),
         AnchorNamed(input.anchors, p[h].issuer) # None
  PROVE  p \in Routes(input, h)
BY DEF Beginnings, Routes

\* A beginning and one certificate more.
LEMMA LongerBeginning ==
  ASSUME NEW input \in ChainInput, NEW h \in Nat, NEW p \in Beginnings(input, h),
         ~ SelfIssued(p[h]), AnchorNamed(input.anchors, p[h].issuer) = None,
         NEW i \in Candidates(input, p[h])
  PROVE  LET longer == [k \in 0 .. h + 1 |-> IF k = h + 1 THEN input.intermediates[i]
                                             ELSE p[k]] IN
         /\ longer \in Beginnings(input, h + 1)
         /\ longer[h + 1] = input.intermediates[i]
         /\ \A k \in 0 .. h : longer[k] = p[k]
<1> DEFINE cert == input.intermediates[i]
           longer == [k \in 0 .. h + 1 |-> IF k = h + 1 THEN cert ELSE p[k]]
<1>1. /\ p \in [0 .. h -> Pool(input)] /\ p[0] = input.leaf
      /\ \A k \in 0 .. h - 1 :
           /\ p[k + 1] \in ToSet(input.intermediates) /\ p[k + 1].subject = p[k].issuer
           /\ ~ SelfIssued(p[k]) /\ AnchorNamed(input.anchors, p[k].issuer) = None
  BY DEF Beginnings
<1>2. /\ cert \in Pool(input) /\ cert \in ToSet(input.intermediates)
      /\ cert.subject = p[h].issuer
  BY InputParts DEF Candidates
<1> HIDE DEF cert
<1>3. /\ h + 1 \in 0 .. h + 1 /\ 0 \in 0 .. h
      /\ \A k \in 0 .. h : k \in 0 .. h + 1 /\ k # h + 1
      /\ \A k \in 0 .. h + 1 : k # h + 1 => k \in 0 .. h
      /\ \A k \in 0 .. (h + 1) - 1 :
           k \in 0 .. h /\ (k # h => k \in 0 .. h - 1 /\ k + 1 \in 0 .. h)
  OBVIOUS
<1>4. longer[h + 1] = cert /\ \A k \in 0 .. h : longer[k] = p[k]
  BY <1>3
<1>5. longer \in [0 .. h + 1 -> Pool(input)]
  BY <1>1, <1>2, <1>3
<1> HIDE DEF longer
<1>6. ASSUME NEW k \in 0 .. (h + 1) - 1
      PROVE  /\ longer[k + 1] \in ToSet(input.intermediates)
             /\ longer[k + 1].subject = longer[k].issuer
             /\ ~ SelfIssued(longer[k])
             /\ AnchorNamed(input.anchors, longer[k].issuer) = None
  <2>1. CASE k = h
    BY <1>2, <1>3, <1>4, <2>1
  <2>2. CASE k # h
    BY <1>1, <1>3, <1>4, <2>2
  <2> QED  BY <2>1, <2>2
<1>7. longer \in Beginnings(input, h + 1)
  BY <1>1, <1>3, <1>4, <1>5, <1>6 DEF Beginnings
<1> QED  BY <1>4, <1>7 DEF longer, cert

LEMMA AcceptedFound ==
  ASSUME NEW input \in ChainInput, Unlimited(input), WellFormedTime(input.now)
  PROVE  \A h \in 0 .. MaxHops + 1 : \A p \in Beginnings(input, h) :
           LET v == ChainSteps(input)[h][<<p[h], StateAt(input.options, p, h)>>] IN
           v.ok => Found(input, p, h, v)
<1> DEFINE o == input.options
           At(h, p) == ChainSteps(input)[h][<<p[h], StateAt(o, p, h)>>]
           S == {h \in 0 .. MaxHops + 1 :
                   \A p \in Beginnings(input, h) : At(h, p).ok => Found(input, p, h, At(h, p))}
<1>0. MaxHops \in Nat
  BY ChainAssumption
<1>1. ASSUME NEW h \in Nat, NEW p \in Beginnings(input, h)
      PROVE  /\ \A k \in 0 .. h : /\ p[k] \in Pool(input) /\ p[k] \in Certificate
                                  /\ SaysNothing(p[k])
             /\ StateAt(o, p, h) \in PathState
  <2>1. \A k \in 0 .. h : p[k] \in Pool(input)
    BY DEF Beginnings
  <2>2. \A c \in Pool(input) : c \in Certificate /\ SaysNothing(c)
    BY InputParts DEF Unlimited, SaysNothing
  <2> QED  BY <2>1, <2>2, StateType
<1>2. MaxHops + 1 \in S
  <2>1. MaxHops + 1 \in Nat /\ MaxHops + 1 \in 0 .. MaxHops + 1
    BY <1>0
  <2>2. \A p \in Beginnings(input, MaxHops + 1) : ~ At(MaxHops + 1, p).ok
    BY <1>1, <2>1, StepAt
  <2> QED  BY <2>1, <2>2
<1>3. ASSUME NEW h \in 0 .. MaxHops, h + 1 \in S PROVE h \in S
  <2>1. h \in Nat /\ h \in 0 .. MaxHops + 1 /\ h + 1 \in 0 .. MaxHops + 1 /\ h + 1 \in Nat
        /\ h \in h .. MaxHops
    BY <1>0
  <2>2. SUFFICES ASSUME NEW p \in Beginnings(input, h), At(h, p).ok
                 PROVE  Found(input, p, h, At(h, p))
    BY <2>1
  <2> DEFINE c == p[h]
             state == StateAt(o, p, h)
             reached == Reached(state, c)
             above == ChainSteps(input)[h + 1]
             result == ChainStep(c, input, h, state, above)
             anchor == AnchorNamed(input.anchors, c.issuer)
             issuer == input.anchors[anchor[1]]
  <2>3. h \in 0 .. h
    BY <2>1
  <2>4. c \in Pool(input) /\ c \in Certificate /\ SaysNothing(c) /\ state \in PathState
    BY <1>1, <2>1, <2>3
  <2>5. At(h, p) = result /\ result.ok
    BY <2>1, <2>2, <2>4, StepAt
  <2>6. StepError(c, input, h, state, reached) = "none"
    <3> HIDE DEF state, c
    <3> QED  BY <2>1, <2>5, StepCases
  <2>7. HopOK(input, p, h)
    BY <2>1, <2>4, <2>6, HopIs
  <2>8. reached = ReachedAt(o, p, h)
    BY <2>1, <2>4, ReachedIs
  \* The anchor found is the one reported.
  <2>9. ASSUME anchor # None PROVE issuer.subject = c.issuer /\ p \in Routes(input, h)
    BY <2>1, <2>9, InputParts, AnchorIs, WholeRoute DEF Some
  <2>10. ASSUME anchor # None
         PROVE  /\ \A k \in 0 .. h : Chain(input, p, h)[k] = p[k]
                /\ Lines(Chain(input, p, h), h) = Lines(p, h)
                /\ ReachedAt(o, p, h) = ReachedAt(o, Chain(input, p, h), h)
                /\ HopOK(input, Chain(input, p, h), h)
    <3>1. \A k \in 0 .. h : Chain(input, p, h)[k] = p[k]
      BY <2>1, <2>9, <2>10, RouteIs
    <3>2. \A k \in 0 .. h : p[k] = Chain(input, p, h)[k]
      BY <3>1
    <3> QED  BY <2>1, <2>7, <3>1, <3>2, LinesAgree, StatesAgree, ChecksAgree
  <2>11. CASE SelfIssued(c)
    <3>1. anchor # None /\ result = Report(h + 1, anchor[1], reached)
      <4> HIDE DEF state, c, result
      <4> QED  BY <2>1, <2>5, <2>6, <2>11, StepCases DEF result
    <3>2. Top(p, h) = h
      BY <2>1, <2>9, <2>11, <3>1, RouteIs
    <3>3. Policies(reached.effective) = Lines(p, h)
      <4>1. reached.effective = EffectiveAt(p, h)
        BY <2>8 DEF ReachedAt, Carried
      <4> QED  BY <2>1, <4>1, EffectiveIs
    <3>4. Reports(input, result, p, h)
      <4>1. /\ result.length = h + 1 /\ result.anchor = anchor[1]
            /\ result.policies = Lines(p, h)
        BY <3>1, <3>3 DEF Report
      <4> HIDE DEF result
      <4> QED  BY <2>9, <2>10, <3>1, <3>2, <4>1 DEF Reports
    <3>5. AllOK(input, p, h, h)
      <4>1. /\ \A k \in h .. h : k = h
            /\ \A k \in h .. h - 1 : FALSE
        BY <2>1
      <4> QED  BY <2>10, <3>1, <3>2, <4>1 DEF AllOK
    <3> HIDE DEF At, result, anchor
    <3> QED  BY <2>1, <2>5, <2>9, <3>1, <3>4, <3>5 DEF Found
  <2>12. CASE ~ SelfIssued(c) /\ anchor # None
    <3> DEFINE chain == Chain(input, p, h)
    <3>1. /\ result = Report(h + 2, anchor[1], WithIssuer(reached, issuer))
          /\ LinkError(c, issuer, input, h, WithIssuer(reached, issuer)) = "none"
      <4> HIDE DEF state, c, result
      <4> QED  BY <2>1, <2>5, <2>6, <2>12, StepCases DEF result
    <3>2. /\ Top(p, h) = h + 1 /\ chain[h + 1] = issuer /\ chain[h] = c
          /\ issuer \in Certificate /\ SaysNothing(issuer)
      <4>1. Top(p, h) = h + 1 /\ chain[h + 1] = issuer
        BY <2>1, <2>9, <2>12, RouteIs
      <4>2. h + 1 \in 0 .. Top(p, h)
        BY <2>1, <4>1
      <4>3. chain[h + 1] \in Certificate /\ SaysNothing(chain[h + 1])
        BY <2>1, <2>9, <2>12, <4>2, RouteIs
      <4> QED  BY <2>3, <2>10, <2>12, <4>1, <4>3
    <3>3. reached = ReachedAt(o, chain, h)
      BY <2>8, <2>10, <2>12
    <3>4. LinkOK(input, chain, h)
      <4> HIDE DEF chain, issuer, reached, c
      <4>1. LinkError(chain[h], chain[h + 1], input, h,
                      WithIssuer(ReachedAt(o, chain, h), chain[h + 1])) = "none"
        BY <3>1, <3>2, <3>3
      <4>2. chain[h + 1] \in Certificate /\ SaysNothing(chain[h + 1])
        BY <3>2
      <4> QED  BY <2>1, <4>1, <4>2, LinkedIs
    <3>5. Policies(WithIssuer(reached, issuer).effective) = Lines(chain, h + 1)
      <4> HIDE DEF chain, issuer, reached
      <4>1. WithIssuer(reached, issuer) = WithIssuerAt(o, chain, h)
        BY <2>1, <3>2, <3>3, WithIssuerIs
      <4>2. WithIssuer(reached, issuer).effective = EffectiveAt(chain, h + 1)
        BY <4>1 DEF WithIssuerAt, Carried
      <4> QED  BY <2>1, <4>2, EffectiveIs
    <3>6. Reports(input, result, p, h)
      <4>1. /\ result.length = h + 2 /\ result.anchor = anchor[1]
            /\ result.policies = Lines(chain, h + 1)
        BY <3>1, <3>5 DEF Report
      <4>2. h + 2 = Top(p, h) + 1
        BY <2>1, <3>2
      <4> HIDE DEF result
      <4> QED  BY <2>9, <2>12, <3>2, <4>1, <4>2 DEF Reports
    <3>7. AllOK(input, p, h, h)
      <4>1. /\ \A k \in h .. h : k = h
            /\ \A k \in h .. (h + 1) - 1 : k = h
        BY <2>1
      <4> QED  BY <2>10, <2>12, <3>2, <3>4, <4>1 DEF AllOK
    <3> HIDE DEF At, result, anchor
    <3> QED  BY <2>1, <2>5, <2>9, <2>12, <3>6, <3>7 DEF Found
  <2>13. CASE ~ SelfIssued(c) /\ anchor = None
    <3> DEFINE With(i) == input.intermediates[i]
               Next(i) == WithIssuer(reached, With(i))
               Up(i) == above[<<With(i), Passed(Next(i), c)>>]
    <3>1. PICK i \in Candidates(input, c) :
            /\ LinkError(c, With(i), input, h, Next(i)) = "none"
            /\ Up(i).ok /\ result = Up(i)
      <4> HIDE DEF state, c, result
      <4> QED  BY <2>1, <2>5, <2>6, <2>13, StepCases DEF result
    <3> DEFINE longer == [k \in 0 .. h + 1 |-> IF k = h + 1 THEN With(i) ELSE p[k]]
    <3>2. /\ longer \in Beginnings(input, h + 1) /\ longer[h + 1] = With(i)
          /\ \A k \in 0 .. h : longer[k] = p[k]
      BY <2>1, <2>13, LongerBeginning
    <3> HIDE DEF longer
    <3>3. /\ longer[h] = c /\ With(i) \in Certificate /\ SaysNothing(With(i))
          /\ \A k \in 0 .. h : p[k] = longer[k]
      <4>1. h + 1 \in 0 .. h + 1
        BY <2>1
      <4>2. longer[h + 1] \in Certificate /\ SaysNothing(longer[h + 1])
        BY <1>1, <2>1, <3>2, <4>1
      <4> QED  BY <2>3, <3>2, <4>2
    <3>4. reached = ReachedAt(o, longer, h)
      BY <2>1, <2>8, <3>3, StatesAgree
    <3> HIDE DEF reached, c, With
    <3>5. LinkOK(input, longer, h)
      <4>1. LinkError(longer[h], longer[h + 1], input, h,
                      WithIssuer(ReachedAt(o, longer, h), longer[h + 1])) = "none"
        BY <3>1, <3>2, <3>3, <3>4
      <4>2. longer[h + 1] \in Certificate /\ SaysNothing(longer[h + 1])
        BY <3>2, <3>3
      <4> QED  BY <2>1, <4>1, <4>2, LinkedIs
    <3>6. Passed(Next(i), c) = StateAt(o, longer, h + 1)
      <4>1. Next(i) = WithIssuerAt(o, longer, h)
        BY <2>1, <3>2, <3>3, <3>4, WithIssuerIs
      <4> QED  BY <2>1, <3>3, <4>1, PassedIs
    <3>7. At(h + 1, longer) = result
      BY <3>1, <3>2, <3>6
    <3>8. Found(input, longer, h + 1, result)
      <4> HIDE DEF At, result, Up
      <4> QED  BY <1>3, <3>1, <3>2, <3>7, <2>5
    <3> HIDE DEF result, At, Up, anchor
    <3>9. PICK n \in h + 1 .. MaxHops :
            \E r \in Routes(input, n) :
              /\ \A k \in 0 .. h + 1 : r[k] = longer[k]
              /\ AllOK(input, r, n, h + 1) /\ Reports(input, result, r, n)
      BY <3>8 DEF Found
    <3>10. PICK r \in Routes(input, n) :
             /\ \A k \in 0 .. h + 1 : r[k] = longer[k]
             /\ AllOK(input, r, n, h + 1) /\ Reports(input, result, r, n)
      BY <3>9
    <3> DEFINE chain == Chain(input, r, n)
    <3>11. /\ n \in Nat /\ n \in h .. MaxHops
           /\ \A k \in 0 .. h : k \in 0 .. h + 1 /\ k \in 0 .. n
           /\ h + 1 \in 0 .. n /\ h + 1 \in 0 .. h + 1
      BY <1>0, <2>1
    <3>12. /\ \A k \in 0 .. n : chain[k] = r[k]
           /\ Top(r, n) = n \/ Top(r, n) = n + 1
      BY <3>11, RouteIs
    <3>13. /\ \A k \in 0 .. h : longer[k] = chain[k] /\ p[k] = chain[k]
           /\ longer[h + 1] = chain[h + 1]
      BY <3>3, <3>10, <3>11, <3>12
    <3>14. HopOK(input, chain, h)
      BY <2>1, <2>7, <3>13, ChecksAgree
    <3>15. LinkOK(input, chain, h)
      BY <2>1, <3>5, <3>13, ChecksAgree
    <3>16. AllOK(input, r, n, h)
      <4>1. /\ \A k \in h .. n : k = h \/ k \in h + 1 .. n
            /\ \A k \in h .. Top(r, n) - 1 : k = h \/ k \in h + 1 .. Top(r, n) - 1
        BY <2>1, <3>11, <3>12
      <4> QED  BY <3>10, <3>14, <3>15, <4>1 DEF AllOK
    <3>17. \A k \in 0 .. h : r[k] = p[k]
      BY <3>3, <3>10, <3>11
    <3> QED  BY <2>5, <3>10, <3>11, <3>16, <3>17 DEF Found
  <2> HIDE DEF At, anchor, c
  <2> QED  BY <2>11, <2>12, <2>13
<1>4. \A h \in 0 .. MaxHops + 1 : h \in S
  <2> HIDE DEF S
  <2> QED  BY <1>2, <1>3, Downward
<1> QED  BY <1>4
(***************************************************************************)
(* What is returned for any input is what its acceptable paths say.        *)
(***************************************************************************)
LEMMA VerdictIs ==
  ASSUME NEW input \in ChainInput, Unlimited(input)
  PROVE  LET v == ValidateCertificateChain(input) IN
         /\ v.ok => \E n \in 0 .. MaxHops : \E r \in Routes(input, n) :
                      PathOK(input, r, n) /\ Reports(input, v, r, n)
         /\ ~ v.ok => \A n \in 0 .. MaxHops : \A r \in Routes(input, n) : ~ PathOK(input, r, n)
<1> DEFINE v == ValidateCertificateChain(input)
           o == input.options
<1>0. 0 \in 0 .. MaxHops + 1 /\ \A n \in 0 .. MaxHops : n \in Nat
  BY ChainAssumption
<1>1. CASE input.anchors = <<>>
  <2>1. ~ v.ok
    BY <1>1 DEF ValidateCertificateChain, Failed
  <2>2. \A name : AnchorNamed(input.anchors, name) = None
    BY <1>1, InputParts, AnchorIs
  <2>3. \A n \in 0 .. MaxHops : Routes(input, n) = {}
    BY <2>2 DEF Routes
  <2> QED  BY <2>1, <2>3
<1>2. CASE input.anchors # <<>> /\ ~ WellFormedTime(input.now)
  <2>1. ~ v.ok
    BY <1>2 DEF ValidateCertificateChain, Failed
  <2>2. ASSUME NEW n \in 0 .. MaxHops, NEW r \in Routes(input, n) PROVE ~ PathOK(input, r, n)
    <3>1. 0 \in 0 .. Top(r, n)
      <4>1. n \in Nat
        BY <1>0
      <4> QED  BY <4>1 DEF Top
    <3>2. ~ InTime(Chain(input, r, n)[0], input.now)
      BY <1>2 DEF InTime
    <3> QED  BY <3>1, <3>2 DEF PathOK
  <2> QED  BY <2>1, <2>2
<1>3. CASE input.anchors # <<>> /\ WellFormedTime(input.now)
  <2>1. v = ChainSteps(input)[0][<<input.leaf, InitialState(o)>>]
    BY <1>3 DEF ValidateCertificateChain
  <2>2. ASSUME NEW n \in 0 .. MaxHops, NEW r \in Routes(input, n), PathOK(input, r, n)
        PROVE  v.ok
    BY <1>0, <1>3, <2>1, <2>2, PathIs, RouteAccepted
  <2>3. ASSUME v.ok
        PROVE  \E n \in 0 .. MaxHops : \E r \in Routes(input, n) :
                 PathOK(input, r, n) /\ Reports(input, v, r, n)
    <3> DEFINE p == [k \in 0 .. 0 |-> input.leaf]
    <3>1. p \in Beginnings(input, 0) /\ p[0] = input.leaf
      <4>1. /\ p \in [0 .. 0 -> Pool(input)] /\ p[0] = input.leaf
            /\ \A k \in 0 .. 0 - 1 : FALSE
        BY InputParts
      <4> HIDE DEF p
      <4> QED  BY <4>1 DEF Beginnings
    <3> HIDE DEF p
    <3>2. v = ChainSteps(input)[0][<<p[0], StateAt(o, p, 0)>>]
      BY <2>1, <3>1, InitialIs
    <3> HIDE DEF v
    <3>3. Found(input, p, 0, v)
      BY <1>0, <1>3, <2>3, <3>1, <3>2, AcceptedFound
    <3>4. PICK n \in 0 .. MaxHops :
            \E r \in Routes(input, n) : AllOK(input, r, n, 0) /\ Reports(input, v, r, n)
      BY <3>3 DEF Found
    <3>5. PICK r \in Routes(input, n) : AllOK(input, r, n, 0) /\ Reports(input, v, r, n)
      BY <3>4
    <3>6. PathOK(input, r, n)
      BY <1>0, <3>5, PathIs
    <3> QED  BY <3>5, <3>6
  <2> QED  BY <2>2, <2>3
<1> QED  BY <1>1, <1>2, <1>3

(***************************************************************************)
(* The search accepts iff some path is acceptable, for any certificates,   *)
(* anchors, options and bound, unless a certificate limits policies itself *)
(* (validate_chain_step, validate_certificate_chain_internal).             *)
(***************************************************************************)
THEOREM AlwaysExact == Spec => []VerdictExact
<1>1. Answered => VerdictExact
  <2> SUFFICES ASSUME Answered, verdict # None, Unlimited(request)
               PROVE  LET v == ValidateCertificateChain(request) IN
                      IF v.ok
                      THEN \E n \in 0 .. MaxHops : \E r \in Routes(request, n) :
                             PathOK(request, r, n) /\ Reports(request, v, r, n)
                      ELSE \A n \in 0 .. MaxHops : \A r \in Routes(request, n) :
                             ~ PathOK(request, r, n)
    <3>1. Answered /\ verdict # None => verdict[1] = ValidateCertificateChain(request)
      BY DEF Answered, Some
    <3> QED  BY <3>1 DEF VerdictExact, Reports
  <2> QED  BY VerdictIs DEF Answered
<1> QED  BY <1>1, AnsweredAlways, PTL
=============================================================================
