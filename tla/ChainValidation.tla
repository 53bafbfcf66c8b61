--------------------------- MODULE ChainValidation --------------------------
(***************************************************************************)
(* Building and checking a certificate chain (noxtls-x509, validate.rs):   *)
(* a depth-first search from the leaf over the certificates at hand, which *)
(* carries the policies and the counters of the path and tries every       *)
(* intermediate certificate whose subject is the issuer wanted.            *)
(*                                                                         *)
(* Certificates are records; names, serials, keys and policies are         *)
(* strings, a DNS name is a sequence of labels, and the key a certificate  *)
(* was signed with is part of it, so that a signature verifies iff that is *)
(* the key of the issuer.  An optional value is a sequence of at most one. *)
(***************************************************************************)
EXTENDS Integers, Sequences, FiniteSets, SequencesExt

CONSTANTS
  MaxHops,    \* 16: certificates after the leaf before the search gives up
  AnyPolicy   \* OID_ANY_POLICY

None == <<>>
Some(x) == <<x>>
Optional(S) == {x \in Seq(S) : Len(x) <= 1}

Time == [form : {"generalized", "utc", "malformed"}, year : Int]
DnsName == Seq(STRING)

Certificate ==
  [subject : STRING, issuer : STRING, serial : STRING,
   notBefore : Time, notAfter : Time,
   ca : BOOLEAN, keyUsage : Optional({"certSign", "noCertSign"}),
   pathLen : Optional(Nat),
   dns : SUBSET DnsName, permitted : SUBSET DnsName, excluded : SUBSET DnsName,
   key : STRING, keyType : STRING, keyDecodes : BOOLEAN,
   algorithm : STRING, tbsAlgorithm : STRING, signedWith : STRING,
   crl : BOOLEAN, aia : BOOLEAN, eku : SUBSET STRING,
   policies : SUBSET STRING, mappings : SUBSET (STRING \X STRING),
   explicit : Optional(Nat), inhibitAny : Optional(Nat),
   inhibitMapping : Optional(Nat)]

ValidationOptions ==
  [policy : Optional(STRING), eku : Optional(STRING), explicit : BOOLEAN, crl : BOOLEAN,
   locator : BOOLEAN, inhibitMapping : BOOLEAN]

ChainInput ==
  [leaf : Certificate, intermediates : Seq(Certificate), anchors : Seq(Certificate),
   now : Time, signatures : BOOLEAN, options : ValidationOptions]

\* ChainValidationState: what a path carries.
PathState ==
  [serials : SUBSET STRING, effective : Optional(SUBSET STRING),
   explicit : Optional(Nat), inhibitAny : Optional(Nat),
   inhibitMapping : Optional(Nat)]

ASSUME ChainAssumption == MaxHops \in Nat

\* The first check that is bad, of a sequence of [bad, error] in the order of
\* the code, or "none".
Check(bad, error) == [bad |-> bad, error |-> error]
FirstError(checks) ==
  LET failing == {i \in DOMAIN checks : checks[i].bad} IN
  IF failing = {} THEN "none" ELSE checks[Min(failing)].error

-----------------------------------------------------------------------------
(***************************************************************************)
(* Checks of one certificate and of a certificate with its issuer.         *)
(***************************************************************************)

\* GeneralizedTime has the year in full, UTCTime two digits of it.
WellFormedTime(t) == t.form \in {"generalized", "utc"}
CanonicalTime(t) ==
  CASE t.form = "generalized" -> t.year
    [] t.form = "utc" -> IF t.year >= 50 THEN 1900 + t.year ELSE 2000 + t.year

TimeError(cert, now) ==
  IF ~ WellFormedTime(cert.notBefore) \/ ~ WellFormedTime(cert.notAfter)
  THEN "InvalidNowTimeFormat"
  ELSE FirstError(<<
         Check(now < CanonicalTime(cert.notBefore), "CertificateNotYetValid"),
         Check(now > CanonicalTime(cert.notAfter), "CertificateExpired")>>)

SelfIssued(cert) == cert.subject = cert.issuer

PolicyAndRevocationError(cert, options, isLeaf) ==
  FirstError(<<
    Check(\E p \in ToSet(options.policy) : p \notin cert.policies,
          "MissingRequiredPolicy"),
    Check(options.crl /\ ~ cert.crl /\ ~ SelfIssued(cert), "MissingRevocationInfo"),
    Check(options.locator /\ ~ cert.crl /\ ~ cert.aia /\ ~ SelfIssued(cert),
          "MissingRevocationLocator"),
    Check(isLeaf /\ \E u \in ToSet(options.eku) : u \notin cert.eku,
          "MissingRequiredExtendedKeyUsage")>>)

\* A faulty variant: one more certificate below is let through.
IssuerErrorLong(issuer, hopsBelow) ==
  FirstError(<<
    Check(~ issuer.ca, "IssuerNotCa"),
    Check(issuer.keyUsage = Some("noCertSign"), "IssuerMissingKeyCertSign"),
    Check(issuer.pathLen # None /\ hopsBelow > issuer.pathLen[1] + 1, "PathLenExceeded")>>)

IssuerError(issuer, hopsBelow) ==
  FirstError(<<
    Check(~ issuer.ca, "IssuerNotCa"),
    Check(issuer.keyUsage = Some("noCertSign"), "IssuerMissingKeyCertSign"),
    Check(issuer.pathLen # None /\ hopsBelow > issuer.pathLen[1], "PathLenExceeded")>>)

\* The constraint is a suffix of the name, on a label boundary.
DnsNameMatchesConstraint(name, constraint) ==
  constraint # <<>> /\ IsSuffix(constraint, name)

NameError(issuer, subject) ==
  LET Within(name, constraints) ==
        \E c \in constraints : DnsNameMatchesConstraint(name, c) IN
  FirstError(<<
    Check(\E name \in subject.dns :
            \/ Within(name, issuer.excluded)
            \/ issuer.permitted # {} /\ ~ Within(name, issuer.permitted),
          "NameConstraintsViolation")>>)

\* The signature algorithms a key of each type verifies.
AlgorithmsOf ==
  [rsa |-> {"sha256WithRsa", "sha384WithRsa", "sha512WithRsa", "rsassaPss"},
   ec |-> {"ecdsaWithSha256"}, ed25519 |-> {"ed25519"}, mldsa65 |-> {"mldsa65"}]

SignatureError(cert, issuer) ==
  FirstError(<<
    Check(cert.tbsAlgorithm # cert.algorithm, "SignatureAlgorithmMismatch"),
    Check(issuer.keyType = "rsa" /\ ~ issuer.keyDecodes, "PublicKeyDecodeFailed"),
    Check(issuer.keyType \notin DOMAIN AlgorithmsOf, "UnsupportedPublicKeyAlgorithm"),
    Check(issuer.keyType \in DOMAIN AlgorithmsOf
            /\ cert.algorithm \notin AlgorithmsOf[issuer.keyType],
          "UnsupportedSignatureAlgorithm"),
    Check(~ issuer.keyDecodes, "PublicKeyDecodeFailed"),
    Check(cert.signedWith # issuer.key, "SignatureVerificationFailed")>>)

-----------------------------------------------------------------------------
(***************************************************************************)
(* Policies and skip counters of a path, from the leaf to the root.        *)
(***************************************************************************)

\* A faulty variant: what the certificate says replaces the counter.
LimitedLast(counter, said) == IF said = None THEN counter ELSE said

\* The smaller of a counter and what a certificate says, if it does.
Limited(counter, said) ==
  IF said = None THEN counter
  ELSE IF counter = None THEN said
  ELSE Some(Min({counter[1], said[1]}))

Active(counter) == counter = Some(0)

Decremented(counter, cert) ==
  IF SelfIssued(cert) \/ counter = None THEN counter
  ELSE Some(Max({0, counter[1] - 1}))

\* anyPolicy is a wildcard unless it is inhibited.
EffectivePolicies(effective, cert, inhibitAny) ==
  IF cert.policies = {} \/ (AnyPolicy \in cert.policies /\ ~ inhibitAny)
  THEN effective
  ELSE Some(IF effective = None THEN cert.policies
            ELSE effective[1] \cap cert.policies)

\* From the subject's domain back to the issuer's; mappings are pairs
\* <<issuer policy, subject policy>>.
Mapped(effective, issuer) ==
  IF effective = None \/ issuer.mappings = {} THEN effective
  ELSE Some({p \in effective[1] : \A m \in issuer.mappings : m[2] # p}
              \cup {m[1] : m \in {m \in issuer.mappings : m[2] \in effective[1]}})

Policies(effective) == IF effective = None THEN {} ELSE effective[1]

\* finalize_effective_policies and enforce_explicit_policy_progress
LacksPolicy(state) == Active(state.explicit) /\ Policies(state.effective) = {}

MappingInhibited(cert, state) == Active(state.inhibitMapping) /\ cert.mappings # {}

\* What a certificate adds to the state of the path.
Applied(state, cert) ==
  LET any == Limited(state.inhibitAny, cert.inhibitAny) IN
  [state EXCEPT
     !.inhibitAny = any,
     !.effective = EffectivePolicies(state.effective, cert, Active(any)),
     !.explicit = Limited(state.explicit, cert.explicit),
     !.inhibitMapping = Limited(state.inhibitMapping, cert.inhibitMapping)]

WithIssuer(state, issuer) ==
  Applied([state EXCEPT !.effective = Mapped(state.effective, issuer)], issuer)

Passed(state, cert) ==
  [state EXCEPT !.inhibitAny = Decremented(state.inhibitAny, cert),
                !.explicit = Decremented(state.explicit, cert),
                !.inhibitMapping = Decremented(state.inhibitMapping, cert)]

InitialState(options) ==
  [serials |-> {}, effective |-> None, inhibitAny |-> None,
   explicit |-> IF options.explicit THEN Some(0) ELSE None,
   inhibitMapping |-> IF options.inhibitMapping THEN Some(0) ELSE None]

-----------------------------------------------------------------------------
(***************************************************************************)
(* The search.                                                             *)
(***************************************************************************)

Failed(error) == [ok |-> FALSE, error |-> error]
Report(length, anchor, state) ==
  [ok |-> TRUE, length |-> length, anchor |-> anchor,
   policies |-> Policies(state.effective)]

\* The checks of a certificate with one issuer; `next' is the state with it.
LinkError(current, issuer, input, hops, next) ==
  LET time == TimeError(issuer, CanonicalTime(input.now))
      policy == PolicyAndRevocationError(issuer, input.options, FALSE)
      constraints == IssuerError(issuer, hops)
      names == NameError(issuer, current)
      signature == SignatureError(current, issuer)
  IN
  FirstError(<<
    Check(time # "none", time),
    Check(policy # "none", policy),
    Check(LacksPolicy(next), "ExplicitPolicyRequired"),
    Check(MappingInhibited(current, next) \/ MappingInhibited(issuer, next),
          "PolicyMappingInhibited"),
    Check(constraints # "none", constraints),
    Check(names # "none", names),
    Check(input.signatures /\ signature # "none", signature)>>)

\* The checks of a certificate when the search reaches it; `reached' is the
\* state with it.
StepError(current, input, hops, state, reached) ==
  LET time == TimeError(current, CanonicalTime(input.now))
      policy == PolicyAndRevocationError(current, input.options, hops = 0)
  IN
  FirstError(<<
    Check(hops > MaxHops, "MaxChainDepthExceeded"),
    Check(time # "none", time),
    Check(policy # "none", policy),
    Check(LacksPolicy(reached), "ExplicitPolicyRequired"),
    Check(MappingInhibited(current, reached), "PolicyMappingInhibited"),
    Check(current.serial \in state.serials, "ChainLoopDetected")>>)

\* The state with the certificate the search has reached.
Reached(state, cert) ==
  [Applied(state, cert) EXCEPT !.serials = state.serials \cup {cert.serial}]

\* The first anchor with this subject, or None.
AnchorNamed(anchors, name) ==
  LET named == {i \in DOMAIN anchors : anchors[i].subject = name} IN
  IF named = {} THEN None ELSE Some(Min(named))

\* The indices of the intermediates that may have issued a certificate.
Candidates(input, current) ==
  {i \in DOMAIN input.intermediates : input.intermediates[i].subject = current.issuer}

\* The first candidate that leads to an anchor, or the error of the last.
FirstAccepted(tried) ==
  LET good == {i \in DOMAIN tried : tried[i].ok} IN
  IF DOMAIN tried = {} THEN Failed("IssuerNotFound")
  ELSE IF good # {} THEN tried[Min(good)]
  ELSE tried[Max(DOMAIN tried)]

\* validate_chain_step for one certificate.  hops: the certificates below
\* current, which is chain_len - 1, ca_hops_below_issuer and hop_count of the
\* code.  Above is what a step with one hop more returns for a certificate
\* and a state.
ChainStep(current, input, hops, state, above) ==
  LET reached == Reached(state, current)
      error == StepError(current, input, hops, state, reached)
      root == AnchorNamed(input.anchors, current.subject)
      anchor == AnchorNamed(input.anchors, current.issuer)
      WithAnchor(issuer, next) ==
        LET linkError == LinkError(current, issuer, input, hops, next) IN
        IF linkError # "none" THEN Failed(linkError)
        ELSE Report(hops + 2, anchor[1], next)
      Tried(issuer, next) ==
        LET linkError == LinkError(current, issuer, input, hops, next) IN
        IF linkError # "none" THEN Failed(linkError)
        ELSE above[<<issuer, Passed(next, current)>>]
      With(i) == input.intermediates[i]
  IN
  IF error # "none" THEN Failed(error)
  ELSE IF SelfIssued(current)
  THEN IF root = None THEN Failed("UntrustedRoot")
       ELSE Report(hops + 1, root[1], reached)
  ELSE IF anchor # None
  THEN WithAnchor(input.anchors[anchor[1]], WithIssuer(reached, input.anchors[anchor[1]]))
  ELSE FirstAccepted([i \in Candidates(input, current) |->
                        Tried(With(i), WithIssuer(reached, With(i)))])

\* The certificates the search may reach.
Pool(input) == {input.leaf} \cup ToSet(input.intermediates)

\* What the steps return, by hops, certificate and state: the recursion of
\* validate_chain_step.
ChainSteps(input) ==
  LET step[hops \in 0 .. MaxHops + 1] ==
        [at \in Pool(input) \X PathState |->
           ChainStep(at[1], input, hops, at[2], step[hops + 1])]
  IN  step

\* validate_certificate_chain_internal
ValidateCertificateChain(input) ==
  IF input.anchors = <<>> THEN Failed("UntrustedRoot")
  ELSE IF ~ WellFormedTime(input.now) THEN Failed("InvalidNowTimeFormat")
  ELSE ChainSteps(input)[0][<<input.leaf, InitialState(input.options)>>]

-----------------------------------------------------------------------------
(***************************************************************************)
(* One validation.                                                         *)
(***************************************************************************)
VARIABLES
  request,  \* its arguments
  verdict   \* what it returns, or None
vars == <<request, verdict>>

Init == request \in ChainInput /\ verdict = None

Validate ==
  /\ verdict = None
  /\ verdict' = Some(ValidateCertificateChain(request))
  /\ UNCHANGED request

Spec == Init /\ [][Validate]_vars

-----------------------------------------------------------------------------
(***************************************************************************)
(* The same verdict without a search.  A route is a function from hops to  *)
(* certificates, from the leaf at 0 by issuer names to the first that an   *)
(* anchor has issued or that has issued itself.                            *)
(***************************************************************************)
Routes(input, n) ==
  {r \in [0 .. n -> Pool(input)] :
     /\ r[0] = input.leaf
     /\ \A k \in 0 .. n - 1 :
          /\ r[k + 1] \in ToSet(input.intermediates)
          /\ r[k + 1].subject = r[k].issuer
          /\ ~ SelfIssued(r[k])
          /\ AnchorNamed(input.anchors, r[k].issuer) = None
     /\ AnchorNamed(input.anchors, r[n].issuer) # None}

\* The index of the last certificate of the chain, and the chain: the route,
\* with the anchor it ends in, unless that is its last certificate.
Top(r, n) == IF SelfIssued(r[n]) THEN n ELSE n + 1
Chain(input, r, n) ==
  [k \in 0 .. Top(r, n) |->
     IF k <= n THEN r[k]
     ELSE input.anchors[AnchorNamed(input.anchors, r[n].issuer)[1]]]

InTime(cert, now) ==
  /\ WellFormedTime(cert.notBefore) /\ WellFormedTime(cert.notAfter) /\ WellFormedTime(now)
  /\ CanonicalTime(cert.notBefore) <= CanonicalTime(now)
  /\ CanonicalTime(now) <= CanonicalTime(cert.notAfter)

Meets(cert, options) ==
  /\ ToSet(options.policy) \subseteq cert.policies
  /\ options.crl => cert.crl \/ SelfIssued(cert)
  /\ options.locator => cert.crl \/ cert.aia \/ SelfIssued(cert)

\* An issuer may certify a subject with so many certificates below it.
Certifies(issuer, subject, below) ==
  /\ issuer.ca /\ issuer.keyUsage # Some("noCertSign")
  /\ issuer.pathLen # None => below <= issuer.pathLen[1]
  /\ \A name \in subject.dns :
       /\ \A c \in issuer.excluded : ~ DnsNameMatchesConstraint(name, c)
       /\ issuer.permitted # {} => \E c \in issuer.permitted : DnsNameMatchesConstraint(name, c)

Signed(issuer, subject) ==
  /\ issuer.key = subject.signedWith /\ issuer.keyDecodes
  /\ subject.algorithm = subject.tbsAlgorithm
  /\ issuer.keyType \in DOMAIN AlgorithmsOf
  /\ subject.algorithm \in AlgorithmsOf[issuer.keyType]

\* The policies an unbroken line of policies leads to, from the first
\* certificate that names some to the one at top; a mapping leads from the
\* subject's policy to the issuer's.
Naming(cert) == cert.policies # {} /\ AnyPolicy \notin cert.policies
From(cert, p) ==
  LET above == {m[1] : m \in {m \in cert.mappings : m[2] = p}} IN
  IF above = {} THEN {p} ELSE above
NamesFirst(chain, first, top) ==
  /\ first \in 0 .. top /\ Naming(chain[first])
  /\ \A k \in 0 .. first - 1 : ~ Naming(chain[k])
LinesFrom(chain, first, top) ==
  LET universe == UNION {chain[k].policies \cup {m[1] : m \in chain[k].mappings} :
                           k \in 0 .. top} IN
  {t \in [first .. top -> universe] :
     /\ t[first] \in chain[first].policies
     /\ \A k \in first + 1 .. top :
          /\ t[k] \in From(chain[k], t[k - 1])
          /\ Naming(chain[k]) => t[k] \in chain[k].policies}
Lines(chain, top) ==
  UNION {{t[top] : t \in LinesFrom(chain, first, top)} :
           first \in {k \in 0 .. top : NamesFirst(chain, k, top)}}

PathOK(input, r, n) ==
  LET chain == Chain(input, r, n) top == Top(r, n) IN
  /\ \A k \in 0 .. top : InTime(chain[k], input.now) /\ Meets(chain[k], input.options)
  /\ ToSet(input.options.eku) \subseteq input.leaf.eku
  /\ \A i, j \in 0 .. n : i # j => r[i].serial # r[j].serial
  /\ \A k \in 0 .. top - 1 :
       /\ Certifies(chain[k + 1], chain[k], k)
       /\ input.signatures => Signed(chain[k + 1], chain[k])
  /\ input.options.inhibitMapping => \A k \in 0 .. top : chain[k].mappings = {}
  /\ input.options.explicit => Naming(input.leaf) /\ Lines(chain, top) # {}

\* No certificate limits policies itself.
Unlimited(input) ==
  \A cert \in Pool(input) \cup ToSet(input.anchors) :
    cert.explicit = None /\ cert.inhibitAny = None /\ cert.inhibitMapping = None

(***************************************************************************)
(* The search accepts iff there is a path that could be accepted, and      *)
(* reports one: whatever failed on the way to it, in whatever order the    *)
(* certificates are given (validate_chain_step).                           *)
(***************************************************************************)
VerdictExact ==
  verdict # None /\ Unlimited(request) =>
    IF verdict[1].ok
    THEN \E n \in 0 .. MaxHops : \E r \in Routes(request, n) :
           /\ PathOK(request, r, n)
           /\ verdict[1].length = Top(r, n) + 1
           /\ request.anchors[verdict[1].anchor].subject = r[n].issuer
           /\ verdict[1].policies = Lines(Chain(request, r, n), Top(r, n))
    ELSE \A n \in 0 .. MaxHops : \A r \in Routes(request, n) : ~ PathOK(request, r, n)

\* The input with no certificate that demands policies or inhibits mappings.
Lenient(cert) == [cert EXCEPT !.explicit = None, !.inhibitMapping = None]
LenientInput(input) ==
  [input EXCEPT !.leaf = Lenient(input.leaf),
     !.intermediates = [i \in DOMAIN input.intermediates |-> Lenient(input.intermediates[i])],
     !.anchors = [i \in DOMAIN input.anchors |-> Lenient(input.anchors[i])]]

(***************************************************************************)
(* What certificates and options demand of policies only adds up: a chain  *)
(* accepted with requireExplicitPolicy or inhibitPolicyMapping in its      *)
(* certificates is accepted without them (update_explicit_policy_skip_certs*)
(* and update_inhibit_policy_mapping_skip_certs).  The search may then     *)
(* find an earlier path.                                                   *)
(***************************************************************************)
LimitsOnlyRestrict ==
  verdict # None /\ verdict[1].ok => ValidateCertificateChain(LenientInput(request)).ok
=============================================================================
