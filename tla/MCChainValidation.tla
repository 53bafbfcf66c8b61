-------------------------- MODULE MCChainValidation -------------------------
(***************************************************************************)
(* Model checking of ChainValidation: one validation per behavior, of a    *)
(* leaf over two intermediate certificates and one or two anchors.  A      *)
(* certificate has at most one peculiarity; the verdict is compared with a *)
(* definition over whole paths.                                            *)
(***************************************************************************)
EXTENDS ChainValidation

Year(y) == [form |-> "generalized", year |-> y]
Short(y) == [form |-> "utc", year |-> y]

\* A sound certificate of a subject by an issuer; every key has its owner's name.
Sound(subject, issuer) ==
  [subject |-> subject, issuer |-> issuer, serial |-> subject,
   notBefore |-> Short(99), notAfter |-> Short(30),
   ca |-> TRUE, keyUsage |-> None, pathLen |-> None,
   dns |-> {<<"a", "example">>}, permitted |-> {}, excluded |-> {},
   key |-> subject, keyType |-> "rsa", keyDecodes |-> TRUE,
   algorithm |-> "sha256WithRsa", tbsAlgorithm |-> "sha256WithRsa",
   signedWith |-> issuer, crl |-> TRUE, aia |-> TRUE, eku |-> {},
   policies |-> {}, mappings |-> {},
   explicit |-> None, inhibitAny |-> None, inhibitMapping |-> None]

\* One peculiarity, or none.
Peculiar(c) ==
  {c, [c EXCEPT !.notAfter = Short(20)], [c EXCEPT !.notBefore = Year(2027)],
   [c EXCEPT !.ca = FALSE], [c EXCEPT !.keyUsage = Some("noCertSign")],
   [c EXCEPT !.pathLen = Some(0)], [c EXCEPT !.pathLen = Some(1)],
   [c EXCEPT !.signedWith = "X"], [c EXCEPT !.algorithm = "ecdsaWithSha256"],
   [c EXCEPT !.serial = "L"], [c EXCEPT !.excluded = {<<"example">>}],
   [c EXCEPT !.permitted = {<<"b", "example">>}],
   [c EXCEPT !.tbsAlgorithm = "rsassaPss"], [c EXCEPT !.keyDecodes = FALSE],
   [c EXCEPT !.crl = FALSE], [c EXCEPT !.crl = FALSE, !.aia = FALSE]}
WithPolicies(c) ==
  {[c EXCEPT !.policies = {"p"}], [c EXCEPT !.policies = {AnyPolicy}],
   [c EXCEPT !.policies = {"p", "q"}, !.eku = {"serverAuth"}],
   [c EXCEPT !.policies = {"p"}, !.mappings = {<<"p", "q">>}],
   [c EXCEPT !.mappings = {<<"p", "q">>, <<"q", "p">>}]}
Limiting(c) ==
  {[c EXCEPT !.explicit = Some(1)], [c EXCEPT !.inhibitMapping = Some(0)],
   [c EXCEPT !.inhibitMapping = Some(1), !.mappings = {<<"p", "q">>}],
   [c EXCEPT !.policies = {"p"}, !.explicit = Some(0)]}

Plain == [policy |-> None, eku |-> None, explicit |-> FALSE, crl |-> FALSE,
          locator |-> FALSE, inhibitMapping |-> FALSE]
Options ==
  {Plain, [Plain EXCEPT !.explicit = TRUE], [Plain EXCEPT !.crl = TRUE],
   [Plain EXCEPT !.locator = TRUE], [Plain EXCEPT !.inhibitMapping = TRUE],
   [Plain EXCEPT !.policy = <<"p">>], [Plain EXCEPT !.eku = <<"serverAuth">>]}

Leaves ==
  Peculiar(Sound("L", "A")) \cup {Sound("L", "R"), Sound("R", "R"), Sound("L", "L")}
Firsts == Peculiar(Sound("A", "B")) \cup Peculiar(Sound("A", "R"))
Seconds ==
  Peculiar(Sound("B", "R")) \cup {Sound("B", "A"), Sound("A", "A"), Sound("B", "B")}
    \cup {Sound("A", "R"), [Sound("A", "R") EXCEPT !.serial = "C"]}
Anchors == {Sound("R", "R"), [Sound("R", "S") EXCEPT !.ca = FALSE],
            [Sound("R", "R") EXCEPT !.pathLen = Some(1)], Sound("B", "B")}

\* What a certificate can say of policies.
PolicyOf(c) == WithPolicies(c) \cup Limiting(c) \cup {c}
Input(leaf, intermediates, anchors, options) ==
  [leaf |-> leaf, intermediates |-> intermediates, anchors |-> anchors,
   now |-> Year(2026), signatures |-> TRUE, options |-> options]

Asked ==
  \/ \E leaf \in Leaves, anchor \in Anchors, i \in Firsts, j \in Seconds :
       \E intermediates \in {<<i, j>>, <<j, i>>} :
         request = Input(leaf, intermediates, <<anchor>>, Plain)
  \/ \E leaf \in PolicyOf(Sound("L", "A")), i \in PolicyOf(Sound("A", "R")),
        root \in PolicyOf(Sound("R", "R")), options \in Options :
       request = Input(leaf, <<i>>, <<root>>, options)
  \/ \E leaf \in Leaves, i \in Firsts, options \in Options, signatures \in BOOLEAN :
       request = [Input(leaf, <<i>>, <<Sound("S", "S"), Sound("R", "R")>>, options)
                    EXCEPT !.signatures = signatures]

\* The specification for these inputs only.
MCInit == Asked /\ Init
MCSpec == MCInit /\ [][Validate]_vars
=============================================================================
