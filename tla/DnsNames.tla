------------------------------- MODULE DnsNames -----------------------------
(***************************************************************************)
(* Host names as byte strings: which are sound, and which name of a        *)
(* certificate stands for which host.                                      *)
(***************************************************************************)
EXTENDS Integers, Sequences, FiniteSets

LOCAL INSTANCE SequencesExt

CONSTANTS
  Dot, Hyphen, Star,    \* bytes of names that are no letters or digits,
  Control,              \* and one for all the others that names may not hold
  UpperCase, LowerCase, \* a letter in both its forms
  MaxLabel              \* 63

ASSUME DnsNamesAssumption ==
  /\ Cardinality({Dot, Hyphen, Star, Control, UpperCase, LowerCase}) = 6
  /\ MaxLabel \in Nat \ {0}

\* The labels between the dots, in their order.
Labels(name) ==
  FoldLeft(LAMBDA labels, c : IF c = Dot THEN Append(labels, <<>>)
                              ELSE Front(labels) \o <<Append(Last(labels), c)>>,
           <<<<>>>>, name)

\* dns_name_labels_valid
LabelsValid(name) ==
  \A label \in ToSet(Labels(name)) :
    /\ label # <<>> /\ Len(label) <= MaxLabel
    /\ Head(label) # Hyphen /\ Last(label) # Hyphen
    /\ ToSet(label) \cap {Control, Star} = {}

\* The name without a last dot.
Trimmed(name) == IF name # <<>> /\ Last(name) = Dot THEN Front(name) ELSE name
Lowered(name) ==
  [i \in DOMAIN name |-> IF name[i] = UpperCase THEN LowerCase ELSE name[i]]

\* is_valid_sni_dns_name
ValidName(name) == Trimmed(name) # <<>> /\ LabelsValid(Trimmed(name))

Wildcard(name) == IsPrefix(<<Star, Dot>>, name)

\* normalize_dns_name: a sequence of at most one name.
Normalized(name, allowWildcard) ==
  LET trimmed == Trimmed(Lowered(name))
      checked == IF allowWildcard /\ Wildcard(trimmed)
                 THEN SubSeq(trimmed, 3, Len(trimmed)) ELSE trimmed
  IN IF checked # <<>> /\ LabelsValid(checked) THEN <<trimmed>> ELSE <<>>

\* dns_name_matches_hostname: what is before the suffix is one label and a dot.
\* A faulty variant: that the part is one label is not asked for.
NameMatchesDeep(pattern, hostname) ==
  LET pat == Normalized(pattern, TRUE)
      host == Normalized(hostname, FALSE)
      suffix == SubSeq(pat[1], 3, Len(pat[1]))
      prefix == SubSeq(host[1], 1, Len(host[1]) - Len(suffix))
  IN
  IF pat = <<>> \/ host = <<>> THEN FALSE
  ELSE IF ~Wildcard(pat[1]) THEN host = pat
  ELSE /\ Contains(suffix, Dot) /\ IsSuffix(suffix, host[1])
       /\ prefix # <<>> /\ Last(prefix) = Dot
NameMatches(pattern, hostname) ==
  LET pat == Normalized(pattern, TRUE)
      host == Normalized(hostname, FALSE)
      suffix == SubSeq(pat[1], 3, Len(pat[1]))
      prefix == SubSeq(host[1], 1, Len(host[1]) - Len(suffix))
  IN
  IF pat = <<>> \/ host = <<>> THEN FALSE
  ELSE IF ~Wildcard(pat[1]) THEN host = pat
  ELSE /\ Contains(suffix, Dot) /\ IsSuffix(suffix, host[1])
       /\ prefix # <<>> /\ Last(prefix) = Dot
       /\ Front(prefix) # <<>> /\ ~Contains(Front(prefix), Dot)
=============================================================================
