---------------------- MODULE ClientNegotiation_proofs ----------------------
(***************************************************************************)
(* Theorems about ClientNegotiation, for any names, protocols, tickets,    *)
(* preferences and alterations and any number of hellos.                   *)
(***************************************************************************)
EXTENDS ClientNegotiation, WellFoundedInduction, TLAPS

-----------------------------------------------------------------------------
(***************************************************************************)
(* The extensions of a ClientHello: of nine candidates those that the      *)
(* offer asks for, in their order.                                         *)
(***************************************************************************)
Candidates(offer) ==
  <<Extension("supported_versions", <<"tls13", "tls12">>),
    Extension("signature_algorithms", SchemesOffered),
    Extension("key_share", ClientKeyShare),
    Extension("server_name", offer.name),
    Extension("status_request", <<"ocsp">>),
    Extension("alpn", offer.alpn),
    Extension("early_data", <<>>),
    Extension("psk_key_exchange_modes", <<"psk_dhe_ke">>),
    Extension("pre_shared_key", offer.psks)>>

Wanted(offer) ==
  {k \in 1 .. 9 : /\ k = 4 => offer.name # None
                  /\ k = 5 => offer.stapling
                  /\ k = 6 => offer.alpn # <<>>
                  /\ k = 7 => offer.early
                  /\ k \in {8, 9} => offer.psks # <<>>}

\* The members of e with index in K, in order, each once.
Picks(x, e, K) ==
  \E f \in [1 .. Len(x) -> K] :
    /\ \A i, j \in 1 .. Len(x) : i < j => f[i] < f[j]
    /\ \A k \in K : \E i \in 1 .. Len(x) : f[i] = k
    /\ \A i \in 1 .. Len(x) : x[i] = e[f[i]]

\* ... of the first p, as a sequence over S.
Lists(S, x, e, K, p) == x \in Seq(S) /\ Picks(x, e, K) /\ K \in SUBSET (1 .. p)

\* A further candidate is taken or left out.
LEMMA PickNext ==
  ASSUME NEW S, NEW x, NEW e, NEW K, NEW p \in Nat, Lists(S, x, e, K, p),
         NEW n, n = p + 1, e[n] \in S, NEW y, NEW L,
         \/ y = x /\ L = K
         \/ y = x \o <<e[n]>> /\ L = K \cup {n}
  PROVE  Lists(S, y, e, L, n)
<1>0. x \in Seq(S) /\ Picks(x, e, K) /\ K \in SUBSET (1 .. p)
  BY DEF Lists
<1>1. CASE y = x /\ L = K
  BY <1>0, <1>1 DEF Lists
<1>2. CASE y = x \o <<e[n]>> /\ L = K \cup {n}
  <2> DEFINE m == Len(x)
  <2>1. /\ m \in Nat /\ y \in Seq(S) /\ Len(y) = m + 1
        /\ \A i \in 1 .. m : y[i] = x[i]
        /\ y[m + 1] = e[n]
    BY <1>0, <1>2
  <2>2. PICK f \in [1 .. m -> K] :
          /\ \A i, j \in 1 .. m : i < j => f[i] < f[j]
          /\ \A k \in K : \E i \in 1 .. m : f[i] = k
          /\ \A i \in 1 .. m : x[i] = e[f[i]]
    BY <1>0 DEF Picks
  <2> HIDE DEF m
  <2>3. \A i \in 1 .. m : f[i] \in K /\ f[i] < n /\ f[i] \in Nat
    <3>1. \A k \in K : k < n /\ k \in Nat
      BY <1>0
    <3> QED  BY <3>1
  <2>4. \A i \in 1 .. m + 1 : i # m + 1 => i \in 1 .. m
    BY <2>1
  <2> DEFINE g == [i \in 1 .. m + 1 |-> IF i = m + 1 THEN n ELSE f[i]]
  <2>5. g[m + 1] = n /\ \A i \in 1 .. m : g[i] = f[i]
    BY <2>1
  <2>6. g \in [1 .. m + 1 -> L]
    BY <1>2, <2>1, <2>3
  <2> HIDE DEF g
  <2>7. \A i, j \in 1 .. m + 1 : i < j => g[i] < g[j]
    <3> SUFFICES ASSUME NEW i \in 1 .. m + 1, NEW j \in 1 .. m + 1, i < j
                 PROVE  g[i] < g[j]
      OBVIOUS
    <3>1. i \in 1 .. m
      BY <2>1
    <3>2. CASE j = m + 1
      BY <2>3, <2>5, <3>1, <3>2
    <3>3. CASE j # m + 1
      BY <2>2, <2>4, <2>5, <3>1, <3>3
    <3> QED  BY <3>2, <3>3
  <2>8. \A k \in L : \E i \in 1 .. m + 1 : g[i] = k
    <3> SUFFICES ASSUME NEW k \in L PROVE \E i \in 1 .. m + 1 : g[i] = k
      OBVIOUS
    <3>1. CASE k = n
      BY <2>1, <2>5, <3>1
    <3>2. CASE k # n
      <4>1. PICK i \in 1 .. m : f[i] = k
        BY <1>2, <2>2, <3>2
      <4> QED  BY <2>1, <2>5, <4>1
    <3> QED  BY <3>1, <3>2
  <2>9. \A i \in 1 .. m + 1 : y[i] = e[g[i]]
    BY <2>1, <2>2, <2>4, <2>5
  <2>10. Picks(y, e, L)
    <3>1. 1 .. Len(y) = 1 .. m + 1
      BY <2>1
    <3> SUFFICES \E h \in [1 .. m + 1 -> L] :
                   /\ \A i, j \in 1 .. m + 1 : i < j => h[i] < h[j]
                   /\ \A k \in L : \E i \in 1 .. m + 1 : h[i] = k
                   /\ \A i \in 1 .. m + 1 : y[i] = e[h[i]]
      BY <3>1 DEF Picks
    <3> WITNESS g \in [1 .. m + 1 -> L]
    <3> QED  BY <2>7, <2>8, <2>9
  <2>11. L \in SUBSET (1 .. n)
    BY <1>0, <1>2
  <2> QED  BY <2>1, <2>10, <2>11 DEF Lists
<1> QED  BY <1>1, <1>2

\* The parts of an extension.
LEMMA ExtensionHas ==
  ASSUME NEW type, NEW data
  PROVE  LET e == Extension(type, data) IN e.type = type /\ e.data = data /\ e.sound
BY DEF Extension

\* What the candidates are.
LEMMA CandidatesAre ==
  ASSUME NEW offer
  PROVE  LET e == Candidates(offer) IN
         /\ e[1] = Extension("supported_versions", <<"tls13", "tls12">>)
         /\ e[2] = Extension("signature_algorithms", SchemesOffered)
         /\ e[3] = Extension("key_share", ClientKeyShare)
         /\ e[4] = Extension("server_name", offer.name)
         /\ e[5] = Extension("status_request", <<"ocsp">>)
         /\ e[6] = Extension("alpn", offer.alpn)
         /\ e[7] = Extension("early_data", <<>>)
         /\ e[8] = Extension("psk_key_exchange_modes", <<"psk_dhe_ke">>)
         /\ e[9] = Extension("pre_shared_key", offer.psks)
BY DEF Candidates

\* The extensions before the tickets.
BeforeTickets(offer) ==
  LET e == Candidates(offer) IN
  <<e[1], e[2], e[3]>>
    \o OnlyIf(offer.name # None, e[4])
    \o OnlyIf(offer.stapling, e[5])
    \o OnlyIf(offer.alpn # <<>>, e[6])
    \o OnlyIf(offer.early, e[7])
    \o OnlyIf(offer.psks # <<>>, e[8])

(***************************************************************************)
(* A hello of TLS 1.3 has the candidates that are wanted, tickets last.    *)
(***************************************************************************)
LEMMA HelloPicks ==
  ASSUME NEW offer
  PROVE  LET x == ClientHello("tls13", offer).extensions
             e == Candidates(offer)
             S == {e[k] : k \in 1 .. 9}
         IN /\ Lists(S, x, e, Wanted(offer), 9)
            /\ Lists(S, BeforeTickets(offer), e, Wanted(offer) \ {9}, 8)
            /\ x = BeforeTickets(offer) \o OnlyIf(offer.psks # <<>>, e[9])
<1> DEFINE e == Candidates(offer)
           S == {e[k] : k \in 1 .. 9}
           x3 == <<e[1], e[2], e[3]>>
           x4 == x3 \o OnlyIf(offer.name # None, e[4])
           x5 == x4 \o OnlyIf(offer.stapling, e[5])
           x6 == x5 \o OnlyIf(offer.alpn # <<>>, e[6])
           x7 == x6 \o OnlyIf(offer.early, e[7])
           x8 == x7 \o OnlyIf(offer.psks # <<>>, e[8])
           x9 == x8 \o OnlyIf(offer.psks # <<>>, e[9])
           K3 == 1 .. 3
           K4 == K3 \cup {k \in {4} : offer.name # None}
           K5 == K4 \cup {k \in {5} : offer.stapling}
           K6 == K5 \cup {k \in {6} : offer.alpn # <<>>}
           K7 == K6 \cup {k \in {7} : offer.early}
           K8 == K7 \cup {k \in {8} : offer.psks # <<>>}
           K9 == K8 \cup {k \in {9} : offer.psks # <<>>}
<1>1. ClientHello("tls13", offer).extensions = x9
  BY CandidatesAre DEF ClientHello, BuildClientHelloExtensions
<1>2. \A k \in 1 .. 9 : e[k] \in S
  OBVIOUS
<1>3. K9 = Wanted(offer)
  BY DEF Wanted
<1>a. K8 = Wanted(offer) \ {9}
  BY DEF Wanted
<1>b. BeforeTickets(offer) = x8
  BY DEF BeforeTickets
<1>4. Lists(S, x3, e, K3, 3)
  <2>1. x3 \in Seq(S) /\ Len(x3) = 3
    BY <1>2
  <2> DEFINE f == [i \in 1 .. 3 |-> i]
  <2>2. f \in [1 .. 3 -> 1 .. 3] /\ \A i \in 1 .. 3 : f[i] = i
    OBVIOUS
  <2> HIDE DEF f, e
  <2>3. \A i \in 1 .. 3 : x3[i] = e[i]
    OBVIOUS
  <2> HIDE DEF x3
  <2> QED  BY <2>1, <2>2, <2>3 DEF Picks, Lists
<1> HIDE DEF e, S
<1>5. Lists(S, x4, e, K4, 4)
  <2>1. \/ x4 = x3 /\ K4 = K3
        \/ x4 = x3 \o <<e[4]>> /\ K4 = K3 \cup {4}
    <3>1. CASE offer.name # None
      BY <3>1 DEF OnlyIf, Some
    <3>2. CASE ~ (offer.name # None)
      <4>1. x4 = x3 \o <<>> /\ K4 = K3
        BY <3>2 DEF OnlyIf, None
      <4> HIDE DEF x3, x4
      <4> QED  BY <1>4, <4>1 DEF Lists
    <3> QED  BY <3>1, <3>2
  <2>2. 3 \in Nat /\ 4 = 3 + 1 /\ e[4] \in S
    BY <1>2
  <2> HIDE DEF x3, x4, K3, K4
  <2> QED  BY <1>4, <2>1, <2>2, PickNext
<1>6. Lists(S, x5, e, K5, 5)
  <2>1. \/ x5 = x4 /\ K5 = K4
        \/ x5 = x4 \o <<e[5]>> /\ K5 = K4 \cup {5}
    <3>1. CASE offer.stapling
      BY <3>1 DEF OnlyIf, Some
    <3>2. CASE ~ (offer.stapling)
      <4>1. x5 = x4 \o <<>> /\ K5 = K4
        BY <3>2 DEF OnlyIf, None
      <4> HIDE DEF x4, x5
      <4> QED  BY <1>5, <4>1 DEF Lists
    <3> QED  BY <3>1, <3>2
  <2>2. 4 \in Nat /\ 5 = 4 + 1 /\ e[5] \in S
    BY <1>2
  <2> HIDE DEF x4, x5, K4, K5
  <2> QED  BY <1>5, <2>1, <2>2, PickNext
<1>7. Lists(S, x6, e, K6, 6)
  <2>1. \/ x6 = x5 /\ K6 = K5
        \/ x6 = x5 \o <<e[6]>> /\ K6 = K5 \cup {6}
    <3>1. CASE offer.alpn # <<>>
      BY <3>1 DEF OnlyIf, Some
    <3>2. CASE ~ (offer.alpn # <<>>)
      <4>1. x6 = x5 \o <<>> /\ K6 = K5
        BY <3>2 DEF OnlyIf, None
      <4> HIDE DEF x5, x6
      <4> QED  BY <1>6, <4>1 DEF Lists
    <3> QED  BY <3>1, <3>2
  <2>2. 5 \in Nat /\ 6 = 5 + 1 /\ e[6] \in S
    BY <1>2
  <2> HIDE DEF x5, x6, K5, K6
  <2> QED  BY <1>6, <2>1, <2>2, PickNext
<1>8. Lists(S, x7, e, K7, 7)
  <2>1. \/ x7 = x6 /\ K7 = K6
        \/ x7 = x6 \o <<e[7]>> /\ K7 = K6 \cup {7}
    <3>1. CASE offer.early
      BY <3>1 DEF OnlyIf, Some
    <3>2. CASE ~ (offer.early)
      <4>1. x7 = x6 \o <<>> /\ K7 = K6
        BY <3>2 DEF OnlyIf, None
      <4> HIDE DEF x6, x7
      <4> QED  BY <1>7, <4>1 DEF Lists
    <3> QED  BY <3>1, <3>2
  <2>2. 6 \in Nat /\ 7 = 6 + 1 /\ e[7] \in S
    BY <1>2
  <2> HIDE DEF x6, x7, K6, K7
  <2> QED  BY <1>7, <2>1, <2>2, PickNext
<1>9. Lists(S, x8, e, K8, 8)
  <2>1. \/ x8 = x7 /\ K8 = K7
        \/ x8 = x7 \o <<e[8]>> /\ K8 = K7 \cup {8}
    <3>1. CASE offer.psks # <<>>
      BY <3>1 DEF OnlyIf, Some
    <3>2. CASE ~ (offer.psks # <<>>)
      <4>1. x8 = x7 \o <<>> /\ K8 = K7
        BY <3>2 DEF OnlyIf, None
      <4> HIDE DEF x7, x8
      <4> QED  BY <1>8, <4>1 DEF Lists
    <3> QED  BY <3>1, <3>2
  <2>2. 7 \in Nat /\ 8 = 7 + 1 /\ e[8] \in S
    BY <1>2
  <2> HIDE DEF x7, x8, K7, K8
  <2> QED  BY <1>8, <2>1, <2>2, PickNext
<1>10. Lists(S, x9, e, K9, 9)
  <2>1. \/ x9 = x8 /\ K9 = K8
        \/ x9 = x8 \o <<e[9]>> /\ K9 = K8 \cup {9}
    <3>1. CASE offer.psks # <<>>
      BY <3>1 DEF OnlyIf, Some
    <3>2. CASE ~ (offer.psks # <<>>)
      <4>1. x9 = x8 \o <<>> /\ K9 = K8
        BY <3>2 DEF OnlyIf, None
      <4> HIDE DEF x8, x9
      <4> QED  BY <1>9, <4>1 DEF Lists
    <3> QED  BY <3>1, <3>2
  <2>2. 8 \in Nat /\ 9 = 8 + 1 /\ e[9] \in S
    BY <1>2
  <2> HIDE DEF x8, x9, K8, K9
  <2> QED  BY <1>9, <2>1, <2>2, PickNext
<1> HIDE DEF K8, K9, x8
<1> QED  BY <1>1, <1>3, <1>9, <1>10, <1>a, <1>b DEF e, S

(***************************************************************************)
(* What can be read in members of e that have types of their own.          *)
(***************************************************************************)
LEMMA PickedRead ==
  ASSUME NEW S, NEW x, NEW e, NEW K, NEW n \in Nat, Lists(S, x, e, K, n),
         \A j, k \in 1 .. n : e[j].type = e[k].type => j = k,
         NEW k \in 1 .. n, NEW default
  PROVE  /\ Has(x, e[k].type) <=> k \in K
         /\ k \in K => DataOf(x, e[k].type, default) = e[k].data
         /\ k \notin K => DataOf(x, e[k].type, default) = default
<1>0. x \in Seq(S) /\ K \subseteq 1 .. n
  BY DEF Lists
<1> DEFINE m == Len(x)
<1>1. m \in Nat /\ DOMAIN x = 1 .. m
  BY <1>0
<1>2. PICK f \in [1 .. m -> K] :
        /\ \A l \in K : \E i \in 1 .. m : f[i] = l
        /\ \A i \in 1 .. m : x[i] = e[f[i]]
  BY DEF Lists, Picks
<1> HIDE DEF m
<1>3. ASSUME NEW i \in DOMAIN x, x[i].type = e[k].type
      PROVE  f[i] = k /\ k \in K /\ x[i] = e[k]
  <2>1. f[i] \in K /\ x[i] = e[f[i]]
    BY <1>1, <1>2
  <2>2. f[i] \in 1 .. n
    BY <1>0, <2>1
  <2>3. f[i] = k
    BY <1>3, <2>1, <2>2
  <2> QED  BY <2>1, <2>3
<1>4. Has(x, e[k].type) <=> k \in K
  <2>1. k \in K => \E i \in DOMAIN x : x[i].type = e[k].type
    <3> SUFFICES ASSUME k \in K PROVE \E i \in DOMAIN x : x[i].type = e[k].type
      OBVIOUS
    <3>1. PICK i \in 1 .. m : f[i] = k
      BY <1>2
    <3> QED  BY <1>1, <1>2, <3>1
  <2> QED  BY <1>3, <2>1 DEF Has
<1>5. ASSUME k \in K
      PROVE  DataOf(x, e[k].type, default) = e[k].data
  <2> DEFINE i == CHOOSE i \in DOMAIN x : x[i].type = e[k].type
  <2>1. \E i_1 \in DOMAIN x : x[i_1].type = e[k].type
    BY <1>4, <1>5 DEF Has
  <2>2. i \in DOMAIN x /\ x[i].type = e[k].type
    BY <2>1
  <2>3. x[i] = e[k]
    BY <1>3, <2>2
  <2>4. DataOf(x, e[k].type, default) = x[i].data
    BY <1>4, <1>5 DEF DataOf
  <2> QED  BY <2>3, <2>4
<1>6. k \notin K => DataOf(x, e[k].type, default) = default
  BY <1>4 DEF DataOf
<1> QED  BY <1>4, <1>5, <1>6

\* The types and data of the candidates.
LEMMA CandidatesHave ==
  ASSUME NEW offer
  PROVE  LET e == Candidates(offer) IN
         /\ e[1].type = "supported_versions" /\ e[1].data = <<"tls13", "tls12">>
         /\ e[2].type = "signature_algorithms" /\ e[2].data = SchemesOffered
         /\ e[3].type = "key_share" /\ e[3].data = ClientKeyShare
         /\ e[4].type = "server_name" /\ e[4].data = offer.name
         /\ e[5].type = "status_request" /\ e[5].data = <<"ocsp">>
         /\ e[6].type = "alpn" /\ e[6].data = offer.alpn
         /\ e[7].type = "early_data" /\ e[7].data = <<>>
         /\ e[8].type = "psk_key_exchange_modes" /\ e[8].data = <<"psk_dhe_ke">>
         /\ e[9].type = "pre_shared_key" /\ e[9].data = offer.psks
         /\ \A k \in 1 .. 9 : e[k].sound
<1> DEFINE e == Candidates(offer)
<1>0. \A k \in 1 .. 9 : \/ k = 1 \/ k = 2 \/ k = 3 \/ k = 4 \/ k = 5
                        \/ k = 6 \/ k = 7 \/ k = 8 \/ k = 9
  OBVIOUS
<1>1. e[1].type = "supported_versions" /\ e[1].data = <<"tls13", "tls12">> /\ e[1].sound
  <2>1. e[1] = Extension("supported_versions", <<"tls13", "tls12">>)
    BY CandidatesAre
  <2> QED  BY <2>1, ExtensionHas
<1>2. e[2].type = "signature_algorithms" /\ e[2].data = SchemesOffered /\ e[2].sound
  <2>1. e[2] = Extension("signature_algorithms", SchemesOffered)
    BY CandidatesAre
  <2> QED  BY <2>1, ExtensionHas
<1>3. e[3].type = "key_share" /\ e[3].data = ClientKeyShare /\ e[3].sound
  <2>1. e[3] = Extension("key_share", ClientKeyShare)
    BY CandidatesAre
  <2> QED  BY <2>1, ExtensionHas
<1>4. e[4].type = "server_name" /\ e[4].data = offer.name /\ e[4].sound
  <2>1. e[4] = Extension("server_name", offer.name)
    BY CandidatesAre
  <2> QED  BY <2>1, ExtensionHas
<1>5. e[5].type = "status_request" /\ e[5].data = <<"ocsp">> /\ e[5].sound
  <2>1. e[5] = Extension("status_request", <<"ocsp">>)
    BY CandidatesAre
  <2> QED  BY <2>1, ExtensionHas
<1>6. e[6].type = "alpn" /\ e[6].data = offer.alpn /\ e[6].sound
  <2>1. e[6] = Extension("alpn", offer.alpn)
    BY CandidatesAre
  <2> QED  BY <2>1, ExtensionHas
<1>7. e[7].type = "early_data" /\ e[7].data = <<>> /\ e[7].sound
  <2>1. e[7] = Extension("early_data", <<>>)
    BY CandidatesAre
  <2> QED  BY <2>1, ExtensionHas
<1>8. e[8].type = "psk_key_exchange_modes" /\ e[8].data = <<"psk_dhe_ke">> /\ e[8].sound
  <2>1. e[8] = Extension("psk_key_exchange_modes", <<"psk_dhe_ke">>)
    BY CandidatesAre
  <2> QED  BY <2>1, ExtensionHas
<1>9. e[9].type = "pre_shared_key" /\ e[9].data = offer.psks /\ e[9].sound
  <2>1. e[9] = Extension("pre_shared_key", offer.psks)
    BY CandidatesAre
  <2> QED  BY <2>1, ExtensionHas
<1>10. \A k \in 1 .. 9 : e[k].sound
  BY <1>0, <1>1, <1>2, <1>3, <1>4, <1>5, <1>6, <1>7, <1>8, <1>9
<1> QED
  BY <1>1, <1>2, <1>3, <1>4, <1>5, <1>6, <1>7, <1>8, <1>9, <1>10

\* No two candidates have one type.
LEMMA CandidateTypes ==
  ASSUME NEW offer, NEW j \in 1 .. 9, NEW k \in 1 .. 9,
         Candidates(offer)[j].type = Candidates(offer)[k].type
  PROVE  j = k
<1> DEFINE type(i) == Candidates(offer)[i].type
<1>0. \A i \in 1 .. 9 : \/ i = 1 \/ i = 2 \/ i = 3 \/ i = 4 \/ i = 5
                        \/ i = 6 \/ i = 7 \/ i = 8 \/ i = 9
  OBVIOUS
<1>a. /\ type(1) = "supported_versions"
      /\ type(2) = "signature_algorithms"
      /\ type(3) = "key_share"
      /\ type(4) = "server_name"
      /\ type(5) = "status_request"
      /\ type(6) = "alpn"
      /\ type(7) = "early_data"
      /\ type(8) = "psk_key_exchange_modes"
      /\ type(9) = "pre_shared_key"
  BY CandidatesHave
<1>b. type(j) = type(k)
  OBVIOUS
<1> HIDE DEF type
<1>1. CASE j = 1
  BY <1>0, <1>a, <1>b, <1>1
<1>2. CASE j = 2
  BY <1>0, <1>a, <1>b, <1>2
<1>3. CASE j = 3
  BY <1>0, <1>a, <1>b, <1>3
<1>4. CASE j = 4
  BY <1>0, <1>a, <1>b, <1>4
<1>5. CASE j = 5
  BY <1>0, <1>a, <1>b, <1>5
<1>6. CASE j = 6
  BY <1>0, <1>a, <1>b, <1>6
<1>7. CASE j = 7
  BY <1>0, <1>a, <1>b, <1>7
<1>8. CASE j = 8
  BY <1>0, <1>a, <1>b, <1>8
<1>9. CASE j = 9
  BY <1>0, <1>a, <1>b, <1>9
<1> QED  BY <1>0, <1>1, <1>2, <1>3, <1>4, <1>5, <1>6, <1>7, <1>8, <1>9

(***************************************************************************)
(* What a hello of TLS 1.3 says.                                           *)
(***************************************************************************)
LEMMA HelloSays ==
  ASSUME NEW offer, offer.stapling \in BOOLEAN, offer.early \in BOOLEAN
  PROVE  LET x == ClientHello("tls13", offer).extensions IN
         /\ Has(x, "supported_versions") /\ Has(x, "signature_algorithms")
         /\ Has(x, "key_share")
         /\ Has(x, "server_name") <=> offer.name # None
         /\ Has(x, "status_request") <=> offer.stapling
         /\ Has(x, "alpn") <=> offer.alpn # <<>>
         /\ Has(x, "early_data") <=> offer.early
         /\ Has(x, "psk_key_exchange_modes") <=> offer.psks # <<>>
         /\ Has(x, "pre_shared_key") <=> offer.psks # <<>>
         /\ DataOf(x, "supported_versions", <<>>) = <<"tls13", "tls12">>
         /\ DataOf(x, "signature_algorithms", <<>>) = SchemesOffered
         /\ DataOf(x, "key_share", <<>>) = ClientKeyShare
         /\ DataOf(x, "server_name", <<>>) = offer.name
         /\ DataOf(x, "alpn", <<>>) = offer.alpn
         /\ DataOf(x, "pre_shared_key", <<>>) = offer.psks
<1> DEFINE x == ClientHello("tls13", offer).extensions
           e == Candidates(offer)
           S == {e[k] : k \in 1 .. 9}
           K == Wanted(offer)
<1>1. Lists(S, x, e, K, 9)
  BY HelloPicks
<1>2. ASSUME NEW k \in 1 .. 9, NEW d
      PROVE  /\ Has(x, e[k].type) <=> k \in K
             /\ k \in K => DataOf(x, e[k].type, d) = e[k].data
             /\ k \notin K => DataOf(x, e[k].type, d) = d
  <2> HIDE DEF x, e, S, K
  <2>1. \A j, l \in 1 .. 9 : e[j].type = e[l].type => j = l
    BY CandidateTypes DEF e
  <2>2. 9 \in Nat
    OBVIOUS
  <2> QED  BY <1>1, <2>1, <2>2, PickedRead
<1>3. /\ 1 \in K /\ 2 \in K /\ 3 \in K
      /\ 4 \in K <=> offer.name # None
      /\ 5 \in K <=> offer.stapling
      /\ 6 \in K <=> offer.alpn # <<>>
      /\ 7 \in K <=> offer.early
      /\ 8 \in K <=> offer.psks # <<>>
      /\ 9 \in K <=> offer.psks # <<>>
  <2>1. 1 \in K /\ 2 \in K /\ 3 \in K
    BY DEF Wanted
  <2>2. /\ 4 \in K <=> offer.name # None
        /\ 6 \in K <=> offer.alpn # <<>>
        /\ 8 \in K <=> offer.psks # <<>>
        /\ 9 \in K <=> offer.psks # <<>>
    BY DEF Wanted
  <2>3. 5 \in K <=> offer.stapling
    BY DEF Wanted
  <2>4. 7 \in K <=> offer.early
    BY DEF Wanted
  <2> QED  BY <2>1, <2>2, <2>3, <2>4
<1>4. /\ e[1].type = "supported_versions" /\ e[1].data = <<"tls13", "tls12">>
      /\ e[2].type = "signature_algorithms" /\ e[2].data = SchemesOffered
      /\ e[3].type = "key_share" /\ e[3].data = ClientKeyShare
      /\ e[4].type = "server_name" /\ e[4].data = offer.name
      /\ e[5].type = "status_request" /\ e[5].data = <<"ocsp">>
      /\ e[6].type = "alpn" /\ e[6].data = offer.alpn
      /\ e[7].type = "early_data" /\ e[7].data = <<>>
      /\ e[8].type = "psk_key_exchange_modes" /\ e[8].data = <<"psk_dhe_ke">>
      /\ e[9].type = "pre_shared_key" /\ e[9].data = offer.psks
  BY CandidatesHave
<1> HIDE DEF x, e, S, K
<1>6. /\ Has(x, "supported_versions")
      /\ DataOf(x, "supported_versions", <<>>) = <<"tls13", "tls12">>
  <2>1. 1 \in 1 .. 9 /\ e[1].type = "supported_versions" /\ e[1].data = <<"tls13", "tls12">>
    BY <1>4
  <2>2. /\ Has(x, e[1].type) <=> 1 \in K
        /\ 1 \in K => DataOf(x, e[1].type, <<>>) = e[1].data
        /\ 1 \notin K => DataOf(x, e[1].type, <<>>) = <<>>
    BY <1>2, <2>1
  <2> QED  BY <1>3, <2>1, <2>2
<1>7. /\ Has(x, "signature_algorithms")
      /\ DataOf(x, "signature_algorithms", <<>>) = SchemesOffered
  <2>1. 2 \in 1 .. 9 /\ e[2].type = "signature_algorithms" /\ e[2].data = SchemesOffered
    BY <1>4
  <2>2. /\ Has(x, e[2].type) <=> 2 \in K
        /\ 2 \in K => DataOf(x, e[2].type, <<>>) = e[2].data
        /\ 2 \notin K => DataOf(x, e[2].type, <<>>) = <<>>
    BY <1>2, <2>1
  <2> QED  BY <1>3, <2>1, <2>2
<1>8. /\ Has(x, "key_share")
      /\ DataOf(x, "key_share", <<>>) = ClientKeyShare
  <2>1. 3 \in 1 .. 9 /\ e[3].type = "key_share" /\ e[3].data = ClientKeyShare
    BY <1>4
  <2>2. /\ Has(x, e[3].type) <=> 3 \in K
        /\ 3 \in K => DataOf(x, e[3].type, <<>>) = e[3].data
        /\ 3 \notin K => DataOf(x, e[3].type, <<>>) = <<>>
    BY <1>2, <2>1
  <2> QED  BY <1>3, <2>1, <2>2
<1>9. /\ Has(x, "server_name") <=> offer.name # None
      /\ DataOf(x, "server_name", <<>>) = offer.name
  <2>1. 4 \in 1 .. 9 /\ e[4].type = "server_name" /\ e[4].data = offer.name
    BY <1>4
  <2>2. /\ Has(x, e[4].type) <=> 4 \in K
        /\ 4 \in K => DataOf(x, e[4].type, <<>>) = e[4].data
        /\ 4 \notin K => DataOf(x, e[4].type, <<>>) = <<>>
    BY <1>2, <2>1
  <2> QED  BY <1>3, <2>1, <2>2 DEF None
<1>10. Has(x, "status_request") <=> offer.stapling
  <2>1. 5 \in 1 .. 9 /\ e[5].type = "status_request"
    BY <1>4
  <2>2. /\ Has(x, e[5].type) <=> 5 \in K
        /\ 5 \in K => DataOf(x, e[5].type, <<>>) = e[5].data
        /\ 5 \notin K => DataOf(x, e[5].type, <<>>) = <<>>
    BY <1>2, <2>1
  <2> QED  BY <1>3, <2>1, <2>2
<1>11. /\ Has(x, "alpn") <=> offer.alpn # <<>>
       /\ DataOf(x, "alpn", <<>>) = offer.alpn
  <2>1. 6 \in 1 .. 9 /\ e[6].type = "alpn" /\ e[6].data = offer.alpn
    BY <1>4
  <2>2. /\ Has(x, e[6].type) <=> 6 \in K
        /\ 6 \in K => DataOf(x, e[6].type, <<>>) = e[6].data
        /\ 6 \notin K => DataOf(x, e[6].type, <<>>) = <<>>
    BY <1>2, <2>1
  <2> QED  BY <1>3, <2>1, <2>2
<1>12. Has(x, "early_data") <=> offer.early
  <2>1. 7 \in 1 .. 9 /\ e[7].type = "early_data"
    BY <1>4
  <2>2. /\ Has(x, e[7].type) <=> 7 \in K
        /\ 7 \in K => DataOf(x, e[7].type, <<>>) = e[7].data
        /\ 7 \notin K => DataOf(x, e[7].type, <<>>) = <<>>
    BY <1>2, <2>1
  <2> QED  BY <1>3, <2>1, <2>2
<1>13. Has(x, "psk_key_exchange_modes") <=> offer.psks # <<>>
  <2>1. 8 \in 1 .. 9 /\ e[8].type = "psk_key_exchange_modes"
    BY <1>4
  <2>2. /\ Has(x, e[8].type) <=> 8 \in K
        /\ 8 \in K => DataOf(x, e[8].type, <<>>) = e[8].data
        /\ 8 \notin K => DataOf(x, e[8].type, <<>>) = <<>>
    BY <1>2, <2>1
  <2> QED  BY <1>3, <2>1, <2>2
<1>14. /\ Has(x, "pre_shared_key") <=> offer.psks # <<>>
       /\ DataOf(x, "pre_shared_key", <<>>) = offer.psks
  <2>1. 9 \in 1 .. 9 /\ e[9].type = "pre_shared_key" /\ e[9].data = offer.psks
    BY <1>4
  <2>2. /\ Has(x, e[9].type) <=> 9 \in K
        /\ 9 \in K => DataOf(x, e[9].type, <<>>) = e[9].data
        /\ 9 \notin K => DataOf(x, e[9].type, <<>>) = <<>>
    BY <1>2, <2>1
  <2> QED  BY <1>3, <2>1, <2>2
<1> QED
  BY <1>6, <1>7, <1>8, <1>9, <1>10, <1>11, <1>12, <1>13, <1>14 DEF x

-----------------------------------------------------------------------------
(***************************************************************************)
(* Hellos that resume.                                                     *)
(***************************************************************************)
EarlyIn(tickets) == \E t \in ToSet(tickets) : t.early

Zeros(tickets) == [i \in DOMAIN tickets |-> [identity |-> tickets[i].id, binder |-> Zero]]

Unsigned(offer, tickets) ==
  [offer EXCEPT !.early = EarlyIn(tickets), !.psks = Zeros(tickets)]

Signed(hash, offer, tickets) ==
  [offer EXCEPT !.early = EarlyIn(tickets), !.psks = WithBinders(Zeros(tickets),
     [i \in DOMAIN tickets |->
        Binder(hash, tickets[i].id, ClientHello("tls13", Unsigned(offer, tickets)))])]

\* A hello that resumes is the one of an offer with binders.
LEMMA ResumptionIsSigned ==
  ASSUME NEW hash, NEW offer, NEW tickets
  PROVE  ResumptionHello(hash, offer, tickets) = ClientHello("tls13", Signed(hash, offer, tickets))
BY DEF ResumptionHello, Signed, Unsigned, Zeros, EarlyIn

\* Tickets of a list.
LEMMA TicketsAre ==
  ASSUME NEW tickets \in TicketLists
  PROVE  /\ Len(tickets) \in Nat \ {0} /\ DOMAIN tickets = 1 .. Len(tickets)
         /\ 1 \in DOMAIN tickets
         /\ \A i, j \in DOMAIN tickets : tickets[i].id = tickets[j].id => i = j
<1>1. tickets \in Seq([id : STRING, early : BOOLEAN]) /\ tickets # <<>>
  BY NegotiationAssumption
<1>2. Len(tickets) \in Nat \ {0} /\ DOMAIN tickets = 1 .. Len(tickets)
  BY <1>1
<1>3. IsInjective([i \in DOMAIN tickets |-> tickets[i].id])
  BY NegotiationAssumption
<1>4. \A i, j \in DOMAIN tickets : tickets[i].id = tickets[j].id => i = j
  BY <1>3 DEF IsInjective
<1> QED  BY <1>2, <1>4

\* The fields of an offer.
LEMMA OfferType ==
  ASSUME NEW offer \in Offers
  PROVE  /\ offer = [name |-> offer.name, stapling |-> offer.stapling, alpn |-> offer.alpn,
                     early |-> FALSE, psks |-> <<>>]
         /\ offer.name \in {None} \cup {Some(n) : n \in Names}
         /\ offer.stapling \in BOOLEAN
         /\ offer.alpn \in {<<>>} \cup AlpnLists
         /\ offer.early = FALSE /\ offer.psks = <<>>
BY DEF Offers

\* An offer without and with binders says what the client has and which
\* tickets it brings.
LEMMA SignedSays ==
  ASSUME NEW hash, NEW offer \in Offers, NEW tickets \in TicketLists,
         NEW o, o = Signed(hash, offer, tickets) \/ o = Unsigned(offer, tickets)
  PROVE  /\ o.name = offer.name /\ o.stapling = offer.stapling /\ o.alpn = offer.alpn
         /\ DOMAIN o.psks = DOMAIN tickets
         /\ \A i \in DOMAIN tickets : o.psks[i].identity = tickets[i].id
<1> DEFINE early == EarlyIn(tickets)
           binders == [i \in DOMAIN tickets |->
             Binder(hash, tickets[i].id, ClientHello("tls13", Unsigned(offer, tickets)))]
<1>2. PICK psks \in {Zeros(tickets), WithBinders(Zeros(tickets), binders)} :
        o = [offer EXCEPT !.early = early, !.psks = psks]
  BY DEF Signed, Unsigned
<1>3. /\ DOMAIN psks = DOMAIN tickets
      /\ \A i \in DOMAIN tickets : psks[i].identity = tickets[i].id
  <2>1. /\ DOMAIN Zeros(tickets) = DOMAIN tickets
        /\ \A i \in DOMAIN tickets : Zeros(tickets)[i].identity = tickets[i].id
    BY DEF Zeros
  <2> HIDE DEF binders
  <2>2. /\ DOMAIN WithBinders(Zeros(tickets), binders) = DOMAIN tickets
        /\ \A i \in DOMAIN tickets :
             WithBinders(Zeros(tickets), binders)[i].identity = tickets[i].id
    BY <2>1 DEF WithBinders
  <2> QED  BY <2>1, <2>2
<1> HIDE DEF early
<1>5. /\ o.name = offer.name /\ o.stapling = offer.stapling /\ o.alpn = offer.alpn
      /\ o.psks = psks
  BY <1>2, OfferType
<1> QED  BY <1>3, <1>5

LEMMA SignedEarly ==
  ASSUME NEW hash, NEW offer \in Offers, NEW tickets \in TicketLists,
         NEW o, o = Signed(hash, offer, tickets) \/ o = Unsigned(offer, tickets)
  PROVE  /\ o.stapling \in BOOLEAN
         /\ o.early \in BOOLEAN /\ (o.early <=> EarlyIn(tickets))
         /\ o.psks # <<>>
<1> DEFINE early == EarlyIn(tickets)
<1>1. early \in BOOLEAN
  BY DEF EarlyIn
<1>2. \E psks : o = [offer EXCEPT !.early = early, !.psks = psks]
  BY DEF Signed, Unsigned
<1> HIDE DEF early
<1>3. o.early = early /\ o.stapling = offer.stapling
  BY <1>2, OfferType
<1>4. o.stapling \in BOOLEAN
  BY <1>3, OfferType
<1>5. o.psks # <<>>
  <2>1. 1 \in DOMAIN o.psks
    <3>1. DOMAIN o.psks = DOMAIN tickets
      BY SignedSays
    <3> QED  BY <3>1, TicketsAre
  <2> QED  BY <2>1
<1> QED  BY <1>1, <1>3, <1>4, <1>5 DEF early

-----------------------------------------------------------------------------
(***************************************************************************)
(* Settings are well formed, and the last hello sent is the one of its     *)
(* offer, its tickets and its hash.                                        *)
(***************************************************************************)
SettingsOK ==
  name \in {None} \cup {Some(n) : n \in Names} /\ alpn \in {<<>>} \cup AlpnLists

Plain(last) == last.tickets = <<>> /\ last.hello = ClientHello("tls13", last.offer)

Resuming(last) ==
  /\ last.tickets \in TicketLists
  /\ last.hello = ResumptionHello(last.hash, last.offer, last.tickets)

SentOK ==
  sent # None =>
    /\ sent[1].offer \in Offers /\ sent[1].hash \in {"sha256", "sha384"}
    /\ Plain(sent[1]) \/ Resuming(sent[1])

EarlyAsSent == earlyOffered => sent # None /\ EarlyIn(sent[1].tickets)

HelloInv == SettingsOK /\ SentOK /\ EarlyAsSent

\* What a call that sends a hello leaves.
LEMMA SentByCall ==
  ASSUME HelloInv, NEW stapling \in BOOLEAN,
         \/ SendClientHello(stapling)
         \/ \E tickets \in TicketLists : SendResumptionHello(stapling, tickets)
  PROVE  HelloInv'
<1>1. Offer(stapling) \in Offers /\ HashOf(suite) \in {"sha256", "sha384"}
  BY DEF HelloInv, SettingsOK, Offer, Offers, HashOf
<1>2. SettingsOK'
  BY DEF HelloInv, SettingsOK, SendClientHello, SendResumptionHello, SendHello, settings
<1>3. ASSUME NEW hello, NEW tickets, SendHello(hello, Offer(stapling), tickets)
      PROVE  /\ sent' # None
             /\ sent'[1].hello = hello /\ sent'[1].offer = Offer(stapling)
             /\ sent'[1].tickets = tickets /\ sent'[1].hash = HashOf(suite)
             /\ earlyOffered' => EarlyIn(tickets)
  <2>1. sent' = Some([hello |-> hello, offer |-> Offer(stapling), tickets |-> tickets,
                      hash |-> HashOf(suite)])
    BY <1>3 DEF SendHello
  <2>2. earlyOffered' => EarlyIn(tickets)
    BY <1>3 DEF SendHello, EarlyIn
  <2> QED  BY <2>1, <2>2 DEF Some, None
<1>4. CASE SendClientHello(stapling)
  <2>1. SendHello(ClientHello("tls13", Offer(stapling)), Offer(stapling), <<>>)
    BY <1>4 DEF SendClientHello
  <2>2. Plain(sent[1])'
    BY <1>3, <2>1 DEF Plain
  <2> QED  BY <1>1, <1>2, <1>3, <2>1, <2>2 DEF HelloInv, SentOK, EarlyAsSent
<1>5. ASSUME NEW tickets \in TicketLists, SendResumptionHello(stapling, tickets)
      PROVE  HelloInv'
  <2>1. SendHello(ResumptionHello(HashOf(suite), Offer(stapling), tickets),
                  Offer(stapling), tickets)
    BY <1>5 DEF SendResumptionHello
  <2>2. Resuming(sent[1])'
    BY <1>3, <2>1 DEF Resuming
  <2> QED  BY <1>1, <1>2, <1>3, <2>1, <2>2 DEF HelloInv, SentOK, EarlyAsSent
<1> QED  BY <1>4, <1>5

\* The other steps send nothing.
LEMMA NothingSent ==
  ASSUME HelloInv, UNCHANGED <<sent, earlyOffered>>, SettingsOK'
  PROVE  HelloInv'
BY DEF HelloInv, SentOK, EarlyAsSent, Plain, Resuming

LEMMA AlwaysHelloInv == Spec => []HelloInv
<1>1. Init => HelloInv
  BY DEF Init, HelloInv, SettingsOK, SentOK, EarlyAsSent
<1>2. HelloInv /\ [Next]_vars => HelloInv'
  <2> SUFFICES ASSUME HelloInv, [Next]_vars PROVE HelloInv'
    OBVIOUS
  <2>0. SettingsOK
    BY DEF HelloInv
  <2>1. CASE Configure
    <3>1. SettingsOK' /\ UNCHANGED <<sent, earlyOffered>>
      BY <2>0, <2>1
      DEF Configure, SetServerName, SetAlpnProtocols, SetRequireServerNameAck, SettingsOK
    <3> QED  BY <3>1, NothingSent
  <2>2. CASE Client
    <3>1. CASE Complete
      BY <2>0, <3>1, NothingSent DEF Complete, SettingsOK, settings
    <3> QED  BY <2>2, <3>1, SentByCall DEF Client
  <2>3. CASE Server
    BY <2>0, <2>3, NothingSent DEF Server, Answer, SettingsOK, settings
  <2>4. CASE Replies
    BY <2>0, <2>4, NothingSent
    DEF Replies, RecvServerHello, RecvHelloRetryRequest, RecvEncryptedExtensions,
        SettingsOK, settings
  <2>5. CASE UNCHANGED vars
    BY <2>0, <2>5, NothingSent DEF vars, SettingsOK, settings
  <2> QED  BY <2>1, <2>2, <2>3, <2>4, <2>5 DEF Next
<1> QED  BY <1>1, <1>2, PTL DEF Spec

-----------------------------------------------------------------------------
(***************************************************************************)
(* What the client has learnt is about its settings and its last hello.    *)
(***************************************************************************)

\* A hello that brings a ticket for early data says so.
LEMMA EarlySaid ==
  ASSUME SentOK, sent # None, EarlyIn(sent[1].tickets)
  PROVE  Has(sent[1].hello.extensions, "early_data")
<1>1. /\ sent[1].offer \in Offers /\ sent[1].hash \in {"sha256", "sha384"}
      /\ Plain(sent[1]) \/ Resuming(sent[1])
  BY DEF SentOK
<1>2. ~ Plain(sent[1])
  BY DEF Plain, EarlyIn, ToSet
<1>3. PICK hash \in {"sha256", "sha384"}, offer \in Offers, tickets \in TicketLists :
        /\ tickets = sent[1].tickets
        /\ sent[1].hello = ClientHello("tls13", Signed(hash, offer, tickets))
  <2>1. /\ sent[1].tickets \in TicketLists
        /\ sent[1].hello =
             ClientHello("tls13", Signed(sent[1].hash, sent[1].offer, sent[1].tickets))
    BY <1>1, <1>2, ResumptionIsSigned DEF Resuming
  <2> QED  BY <1>1, <2>1
<1> DEFINE o == Signed(hash, offer, tickets)
<1>0. o = Signed(hash, offer, tickets)
  OBVIOUS
<1> HIDE DEF o
<1>4. o.early \in BOOLEAN /\ (o.early <=> EarlyIn(tickets))
  BY <1>0, SignedEarly
<1>5. o.stapling \in BOOLEAN
  BY <1>0, SignedEarly
<1>6. Has(ClientHello("tls13", o).extensions, "early_data") <=> o.early
  BY <1>4, <1>5, HelloSays
<1> QED  BY <1>3, <1>4, <1>6 DEF o

\* A step that resets what it disturbs, or that learns from an accepted
\* message, keeps it.
LEMMA LearntStep ==
  ASSUME HelloInv, LearntOfSettings, [Next]_vars
  PROVE  LearntOfSettings'
<1>1. ASSUME NEW new, SetServerName(new)
      PROVE  LearntOfSettings'
  BY <1>1 DEF SetServerName, LearntOfSettings
<1>2. ASSUME NEW list, SetAlpnProtocols(list)
      PROVE  LearntOfSettings'
  BY <1>2 DEF SetAlpnProtocols, LearntOfSettings
<1>3. ASSUME NEW required, SetRequireServerNameAck(required)
      PROVE  LearntOfSettings'
  BY <1>3 DEF SetRequireServerNameAck, LearntOfSettings, learnt
<1>4. ASSUME NEW hello, NEW offer, NEW tickets, SendHello(hello, offer, tickets)
      PROVE  LearntOfSettings'
  BY <1>4 DEF SendHello, LearntOfSettings
<1>5. ASSUME NEW hello, NEW preferred, NEW share, Answer(hello, preferred, share)
      PROVE  LearntOfSettings'
  BY <1>5 DEF Answer, LearntOfSettings, settings, learnt
<1>6. ASSUME NEW hello, RecvServerHello(hello) \/ RecvHelloRetryRequest(hello)
      PROVE  LearntOfSettings'
  BY <1>6 DEF RecvServerHello, RecvHelloRetryRequest, LearntOfSettings, settings, learnt
<1>7. ASSUME NEW extensions, RecvEncryptedExtensions(extensions)
      PROVE  LearntOfSettings'
  <2>1. acknowledged' => name' # None
    BY <1>7 DEF RecvEncryptedExtensions, settings
  <2>2. selected' # None => alpn' = <<>> \/ selected'[1] \in ToSet(alpn')
    BY <1>7 DEF RecvEncryptedExtensions, LearntOfSettings, settings
  <2>3. earlyAccepted' => earlyOffered /\ sent' = sent
    BY <1>7 DEF RecvEncryptedExtensions
  <2>4. earlyAccepted' => sent' # None /\ Has(sent'[1].hello.extensions, "early_data")
    BY <2>3, EarlySaid DEF HelloInv, EarlyAsSent
  <2> QED  BY <2>1, <2>2, <2>4 DEF LearntOfSettings
<1>8. CASE Complete
  BY <1>8 DEF Complete, LearntOfSettings, settings, learnt
<1>9. CASE UNCHANGED vars
  BY <1>9 DEF vars, LearntOfSettings, settings, learnt
<1>10. CASE Configure
  BY <1>1, <1>2, <1>3, <1>10 DEF Configure
<1>11. CASE Client
  BY <1>4, <1>8, <1>11 DEF Client, SendClientHello, SendResumptionHello
<1>12. CASE Server
  BY <1>5, <1>12 DEF Server
<1>13. CASE Replies
  BY <1>6, <1>7, <1>13 DEF Replies
<1> QED  BY <1>9, <1>10, <1>11, <1>12, <1>13 DEF Next

\* What the client believes the server said is about its present settings and
\* its last hello, whatever is set in the middle of a handshake
\* (set_tls13_alpn_protocols, set_tls13_server_name, recv_encrypted_extensions).
THEOREM LearntAlways == Spec => []LearntOfSettings
<1>1. Init => LearntOfSettings
  BY DEF Init, LearntOfSettings
<1>2. HelloInv /\ LearntOfSettings /\ [Next]_vars => LearntOfSettings'
  BY LearntStep
<1> QED  BY <1>1, <1>2, AlwaysHelloInv, PTL DEF Spec

-----------------------------------------------------------------------------
(***************************************************************************)
(* The suite a server chooses.                                             *)
(***************************************************************************)

LEMMA LeastNumber ==
  ASSUME NEW T, T \subseteq Nat, T # {}
  PROVE  \E x \in T : \A y \in T : x =< y
<1>1. PICK x \in T : \A y \in T : <<y, x>> \notin OpToRel(<, Nat)
  BY NatLessThanWellFounded, WFMin
<1>2. ASSUME NEW y \in T PROVE x =< y
  <2>1. x \in Nat /\ y \in Nat
    OBVIOUS
  <2>2. ~ (y < x)
    BY <1>1, <2>1 DEF OpToRel
  <2> QED  BY <2>1, <2>2
<1> QED  BY <1>2

\* The first index of a sequence that is in a set.
LEMMA FirstIndex ==
  ASSUME NEW n \in Nat, NEW I \in SUBSET (1 .. n), I # {}
  PROVE  /\ Min(I) \in I
         /\ \A j \in 1 .. Min(I) - 1 : j \notin I
<1>2. \E x \in I : \A y \in I : x =< y
  <2>1. I \subseteq Nat
    OBVIOUS
  <2> QED  BY <2>1, LeastNumber
<1>3. Min(I) \in I /\ \A y \in I : Min(I) =< y
  BY <1>2 DEF Min
<1> DEFINE m == Min(I)
<1>4. m \in I /\ \A y \in I : m =< y
  BY <1>3
<1> HIDE DEF m
<1>5. \A j \in 1 .. m - 1 : j \notin I
  <2>1. m \in Nat
    BY <1>4
  <2> QED  BY <1>4, <2>1
<1> QED  BY <1>4, <1>5 DEF m

LEMMA SuiteChosen ==
  ASSUME NEW info, NEW preferred \in Preferences,
         NEW suites, info.suites = suites \cap Suites,
         PickIntersectionSuite(info, preferred, "tls13") # None
  PROVE  LET s == PickIntersectionSuite(info, preferred, "tls13")[1]
             possible == suites \cap Tls13Suites
         IN /\ s \in Tls13Suites
            /\ OffersSupportedKeyExchange(info)
            /\ \E i \in DOMAIN preferred :
                 /\ preferred[i] = s /\ s \in possible
                 /\ \A j \in 1 .. i - 1 : preferred[j] \notin possible
<1> DEFINE n == Len(preferred)
           offers == OffersSupportedKeyExchange(info)
           I == {i \in 1 .. n : /\ preferred[i] \in info.suites
                                /\ preferred[i] \in Tls13Suites
                                /\ preferred[i] \in Tls13Suites => offers}
           first == IF I # {} THEN Min(I) ELSE 0
<1>1. n \in Nat /\ DOMAIN preferred = 1 .. n
  <2>1. preferred \in Seq(Suites)
    BY NegotiationAssumption
  <2> QED  BY <2>1
<1>2. PickIntersectionSuite(info, preferred, "tls13") = OnlyIf(first # 0, preferred[first])
  BY DEF PickIntersectionSuite, SelectInSeq, SuiteSupportedByVersion, SuiteAllowedByExtensions
<1>3. I # {}
  BY <1>2 DEF OnlyIf
<1>4. Min(I) \in I /\ \A j \in 1 .. Min(I) - 1 : j \notin I
  <2>1. I \in SUBSET (1 .. n)
    OBVIOUS
  <2> HIDE DEF I, n
  <2> QED  BY <1>1, <1>3, <2>1, FirstIndex
<1> DEFINE m == Min(I)
<1>5. m \in 1 .. n /\ first = m /\ m # 0
  BY <1>1, <1>3, <1>4
<1>6. PickIntersectionSuite(info, preferred, "tls13")[1] = preferred[m]
  BY <1>2, <1>5 DEF OnlyIf, Some
<1>7. preferred[m] \in info.suites /\ preferred[m] \in Tls13Suites /\ offers
  BY <1>4
<1>8. \A j \in 1 .. m - 1 : j \notin I /\ j \in 1 .. n
  BY <1>1, <1>4, <1>5
<1>9. \A j \in 1 .. m - 1 : preferred[j] \notin suites \cap Tls13Suites
  BY <1>7, <1>8 DEF Suites
<1> HIDE DEF m
<1> QED  BY <1>1, <1>5, <1>6, <1>7, <1>9

(***************************************************************************)
(* The answer for a suite, and what a client reads in it.                  *)
(***************************************************************************)
LEMMA AnswerTaken ==
  ASSUME NEW s \in Tls13Suites, NEW share, BuildServerHello("tls13", s, share) # None
  PROVE  LET taken == ParseServerHello(BuildServerHello("tls13", s, share)[1]) IN
         /\ taken # None /\ taken[1].suite = s
         /\ ~ taken[1].retry /\ taken[1].share # None
<1> DEFINE used == IF share = None THEN Share("x25519") ELSE share[1]
           e1 == Extension("supported_versions", <<"tls13">>)
           e2 == Extension("key_share", <<used>>)
           x == <<e1, e2>>
           hello == [form |-> "full", legacy |-> "0303", retry |-> FALSE, suite |-> s,
                     extensions |-> x]
<1>1. /\ used.fits /\ used.group \in SupportedGroups
      /\ BuildServerHello("tls13", s, share) = Some(hello)
  <2> HIDE DEF used
  <2> QED  BY DEF BuildServerHello, used
<1> HIDE DEF used
<1>2. /\ e1.type = "supported_versions" /\ e1.data = <<"tls13">> /\ e1.sound
      /\ e2.type = "key_share" /\ e2.data = <<used>> /\ e2.sound
  BY ExtensionHas
<1> HIDE DEF e1, e2
<1>3. DOMAIN x = {1, 2} /\ x[1] = e1 /\ x[2] = e2
  OBVIOUS
<1>4. /\ hello.form = "full" /\ hello.legacy = "0303" /\ ~ hello.retry
      /\ hello.suite = s /\ hello.extensions = x
  OBVIOUS
<1> HIDE DEF x, hello
<1>5. Has(x, "supported_versions") /\ Has(x, "key_share")
  BY <1>2, <1>3 DEF Has
<1>6. DataOf(x, "key_share", None) = <<used>>
  <2> DEFINE i == CHOOSE i \in DOMAIN x : x[i].type = "key_share"
  <2>1. i \in DOMAIN x /\ x[i].type = "key_share"
    BY <1>5 DEF Has
  <2>2. i = 2
    BY <1>2, <1>3, <2>1
  <2>3. DataOf(x, "key_share", None) = x[i].data
    BY <1>5 DEF DataOf
  <2> QED  BY <1>2, <1>3, <2>2, <2>3
<1>7. SoundServerExtension(e1, hello.retry) /\ SoundServerExtension(e2, hello.retry)
  BY <1>1, <1>2 DEF SoundServerExtension
<1>8. \A i \in DOMAIN x : /\ \A j \in 1 .. i - 1 : x[j].type # x[i].type
                         /\ SoundServerExtension(x[i], hello.retry)
  BY <1>2, <1>3, <1>7
<1>9. ParseServerHello(hello) =
        Some([suite |-> hello.suite, retry |-> hello.retry,
              share |-> IF hello.retry THEN None ELSE DataOf(x, "key_share", None),
              group |-> IF hello.retry THEN DataOf(x, "key_share", None) ELSE None])
  BY <1>4, <1>5, <1>8 DEF ParseServerHello, OnlyIf, Suites
<1> QED  BY <1>1, <1>4, <1>6, <1>9 DEF Some, None

(***************************************************************************)
(* What is known of a hello that a server has read.                        *)
(***************************************************************************)

\* A ticket that is read has an identity.
LEMMA SoundPsks ==
  ASSUME NEW e, SoundClientExtension(e), e.type = "pre_shared_key"
  PROVE  e.data # <<>>
BY DEF SoundClientExtension

LEMMA HelloRead ==
  ASSUME NEW hello, ParseClientHello(hello) # None,
         Len(hello.extensions) \in Nat,
         DOMAIN hello.extensions = 1 .. Len(hello.extensions)
  PROVE  LET info == ParseClientHello(hello)[1] IN
         /\ info.suites = ToSet(hello.suites) \cap Suites
         /\ info.psks # <<>> => Last(hello.extensions).type = "pre_shared_key"
         /\ info.early => info.psks # <<>>
<1> DEFINE x == hello.extensions
           psks == DataOf(x, "pre_shared_key", <<>>)
           info == ParseClientHello(hello)[1]
<1>1. ClientExtensionsAccepted(x)
  BY DEF ParseClientHello, OnlyIf
<1>2. /\ info.suites = ToSet(hello.suites) \cap Suites
      /\ info.psks = psks
      /\ info.early = Has(x, "early_data")
  BY DEF ParseClientHello, OnlyIf, Some
<1>3. psks # <<>> => Last(x).type = "pre_shared_key"
  <2> SUFFICES ASSUME psks # <<>> PROVE Last(x).type = "pre_shared_key"
    OBVIOUS
  <2>1. PICK i \in DOMAIN x : x[i].type = "pre_shared_key"
    BY DEF DataOf, Has
  <2>2. i \in Nat /\ i >= 1 /\ i =< Len(x)
    OBVIOUS
  <2>3. ~ (i < Len(x))
    <3>1. \A k \in DOMAIN x : \A j \in 1 .. k - 1 : x[j].type # "pre_shared_key"
      BY <1>1 DEF ClientExtensionsAccepted
    <3> SUFFICES ASSUME i < Len(x) PROVE FALSE
      OBVIOUS
    <3>2. Len(x) \in DOMAIN x /\ i \in 1 .. Len(x) - 1
      BY <2>2
    <3> QED  BY <2>1, <3>1, <3>2
  <2> QED  BY <2>1, <2>2, <2>3 DEF Last
<1>4. Has(x, "pre_shared_key") => psks # <<>>
  <2> SUFFICES ASSUME Has(x, "pre_shared_key") PROVE psks # <<>>
    OBVIOUS
  <2> DEFINE i == CHOOSE i \in DOMAIN x : x[i].type = "pre_shared_key"
  <2>1. i \in DOMAIN x /\ x[i].type = "pre_shared_key"
    BY DEF Has
  <2>2. psks = x[i].data
    BY DEF DataOf
  <2> HIDE DEF i, psks
  <2>3. SoundClientExtension(x[i])
    BY <1>1, <2>1 DEF ClientExtensionsAccepted
  <2> QED  BY <2>1, <2>2, <2>3, SoundPsks
<1>5. Has(x, "early_data") => Has(x, "pre_shared_key")
  BY <1>1 DEF ClientExtensionsAccepted
<1> HIDE DEF info, psks, x
<1>6. info.early => info.psks # <<>>
  BY <1>2, <1>4, <1>5
<1> QED  BY <1>2, <1>3, <1>6 DEF info, x

-----------------------------------------------------------------------------
(***************************************************************************)
(* What a server has answered, until the client has it.                    *)
(***************************************************************************)

\* A client that waits has sent a hello, and it is one of Hellos.
Waiting == state = "ClientHelloSent" => sent # None

LEMMA SentIsHello ==
  ASSUME SentOK, sent # None
  PROVE  sent[1].hello \in Hellos
<1>1. /\ sent[1].offer \in Offers /\ sent[1].hash \in {"sha256", "sha384"}
      /\ Plain(sent[1]) \/ Resuming(sent[1])
  BY DEF SentOK
<1>2. CASE Plain(sent[1])
  BY <1>1, <1>2 DEF Plain, Hellos
<1>3. CASE Resuming(sent[1])
  BY <1>1, <1>3 DEF Resuming, Hellos
<1> QED  BY <1>1, <1>2, <1>3

LEMMA WaitingStep ==
  ASSUME Waiting, [Next]_vars
  PROVE  Waiting'
<1>1. ASSUME NEW hello, NEW offer, NEW tickets, SendHello(hello, offer, tickets)
      PROVE  Waiting'
  BY <1>1 DEF SendHello, Waiting, Some, None
<1>2. CASE Client
  BY <1>1, <1>2 DEF Client, SendClientHello, SendResumptionHello, Complete, Waiting
<1>3. CASE Configure
  BY <1>3 DEF Configure, SetServerName, SetAlpnProtocols, SetRequireServerNameAck, Waiting
<1>4. CASE Server
  BY <1>4 DEF Server, Answer, Waiting
<1>5. CASE Replies
  <2>1. UNCHANGED sent /\ (state' = "ClientHelloSent" => state = "ClientHelloSent")
    BY <1>5
    DEF Replies, RecvServerHello, RecvHelloRetryRequest, RecvEncryptedExtensions
  <2> QED  BY <2>1 DEF Waiting
<1>6. CASE UNCHANGED vars
  BY <1>6 DEF vars, Waiting
<1> QED  BY <1>2, <1>3, <1>4, <1>5, <1>6 DEF Next

\* The step of the server.
LEMMA AnswerSound ==
  ASSUME NEW hello, Len(hello.extensions) \in Nat,
         DOMAIN hello.extensions = 1 .. Len(hello.extensions),
         NEW preferred \in Preferences, NEW share, Answer(hello, preferred, share)
  PROVE  ChoiceSound'
<1> DEFINE parsed == ParseClientHello(hello)
           info == parsed[1]
           chosen == PickIntersectionSuite(info, preferred, "tls13")
           s == chosen[1]
           built == BuildServerHello("tls13", s, share)
<1>1. parsed # None
  BY DEF Answer
<1>2. /\ chosen # None /\ built # None
      /\ received' = Some([hello |-> hello, info |-> info, suite |-> s,
                           preferred |-> preferred])
      /\ answer' = built
  BY <1>1 DEF Answer
<1>3. /\ info.suites = ToSet(hello.suites) \cap Suites
      /\ info.psks # <<>> => Last(hello.extensions).type = "pre_shared_key"
      /\ info.early => info.psks # <<>>
  BY <1>1, HelloRead
<1> DEFINE possible == ToSet(hello.suites) \cap Tls13Suites
<1> HIDE DEF parsed
<1>4. /\ s \in Tls13Suites
      /\ OffersSupportedKeyExchange(info)
      /\ \E i \in DOMAIN preferred :
           /\ preferred[i] = s /\ s \in possible
           /\ \A j \in 1 .. i - 1 : preferred[j] \notin possible
  BY <1>2, <1>3, SuiteChosen
<1> DEFINE taken == ParseServerHello(built[1])
<1> HIDE DEF s
<1>5. taken # None /\ taken[1].suite = s /\ ~ taken[1].retry /\ taken[1].share # None
  BY <1>2, <1>4, AnswerTaken
<1> DEFINE r == received'[1]
<1>6. r.hello = hello /\ r.info = info /\ r.suite = s /\ r.preferred = preferred
  BY <1>2 DEF Some
<1> HIDE DEF info, built, r
<1>7. /\ \E i \in DOMAIN r.preferred :
           /\ r.preferred[i] = r.suite /\ r.suite \in possible
           /\ \A j \in 1 .. i - 1 : r.preferred[j] \notin possible
      /\ possible = ToSet(r.hello.suites) \cap Tls13Suites
  BY <1>4, <1>6
<1>8. "tls13" \in ToSet(r.info.versions) /\ ToSet(r.info.groups) \cap SupportedGroups # {}
  BY <1>4, <1>6 DEF OffersSupportedKeyExchange
<1>9. /\ r.info.psks # <<>> => Last(r.hello.extensions).type = "pre_shared_key"
      /\ r.info.early => r.info.psks # <<>>
  BY <1>3, <1>6
<1> HIDE DEF possible, taken
<1> QED  BY <1>2, <1>5, <1>6, <1>7, <1>8, <1>9 DEF ChoiceSound, r, possible, taken

\* An answer and the hello it is for are there together, and go together.
LEMMA ChoiceStep ==
  ASSUME HelloInv, Waiting, ChoiceSound, [Next]_vars
  PROVE  ChoiceSound'
<1>1. ASSUME received' = None
      PROVE  ChoiceSound'
  BY <1>1 DEF ChoiceSound
<1>2. ASSUME UNCHANGED <<received, answer>>
      PROVE  ChoiceSound'
  BY <1>2 DEF ChoiceSound
<1>3. CASE Configure
  BY <1>2, <1>3 DEF Configure, SetServerName, SetAlpnProtocols, SetRequireServerNameAck
<1>4. CASE Client
  BY <1>1, <1>2, <1>4
  DEF Client, SendClientHello, SendResumptionHello, SendHello, Complete
<1>5. CASE Server
  <2>1. PICK preferred \in Preferences, share \in ServerShares, how \in Alterations :
          state = "ClientHelloSent" /\ Answer(Altered(sent[1].hello, how), preferred, share)
    BY <1>5 DEF Server
  <2>2. sent[1].hello \in Hellos
    BY <2>1, SentIsHello DEF Waiting, HelloInv
  <2> DEFINE hello == Altered(sent[1].hello, how)
  <2>3. Len(hello.extensions) \in Nat /\ DOMAIN hello.extensions = 1 .. Len(hello.extensions)
    BY <2>2, AlterationAssumption
  <2>4. Answer(hello, preferred, share)
    BY <2>1
  <2> HIDE DEF hello
  <2> QED  BY <2>3, <2>4, AnswerSound
<1>6. CASE Replies
  BY <1>1, <1>2, <1>6
  DEF Replies, RecvServerHello, RecvHelloRetryRequest, RecvEncryptedExtensions
<1>7. CASE UNCHANGED vars
  BY <1>2, <1>7 DEF vars
<1> QED  BY <1>3, <1>4, <1>5, <1>6, <1>7 DEF Next

\* Whatever happens to a hello on its way, the suite of an answer is the one
\* the server likes best of those of TLS 1.3 in that hello, the hello has all
\* that it needs, and a client of this code takes the answer
\* (pick_intersection_suite, encode_server_hello_body_with_key_share).
THEOREM ChoiceAlways == Spec => []ChoiceSound
<1>1. Init => Waiting /\ ChoiceSound
  BY DEF Init, Waiting, ChoiceSound
<1>2. HelloInv /\ Waiting /\ ChoiceSound /\ [Next]_vars => Waiting' /\ ChoiceSound'
  BY WaitingStep, ChoiceStep
<1> QED  BY <1>1, <1>2, AlwaysHelloInv, PTL DEF Spec

-----------------------------------------------------------------------------
(***************************************************************************)
(* A server reads what was offered.                                        *)
(***************************************************************************)

\* What can be offered: a name, protocols and tickets that are well formed,
\* and early data only with a ticket.
Offered(o) ==
  /\ o.name \in {None} \cup {Some(n) : n \in Names}
  /\ o.stapling \in BOOLEAN /\ o.early \in BOOLEAN
  /\ o.alpn \in {<<>>} \cup AlpnLists
  /\ o.early => o.psks # <<>>
  /\ IsInjective([i \in DOMAIN o.psks |-> o.psks[i].identity])

\* The candidates that are wanted are sound.
LEMMA CandidatesSound ==
  ASSUME NEW offer, Offered(offer), NEW k \in Wanted(offer)
  PROVE  SoundClientExtension(Candidates(offer)[k])
<1> DEFINE e == Candidates(offer)
<1>0. /\ e[1].type = "supported_versions" /\ e[1].data = <<"tls13", "tls12">>
      /\ e[2].type = "signature_algorithms" /\ e[2].data = SchemesOffered
      /\ e[3].type = "key_share" /\ e[3].data = ClientKeyShare
      /\ e[4].type = "server_name" /\ e[4].data = offer.name
      /\ e[5].type = "status_request" /\ e[5].data = <<"ocsp">>
      /\ e[6].type = "alpn" /\ e[6].data = offer.alpn
      /\ e[7].type = "early_data" /\ e[7].data = <<>>
      /\ e[8].type = "psk_key_exchange_modes" /\ e[8].data = <<"psk_dhe_ke">>
      /\ e[9].type = "pre_shared_key" /\ e[9].data = offer.psks
      /\ \A l \in 1 .. 9 : e[l].sound
  BY CandidatesHave
<1> HIDE DEF e
<1>1. e[1].sound /\ e[2].sound /\ e[3].sound /\ e[4].sound /\ e[5].sound
      /\ e[6].sound /\ e[7].sound /\ e[8].sound /\ e[9].sound
  BY <1>0
<1>2. SoundClientExtension(e[1])
  <2>1. IsInjective(<<"tls13", "tls12">>)
    BY DEF IsInjective
  <2> QED  BY <1>0, <1>1, <2>1 DEF SoundClientExtension
<1>3. SoundClientExtension(e[2])
  <2>1. SchemesOffered # <<>>
    BY DEF SchemesOffered
  <2> QED  BY <1>0, <1>1, <2>1 DEF SoundClientExtension
<1>4. SoundClientExtension(e[3])
  <2>1. IsInjective(ClientKeyShare)
    BY DEF IsInjective, ClientKeyShare
  <2> QED  BY <1>0, <1>1, <2>1 DEF SoundClientExtension
<1>5. offer.name # None => SoundClientExtension(e[4])
  <2>1. offer.name # None => offer.name # <<BadName>>
    <3>1. ASSUME NEW n \in Names, offer.name = Some(n) PROVE offer.name # <<BadName>>
      <4>1. n # BadName
        BY NegotiationAssumption
      <4> QED  BY <3>1, <4>1 DEF Some
    <3> QED  BY <3>1 DEF Offered
  <2> QED  BY <1>0, <1>1, <2>1 DEF SoundClientExtension
<1>6. SoundClientExtension(e[5])
  BY <1>0, <1>1 DEF SoundClientExtension
<1>7. offer.alpn # <<>> => SoundClientExtension(e[6])
  <2>1. offer.alpn # <<>> => SoundAlpn(offer.alpn)
    BY NegotiationAssumption DEF Offered, SoundAlpn
  <2> QED  BY <1>0, <1>1, <2>1 DEF SoundClientExtension
<1>8. SoundClientExtension(e[7])
  BY <1>0, <1>1 DEF SoundClientExtension
<1>9. SoundClientExtension(e[8])
  <2>1. "psk_dhe_ke" \in ToSet(<<"psk_dhe_ke">>)
    BY DEF ToSet
  <2> QED  BY <1>0, <1>1, <2>1 DEF SoundClientExtension
<1>10. offer.psks # <<>> => SoundClientExtension(e[9])
  BY <1>0, <1>1 DEF SoundClientExtension, Offered
<1>11. /\ k = 4 => offer.name # None
       /\ k = 6 => offer.alpn # <<>>
       /\ k = 9 => offer.psks # <<>>
       /\ \/ k = 1 \/ k = 2 \/ k = 3 \/ k = 4 \/ k = 5
          \/ k = 6 \/ k = 7 \/ k = 8 \/ k = 9
  BY DEF Wanted
<1> QED
  BY <1>2, <1>3, <1>4, <1>5, <1>6, <1>7, <1>8, <1>9, <1>10, <1>11 DEF e

\* A server that reads a hello of TLS 1.3 gets what was offered.
LEMMA OfferRead ==
  ASSUME NEW offer, Offered(offer)
  PROVE  LET parsed == ParseClientHello(ClientHello("tls13", offer)) info == parsed[1] IN
         /\ parsed # None
         /\ info.name = offer.name /\ info.alpn = offer.alpn /\ info.psks = offer.psks
         /\ info.stapling \in BOOLEAN /\ (info.stapling <=> offer.stapling)
         /\ info.early \in BOOLEAN /\ (info.early <=> offer.early)
<1> DEFINE hello == ClientHello("tls13", offer)
           x == hello.extensions
           e == Candidates(offer)
           S == {e[k] : k \in 1 .. 9}
           K == Wanted(offer)
<1>1. Lists(S, x, e, K, 9)
  BY HelloPicks
<1>2. /\ Has(x, "supported_versions") /\ Has(x, "signature_algorithms")
      /\ Has(x, "key_share")
      /\ Has(x, "status_request") <=> offer.stapling
      /\ Has(x, "early_data") <=> offer.early
      /\ Has(x, "psk_key_exchange_modes") <=> offer.psks # <<>>
      /\ Has(x, "pre_shared_key") <=> offer.psks # <<>>
      /\ DataOf(x, "supported_versions", <<>>) = <<"tls13", "tls12">>
      /\ DataOf(x, "key_share", <<>>) = ClientKeyShare
      /\ DataOf(x, "server_name", <<>>) = offer.name
      /\ DataOf(x, "alpn", <<>>) = offer.alpn
      /\ DataOf(x, "pre_shared_key", <<>>) = offer.psks
  BY HelloSays DEF Offered
<1>3. ToSet(hello.suites) \cap Suites # {}
  <2>1. hello.suites = <<"aes256gcm", "aes128gcm", "chacha20">>
    BY DEF ClientHello, DefaultClientCipherSuites
  <2>2. "aes256gcm" \in ToSet(hello.suites)
    BY <2>1 DEF ToSet
  <2> QED  BY <2>2 DEF Suites, Tls13Suites
<1>4. ClientExtensionsAccepted(x)
  <2>1. PICK f \in [1 .. Len(x) -> K] :
          /\ \A i, j \in 1 .. Len(x) : i < j => f[i] < f[j]
          /\ \A i \in 1 .. Len(x) : x[i] = e[f[i]]
    BY <1>1 DEF Lists, Picks
  <2>2. Len(x) \in Nat /\ DOMAIN x = 1 .. Len(x)
    BY <1>1 DEF Lists
  <2>3. \A j, k \in 1 .. 9 : e[j].type = e[k].type => j = k
    BY CandidateTypes
  <2>4. e[9].type = "pre_shared_key"
    BY CandidatesHave
  <2>5. \A k \in K : k \in 1 .. 9 /\ SoundClientExtension(e[k])
    BY CandidatesSound DEF Wanted
  <2>7. /\ "tls13" \in ToSet(DataOf(x, "supported_versions", <<>>))
        /\ DataOf(x, "key_share", <<>>) # <<>>
    <3>1. "tls13" \in ToSet(<<"tls13", "tls12">>) /\ ClientKeyShare # <<>>
      BY DEF ToSet, ClientKeyShare
    <3> HIDE DEF x
    <3> QED  BY <1>2, <3>1, Zenon
  <2> DEFINE m == Len(x)
  <2> HIDE DEF x, e, K, S, m
  <2>6. ASSUME NEW i \in 1 .. m
        PROVE  /\ \A j \in 1 .. i - 1 : x[j].type # x[i].type
               /\ \A j \in 1 .. i - 1 : x[j].type # "pre_shared_key"
               /\ SoundClientExtension(x[i])
    <3>1. f[i] \in K /\ x[i] = e[f[i]]
      BY <2>1 DEF m
    <3>2. ASSUME NEW j \in 1 .. i - 1
          PROVE  x[j].type # x[i].type /\ x[j].type # "pre_shared_key"
      <4>1. j \in 1 .. m /\ j < i
        BY <2>2 DEF m
      <4>2. f[j] \in K /\ x[j] = e[f[j]] /\ f[j] < f[i]
        BY <2>1, <4>1 DEF m
      <4>3. f[j] \in 1 .. 9 /\ f[i] \in 1 .. 9 /\ f[j] # f[i] /\ f[j] # 9
        BY <2>5, <3>1, <4>2
      <4>4. e[f[j]].type # e[f[i]].type
        BY <2>3, <4>3
      <4>5. e[f[j]].type # e[9].type
        <5>1. 9 \in 1 .. 9
          OBVIOUS
        <5> QED  BY <2>3, <4>3, <5>1
      <4> QED  BY <2>4, <3>1, <4>2, <4>4, <4>5
    <3> QED  BY <2>5, <3>1, <3>2
  <2>8. Has(x, "early_data") => Has(x, "pre_shared_key")
    BY <1>2 DEF Offered, x
  <2>9. DOMAIN x = 1 .. m
    BY <2>2 DEF m
  <2>10. /\ Has(x, "supported_versions") /\ Has(x, "signature_algorithms")
         /\ Has(x, "key_share")
         /\ Has(x, "pre_shared_key") <=> Has(x, "psk_key_exchange_modes")
    BY <1>2 DEF x
  <2> QED  BY <2>6, <2>7, <2>8, <2>9, <2>10 DEF ClientExtensionsAccepted
<1> DEFINE parsed == ParseClientHello(hello)
           info == parsed[1]
<1>5. /\ parsed # None
      /\ info.name = DataOf(x, "server_name", <<>>)
      /\ info.alpn = DataOf(x, "alpn", <<>>)
      /\ info.psks = DataOf(x, "pre_shared_key", <<>>)
      /\ info.stapling = Has(x, "status_request")
      /\ info.early = Has(x, "early_data")
  <2> HIDE DEF hello
  <2> QED  BY <1>3, <1>4 DEF ParseClientHello, OnlyIf, Some, None
<1>6. Has(x, "status_request") \in BOOLEAN /\ Has(x, "early_data") \in BOOLEAN
  BY DEF Has
<1> HIDE DEF x, info, parsed
<1>7. /\ info.stapling \in BOOLEAN /\ (info.stapling <=> offer.stapling)
      /\ info.early \in BOOLEAN /\ (info.early <=> offer.early)
  BY <1>2, <1>5, <1>6
<1> QED  BY <1>2, <1>5, <1>7 DEF info, parsed

-----------------------------------------------------------------------------
(***************************************************************************)
(* With its binders zeroed a hello is the one its binders were computed    *)
(* over.                                                                   *)
(***************************************************************************)

\* Offers that differ in their tickets have the same extensions before them.
LEMMA SameBeforeTickets ==
  ASSUME NEW o, NEW u, o.name = u.name, o.stapling = u.stapling, o.alpn = u.alpn,
         o.early = u.early, o.psks # <<>>, u.psks # <<>>
  PROVE  BeforeTickets(o) = BeforeTickets(u)
<1> DEFINE c == Candidates(o)
           d == Candidates(u)
<1>1. c[1] = d[1] /\ c[2] = d[2] /\ c[3] = d[3] /\ c[4] = d[4]
      /\ c[5] = d[5] /\ c[6] = d[6] /\ c[7] = d[7] /\ c[8] = d[8]
  BY CandidatesAre
<1> HIDE DEF c, d
<1>2. /\ OnlyIf(o.name # None, c[4]) = OnlyIf(u.name # None, d[4])
      /\ OnlyIf(o.stapling, c[5]) = OnlyIf(u.stapling, d[5])
      /\ OnlyIf(o.alpn # <<>>, c[6]) = OnlyIf(u.alpn # <<>>, d[6])
      /\ OnlyIf(o.early, c[7]) = OnlyIf(u.early, d[7])
      /\ OnlyIf(o.psks # <<>>, c[8]) = OnlyIf(u.psks # <<>>, d[8])
  BY <1>1 DEF OnlyIf
<1> QED  BY <1>1, <1>2 DEF BeforeTickets, c, d

\* The fields of an offer without and with binders.
LEMMA SignedFields ==
  ASSUME NEW hash, NEW offer \in Offers, NEW tickets \in TicketLists,
         NEW o, o = Signed(hash, offer, tickets), NEW u, u = Unsigned(offer, tickets)
  PROVE  /\ o.name = u.name /\ o.stapling = u.stapling /\ o.alpn = u.alpn
         /\ o.early = u.early
         /\ u.psks = Zeros(tickets)
         /\ DOMAIN o.psks = DOMAIN tickets
         /\ \A i \in DOMAIN tickets :
              /\ o.psks[i].identity = tickets[i].id
              /\ o.psks[i].binder =
                   Binder(hash, tickets[i].id, ClientHello("tls13", u))
         /\ Head(o.psks) = o.psks[1]
<1> DEFINE early == EarlyIn(tickets)
           b == [i \in DOMAIN tickets |->
                   Binder(hash, tickets[i].id, ClientHello("tls13", u))]
           zeros == Zeros(tickets)
           psks == WithBinders(zeros, b)
<1>1. o = [offer EXCEPT !.early = early, !.psks = psks]
  BY DEF Signed
<1>2. u = [offer EXCEPT !.early = early, !.psks = zeros]
  BY DEF Unsigned
<1>3. /\ DOMAIN b = DOMAIN tickets
      /\ \A i \in DOMAIN tickets :
           b[i] = Binder(hash, tickets[i].id, ClientHello("tls13", u))
  OBVIOUS
<1>4. /\ DOMAIN zeros = DOMAIN tickets
      /\ \A i \in DOMAIN tickets : zeros[i].identity = tickets[i].id
  BY DEF Zeros
<1>5. DOMAIN tickets = 1 .. Len(tickets) /\ Len(tickets) \in Nat
  BY TicketsAre
<1> HIDE DEF early, b, zeros
<1>6. psks = [i \in DOMAIN tickets |-> [identity |-> zeros[i].identity, binder |-> b[i]]]
  BY <1>4 DEF WithBinders
<1> HIDE DEF psks
<1>7. \A i \in DOMAIN tickets :
        psks[i].identity = tickets[i].id
        /\ psks[i].binder = Binder(hash, tickets[i].id, ClientHello("tls13", u))
  BY <1>3, <1>4, <1>6
<1>8. DOMAIN psks = DOMAIN tickets /\ Head(psks) = psks[1]
  <2>1. psks \in Seq({psks[i] : i \in DOMAIN tickets})
    BY <1>5, <1>6
  <2> QED  BY <1>6, <2>1
<1>9. /\ o.name = offer.name /\ o.stapling = offer.stapling /\ o.alpn = offer.alpn
      /\ o.early = early /\ o.psks = psks
  BY <1>1, OfferType
<1>10. /\ u.name = offer.name /\ u.stapling = offer.stapling /\ u.alpn = offer.alpn
       /\ u.early = early /\ u.psks = zeros
  BY <1>2, OfferType
<1> QED  BY <1>7, <1>8, <1>9, <1>10 DEF zeros

LEMMA ZeroedIsUnsigned ==
  ASSUME NEW hash, NEW offer \in Offers, NEW tickets \in TicketLists
  PROVE  ZeroBinders(ClientHello("tls13", Signed(hash, offer, tickets)))
           = ClientHello("tls13", Unsigned(offer, tickets))
<1> DEFINE o == Signed(hash, offer, tickets)
           u == Unsigned(offer, tickets)
           y == BeforeTickets(o)
           x == ClientHello("tls13", o).extensions
           w == ClientHello("tls13", u).extensions
           eo == Extension("pre_shared_key", o.psks)
           eu == Extension("pre_shared_key", u.psks)
           S == {Candidates(o)[k] : k \in 1 .. 9}
           m == Len(y)
<1>1. /\ o.name = u.name /\ o.stapling = u.stapling /\ o.alpn = u.alpn
      /\ o.early = u.early
      /\ u.psks = Zeros(tickets)
      /\ DOMAIN o.psks = DOMAIN tickets
      /\ \A i \in DOMAIN tickets : o.psks[i].identity = tickets[i].id
  <2>1. o = Signed(hash, offer, tickets) /\ u = Unsigned(offer, tickets)
    OBVIOUS
  <2> HIDE DEF o, u
  <2> QED  BY <2>1, SignedFields
<1>2. o.psks # <<>> /\ u.psks # <<>>
  BY SignedEarly
<1>3. BeforeTickets(u) = y
  <2> HIDE DEF o, u
  <2> QED  BY <1>1, <1>2, SameBeforeTickets
<1>4. x = y \o <<eo>> /\ w = y \o <<eu>>
  <2>1. x = y \o OnlyIf(o.psks # <<>>, Candidates(o)[9])
    BY HelloPicks
  <2>2. w = y \o OnlyIf(u.psks # <<>>, Candidates(u)[9])
    BY <1>3, HelloPicks
  <2>3. Candidates(o)[9] = eo /\ Candidates(u)[9] = eu
    BY CandidatesAre
  <2> HIDE DEF o, u, x, w, y, eo, eu
  <2> QED  BY <1>2, <2>1, <2>2, <2>3 DEF OnlyIf, Some
<1>5. Lists(S, y, Candidates(o), Wanted(o) \ {9}, 8)
  BY HelloPicks
<1>6. y \in Seq(S) /\ m \in Nat
  BY <1>5 DEF Lists
<1>7. \A i \in 1 .. m : y[i].type # "pre_shared_key"
  <2>1. PICK f \in [1 .. m -> Wanted(o) \ {9}] : \A i \in 1 .. m : y[i] = Candidates(o)[f[i]]
    BY <1>5 DEF Lists, Picks
  <2>2. \A j, k \in 1 .. 9 : Candidates(o)[j].type = Candidates(o)[k].type => j = k
    BY CandidateTypes
  <2>3. Candidates(o)[9].type = "pre_shared_key"
    BY CandidatesHave
  <2>4. Wanted(o) \ {9} \subseteq 1 .. 8
    BY DEF Wanted
  <2> HIDE DEF y, o, m
  <2>5. ASSUME NEW i \in 1 .. m PROVE y[i].type # "pre_shared_key"
    <3>1. f[i] \in 1 .. 8 /\ y[i] = Candidates(o)[f[i]]
      BY <2>1, <2>4
    <3>2. 9 \in 1 .. 9 /\ f[i] \in 1 .. 9 /\ f[i] # 9
      BY <3>1
    <3>3. Candidates(o)[f[i]].type # Candidates(o)[9].type
      BY <2>2, <3>2
    <3> QED  BY <2>3, <3>1, <3>3
  <2> QED  BY <2>5
<1>8. /\ DOMAIN x = 1 .. m + 1 /\ DOMAIN w = 1 .. m + 1
      /\ \A i \in 1 .. m : x[i] = y[i] /\ w[i] = y[i]
      /\ x[m + 1] = eo /\ w[m + 1] = eu
      /\ w = [i \in 1 .. m + 1 |-> w[i]]
  <2> HIDE DEF x, w, y, eo, eu, o, u, S
  <2>1. /\ y \o <<eo>> \in Seq(S \cup {eo}) /\ y \o <<eu>> \in Seq(S \cup {eu})
        /\ Len(y \o <<eo>>) = m + 1 /\ Len(y \o <<eu>>) = m + 1
    BY <1>6
  <2> QED  BY <1>4, <1>6, <2>1
<1>9. WithBinders(o.psks, [j \in DOMAIN o.psks |-> Zero]) = u.psks
  <2> HIDE DEF o, u
  <2> QED  BY <1>1 DEF WithBinders, Zeros
<1>10. Zeroed(eo) = eu
  <2>1. eo = [type |-> "pre_shared_key", sound |-> TRUE, data |-> o.psks]
    BY DEF Extension
  <2>2. eu = [type |-> "pre_shared_key", sound |-> TRUE, data |-> u.psks]
    BY DEF Extension
  <2> HIDE DEF eo, eu, o, u
  <2> QED  BY <1>9, <2>1, <2>2 DEF Zeroed
<1>11. \A i \in 1 .. m : Zeroed(y[i]) = y[i]
  BY <1>7 DEF Zeroed
<1>12. \A i \in 1 .. m + 1 : Zeroed(x[i]) = w[i]
  <2> HIDE DEF x, w, y, eo, eu, m
  <2>1. \A i \in 1 .. m + 1 : i = m + 1 \/ i \in 1 .. m
    BY <1>6
  <2> QED  BY <1>8, <1>10, <1>11, <2>1
<1>13. [i \in DOMAIN x |-> Zeroed(x[i])] = w
  <2> HIDE DEF x, w, y, eo, eu, m
  <2> QED  BY <1>8, <1>12
<1>14. ZeroBinders(ClientHello("tls13", o))
         = [suites |-> ClientHello("tls13", o).suites,
            extensions |-> [i \in DOMAIN x |-> Zeroed(x[i])]]
  <2> HIDE DEF o
  <2> QED  BY DEF ZeroBinders
<1>15. /\ ClientHello("tls13", o)
            = [suites |-> DefaultClientCipherSuites("tls13"), extensions |-> x]
       /\ ClientHello("tls13", u)
            = [suites |-> DefaultClientCipherSuites("tls13"), extensions |-> w]
  <2> HIDE DEF o, u
  <2> QED  BY DEF ClientHello
<1> HIDE DEF x, w, o, u
<1> QED  BY <1>13, <1>14, <1>15 DEF o, u

\* The first binder of a hello that resumes verifies.
LEMMA BinderOfResumption ==
  ASSUME NEW hash, NEW offer \in Offers, NEW tickets \in TicketLists
  PROVE  BinderVerifies(hash, tickets[1].id, ClientHello("tls13", Signed(hash, offer, tickets)))
<1> DEFINE o == Signed(hash, offer, tickets)
           u == Unsigned(offer, tickets)
           hello == ClientHello("tls13", o)
<1>0. o = Signed(hash, offer, tickets) /\ u = Unsigned(offer, tickets)
  OBVIOUS
<1>1. ZeroBinders(hello) = ClientHello("tls13", u)
  BY ZeroedIsUnsigned
<1> HIDE DEF o, u
<1>2. o.stapling \in BOOLEAN /\ o.early \in BOOLEAN /\ o.psks # <<>>
  BY <1>0, SignedEarly
<1>3. DataOf(hello.extensions, "pre_shared_key", <<>>) = o.psks
  BY <1>2, HelloSays
<1>4. Head(o.psks).binder = Binder(hash, tickets[1].id, ClientHello("tls13", u))
  <2>1. /\ Head(o.psks) = o.psks[1]
        /\ \A i \in DOMAIN tickets :
             o.psks[i].binder = Binder(hash, tickets[i].id, ClientHello("tls13", u))
    BY <1>0, SignedFields
  <2>2. 1 \in DOMAIN tickets
    BY TicketsAre
  <2> QED  BY <2>1, <2>2
<1> HIDE DEF hello
<1>5. BinderVerifies(hash, tickets[1].id, hello)
  BY <1>1, <1>2, <1>3, <1>4 DEF BinderVerifies
<1> QED  BY <1>0, <1>5 DEF hello

\* What is sent can be offered.
LEMMA OfferIsOffered ==
  ASSUME NEW offer \in Offers
  PROVE  Offered(offer) /\ offer.psks = <<>> /\ ~ offer.early
<1>1. /\ offer.name \in {None} \cup {Some(n) : n \in Names}
      /\ offer.stapling \in BOOLEAN /\ offer.alpn \in {<<>>} \cup AlpnLists
      /\ offer.psks = <<>>
  BY OfferType
<1>2. offer.early \in BOOLEAN /\ ~ offer.early
  BY OfferType
<1>3. IsInjective([i \in DOMAIN offer.psks |-> offer.psks[i].identity])
  <2>1. DOMAIN offer.psks = {}
    BY <1>1
  <2> QED  BY <2>1 DEF IsInjective
<1> QED  BY <1>1, <1>2, <1>3 DEF Offered

LEMMA SignedIsOffered ==
  ASSUME NEW hash, NEW offer \in Offers, NEW tickets \in TicketLists,
         NEW o, o = Signed(hash, offer, tickets)
  PROVE  Offered(o)
<1>0. o.stapling \in BOOLEAN /\ o.early \in BOOLEAN /\ o.psks # <<>>
  BY SignedEarly
<1>1. /\ o.name = offer.name /\ o.alpn = offer.alpn
      /\ DOMAIN o.psks = DOMAIN tickets
      /\ \A i \in DOMAIN tickets : o.psks[i].identity = tickets[i].id
  BY SignedSays
<1>2. /\ o.name \in {None} \cup {Some(n) : n \in Names}
      /\ o.alpn \in {<<>>} \cup AlpnLists
  BY <1>1, OfferType
<1>3. IsInjective([i \in DOMAIN o.psks |-> o.psks[i].identity])
  <2>1. \A i, j \in DOMAIN tickets : tickets[i].id = tickets[j].id => i = j
    BY TicketsAre
  <2> QED  BY <1>1, <2>1 DEF IsInjective
<1> QED  BY <1>0, <1>1, <1>2, <1>3 DEF Offered

(***************************************************************************)
(* What a server reads in a hello as it was sent.                          *)
(***************************************************************************)
Understood(info, offer, tickets) ==
  /\ info.name = offer.name /\ info.alpn = offer.alpn
  /\ info.stapling \in BOOLEAN /\ (info.stapling <=> offer.stapling)
  /\ info.early \in BOOLEAN /\ (info.early <=> EarlyIn(tickets))
  /\ [j \in DOMAIN info.psks |-> info.psks[j].identity]
       = [j \in DOMAIN tickets |-> tickets[j].id]

LEMMA PlainUnderstood ==
  ASSUME NEW offer \in Offers
  PROVE  LET parsed == ParseClientHello(ClientHello("tls13", offer)) IN
         parsed # None /\ Understood(parsed[1], offer, <<>>)
<1> DEFINE parsed == ParseClientHello(ClientHello("tls13", offer))
           info == parsed[1]
<1>1. Offered(offer) /\ offer.psks = <<>> /\ ~ offer.early
  BY OfferIsOffered
<1>2. /\ parsed # None
      /\ info.name = offer.name /\ info.alpn = offer.alpn /\ info.psks = offer.psks
      /\ info.stapling \in BOOLEAN /\ (info.stapling <=> offer.stapling)
      /\ info.early \in BOOLEAN /\ (info.early <=> offer.early)
  BY <1>1, OfferRead
<1>3. ~ EarlyIn(<<>>)
  BY DEF EarlyIn, ToSet
<1> HIDE DEF parsed, info
<1>4. info.early <=> EarlyIn(<<>>)
  BY <1>1, <1>2, <1>3
<1>5. [j \in DOMAIN info.psks |-> info.psks[j].identity]
        = [j \in DOMAIN <<>> |-> <<>>[j].id]
  BY <1>1, <1>2
<1> QED  BY <1>2, <1>4, <1>5 DEF Understood, info, parsed

LEMMA ResumingUnderstood ==
  ASSUME NEW hash, NEW offer \in Offers, NEW tickets \in TicketLists
  PROVE  LET parsed == ParseClientHello(ClientHello("tls13", Signed(hash, offer, tickets))) IN
         parsed # None /\ Understood(parsed[1], offer, tickets)
<1> DEFINE o == Signed(hash, offer, tickets)
<1>0. o = Signed(hash, offer, tickets)
  OBVIOUS
<1> HIDE DEF o
<1> DEFINE parsed == ParseClientHello(ClientHello("tls13", o))
           info == parsed[1]
<1>1. Offered(o)
  BY <1>0, SignedIsOffered
<1>2. /\ parsed # None
      /\ info.name = o.name /\ info.alpn = o.alpn /\ info.psks = o.psks
      /\ info.stapling \in BOOLEAN /\ (info.stapling <=> o.stapling)
      /\ info.early \in BOOLEAN /\ (info.early <=> o.early)
  BY <1>1, OfferRead
<1>3. o.stapling = offer.stapling
  BY <1>0, SignedSays
<1>4. o.early <=> EarlyIn(tickets)
  BY <1>0, SignedEarly
<1>5. /\ o.name = offer.name /\ o.alpn = offer.alpn
      /\ DOMAIN o.psks = DOMAIN tickets
      /\ \A i \in DOMAIN tickets : o.psks[i].identity = tickets[i].id
  BY <1>0, SignedSays
<1> HIDE DEF parsed, info
<1>6. info.early <=> EarlyIn(tickets)
  BY <1>2, <1>4
<1>7. info.stapling <=> offer.stapling
  BY <1>2, <1>3
<1>8. [j \in DOMAIN info.psks |-> info.psks[j].identity]
        = [j \in DOMAIN tickets |-> tickets[j].id]
  BY <1>2, <1>5
<1>9. parsed # None /\ Understood(info, offer, tickets)
  BY <1>2, <1>5, <1>6, <1>7, <1>8 DEF Understood
<1> QED  BY <1>0, <1>9 DEF info, parsed

LEMMA SentIsUnderstood ==
  ASSUME SentOK, sent # None
  PROVE  LET last == sent[1] parsed == ParseClientHello(last.hello) IN
         /\ parsed # None /\ Understood(parsed[1], last.offer, last.tickets)
         /\ last.tickets # <<>> => BinderVerifies(last.hash, last.tickets[1].id, last.hello)
<1>1. /\ sent[1].offer \in Offers /\ sent[1].hash \in {"sha256", "sha384"}
      /\ Plain(sent[1]) \/ Resuming(sent[1])
  BY DEF SentOK
<1>2. CASE Plain(sent[1])
  BY <1>1, <1>2, PlainUnderstood DEF Plain
<1>3. CASE Resuming(sent[1])
  <2>1. PICK hash \in {"sha256", "sha384"}, offer \in Offers, tickets \in TicketLists :
          /\ hash = sent[1].hash /\ offer = sent[1].offer /\ tickets = sent[1].tickets
          /\ sent[1].hello = ClientHello("tls13", Signed(hash, offer, tickets))
    <3>1. /\ sent[1].tickets \in TicketLists
          /\ sent[1].hello =
               ClientHello("tls13", Signed(sent[1].hash, sent[1].offer, sent[1].tickets))
      BY <1>3, ResumptionIsSigned DEF Resuming
    <3> QED  BY <1>1, <3>1
  <2>2. /\ ParseClientHello(sent[1].hello) # None
        /\ Understood(ParseClientHello(sent[1].hello)[1], offer, tickets)
    BY <2>1, ResumingUnderstood
  <2>3. BinderVerifies(hash, tickets[1].id, sent[1].hello)
    BY <2>1, BinderOfResumption
  <2> QED  BY <2>1, <2>2, <2>3
<1> QED  BY <1>1, <1>2, <1>3

\* A server that reads a hello as the client sent it learns the settings the
\* client had when it sent it, and with the same hash verifies the binder of
\* the first ticket (build_client_hello_extensions, parse_client_hello_info,
\* zero_client_hello_psk_binders).
THEOREM UnderstoodAlways == Spec => []HelloUnderstood
<1>1. HelloInv => HelloUnderstood
  <2> SUFFICES ASSUME HelloInv, sent # None
               PROVE  LET last == sent[1] info == ParseClientHello(last.hello) IN
                      /\ info # None
                      /\ info[1].name = last.offer.name /\ info[1].alpn = last.offer.alpn
                      /\ info[1].stapling = last.offer.stapling
                      /\ info[1].early = (\E t \in ToSet(last.tickets) : t.early)
                      /\ [j \in DOMAIN info[1].psks |-> info[1].psks[j].identity]
                           = [j \in DOMAIN last.tickets |-> last.tickets[j].id]
                      /\ last.tickets # <<>> =>
                           BinderVerifies(last.hash, last.tickets[1].id, last.hello)
    BY DEF HelloUnderstood
  <2> DEFINE last == sent[1]
             info == ParseClientHello(last.hello)
  <2>1. /\ info # None /\ Understood(info[1], last.offer, last.tickets)
        /\ last.tickets # <<>> => BinderVerifies(last.hash, last.tickets[1].id, last.hello)
    BY SentIsUnderstood DEF HelloInv
  <2>2. last.offer.stapling \in BOOLEAN
    BY OfferType DEF HelloInv, SentOK
  <2> HIDE DEF last, info
  <2>3. info[1].stapling = last.offer.stapling
    BY <2>1, <2>2 DEF Understood
  <2>4. info[1].early = (\E t \in ToSet(last.tickets) : t.early)
    BY <2>1 DEF Understood, EarlyIn
  <2>5. /\ info[1].name = last.offer.name /\ info[1].alpn = last.offer.alpn
        /\ [j \in DOMAIN info[1].psks |-> info[1].psks[j].identity]
             = [j \in DOMAIN last.tickets |-> last.tickets[j].id]
    BY <2>1 DEF Understood
  <2> QED  BY <2>1, <2>3, <2>4, <2>5 DEF last, info
<1> QED  BY <1>1, AlwaysHelloInv, PTL
=============================================================================
