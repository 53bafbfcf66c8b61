# NoxTLS: specifications, model checking and proofs

This directory holds TLA+ specifications of [noxtls](../src/README.md), a
TLS and DTLS library in Rust without I/O of its own, the TLC configurations
that check them on small instances, and proofs of their main safety
properties with TLAPS.  `PROJECT.json` says, definition by definition, which
lines of the source a specification models.

Paths below are relative to `src/crates/noxtls/src/protocol/` unless they
begin with `crates/` or `docs/`.

## 1. The system

noxtls is a sans-I/O library. The embedder owns the sockets, the clock and
the random numbers; it calls methods of one object, `Connection`
(`connection.rs`), passes them the messages it has received, and sends the
bytes they return. No thread runs inside, so the difficulty is not shared
memory: it is that **the embedder may call any method in any order, with any
message**, that the network may lose, repeat, reorder and damage datagrams,
and that a method that fails may have changed part of the state before.

| Component | State it keeps | Operations | What makes it hard | What makes it correct |
|---|---|---|---|---|
| Anti-replay window and epoch tracker (`dtls.rs`, `DtlsReplayWindow`, `DtlsEpochReplayTracker`) | newest number and 64-bit bitmap, for the current and the previous epoch | `check_and_mark`, promotion to a newer epoch | shifts around the width; late records of the previous epoch; the mark comes before decryption | each bitmap is exact; no double delivery; no refusal of a recent record; no refusal ever revoked |
| Retransmission store (`dtls.rs`, `DtlsFlightRetransmitTracker`) | a bounded `Vec` of packets with timer, timeout, count, acknowledged flag | track, mark, prune, collect the due ones | polls come late and repeatedly; acknowledgements race polls; a full store evicts; timeouts saturate | back-off, budget, nothing acknowledged is resent, nothing owed is forgotten |
| DTLS 1.3 sealing, epochs, active flight (`connection.rs`) | outbound epoch and number; keys of the flight; start time; failed flag | seal, start, poll, acknowledge, abort a flight; set or advance the epoch | flight and store are two views of one thing and are changed by different calls; numbers run out mid-flight; keys change under a flight | records of a flight stay in its epoch; completion means acknowledged; a flight ends, and not early |
| TLS 1.3 client handshake, key schedule, records (`connection.rs`, `state.rs`, `kdf.rs`) | handshake state, transcript, secrets, keys, sequence numbers, certificate verdicts | a handler per message; `finish`; key updates; seal and open; alerts | one object serves several handshakes, and each leaves secrets, keys, verdicts and flags behind; handlers fail half way | transcript and keys belong to this handshake; a number is used once under a key; verdicts are of this handshake; fatal is terminal |
| Resumption tickets and early data (`connection.rs`, `psk.rs`) | ticket store and its file, single-use flags, resumption secret, accepted key, early-data window and budget | issue, offer, consume, evict, clean, save, load; accept and open early data; policy | replayed hellos and records; use racing restart; eviction; order of mark, decrypt and budget check; ages that wrap | a single-use ticket is accepted once and its early data delivered once; early data stays within budget; the key accepted is that of the hello; ages decide exactly lifetime and skew |
| TLS 1.2 handshake (`connection.rs`) | state, transcript, ChangeCipherSpec flag, keys, numbers | `process_tls12_*_flight` and its message handlers, derivation, `finish`, records, alerts | a flight that fails leaves what it has taken; flags and secrets of an earlier handshake | a ChangeCipherSpec for each client flight; no number repeats; what is finished is this handshake in order |
| DTLS 1.2 server phases (`connection.rs`) | phase, expected cookie, bytes in and out (the cookie secret is the embedder's) | challenge, cookie check, client flight, byte accounting | lost, repeated and late hellos; budget at its limit; a phase that has no way back | no more than the budget before validation; a cookie proves that the client is reached; a client that retries gets in |
| Handshake fragmentation (`dtls.rs`) | none | split, reassemble | overlaps and gaps | reassembly inverts splitting, in any order |
| Codecs and negotiation (`connection.rs`, `handshake.rs`, `record.rs`, `keyshare.rs`) | the client's settings and what it was told | build and read hellos, extensions, bodies, records | nested lengths; settings that change between messages; binders over a hello that is encoded again; a suite left from an earlier handshake | what is sent is what is read; one encoding for one message; what is chosen is sound; what the client believes is about its settings |
| X.509 (`crates/noxtls-x509`) | none; the state of a path during the search | parse, build and validate a chain, match host names, write certificates and keys | a search that goes back; policies, mappings and counters along a path; bit strings and long lengths | accepted exactly when a sound path exists; limits only restrict; a name stands for the hosts it should |
| Key providers and PSA (`key_provider.rs`, `psa_provider.rs`, `crates/noxtls-psa`) | handles | sign, agree, destroy | handle lifetimes | forwards single calls |
| Primitives (`crates/noxtls-crypto`) | cipher and hash contexts | hash, sign, encrypt | modes at the ends of blocks and counters; long division | a mode inverts itself; counters differ; limbs compute what numbers do |
| HMAC-DRBG (`crates/noxtls-crypto/src/drbg`) | key, value, reseed counter | generate, reseed | the limit of the counter | refuses when a reseed is due |
| PEM (`crates/noxtls-pem`) | none | armor and read | lines in any order | reads back what it writes; one BEGIN, one END |
| Transports, configuration, platform, demos | buffers | adapters | I/O only | outside these models |

**How they interact.** `Connection` owns everything above it in one struct.
`open_dtls13_record` asks the epoch tracker, then decrypts. The flight calls
seal records under the outbound epoch, put them into the retransmission
store, and keep only their keys; the record-level calls and the DTLS 1.2
scheduler calls work on the same store without knowing of the flight. The
handshake installs record keys, and for a DTLS connection that resets both
the outbound numbers and the two replay trackers
(`sync_dtls13_traffic_keys_from_record_protection_state`). It also leaves
the resumption secret from which the keys of tickets are derived, both when
a ticket is issued and when one is offered; the ticket store is the
embedder's object, passed to each call. Early data goes through the same
`DtlsReplayWindow` as DTLS records, and acceptance replaces the transcript
by the ClientHello, from which the early data keys are derived. The version
decides which handlers the embedder calls on a `Connection`; the flights of TLS
1.2 and the handlers of TLS 1.3 share state, transcript, secret and numbers.
The handshake gets its verdict on a chain from the X.509 crate as one answer,
and every message through the codecs.

The hazards of this code, each at its line and with the properties that
would catch it, are listed in `PROJECT.json` under `hazards`.

## 2. The modules

| Module | Models | State and actions |
|---|---|---|
| `DtlsReplay` | window and tracker as operators | `Fresh`/`Acceptable`: the answer of `check_and_mark`; `Mark`/`Track`: the state it leaves; `Promote`: `promote_epoch` |
| `DtlsReceive` | the receiver around them | `OpenRecord`, `RefuseReplay`, `InstallKeys`; what the call returned; histories of what was marked and delivered |
| `DtlsDelivery` | what the receiver promises: an abstract one without windows, which `DtlsReceive` implements with `marked` for the numbers it remembers | models no code |
| `DtlsRetransmitStore` | the store as operators on a set of records that carry their index | `Tracked`, `Acknowledged`, `Pruned`, `Collected` with `DueNow` and `Exhausted`; `Saturated` for sums at the end of the clock |
| `DtlsRetransmit` | the store under any calls | `TrackWithSchedule`, `TrackOutbound`, `MarkAcked`, `PruneAcked`, `CollectDue`, `TimePasses`; the specification is `StoreSpec` |
| `DtlsFlight` | sealing, epochs, active flights over the same store (it extends `DtlsRetransmit`, whose variables it shares; the keys are pairs of an epoch and a number) | one action per public call, `Poll` and `AcknowledgeFlight` split by outcome; `MarkRecordAcked`, `PruneAckedRecords` and `PollStore` are the store's own calls; `Tick` |
| `Tls13Connection` | the TLS 1.3 client over several handshakes | one action per handler, and one per outcome of a handler that fails after changing something |
| `TicketStore` | tickets, the store and the age check as operators on sets of tickets | `Insert`, `Rotate` and the other cleanings; `AgeMatches` with `Clamped`, `Obfuscated` and `Distance`; `Consume` |
| `EarlyData` | a server with one store over `TicketStore` and the window of `DtlsReplay` | `SendHello`, `HelloNotSent`, `RecvServerHello`, `RecvEncryptedExtensions`, `DeriveHandshakeSecret`, `FinishHandshake`, `FatalAlert`: a handshake as far as early data calls look at it; `Issue`, `Clean`, `SaveToFile`, `Restart`; `accept_tls13_early_data_with_ticket_policy` split by outcome into `AcceptEarlyData`, `ResumeOnly`, `RefuseHello`, `FailOnHello`; `ApplyPolicy`; `OpenRecord`, and `SpoilRecord` for a record that fails after it was marked; the setters of the policy |
| `Dtls12Server` | the DTLS 1.2 server with a client, a lossy network and the embedder, all external | `Challenge`, `VerifyCookie`, `RefuseHello`: the two ClientHello calls; `TakeKeyExchange`, `TakeFinished`, `RefuseMessage`: `process_dtls12_client_handshake_message`; every one with `RecordInbound`; `SendVerify`, `SendServerFlight` with `RecordOutbound`; `SetEnforced` |
| `Tls12Handshake` | a TLS 1.2 `Connection` over several handshakes | one action per handler; `ServerFlight` and `ClientFlight` take a whole flight and keep what came before the first bad message (`Taken`); `NextRecord` for records and alerts of both directions |
| `Negotiation` | hellos, EncryptedExtensions and the choice of a suite as operators: build, parse, answer, PSK binders | an extension is a type, data, and whether its lengths add up |
| `ClientNegotiation` | a client with settings that change, and a server that answers | `SetServerName`, `SetAlpnProtocols`, `SetRequireServerNameAck`; `SendClientHello`, `SendResumptionHello`; `Answer`: the server; `RecvHelloRetryRequest`, `RecvServerHello`, `RecvEncryptedExtensions`; `Complete` |
| `ChainValidation` | `validate_certificate_chain`: the search as a recursive function of the hops (`ChainSteps` over `ChainStep`) with a state (policies and counters) that it carries; the errors in the order of the code | `request`, `verdict`; `Validate`, the call. `MCChainValidation` only gives the inputs |
| `Wire` | numbers, vectors, lists of vectors, as byte strings | operators |
| `HandshakeBodies`, `Records` | bodies and extensions byte by byte; record headers, inner plaintext, nonces, fragments | operators |
| `DnsNames`, `Der`, `X509Certificate`, `KeyFormats`, `Pem` | host names; DER nodes; certificates read and written; key formats; armor | operators |
| `BlockModes`, `RsaPadding`, `BigNumber`, `HmacDrbg` | modes around any block cipher; PKCS#1, OAEP and PSS around any hash; limbs; the generator around any keyed hash | operators |
| `DtlsReceive_proofs`, `DtlsFlight_proofs` (the store, too), `Tls13Connection_proofs`, `EarlyData_proofs`, `Dtls12Server_proofs`, `Tls12Handshake_proofs`, `ClientNegotiation_proofs`, `ChainValidation_proofs` | theorems on the components, after lemmas on the operators they rest on | |
| `MC...` | the instances for TLC; `DtlsReceive` needs none, its .cfg gives all constants. `MCCodecs`, over `MCFormats`, `MCCiphers` and `MCNumbers`, calls the operators of the pure modules: a *job* is one call or a pair of calls, which the one step makes; the properties say of the step what the call must yield | |

How the data is abstracted:

- The **bitmap** is the set of its set bits; bit *d* is the number `latest -
  d`. `ShiftLeft` loses what leaves the width, as `<<` does.
- The **`Vec` of the store** is a set of records that carry their index
  (`at`), so that "remove the first" and "replace in place" are exact.
  Times are absolute, as in the code: each call takes the caller's clock,
  which only moves forward, except `track_outbound`, which takes the time to
  be 0. `MaxTime` is `u64::MAX`; a deadline past it is at it, and so is a
  timeout. `last_sent_at_ms` is written and never read.
- A **message** of the handshake is its type and the attempt (the ClientHello)
  it belongs to; the transcript is their sequence, and the transcript hash is
  the sequence itself. **Secrets and keys** are named by what they were
  computed from, so two keys are equal in the model exactly when the code
  would compute the same bytes from the same inputs. A fresh key share is an
  attempt of its own. A torn handshake (below) may derive keys from a transcript
  without its ClientHello; there the names are finer than the bytes, as they
  keep the attempt, and the properties that compare keys leave such keys out.
- In `EarlyData` a **ticket** is named by the number of its issue, and its key
  by the handshake whose resumption secret it is derived from. The **network
  is an input**: every ClientHello a client can have made by now (`made` is
  the time it was made, which gives the age it claims) and every record under
  any ticket may arrive in any step, so replays and reordering need no
  variable. The transcript is the ClientHello that `accept` puts into it, the
  Connection's own hello (`OwnHello`), nothing (`NoMessages`), or `Handshake`,
  which stands for every other. The state is that of the Connection, with the
  states from EncryptedExtensions to key derivation taken as one
  (`KeysPending`): no early data call looks further, and `Tls13Connection` has
  the messages. A ticket is issued as `Terms` says: with the present time, or at
  0 and without an end, which is what `issue_tls13_resumption_ticket` does. All
  handshakes are taken to negotiate the same hash.
- In `Dtls12Server` a **cookie** is named by the secret and the ClientHello it
  is the hash of, so cookies are equal exactly when both are. A datagram of
  the network stays there when it is delivered, or leaves, and can be lost at
  any time; a full network drops what is sent.  The server is one
  `Connection`.
- In `Tls12Handshake` a **flight** is a sequence of message types; a malformed
  message is a type of its own, and keys are named by the transcript they are
  derived from.
- In `Negotiation` and `ClientNegotiation` a hello is its suites and its
  extensions in order; its binders are what they are computed over, so a
  binder verifies exactly when the server rebuilds the same hello with the
  same hash and key. Certificates and Finished are one step, `Complete`.
- In `ChainValidation` a **certificate** is a record of what the checks read,
  and a signature verifies when the key it was made with is the issuer's.
  Dates keep their two forms (`UTCTime` with a year of two digits).
- In the pure modules a **byte** is a number below `Base`. The layouts are
  those of the code; the widths of number fields, blocks, tags and limbs are
  constants. Ciphers, hashes and MACs are constant operators: nothing is
  assumed of them but that a block cipher is a permutation. An optional value
  is a sequence of at most one; an error is the empty one.
- **Verdicts** on certificates, staples and key shares are inputs of the
  handshakes: both answers are tried wherever the code asks.
- A call that returns an error **without changing anything** is a stutter and
  is not an action (`RefuseHello` and `RefuseMessage` of `Dtls12Server` are,
  because the datagram is counted before the call); a call that returns an
  error **after** it has changed something is an action: `RefuseReplay`,
  `StartFlightExhausted`, `AcknowledgeFlightMalformed`, `RefuseHello`,
  `HelloNotSent`, `RecvServerHelloBadShare`, `FailOnHello` and `SpoilRecord`,
  and branches of `RecvCertificate`, `RecvEncryptedExtensions`, `Finish` and
  `SealRecords`. `RefuseHello` (of `Tls13Connection` and `Tls12Handshake`) and
  `HelloNotSent` are the ClientHello calls that fail after they have cleared the
  transcript: for a retry group without support, for a ticket without nonce or
  secret, for an empty list, for a random of the wrong length, and in TLS 1.2
  for every list that is not empty. The call for a list of tickets does not look
  at the state, so each of these happens in any state.

Variables marked "history" (`marked`, `deliveries`, `settled`, `rekeyed`,
`restarted`, `attempt`, `torn`, `past`, `dead`, `handshakes`, `issued`,
`spent`, `served`, `banked`, `reached`, `challenged`, `accepted` of
`Dtls12Server`, `lifted`, `disturbed`, `attempt`, `used`, `fresh`, `last`,
`retried` and `torn` of `Tls12Handshake`, `sent`, `count` and `received` of
`ClientNegotiation`, and the fields `initial` and `since` of a record) exist for
the properties only; no guard reads one of them, except that `attempt` names
the messages, and that `handshakes` and `issued` name secrets and tickets and
carry the bounds, as `count` does and `torn` of `Tls12Handshake` (`RoomFor`).
In `ClientNegotiation` the server answers the hello that is in `sent`, which
stands for the network.

## 3. The runs

All runs end. Deadlock is checked in every run but three: a behavior of `x509`
or `codecs` is one call, and in `tls12` a connection ends when its last
handshake is over without keys, or its numbers are used up.

| Run | What it asks | Bounds, and why they are enough |
|---|---|---|
| `dtls_receive` | windows exact, at most one delivery, answers of a full history, refusal final | window of 2 bits with 3 numbers: shifts within the window and out of it (a shift by the width and one by more empty the bitmap alike), and numbers too old for the window; 3 epochs: current, previous and one that is forgotten. The proofs cover every other size |
| `dtls_retransmit` | back-off, no resend after acknowledgement, nothing forgotten | 3 keys, 2 places: eviction; timeouts 0 (clamped), 3 and, for `track_outbound`, 2, under a clock that ends at 7: a deadline reaches the end before its timeout does, a doubled timeout reaches it too, and a packet tracked at time 0 is due when it is tracked; polls with limits mixed. Keys are symmetric; 83,351 distinct states |
| `dtls_flight` | flights together with every record-level and store-level call, key installation | one epoch, 3 numbers, flights of up to 2, 2 places: records of a flight are evicted, pruned, replaced; the numbers run out inside a flight; the clock ends at 3; 817,990 distinct states |
| `dtls_flight_only` | an embedder that keeps to the flight calls: completion, giving up, ending | 2 epochs of 3 numbers, flights of up to 3 over 2 places: flights that fit the store and flights that do not, numbers that start over and are used again; the one attempt is used up after 1 ms, a flight is over time after 2 ms, when the clock ends: both ends are reached, and `FlightEnds` asks for the end of all flights of time 0, of which any number follow each other; 377,906 distinct states |
| `tls13_connection` | the handshake properties below | 2 ClientHellos, so that all the first handshake leaves behind meets the second, and hellos refused in any state, as often as the model does; 1 key update, 1 post-handshake message; record numbers that run out within one call for two records; 3,546,776 distinct states |
| `early_data` | the ticket and early-data properties below | a store of one place and two tickets: eviction; two handshakes, of one process or of two: tickets of a secret that is gone; a clock of 2 ms, a width of 2 with an addend of 1, tickets of lifetime 1 ms with the time of issue and of lifetime 9 without: ages wrap within the lifetime, end with it, and go beyond the width, where they are clamped; a budget of 3 with records of 2, so that the second does not fit, and none; MaxHandshakes bounds the hellos of the Connection as well; one record number, as the window itself is checked by `dtls_receive` for any sequence of numbers; 921,204 distinct states |
| `dtls12_server` | the DTLS 1.2 properties below, under the specification with fairness | two ClientHellos and two secrets: a cookie of each kind meets the other; 2 datagrams under way: a late or repeated one beside a new one, and a network that is full; sizes 1 to 3 and a factor of 3, so that one hello pays for one HelloVerifyRequest and a resend must wait for the next hello; counters saturate at 5; 90,272 distinct states |
| `tls12` | the TLS 1.2 properties below | two ClientHellos; all server flights of three messages, those of four and some of five that begin well; all client flights of two to four, as long as the transcript holds at most 8 messages: every prefix, every bad message, and a second attempt behind a failed one; at most 3 messages behind a hello that tore the handshake: enough to finish by any way that does not need all of a flight; 389,928 distinct states |
| `x509` | the chain properties below | a leaf, up to two intermediates in any order and one or two anchors, each certificate with at most one peculiarity; the combinations of policies and of limits on them; each option; a chain of up to three, `MaxHops` of 2; 223,520 distinct states, two for each input. The proofs cover every other input |
| `negotiation` | the negotiation properties below | two hellos; one name and one bad one, two lists of protocols, two lists of preferences, two tickets of which one carries early data; the hello arrives as sent or with any one extension removed, repeated, moved or spoiled; seven foreign ServerHellos and five foreign lists of extensions |
| `codecs` | the pure functions, one call per behavior | section 3.1; 2,103,570 distinct states, two for each input |
| `dtls_flight_numbers` | one documented promise, which the code does not keep (finding 1) | as `dtls_flight` |

### 3.1 The bounds of `codecs`

A byte has 5 bits (`Base` 32) and a number field one or two bytes, so that
lengths and numbers meet their width after a few items. Long DER lengths have
up to 4 bytes, as in the code, and begin at 16 (`Half`). Strings to parse hold
the values that mean something to their parser and are long enough for two
items; the values to encode fit their fields. Blocks have 4 bytes (2 for DES),
the counter block of GCM has a counter of 2 bytes and that of ChaCha20 counts
to the wrap, CCM has nonces of 1 and 2 bytes, a `usize` 2 bytes; messages
reach over three blocks, with every remainder. Limbs have 3 bits, and the fast
division is taken for moduli of 2 and 3 limbs: estimated digits that are two
too large, the rare addition back, and all three ways to a remainder occur.
The generator reseeds after 2 outputs. Excluded are the inputs on which the
code panics or wraps around (findings 11, 14 and 15) and values too long for a
field whose width is not checked (16 and 17); findings 9, 10, 12 and 13 are in
the operators, as in the code.

### 3.2 The properties

**DTLS receive side.** `WindowExact`: a bitmap holds exactly the taken
numbers within the window, and nothing is marked beyond the current epoch.
`AtMostOnce`: no plaintext is returned twice under one set of keys.
`ImplementsDelivery`: the receiver implements `DtlsDelivery`, which remembers
all numbers: a record is taken exactly when, from the history alone, it is
new, less than a window behind, and of the newest epoch yet or one of the two
in use, and each call returns what such a receiver returns. `answer` (the
record and the result of the last call) is there so that a refusal, too, is a
step the abstract receiver has to be able to take. `RefusalIsFinal`: no shift
or promotion re-opens a number.

**Retransmission store.** `Spaced`: counted from the time a packet was tracked
with, a resend comes no earlier than after the sum of all earlier waits and the
current one, or at the end of the clock, where deadlines saturate: there, and
only there, a timer waits less than its timeout, and one that is at the end is
due at every poll. A packet of `track_outbound` was tracked with time 0, so its
first poll may resend it at once. `NeverResentOnceSettled`: no poll
returns what was acknowledged. `NothingForgotten`: a packet leaves the store
only acknowledged, evicted by a newer one, or with its budget spent.

**Flights.** `OwedInOutboundEpoch`: what the peer still owes an answer for
lies in the epoch in use, below the next number, unless keys were replaced
under the flight. `NoResendAfterAck`: no poll, of flight or store, hands out
an acknowledged packet. `CompletionIsAcknowledged`, `GivenUpLate`: a flight
that completes was acknowledged in full; one that is given up has had its
time or attempts, or was acknowledged in part (see finding 3). Both are about
flights the store has room for and whose numbers were never used before
(`FlightFits`), and TLC shows that neither condition can go. A flight larger
than the store evicts its own first records, and is complete when the others
are acknowledged. Where numbers have started over (finding 1), a record of
the flight takes the old place of its number in the store, and the records of
the same flight behind it can evict it.
`FlightEnds`: no flight blocks its connection for ever, unless it starts so
near the end of the clock that its timeout never comes.

**TLS 1.3.** `TranscriptInOrder`: at the end of a handshake the transcript
holds each message once, in protocol order, of this attempt, after what a
retry leaves. `KeysBindTranscript`: the record keys come from a prefix of it
that ends in this handshake's Finished. `NumbersUsedOnce`: counters move
back only together with keys that were never in force before.
`FatalIsTerminal`: no record under keys a fatal alert was seen under. Both are
about keys that a ClientHello went into (`BoundToHello`), over torn handshakes
and all that refused hellos leave behind; a torn handshake may finish over a
transcript without one, and such keys can come back (finding 6).
`AuthenticatedInThisHandshake`: leaf key and staple used to accept a
CertificateVerify were validated in the same handshake, whatever the
embedder does to the policy in between.

**Tickets and early data.** `AgePolicyExact`: the comparison of two
clamped, wrapped and independently computed ages passes a ticket with a recent
hello exactly when the ticket is within its lifetime; and as long as its age and
the skew stay below the width, it passes no older hello. Beyond the width it
does (finding 7), which is the normal case of a ticket issued without a time.
`SpentStaysSpent`: no hello of any time is ever accepted again with a ticket
taken under the single-use policy. The flag `consumed` alone does not do
it: a file saved before brings back the ticket unused, and what then refuses
it is that its key comes from a secret that died with the process.
`ServedOnce`: with acceptance required and the anti-replay check on, no early
data of a single-use ticket is delivered twice. `BudgetKept`: what is
delivered under an acceptance stays within the ticket's budget, with damaged,
repeated and oversized records and changes of policy in between.
`AcceptanceOfTranscript`: of the hellos received, only the one whose ticket is
accepted is ever what the early data keys come from; a refused hello or a plain
resumption leaves no older acceptance, and one that fails leaves none that
another received hello could use. A hello of the Connection's own does leave it:
`open_tls13_early_data_record` also runs in `ClientHelloSent` and
`ServerHelloReceived`, and there would derive keys from that hello under the
acceptance of an earlier one (its error text names no such case, finding 8).
The peer has no such hello to seal under that ticket for, so the model only shows
that the state is reached.
`RotateKeepsUsable`: `rotate` and the checks of an offer, which compare a
ticket with its lifetime each on its own, agree on the tickets of use.

**DTLS 1.2 server.** `WithinBudget`: until a cookie has come back the server has
sent at most `Factor` times what it received, over resends and saturation,
unless the embedder has switched the budget off. `CookieProvesReach`: the
server goes on only with a client that has got the HelloVerifyRequest, and
only with the ClientHello the challenge was made for; replaced secrets,
restarted clients and cookies of a former hello do not change that.
`ClientGetsIn`: a client that resends reaches `Connected` over a network
that loses, repeats and reorders, as long as neither its ClientHello nor
the secret is replaced.

**TLS 1.2.** `ChangeCipherSpecPerFinished`: every client flight that succeeds
has a ChangeCipherSpec of its own, received since the last that succeeded. The
flag survives failed flights, alerts and new ClientHellos, so this relates it
to the whole history. `NumbersUsedOnce`: no call of a TLS 1.2 connection moves
a counter back, over handshakes, alerts and refused flights; derivation sets
none to 0. `FinishedOverThisHandshake`: what a handshake is finished over are
its own messages, the server's before the client's and each part in order,
unless a client flight has failed before (what it left comes first). It
excepts torn handshakes: the hello call for a list of tickets clears the
transcript in any state and then fails in TLS 1.2, after which `finish` or a
client flight goes on over what is left.

**Chain validation.** `VerdictExact` compares the search with a definition
that enumerates routes and asks for lines of policies along them: accepted
exactly when a sound path exists, whatever failed on the way. It is stated for
inputs in which no certificate limits policies itself, under all options.
`LimitsOnlyRestrict` covers the others: a chain accepted with limits in its
certificates is accepted without them. The search may find an earlier path
then, so it does not claim the same report. What the model shows of the
search, and `VerdictExact` says: only the first anchor of a name is tried and
hides intermediates of that name; a loop is recognized by the serial number;
self-issued means equal names; a leaf with anyPolicy alone fails an explicit
policy.

**Negotiation.** `HelloUnderstood`: a server that reads the hello as sent
learns the settings the client had, and the binder of the first ticket
verifies under the hash the client used. `ChoiceSound`: whatever happens to a
hello on its way, an answer takes the preferred suite of those both have, the
hello has what it needs, tickets come last in it, and a client of this code
accepts the answer. `LearntOfSettings`: the selected protocol, the
acknowledged name and accepted early data are about present settings and the
last hello. What the model shows besides: a client without protocols takes any
the server selects; the suite of a ServerHello is not compared with those
offered; the short and the legacy form of a ServerHello skip checks; a
binder's hash is that of the suite chosen in an earlier handshake. The
documentation promises nothing else, so these are no findings.

**Pure functions.** `RoundTrip`: what is built is read as what it was built
from. `OneEncoding`: a parser takes nothing but encodings: of what it
reads, no byte goes unchecked. The jobs leave out parsers that skip bytes: the
context and the extensions of a Certificate, NewSessionTicket,
CertificateRequest, key shares, and X.509 certificates. `NoncesDiffer`: nonces of records, counters of blocks and
outputs of the generator do not repeat. `ReassembledExactly`: fragments make a
message exactly when they leave no gap and agree; each byte is that of the
last fragment over it. `HostnameExact`: patterns against a definition by
cases. `ArithmeticExact`: limbs against numbers.

Each property has a mutant in `PROJECT.json`: a plausible wrong version of a
definition (kept beside it in the module and commented as a faulty variant)
under which TLC finds the property violated.

**Fairness.** Two specifications assume any. `SpecFlightOnly` has weak
fairness of `Poll` and of `Tick`. The library has no timer; its documentation
leaves polling to the embedder's clock, and a flight that is never polled can
never end. The fairness says that the embedder's timer goes on calling
`poll_dtls13_active_flight_due_packets` and that time passes. Nothing is
assumed of the peer: no acknowledgement need ever come. `Dtls12Server` has
strong fairness of each end's resends and of the arrival of each kind of
datagram: both ends have a timer (DTLS asks for one), and what is sent again
and again arrives again and again. It is strong because the network may lose a
datagram before it is delivered and the byte budget may forbid a resend until
another hello has come. No step of the embedder's policy is fair, and nothing
says which of two hellos under way is the one that arrives.

## 4. The proofs

For every value of the constants that meets the named assumptions
(`WindowSizeAssumption`, `BoundsAssumption`, `StoreAssumption`,
`RetransmitAssumption`, `FlightAssumption`, `ConnectionAssumption`,
`TicketAssumption`, `EarlyDataAssumption`, `Dtls12Assumption`,
`Tls12Assumption`, `NegotiationAssumption`, `AlterationAssumption`,
`ChainAssumption`), which say no more than that sizes are natural
numbers, at least 1 where the code uses a width or clamps, that timeouts lie
within the clock and the addend of an age below its width (lifetimes and skew
may be any numbers), that a record is known to the store by
its epoch and number, that lists of protocols and of tickets hold no item twice
and no protocol has an empty name, and that a hello altered on its way still has
a list of extensions.

| Theorem | Argument |
|---|---|
| `DtlsReceive_proofs!TypeCorrect` | `MarkType`, `TrackType`: marking keeps windows and trackers well-typed |
| `WindowsStayExact` | `WindowExact` is inductive together with `TypeOK`. `MarkCovers` is its core: marking adds one number to what the window covers, in each of the cases first, newer, within the window, too old. `TrackExact` lifts it over the four cases of the tracker |
| `DeliveredAtMostOnce` | strengthened by `DeliveredIsMarked`: what was delivered was marked. A record that passes the check is not marked (`AcceptableIsNew`, from `WindowExact`), so it was not delivered yet |
| `RefusalStays` | `MarkKeepsRefusal` within a window, `TrackKeepsRefusal` over promotion. The order of the two epochs from `WindowExact` is needed: an epoch older than both is never taken for a newer one |
| `DeliveryImplemented` | `ExpectedIsAcceptable`: what the tracker accepts is what the history lets the peer expect. `FreshIs` for one window, from `WindowExact`; for the epochs strengthened by `NewestKept` (the tracker has the two newest epochs anything was taken in), so that the epochs of the tracker are those remembered (`RememberedAre`). Then each step of the receiver is one of the abstract one or a stutter |
| `DtlsFlight_proofs!StoreTypeCorrect` | every operation keeps the store a finite set of records; removals change nothing but indices (`ReindexFacts`) |
| `AlwaysSpaced` | strengthened by `RecordSpaced` (a timeout is at least 1), with `StoreTypeOK`: a resend happens at or after the deadline, which by the invariant lies after all earlier waits, so adding the doubled timeout to the time keeps the sum; `ResentSpaced` has the cases in which the timeout or the deadline is at the end of the clock |
| `SettledNeverResent` | strengthened by `SettledIsAcknowledged`: a settled key's record carries the flag until it is tracked again |
| `NeverForgotten` | from `WithinCapacity`: the records are a `Vec` (distinct keys, indices 1 to the length) of at most `Capacity`. `AppendedFacts` is its core: tracking a new key drops the first record of a full store and no other; `CollectedVec`, `PrunedVec`: a poll drops the exhausted ones, pruning the acknowledged ones |
| `DtlsFlight_proofs!TypeCorrect` | `WellFormed`: the same of the store under the flight. Every step is of one of two kinds (`EveryStep`): it tracks nothing and leaves less of the store (`LessTracked`), or it tracks the next records (`SealedAndTracked`). `StoreAfter` is a recursive function of the number of records: `AllNumbers` is induction with a set instead of a predicate, and follows from the well-foundedness of `<` |
| `OwedBelowNextNumber` | inductive with `WellFormed`: what a call makes owed is sealed below the number it leaves, and the epoch calls wait until nothing of the flight is owed |
| `ConfirmedNeverResent` | strengthened by `SettledNotOwed`: only tracking a number again makes it owed, and that takes it out of `settled` |
| `EndedInFull`, `NeverGivenUpEarly` | `FlightInv`, with two more parts: `NumbersInUse` (no key of the store or the flight is as new as the next one, unless numbers have started over) and `FlightKept` (each record of a flight that fits is owed or settled). `NewRecordsStay` is the core: of records with new keys, no more than the store has places, the n-th from the end stays n-th from the end, so none of them is evicted by the others |
| `Tls13Connection_proofs!TypeCorrect` | one lemma per handler; transcripts and secrets of any length |
| `NumbersOnce`, `FatalEndsKeys` | `KeysInv`, about the transcripts the keys in force, or once in force, come from: `OneSchedule` (both directions have gone through the same keys), `FirstKeys` (no record before the first Finished), `OwnTranscript`, `KeysNotAhead` (no key comes from a later handshake, nor from this one before the step that derives it), `LatestUpdate` (the application keys are the last update of their secret), `AliveKeys` (a finished connection works under its application keys, and no alert has been seen under them). New keys come from a longer transcript or a later update than any key has had, so they are new, for keys a ClientHello went into: a refused hello cuts the transcript, and no key derived from then on, before the next ClientHello, has one in it |
| `Authenticated` | strengthened by `LearntNow`: leaf key and staple are of this attempt or absent, and the staple is there where the policy asks for it |
| `KeysBound` | inductive with `AliveKeys`: `finish` derives the application keys from the transcript it has just ended with Finished, `PrefixGrows` keeps that a prefix, and an update starts from the application keys, which are those in force |
| `TranscriptOrdered` | strengthened by `TranscriptSoFar`: in each state the transcript is one of the lists of messages that lead to it (`Flight`), and after Finished only later messages have followed |
| `EarlyData_proofs!TypeCorrect` | with the capacity: `Fits` (finite, no more than `Capacity`, numbers distinct) of the store and of the file. `InsertFits`: the count of newer tickets maps the tickets that stay one to one into the numbers below the capacity. `ConsumeFits`: a ticket used up keeps its place |
| `SpentTicketsStaySpent` | `IInv` in five parts: `Typed`; `Known` (every ticket in the store or the file was issued, under a handshake that has happened); `Used` (a spent ticket in the store is consumed, or its key comes from another secret than the one installed); `Acceptance`; `Refusing` (a served pair is still refused by the window while its ticket is accepted). One lemma per action |
| `ServedAtMostOnce` | from `Refusing` and the window lemmas `MarkedIsRefused` and `RefusedStaysRefused`: a window is renewed only by acceptance, which a spent ticket never sees again, or when the acceptance is cleared with it |
| `BudgetIsKept` | `banked` is at most `opened` while there is a limit, and `opened` at most the limit |
| `AcceptedIsOffered` | part of `Acceptance`; `FailOnHello` needs that no acceptance exists while no secret is installed, `HandshakeSteps` that no step of a handshake puts a received hello into the transcript (`NoHello`) |
| `AgePolicyHolds` | `ObfuscatedDistance`: the wrapped distance of two sums is the difference of the clamped ages or, where that is shorter, the rest to the width: never more than the difference of the ages, and below the skew only with it while age and skew stay below the width |
| `RotateKeepsTheUsable` | `AgeDecides` with a hello made now; needs `Past`, which holds as every ticket keeps the time of its issue (`IssueTimesKept`) |
| `Dtls12Server_proofs!TypeCorrect` | sizes are numbers, `Saturating` stays in range, what is sent is a datagram |
| `CookiesProveReach` | strengthened by `CookiesWereSent` (a cookie the client has, or that is under way in a hello, came from a HelloVerifyRequest that reached it) and `ChallengeOpen` (while the second ClientHello is awaited the expected cookie is of the challenged hello, and before the cookie nothing is accepted) |
| `BudgetHolds` | by phase first (`BudgetOfPhase`, with `EnforcedUnlessLifted`), then for every hello not accepted, by the invariant of `CookiesProveReach`; `BudgetGrows`: the saturated product never shrinks when something is received |
| `Tls12Handshake_proofs!TypeCorrect` | `CountInRange` (a set of indices has no more members than the sequence) gives the type of what is taken of a flight of any length, `ExtendedType` that of the transcript after it |
| `EveryFinishedHasItsSignal` | strengthened by `FlagIsFresh`: the flag is set only by a signal no flight has used. `FinishedNeedsFlag`: a flight that is taken whole and ends in Finished has been looked at under the flag |
| `NumbersAreUsedOnce` | strengthened by `Counted`: the n-th record of a direction has the number n - 1, whatever its key |
| `FinishedOverOwnMessages` | strengthened by `Shape`: what the transcript holds in each state, the server's part before the client's and each in order (`Ordered`, `OfServer`, `ClientPart`), unless it is torn; `Taken` of an ordered flight is a prefix of it |
| `ClientNegotiation_proofs!LearntAlways` | inductive with `HelloInv`: `SettingsOK` (present settings are among those the setters take), `SentOK` (the last hello is the one of its offer, tickets and hash), `EarlyAsSent` (early data is offered only where the last hello offers it). EncryptedExtensions are checked against the settings before anything is stored, also where they are refused half way, and a setter or a new hello drops what was learnt of what it replaces |
| `UnderstoodAlways` | from `HelloInv`, by lemmas on the operators: what each builder of an extension yields and its parser reads back, that a hello holds each type once, so that looking one up finds the one built, and that the server rebuilds the hello the binders are over |
| `ChoiceAlways` | strengthened by `Waiting` (a client that waits has sent a hello): the hello answered is an altered one of those sent, so it is still a list of extensions; the choice is the first of the server's list that meets the hello's, and the ServerHello built for it is read back |
| `ChainValidation_proofs!AlwaysOnlyRestrict` | a simulation: what is carried without limits is at least as lax as with them (`LaxState`), each step keeps it so (`LaxerIs`), and each check that passes under the stricter state passes under the laxer one (`LaxChecks`). `LaxSearch` is the induction over the search: accepted with limits, accepted without |
| `AlwaysExact` | `StepsAre`: the recursive function of the search exists and meets its equation, hop by hop from the bound down; the inductions take a set in place of a predicate (`AllNumbers`, `Downward`). Closed forms of what a path carries at each hop (`StateAt`, `ReachedAt`, `EffectiveIs`, the last by the lines of policies, `LinesAre`), so that the checks along a route are those of `PathOK` (`PathIs`). Then completeness (`RouteAccepted`: a search at any hop of a sound route accepts) and soundness (`AcceptedFound`: what a search accepts continues the beginning it stands on to a sound route), each by `Downward` |

A theorem states each safety property of each state machine and of chain
validation. Model-checked only are:

- `FlightEnds` and `ClientGetsIn`, which need fairness: liveness and ENABLED
  are beyond the prover;
- the properties of `codecs`. The pure modules use RECURSIVE operators, under
  which the prover has no arithmetic, and what they compute for every input
  takes induction over data. Chain validation recurses over a number, the hop,
  so its search can be written as a recursive function, and induction over a
  set of numbers is enough for it.

## 5. Findings

The first has a run that shows it. The others were read in the code while it
was modelled; for 2 to 7 the promise that is broken is stated as a property of
the module (named in brackets), which a .cfg with it as its only property
refutes; 8 is the text of an error; 9 to 18 are about single calls of the pure
modules (section 3.1 says
what `codecs` does with them). `PROJECT.json` quotes what each of them
contradicts. `aes.rs` and `rsa.rs` are files of `crates/noxtls-crypto`,
`certificate.rs` of `crates/noxtls-x509`.

1. **The epoch in use can be set again, and its numbers start over**
   (`dtls_flight_numbers`). `set_dtls13_outbound_epoch` accepts the current
   epoch (`connection.rs:5984`), against "Sequence numbers: Monotonic per
   direction" (`docs/TLS13_RECORD_POLICY.md:13`).
2. **A damaged record uses up its number**
   (`DtlsReceive!UpdatedOnAcceptance`). `open_dtls13_aes128gcm_record` marks
   the number before it decrypts (`dtls.rs:1028`); the documentation says the
   tracker is "updated on successful acceptance path" (`dtls.rs:993`). The
   intact record of that number is refused afterwards.
3. **A partly acknowledged flight is reported as exhausted**
   (`DtlsFlight!FailedMeansExhausted`).
   `acknowledge_dtls13_active_flight_packets` prunes the acknowledged records
   and keeps their keys in the flight; the next poll finds them missing and
   fails the flight (`connection.rs:6545`), although
   `dtls13_active_flight_failed` is documented to report "retry budget
   exhaustion" (`connection.rs:6645`).
4. **The transcript of a retry is lost**
   (`Tls13Connection!RetryKeptInTranscript`). After a HelloRetryRequest the
   only way on is `send_client_hello`, which clears the transcript that
   `reset_transcript_for_hrr` has just built (`connection.rs:1907`,
   `connection.rs:8841`).
5. **A KeyUpdate replaces both directions whatever it requests**
   (`Tls13Connection!SendKeysKeptUnlessRequested`), `connection.rs:3332`
   against `connection.rs:3291`.
6. **Keys of a torn handshake come back into force**
   (`Tls13Connection!EveryKeyOnce`). A hello call for a list of tickets that
   fails has cleared the transcript, in any state (`connection.rs:1595`). Two
   handshakes torn this way, the second with a ServerHello without a share, have
   the same share and the same messages behind an empty transcript: they install
   the same keys, and `finish` sets both counters to 0, against "Sequence
   numbers: Monotonic per direction" (`docs/TLS13_RECORD_POLICY.md:13`). It takes
   an embedder that goes on with a handshake after a hello call has failed.
7. **Ages beyond 2^32 milliseconds are all alike**
   (`EarlyData!NoStaleHello`). Both ages are clamped (`psk.rs:687`), so a hello of
   any time passes with a ticket that old, which a ticket issued without a time
   is under any clock that counts from 1970; `max_skew_ms` is the "allowed
   absolute age skew" (`connection.rs:4408`).
8. **Early data is said to open "before encrypted extensions"** only
   (`connection.rs:4885`), and also opens in `Finished`.
9. **GHASH counts additional data in bytes**, the ciphertext in bits
   (`aes.rs:1088`); `GcmMacBlocks` has it as the code does.
10. **CCM with a nonce of 7 bytes shifts by the width of `usize`**
   (`aes.rs:406`), and refuses every text or panics.
11. **RSA-CRT subtracts below zero when q > p** (`rsa.rs:355`), which no check
   of the components excludes.
12. **Five-byte DER integers lose their first byte** (`certificate.rs:976`): a
   path length of 2^32 is read as 0.
13. **keyUsage keeps the wrong bits** (`certificate.rs:907`): the unused bits
    are the low ones of the last byte, the code clears the high ones.
14. **keyUsage without bits, or with more than two bytes of them, panics** in
    builds with overflow checks (`certificate.rs:905`).
15. **A line of five to nine dashes panics the PEM reader**
    (`crates/noxtls-pem/src/lib.rs:593`).
16. **A large OCSP staple gives a Certificate with a wrong length**
    (`connection.rs:11063`).
17. **So do long lists of protocols and identities** (`connection.rs:10436`).
18. **`rsa` decryption documented to delegate to the private exponent refuses
    keys without CRT components** (`rsa.rs:1171`).

## 6. What is not modelled, and why

- **Ciphers, hashes, curves and lattices** (AES rounds, SHA, P-256, X25519,
  X448, Ed25519, ML-KEM, ML-DSA): fixed computations on large words without
  state or order of calls; the repository tests them with vectors. What is
  around them is modelled: modes, paddings, limbs, the generator.
- **Key providers, PSA, transports, configuration, platform, demos**: single
  calls forwarded to something outside, or I/O.
- Errors of files: reading and writing PEM files, the text of error messages,
  and allocation.
- In `ChainValidation`: how an issuer's key is decoded and a signature
  computed.
- In `HandshakeBodies` and `Records`: the DTLS 1.2 server flight builders and
  the record packets of early data, which chain what is modelled.
- In `RsaPadding`: the octet of zero bits that may precede an encoded message
  (a modulus whose length is 1 more than a multiple of 8).
- In `Tls12Handshake`: TLS 1.3 handlers called on a TLS 1.2 connection, and
  `set_record_sequences_for_test`. What the model
  shows and nothing forbids: a ClientHello for an empty list of tickets is
  sent from any state; a ChangeCipherSpec flag is carried from an abandoned
  handshake into the next; `finish` may use the secret of an earlier
  handshake.
- In `Tls13Connection`: the server side; the contents of extensions
  (`Negotiation` has them); exporters; the close_notify flags, the answers on
  names, ALPN and early data (they are variables of `ClientNegotiation`).
  `RequireStaple` is a constant: the embedder is taken to set it before the
  first handshake, while the certificate policy may change at any time.
- A **torn** handshake is reached and marked, in TLS 1.3 and in TLS 1.2. A hello
  that is refused in the middle of another handshake
  (`send_client_hello_with_resumption_tickets` does not look at the state) clears
  its transcript; the transcript properties except these handshakes, and say so
  with `~torn`, those of keys and numbers except only keys without a
  ClientHello. A second handshake that goes from CertificateVerify straight to
  `finish` with the finished key of the first is reached, too: it is an action of
  the model, its keys bind the new transcript, and that they rest on an old key
  share is listed as a hazard.
- In `EarlyData`: export and import of the replay window; tickets the embedder
  keeps outside a store, or puts back into it under the same connection (a
  file loaded into a running process brings back tickets unused); several
  identities in one hello, of which the code takes the first that matches; the
  sealing side and telemetry; files of version 1, which lack the budget; times
  of issue other than the present and 0; and handshakes whose hashes differ. What
  the model shows of the file: as keys of tickets are derived from the resumption
  secret of the running connection, and that secret is not saved, a ticket that
  was saved is never accepted after a restart. The library promises no more, so
  this is no finding.
- In `Dtls12Server`: the contents of messages, record packets and fragments.
  The DTLS 1.2 scheduler calls are those of `DtlsRetransmit`, and the
  embedder's resends are taken as given. What the model shows of the cookie
  exchange: the second `ClientHello` is hashed as it is passed in, so the
  embedder must take the cookie out of it first; a HelloVerifyRequest that is
  lost is not made again by the call (the phase has moved on), so the embedder
  has to keep its bytes; and no call leads back to `AwaitingClientHello`, so
  that a client that restarts, or a secret that is replaced, after the
  challenge leaves the `Connection` without a way on (hence `disturbed` in
  `ClientGetsIn`). The library promises otherwise nowhere, so none of these is
  a finding.
- In `DtlsFlight`: the server flight builders, which only chain the modelled
  calls, and the plaintexts.

## 7. Plan

In order, most important behaviour first. Items 1 to 4 and 6 to 8 are done.

1. `DtlsReplay`, `DtlsReceive` and their proofs.
2. `DtlsRetransmitStore`, `DtlsRetransmit` and their proofs.
3. `DtlsFlight`.
4. `Tls13Connection`.
5. A session: the sender of `DtlsFlight`, a channel that loses, repeats and
   reorders datagrams, and the receiver of `DtlsReceive`. The abstract
   specification is a flight that is delivered at most once and is owed,
   acknowledged or given up; the composition is to be shown to implement it.
6. Tickets and early data: store, eviction, single use, save and restart;
   the early-data window, on the operators of `DtlsReplay`, with its budget.
7. DTLS 1.2 server: phases, cookie, byte budget, lost HelloVerifyRequest.
   TLS 1.2: ChangeCipherSpec and the flights, and what a flight that failed
   leaves in transcript and state.
8. Negotiation, chain validation, and the pure algorithms against references.
9. Proofs: every safety property of the state machines of items 1 to 8, and
   of chain validation, has its theorem. Still worth having: the refinement of
   item 5.
