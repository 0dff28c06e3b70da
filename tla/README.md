# A verification of shadowlark-go

`shadowlark-go` is the Go client library of the Shadowlark transport: a three-message authenticated
handshake, a secure session that seals and numbers records, a TCP client around both, and a small
application layer of messages, inboxes and routers. This directory holds TLA+ models of it, the TLC
configurations that check them on small instances, and proofs that TLAPS checks for every instance.

Paths are relative to the repository. "Session" means `transport/session/session.go`, "handshake"
`transport/handshake/handshake.go`, "client" `transport/tcp/client.go`.

## 1. Inventory

| Component | State it keeps | Operations | Talks to |
|---|---|---|---|
| UDP replay window (session, `udpReplayWindow`) | `initialized`, `highestSeen`, a bitmap of 16 words | `validateCandidate`, `markSeen`, `shiftWindow`, `contains`, `set`, `clear` | called by the session |
| Record cipher (`crypto/cipher.go`) | none | `DeriveNonce`, `BuildAAD`, `RekeyMaterial`, `EncryptFrame`, `DecryptFrame` | called by the session |
| Secure session (session, `State`) | keys, epochs and counters of both directions, byte count, rekey policy and trigger, replay mode, `LastSeen` | `EncryptFrame`, `DecryptFrame`, `DecryptFrameUDP`, `RekeyOutbound`, `RekeyInbound`, `SetReplayMode`, `SetRekeyPolicy`, `MarkRekeyManual`, `Touch` | made from a `HandshakeOutput`; owned by the client |
| Handshake (handshake, `SecureInitiator`, `SecureResponder`, `TrustStore`) | policy, bundle, pins, ephemeral key, the two hellos | `BuildClientHello`, `HandleClientHello`, `HandleServerHello`, `BuildClientFinish`, `HandleClientFinish`, `Finalize`, `Pin` | frames to the other end; output to the session |
| TCP client (client) | connection, `Session`, cached identity and bundle, `LastHeartbeatSent` | `Handshake`, `SendEncrypted`, `ReadEncrypted`, `MaybeSendHeartbeat`, `CheckTimeout` | handshake, session, router, the connection |
| Frame router (`transport/router/router.go`) | handler per message type | `RegisterHandler`, `Dispatch` | pushes to the inbox, touches the session |
| Application layer (`app/app.go`) | inbox queue, next number per channel, subscribers per channel | `Push`, `Pop`, `PopChannel`, `BuildFrame`, `Add`, `Remove`, conversions of acks and chunks | shared between goroutines under mutexes |
| Frame codec and byte codec (`transport/frame`, `binary`) | a buffer and a position | `Encode`, `Decode`, reads and writes | everyone |
| Example client (`cmd/example-client`) | none of its own | one round trip with a three second limit | client, router, inbox |

What is hard about each, and what makes it right:

* **Replay window.** Sliding is a shift with a carry between machine words, and unsigned distances are
  converted to `int`. Right: a number gets through once, nothing in reach is forgotten or invented,
  and no claimed number stops the program.
* **Session.** Counters restart at every rekey and stop at the largest `uint64`; the two ends rekey
  without telling each other; records come late, twice, or with a changed header. Right: no key and
  nonce is used twice, no record opens twice, what opens is what the peer sealed, what should open
  does, and a rekey that is due is announced.
* **Handshake.** Frames of several attempts mix, are repeated or changed; a responder object may be
  handed a second hello, an initiator a second answer; the pins and the clock move in between. Right:
  whoever completes agrees with the other on keys, identities and what was negotiated, and a handshake
  that can succeed does.
* **Client.** It keeps what it took from the environment across failed calls; sending and receiving
  run on different goroutines over a session without a lock; a write may fail after a number was used;
  heartbeats share the stream with records and are told apart by the type alone; there is no timer.
  Right: both ends have the same session or none, what is returned is what was sealed, in order and in
  the end all of it, a peer that lives is kept and a silent one is noticed.
* **Application layer.** Concurrent pushes and pops, two ways to take from one queue, numbers that wrap.
  Lists of subscribers are sorted and filtered in place. Right: every message is taken once and in order
  within a channel, and a list that was handed out does not change.
* **Codecs.** Lengths at their limits, two message types with the same byte, hashes over messages that
  are encoded again. Right: decoding undoes encoding, what does not decode is refused, and what is signed
  or hashed stands for one value.
* **Example client.** A time limit that is looked at between reads that block.

`PROJECT.json` lists the hazards line by line with the properties that cover them.

## 2. Modules

| Module | What it is |
|---|---|
| `ReplayWindow` | the window as pure operators, one per method. A word is the set of its one bits; the integer types are given by their largest values, and `ToInt` is Go's conversion `int(x)`. A negative distance ends in a negative index or shift count, a panic. |
| `ReplayFilter` | abstract specification: of the last `Depth` numbers it knows which were accepted, lets each through once, refuses older ones. |
| `ReplayReceiver` | the number side of `DecryptFrameUDP` around `ReplayWindow`; implements `ReplayFilter` under `seen <- Seen(win)`. |
| `Cipher` | `crypto/cipher.go` with ideal primitives. |
| `Session` | the two ends of a session; uses `ReplayWindow` and `Cipher`. |
| `Handshake` | any number of initiator and responder objects of any identities over a network that does what it likes. |
| `ClientHandshake` | how the client gets its session: environment, cached bundle and pins, `handshakeSecure` over a connection that may fail between any two steps, call after call, with changes by the owner between the calls. |
| `Client` | the client with a session: extends `Session` by the sending and the reading goroutine, the router, the `Messenger`, the inbox, the two streams and the peer. Implements `Session`. |
| `KeepAlive` | the client's clocks: heartbeats and `CheckTimeout`. |
| `Framing` | `writeFrame` and `readFrame` over a stream of bytes in pieces; uses `Codec`. |
| `Codec` | the byte codec, the frame and the application messages as functions on sequences of bytes. |
| `Wire` | the handshake messages and the identity bundle on top of `Codec`; a message is framed, perhaps damaged, and read. |
| `MessageQueue` | abstract specification: one queue whose operations happen at one instant; a pop takes the oldest message, or the oldest of a channel. |
| `Inbox` | `app.Inbox` with its mutex and several goroutines; implements `MessageQueue`. |
| `Subscribers` | `app.StableSubscriberSet` down to Go's slices and arrays. |
| `ExampleClient` | `main` of `cmd/example-client`. |
| `MC*` | instances for TLC. |
| `ReplayWindowProofs`, `ReplayReceiverProofs`, `SessionProofs`, `HandshakeProofs`, `ClientHandshakeProofs`, `ClientProofs`, `ConnectionProofs` (of `KeepAlive`, `Framing` and the integers of `Codec`), `AppProofs` (of `Inbox` and `Subscribers`) | theorems; `SessionProofs` rests on the first, `ClientProofs` on `SessionProofs`. |

Definitions marked *Seeded fault* are not part of any specification. Each changes one definition the
way a plausible mistake would; putting it in place of that definition breaks the property that
`PROJECT.json` pairs it with, which shows that the property depends on the code it is about.

### Session and code

`tx[r]` is the outbound and `rx[r]` the inbound half of the `State` of end `r`. Times are kept as ages:
`tx[r].age` is the time since `TxEpochStarted`, `idle[r]` the time since `LastSeen`, both in seconds
and capped at `MaxClock`. There is one action per method that changes `State`. `sent`, `delivered` and `epochBytes` are
history. The counters wrap as `uint64` does (`Increment`): only the check of line 202, `CanSeal`, stops them
before a number is used again. `SentTypes` bounds the message types that are sealed, not those a header may be
changed to. A method that returns an error changes nothing in the code, so its error paths are the
guard of the action being false; `OpensInOrder` and `OpensSliding` hold the checks, in the order of the
code, and are what the properties speak of. `Presented` is what owners may hand to either end, at
any time and any number of times: every record either end ever sealed, with the message type it has
or another one. `DecryptFrameUDP` takes any claimed number.

`SetReplayMode` into the sliding mode empties the window, and the two modes keep separate places:
after a change of mode, records of the running epoch that were opened before may open again. The
code offers nothing against it, so `delivered` starts afresh there and `ReplayRejected` speaks of
what was opened since. In the code a distance beyond the largest `int` stops the program; `Session` has no step for
it, `ReplayReceiver` has (verdict `panic`), and `FreshRecordOpens` leaves such records out.

### Handshake and code

`local`, `trustStore`, `clientHello` and `serverHello` are the fields of the objects; an object stands for
its ephemeral key. `net` holds every frame ever sent, and nothing is ever removed: losing, repeating,
delaying and misdirecting a frame are all choices of who reads what when. With `Damage`, a frame may also
arrive with one field changed, including a signature taken from another frame; nobody makes a
signature for somebody else. Callers may call in any order and any number of times, as the methods
allow. `signed` and `outputs` are history. Which identity owns which object is chosen by `Init`, among `Owners`.

### ClientHandshake and code

`env` stands for the environment variables: which seeds are there and whether the numbers parse, the
validity, the key ID (one that fits, one too long for the bundle's own bytes, or one that fits there and makes the
bundle too long to be sent), the list of pins with entries that are blank or malformed. `bundle`, `trust` and `session` are
the fields that survive a call. `pc` follows `handshakeSecure`; the connection may break between any two of its steps. The owner
may change the environment, or set identity and trust himself, between calls. A bundle that cannot be sent is kept all the same
(`HelloRefused`, client 122 and 184). After an error
the owner may call again on the same connection, where an answer to the failed call may still be
waiting. A hello is reduced to its attempt number and its bundle's validity: that an answer to another
attempt does not verify is what `Handshake` shows. The server is external; it handles hellos in turn and
closes the connection when it refuses one. `Close` leaves the connection as broken as a failure does.

### Client and code

A step is what runs between two points at which the other goroutine or the peer can come in between: in
`SendEncrypted` the sealing, the write, the look at the heartbeat's age and the write of the heartbeat; in
`ReadEncrypted` each frame read, and the same two steps of `MaybeSendHeartbeat`; then `Dispatch`. A write
waits while the connection holds `Capacity` frames. A write that fails, or is lost unnoticed, comes
after the number was used. `stream` holds whole frames, which is what `Framing` shows of the bytes. The
peer is external: it seals in order as this code does, besides messages it sends sealed frames of any type
and unsealed ones, and it reads independently of its writing. `Close` is `Break`.

### The other modules and code

* `KeepAlive` keeps ages in ticks: of `LastSeen`, of `LastHeartbeatSent` and, as history, of what was
  written. What the client does takes no time; what the peer writes arrives within `Delay`.
* `Framing`: the connection carries out one `Write` at a time, as Go's does; a `Write` puts its bytes into
  the stream in pieces, `io.ReadFull` takes them out in other pieces, and the stream may end anywhere.
* `Codec` and `Wire`: a byte is a digit to the base `Base`, and `W16`, `W32`, `W64` are the widths of
  the integers, so that limits are reached with few bytes. An integer is written by dividing and read by
  multiplying, one byte a round, and keeps only its low bytes when it does not fit. A reader is a list of reads, carried out in
  order, each of which may fail; most end with the check that nothing is left over.
* `Inbox`: taking the lock and reading the queue is one step, storing it and returning another, so that
  a missing lock would show. A message taken is part of the history `popped`.
* `Subscribers`: a slice is an array and a length; `append` writes in place while there is room and
  otherwise moves to a fresh array of any larger capacity; callers keep the lists they got and may write to them.
  `sort.Slice` leaves some increasing order of what was there; `dedupe` and the loop of `Remove` are translated
  round by round, as recursive functions.

### Abstractions

* Hashes have no collisions, signatures and the AEAD are ideal, X25519 is commutative and nothing
  else. The four bytes of key digest in a nonce are modelled as the whole key, but `NonceUnique` compares
  only the sequence part. The 64 bit session identifier is modelled as the whole transcript.
* In `Session` a plain payload is its length, a frame header its `MsgType`, which stands for the version
  byte too (`BuildAAD` covers both).
* Capability bits are sets; `MaxRekeyBytes` and `MaxRekeySeconds` are one value in the handshake, which
  only passes them on.
* Hex digits of the environment are abstracted to well formed or not.

## 3. What is checked

Deadlock is checked except where the modelled part ends by itself (`wire`, `framing`, `client_handshake`,
`example_client_limit`).

| Run | Instance | Shows |
|---|---|---|
| `replay_receiver` | 3 words of 2 bits, `int` up to 10, every `uint64` claimed | `AcceptedOnce`, `WindowExact`, `NoPanic`, and that the bitmap implements `ReplayFilter` |
| `session` | the initiator seals 5 records, the responder opens them; counters modulo 4, epochs modulo 2, two types in headers, 2 rekeys of each end, two policies, both replay modes, time | `NonceUnique`, `ReplayRejected`, `DeliveredAuthentic`, `NextRecordOpens`, `FreshRecordOpens`, `RekeyNotMissed` |
| `handshake` | two clients, of one identity or one of them the server's own, and one server object; all triples of 4 policies; every frame possibly changed | `KeyAgreement`, `SendingKeysExclusive`, `ResponderAuthenticated`, `InitiatorAuthenticated`, `NegotiatedFully` |
| `handshake_live` | one client, one server, all pairs of policies, validity windows and pinned sets | `Completes`, `RekeyLimitsAgree` |
| `client_handshake` | 3 calls, 8 environments, 2 changes by the owner, a clock that passes the default validity, one stray frame | `SessionsAgree`, `AcceptedWithinValidity`, `TrustComplete`, `Connects` |
| `client` | 3 records each way, a connection that holds one frame, numbers and counters at their limits, one unsealed frame, a handler registered late | `PrefixReturned`, `ChannelsInOrder`, `AllReturned`, and that the client implements `Session` |
| `keep_alive` | interval 2, timeout 5, peer's interval 2, delay 2 | `LivePeerKept`, `SilentPeerNoticed`, `ClientHeard`, `BeatsSpaced` |
| `framing` | two writers, 3 frames, every way to cut the stream | `ReadAsWritten`, `AllRead` |
| `wire` | bytes to the base 5, key IDs of every short content and of each length around a limit, bundles that differ in any field, each message as sent and with every single change, cut or extra byte | `RoundTrip`, `OnlyItsReader`, `DigestsUnambiguous`, `ReencodesAsReceived` |
| `inbox` | 2 goroutines, 3 messages, 2 channels | `NothingLost`, `EverythingTaken`, and that it implements `MessageQueue` |
| `subscribers` | one channel, 3 clients, 4 arrays (symmetric), 2 lists held | `SubscribersExact`, `HeldListsStable` |
| `example_client_limit` | one frame from the peer, limit 3 | a violation of `GivesUp`, see below |

Why the bounds are enough to meet the interesting cases: three words is the least with a word that
both receives and gives a carry, and two bits the least with shifts inside a word; the numbers go from inside the window to
beyond it and to the largest `int`. With counters modulo 4 an epoch has numbers for three records; five are one for which the
check must refuse and one more that would repeat the first number. A window of two places lets records leave it, two rekeys let a
one bit epoch number come back to its first value, and frames of two bytes wrap the byte counter at the second. In this run
each record alone reaches the byte limit, and only one end seals; that bytes add up below a limit, and that no end opens a record of its own,
is what `SessionRekeyNotMissed` and `SessionDeliveredAuthentic` prove for all lengths and both directions (in the run `client` both ends seal).
Two answers per responder (`MaxAnswers`) are what overwriting a stored hello needs, and two values and
two bits per negotiated field make fields larger, smaller, overlapping, disjoint and zero. Three calls of
the client are the least with an answer of a failed call waiting for the next and a session of an earlier
one in place. A connection that holds one frame makes every write wait. In `Client` the heartbeat is always
due, the most frequent case, and there is one channel; two channels are in `Inbox`, and `ClientChannelsInOrder` is proved for any number. Three heartbeats
(`age.beats`) are what it takes to tell two in one interval from three. Two lists held and four arrays let a list be
older than the array its set has moved to; the theorems are for any number of channels.

What the properties do not say:

* `RekeyNotMissed` is claimed under `PoliciesBelowWrap`: no policy so close to the largest `uint64` that a
  single frame can carry the counter from below the limit past zero.
* `RekeyLimitsAgree` is claimed only of frames that arrive as sent, because the limits in `ClientFinish`
  are outside what is signed (handshake 857-863, 1064).
* `NonceUnique` speaks of the sequence part of a nonce under one key. `NoPanic` is claimed while authentic
  numbers stay within `int` (`MaxAuthentic`): a peer that seals beyond it stops the program (session 261, 64).
* `KeyAgreement` compares two ends with the same session identifier; it does not say that
  both ends of an attempt get the same one. An owner who hands an initiator a second answer after `BuildClientFinish` may end up
  with keys that the responder does not have, authenticated (`InitiatorAuthenticated`) and of no use (handshake 826).
* `SendingKeysExclusive` looks at a set of outputs. A finish handed twice to one responder yields the same keys twice (handshake
  1003 changes nothing in the object); that its caller does not make two sessions of them is up to the caller.
* `SessionsAgree` says of a `Finalize` that fails after the finish was written (client 149) that the server alone has moved on
  to a later session. The next record the client sends under its old session does not open there, and the code has no way back but
  another handshake.
* `AcceptedWithinValidity` holds although the end of a bundle may wrap or pass: such a bundle is
  refused. The client does not replace it; a client that lives longer than its bundle's validity (client
  159) cannot handshake again. Nor does it replace one whose key ID makes it too long to be sent (client 122, 184). `Connects` is claimed
  only within the validity and with a key ID that can be sent.
* `RoundTrip` says of what is within the limits that it is read as it was written, and of a frame, message or chunk
  beyond them that the reader refuses it.
* `PrefixReturned` says nothing is out of order. A sealed frame of type 3 is taken for a heartbeat before
  it is opened (client 335); nothing the peer sends after it is ever returned, so `AllReturned` leaves
  that case out. After a write that failed on a connection that lives the records behind it would not
  open either; in the model, as with TCP, a failed write means a broken connection.
* `AllReturned` assumes a peer that reads while it waits to write. Two ends that are both this code, both
  reading goroutines waiting to write a heartbeat into a full connection, would wait for each other.
* `SilentPeerNoticed` is claimed for a client that has not sent for the timeout: `EncryptFrame` touches
  `LastSeen` (session 216).
* `BeatsSpaced` allows two heartbeats in an interval, one of each goroutine (client 291).

**Finding.** `GivesUp` states what `main.go:44` prints, "no response within 3s". The run shows a peer that is
silent, or sends only heartbeats: `main` looks at its timer before it calls `ReadEncrypted`, which blocks, and
never again. Every frame that `ReadEncrypted` returns ends the program one way or another, so that the message
of the timeout can only appear if the timer fires before the first read.

**Fairness.** `Completes` assumes weak fairness of every method of both objects: their owner goes on
with the handshake, as the client's `handshakeSecure` does in a straight line, and a frame that was sent and stays
acceptable is handled in the end, which TCP gives while the connection lives.
Damaged frames, `Pin` and the passing of time are not fair. The property asks for completion only
when policies have something in common and pins and bundles keep each end acceptable to the other
from some time on. `Connects` assumes that an owner without a session calls `Handshake` again, that a call goes on, and that
the server handles what arrives. `AllReturned`: a call that was made goes on, the owner calls `ReadEncrypted` again and
again, the peer reads. `AllRead`: the connection carries on a `Write` it has begun, every waiting `Write` gets its turn (strong
fairness, the order of Go's write lock), the reader reads. `EverythingTaken`: a goroutine that holds the mutex goes on, one that
waits for it gets it in the end (strong fairness, since `sync.Mutex` does not starve waiters), and one goroutine keeps
polling. `GivesUp`: the program runs on whenever it can, and time passes. Breaking the connection, the owner's
changes and what a peer sends are never fair.

## 4. What is proved

Every theorem is for all values of the constants that meet the named assumptions; TLC evaluates these on
each run. The bounds on records, rekeys, calls, frames and messages are arbitrary naturals, so they restrict nothing.
What the assumptions ask for:

* `WindowAssumption`, `SizeAssumption`, `AuthenticAssumption`: `MaxUint64 = 2 * MaxInt64 + 1`, a window no larger
  than an `int`, and authentic numbers within `int`.
* `SessionAssumption`: a sealed frame is no longer than `MaxUint64`; `ClientAssumption`: the two message types
  differ, and what does not parse is no message.
* `HandshakeAssumption`, `NilAssumption`: an object is an initiator or a responder, and `Nil`, which stands where a frame has no signature, is none.
* `ClientHandshakeAssumption`: the clock starts after the permitted skew and stays below the wrap by the default validity.
* `KeepAliveAssumption`: the peer's interval and the delay add up to less than the timeout, and ages are counted far enough to tell.
* `InboxAssumption`: `Nil`, an unlocked mutex, is no goroutine.
* `SubscribersAssumption`: client numbers are positive (zero fills fresh arrays), address 0 is no array, there are always a
  free array and room in it: memory does not run out.
* `CodecAssumption`: an integer has at least one byte, a byte more than four values. `FramingAssumption`: fields and payload of a frame
  are bytes, the length of a payload fits into its field (`Encode` casts it to `uint32`, so a payload of 4 GiB would not be read back),
  and `Nil` is no frame, writer or header.

All safety properties that the runs check have a theorem, except those of `Wire`.
For each module, the argument:

* `ReplayWindowProofs`. `ShiftContains`: after `shiftWindow(bits, n)`, bit `k` is what bit `k - n`
  was, and clear below `n`; the argument is division with remainder, by whether the carry is taken.
  From it `MarkSeenRefuses`: `markSeen` makes its number refused and leaves every refused number refused.
* `ReplayReceiverProofs`. `ReceiverAcceptedOnce`, `ReceiverNoPanic`, `ReceiverWindowExact` and
  `ReceiverImplementsFilter`. Inductive invariant `Inv`: the type, `AcceptedOnce`, that `highestSeen` is at
  most the highest authentic number (`Reached`), which is what keeps distances within `int`, and `Exact`: `highestSeen`
  is the greatest accepted number, and bit `d` is set when `highestSeen - d` was accepted. `Exact` gives the refinement:
  the set of the abstract filter is what the bits say.
* `SessionProofs`.
  * `SessionTypeOK`: no counter leaves its type.
  * `SessionNonceUnique`. Not inductive as it stands. `SentInv` adds that the records of an end are
    strictly ordered by epoch and number and that the outbound half is beyond all of them; epochs are
    counted by the length of the key chain, not by the number that wraps. The two ends differ in the
    secret.
  * `SessionReplayRejected` and `SessionDeliveredAuthentic`. `OpenedInv` says that every opened record is
    one the peer sealed and lies behind the receiver: in an epoch it has left, below its in-order
    counter, or refused by its window. It needs `SentInv`, by which a key and number name one record.
  * `SessionNextRecordOpens` and `SessionFreshRecordOpens`. `EpochInv` ties the epoch number that wraps to the
    length of the key chain, for both halves and for every record; so ends with the same key agree on nonce and header.
    `MarksInv` says that a bit of the window is only ever set by a record that was opened.
  * `SessionRekeyNotMissed`. `BytesInv`: while no rekey is asked for, the counter is the true number of bytes
    and below some limit, so that it has not wrapped.
* `HandshakeProofs`. `HandshakeTypeOK`, then `HandshakeKeyAgreement`, `HandshakeSendingKeysExclusive`,
  `HandshakeResponderAuthenticated`, `HandshakeInitiatorAuthenticated` and `HandshakeNegotiatedFully` from `AuthInv`: a
  bundle names its owner, a responder has signed only answers of its own and an initiator only for its own hello, every signature
  in `net` was made by an object that has noted it, an initiator keeps its hello and an answer signed for it, a responder a hello and the
  answer it has signed, and every output comes from a transcript that the other end has signed. `HandshakeRekeyLimitsAgree` needs `LimitsInv` besides,
  that finishes carry the initiator's limits, and is stated for frames that arrive as sent.
* `ClientHandshakeProofs`. `ClientHandshakeSessionsAgree`, `ClientHandshakeWithinValidity` and
  `ClientHandshakeTrustComplete`, from `HandshakeInv`. Its heart is `InStep`, which holds while the connection lives: hellos under way are in
  order and beyond the server, a finish is only ever the first frame under way and fits the hello the server is
  at, and the client's session is the one the server will have (`Coming`) once it has handled that finish or, after a
  `Finalize` that failed, an earlier one (`Ahead`).
* `ClientProofs`.
  * `ClientUsesSession`: `Client` implements `Session`. `ClientInv` says that a frame under way was sealed by its writer or
    is unsealed, that an end's records bear the numbers from 0 on, that inbound counters count what was returned, and
    that a goroutine about to write or dispatch has a frame. Each step of a goroutine, the peer or the connection is then a
    step of `Session` or a stutter, and `ClientSessionSafe` carries the session's theorems over.
  * `ClientPrefixReturned`, from the same invariant: what opens bears the number waited for, and a number names one record.
  * `ClientChannelsInOrder`. `OrderInv` adds that the messages an end has sealed are numbered one after the other on each channel and that
    its counter is where the last one leads (until the session refuses for good, when numbers are used up for nothing), and that
    the last message of each channel in the inbox is the last one dispatched: a handler that was
    registered late misses a first part and nothing after it.
* `ConnectionProofs`.
  * `KeepAliveLivePeerKept`, `KeepAliveSilentPeerNoticed`, `KeepAliveClientHeard` and `KeepAliveBeatsSpaced`, each from
    its part of `Inv`: `LastSeen` is at most one pause of the peer behind the frame that is read next (`HeardInv`), it was moved by a
    send or by a frame not older than `Delay` (`SeenInv`), the last write is at most an interval and a pause older than the heartbeat that is read
    next (`AnswerInv`), and a goroutine about to write a heartbeat found the last one due (`SpacedInv`).
  * `IntegersRoundTrip`: the decoder reads an integer as the encoder wrote it, for every width and base, if it fits. After `i` rounds the
    reader has the quotient the writer had `i` rounds before its end, and the writer's last quotient is zero.
  * `FramingReadAsWritten`, from `ConnInv`. There is a stream, the concatenation of all frames begun, with frame `k`
    between `off[k - 1]` and `off[k]` (`Layout`). The reader stands at a place in it that is the end of the last frame it returned, or of the next
    one's header (`Position`); from there on its buffer, the bytes under way and what is left of the `Write` under way follow
    one another (`Follow`), to the end of the stream unless the connection broke. A writer that does not hold the connection has all of its frame or
    none of it (`WriterInv`). So a whole header is that of the next frame, of which there must be one, because the stream ends where a frame ends, and
    a whole payload is that frame's.
* `AppProofs`.
  * `InboxTypeOK`, `InboxNothingLost` and `InboxImplementsQueue`. `Inv`: whoever holds the mutex has read the queue that is
    still there and no one else has read any, messages have numbers of their own, and what was popped was pushed. The
    step that stores the queue is the abstract operation; everything else is a stutter.
  * `SetSubscribersExact` and `SetHeldListsStable`. `SetInv` adds that slices lie within their arrays (`InBounds`) and that no two slices, of channels or
    of callers, share an array (`Apart`), so that sorting and filtering in place change one list only. What sorting leaves has the same
    elements, `dedupe` of an increasing list is strictly increasing with the same elements, and the loop of `Remove` leaves out one client and keeps the
    order, each by induction over the rounds.

The loops of `dedupe`, `Remove` and the integers are recursive functions over the rounds of the loop. That such a function exists, and
what it computes, is proved with `LoopRuns` and `Rounds`: a property of round 0 that each round passes on holds of all rounds,
because the set of rounds without it would have a least element.

What stays with TLC:

* `Completes`, `Connects`, `AllReturned`, `AllRead`, `EverythingTaken` and the violation of `GivesUp`: liveness under fairness and
  `ENABLED` are out of the prover's reach.
* `RoundTrip`, `OnlyItsReader`, `DigestsUnambiguous` and `ReencodesAsReceived`: a reader of `Codec` is a fold over its list of reads that
  extends a function by one field after the other, and of folds and of extending functions the prover knows no facts. What is
  proved of the codec is what framing needs: the integers, and where the fields of an encoded frame are.

No module uses `RECURSIVE` operators.

## 5. What is not modelled

* `WriteBool`, `WriteVarBytes`, `WriteString` and their readers: nothing else in the repository calls them.
* `DeriveSessionKey`: not used by the program.
* `IsRekeyRequired` and `RekeyReason` only read what the model holds in `required` and `reason`.
* `SetHandshakePolicy` replaces an argument of the handshake; which policies agree is the subject of
  `Handshake`.
* Rekeying within `Client`: the client never rekeys by itself. `Session` has it, with owners that do.
* Two goroutines that both send: they would race for `TxSequence`. Nothing in the repository does it.
* Reassembly of chunks: the code only converts them.
* The tests against live services.

## 6. Plan

The system is modelled, and the safety of all parts but the message formats is proved. What is left:

1. `Wire`: `RoundTrip` format by format, with the readers written as the straight line of reads that each of them is, so
   that `IntegersRoundTrip` and `EncodeFacts` apply.
2. `DigestsUnambiguous` and `ReencodesAsReceived` from it: what is read back is what was written, so two values with
   the same bytes are the same value.
