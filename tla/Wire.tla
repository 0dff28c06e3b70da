-------------------------------- MODULE Wire --------------------------------
(***************************************************************************)
(* A message of any kind is put into a frame, the frame may be damaged on  *)
(* its way, and it is given to the readers.  The formats of the handshake  *)
(* messages and of the identity bundle are here, the others in Codec.      *)
(***************************************************************************)
EXTENDS Codec

CONSTANTS
  KeyLen,       \* bytes of a public key
  SigLen,       \* bytes of a signature
  Values,       \* for each kind, the values that are sent
  MaxDamage     \* bound: changes to one frame on its way

ASSUME WireAssumption == {KeyLen, SigLen} \subseteq Nat \ {0}

MsgClientHello == 1
MsgServerHello == 2
MsgClientFinish == 3
MsgHeartbeat == 3

HandshakePayloadInit == 1
HandshakePayloadResponse == 2
HandshakePayloadFinish == 3

MaxU16 == ValuesOf(W16) - 1

Handshakes == {"clientHello", "serverHello", "clientFinish"}
Kinds == Handshakes \cup {"heartbeat", "message", "ack", "chunk"}
Readers == Kinds \ {"heartbeat"}

-----------------------------------------------------------------------------
(***************************************************************************)
(* The identity bundle.                                                    *)
(***************************************************************************)
BundleFields == {"BundleVersion", "SigAlg", "KeyID", "NotBeforeUnix", "NotAfterUnix",
                 "X25519StaticPublic", "Ed25519Public", "Signature"}

\* IdentityBundle.Encode and ToBytes.
BundleToBytes(b) ==
  IF Len(b.KeyID) > MaxU16
    THEN Fail
    ELSE Success(WriteU8(b.BundleVersion) \o WriteU8(b.SigAlg) \o WriteU16(Len(b.KeyID))
           \o b.KeyID \o WriteU64(b.NotBeforeUnix) \o WriteU64(b.NotAfterUnix)
           \o b.X25519StaticPublic \o b.Ed25519Public \o b.Signature)

IdentityBundleFromBytes(buf) ==
  Read(buf,
       << <<"BundleVersion", "u", 1>>, <<"SigAlg", "u", 1>>, <<"len", "u", W16>>,
          <<"KeyID", "var", "len">>, <<"NotBeforeUnix", "u", W64>>,
          <<"NotAfterUnix", "u", W64>>, <<"X25519StaticPublic", "raw", KeyLen>>,
          <<"Ed25519Public", "raw", KeyLen>>, <<"Signature", "raw", SigLen>> >>,
       BundleFields, TRUE)

\* Seeded fault: the end of the validity is not signed.
signatureInputOpenEnded(b) ==
  IF Len(b.KeyID) > MaxU16
    THEN Fail
    ELSE Success(WriteU8(b.BundleVersion) \o WriteU8(b.SigAlg) \o WriteU16(Len(b.KeyID))
           \o b.KeyID \o WriteU64(b.NotBeforeUnix) \o b.X25519StaticPublic \o b.Ed25519Public)

\* What the identity key signs, behind a constant label.
signatureInput(b) ==
  IF Len(b.KeyID) > MaxU16
    THEN Fail
    ELSE Success(WriteU8(b.BundleVersion) \o WriteU8(b.SigAlg) \o WriteU16(Len(b.KeyID))
           \o b.KeyID \o WriteU64(b.NotBeforeUnix) \o WriteU64(b.NotAfterUnix)
           \o b.X25519StaticPublic \o b.Ed25519Public)

-----------------------------------------------------------------------------
(***************************************************************************)
(* The two hellos and the finish.                                          *)
(***************************************************************************)
\* What both hellos begin with: two numbers, the ephemeral key, the bundle.
HelloStart(caps, maxPayload, h) ==
  LET bundle == BundleToBytes(h.IdentityBundle)
  IN  IF ~bundle.ok \/ Len(bundle.v) > MaxU16
        THEN Fail
        ELSE Success(WriteU32(caps) \o WriteU32(maxPayload) \o h.EphPublic
               \o WriteU16(Len(bundle.v)) \o bundle.v)

\* ClientHello.encodeBody, which is transcriptBytes too.
ClientHelloBody(h) == HelloStart(h.CapabilityBits, h.RequestedMaxPayload, h)

transcriptBytesWithoutSignature(h) ==
  HelloStart(h.AcceptedCapabilityBits, h.AcceptedMaxPayload, h)

ServerHelloBody(h) ==
  LET start == transcriptBytesWithoutSignature(h)
  IN  IF start.ok THEN Success(start.v \o h.TranscriptSignature) ELSE Fail

ClientFinishBody(f) ==
  Success(WriteU64(f.MaxRekeyBytes) \o WriteU32(f.MaxRekeySeconds) \o WriteU8(f.RoleHint)
    \o WriteU8(0) \o WriteU16(0) \o f.TranscriptSignature)

\* The reads of a body; the bundle inside is then read by its own reader.
WithBundle(p) ==
  LET b == IdentityBundleFromBytes(p.v.IdentityBundle)
  IN  IF p.ok /\ b.ok THEN Success([p.v EXCEPT !.IdentityBundle = b.v]) ELSE Fail

decodeClientHelloBody(buf) ==
  WithBundle(Read(buf,
    << <<"CapabilityBits", "u", W32>>, <<"RequestedMaxPayload", "u", W32>>,
       <<"EphPublic", "raw", KeyLen>>, <<"len", "u", W16>>, <<"IdentityBundle", "var", "len">> >>,
    {"CapabilityBits", "RequestedMaxPayload", "EphPublic", "IdentityBundle"}, TRUE))

decodeServerHelloBody(buf) ==
  WithBundle(Read(buf,
    << <<"AcceptedCapabilityBits", "u", W32>>, <<"AcceptedMaxPayload", "u", W32>>,
       <<"EphPublic", "raw", KeyLen>>, <<"len", "u", W16>>, <<"IdentityBundle", "var", "len">>,
       <<"TranscriptSignature", "raw", SigLen>> >>,
    {"AcceptedCapabilityBits", "AcceptedMaxPayload", "EphPublic", "IdentityBundle",
     "TranscriptSignature"}, TRUE))

\* The reserved bytes are read and not looked at.
decodeClientFinishBody(buf) ==
  Read(buf,
    << <<"MaxRekeyBytes", "u", W64>>, <<"MaxRekeySeconds", "u", W32>>, <<"RoleHint", "u", 1>>,
       <<"RoleHint", "in", 0 .. 3>>, <<"reserved", "u", 1>>, <<"reserved", "u", W16>>,
       <<"TranscriptSignature", "raw", SigLen>> >>,
    {"MaxRekeyBytes", "MaxRekeySeconds", "RoleHint", "TranscriptSignature"}, TRUE)

\* Seeded fault: a body that is too long is wrapped with a length that wraps.
WrapUnchecked(payloadKind, body) ==
  IF ~body.ok
    THEN Fail
    ELSE Success(WriteU8(payloadKind) \o WriteU8(0) \o WriteU16(Len(body.v)) \o body.v)

\* The wrapper that the three ToFrame methods put around a body.
Wrap(payloadKind, body) ==
  IF ~body.ok \/ Len(body.v) > MaxU16
    THEN Fail
    ELSE Success(WriteU8(payloadKind) \o WriteU8(0) \o WriteU16(Len(body.v)) \o body.v)

WrapperReads(payloadKind) ==
  << <<"kind", "u", 1>>, <<"kind", "in", {payloadKind}>>, <<"reserved", "u", 1>>,
     <<"len", "u", W16>>, <<"body", "var", "len">> >>

\* Seeded fault: what follows the body is not looked at.
UnwrapAnyEnd(payloadKind, payload) == Read(payload, WrapperReads(payloadKind), {"body"}, FALSE)

Unwrap(payloadKind, payload) == Read(payload, WrapperReads(payloadKind), {"body"}, TRUE)

-----------------------------------------------------------------------------
(***************************************************************************)
(* The ToFrame and FromFrame functions of all kinds.                       *)
(***************************************************************************)
Framed(msgType, payload) ==
  IF payload.ok THEN Success(NewFrame(msgType, payload.v)) ELSE Fail

ToFrame(kind, v) ==
  CASE kind = "heartbeat"    -> Success(NewFrame(MsgHeartbeat, << >>))
    [] kind = "clientHello"  -> Framed(MsgClientHello, Wrap(HandshakePayloadInit, ClientHelloBody(v)))
    [] kind = "serverHello"  -> Framed(MsgServerHello, Wrap(HandshakePayloadResponse, ServerHelloBody(v)))
    [] kind = "clientFinish" -> Framed(MsgClientFinish, Wrap(HandshakePayloadFinish, ClientFinishBody(v)))
    [] kind = "message"      -> Success(NewFrame(MsgAppMessage, MessageEncode(v)))
    [] kind = "ack"          -> Success(NewFrame(MsgAppMessage, MessageEncode(AckToMessage(v, 1))))
    [] kind = "chunk"        -> Success(NewFrame(MsgAppMessage, MessageEncode(ChunkToMessage(v))))

ClientFinishFromFrame(f) ==
  LET p == Unwrap(HandshakePayloadFinish, f.Payload)
  IN  IF f.MsgType = MsgClientFinish /\ p.ok THEN decodeClientFinishBody(p.v.body) ELSE Fail

ClientHelloFromFrame(f) ==
  LET p == Unwrap(HandshakePayloadInit, f.Payload)
  IN  IF f.MsgType = MsgClientHello /\ p.ok THEN decodeClientHelloBody(p.v.body) ELSE Fail

ServerHelloFromFrame(f) ==
  LET p == Unwrap(HandshakePayloadResponse, f.Payload)
  IN  IF f.MsgType = MsgServerHello /\ p.ok THEN decodeServerHelloBody(p.v.body) ELSE Fail

MessageFromFrame(f) == IF f.MsgType = MsgAppMessage THEN MessageDecode(f.Payload) ELSE Fail

FromFrame(reader, f) ==
  LET m == MessageFromFrame(f)
  IN  CASE reader = "clientHello"  -> ClientHelloFromFrame(f)
        [] reader = "serverHello"  -> ServerHelloFromFrame(f)
        [] reader = "clientFinish" -> ClientFinishFromFrame(f)
        [] reader = "message"      -> m
        [] reader = "ack"          -> IF m.ok THEN AckFromMessage(m.v) ELSE Fail
        [] reader = "chunk"        -> IF m.ok THEN ChunkFromMessage(m.v) ELSE Fail

-----------------------------------------------------------------------------
VARIABLES
  kind, value,   \* what is sent
  frame,         \* its frame, as it is now; Fail when ToFrame refused
  damage         \* what happened to the frame on its way, in order

vars == <<kind, value, frame, damage>>

Init ==
  /\ kind \in Kinds
  /\ value \in Values[kind]
  /\ frame = ToFrame(kind, value)
  /\ damage = << >>

Damaged(what, payload) ==
  /\ frame.ok
  /\ Len(damage) < MaxDamage
  /\ frame' = [frame EXCEPT !.v.Payload = payload]
  /\ damage' = Append(damage, what)
  /\ UNCHANGED <<kind, value>>

Truncate == \E n \in 0 .. Len(frame.v.Payload) - 1 :
              Damaged("truncated", SubSeq(frame.v.Payload, 1, n))
Extend == \E b \in Byte : Damaged("extended", Append(frame.v.Payload, b))
Change == \E i \in DOMAIN frame.v.Payload, b \in Byte :
            Damaged("changed", [frame.v.Payload EXCEPT ![i] = b])

Next == frame.ok /\ (Truncate \/ Extend \/ Change)

Spec == Init /\ [][Next]_vars
-----------------------------------------------------------------------------
(***************************************************************************)
(* Properties.                                                             *)
(***************************************************************************)
\* The length of the body of a handshake message, counted field by field.
BodyLength(k, v) ==
  LET bundle == 2 + W16 + Len(v.IdentityBundle.KeyID) + 2 * W64 + 2 * KeyLen + SigLen
      hello  == 2 * W32 + KeyLen + W16 + bundle
  IN  CASE k = "clientHello" -> hello
        [] k = "serverHello" -> hello + SigLen
        [] OTHER -> W64 + W32 + 2 + W16 + SigLen

\* The limits that the code puts on what it reads.
Fits(k, v) ==
  CASE k \in Handshakes -> BodyLength(k, v) <= MaxU16
    [] k = "message"    -> Len(v.Payload) <= MaxAppPayload
    [] k = "chunk"      -> Len(ChunkToMessage(v).Payload) <= MaxAppPayload
    [] OTHER            -> TRUE

\* Every message that is within the limits, up to the last byte, is put into a
\* frame and read back as it was; a handshake message beyond them is refused
\* by ToFrame and not cut (handshake.go:355, 415), and a message of app.go,
\* whose encoders have no limit of their own, by its reader (app.go:62).
MessageRoundTrip ==
  damage = << >> /\ kind \in Readers =>
    /\ Fits(kind, value) => frame.ok /\ FromFrame(kind, frame.v) = Success(value)
    /\ ~Fits(kind, value) /\ frame.ok => kind \notin Handshakes /\ ~FromFrame(kind, frame.v).ok

\* A frame on the wire is read back as it was, also with more bytes behind it,
\* up to the last byte of the limit; the next longer one is refused although
\* all of it is there (frame.go:61), and no part of any is taken for a frame
\* (frame.go:40).
FrameRoundTrip ==
  frame.ok =>
    LET wire == FrameEncode(frame.v)
        read == IF Len(frame.v.Payload) <= MaxFramePayload THEN Success(frame.v) ELSE Fail
    IN  /\ FrameDecode(wire) = read
        /\ FrameDecode(Append(wire, 0)) = read
        /\ \A n \in 0 .. Len(wire) - 1 : ~FrameDecode(SubSeq(wire, 1, n)).ok

\* What is sent is what is read, as a message within its frame and as a frame
\* within the stream, and nothing beyond the limits is.
RoundTrip == MessageRoundTrip /\ FrameRoundTrip

\* A message cut short is refused by every reader, and a handshake message by
\* all but its own, although a heartbeat and a ClientFinish have the same type
\* (handshake.go:22, frame.go:11).
OnlyItsReader ==
  frame.ok =>
    /\ damage = << "truncated" >> => \A r \in Readers : ~FromFrame(r, frame.v).ok
    /\ damage = << >> =>
         \A r \in Handshakes : FromFrame(r, frame.v).ok => r = kind

\* The reserved bytes of a payload set to zero.
Cleared(k, payload) ==
  LET body == 2 + W16
      spare == body + W64 + W32 + 1
  IN  [i \in DOMAIN payload |->
         IF i = 2 \/ (k = "clientFinish" /\ i \in spare + 1 .. spare + 1 + W16)
           THEN 0 ELSE payload[i]]

\* Whatever arrives and is accepted as a handshake message would be sent with
\* exactly the bytes that arrived, reserved bytes aside.  handshakeTranscriptHash
\* (handshake.go:1070, 1074) relies on it: it hashes the received hellos by
\* encoding them again.
ReencodesAsReceived ==
  frame.ok =>
    \A r \in Handshakes :
      LET got == FromFrame(r, frame.v)
          again == ToFrame(r, got.v)
      IN  got.ok => again.ok /\ again.v.Payload = Cleared(r, frame.v.Payload)

\* What is signed and hashed stands for one value only: two bundles that differ
\* in more than the signature have different signature inputs, and no client
\* hello's transcript begins another's, so that the two hellos, which are
\* hashed one behind the other without a length (handshake.go:1080-1081), can be
\* told apart again.
DigestsUnambiguous ==
  damage = << >> /\ frame.ok /\ kind \in {"clientHello", "serverHello"} =>
    \A v \in {w \in Values[kind] : Fits(kind, w)} :
      LET a == value.IdentityBundle
          b == v.IdentityBundle
      IN  /\ signatureInput(a) = signatureInput(b) =>
               [a EXCEPT !.Signature = 0] = [b EXCEPT !.Signature = 0]
          /\ kind = "clientHello" /\ v # value =>
               ~IsPrefix(ClientHelloBody(v).v, ClientHelloBody(value).v)
          /\ kind = "serverHello"
               /\ transcriptBytesWithoutSignature(v) = transcriptBytesWithoutSignature(value)
               => [v EXCEPT !.TranscriptSignature = 0] = [value EXCEPT !.TranscriptSignature = 0]
=============================================================================
