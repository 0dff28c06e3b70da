------------------------------- MODULE Codec --------------------------------
(***************************************************************************)
(* The byte formats: binary/encoder.go and decoder.go, the frame of        *)
(* transport/frame and the messages of app/app.go.  A byte is a number     *)
(* below Base; integers keep their widths in bytes, so that the limits     *)
(* that are checked are reached by short messages.                         *)
(*                                                                         *)
(* A writer is the concatenation of what it writes.  A reader is the list  *)
(* of its reads, performed in order until one fails.  Both are translated  *)
(* separately, each from its own function.                                 *)
(***************************************************************************)
EXTENDS SequencesExt

CONSTANTS
  Base,                  \* number of values of a byte
  W16, W32, W64,         \* bytes of the integer types
  MaxFramePayload,       \* frame.maxPayloadLen
  MaxAppPayload,         \* the limit of app.Decode
  Version,               \* frame.Version
  AppTypeData, AppTypeAck, AppTypeNak, AppTypeChunk,
  MsgAppMessage

\* How many values an integer of w bytes has.
ValuesOf(w) ==
  LET p[i \in 0 .. w] == IF i = 0 THEN 1 ELSE p[i - 1] * Base
  IN  p[w]

ASSUME CodecAssumption ==
  /\ {W16, W32, W64} \subseteq Nat \ {0}
  /\ Base \in Nat \ (0 .. 4)
  /\ ValuesOf(W16) <= ValuesOf(W32)
  /\ MsgAppMessage \in 4 .. Base - 1

Byte == 0 .. Base - 1

-----------------------------------------------------------------------------
(***************************************************************************)
(* binary.Encoder: big-endian integers; a conversion keeps the low bytes.  *)
(***************************************************************************)
U(w, n) ==
  LET q[i \in 0 .. w] == IF i = 0 THEN n ELSE q[i - 1] \div Base
  IN  [i \in 1 .. w |-> q[w - i] % Base]

WriteU8(n) == U(1, n)
WriteU16(n) == U(W16, n)
WriteU32(n) == U(W32, n)
WriteU64(n) == U(W64, n)

(***************************************************************************)
(* binary.Decoder.  Each read either takes its bytes or fails, and every   *)
(* caller returns at the first failure.  A read is <<name, "u", width>>,   *)
(* <<name, "raw", length>>, <<name, "var", name of the length>>, or a test *)
(* <<name, "in", allowed values>>.                                         *)
(***************************************************************************)
Fail == [ok |-> FALSE, v |-> << >>]
Success(v) == [ok |-> TRUE, v |-> v]

NewDecoder(buf) == [buf |-> buf, pos |-> 0, err |-> FALSE, got |-> << >>]

Number(b) ==
  LET f[i \in 0 .. Len(b)] == IF i = 0 THEN 0 ELSE f[i - 1] * Base + b[i]
  IN  f[Len(b)]

readExact(d, n) ==
  IF d.pos + n > Len(d.buf) THEN Fail ELSE Success(SubSeq(d.buf, d.pos + 1, d.pos + n))

Step(d, field) ==
  LET name == field[1]
      size == IF field[2] = "var" THEN d.got[field[3]] ELSE field[3]
      b    == readExact(d, size)
      val  == IF field[2] = "u" THEN Number(b.v) ELSE b.v
  IN  CASE d.err -> d
        [] ~d.err /\ field[2] = "in" -> [d EXCEPT !.err = d.got[name] \notin field[3]]
        [] OTHER -> IF b.ok THEN [d EXCEPT !.pos = @ + size, !.got = (name :> val) @@ @]
                            ELSE [d EXCEPT !.err = TRUE]

\* The names of the fields that make up a value, read by these reads; with
\* exact, bytes that remain are an error.
Read(buf, reads, names, exact) ==
  LET d == FoldLeft(Step, NewDecoder(buf), reads)
  IN  IF d.err \/ (exact /\ d.pos # Len(buf)) THEN Fail ELSE Success(Restrict(d.got, names))

-----------------------------------------------------------------------------
(***************************************************************************)
(* The frame.                                                              *)
(***************************************************************************)
NewFrame(msgType, payload) ==
  [Version |-> Version, MsgType |-> msgType, Flags |-> 0, Payload |-> payload]

FrameEncode(f) ==
  WriteU8(f.Version) \o WriteU8(f.MsgType) \o WriteU8(f.Flags)
    \o WriteU32(Len(f.Payload)) \o f.Payload

\* Seeded fault: the length of the payload is not limited.
FrameDecodeUnlimited(buf) ==
  Read(buf,
       << <<"Version", "u", 1>>, <<"Version", "in", {Version}>>, <<"MsgType", "u", 1>>,
          <<"Flags", "u", 1>>, <<"len", "u", W32>>, <<"Payload", "var", "len">> >>,
       {"Version", "MsgType", "Flags", "Payload"}, FALSE)

FrameDecode(buf) ==
  Read(buf,
       << <<"Version", "u", 1>>, <<"Version", "in", {Version}>>, <<"MsgType", "u", 1>>,
          <<"Flags", "u", 1>>, <<"len", "u", W32>>, <<"len", "in", 0 .. MaxFramePayload>>,
          <<"Payload", "var", "len">> >>,
       {"Version", "MsgType", "Flags", "Payload"}, FALSE)

(***************************************************************************)
(* Application messages.  The limit on the payload is the reader's alone.  *)
(***************************************************************************)
MessageEncode(m) ==
  WriteU32(m.ChannelID) \o WriteU32(m.Seq) \o WriteU16(m.MsgType)
    \o WriteU32(Len(m.Payload)) \o m.Payload

\* Seeded fault: the payload is whatever follows the header.
MessageDecodeRest(buf) ==
  LET p == Read(buf,
                << <<"ChannelID", "u", W32>>, <<"Seq", "u", W32>>, <<"MsgType", "u", W16>>,
                   <<"len", "u", W32>>, <<"len", "in", 0 .. MaxAppPayload>> >>,
                {"ChannelID", "Seq", "MsgType"}, FALSE)
  IN  IF p.ok THEN Success(("Payload" :> SubSeq(buf, 3 * W32 + W16 + 1, Len(buf))) @@ p.v)
              ELSE Fail

MessageDecode(buf) ==
  Read(buf,
       << <<"ChannelID", "u", W32>>, <<"Seq", "u", W32>>, <<"MsgType", "u", W16>>,
          <<"len", "u", W32>>, <<"len", "in", 0 .. MaxAppPayload>>,
          <<"Payload", "var", "len">> >>,
       {"ChannelID", "Seq", "MsgType", "Payload"}, FALSE)

AckToMessage(a, seq) ==
  [ChannelID |-> a.ChannelID, Seq |-> seq,
   MsgType |-> IF a.IsNak THEN AppTypeNak ELSE AppTypeAck, Payload |-> WriteU32(a.AckedSeq)]

AckFromMessage(m) ==
  LET p == Read(m.Payload, << <<"acked", "u", W32>> >>, {"acked"}, FALSE)
  IN  IF m.MsgType \notin {AppTypeAck, AppTypeNak} \/ ~p.ok
        THEN Fail
        ELSE Success([ChannelID |-> m.ChannelID, AckedSeq |-> p.v.acked,
                      IsNak |-> m.MsgType = AppTypeNak])

ChunkToMessage(c) ==
  [ChannelID |-> c.ChannelID, Seq |-> c.Seq, MsgType |-> AppTypeChunk,
   Payload |-> WriteU32(c.ChunkIndex) \o WriteU32(c.ChunkTotal)
                 \o WriteU32(Len(c.Payload)) \o c.Payload]

ChunkFromMessage(m) ==
  LET p == Read(m.Payload,
                << <<"ChunkIndex", "u", W32>>, <<"ChunkTotal", "u", W32>>,
                   <<"len", "u", W32>>, <<"Payload", "var", "len">> >>,
                {"ChunkIndex", "ChunkTotal", "Payload"}, FALSE)
  IN  IF m.MsgType # AppTypeChunk \/ ~p.ok
        THEN Fail
        ELSE Success([ChannelID |-> m.ChannelID, Seq |-> m.Seq] @@ p.v)
=============================================================================
