------------------------------ MODULE Framing -------------------------------
(***************************************************************************)
(* writeFrame and readFrame of transport/tcp/client.go over one direction  *)
(* of a TCP connection: a stream of bytes that arrives in pieces of any    *)
(* size and may end anywhere.  Several goroutines write: the one that      *)
(* sends records and the one that reads, which answers heartbeats.  The    *)
(* connection lets one Write at a time put its bytes into the stream.      *)
(***************************************************************************)
EXTENDS Codec

CONSTANTS
  Writers,    \* goroutines that call writeFrame
  Frames,     \* frames they write
  Nil,        \* nobody
  MaxFrames   \* bound: frames written

HeaderLen == 3 + W32

Header == [Version : Byte, MsgType : Byte, Flags : Byte, len : Nat]

\* The length of a payload fits into its field.
ASSUME FramingAssumption ==
  /\ \A f \in Frames : /\ f \in [Version : Byte, MsgType : Byte, Flags : Byte, Payload : Seq(Byte)]
                       /\ Len(f.Payload) < ValuesOf(W32)
  /\ Nil \notin Frames \cup Writers \cup Header

VARIABLES
  calls,     \* for each writer, the buffers it still has to hand to Write
  fresh,     \* for each writer, the frame none of which is written yet, or Nil
  holder,    \* whose Write the connection is carrying out, or Nil
  pipe,      \* bytes on their way
  broken,    \* the connection has failed
  buffer,    \* bytes readFrame has got of the header or payload it waits for
  header,    \* the header it has read, or Nil
  failed,    \* readFrame returned an error
  written,   \* history: frames in the order their first bytes were written
  read       \* history: frames readFrame returned

streamVars == <<calls, fresh, holder, pipe, broken, buffer, header, failed, written, read>>

StreamInit ==
  /\ calls = [w \in Writers |-> << >>]
  /\ fresh = [w \in Writers |-> Nil]
  /\ holder = Nil
  /\ pipe = << >>
  /\ broken = FALSE
  /\ buffer = << >>
  /\ header = Nil
  /\ failed = FALSE
  /\ written = << >>
  /\ read = << >>

-----------------------------------------------------------------------------
(***************************************************************************)
(* Writing.                                                                *)
(***************************************************************************)
\* Seeded fault: header and payload are written one after the other.
BuffersTwo(f) ==
  <<SubSeq(FrameEncode(f), 1, HeaderLen), SubSeq(FrameEncode(f), HeaderLen + 1, Len(FrameEncode(f)))>>

\* The buffers writeFrame hands to Write: the encoded frame as a whole.
Buffers(f) == <<FrameEncode(f)>>

writeFrame(w, f) ==
  /\ calls[w] = << >>
  /\ ~broken
  /\ Len(written) + Cardinality({x \in Writers : fresh[x] # Nil}) < MaxFrames
  /\ calls' = [calls EXCEPT ![w] = Buffers(f)]
  /\ fresh' = [fresh EXCEPT ![w] = f]
  /\ UNCHANGED <<holder, pipe, broken, buffer, header, failed, written, read>>

\* Write begins; nobody else's is under way.
StartWrite(w) ==
  /\ calls[w] # << >>
  /\ holder = Nil
  /\ holder' = w
  /\ written' = IF fresh[w] = Nil THEN written ELSE Append(written, fresh[w])
  /\ fresh' = [fresh EXCEPT ![w] = Nil]
  /\ UNCHANGED <<calls, pipe, broken, buffer, header, failed, read>>

\* The stream takes some of the bytes; the last of them ends the Write.
WriteSome(w, n) ==
  LET rest == SubSeq(calls[w][1], n + 1, Len(calls[w][1]))
  IN  /\ holder = w
      /\ ~broken
      /\ n <= Len(calls[w][1])
      /\ pipe' = pipe \o SubSeq(calls[w][1], 1, n)
      /\ calls' = [calls EXCEPT ![w] = IF rest = << >> THEN Tail(@) ELSE <<rest>> \o Tail(@)]
      /\ holder' = IF rest = << >> THEN Nil ELSE w
      /\ UNCHANGED <<fresh, broken, buffer, header, failed, written, read>>

\* The connection fails: a part of what is on its way is lost, and every
\* Write from now on returns an error.
Break ==
  /\ ~broken
  /\ broken' = TRUE
  /\ \E n \in 0 .. Len(pipe) : pipe' = SubSeq(pipe, 1, n)
  /\ calls' = [w \in Writers |-> << >>]
  /\ fresh' = [w \in Writers |-> Nil]
  /\ holder' = Nil
  /\ UNCHANGED <<buffer, header, failed, written, read>>

-----------------------------------------------------------------------------
(***************************************************************************)
(* Reading.                                                                *)
(***************************************************************************)
\* The header as readFrame decodes it: no version and no limit is checked.
ReadHeader(buf) ==
  [Version |-> buf[1], MsgType |-> buf[2], Flags |-> buf[3],
   len |-> Number(SubSeq(buf, 4, HeaderLen))]

Wanted == IF header = Nil THEN HeaderLen ELSE header.len

\* io.ReadFull gets another piece.
ReadSome(n) ==
  /\ ~failed
  /\ n <= Len(pipe)
  /\ Len(buffer) + n <= Wanted
  /\ buffer' = buffer \o SubSeq(pipe, 1, n)
  /\ pipe' = SubSeq(pipe, n + 1, Len(pipe))
  /\ UNCHANGED <<calls, fresh, holder, broken, header, failed, written, read>>

\* Seeded fault: a frame without payload is waited for.
FullNotEmpty == Len(buffer) = Wanted /\ buffer # << >>

\* io.ReadFull returns when it has all it was asked for.
Full == Len(buffer) = Wanted

GotHeader ==
  /\ ~failed
  /\ header = Nil
  /\ Full
  /\ header' = ReadHeader(buffer)
  /\ buffer' = << >>
  /\ UNCHANGED <<calls, fresh, holder, pipe, broken, failed, written, read>>

GotPayload ==
  /\ ~failed
  /\ header # Nil
  /\ Full
  /\ read' = Append(read, [Version |-> header.Version, MsgType |-> header.MsgType,
                           Flags |-> header.Flags, Payload |-> buffer])
  /\ header' = Nil
  /\ buffer' = << >>
  /\ UNCHANGED <<calls, fresh, holder, pipe, broken, failed, written>>

\* Nothing comes any more: io.ReadFull returns EOF or another error.
ReadFails ==
  /\ ~failed
  /\ broken
  /\ pipe = << >>
  /\ ~Full
  /\ failed' = TRUE
  /\ UNCHANGED <<calls, fresh, holder, pipe, broken, buffer, header, written, read>>

Reading ==
  \/ \E n \in 1 .. Len(pipe) : ReadSome(n)
  \/ GotHeader
  \/ GotPayload
  \/ ReadFails

StreamNext ==
  \/ \E w \in Writers :
       \/ \E f \in Frames : writeFrame(w, f)
       \/ StartWrite(w)
       \/ \E n \in 1 .. HeaderLen + MaxFramePayload : WriteSome(w, n)
  \/ Break
  \/ Reading

StreamSpec == StreamInit /\ [][StreamNext]_streamVars

\* The connection carries on every Write it has begun and begins every one it
\* was given; the reader reads on.
StreamFairness ==
  /\ \A w \in Writers :
       /\ SF_streamVars(StartWrite(w))
       /\ WF_streamVars(\E n \in 1 .. HeaderLen + MaxFramePayload : WriteSome(w, n))
  /\ WF_streamVars(Reading)

StreamLiveSpec == StreamSpec /\ StreamFairness
-----------------------------------------------------------------------------
\* readFrame returns the frames that were written, whole and in their order,
\* whatever pieces the stream comes in, wherever it ends, and although two
\* goroutines write (client.go:351, 378): a failure never yields a part of a
\* frame, and bytes of two frames are never mixed.
ReadAsWritten == IsPrefix(read, written)

\* While the connection lives every frame that was written is read.
AllRead ==
  \A i \in 1 .. MaxFrames : Len(written) >= i ~> Len(read) >= i \/ broken
=============================================================================
