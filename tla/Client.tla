------------------------------- MODULE Client -------------------------------
(***************************************************************************)
(* transport/tcp/client.go once it has a session, composed with Session,   *)
(* with the router of transport/router/router.go and with the Messenger    *)
(* and the Inbox of app/app.go.  One goroutine sends messages, another     *)
(* calls ReadEncrypted and dispatches what it returns; both may write      *)
(* heartbeats to the connection.  A step is what runs between two points   *)
(* at which another goroutine or the peer may come in between: the sealing *)
(* of a frame, the write, the look at the clock, a read.                   *)
(*                                                                         *)
(* The client is the initiator.  The peer is external: it numbers its      *)
(* messages and seals its frames as this code does, sends what it likes    *)
(* besides, and reads independently of what it writes.  The connection     *)
(* holds Capacity frames each way; a write waits while it is full.         *)
(***************************************************************************)
EXTENDS Session

CONSTANTS
  MsgHeartbeat,        \* frame.MsgHeartbeat, 3
  MsgAppMessage,       \* app.MsgAppMessage
  Channels,            \* channels in use
  Garbage,             \* a payload that is no app message
  HeartbeatInterval,   \* heartbeatInterval in ticks
  Capacity,            \* frames in flight in one direction
  Routers,             \* the handlers a router may start with
  LateHandlers,        \* the types whose handler the owner may add later
  PlainTypes,          \* the types of frames the peer may leave unsealed
  MaxPlain             \* bound: frames the peer writes without sealing them

ASSUME ClientAssumption ==
  /\ {MsgHeartbeat, MsgAppMessage} \subseteq MsgTypes
  /\ MsgHeartbeat # MsgAppMessage
  /\ Payloads = [channel : Channels, seq : 0 .. MaxUint32] \cup {Garbage}
  /\ Garbage \notin [channel : Channels, seq : 0 .. MaxUint32]
  /\ {HeartbeatInterval, Capacity, MaxPlain} \subseteq Nat
  /\ HeartbeatInterval <= MaxClock
  /\ Routers \subseteq SUBSET MsgTypes
  /\ LateHandlers \subseteq MsgTypes
  /\ PlainTypes \subseteq MsgTypes
  /\ SentTypes = MsgTypes
  /\ Senders = Roles
  /\ Receivers = Roles

VARIABLES
  stream,     \* the frames each end has written that are still under way
  broken,     \* the connection has failed, or was closed
  pc,         \* where the two goroutines of the client are
  beat,       \* time since Client.LastHeartbeatSent
  handlers,   \* FrameRouter.handlers: the types that have one
  nextSeq,    \* Messenger.nextSeq of each end
  inbox,      \* the queue of the client's Inbox
  returned,   \* history: the frames each end got out of its session, in order
  popped,     \* history: the messages taken from the inbox, in order
  plain       \* history: number of frames the peer wrote unsealed

application == <<handlers, nextSeq, inbox, popped>>
clientVars == <<vars, stream, broken, pc, beat, application, returned, plain>>

me == "initiator"
peer == "responder"

\* The constructors of FrameRouter.
New == {}
WithDefaults == New \cup {MsgHeartbeat}
WithAppDefaults == WithDefaults \cup {MsgAppMessage}

ClientInit ==
  /\ Init
  /\ stream = [r \in Roles |-> << >>]
  /\ broken = FALSE
  /\ pc = [sender |-> "idle", reader |-> "idle"]
  /\ beat = 0
  /\ handlers \in Routers
  /\ nextSeq = [r \in Roles |-> [c \in Channels |-> 0]]
  /\ inbox = << >>
  /\ returned = [r \in Roles |-> << >>]
  /\ popped = << >>
  /\ plain = 0

-----------------------------------------------------------------------------
Goto(g, place) == pc' = [pc EXCEPT ![g] = place]

HasRoom(r) == ~broken /\ Len(stream[r]) < Capacity

Write(r, f) == stream' = [stream EXCEPT ![r] = Append(@, f)]

Heartbeat == crypto!NewFrame(MsgHeartbeat, Garbage)

\* The frame that record f opens to: DecryptFrame clears the flag.
Opened(f) == crypto!NewFrame(f.msgType, f.payload.plain)

Message(c, s) == [channel |-> c, seq |-> s]

\* Seeded fault: the counter stops at its largest value.
AllocSaturates(n) == IF n < MaxUint32 THEN n + 1 ELSE n

\* The counter after allocSeq.
SeqAfter(n) == (n + 1) % (MaxUint32 + 1)

allocSeq(r, c) == nextSeq' = [nextSeq EXCEPT ![r][c] = SeqAfter(@)]

\* Messenger.BuildFrame, together with allocSeq.
BuiltFrame(r, c) == crypto!NewFrame(MsgAppMessage, Message(c, nextSeq[r][c]))

-----------------------------------------------------------------------------
(***************************************************************************)
(* Sending.                                                                *)
(***************************************************************************)
\* BuildFrame and SendEncrypted as far as the record.
SendEncrypted(c) ==
  /\ pc.sender = "idle"
  /\ EncryptFrame(me, BuiltFrame(me, c))
  /\ allocSeq(me, c)
  /\ Goto("sender", "write")
  /\ UNCHANGED <<stream, broken, beat, handlers, inbox, returned, popped, plain>>

\* EncryptFrame refuses: the message's number is used up all the same.
SendRefused(c) ==
  /\ pc.sender = "idle"
  /\ ~CanSeal(me, BuiltFrame(me, c))
  /\ allocSeq(me, c)
  /\ UNCHANGED <<vars, stream, broken, pc, beat, handlers, inbox, returned, popped, plain>>

WriteRecord ==
  /\ pc.sender = "write"
  /\ HasRoom(me)
  /\ Write(me, sent[me][Len(sent[me])])
  /\ Goto("sender", "beat")
  /\ UNCHANGED <<vars, broken, beat, application, returned, plain>>

\* A write to a broken connection is an error, or is lost unnoticed.
WriteRecordFails ==
  /\ pc.sender = "write"
  /\ broken
  /\ \E place \in {"idle", "beat"} : Goto("sender", place)
  /\ UNCHANGED <<vars, stream, broken, beat, application, returned, plain>>

-----------------------------------------------------------------------------
(***************************************************************************)
(* MaybeSendHeartbeat, at the end of SendEncrypted and in the loop of      *)
(* ReadEncrypted, which drops its error.                                   *)
(***************************************************************************)
AfterBeat(g) == IF g = "sender" THEN "idle" ELSE "read"

CheckBeat(g) ==
  /\ pc[g] = "beat"
  /\ Goto(g, IF beat < HeartbeatInterval THEN AfterBeat(g) ELSE "writeBeat")
  /\ UNCHANGED <<vars, stream, broken, beat, application, returned, plain>>

WriteBeat(g) ==
  /\ pc[g] = "writeBeat"
  /\ HasRoom(me)
  /\ Write(me, Heartbeat)
  /\ beat' = 0
  /\ Goto(g, AfterBeat(g))
  /\ UNCHANGED <<vars, broken, application, returned, plain>>

WriteBeatFails(g) ==
  /\ pc[g] = "writeBeat"
  /\ broken
  /\ beat' \in {beat, 0}
  /\ Goto(g, AfterBeat(g))
  /\ UNCHANGED <<vars, stream, broken, application, returned, plain>>

-----------------------------------------------------------------------------
(***************************************************************************)
(* Receiving.                                                              *)
(***************************************************************************)
CallRead ==
  /\ pc.reader = "idle"
  /\ Goto("reader", "read")
  /\ UNCHANGED <<vars, stream, broken, beat, application, returned, plain>>

ReadFails ==
  /\ pc.reader = "read"
  /\ broken
  /\ stream[peer] = << >>
  /\ Goto("reader", "idle")
  /\ UNCHANGED <<vars, stream, broken, beat, application, returned, plain>>

\* readFrame returns a frame to ReadEncrypted.
readFrame ==
  /\ pc.reader = "read"
  /\ stream[peer] # << >>
  /\ stream' = [stream EXCEPT ![peer] = Tail(@)]

raw == Head(stream[peer])

\* Seeded fault: a heartbeat counts as a record.
ReadHeartbeatCounts ==
  /\ readFrame
  /\ raw.msgType = MsgHeartbeat
  /\ rx' = [rx EXCEPT ![me].sequence = Increment(@)]
  /\ Goto("reader", "beat")
  /\ UNCHANGED <<tx, idle, sent, delivered, epochBytes,
                 broken, beat, application, returned, plain>>

\* A frame of the heartbeats' type goes to the router, sealed or not; where
\* there is no handler the error is dropped.
ReadHeartbeat ==
  /\ readFrame
  /\ raw.msgType = MsgHeartbeat
  /\ IF MsgHeartbeat \in handlers THEN Touch(me) ELSE UNCHANGED vars
  /\ Goto("reader", "beat")
  /\ UNCHANGED <<broken, beat, application, returned, plain>>

ReadRecord ==
  /\ readFrame
  /\ raw.msgType # MsgHeartbeat
  /\ DecryptFrame(me, raw)
  /\ returned' = [returned EXCEPT ![me] = Append(@, Opened(raw))]
  /\ Goto("reader", "dispatch")
  /\ UNCHANGED <<broken, beat, application, plain>>

\* Seeded fault: the error of DecryptFrame is dropped.
ReadUnopenedReturned ==
  /\ readFrame
  /\ raw.msgType # MsgHeartbeat
  /\ ~OpensInOrder(me, raw)
  /\ returned' = [returned EXCEPT ![me] = Append(@, crypto!NewFrame(raw.msgType, Garbage))]
  /\ Goto("reader", "dispatch")
  /\ UNCHANGED <<vars, broken, beat, application, plain>>

\* DecryptFrame refuses: ReadEncrypted returns the error, the frame is gone.
ReadUnopened ==
  /\ readFrame
  /\ raw.msgType # MsgHeartbeat
  /\ ~OpensInOrder(me, raw)
  /\ Goto("reader", "idle")
  /\ UNCHANGED <<vars, broken, beat, application, returned, plain>>

\* Dispatch of the frame that was returned.  AppMessageHandler pushes what
\* parses and touches the session; a handler of the owner's for another type
\* does neither.
Dispatch ==
  /\ pc.reader = "dispatch"
  /\ LET f == returned[me][Len(returned[me])]
     IN  IF f.msgType = MsgAppMessage /\ f.msgType \in handlers /\ f.payload # Garbage
           THEN inbox' = Append(inbox, f.payload) /\ Touch(me)
           ELSE UNCHANGED <<inbox, vars>>
  /\ Goto("reader", "idle")
  /\ UNCHANGED <<stream, broken, beat, handlers, nextSeq, returned, popped, plain>>

RegisterHandler(m) ==
  /\ pc.reader = "idle"
  /\ handlers' = handlers \cup {m}
  /\ UNCHANGED <<vars, stream, broken, pc, beat, nextSeq, inbox, returned, popped, plain>>

\* Messenger.TryRecv.
TryRecv ==
  /\ inbox # << >>
  /\ inbox' = Tail(inbox)
  /\ popped' = Append(popped, Head(inbox))
  /\ UNCHANGED <<vars, stream, broken, pc, beat, handlers, nextSeq, returned, plain>>

-----------------------------------------------------------------------------
(***************************************************************************)
(* The peer, the connection and the clock.                                 *)
(***************************************************************************)
PeerSends(f) ==
  /\ HasRoom(peer)
  /\ EncryptFrame(peer, f)
  /\ Write(peer, SealedFrame(peer, f))
  /\ UNCHANGED <<broken, pc, beat, handlers, inbox, popped, returned, plain>>

PeerSendsMessage(c) == PeerSends(BuiltFrame(peer, c)) /\ allocSeq(peer, c)

PeerSendsOther(m) == PeerSends(crypto!NewFrame(m, Garbage)) /\ UNCHANGED nextSeq

PeerWritesPlain(m) ==
  /\ plain < MaxPlain
  /\ plain' = plain + 1
  /\ HasRoom(peer)
  /\ Write(peer, crypto!NewFrame(m, Garbage))
  /\ UNCHANGED <<vars, broken, pc, beat, application, returned>>

PeerReads ==
  /\ stream[me] # << >>
  /\ stream' = [stream EXCEPT ![me] = Tail(@)]
  /\ LET f == Head(stream[me])
     IN  \/ /\ DecryptFrame(peer, f)
            /\ returned' = [returned EXCEPT ![peer] = Append(@, Opened(f))]
         \/ ~OpensInOrder(peer, f) /\ UNCHANGED <<vars, returned>>
  /\ UNCHANGED <<broken, pc, beat, application, plain>>

\* Close, or a failure: what is under way is lost from some point on.
Break ==
  /\ ~broken
  /\ broken' = TRUE
  /\ \E n \in [Roles -> 0 .. Capacity] :
       /\ \A r \in Roles : n[r] <= Len(stream[r])
       /\ stream' = [r \in Roles |-> SubSeq(stream[r], 1, n[r])]
  /\ UNCHANGED <<vars, pc, beat, application, returned, plain>>

ClientTick ==
  /\ Tick
  /\ beat' = Later(beat)
  /\ UNCHANGED <<stream, broken, pc, application, returned, plain>>

-----------------------------------------------------------------------------
Sending ==
  \/ WriteRecord
  \/ WriteRecordFails
  \/ CheckBeat("sender")
  \/ WriteBeat("sender")
  \/ WriteBeatFails("sender")

Receiving ==
  \/ CallRead
  \/ ReadHeartbeat
  \/ ReadRecord
  \/ ReadUnopened
  \/ ReadFails
  \/ Dispatch
  \/ CheckBeat("reader")
  \/ WriteBeat("reader")
  \/ WriteBeatFails("reader")

ClientNext ==
  \/ \E c \in Channels : SendEncrypted(c) \/ SendRefused(c) \/ PeerSendsMessage(c)
  \/ Sending
  \/ Receiving
  \/ \E m \in LateHandlers : RegisterHandler(m)
  \/ \E m \in MsgTypes : PeerSendsOther(m)
  \/ \E m \in PlainTypes : PeerWritesPlain(m)
  \/ TryRecv
  \/ PeerReads
  \/ Break
  \/ ClientTick

ClientSpec == ClientInit /\ [][ClientNext]_clientVars

\* A call that was made goes on, the owner reads again and again, and the
\* peer reads.
ClientLiveSpec ==
  /\ ClientSpec
  /\ WF_clientVars(Sending)
  /\ WF_clientVars(Receiving)
  /\ WF_clientVars(PeerReads)
-----------------------------------------------------------------------------
(***************************************************************************)
(* Properties.                                                             *)
(***************************************************************************)
OpenedFrames == [msgType : MsgTypes, flags : {{}}, payload : Payloads]
Messages == Payloads \ {Garbage}
Places == {"idle", "write", "beat", "writeBeat", "read", "dispatch"}

ClientTypeOK ==
  /\ stream \in [Roles -> Seq(SealedFrames \cup OpenedFrames)]
  /\ \A r \in Roles : Len(stream[r]) <= Capacity
  /\ broken \in BOOLEAN
  /\ pc \in [sender : Places, reader : Places]
  /\ beat \in 0 .. MaxClock
  /\ handlers \subseteq MsgTypes
  /\ nextSeq \in [Roles -> [Channels -> 0 .. MaxUint32]]
  /\ inbox \in Seq(Messages)
  /\ popped \in Seq(Messages)
  /\ returned \in [Roles -> Seq(OpenedFrames)]

\* The frames each end gets out of its session are those the other end sealed,
\* in their order and from the first on, without a gap: also when a write fails
\* after EncryptFrame has used up a number (client.go:320), when heartbeats of
\* two goroutines come in between, and when ReadEncrypted swallows a sealed
\* frame of type 3 (client.go:335), after which it returns nothing any more
\* rather than something out of order.
PrefixReturned ==
  \A r \in Roles :
    /\ Len(returned[r]) <= Len(sent[Peer(r)])
    /\ \A i \in DOMAIN returned[r] :
         /\ returned[r][i] = Opened(sent[Peer(r)][i])
         /\ r = me => returned[r][i].msgType # MsgHeartbeat

\* Of two messages of a channel with none of it in between, the second bears
\* the number after the first one's.
Consecutive(messages) ==
  \A i, j \in DOMAIN messages :
    /\ i < j
    /\ messages[i].channel = messages[j].channel
    /\ \A k \in i + 1 .. j - 1 : messages[k].channel # messages[j].channel
    => messages[j].seq = (messages[i].seq + 1) % (MaxUint32 + 1)

\* What the owner takes from the inbox, together with what is still there, is
\* on each channel numbered as the peer's Messenger counted (app.go:261), by
\* one more each time although the counter wraps, and whenever the handler for
\* app messages was registered; and so is what the peer gets from the client.
ChannelsInOrder ==
  /\ Consecutive(popped \o inbox)
  /\ Consecutive([i \in DOMAIN returned[peer] |-> returned[peer][i].payload])

\* The client changes its session (client.go:316, 336, 340; router.go:60, 69)
\* only by the session's own operations, so that what is shown of Session
\* holds of the client's.
UsesSession == Spec

\* A sealed frame of the heartbeats' type.
Swallowed == \E i \in DOMAIN sent[peer] : sent[peer][i].msgType = MsgHeartbeat

\* One end has got everything that the other has sealed so far.
CaughtUp(r) == Len(returned[r]) = Len(sent[Peer(r)])

\* Unless the connection breaks, or the peer seals a frame of type 3, whatever
\* one end seals the other gets in the end: the heartbeats that both goroutines
\* write, the reader from within ReadEncrypted (client.go:337), block no one
\* for good, although a write waits for room in the connection.
AllReturned ==
  /\ []<>(CaughtUp(me) \/ broken \/ Swallowed)
  /\ []<>(CaughtUp(peer) \/ broken)
=============================================================================
