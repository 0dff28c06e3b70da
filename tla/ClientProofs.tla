---------------------------- MODULE ClientProofs ----------------------------
(***************************************************************************)
(* Proofs about Client, for every capacity of the connection, every set of *)
(* channels, message types and handlers, and every bound.                  *)
(***************************************************************************)
EXTENDS Client, SessionProofs, SequenceTheorems

\* A frame that end r may have put on the connection: one that is not sealed,
\* or a record of r's.
MayWrite(r, f) == f \in OpenedFrames \/ \E j \in DOMAIN sent[r] : f = sent[r][j]

UnderWay == \A r \in Roles : \A i \in DOMAIN stream[r] : MayWrite(r, stream[r][i])

\* The records of end r bear the numbers from 0 on, since no one rekeys.
Numbered(r) ==
  /\ Len(sent[r]) <= MaxSends
  /\ tx[r].sequence = Len(sent[r])
  /\ \A i \in DOMAIN sent[r] : sent[r][i].payload.nonce.sequence = i - 1

SentNumbered == \A r \in Roles : Numbered(r)

\* The inbound counter counts the frames that were returned.
ReturnedCounted ==
  \A r \in Roles : rx[r].mode = "OrderedTCP" /\ rx[r].sequence = Len(returned[r])

\* A goroutine about to write a record, or to dispatch a frame, has one.
HasFrame ==
  /\ pc.sender = "write" => sent[me] # << >>
  /\ pc.reader = "dispatch" => returned[me] # << >>

ClientInv ==
  /\ TypeOK
  /\ ClientTypeOK
  /\ UnderWay
  /\ SentNumbered
  /\ ReturnedCounted
  /\ HasFrame
  /\ PrefixReturned

-----------------------------------------------------------------------------
(***************************************************************************)
(* Frames.                                                                 *)
(***************************************************************************)
\* The frames that are sealed, or sent without being sealed, are plain ones.
LEMMA PlainType ==
  ASSUME ClientTypeOK
  PROVE  /\ \A r \in Roles, c \in Channels : BuiltFrame(r, c) \in PlainFrames
         /\ \A m \in MsgTypes : crypto!NewFrame(m, Garbage) \in PlainFrames \cap OpenedFrames
         /\ Heartbeat \in OpenedFrames
<1>1. Garbage \in Payloads /\ MsgHeartbeat \in MsgTypes /\ MsgAppMessage \in MsgTypes
  BY ClientAssumption
<1>2. ASSUME NEW r \in Roles, NEW c \in Channels
      PROVE  BuiltFrame(r, c) \in PlainFrames
  <2>1. nextSeq[r][c] \in 0 .. MaxUint32
    BY DEF ClientTypeOK
  <2>2. Message(c, nextSeq[r][c]) \in Payloads
    BY <2>1, ClientAssumption DEF Message
  <2>. QED  BY <1>1, <2>2 DEF BuiltFrame, PlainFrames
<1>3. ASSUME NEW m \in MsgTypes
      PROVE  crypto!NewFrame(m, Garbage) \in PlainFrames \cap OpenedFrames
  <2>1. crypto!NewFrame(m, Garbage) \in PlainFrames
    BY <1>1 DEF PlainFrames
  <2>2. crypto!NewFrame(m, Garbage) \in OpenedFrames
    BY <1>1 DEF OpenedFrames, crypto!NewFrame
  <2>. QED  BY <2>1, <2>2
<1>. QED  BY <1>1, <1>2, <1>3 DEF Heartbeat

\* A frame that opens is a record of the end that wrote it, and opens to a
\* frame of its type.
LEMMA OpensRecord ==
  ASSUME ClientInv, NEW r \in Roles, NEW f, MayWrite(Peer(r), f), OpensInOrder(r, f)
  PROVE  /\ f \in Presented /\ f \in SealedFrames /\ Opened(f) \in OpenedFrames
         /\ Len(returned[r]) + 1 \in DOMAIN sent[Peer(r)]
         /\ f = sent[Peer(r)][Len(returned[r]) + 1]
<1>. DEFINE q == Peer(r)
<1>0. q \in Roles
  BY RoleFacts
<1>1. PICK j \in DOMAIN sent[q] : f = sent[q][j]
  BY DEF MayWrite, OpenedFrames, OpensInOrder, crypto!IsEncrypted
<1>2. sent[q] \in Seq(SealedFrames) /\ Len(sent[q]) <= MaxSends /\ Len(sent[q]) \in Nat
  BY <1>0 DEF ClientInv, TypeOK, SentNumbered, Numbered
<1>3. f \in SealedFrames /\ j \in 1 .. Len(sent[q])
  BY <1>1, <1>2
<1>4. f.msgType \in MsgTypes /\ f.payload.plain \in Payloads /\ f = [f EXCEPT !.msgType = f.msgType]
  BY <1>3 DEF SealedFrames
<1>5. f \in Presented
  <2>. DEFINE x == <<q, j, f.msgType>>
  <2>1. x \in Roles \X (1 .. MaxSends) \X MsgTypes /\ x[2] <= Len(sent[x[1]])
    BY <1>0, <1>2, <1>3, <1>4, SessionAssumption
  <2>2. f = [sent[x[1]][x[2]] EXCEPT !.msgType = x[3]]
    BY <1>1, <1>4
  <2>. QED  BY <2>1, <2>2 DEF Presented
<1>6. f.payload.nonce.sequence = rx[r].sequence
  <2>1. f.payload.nonce = [sessionID |-> SessionID, key |-> rx[r].key,
                           direction |-> rxDirection(r), sequence |-> rx[r].sequence]
    BY DEF OpensInOrder, OpensAs, crypto!Opens, crypto!DeriveNonce
  <2>. QED  BY <2>1
<1>7. f.payload.nonce.sequence = j - 1 /\ rx[r].sequence = Len(returned[r])
  BY <1>0, <1>1 DEF ClientInv, SentNumbered, Numbered, ReturnedCounted
<1>8. Len(returned[r]) \in Nat
  BY DEF ClientInv, ClientTypeOK
<1>9. j = Len(returned[r]) + 1
  <2>1. j \in Int
    BY <1>2, <1>3
  <2>2. j - 1 = Len(returned[r])
    BY <1>6, <1>7
  <2>. QED  BY <1>8, <2>1, <2>2
<1>10. Opened(f) \in OpenedFrames
  BY <1>4 DEF Opened, OpenedFrames, crypto!NewFrame
<1>. QED  BY <1>1, <1>3, <1>5, <1>9, <1>10

\* The first frame under way from an end is one it may have written.
LEMMA FirstUnderWay ==
  ASSUME ClientInv, NEW r \in Roles, stream[r] # << >>
  PROVE  /\ MayWrite(r, Head(stream[r]))
         /\ Tail(stream[r]) \in Seq(SealedFrames \cup OpenedFrames)
         /\ Len(Tail(stream[r])) = Len(stream[r]) - 1
         /\ \A i \in DOMAIN Tail(stream[r]) :
              i + 1 \in DOMAIN stream[r] /\ Tail(stream[r])[i] = stream[r][i + 1]
<1>1. stream[r] \in Seq(SealedFrames \cup OpenedFrames)
  BY DEF ClientInv, ClientTypeOK
<1>2. Head(stream[r]) = stream[r][1] /\ 1 \in DOMAIN stream[r]
  BY <1>1
<1>3. MayWrite(r, Head(stream[r]))
  BY <1>2 DEF ClientInv, UnderWay
<1>. QED  BY <1>1, <1>3

-----------------------------------------------------------------------------
(***************************************************************************)
(* What the steps of the client do to the session and to the connection.   *)
(***************************************************************************)
\* End r seals a frame.
Seals(r) ==
  /\ \E f \in PlainFrames : EncryptFrame(r, f)
  /\ UNCHANGED returned

\* End r reads the first frame under way to it, which opens.
Reads(r) ==
  LET f == Head(stream[Peer(r)])
  IN  /\ stream[Peer(r)] # << >>
      /\ DecryptFrame(r, f)
      /\ returned' = [returned EXCEPT ![r] = Append(@, Opened(f))]
      /\ r = me => f.msgType # MsgHeartbeat

\* Nothing is sealed or opened.
Rests ==
  /\ Tick \/ (\E r \in Roles : Touch(r)) \/ UNCHANGED vars
  /\ UNCHANGED returned

\* Each step does one of these.
LEMMA ClientSteps ==
  ASSUME ClientInv, [ClientNext]_clientVars
  PROVE  (\E r \in Roles : Seals(r) \/ Reads(r)) \/ Rests
<1>0. me \in Roles /\ peer \in Roles /\ Peer(me) = peer /\ Peer(peer) = me /\ me # peer
  BY DEF me, peer, Roles, Peer
<1>1. CASE UNCHANGED clientVars
  BY <1>1 DEF clientVars, Rests
<1>2. ASSUME NEW c \in Channels, SendEncrypted(c) \/ SendRefused(c) \/ PeerSendsMessage(c)
      PROVE  (\E r \in Roles : Seals(r)) \/ Rests
  <2>1. BuiltFrame(me, c) \in PlainFrames /\ BuiltFrame(peer, c) \in PlainFrames
    BY <1>0, PlainType DEF ClientInv
  <2>. QED  BY <1>0, <1>2, <2>1
            DEF SendEncrypted, SendRefused, PeerSendsMessage, PeerSends, Seals, Rests
<1>3. ASSUME NEW m \in MsgTypes, PeerSendsOther(m)
      PROVE  \E r \in Roles : Seals(r)
  <2>1. crypto!NewFrame(m, Garbage) \in PlainFrames
    BY PlainType DEF ClientInv
  <2>. QED  BY <1>0, <1>3, <2>1 DEF PeerSendsOther, PeerSends, Seals
<1>4. CASE ReadRecord
  <2>1. Reads(me)
    BY <1>0, <1>4 DEF ReadRecord, readFrame, raw, Reads
  <2>. QED  BY <1>0, <2>1
<1>5. CASE PeerReads
  <2>1. Reads(peer) \/ Rests
    BY <1>0, <1>5 DEF PeerReads, Reads, Rests
  <2>. QED  BY <1>0, <2>1
<1>6. CASE ReadHeartbeat \/ Dispatch
  BY <1>0, <1>6 DEF ReadHeartbeat, Dispatch, Rests
<1>7. CASE ClientTick
  BY <1>7 DEF ClientTick, Rests
<1>8. CASE Sending
  BY <1>8 DEF Sending, WriteRecord, WriteRecordFails, CheckBeat, WriteBeat, WriteBeatFails, Rests
<1>9. CASE CallRead \/ ReadUnopened \/ ReadFails \/ CheckBeat("reader")
           \/ WriteBeat("reader") \/ WriteBeatFails("reader")
  BY <1>9 DEF CallRead, ReadUnopened, ReadFails, CheckBeat, WriteBeat, WriteBeatFails, Rests
<1>10. ASSUME NEW m, RegisterHandler(m) \/ PeerWritesPlain(m)
       PROVE  Rests
  BY <1>10 DEF RegisterHandler, PeerWritesPlain, Rests
<1>11. CASE TryRecv \/ Break
  BY <1>11 DEF TryRecv, Break, Rests
<1>. QED  BY <1>1, <1>2, <1>3, <1>4, <1>5, <1>6, <1>7, <1>8, <1>9, <1>10, <1>11
          DEF ClientNext, Receiving

\* So each is a step of the session, or leaves it alone.
LEMMA SessionStep ==
  ASSUME ClientInv, [ClientNext]_clientVars
  PROVE  [Next]_vars
<1>1. ASSUME NEW r \in Roles, Seals(r)
      PROVE  Next
  <2>1. SentFrames = PlainFrames
    BY ClientAssumption DEF SentFrames, PlainFrames, crypto!NewFrame
  <2>. QED  BY <1>1, <2>1, ClientAssumption DEF Seals, Next
<1>2. ASSUME NEW r \in Roles, Reads(r)
      PROVE  Next
  <2>. DEFINE f == Head(stream[Peer(r)])
  <2>1. MayWrite(Peer(r), f) /\ OpensInOrder(r, f)
    BY <1>2, RoleFacts, FirstUnderWay DEF Reads, DecryptFrame
  <2>2. f \in Presented /\ DecryptFrame(r, f)
    BY <1>2, <2>1, OpensRecord DEF Reads
  <2>. QED  BY <2>2, ClientAssumption DEF Next
<1>3. CASE Rests
  BY <1>3 DEF Rests, Next
<1>. QED  BY <1>1, <1>2, <1>3, ClientSteps

\* The client's session is a session.
LEMMA SessionKept ==
  ASSUME ClientInv, [ClientNext]_clientVars
  PROVE  /\ TypeOK'
         /\ \A r \in Roles : \A i \in DOMAIN sent[r] :
              i \in DOMAIN sent'[r] /\ sent'[r][i] = sent[r][i]
<1>1. [Next]_vars
  BY SessionStep
<1>2. TypeOK
  BY DEF ClientInv
<1>. QED  BY <1>1, <1>2, NextType, SentGrows

-----------------------------------------------------------------------------
(***************************************************************************)
(* The numbers of the records, and the frames that are returned.           *)
(***************************************************************************)
\* Sealing numbers the new record; nothing else touches the outbound counter.
LEMMA NumberedStep ==
  ASSUME ClientInv, [ClientNext]_clientVars
  PROVE  SentNumbered'
<1>. SUFFICES ASSUME NEW q \in Roles PROVE Numbered(q)'
  BY DEF SentNumbered
<1>0. /\ TypeOK /\ Numbered(q) /\ tx \in [Roles -> TxStates]
      /\ sent \in [Roles -> Seq(SealedFrames)] /\ sent[q] \in Seq(SealedFrames)
  BY DEF ClientInv, SentNumbered, TypeOK
<1>1. ASSUME sent'[q] = sent[q], tx'[q].sequence = tx[q].sequence
      PROVE  Numbered(q)'
  BY <1>0, <1>1 DEF Numbered
<1>2. ASSUME NEW r \in Roles, NEW f \in PlainFrames, EncryptFrame(r, f)
      PROVE  Numbered(q)'
  <2>1. CASE r # q
    <3>1. sent'[q] = sent[q] /\ tx'[q] = tx[q]
      BY <1>0, <1>2, <2>1 DEF EncryptFrame
    <3>. QED  BY <1>1, <3>1
  <2>2. CASE r = q
    <3>. DEFINE g == SealedFrame(q, f)  n == Len(sent[q])
    <3>1. g \in SealedFrames /\ g.payload.nonce.sequence = tx[q].sequence
      BY <1>0, SealedType
    <3>2. sent'[q] = Append(sent[q], g) /\ n < MaxSends
      BY <1>0, <1>2, <2>2 DEF EncryptFrame
    <3>3. tx'[q].sequence = n + 1
      BY <1>0, <1>2, <2>2, SealAdvances DEF Numbered
    <3>4. g.payload.nonce.sequence = n
      BY <1>0, <3>1 DEF Numbered
    <3>. HIDE DEF g
    <3>5. n \in Nat /\ Len(sent'[q]) = n + 1 /\ DOMAIN sent'[q] = 1 .. n + 1
      BY <1>0, <3>1, <3>2
    <3>6. ASSUME NEW i \in DOMAIN sent'[q]
          PROVE  sent'[q][i].payload.nonce.sequence = i - 1
      <4>1. CASE i \in 1 .. n
        <5>1. sent'[q][i] = sent[q][i] /\ i \in DOMAIN sent[q]
          BY <1>0, <3>1, <3>2, <4>1
        <5>. QED  BY <1>0, <5>1 DEF Numbered
      <4>2. CASE i = n + 1
        <5>1. sent'[q][i] = g
          BY <1>0, <3>1, <3>2, <4>2
        <5>2. (n + 1) - 1 = n
          BY <3>5
        <5>. HIDE DEF n
        <5>. QED  BY <3>4, <4>2, <5>1, <5>2
      <4>. QED  BY <3>5, <4>1, <4>2
    <3>7. Len(sent'[q]) <= MaxSends /\ tx'[q].sequence = Len(sent'[q])
      BY <3>2, <3>3, <3>5, SessionAssumption
    <3>. QED  BY <3>6, <3>7 DEF Numbered
  <2>. QED  BY <2>1, <2>2
<1>3. ASSUME NEW r \in Roles, Reads(r)
      PROVE  Numbered(q)'
  BY <1>1, <1>3 DEF Reads, DecryptFrame
<1>4. CASE Rests
  <2>1. sent' = sent /\ tx'[q].sequence = tx[q].sequence
    BY <1>0, <1>4 DEF Rests, Tick, Touch, vars, TxStates
  <2>. QED  BY <1>1, <2>1
<1>. QED  BY <1>2, <1>3, <1>4, ClientSteps DEF Seals

\* Reading a frame that opens counts it; nothing else touches the inbound
\* counter or the frames returned.
LEMMA ReturnedSteps ==
  ASSUME ClientInv, [ClientNext]_clientVars
  PROVE  (\E r \in Roles : Reads(r)) \/ UNCHANGED <<rx, returned>>
BY ClientSteps DEF Seals, EncryptFrame, Rests, Tick, Touch, vars

LEMMA CountedStep ==
  ASSUME ClientInv, [ClientNext]_clientVars
  PROVE  ReturnedCounted' /\ returned' \in [Roles -> Seq(OpenedFrames)]
<1>0. /\ TypeOK /\ rx \in [Roles -> RxStates] /\ ReturnedCounted
      /\ returned \in [Roles -> Seq(OpenedFrames)]
  BY DEF ClientInv, TypeOK, ClientTypeOK
<1>1. CASE UNCHANGED <<rx, returned>>
  BY <1>0, <1>1 DEF ReturnedCounted
<1>2. ASSUME NEW r \in Roles, Reads(r)
      PROVE  ReturnedCounted' /\ returned' \in [Roles -> Seq(OpenedFrames)]
  <2>. DEFINE f == Head(stream[Peer(r)])
  <2>1. MayWrite(Peer(r), f) /\ OpensInOrder(r, f)
    BY <1>2, RoleFacts, FirstUnderWay DEF Reads, DecryptFrame
  <2>2. Opened(f) \in OpenedFrames
    BY <2>1, OpensRecord
  <2>3. returned' = [returned EXCEPT ![r] = Append(returned[r], Opened(f))]
    BY <1>2 DEF Reads
  <2>. DEFINE g == Opened(f)
  <2>. HIDE DEF g
  <2>4. rx' = [rx EXCEPT ![r] = [rx[r] EXCEPT !.sequence = Increment(rx[r].sequence)]]
    BY <1>0, <1>2 DEF Reads, DecryptFrame
  <2>5. returned' \in [Roles -> Seq(OpenedFrames)] /\ Len(returned'[r]) = Len(returned[r]) + 1
    BY <1>0, <2>2, <2>3 DEF g
  <2>6. rx'[r].mode = rx[r].mode /\ rx'[r].sequence = rx[r].sequence + 1
    <3>1. Increment(rx[r].sequence) = rx[r].sequence + 1
      BY <1>0, <2>1, IncrementFacts, RxUpdates DEF OpensInOrder
    <3>. QED  BY <1>0, <2>4, <3>1 DEF RxStates
  <2>7. \A q \in Roles : q # r => rx'[q] = rx[q] /\ returned'[q] = returned[q]
    BY <1>0, <2>3, <2>4
  <2>. QED  BY <1>0, <2>5, <2>6, <2>7 DEF ReturnedCounted
<1>. QED  BY <1>1, <1>2, ReturnedSteps

\* The frame returned is the record at the next place in the peer's order.
LEMMA PrefixStep ==
  ASSUME ClientInv, [ClientNext]_clientVars
  PROVE  PrefixReturned'
<1>. DEFINE Good(q, s, h) == h = Opened(s) /\ (q = me => h.msgType # MsgHeartbeat)
<1>. SUFFICES ASSUME NEW q \in Roles
              PROVE  /\ Len(returned'[q]) <= Len(sent'[Peer(q)])
                     /\ \A i \in DOMAIN returned'[q] :
                          Good(q, sent'[Peer(q)][i], returned'[q][i])
  BY DEF PrefixReturned, Peer, me, Opened, crypto!NewFrame
<1>0. /\ returned \in [Roles -> Seq(OpenedFrames)] /\ returned[q] \in Seq(OpenedFrames)
      /\ Peer(q) \in Roles /\ sent[Peer(q)] \in Seq(SealedFrames)
      /\ Len(returned[q]) <= Len(sent[Peer(q)])
      /\ \A i \in DOMAIN returned[q] : Good(q, sent[Peer(q)][i], returned[q][i])
  BY RoleFacts DEF ClientInv, TypeOK, ClientTypeOK, PrefixReturned
<1>. HIDE DEF Good
<1>1. sent'[Peer(q)] \in Seq(SealedFrames)
  BY <1>0, SessionKept DEF TypeOK
<1>2. \A i \in DOMAIN sent[Peer(q)] :
        i \in DOMAIN sent'[Peer(q)] /\ sent'[Peer(q)][i] = sent[Peer(q)][i]
  BY <1>0, SessionKept
<1>3. ASSUME NEW n \in Nat, n = 0 \/ n \in DOMAIN sent[Peer(q)]
      PROVE  n <= Len(sent'[Peer(q)])
  <2>1. n = 0 \/ n \in DOMAIN sent'[Peer(q)]
    BY <1>2, <1>3
  <2>. QED  BY <1>1, <2>1
<1>4. ASSUME NEW i \in DOMAIN returned[q]
      PROVE  Good(q, sent'[Peer(q)][i], returned[q][i])
  <2>1. i \in DOMAIN sent[Peer(q)]
    BY <1>0
  <2>. QED  BY <1>0, <1>2, <2>1
<1>5. CASE returned'[q] = returned[q]
  <2>1. Len(returned[q]) \in Nat
        /\ (Len(returned[q]) = 0 \/ Len(returned[q]) \in DOMAIN sent[Peer(q)])
    BY <1>0
  <2>2. Len(returned[q]) <= Len(sent'[Peer(q)])
    BY <1>3, <2>1
  <2>. QED  BY <1>4, <1>5, <2>2
<1>6. ASSUME Reads(q)
      PROVE  /\ Len(returned'[q]) <= Len(sent'[Peer(q)])
             /\ \A i \in DOMAIN returned'[q] :
                  Good(q, sent'[Peer(q)][i], returned'[q][i])
  <2>. DEFINE f == Head(stream[Peer(q)])  n == Len(returned[q]) + 1  h == Opened(f)
  <2>1. MayWrite(Peer(q), f) /\ OpensInOrder(q, f)
    BY <1>6, RoleFacts, FirstUnderWay DEF Reads, DecryptFrame
  <2>2. f \in SealedFrames /\ n \in DOMAIN sent[Peer(q)] /\ f = sent[Peer(q)][n]
        /\ h \in OpenedFrames
    BY <2>1, OpensRecord
  <2>3. Good(q, f, h)
    BY <1>6 DEF Reads, Good, Opened, crypto!NewFrame
  <2>4. returned'[q] = Append(returned[q], h)
    BY <1>0, <1>6 DEF Reads
  <2>. HIDE DEF f, h
  <2>5. n \in Nat /\ Len(returned'[q]) = n /\ DOMAIN returned'[q] = DOMAIN returned[q] \cup {n}
    BY <1>0, <2>2, <2>4
  <2>6. returned'[q][n] = h /\ \A i \in DOMAIN returned[q] : returned'[q][i] = returned[q][i]
    BY <1>0, <2>2, <2>4
  <2>7. Good(q, sent'[Peer(q)][n], returned'[q][n])
    BY <1>2, <2>2, <2>3, <2>6
  <2>8. \A i \in DOMAIN returned[q] : Good(q, sent'[Peer(q)][i], returned'[q][i])
    BY <1>4, <2>6
  <2>9. n <= Len(sent'[Peer(q)])
    BY <1>3, <2>2, <2>5
  <2>. HIDE DEF n
  <2>. QED  BY <2>5, <2>7, <2>8, <2>9
<1>7. ASSUME NEW r \in Roles, Reads(r), r # q
      PROVE  returned'[q] = returned[q]
  BY <1>0, <1>7 DEF Reads
<1>. QED  BY <1>5, <1>6, <1>7, ReturnedSteps

-----------------------------------------------------------------------------
(***************************************************************************)
(* The frames under way.                                                   *)
(***************************************************************************)
StreamInv ==
  /\ stream \in [Roles -> Seq(SealedFrames \cup OpenedFrames)]
  /\ \A r \in Roles : Len(stream[r]) <= Capacity
  /\ UnderWay

\* The same after a step.
MayHaveWritten(r, f) == f \in OpenedFrames \/ \E j \in DOMAIN sent'[r] : f = sent'[r][j]

\* What an end may have written before a step it may have written after it.
LEMMA MayWriteKept ==
  ASSUME ClientInv, [ClientNext]_clientVars, NEW r \in Roles, NEW f, MayWrite(r, f)
  PROVE  MayHaveWritten(r, f)
BY SessionKept DEF MayWrite, MayHaveWritten

\* A step puts a frame on the connection, takes the first one off it, or cuts
\* the connection.
Written(r) ==
  /\ HasRoom(r)
  /\ \E f \in SealedFrames \cup OpenedFrames : MayHaveWritten(r, f) /\ Write(r, f)

Taken(r) ==
  /\ stream[r] # << >>
  /\ stream' = [stream EXCEPT ![r] = Tail(@)]

Cut ==
  \E n \in [Roles -> 0 .. Capacity] :
    /\ \A r \in Roles : n[r] <= Len(stream[r])
    /\ stream' = [r \in Roles |-> SubSeq(stream[r], 1, n[r])]

LEMMA StreamSteps ==
  ASSUME ClientInv, [ClientNext]_clientVars
  PROVE  (\E r \in Roles : Written(r) \/ Taken(r)) \/ Cut \/ UNCHANGED stream
<1>0. me \in Roles /\ peer \in Roles /\ ClientTypeOK /\ TypeOK
  BY DEF me, peer, Roles, ClientInv
<1>1. CASE WriteRecord
  <2>. DEFINE f == sent[me][Len(sent[me])]
  <2>1. sent[me] # << >> /\ sent[me] \in Seq(SealedFrames)
    BY <1>0, <1>1 DEF WriteRecord, ClientInv, HasFrame, TypeOK
  <2>2. f \in SealedFrames /\ Len(sent[me]) \in DOMAIN sent[me]
    BY <2>1
  <2>3. MayWrite(me, f)
    BY <2>2 DEF MayWrite
  <2>4. MayHaveWritten(me, f)
    BY <1>0, <2>3, MayWriteKept
  <2>5. HasRoom(me) /\ Write(me, f)
    BY <1>1 DEF WriteRecord
  <2>. QED  BY <1>0, <2>2, <2>4, <2>5 DEF Written
<1>2. ASSUME NEW g, WriteBeat(g)
      PROVE  Written(me)
  <2>1. Heartbeat \in OpenedFrames
    BY <1>0, PlainType
  <2>2. MayHaveWritten(me, Heartbeat)
    BY <2>1 DEF MayHaveWritten
  <2>. QED  BY <1>2, <2>1, <2>2 DEF WriteBeat, Written
<1>3. ASSUME NEW f \in PlainFrames, PeerSends(f)
      PROVE  Written(peer)
  <2>. DEFINE g == SealedFrame(peer, f)
  <2>1. g \in SealedFrames /\ sent[peer] \in Seq(SealedFrames) /\ sent \in [Roles -> Seq(SealedFrames)]
    BY <1>0, SealedType DEF TypeOK
  <2>2. sent' = [sent EXCEPT ![peer] = Append(sent[peer], g)] /\ HasRoom(peer) /\ Write(peer, g)
    BY <1>3 DEF PeerSends, EncryptFrame
  <2>. HIDE DEF g
  <2>3. sent'[peer] = Append(sent[peer], g)
    BY <1>0, <2>1, <2>2
  <2>4. Len(sent[peer]) + 1 \in DOMAIN sent'[peer] /\ sent'[peer][Len(sent[peer]) + 1] = g
    BY <2>1, <2>3
  <2>5. MayHaveWritten(peer, g)
    BY <2>4 DEF MayHaveWritten
  <2>. QED  BY <2>1, <2>2, <2>5 DEF Written
<1>4. ASSUME NEW c \in Channels, SendEncrypted(c) \/ SendRefused(c) \/ PeerSendsMessage(c)
      PROVE  Written(peer) \/ UNCHANGED stream
  <2>1. BuiltFrame(peer, c) \in PlainFrames
    BY <1>0, PlainType
  <2>. QED  BY <1>3, <1>4, <2>1 DEF SendEncrypted, SendRefused, PeerSendsMessage
<1>5. ASSUME NEW m \in MsgTypes, PeerSendsOther(m)
      PROVE  Written(peer)
  <2>1. crypto!NewFrame(m, Garbage) \in PlainFrames
    BY <1>0, PlainType
  <2>. QED  BY <1>3, <1>5, <2>1 DEF PeerSendsOther
<1>6. ASSUME NEW m \in PlainTypes, PeerWritesPlain(m)
      PROVE  Written(peer)
  <2>1. m \in MsgTypes
    BY ClientAssumption
  <2>2. crypto!NewFrame(m, Garbage) \in OpenedFrames
    BY <1>0, <2>1, PlainType
  <2>3. MayHaveWritten(peer, crypto!NewFrame(m, Garbage))
    BY <2>2 DEF MayHaveWritten
  <2>. QED  BY <1>6, <2>2, <2>3 DEF PeerWritesPlain, Written
<1>7. CASE ReadHeartbeat \/ ReadRecord \/ ReadUnopened
  BY <1>0, <1>7 DEF ReadHeartbeat, ReadRecord, ReadUnopened, readFrame, Taken
<1>8. CASE PeerReads
  BY <1>0, <1>8 DEF PeerReads, Taken
<1>9. CASE Break
  BY <1>9 DEF Break, Cut
<1>10. CASE UNCHANGED clientVars \/ ClientTick \/ TryRecv
  BY <1>10 DEF clientVars, ClientTick, TryRecv
<1>11. CASE Sending
  BY <1>0, <1>1, <1>2, <1>11 DEF Sending, WriteRecordFails, CheckBeat, WriteBeatFails
<1>12. CASE CallRead \/ ReadFails \/ Dispatch \/ CheckBeat("reader")
            \/ WriteBeat("reader") \/ WriteBeatFails("reader")
  BY <1>0, <1>2, <1>12 DEF CallRead, ReadFails, Dispatch, CheckBeat, WriteBeatFails
<1>13. ASSUME NEW m, RegisterHandler(m)
       PROVE  UNCHANGED stream
  BY <1>13 DEF RegisterHandler
<1>. QED  BY <1>0, <1>4, <1>5, <1>6, <1>7, <1>8, <1>9, <1>10, <1>11, <1>12, <1>13
          DEF ClientNext, Receiving

LEMMA StreamStep ==
  ASSUME ClientInv, [ClientNext]_clientVars
  PROVE  StreamInv'
<1>. DEFINE Both == SealedFrames \cup OpenedFrames
            Fine(q, t) == /\ t \in Seq(Both)
                          /\ Len(t) <= Capacity
                          /\ \A i \in DOMAIN t : MayHaveWritten(q, t[i])
<1>. SUFFICES stream' \in [Roles -> Seq(Both)] /\ \A q \in Roles : Fine(q, stream'[q])
  BY DEF StreamInv, UnderWay, MayWrite, MayHaveWritten, SealedFrames, OpenedFrames, Keys, Uint64
<1>0. stream \in [Roles -> Seq(Both)] /\ Capacity \in Nat
  BY ClientAssumption DEF ClientInv, ClientTypeOK
<1>1. ASSUME NEW q \in Roles
      PROVE  Fine(q, stream[q])
  <2>1. Len(stream[q]) <= Capacity /\ \A i \in DOMAIN stream[q] : MayWrite(q, stream[q][i])
    BY DEF ClientInv, ClientTypeOK, UnderWay
  <2>. QED  BY <1>0, <2>1, MayWriteKept
<1>. HIDE DEF Both
<1>2. ASSUME NEW r \in Roles, Taken(r)
      PROVE  stream' \in [Roles -> Seq(Both)] /\ \A q \in Roles : Fine(q, stream'[q])
  <2>. DEFINE t == Tail(stream[r])
  <2>1. stream' = [stream EXCEPT ![r] = t]
    BY <1>2 DEF Taken
  <2>2. /\ t \in Seq(Both) /\ Len(t) = Len(stream[r]) - 1
        /\ \A i \in DOMAIN t : i + 1 \in DOMAIN stream[r] /\ t[i] = stream[r][i + 1]
    BY <1>2, FirstUnderWay DEF Taken, Both
  <2>. HIDE DEF t
  <2>3. Len(stream[r]) \in Nat /\ Len(stream[r]) <= Capacity
    BY <1>0, <1>1
  <2>4. Len(t) <= Capacity
    BY <1>0, <2>2, <2>3
  <2>5. \A i \in DOMAIN t : MayHaveWritten(r, t[i])
    BY <1>1, <2>2
  <2>6. Fine(r, t)
    BY <2>2, <2>4, <2>5
  <2>. HIDE DEF Fine
  <2>. QED  BY <1>0, <1>1, <2>1, <2>2, <2>6
<1>3. ASSUME NEW r \in Roles, Written(r)
      PROVE  stream' \in [Roles -> Seq(Both)] /\ \A q \in Roles : Fine(q, stream'[q])
  <2>1. PICK f \in Both : MayHaveWritten(r, f) /\ stream' = [stream EXCEPT ![r] = Append(@, f)]
    BY <1>3 DEF Written, Write, Both
  <2>. DEFINE t == Append(stream[r], f)
  <2>2. stream' = [stream EXCEPT ![r] = t]
    BY <2>1
  <2>3. stream[r] \in Seq(Both) /\ Len(stream[r]) < Capacity
    BY <1>0, <1>3 DEF Written, HasRoom
  <2>4. t \in Seq(Both) /\ Len(t) <= Capacity
    BY <1>0, <2>1, <2>3
  <2>5. ASSUME NEW i \in DOMAIN t
        PROVE  MayHaveWritten(r, t[i])
    <3>1. (i \in DOMAIN stream[r] /\ t[i] = stream[r][i]) \/ t[i] = f
      BY <2>1, <2>3
    <3>. HIDE DEF t
    <3>. QED  BY <1>1, <2>1, <3>1
  <2>. HIDE DEF t
  <2>6. Fine(r, t)
    BY <2>4, <2>5
  <2>. HIDE DEF Fine
  <2>. QED  BY <1>0, <1>1, <2>2, <2>4, <2>6
<1>4. ASSUME Cut
      PROVE  stream' \in [Roles -> Seq(Both)] /\ \A q \in Roles : Fine(q, stream'[q])
  <2>1. PICK n \in [Roles -> 0 .. Capacity] :
          /\ \A r \in Roles : n[r] <= Len(stream[r])
          /\ stream' = [r \in Roles |-> SubSeq(stream[r], 1, n[r])]
    BY <1>4 DEF Cut
  <2>2. ASSUME NEW q \in Roles
        PROVE  Fine(q, SubSeq(stream[q], 1, n[q]))
    <3>. DEFINE t == SubSeq(stream[q], 1, n[q])
    <3>1. stream[q] \in Seq(Both) /\ n[q] \in 0 .. Capacity /\ n[q] <= Len(stream[q])
      BY <1>0, <2>1
    <3>2. t \in Seq(Both) /\ Len(t) = n[q]
          /\ \A i \in 1 .. n[q] : i \in DOMAIN stream[q] /\ t[i] = stream[q][i]
      BY <1>0, <3>1
    <3>. HIDE DEF t
    <3>3. Len(t) <= Capacity /\ DOMAIN t = 1 .. n[q]
      BY <1>0, <3>1, <3>2
    <3>4. \A i \in DOMAIN t : MayHaveWritten(q, t[i])
      BY <1>1, <3>2, <3>3
    <3>5. Fine(q, t)
      BY <3>2, <3>3, <3>4
    <3>. QED  BY <3>5 DEF t
  <2>3. \A q \in Roles : stream'[q] = SubSeq(stream[q], 1, n[q])
    BY <2>1
  <2>4. \A q \in Roles : Fine(q, stream'[q])
    <3>. HIDE DEF Fine
    <3>. QED  BY <2>2, <2>3
  <2>5. stream' \in [Roles -> Seq(Both)]
    <3>1. \A q \in Roles : SubSeq(stream[q], 1, n[q]) \in Seq(Both)
      BY <2>2
    <3>. QED  BY <2>1, <3>1
  <2>. QED  BY <2>4, <2>5
<1>5. CASE UNCHANGED stream
  <2>. HIDE DEF Fine
  <2>. QED  BY <1>0, <1>1, <1>5
<1>. QED  BY <1>2, <1>3, <1>4, <1>5, StreamSteps

-----------------------------------------------------------------------------
(***************************************************************************)
(* The client's own variables.                                             *)
(***************************************************************************)
OwnTypes ==
  /\ broken \in BOOLEAN
  /\ beat \in 0 .. MaxClock
  /\ handlers \subseteq MsgTypes
  /\ nextSeq \in [Roles -> [Channels -> 0 .. MaxUint32]]
  /\ inbox \in Seq(Messages)
  /\ popped \in Seq(Messages)

PlaceInv ==
  /\ pc \in [sender : Places, reader : Places]
  /\ HasFrame

\* Taking a number of a Messenger leaves numbers.
LEMMA AllocType ==
  ASSUME ClientTypeOK, NEW r \in Roles, NEW c \in Channels, allocSeq(r, c)
  PROVE  nextSeq' \in [Roles -> [Channels -> 0 .. MaxUint32]]
<1>1. nextSeq \in [Roles -> [Channels -> 0 .. MaxUint32]] /\ nextSeq[r][c] \in 0 .. MaxUint32
  BY DEF ClientTypeOK
<1>2. SeqAfter(nextSeq[r][c]) \in 0 .. MaxUint32
  BY <1>1, WrapType DEF SeqAfter
<1>3. nextSeq' = [nextSeq EXCEPT ![r] = [nextSeq[r] EXCEPT ![c] = SeqAfter(nextSeq[r][c])]]
  BY <1>1 DEF allocSeq
<1>. QED  BY <1>1, <1>2, <1>3

LEMMA OwnStep ==
  ASSUME ClientInv, [ClientNext]_clientVars
  PROVE  OwnTypes'
<1>0. me \in Roles /\ peer \in Roles /\ ClientTypeOK /\ OwnTypes
  BY DEF me, peer, Roles, ClientInv, ClientTypeOK, OwnTypes
<1>1. ASSUME UNCHANGED <<broken, beat, handlers, nextSeq, inbox, popped>>
      PROVE  OwnTypes'
  BY <1>0, <1>1 DEF OwnTypes, Messages
<1>2. ASSUME NEW c \in Channels, SendEncrypted(c) \/ SendRefused(c) \/ PeerSendsMessage(c)
      PROVE  OwnTypes'
  <2>1. nextSeq' \in [Roles -> [Channels -> 0 .. MaxUint32]]
    BY <1>0, <1>2, AllocType DEF SendEncrypted, SendRefused, PeerSendsMessage
  <2>2. UNCHANGED <<broken, beat, handlers, inbox, popped>>
    BY <1>2 DEF SendEncrypted, SendRefused, PeerSendsMessage, PeerSends
  <2>. QED  BY <1>0, <2>1, <2>2 DEF OwnTypes, Messages
<1>3. ASSUME NEW g, WriteBeat(g) \/ WriteBeatFails(g)
      PROVE  OwnTypes'
  <2>1. beat' \in 0 .. MaxClock
    BY <1>0, <1>3, SessionAssumption DEF WriteBeat, WriteBeatFails, OwnTypes
  <2>. QED  BY <1>0, <1>3, <2>1 DEF WriteBeat, WriteBeatFails, application, OwnTypes, Messages
<1>4. CASE ClientTick
  <2>1. beat' \in 0 .. MaxClock
    BY <1>0, <1>4, SessionAssumption DEF ClientTick, Later, OwnTypes
  <2>. QED  BY <1>0, <1>4, <2>1 DEF ClientTick, application, OwnTypes, Messages
<1>5. CASE Break
  BY <1>0, <1>5 DEF Break, application, OwnTypes, Messages
<1>6. CASE TryRecv
  <2>1. inbox \in Seq(Messages) /\ inbox # << >> /\ popped \in Seq(Messages)
    BY <1>0, <1>6 DEF OwnTypes, TryRecv
  <2>2. Head(inbox) \in Messages /\ Tail(inbox) \in Seq(Messages)
    BY <2>1
  <2>3. inbox' \in Seq(Messages) /\ popped' \in Seq(Messages)
    BY <1>6, <2>1, <2>2 DEF TryRecv
  <2>. QED  BY <1>0, <1>6, <2>3 DEF TryRecv, OwnTypes, Messages
<1>7. CASE Dispatch
  <2>. DEFINE f == returned[me][Len(returned[me])]
  <2>1. returned[me] # << >> /\ returned[me] \in Seq(OpenedFrames)
    BY <1>0, <1>7 DEF Dispatch, ClientInv, HasFrame, ClientTypeOK
  <2>2. f \in OpenedFrames
    BY <2>1
  <2>3. f.payload \in Payloads
    BY <2>2 DEF OpenedFrames
  <2>4. inbox' = inbox \/ (inbox' = Append(inbox, f.payload) /\ f.payload # Garbage)
    BY <1>7 DEF Dispatch
  <2>. HIDE DEF f
  <2>5. inbox \in Seq(Messages) /\ (f.payload # Garbage => f.payload \in Messages)
    BY <1>0, <2>3 DEF OwnTypes, Messages
  <2>6. inbox' \in Seq(Messages)
    BY <2>4, <2>5
  <2>. QED  BY <1>0, <1>7, <2>6 DEF Dispatch, OwnTypes, Messages
<1>8. ASSUME NEW m \in MsgTypes, RegisterHandler(m)
      PROVE  OwnTypes'
  BY <1>0, <1>8 DEF RegisterHandler, OwnTypes, Messages
<1>9. ASSUME NEW m, PeerSendsOther(m) \/ PeerWritesPlain(m)
      PROVE  OwnTypes'
  BY <1>1, <1>9 DEF PeerSendsOther, PeerSends, PeerWritesPlain, application
<1>10. CASE Sending
  BY <1>1, <1>3, <1>10 DEF Sending, WriteRecord, WriteRecordFails, CheckBeat, application
<1>11. CASE CallRead \/ ReadHeartbeat \/ ReadRecord \/ ReadUnopened \/ ReadFails
            \/ CheckBeat("reader") \/ WriteBeat("reader") \/ WriteBeatFails("reader")
  BY <1>1, <1>3, <1>11
     DEF CallRead, ReadHeartbeat, ReadRecord, ReadUnopened, ReadFails, CheckBeat, application
<1>12. CASE PeerReads
  BY <1>1, <1>12 DEF PeerReads, application
<1>13. CASE UNCHANGED clientVars
  BY <1>1, <1>13 DEF clientVars, application
<1>14. LateHandlers \subseteq MsgTypes
  BY ClientAssumption
<1>. QED  BY <1>2, <1>4, <1>5, <1>6, <1>7, <1>8, <1>9, <1>10, <1>11, <1>12, <1>13, <1>14
          DEF ClientNext, Receiving

\* A goroutine comes to the place where it needs a frame only by a step that
\* makes one.
LEMMA PlaceStep ==
  ASSUME ClientInv, [ClientNext]_clientVars
  PROVE  PlaceInv'
<1>0. /\ pc \in [sender : Places, reader : Places] /\ HasFrame /\ TypeOK /\ TypeOK'
      /\ me \in Roles
  BY SessionKept DEF ClientInv, ClientTypeOK, me, Roles
<1>1. sent[me] # << >> => sent'[me] # << >>
  <2>1. sent[me] \in Seq(SealedFrames) /\ sent'[me] \in Seq(SealedFrames)
    BY <1>0 DEF TypeOK
  <2>2. 1 \in DOMAIN sent[me] => 1 \in DOMAIN sent'[me]
    BY <1>0, SessionKept
  <2>. QED  BY <2>1, <2>2
<1>2. returned[me] # << >> => returned'[me] # << >>
  <2>1. /\ returned \in [Roles -> Seq(OpenedFrames)] /\ returned' \in [Roles -> Seq(OpenedFrames)]
        /\ returned[me] \in Seq(OpenedFrames) /\ returned'[me] \in Seq(OpenedFrames)
    BY <1>0, CountedStep DEF ClientInv, ClientTypeOK
  <2>2. ASSUME NEW r \in Roles, Reads(r)
        PROVE  Len(returned'[me]) >= Len(returned[me])
    <3>1. returned' = [returned EXCEPT ![r] = Append(returned[r], Opened(Head(stream[Peer(r)])))]
      BY <2>2 DEF Reads
    <3>2. r # me => returned'[me] = returned[me]
      BY <2>1, <3>1
    <3>3. r = me => Len(returned'[me]) = Len(returned[me]) + 1
      BY <1>0, <2>1, <3>1
    <3>. QED  BY <2>1, <3>2, <3>3
  <2>3. Len(returned'[me]) >= Len(returned[me])
    BY <2>1, <2>2, ReturnedSteps
  <2>. QED  BY <2>1, <2>3
<1>3. /\ pc.sender = "write" => sent'[me] # << >>
      /\ pc.reader = "dispatch" => returned'[me] # << >>
  BY <1>0, <1>1, <1>2 DEF HasFrame
<1>. DEFINE Fine == /\ pc' \in [sender : Places, reader : Places]
                    /\ pc'.sender = "write" => sent'[me] # << >>
                    /\ pc'.reader = "dispatch" => returned'[me] # << >>
<1>. SUFFICES Fine
  BY DEF PlaceInv, HasFrame, Places, me
<1>4. ASSUME pc' = pc PROVE Fine
  BY <1>0, <1>3, <1>4
<1>5. ASSUME NEW x \in Places \ {"write"}, pc' = [pc EXCEPT !.sender = x] PROVE Fine
  BY <1>0, <1>3, <1>5
<1>6. ASSUME NEW x \in Places \ {"dispatch"}, pc' = [pc EXCEPT !.reader = x] PROVE Fine
  BY <1>0, <1>3, <1>6
<1>7. ASSUME NEW c, SendEncrypted(c) PROVE Fine
  <2>1. sent[me] \in Seq(SealedFrames) /\ sent'[me] = Append(sent[me], SealedFrame(me, BuiltFrame(me, c)))
    BY <1>0, <1>7 DEF SendEncrypted, EncryptFrame, TypeOK
  <2>2. sent'[me] # << >>
    BY <2>1
  <2>3. pc' = [pc EXCEPT !.sender = "write"]
    BY <1>7 DEF SendEncrypted, Goto
  <2>. QED  BY <1>0, <1>3, <2>2, <2>3 DEF Places
<1>8. ASSUME ReadRecord PROVE Fine
  <2>1. /\ returned[me] \in Seq(OpenedFrames) /\ returned \in [Roles -> Seq(OpenedFrames)]
        /\ returned' = [returned EXCEPT ![me] = Append(returned[me], Opened(raw))]
    BY <1>0, <1>8 DEF ReadRecord, ClientInv, ClientTypeOK
  <2>2. returned'[me] # << >>
    BY <1>0, <2>1
  <2>3. pc' = [pc EXCEPT !.reader = "dispatch"]
    BY <1>8 DEF ReadRecord, Goto
  <2>. QED  BY <1>0, <1>3, <2>2, <2>3 DEF Places
<1>. HIDE DEF Fine
<1>9. ASSUME NEW c, SendRefused(c) \/ PeerSendsMessage(c) \/ PeerSendsOther(c)
                    \/ PeerWritesPlain(c) \/ RegisterHandler(c)
      PROVE  Fine
  BY <1>4, <1>9 DEF SendRefused, PeerSendsMessage, PeerSendsOther, PeerSends, PeerWritesPlain,
                    RegisterHandler
<1>10. ASSUME TryRecv \/ PeerReads \/ Break \/ ClientTick \/ UNCHANGED clientVars PROVE Fine
  BY <1>4, <1>10 DEF TryRecv, PeerReads, Break, ClientTick, clientVars
<1>11. ASSUME Sending PROVE Fine
  <2>1. {"idle", "beat", "writeBeat"} \subseteq Places \ {"write"}
    BY DEF Places
  <2>2. \E x \in {"idle", "beat", "writeBeat"} : pc' = [pc EXCEPT !.sender = x]
    BY <1>11 DEF Sending, WriteRecord, WriteRecordFails, CheckBeat, WriteBeat, WriteBeatFails,
                 Goto, AfterBeat
  <2>. QED  BY <1>5, <2>1, <2>2
<1>12. ASSUME CallRead \/ ReadHeartbeat \/ ReadUnopened \/ ReadFails \/ Dispatch
              \/ CheckBeat("reader") \/ WriteBeat("reader") \/ WriteBeatFails("reader")
       PROVE  Fine
  <2>1. {"idle", "beat", "writeBeat", "read"} \subseteq Places \ {"dispatch"}
    BY DEF Places
  <2>2. \E x \in {"idle", "beat", "writeBeat", "read"} : pc' = [pc EXCEPT !.reader = x]
    BY <1>12 DEF CallRead, ReadHeartbeat, ReadUnopened, ReadFails, Dispatch, CheckBeat,
                 WriteBeat, WriteBeatFails, Goto, AfterBeat
  <2>. QED  BY <1>6, <2>1, <2>2
<1>. QED  BY <1>7, <1>8, <1>9, <1>10, <1>11, <1>12 DEF ClientNext, Receiving

-----------------------------------------------------------------------------
(***************************************************************************)
(* The theorems.                                                           *)
(***************************************************************************)
LEMMA ClientInitInv == ClientInit => ClientInv
<1>. SUFFICES ASSUME ClientInit PROVE ClientInv
  OBVIOUS
<1>1. Init /\ TypeOK
  BY InitType DEF ClientInit
<1>2. ClientTypeOK
  <2>1. /\ Capacity \in Nat /\ MaxUint32 \in Nat /\ MaxClock \in Nat
        /\ Routers \subseteq SUBSET MsgTypes
    BY SessionAssumption, ClientAssumption
  <2>2. /\ stream \in [Roles -> Seq(SealedFrames \cup OpenedFrames)]
        /\ \A r \in Roles : Len(stream[r]) <= Capacity
        /\ returned \in [Roles -> Seq(OpenedFrames)]
    BY <2>1 DEF ClientInit
  <2>3. pc \in [sender : Places, reader : Places]
    BY DEF ClientInit, Places
  <2>4. broken \in BOOLEAN /\ handlers \subseteq MsgTypes
    BY <2>1, Zenon DEF ClientInit
  <2>7. beat \in 0 .. MaxClock
    BY <2>1 DEF ClientInit
  <2>5. inbox \in Seq(Messages) /\ popped \in Seq(Messages)
    BY DEF ClientInit
  <2>6. nextSeq \in [Roles -> [Channels -> 0 .. MaxUint32]]
    BY <2>1 DEF ClientInit
  <2>. QED  BY <2>2, <2>3, <2>4, <2>5, <2>6, <2>7 DEF ClientTypeOK
<1>3. UnderWay /\ HasFrame
  BY DEF ClientInit, UnderWay, HasFrame
<1>4. SentNumbered /\ ReturnedCounted
  BY <1>1, SessionAssumption DEF ClientInit, Init, SentNumbered, Numbered, ReturnedCounted
<1>5. PrefixReturned
  <2>1. \A r \in Roles : returned[r] = << >> /\ sent[Peer(r)] = << >>
    BY <1>1, RoleFacts DEF ClientInit, Init
  <2>. QED  BY <2>1 DEF PrefixReturned
<1>. QED  BY <1>1, <1>2, <1>3, <1>4, <1>5 DEF ClientInv

LEMMA ClientStepInv == ClientInv /\ [ClientNext]_clientVars => ClientInv'
<1>. SUFFICES ASSUME ClientInv, [ClientNext]_clientVars PROVE ClientInv'
  OBVIOUS
<1>1. StreamInv' /\ OwnTypes' /\ PlaceInv' /\ returned' \in [Roles -> Seq(OpenedFrames)]
  BY StreamStep, OwnStep, PlaceStep, CountedStep
<1>2. (returned \in [Roles -> Seq(OpenedFrames)])'
  BY <1>1 DEF OpenedFrames
<1>3. ClientTypeOK'
  BY <1>1, <1>2 DEF StreamInv, OwnTypes, PlaceInv, ClientTypeOK
<1>. QED  BY <1>1, <1>3, SessionKept, NumberedStep, CountedStep, PrefixStep
          DEF StreamInv, PlaceInv, ClientInv

LEMMA ClientInvariant == ClientSpec => []ClientInv
BY ClientInitInv, ClientStepInv, PTL DEF ClientSpec

\* The frames each end gets out of its session are those the other sealed, from
\* the first on and without a gap: whatever the two goroutines of the client,
\* the peer and the connection do between two steps.
THEOREM ClientPrefixReturned == ClientSpec => []PrefixReturned
<1>1. ClientInv => PrefixReturned
  BY DEF ClientInv
<1>. QED  BY <1>1, ClientInvariant, PTL

\* Every step of the client, of the peer and of the connection is a step of
\* Session, or leaves the session alone: ReadEncrypted presents to DecryptFrame
\* nothing but records of the peer's, and SendEncrypted seals plain frames.
THEOREM ClientUsesSession == ClientSpec => UsesSession
<1>1. ClientInit => Init
  BY DEF ClientInit
<1>2. ClientInv /\ [ClientNext]_clientVars => [Next]_vars
  BY SessionStep
<1>3. ClientSpec => Spec
  BY <1>1, <1>2, ClientInvariant, PTL DEF ClientSpec, Spec
<1>. QED  BY <1>3 DEF UsesSession

\* So the client's session is as safe as any: no nonce is used twice, nothing
\* opens twice, what opens is what the peer sealed, and the record that is
\* waited for opens.
THEOREM ClientSessionSafe ==
  ClientSpec => [](NonceUnique /\ ReplayRejected /\ DeliveredAuthentic /\ NextRecordOpens)
<1>1. ClientSpec => Spec
  BY ClientUsesSession DEF UsesSession
<1>. QED
  BY <1>1, SessionNonceUnique, SessionReplayRejected, SessionDeliveredAuthentic,
     SessionNextRecordOpens, PTL

-----------------------------------------------------------------------------
(***************************************************************************)
(* The order of messages on each channel.  It rests on how the messages    *)
(* that were sealed are numbered, and on the inbox having got an unbroken  *)
(* part of what was dispatched.                                            *)
(***************************************************************************)
Succ(n) == (n + 1) % (MaxUint32 + 1)

\* What record i of end r holds, and that it is a message of channel c.
Plain(r, i) == sent[r][i].payload.plain
OfChannel(r, i, c) ==
  /\ sent[r][i].msgType = MsgAppMessage
  /\ Plain(r, i) # Garbage
  /\ Plain(r, i).channel = c

\* Record i is the last message of channel c among the first n of end r.
LastOf(r, i, n, c) ==
  /\ i \in 1 .. n
  /\ OfChannel(r, i, c)
  /\ \A k \in i + 1 .. n : ~OfChannel(r, k, c)

\* The messages an end has sealed are numbered one after the other.
SealedInOrder(r) ==
  \A c \in Channels : \A i, j \in DOMAIN sent[r] :
    LastOf(r, i, j - 1, c) /\ OfChannel(r, j, c) => Plain(r, j).seq = Succ(Plain(r, i).seq)

\* The counter is where the last one leads, until EncryptFrame refuses for good.
CounterInOrder(r) ==
  tx[r].sequence # MaxUint64 =>
    \A c \in Channels : \A i \in DOMAIN sent[r] :
      LastOf(r, i, Len(sent[r]), c) => nextSeq[r][c] = Succ(Plain(r, i).seq)

\* The client seals messages only.
OwnMessages ==
  \A i \in DOMAIN sent[me] :
    sent[me][i].msgType = MsgAppMessage /\ Plain(me, i) \in Messages

\* How many of the frames returned to the reader have been dispatched.
Dispatched == IF pc.reader = "dispatch" THEN Len(returned[me]) - 1 ELSE Len(returned[me])

Received == popped \o inbox

\* Of each channel, the last message in the sequence is the last one among the
\* first n records of the peer.
Follows(messages, n) ==
  \A i \in DOMAIN messages :
    (\A j \in i + 1 .. Len(messages) : messages[j].channel # messages[i].channel) =>
      \E k \in 1 .. n :
        LastOf(peer, k, n, messages[i].channel) /\ messages[i] = Plain(peer, k)

\* A handler, once it is there, stays: from the first message on the inbox gets
\* every one that is dispatched.
InboxFollows ==
  /\ Received # << >> => MsgAppMessage \in handlers
  /\ Follows(Received, Dispatched)

OrderInv ==
  /\ \A r \in Roles : SealedInOrder(r) /\ CounterInOrder(r)
  /\ OwnMessages
  /\ InboxFollows
  /\ Consecutive(Received)

-----------------------------------------------------------------------------
LEMMA RecordFacts ==
  ASSUME ClientInv, NEW r \in Roles
  PROVE  /\ sent[r] \in Seq(SealedFrames) /\ Len(sent[r]) \in Nat
         /\ DOMAIN sent[r] = 1 .. Len(sent[r])
         /\ nextSeq[r] \in [Channels -> 0 .. MaxUint32]
<1>1. sent[r] \in Seq(SealedFrames) /\ nextSeq[r] \in [Channels -> 0 .. MaxUint32]
  BY DEF ClientInv, TypeOK, ClientTypeOK
<1>. QED  BY <1>1

\* A message that is built is one, of its channel and with the counter's number.
LEMMA BuiltFacts ==
  ASSUME ClientInv, NEW r \in Roles, NEW c \in Channels
  PROVE  /\ BuiltFrame(r, c) \in PlainFrames
         /\ BuiltFrame(r, c).msgType = MsgAppMessage
         /\ BuiltFrame(r, c).payload \in Messages
         /\ BuiltFrame(r, c).payload # Garbage
         /\ BuiltFrame(r, c).payload.channel = c
         /\ BuiltFrame(r, c).payload.seq = nextSeq[r][c]
<1>1. nextSeq[r][c] \in 0 .. MaxUint32
  BY RecordFacts
<1>2. Message(c, nextSeq[r][c]) \in [channel : Channels, seq : 0 .. MaxUint32]
  BY <1>1 DEF Message
<1>3. Message(c, nextSeq[r][c]) \in Messages /\ Message(c, nextSeq[r][c]) # Garbage
  BY <1>2, ClientAssumption DEF Messages
<1>4. BuiltFrame(r, c) = [msgType |-> MsgAppMessage, flags |-> {}, payload |-> Message(c, nextSeq[r][c])]
  BY DEF BuiltFrame, crypto!NewFrame
<1>5. BuiltFrame(r, c) \in PlainFrames
  BY PlainType DEF ClientInv
<1>. QED  BY <1>3, <1>4, <1>5 DEF Message

\* Sealing adds one record, with the frame that was sealed.
LEMMA SealAdds ==
  ASSUME ClientInv, NEW r \in Roles, NEW f \in PlainFrames, EncryptFrame(r, f)
  PROVE  /\ tx[r].sequence # MaxUint64
         /\ Len(sent'[r]) = Len(sent[r]) + 1
         /\ DOMAIN sent'[r] = 1 .. Len(sent[r]) + 1
         /\ \A i \in 1 .. Len(sent[r]) : sent'[r][i] = sent[r][i]
         /\ sent'[r][Len(sent[r]) + 1].msgType = f.msgType
         /\ sent'[r][Len(sent[r]) + 1].payload.plain = f.payload
         /\ \A q \in Roles : q # r => sent'[q] = sent[q] /\ tx'[q] = tx[q]
<1>. DEFINE g == SealedFrame(r, f)  n == Len(sent[r])
<1>1. g \in SealedFrames
  BY SealedType DEF ClientInv
<1>2. sent \in [Roles -> Seq(SealedFrames)] /\ tx \in [Roles -> TxStates]
  BY DEF ClientInv, TypeOK
<1>3. g.msgType = f.msgType /\ g.payload.plain = f.payload
  BY DEF SealedFrame, crypto!EncryptFrame, crypto!Seal
<1>4. tx[r].sequence # MaxUint64 /\ sent' = [sent EXCEPT ![r] = Append(sent[r], g)]
  BY <1>2 DEF EncryptFrame, CanSeal
<1>5. \A q \in Roles : q # r => sent'[q] = sent[q] /\ tx'[q] = tx[q]
  BY <1>2 DEF EncryptFrame
<1>. HIDE DEF g
<1>6. sent[r] \in Seq(SealedFrames) /\ sent'[r] = Append(sent[r], g)
  BY <1>2, <1>4
<1>7. /\ Len(sent'[r]) = n + 1 /\ DOMAIN sent'[r] = 1 .. n + 1
      /\ \A i \in 1 .. n : sent'[r][i] = sent[r][i]
      /\ sent'[r][n + 1] = g
  BY <1>1, <1>6
<1>. QED  BY <1>3, <1>4, <1>5, <1>7

\* Seen from what is sealed, each step is one of these.
SealsMessage(r, c) == EncryptFrame(r, BuiltFrame(r, c)) /\ allocSeq(r, c)

SealsOther(m) == EncryptFrame(peer, crypto!NewFrame(m, Garbage)) /\ UNCHANGED nextSeq

Refuses ==
  /\ tx[me].sequence = MaxUint64
  /\ UNCHANGED <<sent, tx>>
  /\ nextSeq'[peer] = nextSeq[peer]

SealsNothing ==
  /\ UNCHANGED <<sent, nextSeq>>
  /\ \A r \in Roles : tx'[r].sequence = tx[r].sequence

LEMMA SealSteps ==
  ASSUME ClientInv, [ClientNext]_clientVars
  PROVE  \/ \E r \in Roles, c \in Channels : SealsMessage(r, c)
         \/ \E m \in MsgTypes : SealsOther(m)
         \/ Refuses
         \/ SealsNothing
<1>0. me \in Roles /\ peer \in Roles /\ me # peer
  BY DEF me, peer, Roles
<1>1. ASSUME NEW c \in Channels, SendEncrypted(c) \/ PeerSendsMessage(c)
      PROVE  \E r \in Roles : SealsMessage(r, c)
  BY <1>0, <1>1 DEF SendEncrypted, PeerSendsMessage, PeerSends, SealsMessage
<1>2. ASSUME NEW c \in Channels, SendRefused(c)
      PROVE  Refuses
  <2>1. BuiltFrame(me, c).flags = {}
    BY DEF BuiltFrame, crypto!NewFrame
  <2>2. tx[me].sequence = MaxUint64
    BY <1>2, <2>1 DEF SendRefused, CanSeal, crypto!IsEncrypted
  <2>3. nextSeq \in [Roles -> [Channels -> 0 .. MaxUint32]]
    BY DEF ClientInv, ClientTypeOK
  <2>4. nextSeq'[peer] = nextSeq[peer]
    BY <1>0, <1>2, <2>3 DEF SendRefused, allocSeq
  <2>. QED  BY <1>2, <2>2, <2>4 DEF SendRefused, Refuses, vars
<1>3. ASSUME NEW m \in MsgTypes, PeerSendsOther(m)
      PROVE  SealsOther(m)
  BY <1>3 DEF PeerSendsOther, PeerSends, SealsOther
<1>4. ASSUME UNCHANGED nextSeq, (\E r \in Roles : Touch(r)) \/ UNCHANGED vars
      PROVE  SealsNothing
  BY <1>4 DEF Touch, vars, SealsNothing
<1>5. CASE ClientTick
  <2>1. tx \in [Roles -> TxStates]
    BY DEF ClientInv, TypeOK
  <2>2. \A r \in Roles : tx'[r].sequence = tx[r].sequence
    BY <1>5, <2>1 DEF ClientTick, Tick, TxStates
  <2>. QED  BY <1>5, <2>2 DEF ClientTick, Tick, SealsNothing, application
<1>6. CASE ReadRecord \/ PeerReads
  <2>1. UNCHANGED nextSeq
    BY <1>6 DEF ReadRecord, PeerReads, application
  <2>2. UNCHANGED <<sent, tx>>
    BY <1>6 DEF ReadRecord, PeerReads, DecryptFrame, vars
  <2>. QED  BY <2>1, <2>2 DEF SealsNothing
<1>7. CASE ReadHeartbeat \/ Dispatch
  BY <1>0, <1>4, <1>7 DEF ReadHeartbeat, Dispatch, application
<1>8. CASE Sending
  BY <1>4, <1>8
     DEF Sending, WriteRecord, WriteRecordFails, CheckBeat, WriteBeat, WriteBeatFails, application
<1>9. CASE CallRead \/ ReadUnopened \/ ReadFails \/ CheckBeat("reader")
           \/ WriteBeat("reader") \/ WriteBeatFails("reader")
  BY <1>4, <1>9
     DEF CallRead, ReadUnopened, ReadFails, CheckBeat, WriteBeat, WriteBeatFails, application
<1>10. ASSUME NEW m, RegisterHandler(m) \/ PeerWritesPlain(m)
       PROVE  SealsNothing
  BY <1>4, <1>10 DEF RegisterHandler, PeerWritesPlain, application
<1>11. CASE TryRecv \/ Break
  BY <1>4, <1>11 DEF TryRecv, Break, application
<1>12. CASE UNCHANGED clientVars
  BY <1>4, <1>12 DEF clientVars, application
<1>. QED  BY <1>1, <1>2, <1>3, <1>5, <1>6, <1>7, <1>8, <1>9, <1>10, <1>11, <1>12
          DEF ClientNext, Receiving

\* Where nothing was added, the order is what it was.
LEMMA SameOrder ==
  ASSUME NEW q \in Roles, SealedInOrder(q), CounterInOrder(q), sent'[q] = sent[q],
         tx'[q].sequence # MaxUint64 =>
           tx[q].sequence # MaxUint64 /\ nextSeq'[q] = nextSeq[q]
  PROVE  SealedInOrder(q)' /\ CounterInOrder(q)'
BY DEF SealedInOrder, CounterInOrder, LastOf, OfChannel, Plain

\* A record more changes nothing about the earlier ones.
LEMMA OldRecords ==
  ASSUME ClientInv, NEW r \in Roles,
         \A i \in 1 .. Len(sent[r]) : sent'[r][i] = sent[r][i]
  PROVE  /\ \A i \in 1 .. Len(sent[r]) : \A c :
              Plain(r, i)' = Plain(r, i) /\ (OfChannel(r, i, c)' <=> OfChannel(r, i, c))
         /\ \A n \in Nat : n <= Len(sent[r]) => \A i, c :
              LastOf(r, i, n, c)' <=> LastOf(r, i, n, c)
<1>1. \A i \in 1 .. Len(sent[r]) : \A c :
        Plain(r, i)' = Plain(r, i) /\ (OfChannel(r, i, c)' <=> OfChannel(r, i, c))
  BY DEF Plain, OfChannel
<1>2. ASSUME NEW n \in Nat, n <= Len(sent[r]), NEW i, NEW c
      PROVE  LastOf(r, i, n, c)' <=> LastOf(r, i, n, c)
  <2>1. ASSUME i \in 1 .. n
        PROVE  /\ i \in 1 .. Len(sent[r])
               /\ \A k \in i + 1 .. n : k \in 1 .. Len(sent[r])
    BY <1>2, <2>1, RecordFacts
  <2>. QED  BY <1>1, <2>1 DEF LastOf
<1>. QED  BY <1>1, <1>2

\* Sealing keeps the order: the new record bears the counter's number, and the
\* counter moves on, or it is no message and the counter stays.
LEMMA SealKeepsOrder ==
  ASSUME ClientInv, NEW r \in Roles, SealedInOrder(r), CounterInOrder(r),
         tx[r].sequence # MaxUint64,
         NEW n \in Nat, n = Len(sent[r]),
         Len(sent'[r]) = n + 1, DOMAIN sent'[r] = 1 .. n + 1,
         \A i \in 1 .. n : sent'[r][i] = sent[r][i],
         \A c \in Channels :
           IF OfChannel(r, n + 1, c)'
             THEN /\ Plain(r, n + 1)'.seq = nextSeq[r][c]
                  /\ nextSeq'[r][c] = Succ(nextSeq[r][c])
             ELSE nextSeq'[r][c] = nextSeq[r][c]
  PROVE  SealedInOrder(r)' /\ CounterInOrder(r)'
<1>0. DOMAIN sent[r] = 1 .. n
  BY RecordFacts
<1>1. /\ \A i \in 1 .. n : \A c :
           Plain(r, i)' = Plain(r, i) /\ (OfChannel(r, i, c)' <=> OfChannel(r, i, c))
      /\ \A k \in Nat : k <= n => \A i, c : LastOf(r, i, k, c)' <=> LastOf(r, i, k, c)
  BY OldRecords
<1>2. \A c \in Channels : \A i \in 1 .. n :
        LastOf(r, i, n, c) => nextSeq[r][c] = Succ(Plain(r, i).seq)
  BY <1>0 DEF CounterInOrder
<1>3. ASSUME NEW c \in Channels, NEW i \in 1 .. n + 1, NEW j \in 1 .. n + 1,
             LastOf(r, i, j - 1, c)', OfChannel(r, j, c)'
      PROVE  Plain(r, j)'.seq = Succ(Plain(r, i)'.seq)
  <2>1. j - 1 \in Nat /\ j - 1 <= n
    OBVIOUS
  <2>2. LastOf(r, i, j - 1, c)
    BY <1>1, <1>3, <2>1
  <2>3. i \in 1 .. j - 1
    BY <2>2 DEF LastOf
  <2>4. i \in 1 .. n
    BY <2>1, <2>3
  <2>5. Plain(r, i)' = Plain(r, i)
    BY <1>1, <2>4
  <2>6. CASE j \in 1 .. n
    <3>1. Plain(r, j)' = Plain(r, j) /\ OfChannel(r, j, c)
      BY <1>1, <1>3, <2>6
    <3>. QED  BY <1>0, <2>2, <2>4, <2>5, <2>6, <3>1 DEF SealedInOrder
  <2>7. CASE j = n + 1
    <3>1. LastOf(r, i, n, c)
      <4>1. j - 1 = n
        BY <2>7
      <4>. QED  BY <2>2, <4>1
    <3>2. Plain(r, j)'.seq = nextSeq[r][c]
      BY <1>3, <2>7
    <3>. QED  BY <1>2, <2>4, <2>5, <3>1, <3>2
  <2>. QED  BY <2>6, <2>7
<1>4. ASSUME NEW c \in Channels, NEW i \in 1 .. n + 1, OfChannel(r, i, c)',
             \A k \in i + 1 .. n + 1 : ~OfChannel(r, k, c)'
      PROVE  nextSeq'[r][c] = Succ(Plain(r, i)'.seq)
  <2>1. CASE i = n + 1
    <3>1. OfChannel(r, n + 1, c)'
      BY <1>4, <2>1
    <3>. QED  BY <2>1, <3>1
  <2>2. CASE i \in 1 .. n
    <3>1. n + 1 \in i + 1 .. n + 1 /\ \A k \in i + 1 .. n : k \in i + 1 .. n + 1 /\ k \in 1 .. n
      BY <2>2
    <3>2. nextSeq'[r][c] = nextSeq[r][c]
      BY <1>4, <3>1
    <3>3. LastOf(r, i, n, c)
      BY <1>1, <1>4, <2>2, <3>1 DEF LastOf
    <3>4. Plain(r, i)' = Plain(r, i)
      BY <1>1, <2>2
    <3>. QED  BY <1>2, <2>2, <3>2, <3>3, <3>4
  <2>. QED  BY <2>1, <2>2
<1>5. SealedInOrder(r)'
  BY <1>3 DEF SealedInOrder
<1>6. CounterInOrder(r)'
  BY <1>4 DEF CounterInOrder, LastOf
<1>. QED  BY <1>5, <1>6

LEMMA SealedOrderStep ==
  ASSUME ClientInv, OrderInv, [ClientNext]_clientVars
  PROVE  /\ \A q \in Roles : SealedInOrder(q)' /\ CounterInOrder(q)'
         /\ OwnMessages'
<1>0. me \in Roles /\ peer \in Roles /\ me # peer
  BY DEF me, peer, Roles
<1>1. \A q \in Roles : SealedInOrder(q) /\ CounterInOrder(q)
  BY DEF OrderInv
<1>2. OwnMessages
  BY DEF OrderInv
<1>3. nextSeq \in [Roles -> [Channels -> 0 .. MaxUint32]]
  BY DEF ClientInv, ClientTypeOK
<1>. DEFINE Goal == /\ \A q \in Roles : SealedInOrder(q)' /\ CounterInOrder(q)'
                    /\ OwnMessages'
<1>4. ASSUME NEW r \in Roles, NEW c \in Channels, SealsMessage(r, c)
      PROVE  Goal
  <2>. DEFINE f == BuiltFrame(r, c)
  <2>1. /\ f \in PlainFrames /\ f.msgType = MsgAppMessage /\ f.payload \in Messages
        /\ f.payload # Garbage /\ f.payload.channel = c /\ f.payload.seq = nextSeq[r][c]
    BY BuiltFacts
  <2>2. EncryptFrame(r, f)
    BY <1>4 DEF SealsMessage
  <2>. HIDE DEF f
  <2>3. PICK n \in Nat : n = Len(sent[r])
    BY RecordFacts
  <2>4. /\ tx[r].sequence # MaxUint64 /\ Len(sent'[r]) = n + 1
        /\ DOMAIN sent'[r] = 1 .. n + 1
        /\ \A i \in 1 .. n : sent'[r][i] = sent[r][i]
        /\ sent'[r][n + 1].msgType = f.msgType
        /\ sent'[r][n + 1].payload.plain = f.payload
        /\ \A q \in Roles : q # r => sent'[q] = sent[q] /\ tx'[q] = tx[q]
    BY <2>1, <2>2, <2>3, SealAdds
  <2>5. /\ nextSeq'[r][c] = Succ(nextSeq[r][c])
        /\ \A d \in Channels : d # c => nextSeq'[r][d] = nextSeq[r][d]
        /\ \A q \in Roles : q # r => nextSeq'[q] = nextSeq[q]
    BY <1>3, <1>4 DEF SealsMessage, allocSeq, SeqAfter, Succ
  <2>6. Plain(r, n + 1)' = f.payload /\ \A d : OfChannel(r, n + 1, d)' <=> d = c
    BY <2>1, <2>4 DEF Plain, OfChannel
  <2>7. \A d \in Channels :
          IF OfChannel(r, n + 1, d)'
            THEN /\ Plain(r, n + 1)'.seq = nextSeq[r][d]
                 /\ nextSeq'[r][d] = Succ(nextSeq[r][d])
            ELSE nextSeq'[r][d] = nextSeq[r][d]
    BY <2>1, <2>5, <2>6
  <2>8. SealedInOrder(r)' /\ CounterInOrder(r)'
    BY <1>1, <2>3, <2>4, <2>7, SealKeepsOrder
  <2>9. \A q \in Roles : q # r => SealedInOrder(q)' /\ CounterInOrder(q)'
    BY <1>1, <2>4, <2>5, SameOrder
  <2>10. OwnMessages'
    <3>1. CASE r = me
      <4>1. \A i \in 1 .. n : sent'[me][i].msgType = MsgAppMessage
                               /\ sent'[me][i].payload.plain \in Messages
        BY <1>2, <2>3, <2>4, <3>1, RecordFacts DEF OwnMessages, Plain
      <4>2. \A i \in 1 .. n + 1 : i \in 1 .. n \/ i = n + 1
        OBVIOUS
      <4>. QED  BY <2>1, <2>4, <3>1, <4>1, <4>2 DEF OwnMessages, Plain, Messages
    <3>2. CASE r # me
      BY <1>0, <1>2, <2>4, <3>2 DEF OwnMessages, Plain, Messages
    <3>. QED  BY <3>1, <3>2
  <2>. QED  BY <2>8, <2>9, <2>10
<1>5. ASSUME NEW m \in MsgTypes, SealsOther(m)
      PROVE  Goal
  <2>. DEFINE f == crypto!NewFrame(m, Garbage)
  <2>1. f \in PlainFrames /\ f.payload = Garbage
    BY PlainType DEF ClientInv, crypto!NewFrame
  <2>2. EncryptFrame(peer, f) /\ nextSeq' = nextSeq
    BY <1>5 DEF SealsOther
  <2>. HIDE DEF f
  <2>3. PICK n \in Nat : n = Len(sent[peer])
    BY <1>0, RecordFacts
  <2>4. /\ tx[peer].sequence # MaxUint64 /\ Len(sent'[peer]) = n + 1
        /\ DOMAIN sent'[peer] = 1 .. n + 1
        /\ \A i \in 1 .. n : sent'[peer][i] = sent[peer][i]
        /\ sent'[peer][n + 1].payload.plain = f.payload
        /\ \A q \in Roles : q # peer => sent'[q] = sent[q] /\ tx'[q] = tx[q]
    BY <1>0, <2>1, <2>2, <2>3, SealAdds
  <2>5. \A d : ~OfChannel(peer, n + 1, d)'
    BY <2>1, <2>4 DEF Plain, OfChannel
  <2>6. SealedInOrder(peer)' /\ CounterInOrder(peer)'
    BY <1>0, <1>1, <2>2, <2>3, <2>4, <2>5, SealKeepsOrder
  <2>7. \A q \in Roles : q # peer => SealedInOrder(q)' /\ CounterInOrder(q)'
    BY <1>1, <2>2, <2>4, SameOrder
  <2>8. OwnMessages'
    BY <1>0, <1>2, <2>4 DEF OwnMessages, Plain, Messages
  <2>. QED  BY <2>6, <2>7, <2>8
<1>6. CASE Refuses
  <2>1. sent' = sent /\ tx' = tx /\ tx[me].sequence = MaxUint64 /\ nextSeq'[peer] = nextSeq[peer]
    BY <1>6 DEF Refuses
  <2>2. \A q \in Roles : q = me \/ q = peer
    BY DEF Roles, me, peer
  <2>3. \A q \in Roles : SealedInOrder(q)' /\ CounterInOrder(q)'
    BY <1>1, <2>1, <2>2, SameOrder
  <2>4. OwnMessages'
    BY <1>2, <2>1 DEF OwnMessages, Plain, Messages
  <2>. QED  BY <2>3, <2>4
<1>7. CASE SealsNothing
  <2>1. \A q \in Roles : SealedInOrder(q)' /\ CounterInOrder(q)'
    BY <1>1, <1>7, SameOrder DEF SealsNothing
  <2>2. OwnMessages'
    BY <1>2, <1>7 DEF SealsNothing, OwnMessages, Plain, Messages
  <2>. QED  BY <2>1, <2>2
<1>. QED  BY <1>4, <1>5, <1>6, <1>7, SealSteps

\* What is taken from the front of the inbox goes to the end of popped.
LEMMA ConcatFacts ==
  ASSUME NEW S, NEW p \in Seq(S), NEW q \in Seq(S)
  PROVE  /\ \A x \in S : p \o Append(q, x) = Append(p \o q, x)
         /\ q # << >> => Append(p, Head(q)) \o Tail(q) = p \o q
<1>0. Len(p) \in Nat /\ Len(q) \in Nat
  OBVIOUS
<1>1. ASSUME NEW x \in S PROVE p \o Append(q, x) = Append(p \o q, x)
  <2>. DEFINE qx == Append(q, x)  pq == p \o q  a == p \o qx  b == Append(pq, x)
  <2>1. /\ qx \in Seq(S) /\ Len(qx) = Len(q) + 1 /\ qx[Len(q) + 1] = x
        /\ \A i \in 1 .. Len(q) : qx[i] = q[i]
    BY AppendProperties
  <2>2. /\ pq \in Seq(S) /\ Len(pq) = Len(p) + Len(q)
        /\ \A i \in 1 .. Len(p) + Len(q) : pq[i] = IF i <= Len(p) THEN p[i] ELSE q[i - Len(p)]
    BY ConcatProperties
  <2>. HIDE DEF qx, pq
  <2>a. /\ a \in Seq(S) /\ Len(a) = Len(p) + Len(qx)
        /\ \A i \in 1 .. Len(p) + Len(qx) :
             a[i] = IF i <= Len(p) THEN p[i] ELSE qx[i - Len(p)]
    BY <2>1, ConcatProperties
  <2>b. /\ b \in Seq(S) /\ Len(b) = Len(pq) + 1 /\ b[Len(pq) + 1] = x
        /\ \A i \in 1 .. Len(pq) : b[i] = pq[i]
    <3>1. pq \in Seq(S)
      BY <2>2
    <3>. QED  BY <3>1, AppendProperties
  <2>. HIDE DEF a, b
  <2>3. /\ a \in Seq(S) /\ Len(a) = Len(p) + (Len(q) + 1)
        /\ \A i \in 1 .. Len(p) + (Len(q) + 1) :
             a[i] = IF i <= Len(p) THEN p[i] ELSE qx[i - Len(p)]
    BY <2>1, <2>a
  <2>4. /\ b \in Seq(S) /\ Len(b) = Len(p) + Len(q) + 1 /\ b[Len(p) + Len(q) + 1] = x
        /\ \A i \in 1 .. Len(p) + Len(q) : b[i] = pq[i]
    BY <2>2, <2>b
  <2>5. ASSUME NEW i \in 1 .. Len(a) PROVE a[i] = b[i]
    <3>1. CASE i <= Len(p)
      <4>1. i \in 1 .. Len(p) + (Len(q) + 1) /\ i \in 1 .. Len(p) + Len(q)
        BY <1>0, <3>1
      <4>2. a[i] = p[i] /\ b[i] = pq[i] /\ pq[i] = p[i]
        BY <2>2, <2>3, <2>4, <3>1, <4>1
      <4>. QED  BY <4>2
    <3>2. CASE i > Len(p) /\ i <= Len(p) + Len(q)
      <4>1. /\ i \in 1 .. Len(p) + (Len(q) + 1) /\ i \in 1 .. Len(p) + Len(q)
            /\ ~(i <= Len(p)) /\ i - Len(p) \in 1 .. Len(q)
        BY <1>0, <3>2
      <4>2. a[i] = qx[i - Len(p)] /\ b[i] = pq[i] /\ pq[i] = q[i - Len(p)]
        BY <2>2, <2>3, <2>4, <4>1
      <4>. QED  BY <2>1, <4>1, <4>2
    <3>3. CASE i = Len(p) + Len(q) + 1
      <4>1. ~(i <= Len(p)) /\ i - Len(p) = Len(q) + 1 /\ i \in 1 .. Len(p) + (Len(q) + 1)
        BY <1>0, <3>3
      <4>2. a[i] = qx[i - Len(p)]
        BY <2>3, <4>1
      <4>3. a[i] = x
        BY <2>1, <4>1, <4>2
      <4>4. b[i] = x
        BY <2>4, <3>3
      <4>. QED  BY <4>3, <4>4
    <3>4. i <= Len(p) \/ (i > Len(p) /\ i <= Len(p) + Len(q)) \/ i = Len(p) + Len(q) + 1
      <4>1. i \in 1 .. Len(p) + (Len(q) + 1)
        BY <2>3
      <4>. QED  BY <1>0, <4>1
    <3>. QED  BY <3>1, <3>2, <3>3, <3>4
  <2>6. Len(a) = Len(b)
    BY <1>0, <2>3, <2>4
  <2>7. a = b
    BY <2>3, <2>4, <2>5, <2>6, SeqEqual
  <2>. QED  BY <2>7 DEF a, b, qx, pq
<1>2. ASSUME q # << >> PROVE Append(p, Head(q)) \o Tail(q) = p \o q
  <2>. DEFINE h == Head(q)  t == Tail(q)  ph == Append(p, h)  a == ph \o t  b == p \o q
  <2>1. /\ h \in S /\ h = q[1] /\ t \in Seq(S) /\ Len(q) > 0 /\ Len(t) = Len(q) - 1
        /\ \A i \in 1 .. Len(t) : t[i] = q[i + 1]
    BY <1>0, <1>2, HeadTailProperties
  <2>. HIDE DEF h, t
  <2>2. /\ ph \in Seq(S) /\ Len(ph) = Len(p) + 1 /\ ph[Len(p) + 1] = h
        /\ \A i \in 1 .. Len(p) : ph[i] = p[i]
    BY <2>1, AppendProperties
  <2>. HIDE DEF ph
  <2>a. /\ a \in Seq(S) /\ Len(a) = Len(ph) + Len(t)
        /\ \A i \in 1 .. Len(ph) + Len(t) :
             a[i] = IF i <= Len(ph) THEN ph[i] ELSE t[i - Len(ph)]
    BY <2>1, <2>2, ConcatProperties
  <2>4. /\ b \in Seq(S) /\ Len(b) = Len(p) + Len(q)
        /\ \A i \in 1 .. Len(p) + Len(q) : b[i] = IF i <= Len(p) THEN p[i] ELSE q[i - Len(p)]
    BY ConcatProperties
  <2>. HIDE DEF a, b
  <2>3. /\ a \in Seq(S) /\ Len(a) = (Len(p) + 1) + (Len(q) - 1)
        /\ \A i \in 1 .. (Len(p) + 1) + (Len(q) - 1) :
             a[i] = IF i <= Len(p) + 1 THEN ph[i] ELSE t[i - (Len(p) + 1)]
    BY <2>1, <2>2, <2>a
  <2>5. Len(a) = Len(b)
    BY <1>0, <2>3, <2>4
  <2>6. ASSUME NEW i \in 1 .. Len(a) PROVE a[i] = b[i]
    <3>1. CASE i <= Len(p)
      <4>1. /\ i \in 1 .. (Len(p) + 1) + (Len(q) - 1) /\ i \in 1 .. Len(p) + Len(q)
            /\ i <= Len(p) + 1 /\ i \in 1 .. Len(p)
        BY <1>0, <2>1, <3>1
      <4>2. a[i] = ph[i] /\ b[i] = p[i]
        BY <2>3, <2>4, <3>1, <4>1
      <4>. QED  BY <2>2, <4>1, <4>2
    <3>2. CASE i = Len(p) + 1
      <4>1. a[i] = h
        BY <1>0, <2>2, <2>3, <3>2
      <4>2. i \in 1 .. Len(p) + Len(q) /\ ~(i <= Len(p)) /\ i - Len(p) = 1
        BY <1>0, <2>1, <3>2
      <4>. QED  BY <2>1, <2>4, <4>1, <4>2
    <3>3. CASE i > Len(p) + 1
      <4>1. /\ i - (Len(p) + 1) \in 1 .. Len(t) /\ ~(i <= Len(p) + 1) /\ ~(i <= Len(p))
            /\ i - (Len(p) + 1) + 1 = i - Len(p) /\ i \in 1 .. Len(p) + Len(q)
            /\ i \in 1 .. (Len(p) + 1) + (Len(q) - 1)
        BY <1>0, <2>1, <2>3, <3>3
      <4>2. a[i] = t[i - (Len(p) + 1)] /\ b[i] = q[i - Len(p)]
        BY <2>3, <2>4, <4>1
      <4>. QED  BY <2>1, <4>1, <4>2
    <3>4. i <= Len(p) \/ i = Len(p) + 1 \/ i > Len(p) + 1
      BY <1>0
    <3>. QED  BY <3>1, <3>2, <3>3, <3>4
  <2>7. a = b
    BY <2>3, <2>4, <2>5, <2>6, SeqEqual
  <2>. QED  BY <2>7 DEF a, b, ph, h, t
<1>. QED  BY <1>1, <1>2

\* Seen from the inbox, each step is one of these.
Frame == returned[me][Len(returned[me])]
Pushable(f) == f.msgType = MsgAppMessage /\ MsgAppMessage \in handlers /\ f.payload # Garbage

Pushes ==
  /\ pc.reader = "dispatch" /\ pc'.reader = "idle"
  /\ Pushable(Frame)
  /\ inbox' = Append(inbox, Frame.payload)
  /\ UNCHANGED <<popped, handlers, returned>>

PassesBy ==
  /\ pc.reader = "dispatch" /\ pc'.reader = "idle"
  /\ ~Pushable(Frame)
  /\ UNCHANGED <<inbox, popped, handlers, returned>>

Hands ==
  /\ pc.reader # "dispatch" /\ pc'.reader = "dispatch"
  /\ Len(returned'[me]) = Len(returned[me]) + 1
  /\ UNCHANGED <<inbox, popped, handlers>>

Leaves ==
  /\ pc'.reader = "dispatch" <=> pc.reader = "dispatch"
  /\ returned'[me] = returned[me]
  /\ popped' \o inbox' = popped \o inbox
  /\ handlers \subseteq handlers'

LEMMA InboxSteps ==
  ASSUME ClientInv, [ClientNext]_clientVars
  PROVE  Pushes \/ PassesBy \/ Hands \/ Leaves
<1>0. /\ me \in Roles /\ peer \in Roles /\ me # peer
      /\ pc \in [sender : Places, reader : Places]
      /\ returned \in [Roles -> Seq(OpenedFrames)] /\ returned[me] \in Seq(OpenedFrames)
      /\ inbox \in Seq(Messages) /\ popped \in Seq(Messages)
  BY DEF me, peer, Roles, ClientInv, ClientTypeOK
<1>. DEFINE Same == UNCHANGED <<inbox, popped, handlers, returned>>
<1>1. ASSUME Same, pc' = pc \/ (\E x \in Places : pc' = [pc EXCEPT !["sender"] = x])
      PROVE  Leaves
  BY <1>0, <1>1 DEF Leaves
<1>2. ASSUME Same, pc.reader # "dispatch",
             NEW x \in Places, x # "dispatch", pc' = [pc EXCEPT !["reader"] = x]
      PROVE  Leaves
  BY <1>0, <1>2 DEF Leaves
<1>3. CASE Dispatch
  <2>1. pc.reader = "dispatch" /\ pc'.reader = "idle" /\ UNCHANGED <<popped, handlers, returned>>
    BY <1>0, <1>3 DEF Dispatch, Goto
  <2>2. IF Pushable(Frame) THEN inbox' = Append(inbox, Frame.payload) ELSE inbox' = inbox
    BY <1>3 DEF Dispatch, Pushable, Frame
  <2>. QED  BY <2>1, <2>2 DEF Pushes, PassesBy
<1>4. CASE ReadRecord
  <2>1. pc.reader # "dispatch" /\ pc'.reader = "dispatch" /\ UNCHANGED <<inbox, popped, handlers>>
    BY <1>0, <1>4 DEF ReadRecord, readFrame, Goto, application
  <2>2. returned'[me] = Append(returned[me], Opened(raw))
    BY <1>0, <1>4 DEF ReadRecord
  <2>3. Opened(raw) \in OpenedFrames
    <3>1. MayWrite(Peer(me), raw) /\ OpensInOrder(me, raw)
      <4>1. Peer(me) = peer /\ stream[peer] # << >>
        BY <1>4 DEF ReadRecord, readFrame, Peer, me, peer
      <4>. QED  BY <1>0, <1>4, <4>1, FirstUnderWay DEF ReadRecord, DecryptFrame, raw
    <3>. QED  BY <1>0, <3>1, OpensRecord
  <2>4. Len(returned'[me]) = Len(returned[me]) + 1
    BY <1>0, <2>2, <2>3
  <2>. QED  BY <2>1, <2>4 DEF Hands
<1>5. CASE TryRecv
  <2>1. UNCHANGED <<pc, returned, handlers>>
    BY <1>5 DEF TryRecv
  <2>2. popped' \o inbox' = popped \o inbox
    BY <1>0, <1>5, ConcatFacts DEF TryRecv
  <2>. QED  BY <2>1, <2>2 DEF Leaves
<1>6. ASSUME NEW m, RegisterHandler(m)
      PROVE  Leaves
  BY <1>6 DEF RegisterHandler, Leaves
<1>7. CASE PeerReads
  BY <1>0, <1>7 DEF PeerReads, Leaves, application
<1>8. ASSUME NEW c \in Channels, SendEncrypted(c) \/ SendRefused(c) \/ PeerSendsMessage(c)
      PROVE  Leaves
  <2>1. Same /\ (pc' = pc \/ pc' = [pc EXCEPT !["sender"] = "write"])
    BY <1>8 DEF SendEncrypted, SendRefused, PeerSendsMessage, PeerSends, Goto, application
  <2>. QED  BY <1>1, <2>1 DEF Places
<1>9. ASSUME NEW m, PeerSendsOther(m) \/ PeerWritesPlain(m)
      PROVE  Leaves
  <2>1. Same /\ pc' = pc
    BY <1>9 DEF PeerSendsOther, PeerSends, PeerWritesPlain, application
  <2>. QED  BY <1>1, <2>1
<1>10. CASE Break \/ ClientTick \/ UNCHANGED clientVars
  <2>1. Same /\ pc' = pc
    BY <1>10 DEF Break, ClientTick, clientVars, application
  <2>. QED  BY <1>1, <2>1
<1>11. CASE WriteRecord \/ WriteRecordFails
  <2>1. Same /\ \E x \in Places : pc' = [pc EXCEPT !["sender"] = x]
    BY <1>11 DEF WriteRecord, WriteRecordFails, Goto, Places, application
  <2>. QED  BY <1>1, <2>1
<1>12. CASE CheckBeat("sender") \/ WriteBeat("sender") \/ WriteBeatFails("sender")
  <2>1. Same /\ \E x \in Places : pc' = [pc EXCEPT !["sender"] = x]
    BY <1>12 DEF CheckBeat, WriteBeat, WriteBeatFails, AfterBeat, Goto, Places, application
  <2>. QED  BY <1>1, <2>1
<1>13. CASE CheckBeat("reader") \/ WriteBeat("reader") \/ WriteBeatFails("reader")
  <2>1. Same /\ pc.reader # "dispatch"
        /\ \E x \in Places : x # "dispatch" /\ pc' = [pc EXCEPT !["reader"] = x]
    BY <1>13 DEF CheckBeat, WriteBeat, WriteBeatFails, AfterBeat, Goto, Places, application
  <2>. QED  BY <1>2, <2>1
<1>14. CASE CallRead \/ ReadFails \/ ReadHeartbeat \/ ReadUnopened
  <2>1. Same /\ pc.reader # "dispatch"
        /\ \E x \in Places : x # "dispatch" /\ pc' = [pc EXCEPT !["reader"] = x]
    BY <1>14 DEF CallRead, ReadFails, ReadHeartbeat, ReadUnopened, readFrame, Goto, Places, application
  <2>. QED  BY <1>2, <2>1
<1>. QED  BY <1>3, <1>4, <1>5, <1>6, <1>7, <1>8, <1>9, <1>10, <1>11, <1>12, <1>13, <1>14
          DEF ClientNext, Sending, Receiving

\* The records of the peer that were there say what they said.
LEMMA FollowsKept ==
  ASSUME ClientInv, \A i \in 1 .. Len(sent[peer]) : sent'[peer][i] = sent[peer][i],
         NEW s, NEW n \in Nat, n <= Len(sent[peer]), Follows(s, n)
  PROVE  Follows(s, n)'
<1>0. peer \in Roles
  BY DEF peer, Roles
<1>1. /\ \A i \in 1 .. Len(sent[peer]) : Plain(peer, i)' = Plain(peer, i)
      /\ \A i, c : LastOf(peer, i, n, c)' <=> LastOf(peer, i, n, c)
  BY <1>0, OldRecords
<1>2. \A k \in 1 .. n : k \in 1 .. Len(sent[peer])
  BY <1>0, RecordFacts
<1>. QED  BY <1>1, <1>2 DEF Follows

\* A record that is no message may be counted in.
LEMMA FollowsPast ==
  ASSUME NEW s, NEW n \in Nat, Follows(s, n), \A c : ~OfChannel(peer, n + 1, c)
  PROVE  Follows(s, n + 1)
<1>1. ASSUME NEW k \in 1 .. n, NEW c, LastOf(peer, k, n, c)
      PROVE  LastOf(peer, k, n + 1, c) /\ k \in 1 .. n + 1
  <2>1. \A j \in k + 1 .. n + 1 : j \in k + 1 .. n \/ j = n + 1
    OBVIOUS
  <2>2. k \in 1 .. n + 1
    OBVIOUS
  <2>. QED  BY <1>1, <2>1, <2>2 DEF LastOf
<1>. QED  BY <1>1 DEF Follows

\* A message goes to the end of the inbox.
LEMMA FollowsPushed ==
  ASSUME NEW s \in Seq(Messages), NEW n \in Nat, NEW m \in Messages, Follows(s, n),
         m = Plain(peer, n + 1), OfChannel(peer, n + 1, m.channel)
  PROVE  Follows(Append(s, m), n + 1)
<1>. DEFINE t == Append(s, m)
<1>0. Len(s) \in Nat /\ DOMAIN s = 1 .. Len(s)
  OBVIOUS
<1>1. /\ DOMAIN t = 1 .. Len(s) + 1 /\ Len(t) = Len(s) + 1 /\ t[Len(s) + 1] = m
      /\ \A i \in 1 .. Len(s) : t[i] = s[i]
  OBVIOUS
<1>. HIDE DEF t
<1>2. \A c : OfChannel(peer, n + 1, c) => c = m.channel
  BY DEF OfChannel
<1>3. ASSUME NEW i \in 1 .. Len(s) + 1,
             \A j \in i + 1 .. Len(s) + 1 : t[j].channel # t[i].channel
      PROVE  \E k \in 1 .. n + 1 :
               LastOf(peer, k, n + 1, t[i].channel) /\ t[i] = Plain(peer, k)
  <2>1. CASE i = Len(s) + 1
    <3>1. n + 1 \in 1 .. n + 1 /\ \A k \in n + 1 + 1 .. n + 1 : FALSE
      OBVIOUS
    <3>2. LastOf(peer, n + 1, n + 1, m.channel)
      BY <3>1 DEF LastOf
    <3>. QED  BY <1>1, <2>1, <3>1, <3>2
  <2>2. CASE i \in 1 .. Len(s)
    <3>1. /\ Len(s) + 1 \in i + 1 .. Len(s) + 1
          /\ \A j \in i + 1 .. Len(s) : j \in i + 1 .. Len(s) + 1 /\ j \in 1 .. Len(s)
      BY <1>0, <2>2
    <3>2. t[i] = s[i] /\ m.channel # s[i].channel
      BY <1>1, <1>3, <2>2, <3>1
    <3>3. \A j \in i + 1 .. Len(s) : s[j].channel # s[i].channel
      BY <1>1, <1>3, <3>1, <3>2
    <3>4. PICK k \in 1 .. n : LastOf(peer, k, n, s[i].channel) /\ s[i] = Plain(peer, k)
      BY <1>0, <2>2, <3>3 DEF Follows
    <3>5. /\ k \in 1 .. n + 1
          /\ \A j \in k + 1 .. n + 1 : j \in k + 1 .. n \/ j = n + 1
      OBVIOUS
    <3>6. LastOf(peer, k, n + 1, s[i].channel)
      BY <1>2, <3>2, <3>4, <3>5 DEF LastOf
    <3>. QED  BY <3>2, <3>4, <3>5, <3>6
  <2>. QED  BY <1>0, <2>1, <2>2
<1>4. Follows(t, n + 1)
  BY <1>1, <1>3 DEF Follows
<1>. QED  BY <1>4 DEF t

\* It bears the number after that of the last of its channel.
LEMMA ConsecutivePushed ==
  ASSUME ClientInv, NEW s \in Seq(Messages), NEW n \in Nat, NEW m \in Messages,
         n + 1 <= Len(sent[peer]), SealedInOrder(peer), Follows(s, n), Consecutive(s),
         m = Plain(peer, n + 1), OfChannel(peer, n + 1, m.channel)
  PROVE  Consecutive(Append(s, m))
<1>. DEFINE t == Append(s, m)
<1>0. Len(s) \in Nat /\ DOMAIN s = 1 .. Len(s)
  OBVIOUS
<1>1. /\ DOMAIN t = 1 .. Len(s) + 1 /\ t[Len(s) + 1] = m
      /\ \A i \in 1 .. Len(s) : t[i] = s[i]
  OBVIOUS
<1>2. DOMAIN sent[peer] = 1 .. Len(sent[peer]) /\ Len(sent[peer]) \in Nat
  BY RecordFacts DEF peer, Roles
<1>3. m.channel \in Channels
  BY ClientAssumption DEF Messages
<1>. HIDE DEF t
<1>4. ASSUME NEW i \in 1 .. Len(s) + 1, NEW j \in 1 .. Len(s) + 1, i < j,
             t[i].channel = t[j].channel,
             \A k \in i + 1 .. j - 1 : t[k].channel # t[j].channel
      PROVE  t[j].seq = (t[i].seq + 1) % (MaxUint32 + 1)
  <2>0. i \in 1 .. Len(s) /\ t[i] = s[i]
    BY <1>0, <1>1, <1>4
  <2>1. CASE j \in 1 .. Len(s)
    <3>1. \A k \in i + 1 .. j - 1 : k \in 1 .. Len(s)
      BY <1>0, <2>1
    <3>2. t[j] = s[j]
      BY <1>1, <2>1
    <3>3. \A k \in i + 1 .. j - 1 : s[k].channel # s[j].channel
      BY <1>1, <1>4, <3>1, <3>2
    <3>. QED  BY <1>0, <1>4, <2>0, <2>1, <3>2, <3>3 DEF Consecutive
  <2>2. CASE j = Len(s) + 1
    <3>1. t[j] = m /\ s[i].channel = m.channel
      BY <1>1, <1>4, <2>0, <2>2
    <3>2. \A k \in i + 1 .. Len(s) : k \in i + 1 .. j - 1 /\ k \in 1 .. Len(s)
      BY <1>0, <2>2
    <3>3. \A k \in i + 1 .. Len(s) : s[k].channel # s[i].channel
      BY <1>1, <1>4, <3>1, <3>2
    <3>4. PICK k \in 1 .. n : LastOf(peer, k, n, s[i].channel) /\ s[i] = Plain(peer, k)
      BY <1>0, <2>0, <3>3 DEF Follows
    <3>5. /\ k \in DOMAIN sent[peer] /\ n + 1 \in DOMAIN sent[peer] /\ (n + 1) - 1 = n
      BY <1>2
    <3>6. LastOf(peer, k, (n + 1) - 1, m.channel)
      BY <3>1, <3>4, <3>5
    <3>7. Plain(peer, n + 1).seq = Succ(Plain(peer, k).seq)
      BY <1>3, <3>5, <3>6 DEF SealedInOrder
    <3>. QED  BY <2>0, <3>1, <3>4, <3>7 DEF Succ
  <2>. QED  BY <1>0, <2>1, <2>2
<1>5. Consecutive(t)
  BY <1>1, <1>4 DEF Consecutive
<1>. QED  BY <1>5 DEF t

\* The frame that is dispatched is what the peer's next record opened to.
LEMMA DispatchFacts ==
  ASSUME ClientInv
  PROVE  /\ Dispatched \in Nat /\ Dispatched <= Len(sent[peer])
         /\ Received \in Seq(Messages)
         /\ pc.reader = "dispatch" =>
              /\ Dispatched + 1 <= Len(sent[peer])
              /\ Frame.msgType = sent[peer][Dispatched + 1].msgType
              /\ Frame.payload = Plain(peer, Dispatched + 1)
              /\ Frame.payload \in Payloads
<1>0. me \in Roles /\ Peer(me) = peer /\ Len(sent[peer]) \in Nat
  BY RecordFacts DEF me, peer, Roles, Peer
<1>1. returned[me] \in Seq(OpenedFrames) /\ Len(returned[me]) \in Nat
  BY <1>0 DEF ClientInv, ClientTypeOK
<1>2. /\ Len(returned[me]) <= Len(sent[peer])
      /\ \A i \in DOMAIN returned[me] : returned[me][i] = Opened(sent[peer][i])
  BY <1>0 DEF ClientInv, PrefixReturned
<1>3. pc.reader = "dispatch" => Len(returned[me]) > 0
  BY <1>1 DEF ClientInv, HasFrame
<1>4. Received \in Seq(Messages)
  BY DEF ClientInv, ClientTypeOK, Received
<1>5. ASSUME pc.reader = "dispatch"
      PROVE  /\ Frame.msgType = sent[peer][Dispatched + 1].msgType
             /\ Frame.payload = Plain(peer, Dispatched + 1)
             /\ Frame.payload \in Payloads
  <2>1. Dispatched + 1 = Len(returned[me]) /\ Len(returned[me]) \in DOMAIN returned[me]
    BY <1>1, <1>3, <1>5 DEF Dispatched
  <2>2. Frame = Opened(sent[peer][Dispatched + 1]) /\ Frame \in OpenedFrames
    BY <1>1, <1>2, <2>1 DEF Frame
  <2>. QED  BY <2>2 DEF Opened, crypto!NewFrame, Plain, OpenedFrames
<1>6. /\ Dispatched \in Nat /\ Dispatched <= Len(sent[peer])
      /\ pc.reader = "dispatch" => Dispatched + 1 <= Len(sent[peer])
  BY <1>0, <1>1, <1>2, <1>3 DEF Dispatched
<1>. QED  BY <1>4, <1>5, <1>6

LEMMA InboxStep ==
  ASSUME ClientInv, OrderInv, [ClientNext]_clientVars
  PROVE  InboxFollows' /\ Consecutive(Received)'
<1>0. peer \in Roles /\ me \in Roles /\ MsgAppMessage \in MsgTypes
  BY ClientAssumption DEF peer, me, Roles
<1>1. PICK n \in Nat : n = Dispatched
  BY DispatchFacts
<1>2. PICK s \in Seq(Messages) : s = Received
  BY DispatchFacts
<1>3. /\ n <= Len(sent[peer])
      /\ pc.reader = "dispatch" =>
           /\ n + 1 <= Len(sent[peer])
           /\ Frame.msgType = sent[peer][n + 1].msgType
           /\ Frame.payload = Plain(peer, n + 1)
           /\ Frame.payload \in Payloads
  BY <1>1, DispatchFacts
<1>4. /\ s # << >> => MsgAppMessage \in handlers
      /\ Follows(s, n) /\ Consecutive(s) /\ SealedInOrder(peer)
  BY <1>0, <1>1, <1>2 DEF OrderInv, InboxFollows
<1>5. \A i \in 1 .. Len(sent[peer]) : sent'[peer][i] = sent[peer][i]
  BY <1>0, RecordFacts, SessionKept
<1>6. returned[me] \in Seq(OpenedFrames) /\ Len(returned[me]) \in Nat
  BY <1>0 DEF ClientInv, ClientTypeOK
\* It is enough to say what the inbox and the dispatcher have come to.
<1>7. ASSUME NEW t, NEW k \in Nat, Received' = t, Dispatched' = k, k <= Len(sent[peer]),
             t # << >> => MsgAppMessage \in handlers', Follows(t, k), Consecutive(t)
      PROVE  InboxFollows' /\ Consecutive(Received)'
  <2>1. Follows(t, k)'
    BY <1>5, <1>7, FollowsKept
  <2>2. InboxFollows'
    BY <1>7, <2>1 DEF InboxFollows, Follows, LastOf, OfChannel, Plain
  <2>3. Consecutive(Received)'
    BY <1>7 DEF Consecutive
  <2>. QED  BY <2>2, <2>3
<1>8. CASE Pushes
  <2>. DEFINE m == Frame.payload
  <2>1. /\ pc.reader = "dispatch" /\ pc'.reader = "idle"
        /\ Frame.msgType = MsgAppMessage /\ MsgAppMessage \in handlers /\ m # Garbage
        /\ inbox' = Append(inbox, m) /\ popped' = popped
        /\ handlers' = handlers /\ returned' = returned
    BY <1>8 DEF Pushes, Pushable
  <2>2. m \in Messages /\ m = Plain(peer, n + 1) /\ n + 1 <= Len(sent[peer])
    BY <1>3, <2>1 DEF Messages
  <2>3. OfChannel(peer, n + 1, m.channel)
    BY <1>3, <2>1, <2>2 DEF OfChannel
  <2>. HIDE DEF m
  <2>4. inbox \in Seq(Messages) /\ popped \in Seq(Messages)
    BY DEF ClientInv, ClientTypeOK
  <2>5. Received' = Append(s, m)
    <3>1. popped \o Append(inbox, m) = Append(popped \o inbox, m)
      BY <2>2, <2>4, ConcatFacts
    <3>. QED  BY <1>2, <2>1, <3>1 DEF Received
  <2>6. PICK x \in Messages : x = m
    BY <2>2
  <2>7. Dispatched' = n + 1
    BY <1>1, <1>6, <2>1 DEF Dispatched
  <2>8. Follows(Append(s, x), n + 1) /\ Consecutive(Append(s, x))
    BY <1>4, <2>2, <2>3, <2>6, FollowsPushed, ConsecutivePushed
  <2>9. n + 1 \in Nat /\ Received' = Append(s, x)
    BY <2>5, <2>6
  <2>. QED  BY <1>7, <2>1, <2>2, <2>7, <2>8, <2>9
<1>9. CASE PassesBy
  <2>1. /\ pc.reader = "dispatch" /\ pc'.reader = "idle" /\ ~Pushable(Frame)
        /\ Received' = s /\ handlers' = handlers /\ returned' = returned
    BY <1>2, <1>9 DEF PassesBy, Received
  <2>2. Dispatched' = n + 1 /\ n + 1 \in Nat /\ n + 1 <= Len(sent[peer])
    BY <1>1, <1>3, <1>6, <2>1 DEF Dispatched
  <2>3. Follows(s, n + 1)
    <3>1. CASE MsgAppMessage \in handlers
      <4>1. \A c : ~OfChannel(peer, n + 1, c)
        BY <1>3, <2>1, <3>1 DEF Pushable, OfChannel
      <4>. QED  BY <1>4, <4>1, FollowsPast
    <3>2. CASE MsgAppMessage \notin handlers
      <4>1. DOMAIN s = {}
        BY <1>4, <3>2
      <4>. QED  BY <4>1 DEF Follows
    <3>. QED  BY <3>1, <3>2
  <2>. QED  BY <1>4, <1>7, <2>1, <2>2, <2>3
<1>10. CASE Hands
  <2>1. /\ pc.reader # "dispatch" /\ pc'.reader = "dispatch"
        /\ Len(returned'[me]) = Len(returned[me]) + 1
        /\ Received' = s /\ handlers' = handlers
    BY <1>2, <1>10 DEF Hands, Received
  <2>2. Dispatched' = n
    <3>1. Dispatched' = Len(returned'[me]) - 1
      BY <2>1 DEF Dispatched, me
    <3>. QED  BY <1>1, <1>6, <2>1, <3>1 DEF Dispatched
  <2>. QED  BY <1>3, <1>4, <1>7, <2>1, <2>2
<1>11. CASE Leaves
  <2>1. /\ pc'.reader = "dispatch" <=> pc.reader = "dispatch"
        /\ returned'[me] = returned[me]
        /\ Received' = s /\ handlers \subseteq handlers'
    BY <1>2, <1>11 DEF Leaves, Received
  <2>2. Dispatched' = n
    BY <1>1, <2>1 DEF Dispatched, me
  <2>. QED  BY <1>3, <1>4, <1>7, <2>1, <2>2
<1>. QED  BY <1>8, <1>9, <1>10, <1>11, InboxSteps

-----------------------------------------------------------------------------
LEMMA OrderInitInv == ClientInit => OrderInv
<1>. SUFFICES ASSUME ClientInit PROVE OrderInv
  OBVIOUS
<1>1. /\ \A r \in Roles : sent[r] = << >>
      /\ popped = << >> /\ inbox = << >> /\ me \in Roles
  BY DEF ClientInit, Init, me, Roles
<1>2. \A r \in Roles : SealedInOrder(r) /\ CounterInOrder(r)
  BY <1>1 DEF SealedInOrder, CounterInOrder
<1>3. OwnMessages
  BY <1>1 DEF OwnMessages
<1>4. Received = << >>
  BY <1>1 DEF Received
<1>5. InboxFollows /\ Consecutive(Received)
  BY <1>4 DEF InboxFollows, Follows, Consecutive
<1>. QED  BY <1>2, <1>3, <1>5 DEF OrderInv

\* What the peer got, taken as messages, is in order since the client seals
\* nothing but messages.
LEMMA PeerInOrder ==
  ASSUME ClientInv, OrderInv
  PROVE  Consecutive([i \in DOMAIN returned[peer] |-> returned[peer][i].payload])
<1>. DEFINE got == [i \in DOMAIN returned[peer] |-> returned[peer][i].payload]
<1>0. me \in Roles /\ peer \in Roles /\ Peer(peer) = me
  BY DEF me, peer, Roles, Peer
<1>1. returned[peer] \in Seq(OpenedFrames) /\ Len(returned[peer]) \in Nat
  BY <1>0 DEF ClientInv, ClientTypeOK
<1>2. /\ Len(returned[peer]) <= Len(sent[me])
      /\ \A i \in DOMAIN returned[peer] : returned[peer][i] = Opened(sent[me][i])
  BY <1>0 DEF ClientInv, PrefixReturned
<1>3. DOMAIN sent[me] = 1 .. Len(sent[me]) /\ Len(sent[me]) \in Nat
  BY <1>0, RecordFacts
<1>4. PICK n \in Nat : n = Len(returned[peer])
  BY <1>1
<1>5. DOMAIN got = 1 .. n /\ DOMAIN returned[peer] = 1 .. n
  BY <1>1, <1>4
<1>6. \A i \in 1 .. n : i \in DOMAIN sent[me]
  BY <1>2, <1>3, <1>4
<1>7. ASSUME NEW i \in 1 .. n PROVE got[i] = Plain(me, i)
  <2>1. got[i] = returned[peer][i].payload
    BY <1>5
  <2>2. returned[peer][i] = Opened(sent[me][i])
    BY <1>2, <1>5
  <2>. QED  BY <2>1, <2>2 DEF Opened, crypto!NewFrame, Plain
<1>. HIDE DEF got
<1>a. \A i \in 1 .. n : sent[me][i].msgType = MsgAppMessage /\ Plain(me, i) \in Messages
  BY <1>6 DEF OrderInv, OwnMessages
<1>8. \A i \in 1 .. n : \A c : OfChannel(me, i, c) <=> got[i].channel = c
  BY <1>7, <1>a DEF OfChannel, Messages
<1>9. \A i \in 1 .. n : got[i].channel \in Channels
  <2>1. \A m \in Messages : m.channel \in Channels
    BY ClientAssumption DEF Messages
  <2>. QED  BY <1>7, <1>a, <2>1
<1>10. ASSUME NEW i \in 1 .. n, NEW j \in 1 .. n, i < j,
              got[i].channel = got[j].channel,
              \A k \in i + 1 .. j - 1 : got[k].channel # got[j].channel
       PROVE  got[j].seq = (got[i].seq + 1) % (MaxUint32 + 1)
  <2>1. i \in 1 .. j - 1 /\ \A k \in i + 1 .. j - 1 : k \in 1 .. n
    BY <1>10
  <2>2. LastOf(me, i, j - 1, got[j].channel)
    BY <1>8, <1>10, <2>1 DEF LastOf
  <2>3. SealedInOrder(me)
    BY <1>0 DEF OrderInv
  <2>4. Plain(me, j).seq = Succ(Plain(me, i).seq)
    BY <1>6, <1>8, <1>9, <2>2, <2>3 DEF SealedInOrder
  <2>. QED  BY <1>7, <2>4 DEF Succ
<1>11. Consecutive(got)
  BY <1>5, <1>10 DEF Consecutive
<1>. QED  BY <1>11 DEF got

\* On each channel the messages the owner takes from the inbox, and those the
\* peer gets from the client, are numbered one after the other, although the
\* counter wraps and the handler may be registered late (app.go:261).
THEOREM ClientChannelsInOrder == ClientSpec => []ChannelsInOrder
<1>1. ClientInit => OrderInv
  BY OrderInitInv
<1>2. ClientInv /\ OrderInv /\ [ClientNext]_clientVars => OrderInv'
  <2>. SUFFICES ASSUME ClientInv, OrderInv, [ClientNext]_clientVars PROVE OrderInv'
    OBVIOUS
  <2>1. /\ \A q \in Roles : SealedInOrder(q)' /\ CounterInOrder(q)'
        /\ OwnMessages' /\ InboxFollows' /\ Consecutive(Received)'
    BY SealedOrderStep, InboxStep
  <2>. QED  BY <2>1 DEF OrderInv
<1>3. ClientInv /\ OrderInv => ChannelsInOrder
  BY PeerInOrder DEF OrderInv, ChannelsInOrder, Received
<1>. QED  BY <1>1, <1>2, <1>3, ClientInvariant, PTL DEF ClientSpec
=============================================================================
