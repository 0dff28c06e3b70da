------------------------------- MODULE Session ------------------------------
(***************************************************************************)
(* The secure session of transport/session/session.go: the two ends that   *)
(* a handshake leaves behind, each sealing the frames it sends under its   *)
(* TxKey and numbering them with TxSequence, and opening what it receives  *)
(* under RxKey, either strictly in order (the TCP replay mode) or through  *)
(* the sliding replay window (the UDP replay mode).  Each end rekeys each  *)
(* direction when its owner says so; the ends do not coordinate this.      *)
(*                                                                         *)
(* The session is handed frames by its owner and does not know how they    *)
(* travelled: any frame ever sealed by either end may be presented to      *)
(* either end at any time, again or never, also with a damaged header.     *)
(***************************************************************************)
EXTENDS ReplayWindow, Sequences

CONSTANTS
  TagSize,       \* bytes that sealing adds to a payload
  MaxUint32,     \* largest value of an epoch counter
  MsgTypes,      \* message types a header can have
  Payloads,      \* the payloads that are sent
  PayloadLen,    \* the length of each of them
  Policies,      \* rekey policies an owner may set: [maxBytes, maxAge]
  InitPolicy,    \* the policy negotiated by the handshake
  Modes,         \* replay modes an owner may set
  SentTypes,     \* bound: message types of the frames that are sent
  Senders,       \* bound: the ends that send and rekey outbound
  Receivers,     \* bound: the ends that receive and rekey inbound
  MaxSends,      \* bound: frames sealed by one end
  MaxRekeys,     \* bound: rekeys of one direction by one end
  MaxClock       \* bound: beyond this all ages look alike

Roles == {"initiator", "responder"}
Peer(r) == IF r = "initiator" THEN "responder" ELSE "initiator"

ReplayModes == {"OrderedTCP", "SlidingUDP"}
Policy == [maxBytes : Nat, maxAge : Nat]

ASSUME SessionAssumption ==
  /\ TagSize \in Nat \ {0}
  /\ MaxUint32 \in Nat
  /\ PayloadLen \in [Payloads -> Nat]
  /\ \A p \in Payloads : PayloadLen[p] + TagSize <= MaxUint64
  /\ Policies \subseteq Policy
  /\ \A p \in Policies : p.maxBytes <= MaxUint64
  /\ InitPolicy \in Policies
  /\ Modes \subseteq ReplayModes
  /\ SentTypes \subseteq MsgTypes
  /\ Senders \subseteq Roles
  /\ Receivers \subseteq Roles
  /\ MaxSends \in Nat
  /\ MaxRekeys \in Nat
  /\ MaxClock \in Nat

VARIABLES
  tx,          \* the outbound half of each State
  rx,          \* the inbound half of each State
  idle,        \* time since each State.LastSeen
  sent,        \* history: the sealed frames of each end, in order
  delivered,   \* history: the records each end opened, since the last call
               \* of SetReplayMode that discarded what it knew
  epochBytes   \* history: bytes each end sealed in its outbound epoch

vars == <<tx, rx, idle, sent, delivered, epochBytes>>

-----------------------------------------------------------------------------
(***************************************************************************)
(* The parts of State.                                                     *)
(***************************************************************************)
SessionID == "sid"

crypto == INSTANCE Cipher

\* The two directional keys of deriveTransportKeys.
TxSecret(r) == IF r = "initiator" THEN "i2r" ELSE "r2i"
RxSecret(r) == TxSecret(Peer(r))

txDirection(r) == IF r = "initiator" THEN 1 ELSE 2
rxDirection(r) == IF r = "initiator" THEN 2 ELSE 1

\* maxUint64 and maxDuration with the minimum 1 they are called with.
AtLeastOne(v) == IF v < 1 THEN 1 ELSE v

\* What ++ does to a uint64 counter.
Increment(n) == (n + 1) % (MaxUint64 + 1)

Later(t) == IF t < MaxClock THEN t + 1 ELSE t

Init ==
  /\ tx = [r \in Roles |->
             [key |-> crypto!SessionKey(TxSecret(r)), epoch |-> 0, sequence |-> 0,
              bytes |-> 0, age |-> 0,
              maxBytes |-> AtLeastOne(InitPolicy.maxBytes),
              maxAge   |-> AtLeastOne(InitPolicy.maxAge),
              required |-> FALSE, reason |-> "nil"]]
  /\ rx = [r \in Roles |->
             [key |-> crypto!SessionKey(RxSecret(r)), epoch |-> 0, sequence |-> 0,
              mode |-> "OrderedTCP", window |-> EmptyWindow]]
  /\ idle = [r \in Roles |-> 0]
  /\ sent = [r \in Roles |-> << >>]
  /\ delivered = [r \in Roles |-> {}]
  /\ epochBytes = [r \in Roles |-> 0]

Touched(r) == idle' = [idle EXCEPT ![r] = 0]

-----------------------------------------------------------------------------
(***************************************************************************)
(* Sending and the outbound epoch.                                         *)
(***************************************************************************)
\* Seeded fault: the byte budget is compared strictly.
RefreshTooLate(t) ==
  IF t.required \/ t.bytes <= t.maxBytes
    THEN t
    ELSE [t EXCEPT !.required = TRUE, !.reason = "bytes"]

refreshRekeyTrigger(t) ==
  LET due == CASE t.bytes >= t.maxBytes -> "bytes"
               [] t.bytes < t.maxBytes /\ t.age >= t.maxAge -> "time"
               [] OTHER -> "nil"
  IN  IF t.required \/ due = "nil"
        THEN t
        ELSE [t EXCEPT !.required = TRUE, !.reason = due]

\* The record that EncryptFrame makes of frame f.
SealedFrame(r, f) ==
  crypto!EncryptFrame(f, tx[r].key,
                      crypto!DeriveNonce(SessionID, tx[r].key, txDirection(r), tx[r].sequence),
                      crypto!BuildAAD(f, tx[r].epoch, tx[r].sequence))

\* Seeded fault: the counter is not checked.
CanSealAlways(r, f) == ~crypto!IsEncrypted(f)

\* The checks of EncryptFrame.
CanSeal(r, f) ==
  /\ ~crypto!IsEncrypted(f)
  /\ tx[r].sequence # MaxUint64

\* State.EncryptFrame.  Both counters are uint64 and wrap; only the check in
\* CanSeal keeps the sequence from doing so.
EncryptFrame(r, f) ==
  LET t == tx[r]
      n == crypto!SealedLen(SealedFrame(r, f).payload)
  IN  /\ Len(sent[r]) < MaxSends
      /\ CanSeal(r, f)
      /\ sent' = [sent EXCEPT ![r] = Append(@, SealedFrame(r, f))]
      /\ tx' = [tx EXCEPT ![r] = refreshRekeyTrigger(
                 [t EXCEPT !.sequence = Increment(t.sequence),
                           !.bytes = (t.bytes + n) % (MaxUint64 + 1)])]
      /\ epochBytes' = [epochBytes EXCEPT ![r] = @ + n]
      /\ Touched(r)
      /\ UNCHANGED <<rx, delivered>>

MarkRekeyManual(r) ==
  /\ tx' = [tx EXCEPT ![r].required = TRUE, ![r].reason = "manual"]
  /\ UNCHANGED <<rx, idle, sent, delivered, epochBytes>>

\* The trigger is not looked at again until the next EncryptFrame.
SetRekeyPolicy(r, p) ==
  /\ tx' = [tx EXCEPT ![r].maxBytes = AtLeastOne(p.maxBytes),
                      ![r].maxAge   = AtLeastOne(p.maxAge)]
  /\ UNCHANGED <<rx, idle, sent, delivered, epochBytes>>

\* Seeded fault: the counter restarts under the key it has already counted.
RekeyKeepsKey(r) ==
  LET t == tx[r]
  IN  /\ Len(t.key.chain) < MaxRekeys
      /\ tx' = [tx EXCEPT ![r] =
                 [t EXCEPT !.epoch = (t.epoch + 1) % (MaxUint32 + 1),
                           !.sequence = 0, !.bytes = 0, !.age = 0,
                           !.required = FALSE, !.reason = "nil"]]
      /\ epochBytes' = [epochBytes EXCEPT ![r] = 0]
      /\ UNCHANGED <<rx, idle, sent, delivered>>

RekeyOutbound(r) ==
  LET t == tx[r]
  IN  /\ Len(t.key.chain) < MaxRekeys
      /\ tx' = [tx EXCEPT ![r] =
                 [t EXCEPT !.key = crypto!RekeyMaterial(t.key, SessionID, txDirection(r)),
                           !.epoch = (t.epoch + 1) % (MaxUint32 + 1),
                           !.sequence = 0, !.bytes = 0, !.age = 0,
                           !.required = FALSE, !.reason = "nil"]]
      /\ epochBytes' = [epochBytes EXCEPT ![r] = 0]
      /\ UNCHANGED <<rx, idle, sent, delivered>>

-----------------------------------------------------------------------------
(***************************************************************************)
(* Receiving and the inbound epoch.                                        *)
(***************************************************************************)
\* Record f opens under the inbound key and epoch as number sequence.
OpensAs(r, f, sequence) ==
  crypto!Opens(f, rx[r].key,
               crypto!DeriveNonce(SessionID, rx[r].key, rxDirection(r), sequence),
               crypto!BuildAAD(f, rx[r].epoch, sequence))

\* The checks of DecryptFrame.
OpensInOrder(r, f) ==
  /\ crypto!IsEncrypted(f)
  /\ rx[r].mode = "OrderedTCP"
  /\ rx[r].sequence # MaxUint64
  /\ OpensAs(r, f, rx[r].sequence)

\* The checks of DecryptFrameUDP, the caller claiming number sequence.
OpensSliding(r, f, sequence) ==
  /\ crypto!IsEncrypted(f)
  /\ rx[r].mode = "SlidingUDP"
  /\ validateCandidate(rx[r].window, sequence) = "ok"
  /\ OpensAs(r, f, sequence)
  /\ ~markPanics(rx[r].window, sequence)

\* Seeded fault: the inbound counter stands still.
DecryptFrameKeepsCounter(r, f) ==
  /\ OpensInOrder(r, f)
  /\ delivered' = [delivered EXCEPT ![r] = @ \cup {f}]
  /\ Touched(r)
  /\ UNCHANGED <<tx, rx, sent, epochBytes>>

DecryptFrame(r, f) ==
  /\ OpensInOrder(r, f)
  /\ rx' = [rx EXCEPT ![r].sequence = Increment(@)]
  /\ delivered' = [delivered EXCEPT ![r] = @ \cup {f}]
  /\ Touched(r)
  /\ UNCHANGED <<tx, sent, epochBytes>>

DecryptFrameUDP(r, f, sequence) ==
  /\ OpensSliding(r, f, sequence)
  /\ rx' = [rx EXCEPT ![r].window = markSeen(@, sequence)]
  /\ delivered' = [delivered EXCEPT ![r] = @ \cup {f}]
  /\ Touched(r)
  /\ UNCHANGED <<tx, sent, epochBytes>>

\* Entering the sliding mode, also from itself, starts an empty window; the
\* in-order counter survives every change of mode.
SetReplayMode(r, mode) ==
  /\ rx' = [rx EXCEPT ![r].mode = mode,
                      ![r].window = IF mode = "SlidingUDP" THEN EmptyWindow ELSE @]
  /\ delivered' = IF mode = "OrderedTCP" /\ rx[r].mode = "OrderedTCP"
                    THEN delivered
                    ELSE [delivered EXCEPT ![r] = {}]
  /\ UNCHANGED <<tx, idle, sent, epochBytes>>

\* Seeded fault: the inbound counter and window go on as before.
RekeyInboundKeepsPlace(r) ==
  LET t == rx[r]
  IN  /\ Len(t.key.chain) < MaxRekeys
      /\ rx' = [rx EXCEPT ![r] =
                 [t EXCEPT !.key = crypto!RekeyMaterial(t.key, SessionID, rxDirection(r)),
                           !.epoch = (t.epoch + 1) % (MaxUint32 + 1)]]
      /\ UNCHANGED <<tx, idle, sent, delivered, epochBytes>>

\* Seeded fault: the inbound epoch number is left behind.
RekeyInboundKeepsEpoch(r) ==
  LET t == rx[r]
  IN  /\ Len(t.key.chain) < MaxRekeys
      /\ rx' = [rx EXCEPT ![r] =
                 [t EXCEPT !.key = crypto!RekeyMaterial(t.key, SessionID, rxDirection(r)),
                           !.sequence = 0, !.window = EmptyWindow]]
      /\ UNCHANGED <<tx, idle, sent, delivered, epochBytes>>

RekeyInbound(r) ==
  LET t == rx[r]
  IN  /\ Len(t.key.chain) < MaxRekeys
      /\ rx' = [rx EXCEPT ![r] =
                 [t EXCEPT !.key = crypto!RekeyMaterial(t.key, SessionID, rxDirection(r)),
                           !.epoch = (t.epoch + 1) % (MaxUint32 + 1),
                           !.sequence = 0, !.window = EmptyWindow]]
      /\ UNCHANGED <<tx, idle, sent, delivered, epochBytes>>

-----------------------------------------------------------------------------
\* State.Touch by itself, as the router's handlers call it.
Touch(r) ==
  /\ Touched(r)
  /\ UNCHANGED <<tx, rx, sent, delivered, epochBytes>>

\* A second passes.
Tick ==
  /\ tx' = [r \in Roles |-> [tx[r] EXCEPT !.age = Later(@)]]
  /\ idle' = [r \in Roles |-> Later(idle[r])]
  /\ UNCHANGED <<rx, sent, delivered, epochBytes>>

\* The frames an owner may present: any record, its header intact or not.
Presented ==
  {[sent[x[1]][x[2]] EXCEPT !.msgType = x[3]] :
     x \in {y \in Roles \X (1 .. MaxSends) \X MsgTypes : y[2] <= Len(sent[y[1]])}}

PlainFrames == {crypto!NewFrame(m, p) : m \in MsgTypes, p \in Payloads}
SentFrames == {f \in PlainFrames : f.msgType \in SentTypes}

Next ==
  \/ \E r \in Senders :
       \/ \E f \in SentFrames : EncryptFrame(r, f)
       \/ \E p \in Policies : SetRekeyPolicy(r, p)
       \/ MarkRekeyManual(r)
       \/ RekeyOutbound(r)
  \/ \E r \in Receivers :
       \/ \E f \in Presented : DecryptFrame(r, f)
       \/ \E f \in Presented, s \in Uint64 : DecryptFrameUDP(r, f, s)
       \/ \E m \in Modes : SetReplayMode(r, m)
       \/ RekeyInbound(r)
  \/ \E r \in Roles : Touch(r)
  \/ Tick

Spec == Init /\ [][Next]_vars
-----------------------------------------------------------------------------
(***************************************************************************)
(* Properties.                                                             *)
(***************************************************************************)
Keys == [secret : {"i2r", "r2i"}, chain : Seq({SessionID} \X {1, 2})]

SealedFrames ==
  [msgType : MsgTypes,
   flags   : {{"encrypted"}},
   payload : [key   : Keys,
              nonce : [sessionID : {SessionID}, key : Keys, direction : {1, 2},
                       sequence : Uint64],
              plain : Payloads,
              aad   : [msgType : MsgTypes, flags : {{"encrypted"}},
                       epoch : 0 .. MaxUint32, sequence : Uint64]]]

TxStates ==
  [key : Keys, epoch : 0 .. MaxUint32, sequence : Uint64, bytes : Uint64,
   age : 0 .. MaxClock, maxBytes : Nat \ {0}, maxAge : Nat \ {0},
   required : BOOLEAN, reason : {"nil", "bytes", "time", "manual"}]

RxStates ==
  [key : Keys, epoch : 0 .. MaxUint32, sequence : Uint64,
   mode : ReplayModes, window : Window]

TypeOK ==
  /\ tx \in [Roles -> TxStates]
  /\ rx \in [Roles -> RxStates]
  /\ idle \in [Roles -> 0 .. MaxClock]
  /\ sent \in [Roles -> Seq(SealedFrames)]
  /\ delivered \in [Roles -> SUBSET SealedFrames]
  /\ epochBytes \in [Roles -> Nat]

\* EncryptFrame (session.go:198) never seals two frames under the same key and
\* nonce, which would break the cipher: not when RekeyOutbound restarts the
\* counter, not when the epoch number wraps, not when the counter reaches its
\* limit, and not by the two ends together.  Only the untruncated part of the
\* nonce, the sequence, is relied on.
NonceUnique ==
  \A q, r \in Roles : \A i \in DOMAIN sent[q], j \in DOMAIN sent[r] :
    <<q, i>> # <<r, j>> =>
      \/ sent[q][i].payload.key # sent[r][j].payload.key
      \/ sent[q][i].payload.nonce.sequence # sent[r][j].payload.nonce.sequence

\* A record that DecryptFrame or DecryptFrameUDP (session.go:220, 243) has
\* opened does not open again, in either path and whatever number the caller
\* claims for it, across any number of later records and rekeys, for as long
\* as SetReplayMode does not make the receiver forget.
ReplayRejected ==
  \A r \in Roles : \A f \in delivered[r] :
    /\ ~OpensInOrder(r, f)
    /\ \A s \in Uint64 : ~OpensSliding(r, f, s)

\* What an end opens is a frame its peer sealed, with the header it was sealed
\* with: never a frame of its own, never one whose header was changed.
DeliveredAuthentic ==
  \A r \in Roles : \A f \in delivered[r] :
    \E i \in DOMAIN sent[Peer(r)] : f = sent[Peer(r)][i]

\* DecryptFrame never refuses the record it is waiting for: once both ends are
\* in the same epoch, the record the peer sealed with the number the receiver
\* expects opens.  The epoch numbers in the associated data agree although they
\* wrap, and the overflow check (session.go:227) stops no record, since the
\* sender refuses that number too.
NextRecordOpens ==
  \A r \in Roles : \A i \in DOMAIN sent[Peer(r)] :
    LET f == sent[Peer(r)][i]
    IN  /\ rx[r].mode = "OrderedTCP"
        /\ f.payload.key = rx[r].key
        /\ f.payload.nonce.sequence = rx[r].sequence
        => OpensInOrder(r, f)

\* DecryptFrameUDP refuses no fresh record of its epoch that the window still
\* reaches, in whatever order the records arrive, provided it is not so far
\* ahead that the distance is no int (session.go:64).
FreshRecordOpens ==
  \A r \in Roles : \A i \in DOMAIN sent[Peer(r)] :
    LET f == sent[Peer(r)][i]
        s == f.payload.nonce.sequence
        w == rx[r].window
    IN  /\ rx[r].mode = "SlidingUDP"
        /\ f.payload.key = rx[r].key
        /\ f \notin delivered[r]
        /\ w.initialized => w.highestSeen - s < Size /\ s - w.highestSeen <= MaxInt64
        => OpensSliding(r, f, s)

\* No policy lets one frame carry the byte counter from below the limit past
\* the largest uint64.
PoliciesBelowWrap ==
  \A p \in Policies, n \in Payloads :
    AtLeastOne(p.maxBytes) + PayloadLen[n] + TagSize <= MaxUint64 + 1

\* Whenever EncryptFrame has sealed a frame and the bytes sealed in the epoch
\* have reached the limit then in force, a rekey is required, although the
\* counter is a uint64 that wraps, the limit may have been changed since it was
\* last compared, and refreshRekeyTrigger (session.go:287) looks only while no
\* rekey is required yet.
RekeyNotMissed ==
  [][PoliciesBelowWrap =>
       \A r \in Roles :
         Len(sent'[r]) > Len(sent[r]) /\ epochBytes'[r] >= tx[r].maxBytes
           => tx'[r].required]_vars
=============================================================================
