---------------------------- MODULE SessionProofs ---------------------------
(***************************************************************************)
(* Proofs about Session, for every width of the counters, every size of    *)
(* the replay window, every bound and every set of inputs.                 *)
(***************************************************************************)
EXTENDS Session, ReplayWindowProofs

-----------------------------------------------------------------------------
(***************************************************************************)
(* Type correctness.                                                       *)
(***************************************************************************)
\* Directions are 1 and 2, and the peer of an end is the other end.
LEMMA RoleFacts ==
  ASSUME NEW r \in Roles
  PROVE  /\ Peer(r) \in Roles /\ Peer(r) # r
         /\ txDirection(r) \in {1, 2} /\ rxDirection(r) \in {1, 2}
         /\ TxSecret(r) \in {"i2r", "r2i"} /\ RxSecret(r) = TxSecret(Peer(r))
         /\ \A q \in Roles : TxSecret(q) = TxSecret(r) => q = r
BY DEF Roles, Peer, txDirection, rxDirection, TxSecret, RxSecret

\* Incrementing an epoch number modulo its width leaves an epoch number, and
\* the same for the byte counter.
LEMMA WrapType ==
  /\ \A e \in 0 .. MaxUint32 : (e + 1) % (MaxUint32 + 1) \in 0 .. MaxUint32
  /\ \A b, n \in Nat : (b + n) % (MaxUint64 + 1) \in Uint64
<1>1. ASSUME NEW e \in 0 .. MaxUint32
      PROVE  (e + 1) % (MaxUint32 + 1) \in 0 .. MaxUint32
  <2>1. MaxUint32 + 1 \in Nat \ {0} /\ e + 1 \in Nat /\ (MaxUint32 + 1) - 1 = MaxUint32
    BY SessionAssumption
  <2>. QED  BY <2>1, ModRange
<1>2. ASSUME NEW b \in Nat, NEW n \in Nat
      PROVE  (b + n) % (MaxUint64 + 1) \in Uint64
  <2>1. MaxUint64 + 1 \in Nat \ {0} /\ b + n \in Nat /\ (MaxUint64 + 1) - 1 = MaxUint64
    BY WindowAssumption
  <2>. QED  BY <2>1, ModRange DEF Uint64
<1>. QED  BY <1>1, <1>2

\* A number below MaxUint64 has a successor; the check of both directions is
\* what makes ++ an increment.
LEMMA IncrementFacts ==
  ASSUME NEW n \in Uint64, n # MaxUint64
  PROVE  Increment(n) = n + 1 /\ n + 1 \in Uint64
<1>1. \A m \in Nat \ {0} : \A x \in 0 .. m - 1 : x % m = x
  BY SMT
<1>2. n + 1 \in 0 .. MaxUint64 /\ MaxUint64 + 1 \in Nat \ {0} /\ (MaxUint64 + 1) - 1 = MaxUint64
  BY WindowAssumption DEF Uint64
<1>. QED  BY <1>1, <1>2 DEF Increment, Uint64

\* Deriving a key from a key gives a key with a chain one longer.
LEMMA RekeyType ==
  ASSUME NEW k \in Keys, NEW dir \in {1, 2}
  PROVE  /\ crypto!RekeyMaterial(k, SessionID, dir) \in Keys
         /\ crypto!RekeyMaterial(k, SessionID, dir).secret = k.secret
         /\ Len(crypto!RekeyMaterial(k, SessionID, dir).chain) = Len(k.chain) + 1
         /\ Len(k.chain) \in Nat
<1>. DEFINE link == <<SessionID, dir>>  chain == Append(k.chain, link)
<1>1. k.secret \in {"i2r", "r2i"} /\ k.chain \in Seq({SessionID} \X {1, 2})
  BY DEF Keys
<1>2. link \in {SessionID} \X {1, 2}
  OBVIOUS
<1>. HIDE DEF link
<1>3. chain \in Seq({SessionID} \X {1, 2}) /\ Len(chain) = Len(k.chain) + 1 /\ Len(k.chain) \in Nat
  BY <1>1, <1>2
<1>4. crypto!RekeyMaterial(k, SessionID, dir) = [k EXCEPT !.chain = chain]
  BY DEF crypto!RekeyMaterial, link
<1>. HIDE DEF chain
<1>. QED  BY <1>1, <1>3, <1>4 DEF Keys

\* The trigger changes nothing but required and reason.
LEMMA RefreshType ==
  ASSUME NEW t \in TxStates
  PROVE  /\ refreshRekeyTrigger(t) \in TxStates
         /\ refreshRekeyTrigger(t).key = t.key
         /\ refreshRekeyTrigger(t).epoch = t.epoch
         /\ refreshRekeyTrigger(t).sequence = t.sequence
<1>. DEFINE due == CASE t.bytes >= t.maxBytes -> "bytes"
                     [] t.bytes < t.maxBytes /\ t.age >= t.maxAge -> "time"
                     [] OTHER -> "nil"
<1>1. due \in {"bytes", "time", "nil"}
  BY WindowAssumption DEF TxStates, Uint64
<1>2. refreshRekeyTrigger(t) =
        IF t.required \/ due = "nil" THEN t
        ELSE [t EXCEPT !.required = TRUE, !.reason = due]
  BY DEF refreshRekeyTrigger
<1>. HIDE DEF due
<1>. QED  BY <1>1, <1>2 DEF TxStates

\* The updates of the outbound half of a State.
LEMMA TxUpdates ==
  ASSUME NEW t \in TxStates
  PROVE  /\ t.key \in Keys /\ t.epoch \in 0 .. MaxUint32
         /\ t.sequence \in Uint64 /\ t.bytes \in Uint64 /\ t.age \in 0 .. MaxClock
         /\ \A s, b \in Uint64 : [t EXCEPT !.sequence = s, !.bytes = b] \in TxStates
         /\ \A x, y \in Nat \ {0} : [t EXCEPT !.maxBytes = x, !.maxAge = y] \in TxStates
         /\ [t EXCEPT !.required = TRUE, !.reason = "manual"] \in TxStates
         /\ \A a \in 0 .. MaxClock : [t EXCEPT !.age = a] \in TxStates
         /\ \A k \in Keys, e \in 0 .. MaxUint32 :
              [t EXCEPT !.key = k, !.epoch = e, !.sequence = 0, !.bytes = 0, !.age = 0,
                        !.required = FALSE, !.reason = "nil"] \in TxStates
<1>. 0 \in Uint64 /\ 0 \in 0 .. MaxClock
  BY WindowAssumption, SessionAssumption DEF Uint64
<1>. QED  BY DEF TxStates

\* The updates of the inbound half of a State.
LEMMA RxUpdates ==
  ASSUME NEW t \in RxStates
  PROVE  /\ t.key \in Keys /\ t.epoch \in 0 .. MaxUint32
         /\ t.sequence \in Uint64 /\ t.mode \in ReplayModes /\ t.window \in Window
         /\ \A s \in Uint64 : [t EXCEPT !.sequence = s] \in RxStates
         /\ \A w \in Window : [t EXCEPT !.window = w] \in RxStates
         /\ \A m \in ReplayModes, w \in Window :
              [t EXCEPT !.mode = m, !.window = w] \in RxStates
         /\ \A k \in Keys, e \in 0 .. MaxUint32, w \in Window :
              [t EXCEPT !.key = k, !.epoch = e, !.sequence = 0, !.window = w] \in RxStates
<1>. 0 \in Uint64
  BY WindowAssumption DEF Uint64
<1>. QED  BY DEF RxStates

\* What EncryptFrame makes of a plain frame.
LEMMA SealedType ==
  ASSUME TypeOK, NEW r \in Roles, NEW f \in PlainFrames
  PROVE  /\ SealedFrame(r, f) \in SealedFrames
         /\ SealedFrame(r, f).payload.key = tx[r].key
         /\ SealedFrame(r, f).payload.nonce.sequence = tx[r].sequence
         /\ SealedFrame(r, f).payload.aad.msgType = SealedFrame(r, f).msgType
         /\ crypto!SealedLen(SealedFrame(r, f).payload) \in Nat
<1>1. PICK m \in MsgTypes, p \in Payloads : f = crypto!NewFrame(m, p)
  BY DEF PlainFrames
<1>2. f = [msgType |-> m, flags |-> {}, payload |-> p]
  BY <1>1 DEF crypto!NewFrame
<1>3. SealedFrame(r, f) =
        [msgType |-> m, flags |-> {"encrypted"},
         payload |->
           [key   |-> tx[r].key,
            nonce |-> [sessionID |-> SessionID, key |-> tx[r].key,
                       direction |-> txDirection(r), sequence |-> tx[r].sequence],
            plain |-> p,
            aad   |-> [msgType |-> m, flags |-> {"encrypted"},
                       epoch |-> tx[r].epoch, sequence |-> tx[r].sequence]]]
  <2>1. f.flags \cup {"encrypted"} = {"encrypted"}
    BY <1>2
  <2>. QED  BY <1>2, <2>1
            DEF SealedFrame, crypto!EncryptFrame, crypto!DeriveNonce, crypto!BuildAAD,
                crypto!Seal, crypto!FlagEncrypted
<1>4. tx[r].key \in Keys /\ tx[r].epoch \in 0 .. MaxUint32 /\ tx[r].sequence \in Uint64
  BY DEF TypeOK, TxStates
<1>5. PayloadLen[p] + TagSize \in Nat
  BY SessionAssumption
<1>. QED  BY <1>3, <1>4, <1>5, RoleFacts DEF SealedFrames, crypto!SealedLen

\* What an owner presents is a record, but for its header as it was sealed.
LEMMA PresentedType ==
  ASSUME TypeOK, NEW f \in Presented
  PROVE  /\ f \in SealedFrames
         /\ \E q \in Roles : \E i \in DOMAIN sent[q] :
              \E m \in MsgTypes : f = [sent[q][i] EXCEPT !.msgType = m]
<1>1. PICK x \in Roles \X (1 .. MaxSends) \X MsgTypes :
        x[2] <= Len(sent[x[1]]) /\ f = [sent[x[1]][x[2]] EXCEPT !.msgType = x[3]]
  BY DEF Presented
<1>2. x[1] \in Roles /\ x[2] \in 1 .. MaxSends /\ x[3] \in MsgTypes
  OBVIOUS
<1>3. sent[x[1]] \in Seq(SealedFrames) /\ x[2] \in DOMAIN sent[x[1]]
  BY <1>1, <1>2, SessionAssumption DEF TypeOK
<1>4. sent[x[1]][x[2]] \in SealedFrames
  BY <1>3
<1>. QED  BY <1>1, <1>2, <1>3, <1>4 DEF SealedFrames

\* Initially the variables have their types.
LEMMA InitType == Init => TypeOK
<1>. SUFFICES ASSUME Init PROVE TypeOK
  OBVIOUS
<1>1. \A s \in {"i2r", "r2i"} : crypto!SessionKey(s) \in Keys
  BY DEF crypto!SessionKey, Keys
<1>2. EmptyWindow \in Window
  BY ClearBits, WindowAssumption DEF EmptyWindow, Window, Uint64
<1>3. AtLeastOne(InitPolicy.maxBytes) \in Nat \ {0} /\ AtLeastOne(InitPolicy.maxAge) \in Nat \ {0}
  BY SessionAssumption DEF AtLeastOne, Policy
<1>a. 0 \in 0 .. MaxUint32 /\ 0 \in 0 .. MaxClock /\ 0 \in Uint64
  BY SessionAssumption, WindowAssumption DEF Uint64
<1>4. tx \in [Roles -> TxStates]
  BY <1>1, <1>3, <1>a, RoleFacts DEF Init, TxStates
<1>5. rx \in [Roles -> RxStates]
  BY <1>1, <1>2, RoleFacts, SessionAssumption, WindowAssumption
     DEF Init, RxStates, Uint64, ReplayModes
<1>6. /\ idle \in [Roles -> 0 .. MaxClock]
      /\ sent \in [Roles -> Seq(SealedFrames)]
      /\ delivered \in [Roles -> SUBSET SealedFrames]
      /\ epochBytes \in [Roles -> Nat]
  BY SessionAssumption DEF Init
<1>. QED  BY <1>4, <1>5, <1>6 DEF TypeOK

\* Every step keeps the types.
LEMMA NextType == TypeOK /\ [Next]_vars => TypeOK'
<1>. SUFFICES ASSUME TypeOK, [Next]_vars PROVE TypeOK'
  OBVIOUS
<1>. USE SessionAssumption
<1>0. /\ tx \in [Roles -> TxStates] /\ rx \in [Roles -> RxStates]
      /\ idle \in [Roles -> 0 .. MaxClock] /\ sent \in [Roles -> Seq(SealedFrames)]
      /\ delivered \in [Roles -> SUBSET SealedFrames] /\ epochBytes \in [Roles -> Nat]
  BY DEF TypeOK
<1>1. ASSUME NEW r \in Senders, NEW f \in PlainFrames, EncryptFrame(r, f)
      PROVE  TypeOK'
  <2>. DEFINE n == crypto!SealedLen(SealedFrame(r, f).payload)
              t == [tx[r] EXCEPT !.sequence = Increment(tx[r].sequence),
                                 !.bytes = (tx[r].bytes + n) % (MaxUint64 + 1)]
  <2>1. r \in Roles /\ n \in Nat /\ SealedFrame(r, f) \in SealedFrames
    BY SealedType
  <2>a. tx[r] \in TxStates /\ tx[r].sequence \in Uint64 /\ tx[r].bytes \in Uint64
    BY <1>0, <2>1, TxUpdates
  <2>2. Increment(tx[r].sequence) \in Uint64
    <3>1. tx[r].sequence # MaxUint64
      BY <1>1 DEF EncryptFrame, CanSeal
    <3>. QED  BY <2>a, <3>1, IncrementFacts
  <2>3. (tx[r].bytes + n) % (MaxUint64 + 1) \in Uint64
    <3>1. tx[r].bytes \in Nat
      BY <2>a, WindowAssumption DEF Uint64
    <3>. QED  BY <2>1, <3>1, WrapType
  <2>. HIDE DEF n
  <2>4. t \in TxStates
    BY <2>a, <2>2, <2>3, TxUpdates
  <2>5. tx' = [tx EXCEPT ![r] = refreshRekeyTrigger(t)]
    BY <1>1 DEF EncryptFrame, n
  <2>6. tx' \in [Roles -> TxStates]
    BY <1>0, <2>1, <2>4, <2>5, RefreshType
  <2>7. sent' = [sent EXCEPT ![r] = Append(sent[r], SealedFrame(r, f))]
    BY <1>1 DEF EncryptFrame
  <2>8. sent' \in [Roles -> Seq(SealedFrames)]
    BY <1>0, <2>1, <2>7
  <2>9. epochBytes' \in [Roles -> Nat] /\ idle' \in [Roles -> 0 .. MaxClock]
    <3>1. epochBytes' = [epochBytes EXCEPT ![r] = epochBytes[r] + n] /\ epochBytes[r] \in Nat
      BY <1>0, <1>1, <2>1 DEF EncryptFrame, n
    <3>2. idle' = [idle EXCEPT ![r] = 0]
      BY <1>1 DEF EncryptFrame, Touched
    <3>. QED  BY <1>0, <2>1, <3>1, <3>2
  <2>. QED  BY <1>0, <1>1, <2>6, <2>8, <2>9 DEF EncryptFrame, TypeOK
<1>2. ASSUME NEW r \in Senders, NEW p \in Policies, SetRekeyPolicy(r, p)
      PROVE  TypeOK'
  <2>1. AtLeastOne(p.maxBytes) \in Nat \ {0} /\ AtLeastOne(p.maxAge) \in Nat \ {0}
    BY DEF AtLeastOne, Policy
  <2>2. r \in Roles
    OBVIOUS
  <2>3. tx' \in [Roles -> TxStates]
    <3>1. tx' = [tx EXCEPT ![r] = [tx[r] EXCEPT !.maxBytes = AtLeastOne(p.maxBytes),
                                                !.maxAge   = AtLeastOne(p.maxAge)]]
      BY <1>0, <1>2, <2>2 DEF SetRekeyPolicy
    <3>. QED  BY <1>0, <2>1, <2>2, <3>1, TxUpdates
  <2>. QED  BY <1>0, <1>2, <2>3 DEF SetRekeyPolicy, TypeOK
<1>3. ASSUME NEW r \in Senders, MarkRekeyManual(r)
      PROVE  TypeOK'
  <2>1. tx' \in [Roles -> TxStates]
    <3>1. tx' = [tx EXCEPT ![r] = [tx[r] EXCEPT !.required = TRUE, !.reason = "manual"]]
      BY <1>0, <1>3 DEF MarkRekeyManual
    <3>. QED  BY <1>0, <3>1, TxUpdates
  <2>. QED  BY <1>0, <1>3, <2>1 DEF MarkRekeyManual, TypeOK
<1>4. ASSUME NEW r \in Senders, RekeyOutbound(r)
      PROVE  TypeOK'
  <2>1. r \in Roles /\ tx[r] \in TxStates /\ tx[r].key \in Keys /\ tx[r].epoch \in 0 .. MaxUint32
    BY <1>0 DEF TxStates
  <2>2. crypto!RekeyMaterial(tx[r].key, SessionID, txDirection(r)) \in Keys
    BY <2>1, RekeyType, RoleFacts
  <2>3. (tx[r].epoch + 1) % (MaxUint32 + 1) \in 0 .. MaxUint32
    BY <2>1, WrapType
  <2>4. tx' \in [Roles -> TxStates]
    BY <1>0, <1>4, <2>1, <2>2, <2>3, TxUpdates DEF RekeyOutbound
  <2>5. epochBytes' \in [Roles -> Nat]
    BY <1>0, <1>4 DEF RekeyOutbound
  <2>. QED  BY <1>0, <1>4, <2>4, <2>5 DEF RekeyOutbound, TypeOK
<1>5. ASSUME NEW r \in Receivers, NEW f \in Presented, DecryptFrame(r, f)
      PROVE  TypeOK'
  <2>1. r \in Roles /\ f \in SealedFrames
    BY PresentedType
  <2>2. Increment(rx[r].sequence) \in Uint64
    <3>1. rx[r].sequence # MaxUint64
      BY <1>5 DEF DecryptFrame, OpensInOrder
    <3>2. rx[r].sequence \in Uint64
      BY <1>0, <2>1, RxUpdates
    <3>. QED  BY <3>1, <3>2, IncrementFacts
  <2>3. rx' \in [Roles -> RxStates]
    BY <1>0, <1>5, <2>1, <2>2 DEF DecryptFrame, RxStates
  <2>4. delivered' \in [Roles -> SUBSET SealedFrames] /\ idle' \in [Roles -> 0 .. MaxClock]
    BY <1>0, <1>5, <2>1 DEF DecryptFrame, Touched
  <2>. QED  BY <1>0, <1>5, <2>3, <2>4 DEF DecryptFrame, TypeOK
<1>6. ASSUME NEW r \in Receivers, NEW f \in Presented, NEW s \in Uint64,
             DecryptFrameUDP(r, f, s)
      PROVE  TypeOK'
  <2>1. r \in Roles /\ f \in SealedFrames
    BY PresentedType
  <2>2. rx[r].window \in Window
    BY <1>0, <2>1 DEF RxStates
  <2>3. markSeen(rx[r].window, s) \in Window
    BY <1>6, <2>2, MarkSeenType DEF DecryptFrameUDP, OpensSliding
  <2>4. rx' \in [Roles -> RxStates]
    BY <1>0, <1>6, <2>1, <2>3 DEF DecryptFrameUDP, RxStates
  <2>5. delivered' \in [Roles -> SUBSET SealedFrames] /\ idle' \in [Roles -> 0 .. MaxClock]
    BY <1>0, <1>6, <2>1 DEF DecryptFrameUDP, Touched
  <2>. QED  BY <1>0, <1>6, <2>4, <2>5 DEF DecryptFrameUDP, TypeOK
<1>a. EmptyWindow \in Window
  BY ClearBits, WindowAssumption DEF EmptyWindow, Window, Uint64
<1>7. ASSUME NEW r \in Receivers, NEW m \in Modes, SetReplayMode(r, m)
      PROVE  TypeOK'
  <2>1. r \in Roles /\ m \in ReplayModes
    OBVIOUS
  <2>2. rx' \in [Roles -> RxStates]
    BY <1>0, <1>7, <1>a, <2>1 DEF SetReplayMode, RxStates
  <2>3. delivered' \in [Roles -> SUBSET SealedFrames]
    BY <1>0, <1>7, <2>1 DEF SetReplayMode
  <2>. QED  BY <1>0, <1>7, <2>2, <2>3 DEF SetReplayMode, TypeOK
<1>8. ASSUME NEW r \in Receivers, RekeyInbound(r)
      PROVE  TypeOK'
  <2>1. r \in Roles /\ rx[r] \in RxStates /\ rx[r].key \in Keys /\ rx[r].epoch \in 0 .. MaxUint32
    BY <1>0 DEF RxStates
  <2>2. crypto!RekeyMaterial(rx[r].key, SessionID, rxDirection(r)) \in Keys
    BY <2>1, RekeyType, RoleFacts
  <2>3. (rx[r].epoch + 1) % (MaxUint32 + 1) \in 0 .. MaxUint32
    BY <2>1, WrapType
  <2>4. rx' \in [Roles -> RxStates]
    BY <1>0, <1>8, <1>a, <2>1, <2>2, <2>3, RxUpdates DEF RekeyInbound
  <2>. QED  BY <1>0, <1>8, <2>4 DEF RekeyInbound, TypeOK
<1>9. CASE Tick
  <2>1. \A x \in 0 .. MaxClock : Later(x) \in 0 .. MaxClock
    BY DEF Later
  <2>2. tx' \in [Roles -> TxStates]
    <3>1. ASSUME NEW r \in Roles
          PROVE  [tx[r] EXCEPT !.age = Later(tx[r].age)] \in TxStates
      BY <1>0, <2>1, TxUpdates
    <3>2. tx' = [r \in Roles |-> [tx[r] EXCEPT !.age = Later(tx[r].age)]]
      BY <1>9 DEF Tick
    <3>. QED  BY <3>1, <3>2
  <2>3. idle' \in [Roles -> 0 .. MaxClock]
    BY <1>0, <1>9, <2>1 DEF Tick
  <2>. QED  BY <1>0, <1>9, <2>2, <2>3 DEF Tick, TypeOK
<1>10. ASSUME NEW r \in Roles, Touch(r)
       PROVE  TypeOK'
  <2>1. idle' \in [Roles -> 0 .. MaxClock]
    BY <1>0, <1>10 DEF Touch, Touched
  <2>. QED  BY <1>0, <1>10, <2>1 DEF Touch, TypeOK
<1>11. CASE UNCHANGED vars
  BY <1>11 DEF vars, TypeOK
<1>. QED
  BY <1>1, <1>2, <1>3, <1>4, <1>5, <1>6, <1>7, <1>8, <1>9, <1>10, <1>11 DEF Next, SentFrames

\* The variables of Session always have their types: in particular neither
\* counter leaves its uint64 (EncryptFrame and DecryptFrame stop in time), the
\* window keeps its size, and a byte count or an epoch that wraps stays in range.
THEOREM SessionTypeOK == Spec => []TypeOK
BY InitType, NextType, PTL DEF Spec

-----------------------------------------------------------------------------
(***************************************************************************)
(* What an end has sealed.  NonceUnique is not inductive: that the next    *)
(* record repeats no earlier one rests on where the earlier ones lie in    *)
(* the order of epochs and, within an epoch, of sequence numbers.          *)
(***************************************************************************)
\* Payload p lies before t, the outbound half of end r.
Counted(r, t, p) ==
  /\ p.key.secret = TxSecret(r)
  /\ Len(p.key.chain) <= Len(t.key.chain)
  /\ Len(p.key.chain) = Len(t.key.chain) => p.nonce.sequence < t.sequence

\* Payload p was sealed in an earlier epoch than q or, in the same one, under
\* a smaller number.
Before(p, q) ==
  \/ Len(p.key.chain) < Len(q.key.chain)
  \/ /\ Len(p.key.chain) = Len(q.key.chain)
     /\ p.nonce.sequence < q.nonce.sequence

SentBy(r) ==
  /\ tx[r].key.secret = TxSecret(r)
  /\ \A i \in DOMAIN sent[r] :
       /\ Counted(r, tx[r], sent[r][i].payload)
       /\ sent[r][i].payload.aad.msgType = sent[r][i].msgType
  /\ \A i, j \in DOMAIN sent[r] :
       i < j => Before(sent[r][i].payload, sent[r][j].payload)

SentInv == \A r \in Roles : SentBy(r)

\* The next epoch uncounts no record.
LEMMA CountedRekey ==
  ASSUME NEW r, NEW t, NEW u, NEW p, Counted(r, t, p),
         Len(t.key.chain) \in Nat, Len(p.key.chain) \in Nat,
         Len(u.key.chain) = Len(t.key.chain) + 1
  PROVE  Counted(r, u, p)
BY DEF Counted

\* The order of records against counters: a record under the current number
\* comes before the next one and after all that were counted, and the next
\* number uncounts no record.
LEMMA CountedFacts ==
  ASSUME NEW r, NEW t, NEW u, NEW p, NEW q,
         Len(t.key.chain) \in Nat, t.sequence \in Nat,
         Len(p.key.chain) \in Nat, p.nonce.sequence \in Nat
  PROVE  /\ /\ p.key.secret = TxSecret(r)
            /\ p.key = t.key /\ p.nonce.sequence = t.sequence
            /\ u.key = t.key /\ u.sequence = t.sequence + 1
            => Counted(r, u, p)
         /\ /\ Counted(r, t, p)
            /\ u.key = t.key /\ u.sequence = t.sequence + 1
            => Counted(r, u, p)
         /\ /\ Counted(r, t, p)
            /\ q.key = t.key /\ q.nonce.sequence = t.sequence
            => Before(p, q)
BY DEF Counted, Before

\* A step that leaves an end's records, key and counter alone keeps SentBy.
LEMMA SentUnchanged ==
  ASSUME NEW r \in Roles, SentBy(r), sent'[r] = sent[r],
         tx'[r].key = tx[r].key, tx'[r].sequence = tx[r].sequence
  PROVE  SentBy(r)'
BY DEF SentBy, Counted, Before, TxSecret

\* The parts of a sealed frame have their types.
LEMMA SealedParts ==
  ASSUME NEW f \in SealedFrames
  PROVE  /\ f.payload.key \in Keys /\ Len(f.payload.key.chain) \in Nat
         /\ f.payload.nonce.sequence \in Uint64 /\ f.payload.nonce.sequence \in Nat
<1>1. f.payload.key \in Keys /\ f.payload.nonce.sequence \in Uint64
  BY DEF SealedFrames
<1>2. f.payload.key.chain \in Seq({SessionID} \X {1, 2})
  BY <1>1 DEF Keys
<1>. QED  BY <1>1, <1>2, WindowAssumption DEF Uint64

\* Sealing a frame advances the counter and keeps the key.
LEMMA SealAdvances ==
  ASSUME TypeOK, NEW r \in Roles, NEW f \in PlainFrames, EncryptFrame(r, f)
  PROVE  tx'[r].key = tx[r].key /\ tx'[r].sequence = tx[r].sequence + 1
<1>. DEFINE n == crypto!SealedLen(SealedFrame(r, f).payload)
            b == (tx[r].bytes + n) % (MaxUint64 + 1)
            t == [tx[r] EXCEPT !.sequence = Increment(tx[r].sequence), !.bytes = b]
<1>1. tx[r] \in TxStates /\ tx[r].sequence \in Uint64 /\ tx[r].bytes \in Nat /\ n \in Nat
  <2>1. tx[r] \in TxStates /\ n \in Nat
    BY SealedType DEF TypeOK
  <2>2. tx[r].sequence \in Uint64 /\ tx[r].bytes \in Uint64
    BY <2>1, TxUpdates
  <2>. QED  BY <2>1, <2>2, WindowAssumption DEF Uint64
<1>2. Increment(tx[r].sequence) = tx[r].sequence + 1 /\ tx[r].sequence + 1 \in Uint64
  BY <1>1, IncrementFacts DEF EncryptFrame, CanSeal
<1>3. tx'[r] = refreshRekeyTrigger(t)
  BY DEF EncryptFrame, TypeOK
<1>. HIDE DEF n
<1>4. b \in Uint64
  BY <1>1, WrapType
<1>. HIDE DEF b
<1>5. t \in TxStates
  BY <1>1, <1>2, <1>4, TxUpdates
<1>6. t.key = tx[r].key /\ t.sequence = tx[r].sequence + 1
  BY <1>1, <1>2 DEF TxStates
<1>. HIDE DEF t
<1>. QED  BY <1>3, <1>5, <1>6, RefreshType

\* Sealing a frame keeps the order: the new record lies behind all others and
\* before the counter.
LEMMA SentEncrypt ==
  ASSUME TypeOK, NEW r \in Roles, NEW f \in PlainFrames, EncryptFrame(r, f), SentBy(r)
  PROVE  SentBy(r)'
<1>. DEFINE g == SealedFrame(r, f)  n == Len(sent[r])
<1>1. /\ g \in SealedFrames /\ g.payload.key = tx[r].key
      /\ g.payload.nonce.sequence = tx[r].sequence /\ g.payload.aad.msgType = g.msgType
      /\ crypto!SealedLen(g.payload) \in Nat
  BY SealedType
<1>2. /\ sent[r] \in Seq(SealedFrames) /\ tx[r] \in TxStates /\ tx[r].sequence \in Nat
      /\ tx[r].sequence + 1 \in Uint64 /\ tx[r].bytes \in Nat /\ Len(tx[r].key.chain) \in Nat
  <2>1. tx[r] \in TxStates /\ sent[r] \in Seq(SealedFrames)
    BY DEF TypeOK
  <2>2. tx[r].sequence \in Uint64 /\ tx[r].bytes \in Uint64 /\ tx[r].key \in Keys
    BY <2>1, TxUpdates
  <2>3. tx[r].sequence # MaxUint64
    BY DEF EncryptFrame, CanSeal
  <2>4. Len(tx[r].key.chain) \in Nat
    BY <2>2, RekeyType
  <2>. QED  BY <2>1, <2>2, <2>3, <2>4, WindowAssumption DEF Uint64
<1>3. tx'[r].key = tx[r].key /\ tx'[r].sequence = tx[r].sequence + 1
  BY SealAdvances
<1>4. sent'[r] = Append(sent[r], g)
  BY DEF EncryptFrame, TypeOK
<1>. HIDE DEF g
<1>5. /\ DOMAIN sent'[r] = 1 .. n + 1 /\ sent'[r][n + 1] = g
      /\ \A i \in 1 .. n : sent'[r][i] = sent[r][i] /\ i \in DOMAIN sent[r]
      /\ n \in Nat
  BY <1>1, <1>2, <1>4
<1>. HIDE DEF n
<1>6. g.payload.key.secret = TxSecret(r)
  BY <1>1 DEF SentBy
<1>7. ASSUME NEW i \in DOMAIN sent'[r]
      PROVE  /\ Counted(r, tx'[r], sent'[r][i].payload)
             /\ sent'[r][i].payload.aad.msgType = sent'[r][i].msgType
  <2>1. CASE i = n + 1
    <3>1. Len(g.payload.key.chain) \in Nat /\ g.payload.nonce.sequence \in Nat
      BY <1>1, SealedParts
    <3>2. Counted(r, tx'[r], g.payload)
      BY <1>1, <1>2, <1>3, <1>6, <3>1, CountedFacts
    <3>. QED  BY <1>1, <1>5, <2>1, <3>2
  <2>2. CASE i \in 1 .. n
    <3>1. Counted(r, tx[r], sent[r][i].payload) /\ sent[r][i].payload.aad.msgType = sent[r][i].msgType
      BY <1>5, <2>2 DEF SentBy
    <3>2. sent[r][i] \in SealedFrames
      BY <1>2, <1>5, <2>2
    <3>3. Len(sent[r][i].payload.key.chain) \in Nat /\ sent[r][i].payload.nonce.sequence \in Nat
      BY <3>2, SealedParts
    <3>4. Counted(r, tx'[r], sent[r][i].payload)
      BY <1>2, <1>3, <3>1, <3>3, CountedFacts
    <3>. QED  BY <1>5, <2>2, <3>1, <3>4
  <2>. QED  BY <1>5, <2>1, <2>2
<1>8. ASSUME NEW i \in DOMAIN sent'[r], NEW j \in DOMAIN sent'[r], i < j
      PROVE  Before(sent'[r][i].payload, sent'[r][j].payload)
  <2>1. i \in 1 .. n
    BY <1>5, <1>8
  <2>2. CASE j = n + 1
    <3>1. Counted(r, tx[r], sent[r][i].payload)
      BY <1>5, <2>1 DEF SentBy
    <3>2. sent[r][i] \in SealedFrames
      BY <1>2, <1>5, <2>1
    <3>3. Len(sent[r][i].payload.key.chain) \in Nat /\ sent[r][i].payload.nonce.sequence \in Nat
      BY <3>2, SealedParts
    <3>4. Before(sent[r][i].payload, g.payload)
      BY <1>1, <1>2, <3>1, <3>3, CountedFacts
    <3>. QED  BY <1>5, <2>1, <2>2, <3>4
  <2>3. CASE j \in 1 .. n
    BY <1>5, <1>8, <2>1, <2>3 DEF SentBy
  <2>. QED  BY <1>5, <2>2, <2>3
<1>9. (tx[r].key.secret = TxSecret(r))'
  BY <1>3 DEF SentBy, TxSecret
<1>. QED  BY <1>7, <1>8, <1>9 DEF SentBy, Before

\* Rekeying moves the counter beyond every record sealed so far.
LEMMA SentRekey ==
  ASSUME TypeOK, NEW r \in Roles, RekeyOutbound(r), SentBy(r)
  PROVE  SentBy(r)'
<1>. DEFINE k == crypto!RekeyMaterial(tx[r].key, SessionID, txDirection(r))
<1>1. tx[r] \in TxStates /\ tx[r].key \in Keys /\ sent[r] \in Seq(SealedFrames)
  BY TxUpdates DEF TypeOK
<1>2. k \in Keys /\ k.secret = tx[r].key.secret /\ Len(k.chain) = Len(tx[r].key.chain) + 1
      /\ Len(tx[r].key.chain) \in Nat
  BY <1>1, RekeyType, RoleFacts
<1>3. tx'[r].key = k /\ sent'[r] = sent[r]
  BY <1>1 DEF RekeyOutbound, TypeOK, TxStates
<1>. HIDE DEF k
<1>4. ASSUME NEW i \in DOMAIN sent[r]
      PROVE  Counted(r, tx'[r], sent[r][i].payload)
  <2>0. sent[r][i] \in SealedFrames
    BY <1>1
  <2>1. Counted(r, tx[r], sent[r][i].payload) /\ Len(sent[r][i].payload.key.chain) \in Nat
    BY <2>0, SealedParts DEF SentBy
  <2>2. Len(tx'[r].key.chain) = Len(tx[r].key.chain) + 1 /\ Len(tx[r].key.chain) \in Nat
    BY <1>2, <1>3, Zenon
  <2>. QED  BY <2>1, <2>2, CountedRekey
<1>. QED  BY <1>2, <1>3, <1>4 DEF SentBy, Before, TxSecret

\* The steps that neither seal a frame nor rekey outbound leave the records,
\* the outbound keys and the outbound counters of both ends alone.
Quiet ==
  /\ sent' = sent
  /\ \A q \in Roles : tx'[q].key = tx[q].key /\ tx'[q].sequence = tx[q].sequence

\* Every step is one of the two or quiet.
LEMMA SentSteps ==
  ASSUME TypeOK, [Next]_vars
  PROVE  \/ \E r \in Roles : \E f \in PlainFrames : EncryptFrame(r, f)
         \/ \E r \in Roles : RekeyOutbound(r)
         \/ Quiet
<1>. USE SessionAssumption
<1>0. tx \in [Roles -> TxStates]
  BY DEF TypeOK
<1>1. ASSUME NEW r \in Senders, NEW p \in Policies, SetRekeyPolicy(r, p)
      PROVE  Quiet
  BY <1>0, <1>1 DEF SetRekeyPolicy, Quiet, TxStates
<1>2. ASSUME NEW r \in Senders, MarkRekeyManual(r)
      PROVE  Quiet
  BY <1>0, <1>2 DEF MarkRekeyManual, Quiet, TxStates
<1>3. ASSUME tx' = tx, sent' = sent
      PROVE  Quiet
  BY <1>3 DEF Quiet
<1>4. CASE Tick
  <2>1. tx' = [r \in Roles |-> [tx[r] EXCEPT !.age = Later(tx[r].age)]] /\ sent' = sent
    BY <1>4 DEF Tick
  <2>2. ASSUME NEW q \in Roles
        PROVE  tx'[q].key = tx[q].key /\ tx'[q].sequence = tx[q].sequence
    BY <1>0, <2>1 DEF TxStates
  <2>. QED  BY <2>1, <2>2 DEF Quiet
<1>5. CASE \E r \in Receivers :
             \/ \E f \in Presented : DecryptFrame(r, f)
             \/ \E f \in Presented, s \in Uint64 : DecryptFrameUDP(r, f, s)
             \/ \E m \in Modes : SetReplayMode(r, m)
             \/ RekeyInbound(r)
  BY <1>3, <1>5 DEF DecryptFrame, DecryptFrameUDP, SetReplayMode, RekeyInbound
<1>6. CASE (\E r \in Roles : Touch(r)) \/ UNCHANGED vars
  BY <1>3, <1>6 DEF Touch, vars
<1>. QED  BY <1>1, <1>2, <1>4, <1>5, <1>6 DEF Next, SentFrames

LEMMA SentStep == TypeOK /\ SentInv /\ [Next]_vars => SentInv'
<1>. SUFFICES ASSUME TypeOK, SentInv, [Next]_vars, NEW q \in Roles
              PROVE  SentBy(q)'
  BY DEF SentInv
<1>0. SentBy(q) /\ tx \in [Roles -> TxStates] /\ sent \in [Roles -> Seq(SealedFrames)]
  BY DEF SentInv, TypeOK
<1>1. ASSUME NEW r \in Roles, NEW f \in PlainFrames, EncryptFrame(r, f)
      PROVE  SentBy(q)'
  <2>1. CASE q = r
    BY <1>0, <1>1, <2>1, SentEncrypt
  <2>2. CASE q # r
    <3>1. tx'[q] = tx[q] /\ sent'[q] = sent[q]
      BY <1>0, <1>1, <2>2 DEF EncryptFrame
    <3>. QED  BY <1>0, <3>1, SentUnchanged
  <2>. QED  BY <2>1, <2>2
<1>2. ASSUME NEW r \in Roles, RekeyOutbound(r)
      PROVE  SentBy(q)'
  <2>1. CASE q = r
    BY <1>0, <1>2, <2>1, SentRekey
  <2>2. CASE q # r
    <3>1. tx'[q] = tx[q] /\ sent'[q] = sent[q]
      BY <1>0, <1>2, <2>2 DEF RekeyOutbound
    <3>. QED  BY <1>0, <3>1, SentUnchanged
  <2>. QED  BY <2>1, <2>2
<1>3. CASE Quiet
  BY <1>0, <1>3, SentUnchanged DEF Quiet
<1>. QED  BY <1>1, <1>2, <1>3, SentSteps

LEMMA SentInit == Init => SentInv
<1>. SUFFICES ASSUME Init, NEW r \in Roles PROVE SentBy(r)
  BY DEF SentInv
<1>1. tx[r].key.secret = TxSecret(r) /\ sent[r] = << >>
  BY DEF Init, crypto!SessionKey
<1>. QED  BY <1>1 DEF SentBy

\* Two records of which one comes before the other, or that two ends sealed,
\* share no key and number.
LEMMA SentUnique == TypeOK /\ SentInv => NonceUnique
<1>. SUFFICES ASSUME TypeOK, SentInv, NEW q \in Roles, NEW r \in Roles,
                     NEW i \in DOMAIN sent[q], NEW j \in DOMAIN sent[r], <<q, i>> # <<r, j>>
              PROVE  \/ sent[q][i].payload.key # sent[r][j].payload.key
                     \/ sent[q][i].payload.nonce.sequence # sent[r][j].payload.nonce.sequence
  BY DEF NonceUnique
<1>1. SentBy(q) /\ SentBy(r) /\ sent[q] \in Seq(SealedFrames) /\ sent[r] \in Seq(SealedFrames)
  BY DEF SentInv, TypeOK
<1>2. CASE q # r
  <2>1. sent[q][i].payload.key.secret = TxSecret(q) /\ sent[r][j].payload.key.secret = TxSecret(r)
    BY <1>1 DEF SentBy, Counted
  <2>. QED  BY <1>2, <2>1, RoleFacts
<1>3. CASE q = r
  <2>0. i \in Nat /\ j \in Nat /\ i # j /\ sent[q][i] \in SealedFrames /\ sent[q][j] \in SealedFrames
    BY <1>1, <1>3
  <2>1. Before(sent[q][i].payload, sent[q][j].payload) \/ Before(sent[q][j].payload, sent[q][i].payload)
    BY <1>1, <1>3, <2>0 DEF SentBy
  <2>2. /\ Len(sent[q][i].payload.key.chain) \in Nat /\ sent[q][i].payload.nonce.sequence \in Nat
        /\ Len(sent[q][j].payload.key.chain) \in Nat /\ sent[q][j].payload.nonce.sequence \in Nat
    BY <2>0, SealedParts
  <2>. QED  BY <1>3, <2>1, <2>2 DEF Before
<1>. QED  BY <1>2, <1>3

\* EncryptFrame never uses a key with the same nonce twice, however the ends
\* send and rekey: RekeyOutbound changes the key whenever it restarts the
\* counter, and the counter stops before it wraps.
THEOREM SessionNonceUnique == Spec => []NonceUnique
<1>1. TypeOK /\ SentInv /\ [Next]_vars => (TypeOK /\ SentInv)'
  BY NextType, SentStep
<1>. QED  BY <1>1, InitType, SentInit, SentUnique, PTL DEF Spec

-----------------------------------------------------------------------------
(***************************************************************************)
(* What an end has opened.  A record stays refused because it lies behind  *)
(* the receiver: in an epoch it has left, below its in-order counter, or   *)
(* in or below its window.                                                 *)
(***************************************************************************)
\* Payload p lies behind t, the inbound half of an end.
Behind(t, p) ==
  \/ Len(p.key.chain) < Len(t.key.chain)
  \/ /\ p.key = t.key
     /\ t.mode = "OrderedTCP" => p.nonce.sequence < t.sequence
     /\ t.mode = "SlidingUDP" => validateCandidate(t.window, p.nonce.sequence) # "ok"

OpenedBy(r) ==
  /\ rx[r].key.secret = RxSecret(r)
  /\ \A f \in delivered[r] :
       /\ Behind(rx[r], f.payload)
       /\ \E i \in DOMAIN sent[Peer(r)] : f = sent[Peer(r)][i]

OpenedInv == \A r \in Roles : OpenedBy(r)

\* What opens was sealed under the receiver's key and the number it was opened
\* as, by the peer, and carries the header it was sealed with.
LEMMA OpensPeer ==
  ASSUME TypeOK, SentInv, NEW r \in Roles, rx[r].key.secret = RxSecret(r),
         NEW f \in Presented, NEW s, OpensAs(r, f, s)
  PROVE  /\ f.payload.key = rx[r].key /\ f.payload.nonce.sequence = s
         /\ \E i \in DOMAIN sent[Peer(r)] : f = sent[Peer(r)][i]
<1>1. PICK q \in Roles : \E i \in DOMAIN sent[q] :
        \E m \in MsgTypes : f = [sent[q][i] EXCEPT !.msgType = m]
  BY PresentedType
<1>2. PICK i \in DOMAIN sent[q], m \in MsgTypes : f = [sent[q][i] EXCEPT !.msgType = m]
  BY <1>1
<1>. DEFINE g == sent[q][i]
<1>3. g \in SealedFrames /\ SentBy(q)
  <2>1. sent[q] \in Seq(SealedFrames) /\ SentBy(q)
    BY DEF TypeOK, SentInv
  <2>. QED  BY <2>1
<1>4. /\ Counted(q, tx[q], g.payload) /\ g.payload.aad.msgType = g.msgType
  BY <1>3 DEF SentBy
<1>. HIDE DEF g
<1>5. f = [g EXCEPT !.msgType = m]
  BY <1>2 DEF g
<1>6. f.payload = g.payload /\ f.msgType = m
  BY <1>3, <1>5 DEF SealedFrames
<1>7. /\ f.payload.key = rx[r].key /\ f.payload.nonce.sequence = s
      /\ f.payload.aad.msgType = f.msgType
  BY DEF OpensAs, crypto!Opens, crypto!DeriveNonce, crypto!BuildAAD
<1>8. f = g
  <2>1. m = g.msgType
    BY <1>4, <1>6, <1>7
  <2>. QED  BY <1>3, <1>5, <2>1 DEF SealedFrames
<1>9. q = Peer(r)
  <2>1. TxSecret(q) = TxSecret(Peer(r)) /\ Peer(r) \in Roles
    BY <1>4, <1>6, <1>7, RoleFacts DEF Counted
  <2>. QED  BY <2>1 DEF TxSecret, Roles
<1>. QED  BY <1>7, <1>8, <1>9 DEF g

\* No step takes a record away.
LEMMA SentGrows ==
  ASSUME TypeOK, [Next]_vars, NEW q \in Roles
  PROVE  \A i \in DOMAIN sent[q] : i \in DOMAIN sent'[q] /\ sent'[q][i] = sent[q][i]
<1>0. sent \in [Roles -> Seq(SealedFrames)]
  BY DEF TypeOK
<1>1. ASSUME NEW r \in Roles, NEW f \in PlainFrames, EncryptFrame(r, f)
      PROVE  \A i \in DOMAIN sent[q] : i \in DOMAIN sent'[q] /\ sent'[q][i] = sent[q][i]
  <2>1. sent' = [sent EXCEPT ![r] = Append(sent[r], SealedFrame(r, f))]
    BY <1>1 DEF EncryptFrame
  <2>2. SealedFrame(r, f) \in SealedFrames
    BY SealedType
  <2>3. CASE q = r
    <3>1. sent'[q] = Append(sent[q], SealedFrame(r, f)) /\ sent[q] \in Seq(SealedFrames)
      BY <1>0, <2>1, <2>3
    <3>. QED  BY <2>2, <3>1
  <2>4. CASE q # r
    BY <1>0, <2>1, <2>4
  <2>. QED  BY <2>3, <2>4
<1>2. CASE sent' = sent
  BY <1>2
<1>. QED  BY <1>1, <1>2, SentSteps DEF RekeyOutbound, Quiet

\* Every step leaves an end's inbound half and what it opened alone, or is one
\* of the five operations on them by that end.
LEMMA OpenedSteps ==
  ASSUME TypeOK, [Next]_vars, NEW q \in Roles
  PROVE  \/ rx'[q] = rx[q] /\ delivered'[q] = delivered[q]
         \/ \E f \in Presented : DecryptFrame(q, f)
         \/ \E f \in Presented, s \in Uint64 : DecryptFrameUDP(q, f, s)
         \/ \E m \in Modes : SetReplayMode(q, m)
         \/ RekeyInbound(q)
<1>. DEFINE Same == rx'[q] = rx[q] /\ delivered'[q] = delivered[q]
<1>. USE SessionAssumption
<1>0. rx \in [Roles -> RxStates] /\ delivered \in [Roles -> SUBSET SealedFrames]
  BY DEF TypeOK
<1>1. ASSUME rx' = rx, delivered' = delivered PROVE Same
  BY <1>1
<1>2. ASSUME NEW r \in Receivers, r # q, NEW f \in Presented, DecryptFrame(r, f) PROVE Same
  BY <1>0, <1>2 DEF DecryptFrame
<1>3. ASSUME NEW r \in Receivers, r # q, NEW f \in Presented, NEW s \in Uint64,
             DecryptFrameUDP(r, f, s)
      PROVE Same
  BY <1>0, <1>3 DEF DecryptFrameUDP
<1>4. ASSUME NEW r \in Receivers, r # q, NEW m \in Modes, SetReplayMode(r, m) PROVE Same
  BY <1>0, <1>4 DEF SetReplayMode
<1>5. ASSUME NEW r \in Receivers, r # q, RekeyInbound(r) PROVE Same
  BY <1>0, <1>5 DEF RekeyInbound
<1>6. CASE \E r \in Senders :
             \/ \E f \in PlainFrames : EncryptFrame(r, f)
             \/ \E p \in Policies : SetRekeyPolicy(r, p)
             \/ MarkRekeyManual(r)
             \/ RekeyOutbound(r)
  BY <1>1, <1>6 DEF EncryptFrame, SetRekeyPolicy, MarkRekeyManual, RekeyOutbound
<1>7. CASE (\E r \in Roles : Touch(r)) \/ Tick \/ UNCHANGED vars
  BY <1>1, <1>7 DEF Touch, Tick, vars
<1>. QED  BY <1>2, <1>3, <1>4, <1>5, <1>6, <1>7 DEF Next, SentFrames

LEMMA OpenedStep == TypeOK /\ SentInv /\ OpenedInv /\ [Next]_vars => OpenedInv'
<1>. SUFFICES ASSUME TypeOK, SentInv, OpenedInv, [Next]_vars, NEW q \in Roles
              PROVE  OpenedBy(q)'
  BY DEF OpenedInv
<1>. USE SessionAssumption
<1>. DEFINE Sealed(f) == \E i \in DOMAIN sent[Peer(q)] : f = sent[Peer(q)][i]
            SealedNow(f) == \E i \in DOMAIN sent'[Peer(q)] : f = sent'[Peer(q)][i]
<1>0. /\ OpenedBy(q) /\ rx \in [Roles -> RxStates] /\ rx[q] \in RxStates
      /\ delivered \in [Roles -> SUBSET SealedFrames]
      /\ rx[q].key \in Keys /\ rx[q].sequence \in Nat /\ rx[q].window \in Window
  <2>1. /\ OpenedBy(q) /\ rx \in [Roles -> RxStates] /\ rx[q] \in RxStates
        /\ delivered \in [Roles -> SUBSET SealedFrames]
    BY DEF OpenedInv, TypeOK
  <2>2. rx[q].key \in Keys /\ rx[q].sequence \in Uint64 /\ rx[q].window \in Window
    BY <2>1, RxUpdates
  <2>. QED  BY <2>1, <2>2, WindowAssumption DEF Uint64
<1>1. \A f : Sealed(f) => SealedNow(f)
  <2>1. Peer(q) \in Roles
    BY RoleFacts
  <2>. QED  BY <2>1, SentGrows
<1>. HIDE DEF Sealed, SealedNow
<1>2. ASSUME rx'[q].key.secret = RxSecret(q),
             \A f \in delivered'[q] : Behind(rx'[q], f.payload) /\ Sealed(f)
      PROVE  OpenedBy(q)'
  BY <1>1, <1>2 DEF OpenedBy, SealedNow, Behind
<1>3. /\ rx[q].key.secret = RxSecret(q)
      /\ \A f \in delivered[q] : Behind(rx[q], f.payload) /\ Sealed(f) /\ f \in SealedFrames
  BY <1>0 DEF OpenedBy, Sealed
<1>4. CASE rx'[q] = rx[q] /\ delivered'[q] = delivered[q]
  BY <1>2, <1>3, <1>4
<1>5. ASSUME NEW f \in Presented, DecryptFrame(q, f)
      PROVE  OpenedBy(q)'
  <2>1. /\ rx'[q] = [rx[q] EXCEPT !.sequence = Increment(rx[q].sequence)]
        /\ delivered'[q] = delivered[q] \cup {f} /\ rx[q].mode = "OrderedTCP"
        /\ OpensAs(q, f, rx[q].sequence)
    BY <1>0, <1>5 DEF DecryptFrame, OpensInOrder
  <2>2. f.payload.key = rx[q].key /\ f.payload.nonce.sequence = rx[q].sequence /\ Sealed(f)
    BY <1>3, <2>1, OpensPeer DEF Sealed
  <2>3. rx'[q].key = rx[q].key /\ rx'[q].mode = "OrderedTCP" /\ rx'[q].sequence = rx[q].sequence + 1
    <3>1. Increment(rx[q].sequence) = rx[q].sequence + 1
      BY <1>0, <1>5, IncrementFacts, RxUpdates DEF DecryptFrame, OpensInOrder
    <3>. QED  BY <1>0, <2>1, <3>1 DEF RxStates
  <2>4. Behind(rx'[q], f.payload)
    BY <1>0, <2>2, <2>3 DEF Behind
  <2>5. ASSUME NEW g \in delivered[q] PROVE Behind(rx'[q], g.payload) /\ Sealed(g)
    <3>1. Behind(rx[q], g.payload) /\ Sealed(g) /\ g.payload.nonce.sequence \in Nat
      BY <1>3, SealedParts
    <3>. QED  BY <1>0, <2>1, <2>3, <3>1 DEF Behind
  <2>. QED  BY <1>2, <1>3, <2>1, <2>2, <2>3, <2>4, <2>5
<1>6. ASSUME NEW f \in Presented, NEW s \in Uint64, DecryptFrameUDP(q, f, s)
      PROVE  OpenedBy(q)'
  <2>1. /\ rx'[q] = [rx[q] EXCEPT !.window = markSeen(rx[q].window, s)]
        /\ delivered'[q] = delivered[q] \cup {f} /\ rx[q].mode = "SlidingUDP"
        /\ OpensAs(q, f, s)
        /\ validateCandidate(rx[q].window, s) = "ok" /\ ~markPanics(rx[q].window, s)
    BY <1>0, <1>6 DEF DecryptFrameUDP, OpensSliding
  <2>2. f.payload.key = rx[q].key /\ f.payload.nonce.sequence = s /\ Sealed(f)
    BY <1>3, <2>1, OpensPeer DEF Sealed
  <2>3. /\ rx'[q].key = rx[q].key /\ rx'[q].mode = "SlidingUDP"
        /\ rx'[q].window = markSeen(rx[q].window, s)
    BY <1>0, <2>1 DEF RxStates
  <2>4. /\ validateCandidate(rx'[q].window, s) # "ok"
        /\ \A t \in Uint64 : validateCandidate(rx[q].window, t) # "ok" =>
              validateCandidate(rx'[q].window, t) # "ok"
    BY <1>0, <2>1, <2>3, MarkSeenRefuses
  <2>5. Behind(rx'[q], f.payload)
    BY <2>2, <2>3, <2>4 DEF Behind
  <2>6. ASSUME NEW g \in delivered[q] PROVE Behind(rx'[q], g.payload) /\ Sealed(g)
    <3>1. Behind(rx[q], g.payload) /\ Sealed(g) /\ g.payload.nonce.sequence \in Uint64
      BY <1>3, SealedParts
    <3>. QED  BY <2>1, <2>3, <2>4, <3>1 DEF Behind
  <2>. QED  BY <1>2, <1>3, <2>1, <2>2, <2>3, <2>5, <2>6
<1>7. ASSUME NEW m \in Modes, SetReplayMode(q, m)
      PROVE  OpenedBy(q)'
  <2>1. rx' = [rx EXCEPT ![q] = [rx[q] EXCEPT !.mode = m,
                 !.window = IF m = "SlidingUDP" THEN EmptyWindow ELSE rx[q].window]]
    BY <1>0, <1>7 DEF SetReplayMode
  <2>2. rx'[q].key = rx[q].key /\ rx'[q].mode = m /\ rx'[q].sequence = rx[q].sequence
    BY <1>0, <2>1 DEF RxStates
  <2>3. CASE m = "OrderedTCP" /\ rx[q].mode = "OrderedTCP"
    <3>1. delivered'[q] = delivered[q]
      BY <1>7, <2>3 DEF SetReplayMode
    <3>2. ASSUME NEW g \in delivered[q] PROVE Behind(rx'[q], g.payload) /\ Sealed(g)
      BY <1>3, <2>2, <2>3 DEF Behind
    <3>. QED  BY <1>2, <1>3, <2>2, <3>1, <3>2
  <2>4. CASE ~(m = "OrderedTCP" /\ rx[q].mode = "OrderedTCP")
    <3>1. delivered'[q] = {}
      BY <1>0, <1>7, <2>4 DEF SetReplayMode
    <3>. QED  BY <1>2, <1>3, <2>2, <3>1
  <2>. QED  BY <2>3, <2>4
<1>8. CASE RekeyInbound(q)
  <2>. DEFINE k == crypto!RekeyMaterial(rx[q].key, SessionID, rxDirection(q))
  <2>1. k.secret = rx[q].key.secret /\ Len(k.chain) = Len(rx[q].key.chain) + 1
        /\ Len(rx[q].key.chain) \in Nat
    BY <1>0, RekeyType, RoleFacts
  <2>2. rx'[q].key = k /\ delivered'[q] = delivered[q]
    BY <1>0, <1>8 DEF RekeyInbound, RxStates
  <2>. HIDE DEF k
  <2>3. ASSUME NEW g \in delivered[q] PROVE Behind(rx'[q], g.payload) /\ Sealed(g)
    <3>1. Behind(rx[q], g.payload) /\ Sealed(g) /\ Len(g.payload.key.chain) \in Nat
      BY <1>3, SealedParts
    <3>2. Len(g.payload.key.chain) <= Len(rx[q].key.chain)
      BY <2>1, <3>1 DEF Behind
    <3>3. Len(g.payload.key.chain) < Len(rx'[q].key.chain)
      BY <2>1, <2>2, <3>1, <3>2
    <3>. QED  BY <3>1, <3>3 DEF Behind
  <2>. QED  BY <1>2, <1>3, <2>1, <2>2, <2>3
<1>. QED  BY <1>4, <1>5, <1>6, <1>7, <1>8, OpenedSteps

LEMMA OpenedInit == Init => OpenedInv
<1>. SUFFICES ASSUME Init, NEW r \in Roles PROVE OpenedBy(r)
  BY DEF OpenedInv
<1>1. rx[r].key.secret = RxSecret(r) /\ delivered[r] = {}
  BY DEF Init, crypto!SessionKey
<1>. QED  BY <1>1 DEF OpenedBy

\* What lies behind the receiver does not open.
LEMMA OpenedRefused == TypeOK /\ OpenedInv => ReplayRejected
<1>. SUFFICES ASSUME TypeOK, OpenedInv, NEW r \in Roles, NEW f \in delivered[r]
              PROVE  /\ ~OpensInOrder(r, f)
                     /\ \A s \in Uint64 : ~OpensSliding(r, f, s)
  BY DEF ReplayRejected
<1>1. /\ rx[r] \in RxStates /\ f \in SealedFrames
      /\ Behind(rx[r], f.payload)
  BY DEF TypeOK, OpenedInv, OpenedBy
<1>2. /\ Len(f.payload.key.chain) \in Nat /\ Len(rx[r].key.chain) \in Nat
      /\ f.payload.nonce.sequence \in Nat
  BY <1>1, SealedParts, RxUpdates, RekeyType
<1>3. ASSUME NEW s, OpensAs(r, f, s)
      PROVE  /\ f.payload.key = rx[r].key /\ f.payload.nonce.sequence = s
             /\ rx[r].mode = "OrderedTCP" => s < rx[r].sequence
             /\ rx[r].mode = "SlidingUDP" => validateCandidate(rx[r].window, s) # "ok"
  <2>1. f.payload.key = rx[r].key /\ f.payload.nonce.sequence = s
    BY <1>3 DEF OpensAs, crypto!Opens, crypto!DeriveNonce
  <2>. QED  BY <1>1, <1>2, <2>1 DEF Behind
<1>4. ~OpensInOrder(r, f)
  BY <1>2, <1>3 DEF OpensInOrder
<1>5. ASSUME NEW s \in Uint64 PROVE ~OpensSliding(r, f, s)
  BY <1>3 DEF OpensSliding
<1>. QED  BY <1>4, <1>5

SessionInv == TypeOK /\ SentInv /\ OpenedInv

LEMMA SessionInvariant == Spec => []SessionInv
<1>1. Init => SessionInv
  BY InitType, SentInit, OpenedInit DEF SessionInv
<1>2. SessionInv /\ [Next]_vars => SessionInv'
  BY NextType, SentStep, OpenedStep DEF SessionInv
<1>. QED  BY <1>1, <1>2, PTL DEF Spec

\* A record that was opened is never opened again, in order or through the
\* window, whatever number is claimed for it and across all rekeys.
THEOREM SessionReplayRejected == Spec => []ReplayRejected
<1>1. SessionInv => ReplayRejected
  BY OpenedRefused DEF SessionInv
<1>. QED  BY <1>1, SessionInvariant, PTL

\* What DecryptFrame and DecryptFrameUDP open is a frame the peer sealed, with
\* its header as it was sealed.
THEOREM SessionDeliveredAuthentic == Spec => []DeliveredAuthentic
<1>1. SessionInv => DeliveredAuthentic
  BY DEF SessionInv, OpenedInv, OpenedBy, DeliveredAuthentic
<1>. QED  BY <1>1, SessionInvariant, PTL

-----------------------------------------------------------------------------
(***************************************************************************)
(* That the record an end waits for opens.  The two ends count their       *)
(* epochs apart; that the numbers agree although they wrap rests on the    *)
(* number of an epoch being determined by its key.                         *)
(***************************************************************************)
\* The number of the epoch of key k.
EpochOf(k) == Len(k.chain) % (MaxUint32 + 1)

\* Record f of end r carries in its nonce and its associated data what a
\* receiver in the same epoch computes, and not the number that is refused.
WellSealed(r, f) ==
  /\ f.payload.nonce = crypto!DeriveNonce(SessionID, f.payload.key, txDirection(r),
                                          f.payload.nonce.sequence)
  /\ f.payload.aad = crypto!BuildAAD(f, EpochOf(f.payload.key), f.payload.nonce.sequence)
  /\ f.payload.nonce.sequence # MaxUint64

EpochInv ==
  \A r \in Roles :
    /\ tx[r].epoch = EpochOf(tx[r].key)
    /\ rx[r].epoch = EpochOf(rx[r].key)
    /\ \A i \in DOMAIN sent[r] : WellSealed(r, sent[r][i])

\* Counting modulo m step by step is counting and reducing modulo m.
LEMMA ModSuccessor ==
  ASSUME NEW m \in Nat \ {0}, NEW n \in Nat
  PROVE  ((n % m) + 1) % m = (n + 1) % m
<1>. DEFINE q == n \div m  e == n % m
<1>1. q \in Nat /\ e \in 0 .. m - 1 /\ n = m * q + e
  BY DivMod
<1>. HIDE DEF q, e
<1>2. CASE e = m - 1
  <2>1. n + 1 = m * (q + 1) + 0 /\ e + 1 = m * 1 + 0
    BY <1>1, <1>2, SMT
  <2>2. (m * (q + 1) + 0) % m = 0 /\ (m * 1 + 0) % m = 0
    BY <1>1, DivModUnique
  <2>. QED  BY <2>1, <2>2 DEF e
<1>3. CASE e # m - 1
  <2>1. n + 1 = m * q + (e + 1) /\ e + 1 = m * 0 + (e + 1) /\ e + 1 \in 0 .. m - 1
    BY <1>1, <1>3, SMT
  <2>2. (m * q + (e + 1)) % m = e + 1 /\ (m * 0 + (e + 1)) % m = e + 1
    BY <1>1, <2>1, DivModUnique
  <2>. QED  BY <2>1, <2>2 DEF e
<1>. QED  BY <1>2, <1>3

\* The number after the epoch of k is that of the key derived from k.
LEMMA EpochAdvances ==
  ASSUME NEW k \in Keys, NEW dir \in {1, 2}
  PROVE  EpochOf(crypto!RekeyMaterial(k, SessionID, dir)) = (EpochOf(k) + 1) % (MaxUint32 + 1)
<1>1. MaxUint32 + 1 \in Nat \ {0}
  BY SessionAssumption
<1>2. /\ Len(k.chain) \in Nat
      /\ Len(crypto!RekeyMaterial(k, SessionID, dir).chain) = Len(k.chain) + 1
  BY RekeyType
<1>. QED  BY <1>1, <1>2, ModSuccessor DEF EpochOf

\* What EncryptFrame seals in the epoch of its key is well sealed.
LEMMA SealsWell ==
  ASSUME TypeOK, NEW r \in Roles, NEW f \in PlainFrames, CanSeal(r, f),
         tx[r].epoch = EpochOf(tx[r].key)
  PROVE  WellSealed(r, SealedFrame(r, f))
<1>. DEFINE g == SealedFrame(r, f)
<1>1. f.flags = {}
  BY DEF PlainFrames, crypto!NewFrame
<1>2. /\ g.msgType = f.msgType /\ g.flags = {"encrypted"} /\ g.payload.key = tx[r].key
      /\ g.payload.nonce = crypto!DeriveNonce(SessionID, tx[r].key, txDirection(r), tx[r].sequence)
      /\ g.payload.aad = crypto!BuildAAD(f, tx[r].epoch, tx[r].sequence)
  BY <1>1 DEF SealedFrame, crypto!EncryptFrame, crypto!Seal, crypto!FlagEncrypted
<1>3. g.payload.nonce.sequence = tx[r].sequence
  BY SealedType
<1>4. tx[r].sequence # MaxUint64
  BY DEF CanSeal
<1>. HIDE DEF g
<1>5. crypto!BuildAAD(g, tx[r].epoch, tx[r].sequence) = crypto!BuildAAD(f, tx[r].epoch, tx[r].sequence)
  BY <1>1, <1>2 DEF crypto!BuildAAD, crypto!FlagEncrypted
<1>. QED  BY <1>2, <1>3, <1>4, <1>5 DEF WellSealed, g

LEMMA EpochInit == Init => EpochInv
<1>. SUFFICES ASSUME Init, NEW r \in Roles
              PROVE  /\ tx[r].epoch = EpochOf(tx[r].key)
                     /\ rx[r].epoch = EpochOf(rx[r].key)
                     /\ \A i \in DOMAIN sent[r] : WellSealed(r, sent[r][i])
  BY DEF EpochInv
<1>1. MaxUint32 + 1 \in Nat \ {0}
  BY SessionAssumption
<1>2. 0 % (MaxUint32 + 1) = 0
  <2>1. ASSUME NEW m \in Nat \ {0} PROVE 0 % m = 0
    BY SMT
  <2>. QED  BY <1>1, <2>1
<1>3. /\ tx[r].epoch = 0 /\ tx[r].key.chain = << >>
      /\ rx[r].epoch = 0 /\ rx[r].key.chain = << >> /\ sent[r] = << >>
  BY DEF Init, crypto!SessionKey
<1>. QED  BY <1>2, <1>3 DEF EpochOf

\* A step leaves an end's outbound key and epoch alone or is a rekey.
LEMMA TxEpochStep ==
  ASSUME TypeOK, [Next]_vars, NEW q \in Roles
  PROVE  (tx'[q].key = tx[q].key /\ tx'[q].epoch = tx[q].epoch) \/ RekeyOutbound(q)
<1>. DEFINE Same == tx'[q].key = tx[q].key /\ tx'[q].epoch = tx[q].epoch
<1>. USE SessionAssumption
<1>0. tx \in [Roles -> TxStates] /\ tx[q] \in TxStates
  BY DEF TypeOK
<1>1. ASSUME NEW r \in Senders, NEW f \in PlainFrames, EncryptFrame(r, f) PROVE Same
  <2>. DEFINE n == crypto!SealedLen(SealedFrame(r, f).payload)
              t == [tx[r] EXCEPT !.sequence = Increment(tx[r].sequence),
                                 !.bytes = (tx[r].bytes + n) % (MaxUint64 + 1)]
  <2>1. tx' = [tx EXCEPT ![r] = refreshRekeyTrigger(t)] /\ r \in Roles
    BY <1>1 DEF EncryptFrame
  <2>2. CASE r # q
    BY <1>0, <2>1, <2>2
  <2>3. CASE r = q
    <3>1. tx'[q] = refreshRekeyTrigger(t)
      BY <1>0, <2>1, <2>3
    <3>2. t.key = tx[q].key /\ t.epoch = tx[q].epoch
      BY <1>0, <2>3 DEF TxStates
    <3>3. refreshRekeyTrigger(t).key = t.key /\ refreshRekeyTrigger(t).epoch = t.epoch
      BY DEF refreshRekeyTrigger
    <3>. QED  BY <3>1, <3>2, <3>3
  <2>. QED  BY <2>2, <2>3
<1>2. ASSUME NEW r \in Senders, NEW p \in Policies, SetRekeyPolicy(r, p) PROVE Same
  BY <1>0, <1>2 DEF SetRekeyPolicy, TxStates
<1>3. ASSUME NEW r \in Senders, MarkRekeyManual(r) PROVE Same
  BY <1>0, <1>3 DEF MarkRekeyManual, TxStates
<1>4. ASSUME NEW r \in Senders, r # q, RekeyOutbound(r) PROVE Same
  BY <1>0, <1>4 DEF RekeyOutbound
<1>5. CASE Tick
  <2>1. tx'[q] = [tx[q] EXCEPT !.age = Later(tx[q].age)]
    BY <1>5 DEF Tick
  <2>. QED  BY <1>0, <2>1 DEF TxStates
<1>6. ASSUME tx' = tx PROVE Same
  BY <1>6
<1>7. CASE \E r \in Receivers :
             \/ \E f \in Presented : DecryptFrame(r, f)
             \/ \E f \in Presented, s \in Uint64 : DecryptFrameUDP(r, f, s)
             \/ \E m \in Modes : SetReplayMode(r, m)
             \/ RekeyInbound(r)
  BY <1>6, <1>7 DEF DecryptFrame, DecryptFrameUDP, SetReplayMode, RekeyInbound
<1>8. CASE (\E r \in Roles : Touch(r)) \/ UNCHANGED vars
  BY <1>6, <1>8 DEF Touch, vars
<1>. QED  BY <1>1, <1>2, <1>3, <1>4, <1>5, <1>7, <1>8 DEF Next, SentFrames

\* A step leaves an end's inbound key and epoch alone or is a rekey.
LEMMA RxEpochStep ==
  ASSUME TypeOK, [Next]_vars, NEW q \in Roles
  PROVE  (rx'[q].key = rx[q].key /\ rx'[q].epoch = rx[q].epoch) \/ RekeyInbound(q)
<1>0. rx \in [Roles -> RxStates] /\ rx[q] \in RxStates
  BY DEF TypeOK
<1>1. ASSUME NEW f \in Presented, DecryptFrame(q, f)
      PROVE  rx'[q].key = rx[q].key /\ rx'[q].epoch = rx[q].epoch
  BY <1>0, <1>1 DEF DecryptFrame, RxStates
<1>2. ASSUME NEW f \in Presented, NEW s \in Uint64, DecryptFrameUDP(q, f, s)
      PROVE  rx'[q].key = rx[q].key /\ rx'[q].epoch = rx[q].epoch
  BY <1>0, <1>2 DEF DecryptFrameUDP, RxStates
<1>3. ASSUME NEW m \in Modes, SetReplayMode(q, m)
      PROVE  rx'[q].key = rx[q].key /\ rx'[q].epoch = rx[q].epoch
  BY <1>0, <1>3 DEF SetReplayMode, RxStates
<1>. QED  BY <1>1, <1>2, <1>3, OpenedSteps

LEMMA EpochStep == TypeOK /\ EpochInv /\ [Next]_vars => EpochInv'
<1>. SUFFICES ASSUME TypeOK, EpochInv, [Next]_vars, NEW q \in Roles
              PROVE  /\ tx'[q].epoch = EpochOf(tx'[q].key)
                     /\ rx'[q].epoch = EpochOf(rx'[q].key)
                     /\ \A i \in DOMAIN sent'[q] : WellSealed(q, sent'[q][i])
  BY DEF EpochInv, WellSealed, EpochOf, crypto!DeriveNonce, crypto!BuildAAD, txDirection
<1>0. /\ tx \in [Roles -> TxStates] /\ rx \in [Roles -> RxStates]
      /\ tx[q] \in TxStates /\ rx[q] \in RxStates /\ tx[q].key \in Keys /\ rx[q].key \in Keys
      /\ sent \in [Roles -> Seq(SealedFrames)]
  BY TxUpdates, RxUpdates DEF TypeOK
<1>1. /\ tx[q].epoch = EpochOf(tx[q].key) /\ rx[q].epoch = EpochOf(rx[q].key)
      /\ \A i \in DOMAIN sent[q] : WellSealed(q, sent[q][i])
  BY DEF EpochInv
<1>2. tx'[q].epoch = EpochOf(tx'[q].key)
  <2>1. CASE RekeyOutbound(q)
    <3>1. /\ tx'[q].key = crypto!RekeyMaterial(tx[q].key, SessionID, txDirection(q))
          /\ tx'[q].epoch = (tx[q].epoch + 1) % (MaxUint32 + 1)
      BY <1>0, <2>1 DEF RekeyOutbound, TxStates
    <3>. QED  BY <1>0, <1>1, <3>1, EpochAdvances, RoleFacts
  <2>. QED  BY <1>1, <2>1, TxEpochStep
<1>3. rx'[q].epoch = EpochOf(rx'[q].key)
  <2>1. CASE RekeyInbound(q)
    <3>1. /\ rx'[q].key = crypto!RekeyMaterial(rx[q].key, SessionID, rxDirection(q))
          /\ rx'[q].epoch = (rx[q].epoch + 1) % (MaxUint32 + 1)
      BY <1>0, <2>1 DEF RekeyInbound, RxStates
    <3>. QED  BY <1>0, <1>1, <3>1, EpochAdvances, RoleFacts
  <2>. QED  BY <1>1, <2>1, RxEpochStep
<1>4. \A i \in DOMAIN sent'[q] : WellSealed(q, sent'[q][i])
  <2>1. ASSUME NEW r \in Roles, NEW f \in PlainFrames, EncryptFrame(r, f)
        PROVE  \A i \in DOMAIN sent'[q] : WellSealed(q, sent'[q][i])
    <3>1. sent' = [sent EXCEPT ![r] = Append(sent[r], SealedFrame(r, f))] /\ CanSeal(r, f)
      BY <2>1 DEF EncryptFrame
    <3>2. CASE r # q
      BY <1>0, <1>1, <3>1, <3>2
    <3>3. CASE r = q
      <4>1. WellSealed(q, SealedFrame(q, f)) /\ SealedFrame(q, f) \in SealedFrames
        BY <1>1, <3>1, <3>3, SealsWell, SealedType
      <4>2. sent'[q] = Append(sent[q], SealedFrame(q, f)) /\ sent[q] \in Seq(SealedFrames)
        BY <1>0, <3>1, <3>3
      <4>3. ASSUME NEW i \in DOMAIN sent'[q] PROVE WellSealed(q, sent'[q][i])
        <5>1. (i \in DOMAIN sent[q] /\ sent'[q][i] = sent[q][i]) \/ sent'[q][i] = SealedFrame(q, f)
          BY <4>1, <4>2
        <5>. QED  BY <1>1, <4>1, <5>1
      <4>. QED  BY <4>3
    <3>. QED  BY <3>2, <3>3
  <2>2. CASE sent' = sent
    BY <1>1, <2>2
  <2>. QED  BY <2>1, <2>2, SentSteps DEF RekeyOutbound, Quiet
<1>. QED  BY <1>2, <1>3, <1>4

\* A record of the receiver's epoch opens under its own number.
LEMMA SameEpochOpens ==
  ASSUME TypeOK, EpochInv, NEW r \in Roles, NEW i \in DOMAIN sent[Peer(r)],
         sent[Peer(r)][i].payload.key = rx[r].key
  PROVE  LET f == sent[Peer(r)][i]
         IN  /\ crypto!IsEncrypted(f)
             /\ OpensAs(r, f, f.payload.nonce.sequence)
             /\ f.payload.nonce.sequence \in Uint64 \ {MaxUint64}
<1>. DEFINE f == sent[Peer(r)][i]
<1>0. Peer(r) \in Roles
  BY RoleFacts
<1>1. f \in SealedFrames
  BY <1>0 DEF TypeOK
<1>2. WellSealed(Peer(r), f) /\ rx[r].epoch = EpochOf(rx[r].key)
  BY <1>0 DEF EpochInv
<1>. HIDE DEF f
<1>3. f.payload.key = rx[r].key
  BY DEF f
<1>4. txDirection(Peer(r)) = rxDirection(r)
  BY DEF Roles, Peer, txDirection, rxDirection
<1>5. crypto!IsEncrypted(f) /\ f.payload.nonce.sequence \in Uint64
  BY <1>1 DEF SealedFrames, crypto!IsEncrypted, crypto!FlagEncrypted
<1>6. OpensAs(r, f, f.payload.nonce.sequence)
  BY <1>2, <1>3, <1>4, <1>5 DEF OpensAs, crypto!Opens, WellSealed
<1>. QED  BY <1>2, <1>5, <1>6 DEF WellSealed, f

LEMMA EpochOpensNext == TypeOK /\ EpochInv => NextRecordOpens
BY SameEpochOpens DEF NextRecordOpens, OpensInOrder

\* In the in-order mode the record the receiver waits for always opens: the
\* epoch numbers of the two ends agree whenever their keys do, although the
\* numbers wrap and the ends rekey each on its own.
THEOREM SessionNextRecordOpens == Spec => []NextRecordOpens
<1>1. TypeOK /\ EpochInv /\ [Next]_vars => (TypeOK /\ EpochInv)'
  BY NextType, EpochStep
<1>. QED  BY <1>1, InitType, EpochInit, EpochOpensNext, PTL DEF Spec

-----------------------------------------------------------------------------
(***************************************************************************)
(* That a fresh record opens through the window.  No bit is set but by a   *)
(* record that was delivered.                                              *)
(***************************************************************************)
\* The bit at distance d of end r stands for a record it delivered.
Marked(r, d) ==
  \E g \in delivered[r] :
    /\ g.payload.key = rx[r].key
    /\ g.payload.nonce.sequence = rx[r].window.highestSeen - d

MarksInv ==
  \A r \in Roles : rx[r].mode = "SlidingUDP" /\ rx[r].window.initialized =>
    \A d \in BitIndex : contains(rx[r].window.bits, d) => Marked(r, d)

LEMMA MarksInit == Init => MarksInv
BY DEF Init, MarksInv

LEMMA MarksStep == TypeOK /\ SentInv /\ OpenedInv /\ MarksInv /\ [Next]_vars => MarksInv'
<1>. SUFFICES ASSUME TypeOK, SentInv, OpenedInv, MarksInv, [Next]_vars, NEW q \in Roles,
                     rx'[q].mode = "SlidingUDP", rx'[q].window.initialized,
                     NEW d \in BitIndex, contains(rx'[q].window.bits, d)
              PROVE  Marked(q, d)'
  BY DEF MarksInv
<1>0. /\ rx \in [Roles -> RxStates] /\ rx[q] \in RxStates /\ rx[q].window \in Window
      /\ delivered \in [Roles -> SUBSET SealedFrames]
      /\ rx[q].window.highestSeen \in Nat /\ d \in Nat /\ 0 \in BitIndex /\ Size \in Nat
      /\ rx[q].window.initialized \in BOOLEAN
  <2>1. Size \in Nat \ {0}
    BY WindowAssumption, SMT DEF Size
  <2>2. rx \in [Roles -> RxStates] /\ rx[q] \in RxStates /\ delivered \in [Roles -> SUBSET SealedFrames]
    BY DEF TypeOK
  <2>3. rx[q].window \in Window
    BY <2>2, RxUpdates
  <2>. QED  BY <2>1, <2>2, <2>3, WindowAssumption DEF BitIndex, Window, Uint64
<1>1. ASSUME NEW k \in BitIndex, rx[q].mode = "SlidingUDP", rx[q].window.initialized,
             contains(rx[q].window.bits, k)
      PROVE  Marked(q, k)
  BY <1>1 DEF MarksInv
<1>2. CASE rx'[q] = rx[q] /\ delivered'[q] = delivered[q]
  BY <1>1, <1>2 DEF Marked
<1>3. ASSUME NEW f \in Presented, DecryptFrame(q, f) PROVE Marked(q, d)'
  BY <1>0, <1>3 DEF DecryptFrame, OpensInOrder, RxStates
<1>4. ASSUME NEW f \in Presented, NEW s \in Uint64, DecryptFrameUDP(q, f, s)
      PROVE  Marked(q, d)'
  <2>. DEFINE w == rx[q].window
  <2>1. /\ rx'[q] = [rx[q] EXCEPT !.window = markSeen(w, s)]
        /\ delivered'[q] = delivered[q] \cup {f} /\ rx[q].mode = "SlidingUDP"
        /\ validateCandidate(w, s) = "ok" /\ ~markPanics(w, s)
        /\ OpensAs(q, f, s)
    BY <1>0, <1>4 DEF DecryptFrameUDP, OpensSliding
  <2>2. f.payload.key = rx[q].key /\ f.payload.nonce.sequence = s
    BY <2>1, OpensPeer DEF OpenedInv, OpenedBy
  <2>3. rx'[q].key = rx[q].key /\ rx'[q].window = markSeen(w, s)
    BY <1>0, <2>1 DEF RxStates
  <2>. DEFINE w2 == markSeen(w, s)
  <2>4. s \in Nat
    BY WindowAssumption DEF Uint64
  <2>5. ASSUME w2.highestSeen - d = s PROVE Marked(q, d)'
    BY <2>1, <2>2, <2>3, <2>5 DEF Marked
  <2>6. ASSUME NEW k \in BitIndex, w.initialized, contains(w.bits, k),
               w.highestSeen - k = w2.highestSeen - d
        PROVE  Marked(q, d)'
    <3>1. PICK g \in delivered[q] : /\ g.payload.key = rx[q].key
                                    /\ g.payload.nonce.sequence = w.highestSeen - k
      BY <1>1, <2>1, <2>6 DEF Marked
    <3>2. g \in delivered'[q]
      BY <2>1, <3>1
    <3>. QED  BY <2>3, <2>6, <3>1, <3>2 DEF Marked
  <2>7. CASE ~w.initialized
    <3>1. w2.highestSeen = s /\ d = 0
      BY <1>0, <2>1, <2>3, <2>7, MarkSeenBits
    <3>. QED  BY <2>4, <2>5, <3>1
  <2>8. CASE w.initialized /\ s > w.highestSeen
    <3>. DEFINE n == s - w.highestSeen
    <3>1. w2.highestSeen = s /\ (d = 0 \/ (n <= d /\ contains(w.bits, d - n)))
      BY <1>0, <2>1, <2>3, <2>8, MarkSeenBits
    <3>2. CASE d = 0
      BY <2>4, <2>5, <3>1, <3>2
    <3>3. CASE n <= d /\ contains(w.bits, d - n)
      <4>1. d - n \in BitIndex /\ w.highestSeen - (d - n) = s - d
        BY <1>0, <2>4, <2>8, <3>3 DEF BitIndex
      <4>. QED  BY <2>6, <2>8, <3>1, <3>3, <4>1
    <3>. QED  BY <3>1, <3>2, <3>3
  <2>9. CASE w.initialized /\ ~(s > w.highestSeen)
    <3>1. w2.highestSeen = w.highestSeen /\ (d = w.highestSeen - s \/ contains(w.bits, d))
      BY <1>0, <2>1, <2>3, <2>9, MarkSeenBits
    <3>2. CASE d = w.highestSeen - s
      <4>1. w2.highestSeen - d = s
        BY <1>0, <2>4, <3>1, <3>2
      <4>. QED  BY <2>5, <4>1
    <3>3. CASE contains(w.bits, d)
      BY <2>6, <2>9, <3>1, <3>3
    <3>. QED  BY <3>1, <3>2, <3>3
  <2>. QED  BY <1>0, <2>7, <2>8, <2>9
<1>5. ASSUME NEW m \in Modes, SetReplayMode(q, m) PROVE Marked(q, d)'
  <2>1. ~EmptyWindow.initialized
    BY DEF EmptyWindow
  <2>2. rx'[q] = [rx[q] EXCEPT !.mode = m,
                   !.window = IF m = "SlidingUDP" THEN EmptyWindow ELSE rx[q].window]
    BY <1>0, <1>5 DEF SetReplayMode
  <2>3. rx'[q].mode = m /\ (m = "SlidingUDP" => rx'[q].window = EmptyWindow)
    BY <1>0, <2>2 DEF RxStates
  <2>. QED  BY <2>1, <2>3
<1>6. CASE RekeyInbound(q)
  <2>1. ~EmptyWindow.initialized
    BY DEF EmptyWindow
  <2>2. rx'[q].window = EmptyWindow
    BY <1>0, <1>6 DEF RekeyInbound, RxStates
  <2>. QED  BY <2>1, <2>2
<1>. QED  BY <1>2, <1>3, <1>4, <1>5, <1>6, OpenedSteps

\* A record of the epoch that was not delivered has no bit set, as no other
\* record has its number; so the window lets it through.
LEMMA FreshOpens ==
  TypeOK /\ NonceUnique /\ OpenedInv /\ EpochInv /\ MarksInv => FreshRecordOpens
<1>. SUFFICES ASSUME TypeOK, NonceUnique, OpenedInv, EpochInv, MarksInv,
                     NEW r \in Roles, NEW i \in DOMAIN sent[Peer(r)],
                     rx[r].mode = "SlidingUDP",
                     sent[Peer(r)][i].payload.key = rx[r].key,
                     sent[Peer(r)][i] \notin delivered[r],
                     rx[r].window.initialized =>
                       /\ rx[r].window.highestSeen - sent[Peer(r)][i].payload.nonce.sequence < Size
                       /\ sent[Peer(r)][i].payload.nonce.sequence - rx[r].window.highestSeen
                            <= MaxInt64
              PROVE  OpensSliding(r, sent[Peer(r)][i], sent[Peer(r)][i].payload.nonce.sequence)
  BY DEF FreshRecordOpens
<1>. DEFINE f == sent[Peer(r)][i]
            s == f.payload.nonce.sequence
            w == rx[r].window
<1>1. crypto!IsEncrypted(f) /\ OpensAs(r, f, s) /\ s \in Uint64
  BY SameEpochOpens
<1>2. /\ w \in Window /\ w.highestSeen \in Nat /\ w.initialized \in BOOLEAN /\ s \in Nat
      /\ Size \in Nat /\ MaxInt64 \in Nat /\ Size - 1 <= MaxInt64 /\ Peer(r) \in Roles
  <2>1. w \in Window
    BY RxUpdates DEF TypeOK
  <2>. QED  BY <1>1, <2>1, WindowAssumption, SizeAssumption, RoleFacts DEF Window, Uint64, Size
<1>. HIDE DEF s
<1>3. w.initialized /\ s > w.highestSeen => ToInt(s - w.highestSeen) = s - w.highestSeen
  BY <1>2 DEF s, ToInt
<1>4. ~markPanics(w, s)
  BY <1>2, <1>3 DEF markPanics
<1>5. validateCandidate(w, s) = "ok"
  <2>. SUFFICES ASSUME validateCandidate(w, s) # "ok" PROVE FALSE
    OBVIOUS
  <2>1. /\ w.initialized /\ s <= w.highestSeen
        /\ \/ w.highestSeen - s >= Size
           \/ w.highestSeen - s > MaxInt64
           \/ contains(w.bits, w.highestSeen - s)
    BY <1>1, <1>2, RefusedIff
  <2>2. w.highestSeen - s < Size
    BY <2>1 DEF s
  <2>3. w.highestSeen - s \in BitIndex /\ contains(w.bits, w.highestSeen - s)
    BY <1>2, <2>1, <2>2 DEF BitIndex
  <2>4. PICK g \in delivered[r] : /\ g.payload.key = rx[r].key
                                  /\ g.payload.nonce.sequence = w.highestSeen - (w.highestSeen - s)
    BY <2>1, <2>3 DEF MarksInv, Marked
  <2>5. PICK j \in DOMAIN sent[Peer(r)] : g = sent[Peer(r)][j]
    BY DEF OpenedInv, OpenedBy
  <2>6. g.payload.nonce.sequence = f.payload.nonce.sequence /\ g.payload.key = f.payload.key
    BY <1>2, <2>4 DEF s
  <2>7. i = j
    BY <1>2, <2>5, <2>6 DEF NonceUnique
  <2>. QED  BY <2>5, <2>7
<1>. QED  BY <1>1, <1>4, <1>5 DEF OpensSliding, s

\* In the sliding mode every record of the epoch that was not delivered yet
\* opens, in whatever order the records come, unless the window has left it
\* behind or it lies further ahead than an int can say.
THEOREM SessionFreshRecordOpens == Spec => []FreshRecordOpens
<1>. DEFINE I == SessionInv /\ EpochInv /\ MarksInv
<1>1. Init => I
  BY InitType, SentInit, OpenedInit, EpochInit, MarksInit DEF SessionInv
<1>2. I /\ [Next]_vars => I'
  BY NextType, SentStep, OpenedStep, EpochStep, MarksStep DEF SessionInv
<1>3. I => FreshRecordOpens
  BY SentUnique, FreshOpens DEF SessionInv
<1>. HIDE DEF I
<1>. QED  BY <1>1, <1>2, <1>3, PTL DEF Spec

-----------------------------------------------------------------------------
(***************************************************************************)
(* That no rekey is missed.  While none is required the byte counter has   *)
(* not wrapped: it stood below a limit of some policy when it was last     *)
(* compared, though that need not be the limit now in force.               *)
(***************************************************************************)
Limits == {AtLeastOne(p.maxBytes) : p \in Policies}

BytesExact(r) ==
  /\ tx[r].bytes = epochBytes[r]
  /\ \E limit \in Limits : tx[r].bytes < limit

BytesInv ==
  \A r \in Roles : tx[r].maxBytes \in Limits /\ (~tx[r].required => BytesExact(r))

\* Sealing a frame counts its bytes, and requires a rekey if they reach the
\* limit.
LEMMA SealCounts ==
  ASSUME TypeOK, BytesInv, PoliciesBelowWrap, NEW r \in Roles, NEW f \in PlainFrames,
         EncryptFrame(r, f)
  PROVE  /\ tx'[r].maxBytes = tx[r].maxBytes
         /\ ~tx'[r].required => tx'[r].bytes = epochBytes'[r] /\ tx'[r].bytes < tx[r].maxBytes
         /\ epochBytes'[r] >= tx[r].maxBytes => tx'[r].required
<1>. DEFINE t == tx[r]
            n == crypto!SealedLen(SealedFrame(r, f).payload)
            b == (t.bytes + n) % (MaxUint64 + 1)
            u == [t EXCEPT !.sequence = Increment(t.sequence), !.bytes = b]
<1>1. /\ tx \in [Roles -> TxStates] /\ t \in TxStates /\ t.bytes \in Nat /\ t.maxBytes \in Nat
      /\ t.required \in BOOLEAN /\ epochBytes \in [Roles -> Nat] /\ epochBytes[r] \in Nat
      /\ MaxUint64 \in Nat
  BY WindowAssumption DEF TypeOK, TxStates, Uint64
<1>2. \E p \in Payloads : n = PayloadLen[p] + TagSize
  <2>1. PICK m \in MsgTypes, p \in Payloads : f = crypto!NewFrame(m, p)
    BY DEF PlainFrames
  <2>2. SealedFrame(r, f).payload.plain = p
    BY <2>1 DEF SealedFrame, crypto!NewFrame, crypto!EncryptFrame, crypto!Seal
  <2>. QED  BY <2>2 DEF crypto!SealedLen
<1>3. n \in Nat
  BY SealedType
<1>4. tx'[r] = refreshRekeyTrigger(u) /\ epochBytes'[r] = epochBytes[r] + n
  BY <1>1 DEF EncryptFrame
<1>. HIDE DEF n
<1>5. b \in Nat
  BY <1>1, <1>3, WrapType, WindowAssumption DEF Uint64
<1>6. ~t.required => b = epochBytes[r] + n
  <2>. SUFFICES ASSUME ~t.required PROVE b = epochBytes[r] + n
    OBVIOUS
  <2>1. PICK limit \in Limits : t.bytes < limit
    BY DEF BytesInv, BytesExact
  <2>2. PICK p \in Policies : limit = AtLeastOne(p.maxBytes)
    BY DEF Limits
  <2>3. limit \in Nat
    BY <2>2, SessionAssumption DEF AtLeastOne, Policy
  <2>4. limit + n <= MaxUint64 + 1
    <3>1. PICK m \in Payloads : n = PayloadLen[m] + TagSize
      BY <1>2
    <3>2. PayloadLen[m] \in Nat /\ TagSize \in Nat
      BY SessionAssumption
    <3>3. AtLeastOne(p.maxBytes) + PayloadLen[m] + TagSize <= MaxUint64 + 1
      BY DEF PoliciesBelowWrap
    <3>. HIDE DEF PoliciesBelowWrap
    <3>. QED  BY <2>2, <2>3, <3>1, <3>2, <3>3
  <2>5. t.bytes + n \in 0 .. MaxUint64
    BY <1>1, <1>3, <2>1, <2>3, <2>4
  <2>6. ASSUME NEW x \in 0 .. MaxUint64 PROVE x % (MaxUint64 + 1) = x
    <3>1. (MaxUint64 + 1) * 0 + x = x /\ MaxUint64 + 1 \in Nat \ {0} /\ (MaxUint64 + 1) - 1 = MaxUint64
      BY <1>1
    <3>2. ((MaxUint64 + 1) * 0 + x) % (MaxUint64 + 1) = x
      BY <3>1, DivModUnique
    <3>. QED  BY <3>1, <3>2
  <2>7. t.bytes = epochBytes[r]
    BY DEF BytesInv, BytesExact
  <2>. QED  BY <2>5, <2>6, <2>7
<1>. HIDE DEF b
<1>7. u.required = t.required /\ u.maxBytes = t.maxBytes /\ u.bytes = b
  BY <1>1 DEF TxStates
<1>. HIDE DEF u
<1>8. refreshRekeyTrigger(u).maxBytes = u.maxBytes /\ refreshRekeyTrigger(u).bytes = u.bytes
  BY DEF refreshRekeyTrigger, u
<1>9. CASE t.required
  <2>1. refreshRekeyTrigger(u) = u
    BY <1>7, <1>9 DEF refreshRekeyTrigger
  <2>. QED  BY <1>4, <1>7, <1>8, <1>9, <2>1
<1>10. CASE ~t.required
  <2>1. CASE b >= t.maxBytes
    <3>1. refreshRekeyTrigger(u).required
      BY <1>1, <1>5, <1>7, <2>1 DEF refreshRekeyTrigger, u, TxStates
    <3>. QED  BY <1>4, <1>7, <1>8, <3>1
  <2>2. CASE ~(b >= t.maxBytes)
    BY <1>1, <1>4, <1>5, <1>6, <1>7, <1>8, <1>10, <2>2
  <2>. QED  BY <2>1, <2>2
<1>. QED  BY <1>1, <1>9, <1>10

LEMMA BytesInit == Init => BytesInv
<1>. SUFFICES ASSUME Init, NEW r \in Roles
              PROVE  tx[r].maxBytes \in Limits /\ (~tx[r].required => BytesExact(r))
  BY DEF BytesInv
<1>1. tx[r].maxBytes = AtLeastOne(InitPolicy.maxBytes) /\ tx[r].bytes = 0 /\ epochBytes[r] = 0
  BY DEF Init
<1>2. AtLeastOne(InitPolicy.maxBytes) \in Limits /\ 0 < AtLeastOne(InitPolicy.maxBytes)
  BY SessionAssumption DEF Limits, AtLeastOne, Policy
<1>. QED  BY <1>1, <1>2 DEF BytesExact

LEMMA BytesStep ==
  TypeOK /\ PoliciesBelowWrap /\ BytesInv /\ [Next]_vars => BytesInv'
<1>. SUFFICES ASSUME TypeOK, PoliciesBelowWrap, BytesInv, [Next]_vars, NEW q \in Roles
              PROVE  /\ tx'[q].maxBytes \in Limits
                     /\ ~tx'[q].required =>
                          /\ tx'[q].bytes = epochBytes'[q]
                          /\ \E limit \in Limits : tx'[q].bytes < limit
  BY DEF BytesInv, BytesExact, Limits, AtLeastOne
<1>. USE SessionAssumption
<1>. DEFINE Same == /\ tx'[q].maxBytes = tx[q].maxBytes /\ tx'[q].bytes = tx[q].bytes
                    /\ tx'[q].required = tx[q].required /\ epochBytes'[q] = epochBytes[q]
            Kept == /\ tx'[q].maxBytes \in Limits
                    /\ ~tx'[q].required =>
                         /\ tx'[q].bytes = epochBytes'[q]
                         /\ \E limit \in Limits : tx'[q].bytes < limit
<1>0. /\ tx \in [Roles -> TxStates] /\ tx[q] \in TxStates /\ epochBytes \in [Roles -> Nat]
      /\ tx[q].maxBytes \in Limits /\ (~tx[q].required => BytesExact(q))
  BY DEF TypeOK, BytesInv
<1>1. ASSUME Same PROVE Kept
  BY <1>0, <1>1 DEF BytesExact
<1>2. ASSUME NEW r \in Senders, NEW f \in PlainFrames, EncryptFrame(r, f) PROVE Kept
  <2>1. CASE r = q
    <3>1. /\ tx'[q].maxBytes = tx[q].maxBytes
          /\ ~tx'[q].required => tx'[q].bytes = epochBytes'[q] /\ tx'[q].bytes < tx[q].maxBytes
      BY <1>2, <2>1, SealCounts
    <3>. QED  BY <1>0, <3>1
  <2>2. CASE r # q
    <3>1. Same
      BY <1>0, <1>2, <2>2 DEF EncryptFrame
    <3>. QED  BY <1>1, <3>1
  <2>. QED  BY <2>1, <2>2
<1>3. ASSUME NEW r \in Senders, NEW p \in Policies, SetRekeyPolicy(r, p) PROVE Kept
  <2>1. CASE r = q
    <3>1. tx'[q] = [tx[q] EXCEPT !.maxBytes = AtLeastOne(p.maxBytes),
                                 !.maxAge   = AtLeastOne(p.maxAge)]
          /\ epochBytes' = epochBytes
      BY <1>0, <1>3, <2>1 DEF SetRekeyPolicy
    <3>2. /\ tx'[q].maxBytes = AtLeastOne(p.maxBytes) /\ tx'[q].bytes = tx[q].bytes
          /\ tx'[q].required = tx[q].required
      BY <1>0, <3>1 DEF TxStates
    <3>. QED  BY <1>0, <3>1, <3>2 DEF BytesExact, Limits
  <2>2. CASE r # q
    <3>1. Same
      BY <1>0, <1>3, <2>2 DEF SetRekeyPolicy
    <3>. QED  BY <1>1, <3>1
  <2>. QED  BY <2>1, <2>2
<1>4. ASSUME NEW r \in Senders, MarkRekeyManual(r) PROVE Kept
  <2>1. CASE r = q
    <3>1. tx'[q] = [tx[q] EXCEPT !.required = TRUE, !.reason = "manual"]
      BY <1>0, <1>4, <2>1 DEF MarkRekeyManual
    <3>2. tx'[q].maxBytes = tx[q].maxBytes /\ tx'[q].required
      BY <1>0, <3>1 DEF TxStates
    <3>. QED  BY <1>0, <3>2
  <2>2. CASE r # q
    <3>1. Same
      BY <1>0, <1>4, <2>2 DEF MarkRekeyManual
    <3>. QED  BY <1>1, <3>1
  <2>. QED  BY <2>1, <2>2
<1>5. ASSUME NEW r \in Senders, RekeyOutbound(r) PROVE Kept
  <2>1. CASE r = q
    <3>1. tx'[q].maxBytes = tx[q].maxBytes /\ tx'[q].bytes = 0 /\ epochBytes'[q] = 0
      BY <1>0, <1>5, <2>1 DEF RekeyOutbound, TxStates
    <3>2. AtLeastOne(InitPolicy.maxBytes) \in Limits /\ 0 < AtLeastOne(InitPolicy.maxBytes)
      BY DEF Limits, AtLeastOne, Policy
    <3>. QED  BY <1>0, <3>1, <3>2
  <2>2. CASE r # q
    <3>1. Same
      BY <1>0, <1>5, <2>2 DEF RekeyOutbound
    <3>. QED  BY <1>1, <3>1
  <2>. QED  BY <2>1, <2>2
<1>6. ASSUME Tick PROVE Kept
  <2>1. tx'[q] = [tx[q] EXCEPT !.age = Later(tx[q].age)] /\ epochBytes' = epochBytes
    BY <1>6 DEF Tick
  <2>2. Same
    BY <1>0, <2>1 DEF TxStates
  <2>. QED  BY <1>1, <2>2
<1>7. ASSUME tx' = tx, epochBytes' = epochBytes PROVE Kept
  BY <1>1, <1>7
<1>. HIDE DEF Kept
<1>8. ASSUME \E r \in Receivers :
               \/ \E f \in Presented : DecryptFrame(r, f)
               \/ \E f \in Presented, s \in Uint64 : DecryptFrameUDP(r, f, s)
               \/ \E m \in Modes : SetReplayMode(r, m)
               \/ RekeyInbound(r)
      PROVE Kept
  BY <1>7, <1>8 DEF DecryptFrame, DecryptFrameUDP, SetReplayMode, RekeyInbound
<1>9. ASSUME (\E r \in Roles : Touch(r)) \/ UNCHANGED vars PROVE Kept
  BY <1>7, <1>9 DEF Touch, vars
<1>10. Kept
  BY <1>2, <1>3, <1>4, <1>5, <1>6, <1>8, <1>9 DEF Next, SentFrames
<1>. QED  BY <1>10 DEF Kept

\* The step of RekeyNotMissed.
LEMMA RekeyStep ==
  ASSUME TypeOK, PoliciesBelowWrap, BytesInv, [Next]_vars, NEW q \in Roles,
         Len(sent'[q]) > Len(sent[q]), epochBytes'[q] >= tx[q].maxBytes
  PROVE  tx'[q].required
<1>0. sent \in [Roles -> Seq(SealedFrames)] /\ Len(sent[q]) \in Nat
  BY DEF TypeOK
<1>1. ASSUME NEW r \in Roles, NEW f \in PlainFrames, EncryptFrame(r, f)
      PROVE  tx'[q].required
  <2>1. CASE r # q
    <3>1. sent'[q] = sent[q]
      BY <1>0, <1>1, <2>1 DEF EncryptFrame
    <3>. QED  BY <1>0, <3>1
  <2>2. CASE r = q
    BY <1>1, <2>2, SealCounts
  <2>. QED  BY <2>1, <2>2
<1>2. CASE sent' = sent
  BY <1>0, <1>2
<1>. QED  BY <1>1, <1>2, SentSteps DEF RekeyOutbound, Quiet

\* Whenever a frame is sealed and the bytes of the epoch have reached the limit
\* in force, a rekey is required, provided that no policy lets one frame carry
\* the counter from below its limit past the largest uint64.
THEOREM SessionRekeyNotMissed == Spec => RekeyNotMissed
<1>. DEFINE I == TypeOK /\ (PoliciesBelowWrap => BytesInv)
            Step == PoliciesBelowWrap =>
                      \A r \in Roles :
                        Len(sent'[r]) > Len(sent[r]) /\ epochBytes'[r] >= tx[r].maxBytes
                          => tx'[r].required
<1>1. Init => I
  BY InitType, BytesInit
<1>2. I /\ [Next]_vars => I'
  <2>1. PoliciesBelowWrap' <=> PoliciesBelowWrap
    BY DEF PoliciesBelowWrap, AtLeastOne
  <2>. QED  BY <2>1, NextType, BytesStep
<1>3. I /\ [Next]_vars => [Step]_vars
  BY RekeyStep
<1>. HIDE DEF I
<1>4. Spec => [][Step]_vars
  BY <1>1, <1>2, <1>3, PTL DEF Spec
<1>. QED  BY <1>4 DEF RekeyNotMissed
=============================================================================
