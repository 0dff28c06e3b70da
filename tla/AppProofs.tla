----------------------------- MODULE AppProofs ------------------------------
(***************************************************************************)
(* The shared state of app/app.go.  The Inbox loses nothing and behaves as *)
(* one queue, for every number of goroutines, channels and messages; the   *)
(* lists of StableSubscriberSet are exact and are never shared, for every  *)
(* number of channels, clients and arrays.                                 *)
(***************************************************************************)
EXTENDS Inbox, Subscribers, NaturalsInduction, WellFoundedInduction, SequenceTheorems, TLAPS

\* A goroutine that holds the mutex is in a method and has read the queue that
\* is still there; no other one has read anything.
MutexInv ==
  \A g \in Goroutines :
    /\ mu = g => read[g] = queue /\ call[g] # NoCall
    /\ mu # g => read[g] = Nil

\* Every message that Push was called with has a number of its own.
IdsInv ==
  /\ \A k \in DOMAIN pushed : pushed[k].id <= started
  /\ \A k, l \in DOMAIN pushed : pushed[k].id = pushed[l].id => k = l
  /\ \A g \in Goroutines : call[g].method = "Push" =>
       /\ call[g].arg.id <= started
       /\ \A k \in DOMAIN pushed : pushed[k].id # call[g].arg.id
  /\ \A g, h \in Goroutines :
       /\ call[g].method = "Push" /\ call[h].method = "Push"
       /\ call[g].arg.id = call[h].arg.id
       => g = h

PoppedPushed == ToSet(popped) \subseteq ToSet(pushed)

Inv == TypeOK /\ MutexInv /\ IdsInv /\ PoppedPushed /\ NothingLost
-----------------------------------------------------------------------------
(***************************************************************************)
(* Sequences.                                                              *)
(***************************************************************************)
\* A set of natural numbers that is not empty has a least element.
LEMMA LeastElement ==
  ASSUME NEW T \in SUBSET Nat, T # {}
  PROVE  \E x \in T : \A y \in T : x <= y
<1>. DEFINE R == {ss \in Nat \X Nat : ss[1] < ss[2]}
<1>1. IsWellFoundedOn(R, Nat)
  BY NatLessThanWellFounded DEF OpToRel
<1>. HIDE DEF R
<1>2. PICK x \in T : \A y \in T : ~ (<<y, x>> \in R)
  BY <1>1, WFMin
<1>3. ASSUME NEW y \in T, y < x PROVE FALSE
  BY <1>2, <1>3 DEF R
<1>. QED  BY <1>3

\* Where PopChannel finds the message it takes, 0 if there is none.
FirstIndex(s, c) == SelectInSeq(s, LAMBDA m : m.channel = c)

IsFirst(s, c, idx) ==
  \/ /\ idx = 0
     /\ \A k \in DOMAIN s : s[k].channel # c
  \/ /\ idx \in DOMAIN s
     /\ s[idx].channel = c
     /\ \A j \in 1 .. idx - 1 : s[j].channel # c

\* The search finds the oldest message of the channel.
LEMMA SelectFirst ==
  ASSUME NEW s \in Seq(Messages), NEW c
  PROVE  IsFirst(s, c, FirstIndex(s, c))
<1>. DEFINE I == {i \in 1 .. Len(s) : s[i].channel = c}
            idx == FirstIndex(s, c)
<1>1. idx = IF I # {} THEN Min(I) ELSE 0
  BY DEF SelectInSeq, FirstIndex
<1>. SUFFICES IsFirst(s, c, idx)
  OBVIOUS
<1>. HIDE DEF idx
<1>2. I \in SUBSET Nat /\ DOMAIN s = 1 .. Len(s) /\ Len(s) \in Nat
  OBVIOUS
<1>3. CASE I = {}
  BY <1>1, <1>2, <1>3 DEF IsFirst
<1>4. CASE I # {}
  <2>1. \E x \in I : \A y \in I : x <= y
    <3>. HIDE DEF I
    <3>. QED  BY <1>2, <1>4, LeastElement
  <2>2. idx \in I /\ \A y \in I : idx <= y
    <3>. HIDE DEF I
    <3>. QED  BY <1>1, <1>4, <2>1 DEF Min
  <2>3. ASSUME NEW j \in 1 .. idx - 1, s[j].channel = c PROVE FALSE
    <3>1. j \in I
      BY <1>2, <2>2, <2>3
    <3>2. idx \in 1 .. Len(s) /\ idx <= j
      <4>. idx \in I
        BY <2>2
      <4>. QED  BY <2>2, <3>1
    <3>. QED  BY <1>2, <3>2
  <2>. QED  BY <1>2, <2>2, <2>3 DEF IsFirst
<1>. QED  BY <1>3, <1>4

\* What is left when one element is taken out.
LEMMA RemoveAtFacts ==
  ASSUME NEW S, NEW s \in Seq(S), NEW i \in DOMAIN s
  PROVE  /\ RemoveAt(s, i) \in Seq(S)
         /\ Len(RemoveAt(s, i)) = Len(s) - 1
         /\ \A k \in 1 .. Len(s) - 1 :
              RemoveAt(s, i)[k] = IF k < i THEN s[k] ELSE s[k + 1]
<1>. DEFINE a == SubSeq(s, 1, i - 1)
            b == SubSeq(s, i + 1, Len(s))
<1>1. Len(s) \in Nat /\ i \in 1 .. Len(s)
  OBVIOUS
<1>2. /\ a \in Seq(S) /\ Len(a) = i - 1
      /\ \A k \in 1 .. i - 1 : a[k] = s[k]
  BY <1>1
<1>3. /\ b \in Seq(S) /\ Len(b) = Len(s) - i
      /\ \A k \in 1 .. Len(s) - i : b[k] = s[i + k]
  BY <1>1
<1>. HIDE DEF a, b
<1>4. /\ a \o b \in Seq(S)
      /\ Len(a \o b) = Len(s) - 1
      /\ \A k \in 1 .. Len(s) - 1 : (a \o b)[k] = IF k < i THEN a[k] ELSE b[k - (i - 1)]
  <2>1. /\ a \o b \in Seq(S)
        /\ Len(a \o b) = Len(a) + Len(b)
        /\ \A k \in 1 .. Len(a) + Len(b) :
             (a \o b)[k] = IF k <= Len(a) THEN a[k] ELSE b[k - Len(a)]
    BY <1>2, <1>3, ConcatProperties
  <2>. HIDE DEF a, b
  <2>2. Len(a) + Len(b) = Len(s) - 1
    BY <1>1, <1>2, <1>3
  <2>3. \A k \in 1 .. Len(s) - 1 : k <= Len(a) <=> k < i
    BY <1>1, <1>2
  <2>. QED  BY <1>2, <2>1, <2>2, <2>3
<1>5. ASSUME NEW k \in 1 .. Len(s) - 1
      PROVE  (a \o b)[k] = IF k < i THEN s[k] ELSE s[k + 1]
  <2>1. CASE k < i
    BY <1>1, <1>2, <1>4, <2>1
  <2>2. CASE ~ (k < i)
    <3>1. k - (i - 1) \in 1 .. Len(s) - i /\ i + (k - (i - 1)) = k + 1
      BY <1>1, <2>2
    <3>. QED  BY <1>3, <1>4, <2>2, <3>1
  <2>. QED  BY <2>1, <2>2
<1>6. RemoveAt(s, i) = a \o b
  BY DEF RemoveAt, a, b
<1>. QED  BY <1>4, <1>5, <1>6 DEF IsFirst

LEMMA ToSetAppend ==
  ASSUME NEW S, NEW s \in Seq(S), NEW m \in S
  PROVE  ToSet(Append(s, m)) = ToSet(s) \cup {m}
<1>. DEFINE t == Append(s, m)
<1>1. /\ DOMAIN s = 1 .. Len(s) /\ DOMAIN t = 1 .. Len(s) + 1 /\ Len(s) \in Nat
      /\ \A k \in DOMAIN s : t[k] = s[k]
      /\ t[Len(s) + 1] = m
  OBVIOUS
<1>. HIDE DEF t
<1>2. \A x : x \in ToSet(t) => x \in ToSet(s) \cup {m}
  BY <1>1 DEF ToSet
<1>3. \A x : x \in ToSet(s) \cup {m} => x \in ToSet(t)
  BY <1>1 DEF ToSet
<1>. QED  BY <1>2, <1>3 DEF t

\* Taking out one of several different messages leaves the others.
LEMMA ToSetRemoveAt ==
  ASSUME NEW S, NEW s \in Seq(S), NEW i \in DOMAIN s,
         \A j, k \in DOMAIN s : s[j] = s[k] => j = k
  PROVE  ToSet(RemoveAt(s, i)) = ToSet(s) \ {s[i]}
<1>. DEFINE t == RemoveAt(s, i)
<1>1. /\ DOMAIN s = 1 .. Len(s) /\ DOMAIN t = 1 .. Len(s) - 1 /\ Len(s) \in Nat
      /\ \A k \in DOMAIN t : t[k] = IF k < i THEN s[k] ELSE s[k + 1]
  <2>1. /\ t \in Seq(S) /\ Len(t) = Len(s) - 1
        /\ \A k \in 1 .. Len(s) - 1 : t[k] = IF k < i THEN s[k] ELSE s[k + 1]
    BY RemoveAtFacts
  <2>. HIDE DEF t
  <2>2. DOMAIN t = 1 .. Len(s) - 1
    BY <2>1
  <2>. QED  BY <2>1, <2>2
<1>. HIDE DEF t
<1>2. ASSUME NEW k \in DOMAIN t PROVE t[k] \in ToSet(s) \ {s[i]}
  <2>. DEFINE n == IF k < i THEN k ELSE k + 1
  <2>1. n \in DOMAIN s /\ n # i
    BY <1>1
  <2>2. t[k] = s[n]
    BY <1>1
  <2>. HIDE DEF n
  <2>. QED  BY <2>1, <2>2 DEF ToSet
<1>3. ASSUME NEW n \in DOMAIN s, n # i PROVE s[n] \in ToSet(t)
  <2>. DEFINE k == IF n < i THEN n ELSE n - 1
  <2>1. k \in DOMAIN t /\ n = IF k < i THEN k ELSE k + 1
    BY <1>1, <1>3
  <2>2. t[k] = s[n]
    <3>. HIDE DEF k
    <3>1. CASE k < i
      BY <1>1, <2>1, <3>1
    <3>2. CASE ~ (k < i)
      BY <1>1, <2>1, <3>2
    <3>. QED  BY <3>1, <3>2
  <2>. HIDE DEF k
  <2>. QED  BY <2>1, <2>2 DEF ToSet
<1>4. \A x : x \in ToSet(t) => x \in ToSet(s) \ {s[i]}
  BY <1>2 DEF ToSet
<1>5. \A x : x \in ToSet(s) \ {s[i]} => x \in ToSet(t)
  BY <1>3 DEF ToSet
<1>. QED  BY <1>4, <1>5 DEF t
-----------------------------------------------------------------------------
(***************************************************************************)
(* What a step does.                                                       *)
(***************************************************************************)
LEMMA CallFacts ==
  ASSUME NEW c \in Calls \cup {NoCall}
  PROVE  /\ c.method = "Push" => c # NoCall /\ c.arg \in Messages
         /\ c.method = "PopChannel" => c.arg \in Channels
BY DEF Calls, NoCall, PopCall

\* A goroutine that is inside a method has the queue as it is.
LEMMA InsideHolds ==
  ASSUME TypeOK, MutexInv, NEW g \in Goroutines, read[g] # Nil
  PROVE  mu = g /\ read[g] = queue
BY DEF MutexInv

\* The message at i leaves the queue of a call that asks for the channels C.
Taken(g, C, i) ==
  /\ i \in DOMAIN queue
  /\ queue[i].channel \in C
  /\ \A j \in 1 .. i - 1 : queue[j].channel \notin C
  /\ queue' = RemoveAt(queue, i)
  /\ answer' = [answer EXCEPT ![g] = queue[i]]
  /\ popped' = Append(popped, queue[i])
  /\ UNCHANGED pushed

Missed(g, C) ==
  /\ \A i \in DOMAIN queue : queue[i].channel \notin C
  /\ answer' = [answer EXCEPT ![g] = Nil]
  /\ UNCHANGED <<queue, popped, pushed>>

Put(g) ==
  /\ call[g].method = "Push"
  /\ queue' = Append(queue, call[g].arg)
  /\ pushed' = Append(pushed, call[g].arg)
  /\ UNCHANGED <<answer, popped>>

\* Whoever stores a queue stores what the queue is at that moment, changed by
\* his own operation: nobody else has come in between.
LEMMA PopStores ==
  ASSUME TypeOK, MutexInv, NEW g \in Goroutines, Pop(g)
  PROVE  Missed(g, Channels) \/ \E i \in Nat : Taken(g, Channels, i)
<1>1. read[g] = queue /\ queue \in Seq(Messages)
  BY InsideHolds DEF Pop, InMethod, TypeOK
<1>2. Len(queue) \in Nat /\ DOMAIN queue = 1 .. Len(queue)
  BY <1>1
<1>3. \A i \in DOMAIN queue : queue[i].channel \in Channels
  <2>. \A i \in DOMAIN queue : queue[i] \in Messages
    BY <1>1
  <2>. QED  BY DEF Messages
<1>4. CASE queue = << >>
  <2>1. TakeAt(g, 0)
    BY <1>1, <1>4 DEF Pop
  <2>. QED  BY <1>1, <1>4, <2>1 DEF TakeAt, Missed
<1>5. CASE queue # << >>
  <2>1. TakeAt(g, 1)
    BY <1>1, <1>5 DEF Pop
  <2>2. 1 \in DOMAIN queue /\ 1 .. 1 - 1 = {}
    BY <1>1, <1>2, <1>5
  <2>3. Taken(g, Channels, 1)
    BY <1>1, <1>3, <2>1, <2>2 DEF TakeAt, Taken
  <2>. QED  BY <2>3
<1>. QED  BY <1>4, <1>5

LEMMA PopChannelStores ==
  ASSUME TypeOK, MutexInv, NEW g \in Goroutines, PopChannel(g)
  PROVE  \E c \in Channels : Missed(g, {c}) \/ \E i \in Nat : Taken(g, {c}, i)
<1>. DEFINE c == call[g].arg
            idx == FirstIndex(queue, c)
<1>1. read[g] = queue /\ queue \in Seq(Messages)
  BY InsideHolds DEF PopChannel, InMethod, TypeOK
<1>2. c \in Channels
  BY CallFacts DEF PopChannel, InMethod, TypeOK
<1>3. TakeAt(g, idx)
  BY <1>1 DEF PopChannel, FirstIndex
<1>4. IsFirst(queue, c, idx)
  BY <1>1, SelectFirst
<1>. HIDE DEF idx, c
<1>5. CASE /\ idx = 0
           /\ \A k \in DOMAIN queue : queue[k].channel # c
  <2>1. Missed(g, {c})
    BY <1>1, <1>3, <1>5 DEF TakeAt, Missed
  <2>. QED  BY <1>2, <2>1
<1>6. CASE /\ idx \in DOMAIN queue
           /\ queue[idx].channel = c
           /\ \A j \in 1 .. idx - 1 : queue[j].channel # c
  <2>1. idx \in Nat /\ idx # 0
    BY <1>1, <1>6
  <2>2. Taken(g, {c}, idx)
    BY <1>1, <1>3, <1>6, <2>1 DEF TakeAt, Taken
  <2>. QED  BY <1>2, <2>1, <2>2
<1>. QED  BY <1>4, <1>5, <1>6 DEF IsFirst

Asked == {Channels} \cup {{c} : c \in Channels}

\* Seen from the queue, a step is a Put, a Taken or a Missed, or nothing.
LEMMA QueueStep ==
  ASSUME TypeOK, MutexInv, [Next]_vars
  PROVE  \/ UNCHANGED <<queue, answer, pushed, popped>>
         \/ \E g \in Goroutines : Put(g)
         \/ \E g \in Goroutines, C \in Asked : Missed(g, C)
         \/ \E g \in Goroutines, C \in Asked, i \in Nat : Taken(g, C, i)
<1>1. ASSUME NEW g \in Goroutines, NEW c \in Calls, Call(g, c)
      PROVE  UNCHANGED <<queue, answer, pushed, popped>>
  BY <1>1 DEF Call
<1>2. ASSUME NEW g \in Goroutines, Lock(g)
      PROVE  UNCHANGED <<queue, answer, pushed, popped>>
  BY <1>2 DEF Lock
<1>3. ASSUME NEW g \in Goroutines, Push(g)
      PROVE  Put(g)
  BY <1>3, InsideHolds DEF Push, InMethod, Put
<1>4. ASSUME NEW g \in Goroutines, Pop(g)
      PROVE  \E C \in Asked : Missed(g, C) \/ \E i \in Nat : Taken(g, C, i)
  BY <1>4, PopStores DEF Asked
<1>5. ASSUME NEW g \in Goroutines, PopChannel(g)
      PROVE  \E C \in Asked : Missed(g, C) \/ \E i \in Nat : Taken(g, C, i)
  BY <1>5, PopChannelStores DEF Asked
<1>6. ASSUME NEW g \in Goroutines, LenReturn(g)
      PROVE  UNCHANGED <<queue, answer, pushed, popped>>
  BY <1>6 DEF LenReturn
<1>7. CASE UNCHANGED vars
  BY <1>7 DEF vars
<1>. QED  BY <1>1, <1>2, <1>3, <1>4, <1>5, <1>6, <1>7 DEF Next

\* Seen from the goroutines, a step begins a call, takes the lock or returns.
Begins(g, c) ==
  /\ call[g] = NoCall
  /\ \/ c.method # "Push" /\ started' = started
     \/ c.method = "Push" /\ c.arg.id = started + 1 /\ started' = started + 1
  /\ call' = [call EXCEPT ![g] = c]
  /\ UNCHANGED <<queue, mu, read, pushed>>

Locks(g) ==
  /\ call[g] # NoCall
  /\ mu = Nil
  /\ mu' = g
  /\ read' = [read EXCEPT ![g] = queue]
  /\ UNCHANGED <<queue, call, started, pushed>>

Returns(g) ==
  /\ mu = g
  /\ Return(g)
  /\ \/ /\ call[g].method = "Push"
        /\ pushed' = Append(pushed, call[g].arg)
     \/ UNCHANGED pushed

LEMMA GoroutineStep ==
  ASSUME TypeOK, MutexInv, [Next]_vars
  PROVE  \/ UNCHANGED <<queue, mu, call, read, started, pushed>>
         \/ \E g \in Goroutines, c \in Calls : Begins(g, c)
         \/ \E g \in Goroutines : Locks(g)
         \/ \E g \in Goroutines : Returns(g)
<1>1. ASSUME NEW g \in Goroutines, NEW c \in Calls, Call(g, c)
      PROVE  Begins(g, c)
  BY <1>1 DEF Call, Begins
<1>2. ASSUME NEW g \in Goroutines, Lock(g)
      PROVE  Locks(g)
  BY <1>2 DEF Lock, Locks
<1>3. ASSUME NEW g \in Goroutines, Push(g)
      PROVE  Returns(g)
  BY <1>3, InsideHolds DEF Push, InMethod, Returns
<1>4. ASSUME NEW g \in Goroutines, Pop(g)
      PROVE  Returns(g)
  BY <1>4, InsideHolds DEF Pop, InMethod, Returns, TakeAt
<1>5. ASSUME NEW g \in Goroutines, PopChannel(g)
      PROVE  Returns(g)
  BY <1>5, InsideHolds DEF PopChannel, InMethod, Returns, TakeAt
<1>6. ASSUME NEW g \in Goroutines, LenReturn(g)
      PROVE  Returns(g)
  BY <1>6, InsideHolds DEF LenReturn, InMethod, Returns
<1>7. CASE UNCHANGED vars
  BY <1>7 DEF vars
<1>. QED  BY <1>1, <1>2, <1>3, <1>4, <1>5, <1>6, <1>7 DEF Next
-----------------------------------------------------------------------------
(***************************************************************************)
(* The invariant.                                                          *)
(***************************************************************************)
LEMMA TypeStep ==
  ASSUME TypeOK, MutexInv, [Next]_vars
  PROVE  TypeOK'
<1>. DEFINE Contents == /\ queue' \in Seq(Messages)
                        /\ answer' \in [Goroutines -> Messages \cup {Nil}]
                        /\ pushed' \in Seq(Messages)
                        /\ popped' \in Seq(Messages)
<1>1. Contents
  <2>1. CASE UNCHANGED <<queue, answer, pushed, popped>>
    BY <2>1 DEF TypeOK
  <2>2. ASSUME NEW g \in Goroutines, Put(g)
        PROVE  Contents
    <3>1. call[g].arg \in Messages
      BY <2>2, CallFacts DEF TypeOK, Put
    <3>. QED  BY <2>2, <3>1 DEF TypeOK, Put
  <2>3. ASSUME NEW g \in Goroutines, NEW C, Missed(g, C)
        PROVE  Contents
    BY <2>3 DEF TypeOK, Missed
  <2>4. ASSUME NEW g \in Goroutines, NEW C, NEW i \in Nat, Taken(g, C, i)
        PROVE  Contents
    <3>1. queue[i] \in Messages /\ RemoveAt(queue, i) \in Seq(Messages)
      BY <2>4, RemoveAtFacts DEF TypeOK, Taken
    <3>. QED  BY <2>4, <3>1 DEF TypeOK, Taken
  <2>. HIDE DEF Contents
  <2>. QED  BY <2>1, <2>2, <2>3, <2>4, QueueStep DEF Contents
<1>. DEFINE Control == /\ mu' \in Goroutines \cup {Nil}
                       /\ call' \in [Goroutines -> Calls \cup {NoCall}]
                       /\ read' \in [Goroutines -> Seq(Messages) \cup {Nil}]
                       /\ started' \in 0 .. MaxPush
<1>2. Control
  <2>1. CASE UNCHANGED <<queue, mu, call, read, started, pushed>>
    BY <2>1 DEF TypeOK
  <2>2. ASSUME NEW g \in Goroutines, NEW c \in Calls, Begins(g, c)
        PROVE  Control
    <3>1. c.method = "Push" => c.arg.id \in 1 .. MaxPush
      BY CallFacts DEF Messages
    <3>2. started' \in 0 .. MaxPush
      BY <2>2, <3>1, InboxAssumption DEF Begins, TypeOK
    <3>. QED  BY <2>2, <3>2 DEF TypeOK, Begins
  <2>3. ASSUME NEW g \in Goroutines, Locks(g)
        PROVE  Control
    BY <2>3 DEF TypeOK, Locks
  <2>4. ASSUME NEW g \in Goroutines, Returns(g)
        PROVE  Control
    BY <2>4 DEF TypeOK, Returns, Return
  <2>. HIDE DEF Control
  <2>. QED  BY <2>1, <2>2, <2>3, <2>4, GoroutineStep DEF Control
<1>. QED  BY <1>1, <1>2 DEF TypeOK, Messages, Calls, NoCall, PopCall

LEMMA MutexStep ==
  ASSUME TypeOK, MutexInv, [Next]_vars
  PROVE  MutexInv'
<1>0. Nil \notin Goroutines /\ call \in [Goroutines -> Calls \cup {NoCall}]
      /\ read \in [Goroutines -> Seq(Messages) \cup {Nil}]
  BY InboxAssumption DEF TypeOK
<1>1. CASE UNCHANGED <<queue, mu, call, read, started, pushed>>
  BY <1>1 DEF MutexInv
<1>2. ASSUME NEW g \in Goroutines, NEW c \in Calls, Begins(g, c)
      PROVE  MutexInv'
  <2>1. mu # g
    BY <1>2 DEF Begins, MutexInv
  <2>. QED  BY <1>0, <1>2, <2>1 DEF Begins, MutexInv
<1>3. ASSUME NEW g \in Goroutines, Locks(g)
      PROVE  MutexInv'
  BY <1>0, <1>3 DEF Locks, MutexInv
<1>4. ASSUME NEW g \in Goroutines, Returns(g)
      PROVE  MutexInv'
  <2>1. \A h \in Goroutines : read'[h] = Nil /\ mu' # h
    BY <1>0, <1>4 DEF Returns, Return, MutexInv
  <2>. QED  BY <2>1 DEF MutexInv
<1>. QED  BY <1>1, <1>2, <1>3, <1>4, GoroutineStep

\* The numbers are natural numbers.
LEMMA IdFacts ==
  ASSUME TypeOK
  PROVE  /\ started \in Nat
         /\ \A k \in DOMAIN pushed : pushed[k] \in Messages /\ pushed[k].id \in Nat
         /\ \A g \in Goroutines : call[g].method = "Push" =>
              call[g].arg \in Messages /\ call[g].arg.id \in Nat
<1>1. \A k \in DOMAIN pushed : pushed[k] \in Messages
  BY DEF TypeOK
<1>2. \A g \in Goroutines : call[g].method = "Push" => call[g].arg \in Messages
  BY CallFacts DEF TypeOK
<1>3. \A m \in Messages : m.id \in Nat
  BY InboxAssumption DEF Messages
<1>. QED  BY <1>1, <1>2, <1>3 DEF TypeOK

LEMMA IdsStep ==
  ASSUME TypeOK, MutexInv, IdsInv, [Next]_vars
  PROVE  IdsInv'
<1>0. call \in [Goroutines -> Calls \cup {NoCall}]
  BY DEF TypeOK
<1>1. CASE UNCHANGED <<queue, mu, call, read, started, pushed>>
  BY <1>1 DEF IdsInv
<1>2. ASSUME NEW g \in Goroutines, NEW c \in Calls, Begins(g, c)
      PROVE  IdsInv'
  <2>1. /\ pushed' = pushed
        /\ call'[g] = c
        /\ \A h \in Goroutines : h # g => call'[h] = call[h]
    BY <1>0, <1>2 DEF Begins
  <2>2. CASE c.method # "Push"
    <3>1. started' = started
      BY <1>2, <2>2 DEF Begins
    <3>. QED  BY <2>1, <2>2, <3>1 DEF IdsInv
  <2>3. CASE c.method = "Push"
    <3>1. started' = started + 1 /\ c.arg.id = started + 1
      BY <1>2, <2>3 DEF Begins
    <3>2. /\ \A k \in DOMAIN pushed : pushed[k].id <= started'
          /\ \A k \in DOMAIN pushed : pushed[k].id # c.arg.id
      BY <3>1, IdFacts DEF IdsInv
    <3>3. \A h \in Goroutines : h # g /\ call[h].method = "Push" =>
            call[h].arg.id <= started' /\ call[h].arg.id # c.arg.id
      BY <3>1, IdFacts DEF IdsInv
    <3>4. c.arg.id <= started'
      BY <3>1, IdFacts
    <3>. QED  BY <2>1, <3>2, <3>3, <3>4 DEF IdsInv
  <2>. QED  BY <2>2, <2>3
<1>3. ASSUME NEW g \in Goroutines, Locks(g)
      PROVE  IdsInv'
  BY <1>3 DEF Locks, IdsInv
<1>4. ASSUME NEW g \in Goroutines, Returns(g)
      PROVE  IdsInv'
  <2>1. /\ started' = started
        /\ call'[g].method # "Push"
        /\ \A h \in Goroutines : h # g => call'[h] = call[h]
    BY <1>0, <1>4 DEF Returns, Return, NoCall
  <2>2. CASE UNCHANGED pushed
    BY <2>1, <2>2 DEF IdsInv
  <2>3. CASE /\ call[g].method = "Push"
             /\ pushed' = Append(pushed, call[g].arg)
    <3>. DEFINE n == Len(pushed) + 1
    <3>1. /\ DOMAIN pushed' = DOMAIN pushed \cup {n}
          /\ n \notin DOMAIN pushed
          /\ pushed'[n] = call[g].arg
          /\ \A k \in DOMAIN pushed : pushed'[k] = pushed[k]
      BY <2>3, IdFacts DEF TypeOK
    <3>. HIDE DEF n
    <3>2. /\ call[g].arg.id <= started
          /\ \A k \in DOMAIN pushed : pushed[k].id # call[g].arg.id
          /\ \A h \in Goroutines : h # g /\ call[h].method = "Push" =>
               call[g].arg.id # call[h].arg.id
      BY <2>3 DEF IdsInv
    <3>3. \A k, l \in DOMAIN pushed' : pushed'[k].id = pushed'[l].id => k = l
      BY <3>1, <3>2 DEF IdsInv
    <3>4. \A k \in DOMAIN pushed' : pushed'[k].id <= started
      BY <3>1, <3>2 DEF IdsInv
    <3>5. \A h \in Goroutines : h # g /\ call[h].method = "Push" =>
            \A k \in DOMAIN pushed' : pushed'[k].id # call[h].arg.id
      BY <3>1, <3>2 DEF IdsInv
    <3>. QED  BY <2>1, <3>3, <3>4, <3>5 DEF IdsInv
  <2>. QED  BY <1>4, <2>2, <2>3 DEF Returns
<1>. QED  BY <1>1, <1>2, <1>3, <1>4, GoroutineStep

\* No message is in the queue twice.
LEMMA QueueDistinct ==
  ASSUME TypeOK, NothingLost
  PROVE  \A i, j \in DOMAIN queue : queue[i] = queue[j] => i = j
<1>1. SUFFICES ASSUME NEW i \in DOMAIN queue, NEW j \in DOMAIN queue,
                      i < j, queue[i] = queue[j]
               PROVE  FALSE
  BY DEF TypeOK
<1>2. PICK k \in DOMAIN pushed : queue[i] = pushed[k]
  BY DEF NothingLost, ToSet
<1>3. k < k
  BY <1>1, <1>2 DEF NothingLost
<1>4. k \in Nat
  BY DEF TypeOK
<1>. QED  BY <1>3, <1>4

LEMMA ContentsStep ==
  ASSUME Inv, [Next]_vars
  PROVE  PoppedPushed' /\ NothingLost'
<1>. TypeOK /\ MutexInv /\ IdsInv /\ PoppedPushed /\ NothingLost
  BY DEF Inv
<1>0. queue \in Seq(Messages) /\ pushed \in Seq(Messages) /\ popped \in Seq(Messages)
  BY DEF TypeOK
<1>1. CASE UNCHANGED <<queue, answer, pushed, popped>>
  BY <1>1 DEF PoppedPushed, NothingLost
<1>2. ASSUME NEW g \in Goroutines, Put(g)
      PROVE  PoppedPushed' /\ NothingLost'
  <2>. DEFINE m == call[g].arg
  <2>1. m \in Messages /\ m \notin ToSet(pushed)
    BY <1>2, IdFacts DEF Put, IdsInv, ToSet
  <2>2. queue' = Append(queue, m) /\ pushed' = Append(pushed, m) /\ popped' = popped
    BY <1>2 DEF Put
  <2>. HIDE DEF m
  <2>3. /\ ToSet(queue') = ToSet(queue) \cup {m}
        /\ ToSet(pushed') = ToSet(pushed) \cup {m}
    BY <1>0, <2>1, <2>2, ToSetAppend
  <2>4. PoppedPushed'
    BY <2>2, <2>3 DEF PoppedPushed
  <2>5. ToSet(queue') = ToSet(pushed') \ ToSet(popped')
    BY <2>1, <2>2, <2>3 DEF PoppedPushed, NothingLost
  <2>6. Len(queue') + Len(popped') = Len(pushed')
    <3>1. Len(queue') = Len(queue) + 1 /\ Len(pushed') = Len(pushed) + 1
      BY <1>0, <2>1, <2>2
    <3>. QED  BY <1>0, <2>2, <3>1 DEF NothingLost
  <2>7. ASSUME NEW i \in DOMAIN queue', NEW j \in DOMAIN queue',
               NEW k \in DOMAIN pushed', NEW l \in DOMAIN pushed',
               i < j, queue'[i] = pushed'[k], queue'[j] = pushed'[l]
        PROVE  k < l
    <3>1. /\ DOMAIN queue = 1 .. Len(queue) /\ DOMAIN queue' = 1 .. Len(queue) + 1
          /\ DOMAIN pushed = 1 .. Len(pushed) /\ DOMAIN pushed' = 1 .. Len(pushed) + 1
          /\ Len(queue) \in Nat /\ Len(pushed) \in Nat
      BY <1>0, <2>1, <2>2
    <3>2. /\ \A n \in DOMAIN queue : queue'[n] = queue[n] /\ queue[n] # m
          /\ queue'[Len(queue) + 1] = m
          /\ \A n \in DOMAIN pushed : pushed'[n] = pushed[n] /\ pushed[n] # m
          /\ pushed'[Len(pushed) + 1] = m
      <4>1. /\ \A n \in DOMAIN queue : queue'[n] = queue[n]
            /\ queue'[Len(queue) + 1] = m
            /\ \A n \in DOMAIN pushed : pushed'[n] = pushed[n]
            /\ pushed'[Len(pushed) + 1] = m
        BY <1>0, <2>1, <2>2
      <4>2. m \notin ToSet(queue)
        BY <2>1 DEF NothingLost
      <4>. QED  BY <2>1, <4>1, <4>2 DEF ToSet
    <3>3. i \in DOMAIN queue
      BY <2>7, <3>1
    <3>4. k \in DOMAIN pushed
      BY <2>7, <3>1, <3>2, <3>3
    <3>5. CASE j \in DOMAIN queue
      <4>1. l \in DOMAIN pushed
        BY <2>7, <3>1, <3>2, <3>5
      <4>2. queue[i] = pushed[k] /\ queue[j] = pushed[l]
        BY <2>7, <3>2, <3>3, <3>4, <3>5, <4>1
      <4>. QED  BY <2>7, <3>3, <3>4, <3>5, <4>1, <4>2 DEF NothingLost
    <3>6. CASE j \notin DOMAIN queue
      <4>1. j = Len(queue) + 1
        BY <3>1, <3>6
      <4>2. l \notin DOMAIN pushed
        BY <2>7, <3>2, <4>1
      <4>. QED  BY <3>1, <3>4, <4>2
    <3>. QED  BY <3>5, <3>6
  <2>. QED  BY <2>4, <2>5, <2>6, <2>7 DEF NothingLost
<1>3. ASSUME NEW g \in Goroutines, NEW C, Missed(g, C)
      PROVE  PoppedPushed' /\ NothingLost'
  BY <1>3 DEF Missed, PoppedPushed, NothingLost
<1>4. ASSUME NEW g \in Goroutines, NEW C, NEW i \in Nat, Taken(g, C, i)
      PROVE  PoppedPushed' /\ NothingLost'
  <2>. DEFINE m == queue[i]
  <2>1. /\ i \in DOMAIN queue /\ queue' = RemoveAt(queue, i)
        /\ popped' = Append(popped, m) /\ pushed' = pushed
    BY <1>4 DEF Taken
  <2>2. m \in Messages /\ m \in ToSet(queue)
    BY <1>0, <2>1 DEF ToSet
  <2>3. ToSet(queue') = ToSet(queue) \ {m}
    BY <1>0, <2>1, QueueDistinct, ToSetRemoveAt
  <2>4. /\ Len(queue') = Len(queue) - 1
        /\ queue' \in Seq(Messages)
        /\ \A n \in 1 .. Len(queue) - 1 :
             queue'[n] = IF n < i THEN queue[n] ELSE queue[n + 1]
    BY <1>0, <2>1, RemoveAtFacts
  <2>. HIDE DEF m
  <2>5. ToSet(popped') = ToSet(popped) \cup {m}
    BY <1>0, <2>1, <2>2, ToSetAppend
  <2>6. PoppedPushed'
    BY <2>1, <2>2, <2>5 DEF PoppedPushed, NothingLost
  <2>7. ToSet(queue') = ToSet(pushed') \ ToSet(popped')
    BY <2>1, <2>3, <2>5 DEF NothingLost
  <2>8. Len(queue') + Len(popped') = Len(pushed')
    <3>1. Len(popped') = Len(popped) + 1
      BY <1>0, <2>1, <2>2
    <3>2. Len(queue) + Len(popped) = Len(pushed)
      BY DEF NothingLost
    <3>3. Len(queue') = Len(queue) - 1 /\ Len(pushed') = Len(pushed)
      BY <2>1, <2>4
    <3>4. Len(queue) \in Nat /\ Len(popped) \in Nat /\ Len(pushed) \in Nat
      BY <1>0
    <3>. QED  BY <3>1, <3>2, <3>3, <3>4
  <2>9. ASSUME NEW a \in DOMAIN queue', NEW b \in DOMAIN queue',
               NEW k \in DOMAIN pushed', NEW l \in DOMAIN pushed',
               a < b, queue'[a] = pushed'[k], queue'[b] = pushed'[l]
        PROVE  k < l
    <3>. DEFINE a0 == IF a < i THEN a ELSE a + 1
                b0 == IF b < i THEN b ELSE b + 1
    <3>1. a \in 1 .. Len(queue) - 1 /\ b \in 1 .. Len(queue) - 1
      BY <2>4
    <3>2. a0 \in DOMAIN queue /\ b0 \in DOMAIN queue /\ a0 < b0
      BY <1>0, <2>1, <2>9, <3>1
    <3>3. queue[a0] = queue'[a] /\ queue[b0] = queue'[b]
      BY <2>4, <3>1
    <3>. HIDE DEF a0, b0
    <3>. QED  BY <2>1, <2>9, <3>2, <3>3 DEF NothingLost
  <2>. QED  BY <2>6, <2>7, <2>8, <2>9 DEF NothingLost
<1>. QED  BY <1>1, <1>2, <1>3, <1>4, QueueStep
-----------------------------------------------------------------------------
LEMMA Initially ==
  Init => Inv
<1>. SUFFICES ASSUME Init PROVE Inv
  OBVIOUS
<1>1. TypeOK
  BY InboxAssumption DEF Init, TypeOK
<1>2. MutexInv
  BY InboxAssumption DEF Init, MutexInv
<1>3. IdsInv
  BY DEF Init, IdsInv, NoCall
<1>4. PoppedPushed /\ NothingLost
  BY DEF Init, PoppedPushed, NothingLost, ToSet
<1>. QED  BY <1>1, <1>2, <1>3, <1>4 DEF Inv

LEMMA Invariance ==
  Spec => []Inv
<1>1. Inv /\ [Next]_vars => Inv'
  BY TypeStep, MutexStep, IdsStep, ContentsStep DEF Inv
<1>. QED  BY Initially, <1>1, PTL DEF Spec

\* The state of the Inbox and its users keeps its type: in particular a queue
\* that is stored (app.go:209, 219, 228) is one of messages that were pushed.
THEOREM InboxTypeOK ==
  Spec => []TypeOK
BY Invariance, PTL DEF Inv

\* Whatever the goroutines do at once, the queue is what was pushed and not
\* popped, in the order of the pushes, and nothing was popped twice
\* (app.go:206-233).
THEOREM InboxNothingLost ==
  Spec => []NothingLost
BY Invariance, PTL DEF Inv

\* The methods of the Inbox are linearizable: every behaviour of the Inbox is one
\* of a queue whose operations happen at one instant (app.go:206-239).
THEOREM InboxImplementsQueue ==
  Spec => ImplementsQueue
<1>1. Init => messages!Init
  BY DEF Init, messages!Init
<1>2. Inv /\ [Next]_vars => [messages!Next]_<<queue, answer>>
  <2>. SUFFICES ASSUME Inv, [Next]_vars
                PROVE  [messages!Next]_<<queue, answer>>
    OBVIOUS
  <2>0. TypeOK /\ MutexInv
    BY DEF Inv
  <2>1. CASE UNCHANGED <<queue, answer, pushed, popped>>
    BY <2>1
  <2>2. ASSUME NEW g \in Goroutines, Put(g)
        PROVE  messages!Next
    <3>1. call[g].arg \in Messages
      BY <2>0, <2>2, IdFacts DEF Put
    <3>2. messages!Put(call[g].arg)
      BY <2>2 DEF Put, messages!Put
    <3>. QED  BY <3>1, <3>2 DEF messages!Next, Messages
  <2>3. ASSUME NEW g \in Goroutines, NEW C \in Asked, Missed(g, C)
        PROVE  messages!Next
    <3>1. messages!Miss(g, C)
      BY <2>3 DEF Missed, messages!Miss
    <3>. QED  BY <3>1 DEF messages!Next, messages!Asked, Asked
  <2>4. ASSUME NEW g \in Goroutines, NEW C \in Asked, NEW i \in Nat, Taken(g, C, i)
        PROVE  messages!Next
    <3>1. messages!Take(g, C)
      BY <2>4 DEF Taken, messages!Take, RemoveAt, messages!RemoveAt
    <3>. QED  BY <3>1 DEF messages!Next, messages!Asked, Asked
  <2>. QED  BY <2>0, <2>1, <2>2, <2>3, <2>4, QueueStep
<1>. QED  BY <1>1, <1>2, Invariance, PTL DEF Spec, ImplementsQueue, messages!Spec

-----------------------------------------------------------------------------
(***************************************************************************)
(* StableSubscriberSet: the loops of Remove and dedupe.                    *)
(***************************************************************************)
\* Induction over the rounds of a loop.
LEMMA Rounds ==
  ASSUME NEW n \in Nat, NEW T \in SUBSET (0 .. n), 0 \in T,
         \A i \in 1 .. n : i - 1 \in T => i \in T
  PROVE  \A i \in 0 .. n : i \in T
<1>. DEFINE U == {i \in 0 .. n : i \notin T}
<1>. SUFFICES ASSUME U # {} PROVE FALSE
  OBVIOUS
<1>1. U \in SUBSET Nat
  OBVIOUS
<1>. HIDE DEF U
<1>2. PICK x \in U : \A y \in U : x <= y
  BY <1>1, LeastElement
<1>3. x \in 1 .. n /\ x \notin T
  BY DEF U
<1>4. x - 1 \in 0 .. n /\ ~(x <= x - 1)
  BY <1>3
<1>5. x - 1 \in T
  BY <1>2, <1>4 DEF U
<1>. QED  BY <1>3, <1>5

\* The n rounds of a loop: g[i] is what round i does.
Trace(n, S, start, g, f) ==
  f \in [0 .. n -> S] /\ f[0] = start /\ \A i \in 1 .. n : f[i] = g[i][f[i - 1]]

\* A loop has a trace.
LEMMA LoopRuns ==
  ASSUME NEW n \in Nat, NEW S, NEW start \in S, NEW g \in [1 .. n -> [S -> S]]
  PROVE  \E f : Trace(n, S, start, g, f)
<1>. DEFINE Runs(m) == \E f \in [0 .. m -> S] :
                         f[0] = start /\ \A i \in 1 .. m : f[i] = g[i][f[i - 1]]
            T == {m \in 0 .. n : Runs(m)}
<1>1. Runs(0)
  <2>. DEFINE h == [i \in 0 .. 0 |-> start]
  <2>1. h \in [0 .. 0 -> S] /\ h[0] = start
    OBVIOUS
  <2>2. \A i \in 1 .. 0 : FALSE
    OBVIOUS
  <2>. HIDE DEF h
  <2>. QED  BY <2>1, <2>2
<1>2. ASSUME NEW m \in 1 .. n, Runs(m - 1)
      PROVE  Runs(m)
  <2>1. PICK f \in [0 .. m - 1 -> S] : f[0] = start /\ \A i \in 1 .. m - 1 : f[i] = g[i][f[i - 1]]
    BY <1>2
  <2>. DEFINE h == [i \in 0 .. m |-> IF i = m THEN g[m][f[m - 1]] ELSE f[i]]
  <2>2. f[m - 1] \in S
    OBVIOUS
  <2>3. h \in [0 .. m -> S]
    <3>1. \A i \in 0 .. m : i = m \/ i \in 0 .. m - 1
      OBVIOUS
    <3>. QED  BY <2>2, <3>1
  <2>4. h[0] = start
    BY <2>1
  <2>5. ASSUME NEW i \in 1 .. m PROVE h[i] = g[i][h[i - 1]]
    <3>1. i - 1 \in 0 .. m /\ i - 1 # m /\ i \in 0 .. m
      OBVIOUS
    <3>2. h[i - 1] = f[i - 1]
      BY <3>1
    <3>3. CASE i = m
      BY <3>1, <3>2, <3>3
    <3>4. CASE i # m
      <4>1. i \in 1 .. m - 1
        BY <3>4
      <4>. QED  BY <2>1, <3>1, <3>2, <3>4, <4>1
    <3>. QED  BY <3>3, <3>4
  <2>. HIDE DEF h
  <2>. QED  BY <2>3, <2>4, <2>5
<1>. HIDE DEF Runs
<1>3. \A i \in 0 .. n : i \in T
  <2>1. T \in SUBSET (0 .. n) /\ 0 \in T
    BY <1>1
  <2>2. \A i \in 1 .. n : i - 1 \in T => i \in T
    BY <1>2
  <2>. HIDE DEF T
  <2>. QED  BY <2>1, <2>2, Rounds
<1>4. Runs(n)
  BY <1>3
<1>. QED  BY <1>4 DEF Runs, Trace

\* The loops of Remove and dedupe, round by round.
KeepRound(list, id, i, s) == IF list[i] # id THEN Append(s, list[i]) ELSE s

DedupeRound(list, i, s) ==
  IF s # << >> /\ Last(s) = list[i] THEN s ELSE Append(s, list[i])

IsKept(list, id, k) ==
  k = [i \in 0 .. Len(list) |->
         IF i = 0 THEN << >>
         ELSE IF list[i] # id THEN Append(k[i - 1], list[i])
                              ELSE k[i - 1]]

IsDeduped(list, k) ==
  k = [i \in 0 .. Len(list) |->
         IF i = 0 THEN << >>
         ELSE IF k[i - 1] # << >> /\ Last(k[i - 1]) = list[i]
                THEN k[i - 1]
                ELSE Append(k[i - 1], list[i])]

LEMMA KeptRounds ==
  ASSUME NEW S, NEW list \in Seq(S), NEW id
  PROVE  \E k : /\ Without(list, id) = k[Len(list)]
                /\ k[0] = << >>
                /\ \A i \in 1 .. Len(list) : k[i] = KeepRound(list, id, i, k[i - 1])
<1>. DEFINE n == Len(list)
            g == [i \in 1 .. n |-> [s \in Seq(S) |-> KeepRound(list, id, i, s)]]
<1>1. n \in Nat /\ << >> \in Seq(S) /\ \A i \in 1 .. n : list[i] \in S
  OBVIOUS
<1>2. \A i \in 1 .. n, s \in Seq(S) : KeepRound(list, id, i, s) \in Seq(S)
  BY <1>1 DEF KeepRound
<1>3. g \in [1 .. n -> [Seq(S) -> Seq(S)]]
  BY <1>2
<1>. HIDE DEF g
<1>4. PICK f \in [0 .. n -> Seq(S)] : f[0] = << >> /\ \A i \in 1 .. n : f[i] = g[i][f[i - 1]]
  <2>. DEFINE Q == Seq(S)
              empty == << >>
  <2>1. n \in Nat /\ empty \in Q /\ g \in [1 .. n -> [Q -> Q]]
    BY <1>1, <1>3
  <2>. HIDE DEF n, Q, empty
  <2>2. \E f : Trace(n, Q, empty, g, f)
    BY <2>1, LoopRuns
  <2>. QED  BY <2>2 DEF Q, empty, Trace
<1>5. \A i \in 1 .. n : f[i] = KeepRound(list, id, i, f[i - 1])
  <2>. SUFFICES ASSUME NEW i \in 1 .. n PROVE f[i] = KeepRound(list, id, i, f[i - 1])
    OBVIOUS
  <2>1. i - 1 \in 0 .. n /\ f[i] = g[i][f[i - 1]]
    BY <1>1, <1>4
  <2>2. f[i - 1] \in Seq(S)
    BY <2>1
  <2>3. g[i] = [s \in Seq(S) |-> KeepRound(list, id, i, s)]
    BY DEF g
  <2>. QED  BY <2>1, <2>2, <2>3
<1>6. IsKept(list, id, f)
  <2>1. \A i \in 0 .. n : i = 0 \/ i \in 1 .. n
    BY <1>1
  <2>2. \A i \in 0 .. n :
          f[i] = IF i = 0 THEN << >>
                 ELSE IF list[i] # id THEN Append(f[i - 1], list[i]) ELSE f[i - 1]
    BY <1>4, <1>5, <2>1 DEF KeepRound
  <2>. QED  BY <2>2 DEF IsKept
<1>. DEFINE k == CHOOSE k : IsKept(list, id, k)
<1>7. IsKept(list, id, k)
  BY <1>6
<1>8. Without(list, id) = k[n]
  BY DEF Without, IsKept
<1>. HIDE DEF k
<1>9. k[0] = << >> /\ \A i \in 1 .. n : k[i] = KeepRound(list, id, i, k[i - 1])
  <2>1. 0 \in 0 .. n /\ \A i \in 1 .. n : i \in 0 .. n /\ i # 0
    BY <1>1
  <2>. QED  BY <1>7, <2>1 DEF IsKept, KeepRound
<1>. QED  BY <1>8, <1>9

LEMMA DedupeRounds ==
  ASSUME NEW S, NEW list \in Seq(S)
  PROVE  \E k : /\ dedupe(list) = k[Len(list)]
                /\ k[0] = << >>
                /\ \A i \in 1 .. Len(list) : k[i] = DedupeRound(list, i, k[i - 1])
<1>. DEFINE n == Len(list)
            g == [i \in 1 .. n |-> [s \in Seq(S) |-> DedupeRound(list, i, s)]]
<1>1. n \in Nat /\ << >> \in Seq(S) /\ \A i \in 1 .. n : list[i] \in S
  OBVIOUS
<1>2. \A i \in 1 .. n, s \in Seq(S) : DedupeRound(list, i, s) \in Seq(S)
  BY <1>1 DEF DedupeRound
<1>3. g \in [1 .. n -> [Seq(S) -> Seq(S)]]
  BY <1>2
<1>. HIDE DEF g
<1>4. PICK f \in [0 .. n -> Seq(S)] : f[0] = << >> /\ \A i \in 1 .. n : f[i] = g[i][f[i - 1]]
  <2>. DEFINE Q == Seq(S)
              empty == << >>
  <2>1. n \in Nat /\ empty \in Q /\ g \in [1 .. n -> [Q -> Q]]
    BY <1>1, <1>3
  <2>. HIDE DEF n, Q, empty
  <2>2. \E f : Trace(n, Q, empty, g, f)
    BY <2>1, LoopRuns
  <2>. QED  BY <2>2 DEF Q, empty, Trace
<1>5. \A i \in 1 .. n : f[i] = DedupeRound(list, i, f[i - 1])
  <2>. SUFFICES ASSUME NEW i \in 1 .. n PROVE f[i] = DedupeRound(list, i, f[i - 1])
    OBVIOUS
  <2>1. i - 1 \in 0 .. n /\ f[i] = g[i][f[i - 1]]
    BY <1>1, <1>4
  <2>2. f[i - 1] \in Seq(S)
    BY <2>1
  <2>3. g[i] = [s \in Seq(S) |-> DedupeRound(list, i, s)]
    BY DEF g
  <2>. QED  BY <2>1, <2>2, <2>3
<1>6. IsDeduped(list, f)
  <2>1. \A i \in 0 .. n : i = 0 \/ i \in 1 .. n
    BY <1>1
  <2>2. \A i \in 0 .. n :
          f[i] = IF i = 0 THEN << >>
                 ELSE IF f[i - 1] # << >> /\ Last(f[i - 1]) = list[i]
                        THEN f[i - 1]
                        ELSE Append(f[i - 1], list[i])
    BY <1>4, <1>5, <2>1 DEF DedupeRound
  <2>. QED  BY <2>2 DEF IsDeduped
<1>. DEFINE k == CHOOSE k : IsDeduped(list, k)
<1>7. IsDeduped(list, k)
  BY <1>6
<1>8. dedupe(list) = k[n]
  BY DEF dedupe, IsDeduped
<1>. HIDE DEF k
<1>9. k[0] = << >> /\ \A i \in 1 .. n : k[i] = DedupeRound(list, i, k[i - 1])
  <2>1. 0 \in 0 .. n /\ \A i \in 1 .. n : i \in 0 .. n /\ i # 0
    BY <1>1
  <2>. QED  BY <1>7, <2>1 DEF IsDeduped, DedupeRound
<1>. QED  BY <1>8, <1>9

\* A list stays increasing when something greater than all of it is appended.
LEMMA IncreasingAppend ==
  ASSUME NEW s \in Seq(Clients), NEW v \in Clients, Increasing(s),
         \A x \in ToSet(s) : x < v
  PROVE  Increasing(Append(s, v))
<1>. DEFINE t == Append(s, v)
<1>1. /\ Len(s) \in Nat /\ Len(t) = Len(s) + 1
      /\ \A k \in 1 .. Len(s) : t[k] = s[k]
      /\ t[Len(s) + 1] = v
  OBVIOUS
<1>2. \A k \in 1 .. Len(s) : s[k] \in ToSet(s)
  BY DEF ToSet
<1>. HIDE DEF t
<1>. SUFFICES ASSUME NEW i \in 1 .. Len(t), NEW j \in 1 .. Len(t), i < j
              PROVE  t[i] < t[j]
  BY DEF Increasing, t
<1>3. i \in 1 .. Len(s)
  BY <1>1
<1>4. CASE j = Len(s) + 1
  BY <1>1, <1>2, <1>3, <1>4
<1>5. CASE j # Len(s) + 1
  <2>1. j \in 1 .. Len(s)
    BY <1>1, <1>5
  <2>. QED  BY <1>1, <1>3, <2>1 DEF Increasing
<1>. QED  BY <1>4, <1>5

\* What a loop has done after i rounds.
SoFar(list, i) == {list[j] : j \in 1 .. i}

LEMMA SoFarFacts ==
  ASSUME NEW list \in Seq(Clients)
  PROVE  /\ SoFar(list, 0) = {}
         /\ \A i \in 1 .. Len(list) : SoFar(list, i) = SoFar(list, i - 1) \cup {list[i]}
         /\ SoFar(list, Len(list)) = ToSet(list)
<1>1. SoFar(list, 0) = {}
  <2>1. \A j \in 1 .. 0 : FALSE
    OBVIOUS
  <2>. QED  BY <2>1 DEF SoFar
<1>2. ASSUME NEW i \in 1 .. Len(list)
      PROVE  SoFar(list, i) = SoFar(list, i - 1) \cup {list[i]}
  <2>1. \A j : j \in 1 .. i <=> (j \in 1 .. i - 1 \/ j = i)
    OBVIOUS
  <2>. QED  BY <2>1 DEF SoFar
<1>3. SoFar(list, Len(list)) = ToSet(list)
  BY DEF SoFar, ToSet
<1>. QED  BY <1>1, <1>2, <1>3

IsPart(s, i, T) ==
  s \in Seq(Clients) /\ Len(s) <= i /\ Increasing(s) /\ ToSet(s) = T

LEMMA EmptyPart == IsPart(<< >>, 0, {})
BY DEF IsPart, Increasing, ToSet

\* One element more.
LEMMA PartAppend ==
  ASSUME NEW i \in Nat, NEW T, NEW s, IsPart(s, i, T), NEW v \in Clients,
         \A x \in T : x < v
  PROVE  IsPart(Append(s, v), i + 1, T \cup {v})
<1>1. Increasing(Append(s, v))
  BY IncreasingAppend DEF IsPart
<1>2. ToSet(Append(s, v)) = T \cup {v}
  BY ToSetAppend DEF IsPart
<1>3. Append(s, v) \in Seq(Clients) /\ Len(Append(s, v)) <= i + 1
  BY DEF IsPart
<1>. QED  BY <1>1, <1>2, <1>3 DEF IsPart

\* The filter of Remove.
LEMMA WithoutFacts ==
  ASSUME NEW list \in Seq(Clients), Increasing(list), NEW id
  PROVE  IsPart(Without(list, id), Len(list), ToSet(list) \ {id})
<1>. DEFINE n == Len(list)
<1>1. PICK k : /\ Without(list, id) = k[n]
               /\ k[0] = << >>
               /\ \A i \in 1 .. n : k[i] = KeepRound(list, id, i, k[i - 1])
  BY KeptRounds
<1>. DEFINE T == {i \in 0 .. n : IsPart(k[i], i, SoFar(list, i) \ {id})}
<1>2. n \in Nat /\ \A i \in 1 .. n : list[i] \in Clients
  OBVIOUS
<1>3. 0 \in T
  <2>1. SoFar(list, 0) \ {id} = {}
    BY SoFarFacts
  <2>2. IsPart(k[0], 0, SoFar(list, 0) \ {id})
    BY <1>1, <2>1, EmptyPart
  <2>. QED  BY <1>2, <2>2
<1>4. ASSUME NEW i \in 1 .. n, i - 1 \in T
      PROVE  i \in T
  <2>. DEFINE P == SoFar(list, i - 1) \ {id}
  <2>1. IsPart(k[i - 1], i - 1, P)
    BY <1>4
  <2>2. \A x \in P : x < list[i]
    BY <1>2 DEF Increasing, SoFar
  <2>3. SoFar(list, i) = SoFar(list, i - 1) \cup {list[i]}
    BY SoFarFacts
  <2>4. IsPart(k[i], i, SoFar(list, i) \ {id})
    <3>1. CASE list[i] # id
      <4>1. k[i] = Append(k[i - 1], list[i]) /\ SoFar(list, i) \ {id} = P \cup {list[i]}
        BY <1>1, <2>3, <3>1 DEF KeepRound
      <4>. HIDE DEF P
      <4>2. i - 1 \in Nat /\ list[i] \in Clients
        BY <1>2
      <4>3. IsPart(Append(k[i - 1], list[i]), (i - 1) + 1, P \cup {list[i]})
        BY <2>1, <2>2, <4>2, PartAppend
      <4>4. (i - 1) + 1 = i
        OBVIOUS
      <4>. QED  BY <4>1, <4>3, <4>4
    <3>2. CASE list[i] = id
      <4>1. k[i] = k[i - 1] /\ SoFar(list, i) \ {id} = P
        BY <1>1, <2>3, <3>2 DEF KeepRound
      <4>. HIDE DEF P
      <4>. QED  BY <1>2, <2>1, <4>1 DEF IsPart
    <3>. QED  BY <3>1, <3>2
  <2>. QED  BY <1>2, <2>4
<1>5. n \in T
  <2>1. T \in SUBSET (0 .. n) /\ n \in 0 .. n
    BY <1>2
  <2>. HIDE DEF T, n
  <2>. QED  BY <1>2, <1>3, <1>4, <2>1, Rounds
<1>. QED  BY <1>1, <1>5, SoFarFacts

\* dedupe leaves every client once.
LEMMA DedupeFacts ==
  ASSUME NEW list \in Seq(Clients), \A i, j \in 1 .. Len(list) : i < j => list[i] <= list[j]
  PROVE  IsPart(dedupe(list), Len(list), ToSet(list))
<1>. DEFINE n == Len(list)
<1>1. PICK k : /\ dedupe(list) = k[n]
               /\ k[0] = << >>
               /\ \A i \in 1 .. n : k[i] = DedupeRound(list, i, k[i - 1])
  BY DedupeRounds
<1>. DEFINE T == {i \in 0 .. n : IsPart(k[i], i, SoFar(list, i))}
<1>2. n \in Nat /\ \A i \in 1 .. n : list[i] \in Clients
  OBVIOUS
<1>3. 0 \in T
  <2>1. IsPart(k[0], 0, SoFar(list, 0))
    BY <1>1, SoFarFacts, EmptyPart
  <2>. QED  BY <1>2, <2>1
<1>4. ASSUME NEW i \in 1 .. n, i - 1 \in T
      PROVE  i \in T
  <2>. DEFINE P == SoFar(list, i - 1)
              s == k[i - 1]
              v == list[i]
  <2>1. IsPart(s, i - 1, P) /\ v \in Clients
    BY <1>2, <1>4
  <2>2. \A x \in P : x <= v /\ x \in Clients
    BY <1>2 DEF SoFar
  <2>3. SoFar(list, i) = P \cup {v}
    BY SoFarFacts
  <2>4. k[i] = IF s # << >> /\ Last(s) = v THEN s ELSE Append(s, v)
    BY <1>1 DEF DedupeRound
  <2>. HIDE DEF P, s, v
  <2>5. s # << >> => Last(s) \in P
    BY <2>1 DEF IsPart, ToSet, Last
  <2>6. IsPart(k[i], i, P \cup {v})
    <3>1. CASE s # << >> /\ Last(s) = v
      <4>1. k[i] = s /\ P \cup {v} = P
        BY <2>4, <2>5, <3>1
      <4>. QED  BY <1>2, <2>1, <4>1 DEF IsPart
    <3>2. CASE ~(s # << >> /\ Last(s) = v)
      <4>1. ASSUME NEW x \in P PROVE x < v
        <5>1. s \in Seq(Clients) /\ Increasing(s) /\ P = ToSet(s)
          BY <2>1 DEF IsPart
        <5>2. PICK j \in 1 .. Len(s) : x = s[j]
          BY <5>1 DEF ToSet
        <5>3. s # << >> /\ Last(s) # v
          BY <3>2, <5>1, <5>2
        <5>4. Len(s) \in Nat /\ Len(s) \in 1 .. Len(s)
          BY <5>1, <5>2
        <5>5. j = Len(s) \/ s[j] < s[Len(s)]
          BY <5>1, <5>4 DEF Increasing
        <5>6. v \in Nat /\ s[j] \in Nat /\ s[Len(s)] \in Nat
          <6>1. Clients \subseteq Nat
            BY SubscribersAssumption
          <6>2. v \in Clients /\ s[j] \in Clients /\ s[Len(s)] \in Clients
            BY <2>1, <5>1, <5>4
          <6>. QED  BY <6>1, <6>2
        <5>7. s[Len(s)] <= v /\ s[Len(s)] # v
          BY <2>2, <2>5, <5>3 DEF Last
        <5>. QED  BY <5>2, <5>5, <5>6, <5>7
      <4>2. i - 1 \in Nat /\ (i - 1) + 1 = i
        BY <1>2
      <4>3. IsPart(Append(s, v), (i - 1) + 1, P \cup {v})
        BY <2>1, <4>1, <4>2, PartAppend
      <4>. QED  BY <2>4, <3>2, <4>2, <4>3
    <3>. QED  BY <3>1, <3>2
  <2>7. IsPart(k[i], i, SoFar(list, i))
    BY <2>3, <2>6
  <2>8. i \in 0 .. n
    BY <1>2
  <2>. QED  BY <2>7, <2>8
<1>5. n \in T
  <2>1. T \in SUBSET (0 .. n) /\ n \in 0 .. n
    BY <1>2
  <2>. HIDE DEF T, n
  <2>. QED  BY <1>2, <1>3, <1>4, <2>1, Rounds
<1>. QED  BY <1>1, <1>5, SoFarFacts

-----------------------------------------------------------------------------
(***************************************************************************)
(* Memory.                                                                 *)
(***************************************************************************)
Cells == Clients \cup {0}

IsHeap(h) ==
  h \in [Arrays -> Seq(Cells)] /\ \A a \in Arrays : Len(h[a]) <= MaxCap

StartsWith(s, list) == Len(list) <= Len(s) /\ SubSeq(s, 1, Len(list)) = list

\* Writing over the front of an array.
LEMMA OverwrittenFacts ==
  ASSUME NEW h, IsHeap(h), NEW a \in Arrays, NEW list \in Seq(Clients),
         Len(list) <= Len(h[a])
  PROVE  /\ IsHeap(Overwritten(h, a, list))
         /\ StartsWith(Overwritten(h, a, list)[a], list)
         /\ \A x \in Arrays \ {a} : Overwritten(h, a, list)[x] = h[x]
<1>. DEFINE s == h[a]
            t == list \o SubSeq(s, Len(list) + 1, Len(s))
<1>1. s \in Seq(Cells) /\ Len(s) <= MaxCap /\ list \in Seq(Cells)
  BY DEF IsHeap, Cells
<1>2. Overwritten(h, a, list) = [h EXCEPT ![a] = t]
  BY DEF Overwritten
<1>. HIDE DEF s
<1>3. Len(list) <= Len(s) /\ Len(s) \in Nat /\ Len(list) \in Nat
  BY <1>1 DEF s
<1>4. /\ SubSeq(s, Len(list) + 1, Len(s)) \in Seq(Cells)
      /\ Len(SubSeq(s, Len(list) + 1, Len(s))) = Len(s) - Len(list)
  BY <1>1, <1>3
<1>5. t \in Seq(Cells) /\ Len(t) = Len(s) /\ \A i \in 1 .. Len(list) : t[i] = list[i]
  BY <1>1, <1>3, <1>4
<1>. HIDE DEF t
<1>6. SubSeq(t, 1, Len(list)) = list
  BY <1>1, <1>3, <1>5
<1>. QED  BY <1>1, <1>2, <1>3, <1>5, <1>6 DEF IsHeap, StartsWith

\* A new array.
LEMMA AllocatedFacts ==
  ASSUME NEW h, IsHeap(h), NEW a \in Arrays, NEW list \in Seq(Cells),
         NEW cap \in Nat, Len(list) <= cap, cap <= MaxCap
  PROVE  /\ IsHeap(Allocated(h, a, list, cap))
         /\ StartsWith(Allocated(h, a, list, cap)[a], list)
         /\ \A x \in Arrays \ {a} : Allocated(h, a, list, cap)[x] = h[x]
<1>. DEFINE z == [i \in 1 .. cap - Len(list) |-> 0]
            t == list \o z
<1>1. Allocated(h, a, list, cap) = [h EXCEPT ![a] = t]
  BY DEF Allocated
<1>2. Len(list) \in Nat /\ cap - Len(list) \in Nat
  OBVIOUS
<1>3. z \in Seq(Cells) /\ Len(z) = cap - Len(list)
  BY <1>2 DEF Cells
<1>. HIDE DEF z
<1>4. t \in Seq(Cells) /\ Len(t) = cap /\ \A i \in 1 .. Len(list) : t[i] = list[i]
  BY <1>2, <1>3
<1>. HIDE DEF t
<1>5. SubSeq(t, 1, Len(list)) = list
  BY <1>2, <1>4
<1>. QED  BY <1>1, <1>2, <1>4, <1>5 DEF IsHeap, StartsWith

\* The collector touches no array in use.
LEMMA CollectedFacts ==
  ASSUME NEW h, IsHeap(h), NEW ss, NEW hs
  PROVE  /\ IsHeap(Collected(h, ss, hs))
         /\ \A a \in Arrays : a \in InUse(ss, hs) => Collected(h, ss, hs)[a] = h[a]
<1>1. \A a \in Arrays : Collected(h, ss, hs)[a] = IF a \in InUse(ss, hs) THEN h[a] ELSE << >>
  BY DEF Collected
<1>2. Collected(h, ss, hs) \in [Arrays -> Seq(Cells)]
  BY DEF Collected, IsHeap
<1>3. Len(<< >>) <= MaxCap
  BY SubscribersAssumption
<1>. QED  BY <1>1, <1>2, <1>3 DEF IsHeap

\* What sort.Slice leaves.
LEMMA SortFacts ==
  ASSUME NEW s \in Seq(Clients), Len(s) <= MaxCap + 1, NEW r \in sortSlice(s)
  PROVE  /\ r \in Seq(Clients) /\ Len(r) = Len(s) /\ ToSet(r) = ToSet(s)
         /\ \A i, j \in 1 .. Len(r) : i < j => r[i] <= r[j]
<1>. DEFINE n == Len(s)
<1>1. n \in 0 .. MaxCap + 1
  BY SubscribersAssumption
<1>2. PICK p \in Orders[n] : r = [i \in 1 .. n |-> s[p[i]]]
  BY DEF sortSlice
<1>3. p \in Bijection(1 .. n, 1 .. n)
  BY <1>1, <1>2 DEF Orders
<1>4. p \in [1 .. n -> 1 .. n] /\ \A j \in 1 .. n : \E i \in 1 .. n : p[i] = j
  BY <1>3 DEF Bijection, Surjection
<1>5. /\ \A i \in 1 .. n : r[i] = s[p[i]] /\ s[p[i]] \in Clients
      /\ r \in Seq(Clients) /\ Len(r) = n
  BY <1>1, <1>2, <1>4
<1>6. ToSet(r) = ToSet(s)
  <2>1. ToSet(r) = {r[i] : i \in 1 .. n} /\ ToSet(s) = {s[i] : i \in 1 .. n}
    BY <1>5 DEF ToSet
  <2>2. \A i \in 1 .. n : p[i] \in 1 .. n /\ r[i] = s[p[i]]
    BY <1>4, <1>5
  <2>3. ASSUME NEW j \in 1 .. n PROVE \E i \in 1 .. n : s[j] = r[i]
    <3>1. PICK i \in 1 .. n : p[i] = j
      BY <1>4
    <3>. QED  BY <2>2, <3>1
  <2>. DEFINE N == 1 .. n
  <2>4. ASSUME NEW x \in {r[i] : i \in N} PROVE x \in {s[i] : i \in N}
    <3>1. PICK i \in N : x = r[i]
      OBVIOUS
    <3>. QED  BY <2>2, <3>1
  <2>5. ASSUME NEW x \in {s[i] : i \in N} PROVE x \in {r[i] : i \in N}
    <3>1. PICK j \in N : x = s[j]
      OBVIOUS
    <3>. QED  BY <2>3, <3>1
  <2>. HIDE DEF N
  <2>6. {r[i] : i \in N} = {s[i] : i \in N}
    BY <2>4, <2>5
  <2>. QED  BY <2>1, <2>6 DEF N
<1>7. \A i, j \in 1 .. n : i < j => r[i] <= r[j]
  BY DEF sortSlice
<1>. QED  BY <1>5, <1>6, <1>7

-----------------------------------------------------------------------------
(***************************************************************************)
(* The invariant.                                                          *)
(***************************************************************************)
\* A slice lies within its array.
InBounds ==
  /\ \A c \in ChannelIDs : subs[c].arr # 0 => subs[c].len <= Len(heap[subs[c].arr])
  /\ \A x \in held : x.slice.len <= Len(heap[x.slice.arr])

\* No array is shared: by two channels, by a channel and a caller, or by two
\* callers.
Apart ==
  /\ \A c, d \in ChannelIDs : c # d /\ subs[c].arr = subs[d].arr => subs[c].arr = 0
  /\ \A c \in ChannelIDs, x \in held : subs[c].arr # x.slice.arr
  /\ \A x, y \in held : x.slice.arr = y.slice.arr => x = y

SetInv == SetTypeOK /\ InBounds /\ Apart /\ SubscribersExact /\ HeldListsStable

LEMMA SliceFacts ==
  /\ nil.arr = 0 /\ nil.len = 0
  /\ \A s \in Slices : s.arr \in Arrays \cup {0} /\ s.len \in 0 .. MaxCap
  /\ \A s \in Slices : s.arr = 0 => s.len = 0
  /\ \A s \in Slices : s # nil => s.arr \in Arrays
  /\ \A a \in Arrays, n \in 0 .. MaxCap :
       /\ Slice(a, n) \in Slices /\ Slice(a, n) # nil
       /\ Slice(a, n).arr = a /\ Slice(a, n).len = n
BY SubscribersAssumption DEF Slices, nil, Slice

\* The list of a channel as a sequence.
LEMMA ListFacts ==
  ASSUME SetInv, NEW c \in ChannelIDs
  PROVE  /\ Content(subs[c]) \in Seq(Clients)
         /\ Len(Content(subs[c])) = subs[c].len
         /\ subs[c] \in Slices
         /\ IsPart(Content(subs[c]), Len(Content(subs[c])), members[c])
<1>. DEFINE s == subs[c]
            list == Content(s)
<1>1. s \in Slices /\ IsHeap(heap)
  BY DEF SetInv, SetTypeOK, IsHeap, Cells
<1>2. list \in Seq(Cells) /\ Len(list) = s.len
  <2>1. CASE s.len = 0
    BY <2>1 DEF Content, ContentIn
  <2>2. CASE s.len # 0
    <3>1. s.arr \in Arrays /\ s.arr # 0 /\ s.len \in Nat
      BY <1>1, <2>2, SliceFacts, SubscribersAssumption
    <3>2. heap[s.arr] \in Seq(Cells) /\ s.len <= Len(heap[s.arr])
      BY <1>1, <3>1 DEF IsHeap, SetInv, InBounds
    <3>3. list = SubSeq(heap[s.arr], 1, s.len)
      BY <2>2 DEF Content, ContentIn
    <3>. HIDE DEF list, s
    <3>. QED  BY <3>1, <3>2, <3>3
  <2>. QED  BY <2>1, <2>2
<1>3. ToSet(list) = members[c] /\ Increasing(list) /\ members[c] \subseteq Clients
  BY DEF SetInv, SubscribersExact, SetTypeOK
<1>. HIDE DEF list
<1>4. list \in Seq(Clients)
  <2>1. \A i \in 1 .. Len(list) : list[i] \in Clients
    BY <1>2, <1>3 DEF ToSet
  <2>. QED  BY <1>2, <2>1
<1>. QED  BY <1>1, <1>2, <1>3, <1>4 DEF IsPart, list

-----------------------------------------------------------------------------
(***************************************************************************)
(* The steps.                                                              *)
(***************************************************************************)
\* Add and Remove alike give channel c the list out, which is set in order, in
\* an array that nobody else uses, and leave the arrays of the others alone.
Stores(c, b, out, set) ==
  /\ b \in Arrays \cup {0}
  /\ b = 0 => out = << >>
  /\ b # 0 => StartsWith(heap'[b], out)
  /\ \A d \in ChannelIDs : d # c /\ subs[d].arr = b => b = 0
  /\ \A x \in held : x.slice.arr # b
  /\ IsHeap(heap')
  /\ \A d \in ChannelIDs : d # c /\ subs[d].arr # 0 => heap'[subs[d].arr] = heap[subs[d].arr]
  /\ \A x \in held : heap'[x.slice.arr] = heap[x.slice.arr]
  /\ IsPart(out, MaxCap, set)
  /\ set \subseteq Clients
  /\ subs' = [subs EXCEPT ![c] = Slice(b, Len(out))]
  /\ members' = [members EXCEPT ![c] = set]
  /\ held' = held

LEMMA StoresKeeps ==
  ASSUME SetInv, NEW c \in ChannelIDs, NEW b, NEW out, NEW set, Stores(c, b, out, set)
  PROVE  SetInv'
<1>1. /\ subs \in [ChannelIDs -> Slices] /\ members \in [ChannelIDs -> SUBSET Clients]
      /\ \A x \in held : x \in [slice : Slices \ {nil}, value : Seq(Cells)]
  BY DEF SetInv, SetTypeOK, Cells
<1>2. /\ out \in Seq(Clients) /\ Len(out) \in 0 .. MaxCap
      /\ Increasing(out) /\ ToSet(out) = set
  BY DEF Stores, IsPart
<1>3. /\ Slice(b, Len(out)) \in Slices
      /\ Slice(b, Len(out)).arr = b /\ Slice(b, Len(out)).len = Len(out)
  <2>1. CASE b = 0
    <3>1. out = << >>
      BY <2>1 DEF Stores
    <3>2. Len(out) = 0
      BY <3>1
    <3>. QED  BY <2>1, <3>2 DEF Slices, nil, Slice
  <2>2. CASE b # 0
    BY <1>2, <2>2, SliceFacts DEF Stores
  <2>. QED  BY <2>1, <2>2
<1>4. /\ subs' \in [ChannelIDs -> Slices]
      /\ subs'[c] = Slice(b, Len(out))
      /\ \A d \in ChannelIDs : d # c => subs'[d] = subs[d]
  BY <1>1, <1>3 DEF Stores
<1>5. /\ members' \in [ChannelIDs -> SUBSET Clients]
      /\ members'[c] = set
      /\ \A d \in ChannelIDs : d # c => members'[d] = members[d]
  BY <1>1 DEF Stores
<1>6. SetTypeOK'
  BY <1>1, <1>4, <1>5 DEF SetTypeOK, Stores, IsHeap, Cells
<1>7. InBounds'
  <2>1. ASSUME NEW d \in ChannelIDs, subs'[d].arr # 0
        PROVE  subs'[d].len <= Len(heap'[subs'[d].arr])
    <3>1. CASE d = c
      BY <1>3, <1>4, <2>1, <3>1 DEF Stores, StartsWith
    <3>2. CASE d # c
      BY <1>4, <2>1, <3>2 DEF Stores, SetInv, InBounds
    <3>. QED  BY <3>1, <3>2
  <2>2. \A x \in held : x.slice.len <= Len(heap'[x.slice.arr])
    BY DEF Stores, SetInv, InBounds
  <2>. QED  BY <2>1, <2>2 DEF InBounds, Stores
<1>8. Apart'
  <2>1. ASSUME NEW d \in ChannelIDs, NEW e \in ChannelIDs, d # e, subs'[d].arr = subs'[e].arr
        PROVE  subs'[d].arr = 0
    <3>1. CASE d = c
      BY <1>3, <1>4, <2>1, <3>1 DEF Stores
    <3>2. CASE e = c
      BY <1>3, <1>4, <2>1, <3>2 DEF Stores
    <3>3. CASE d # c /\ e # c
      BY <1>4, <2>1, <3>3 DEF SetInv, Apart
    <3>. QED  BY <3>1, <3>2, <3>3
  <2>2. ASSUME NEW d \in ChannelIDs, NEW x \in held
        PROVE  subs'[d].arr # x.slice.arr
    <3>1. CASE d = c
      BY <1>3, <1>4, <3>1 DEF Stores
    <3>2. CASE d # c
      BY <1>4, <3>2 DEF SetInv, Apart
    <3>. QED  BY <3>1, <3>2
  <2>3. \A x, y \in held : x.slice.arr = y.slice.arr => x = y
    BY DEF SetInv, Apart
  <2>. QED  BY <2>1, <2>2, <2>3 DEF Apart, Stores
<1>9. SubscribersExact'
  <2>. SUFFICES ASSUME NEW d \in ChannelIDs
                PROVE  /\ ToSet(ContentIn(heap', subs'[d])) = members'[d]
                       /\ Increasing(ContentIn(heap', subs'[d]))
    BY DEF SubscribersExact, Content, ToSet, Increasing
  <2>1. CASE d = c
    <3>1. ContentIn(heap', subs'[c]) = out
      <4>1. CASE Len(out) = 0
        <5>1. out = << >>
          BY <1>2, <4>1
        <5>. QED  BY <1>3, <1>4, <4>1, <5>1 DEF ContentIn
      <4>2. CASE Len(out) # 0
        <5>1. b # 0
          BY <4>2 DEF Stores
        <5>. QED  BY <1>3, <1>4, <4>2, <5>1 DEF ContentIn, Stores, StartsWith
      <4>. QED  BY <4>1, <4>2
    <3>. QED  BY <1>2, <1>5, <2>1, <3>1
  <2>2. CASE d # c
    <3>1. ContentIn(heap', subs'[d]) = Content(subs[d])
      <4>1. CASE subs[d].len = 0
        BY <1>4, <2>2, <4>1 DEF ContentIn, Content
      <4>2. CASE subs[d].len # 0
        <5>1. subs[d].arr # 0
          BY <1>1, <4>2, SliceFacts
        <5>. QED  BY <1>4, <2>2, <5>1 DEF ContentIn, Content, Stores
      <4>. QED  BY <4>1, <4>2
    <3>. QED  BY <1>5, <2>2, <3>1 DEF SetInv, SubscribersExact
  <2>. QED  BY <2>1, <2>2
<1>10. HeldListsStable'
  <2>1. \A x \in held : ContentIn(heap', x.slice) = x.value
    BY DEF SetInv, HeldListsStable, Stores, Content, ContentIn
  <2>. QED  BY <2>1 DEF HeldListsStable, Content, Stores
<1>. QED  BY <1>6, <1>7, <1>8, <1>9, <1>10 DEF SetInv

\* Arrays in use are arrays of the memory.
LEMMA UseFacts ==
  ASSUME SetInv
  PROVE  /\ \A c \in ChannelIDs : subs[c].arr \in Arrays \cup {0}
         /\ \A x \in held : x.slice.arr \in Arrays /\ x.slice.arr # 0
         /\ \A c \in ChannelIDs, b \in Free : subs[c].arr # b
         /\ \A x \in held, b \in Free : x.slice.arr # b
         /\ \A b \in Free : b \in Arrays /\ b # 0
         /\ IsHeap(heap)
BY SliceFacts, SubscribersAssumption
   DEF SetInv, SetTypeOK, Free, InUse, IsHeap, Cells

LEMMA AddStores ==
  ASSUME SetInv, NEW c \in ChannelIDs, NEW id \in Clients, AddSubscriber(c, id)
  PROVE  \E b, out : Stores(c, b, out, members[c] \cup {id})
<1>. DEFINE old == subs[c]
            got == Append(Content(old), id)
<1>1. PICK b \in Free, list \in sortSlice(got) :
        LET out == dedupe(list)
            sorted == IF old.len < CapOf(old) THEN Overwritten(heap, old.arr, list) ELSE heap
            ss == [subs EXCEPT ![c] = Slice(b, Len(out))]
        IN  \E cap \in Len(out) .. MaxCap :
              /\ subs' = ss
              /\ heap' = Collected(Allocated(sorted, b, out, cap), ss, held)
              /\ members' = [members EXCEPT ![c] = @ \cup {id}]
              /\ UNCHANGED held
  BY DEF AddSubscriber
<1>. DEFINE out == dedupe(list)
            sorted == IF old.len < CapOf(old) THEN Overwritten(heap, old.arr, list) ELSE heap
            ss == [subs EXCEPT ![c] = Slice(b, Len(out))]
<1>2. PICK cap \in Len(out) .. MaxCap :
              /\ subs' = ss
              /\ heap' = Collected(Allocated(sorted, b, out, cap), ss, held)
              /\ members' = [members EXCEPT ![c] = @ \cup {id}]
              /\ UNCHANGED held
  BY <1>1
<1>. HIDE DEF out
<1>3. /\ Content(old) \in Seq(Clients) /\ Len(Content(old)) = old.len
      /\ old \in Slices /\ ToSet(Content(old)) = members[c]
      /\ members[c] \subseteq Clients
  BY ListFacts DEF IsPart, SetInv, SetTypeOK
<1>4. got \in Seq(Clients) /\ Len(got) = old.len + 1 /\ Len(got) <= MaxCap + 1
  BY <1>3, SliceFacts, SubscribersAssumption
<1>5. ToSet(got) = members[c] \cup {id}
  BY <1>3, ToSetAppend
<1>. HIDE DEF got
<1>6. /\ list \in Seq(Clients) /\ Len(list) = old.len + 1 /\ ToSet(list) = members[c] \cup {id}
      /\ \A i, j \in 1 .. Len(list) : i < j => list[i] <= list[j]
  BY <1>4, <1>5, SortFacts
<1>7. IsPart(out, Len(list), members[c] \cup {id})
  BY <1>6, DedupeFacts DEF out
<1>8. /\ out \in Seq(Clients) /\ Len(out) \in Nat /\ Len(out) <= cap /\ cap <= MaxCap /\ cap \in Nat
      /\ IsPart(out, MaxCap, members[c] \cup {id})
  BY <1>7, SubscribersAssumption DEF IsPart
<1>9. b \in Arrays /\ b # 0 /\ IsHeap(heap)
  BY UseFacts
<1>10. IsHeap(sorted) /\ \A a \in Arrays : a # old.arr => sorted[a] = heap[a]
  <2>1. CASE old.len < CapOf(old)
    <3>1. old.arr \in Arrays /\ Len(list) <= Len(heap[old.arr])
      <4>1. old.arr # 0
        BY <1>3, <2>1, SliceFacts DEF CapOf
      <4>2. old.arr \in Arrays /\ CapOf(old) = Len(heap[old.arr])
        BY <1>3, <4>1, SliceFacts DEF CapOf
      <4>3. Len(heap[old.arr]) \in Nat /\ old.len \in Nat
        BY <1>3, <1>9, <4>2, SliceFacts DEF IsHeap
      <4>. QED  BY <1>6, <2>1, <4>2, <4>3
    <3>2. sorted = Overwritten(heap, old.arr, list)
      BY <2>1
    <3>. HIDE DEF sorted, old
    <3>. QED  BY <1>6, <1>9, <3>1, <3>2, OverwrittenFacts
  <2>2. CASE ~(old.len < CapOf(old))
    BY <1>9, <2>2
  <2>. QED  BY <2>1, <2>2
<1>. DEFINE fresh == Allocated(sorted, b, out, cap)
<1>11. /\ IsHeap(fresh) /\ StartsWith(fresh[b], out)
       /\ \A a \in Arrays : a # old.arr /\ a # b => fresh[a] = heap[a]
  <2>1. out \in Seq(Cells)
    BY <1>8 DEF Cells
  <2>2. /\ IsHeap(fresh) /\ StartsWith(fresh[b], out)
        /\ \A a \in Arrays \ {b} : fresh[a] = sorted[a]
    <3>. HIDE DEF sorted
    <3>. QED  BY <1>8, <1>9, <1>10, <2>1, AllocatedFacts
  <2>. HIDE DEF sorted, fresh
  <2>. QED  BY <1>10, <2>2
<1>12. /\ b \in InUse(ss, held)
       /\ \A x \in held : x.slice.arr \in InUse(ss, held)
       /\ \A d \in ChannelIDs : d # c => subs[d].arr \in InUse(ss, held)
  <2>1. ss[c].arr = b /\ \A d \in ChannelIDs : d # c => ss[d] = subs[d]
    BY DEF SetInv, SetTypeOK, Slice
  <2>. HIDE DEF ss
  <2>. QED  BY <2>1 DEF InUse
<1>13. /\ IsHeap(heap')
       /\ \A a \in Arrays : a \in InUse(ss, held) => heap'[a] = fresh[a]
  <2>1. heap' = Collected(fresh, ss, held)
    BY <1>2
  <2>. HIDE DEF ss, fresh
  <2>. QED  BY <1>11, <2>1, CollectedFacts
<1>. HIDE DEF fresh
<1>14. StartsWith(heap'[b], out)
  BY <1>9, <1>11, <1>12, <1>13
<1>15. ASSUME NEW d \in ChannelIDs, d # c, subs[d].arr # 0
       PROVE  heap'[subs[d].arr] = heap[subs[d].arr]
  <2>1. subs[d].arr \in Arrays /\ subs[d].arr # b
    BY <1>15, UseFacts
  <2>2. subs[d].arr # old.arr
    BY <1>15 DEF SetInv, Apart
  <2>. QED  BY <1>11, <1>12, <1>13, <1>15, <2>1, <2>2
<1>16. ASSUME NEW x \in held
       PROVE  heap'[x.slice.arr] = heap[x.slice.arr]
  <2>1. x.slice.arr \in Arrays /\ x.slice.arr # b
    BY UseFacts
  <2>2. x.slice.arr # old.arr
    BY DEF SetInv, Apart
  <2>. QED  BY <1>11, <1>12, <1>13, <2>1, <2>2
<1>17. /\ subs' = [subs EXCEPT ![c] = Slice(b, Len(out))]
       /\ members' = [members EXCEPT ![c] = members[c] \cup {id}]
       /\ held' = held
  BY <1>2
<1>18. members[c] \cup {id} \subseteq Clients
  BY <1>3
<1>19. Stores(c, b, out, members[c] \cup {id})
  BY <1>8, <1>9, <1>13, <1>14, <1>15, <1>16, <1>17, <1>18, UseFacts DEF Stores
<1>. QED  BY <1>19

LEMMA RemoveStores ==
  ASSUME SetInv, NEW c \in ChannelIDs, NEW id \in Clients, RemoveSubscriber(c, id)
  PROVE  \E b, out : Stores(c, b, out, members[c] \ {id})
<1>. DEFINE old == subs[c]
            b == old.arr
            out == Without(Content(old), id)
<1>1. /\ subs' = [subs EXCEPT ![c] = Slice(b, Len(out))]
      /\ heap' = IF b = 0 THEN heap ELSE Overwritten(heap, b, out)
      /\ members' = [members EXCEPT ![c] = members[c] \ {id}]
      /\ held' = held
  BY DEF RemoveSubscriber
<1>2. /\ Content(old) \in Seq(Clients) /\ Len(Content(old)) = old.len /\ Increasing(Content(old))
      /\ old \in Slices /\ ToSet(Content(old)) = members[c]
      /\ members[c] \subseteq Clients
  BY ListFacts DEF IsPart, SetInv, SetTypeOK
<1>3. IsPart(out, old.len, members[c] \ {id})
  BY <1>2, WithoutFacts
<1>. HIDE DEF out
<1>4. /\ b \in Arrays \cup {0} /\ IsHeap(heap)
      /\ old.len \in Nat /\ old.len <= MaxCap
      /\ b = 0 => old.len = 0
      /\ b # 0 => old.len <= Len(heap[b])
  BY <1>2, SliceFacts, UseFacts, SubscribersAssumption DEF SetInv, InBounds
<1>5. /\ out \in Seq(Clients) /\ Len(out) \in Nat /\ Len(out) <= old.len
      /\ IsPart(out, MaxCap, members[c] \ {id})
  BY <1>3, <1>4, SubscribersAssumption DEF IsPart
<1>6. b = 0 => out = << >>
  BY <1>4, <1>5
<1>7. /\ IsHeap(heap')
      /\ b # 0 => StartsWith(heap'[b], out)
      /\ \A a \in Arrays : a # b => heap'[a] = heap[a]
  <2>1. CASE b = 0
    BY <1>1, <1>4, <2>1
  <2>2. CASE b # 0
    <3>1. b \in Arrays /\ heap[b] \in Seq(Cells)
      BY <1>4, <2>2 DEF IsHeap
    <3>2. Len(out) <= Len(heap[b])
      BY <1>4, <1>5, <2>2, <3>1
    <3>3. heap' = Overwritten(heap, b, out)
      BY <1>1, <2>2
    <3>. HIDE DEF b
    <3>. QED  BY <1>4, <1>5, <3>1, <3>2, <3>3, OverwrittenFacts
  <2>. QED  BY <2>1, <2>2
<1>8. ASSUME NEW d \in ChannelIDs, d # c, subs[d].arr # 0
      PROVE  subs[d].arr # b /\ heap'[subs[d].arr] = heap[subs[d].arr]
  <2>1. subs[d].arr \in Arrays /\ subs[d].arr # b
    BY <1>8, UseFacts DEF SetInv, Apart
  <2>. QED  BY <1>7, <2>1
<1>9. ASSUME NEW x \in held
      PROVE  x.slice.arr # b /\ heap'[x.slice.arr] = heap[x.slice.arr]
  <2>1. x.slice.arr \in Arrays /\ x.slice.arr # b
    BY UseFacts DEF SetInv, Apart
  <2>. QED  BY <1>7, <2>1
<1>10. members[c] \ {id} \subseteq Clients
  BY <1>2
<1>. HIDE DEF b
<1>11. Stores(c, b, out, members[c] \ {id})
  BY <1>1, <1>4, <1>5, <1>6, <1>7, <1>8, <1>9, <1>10 DEF Stores
<1>. QED  BY <1>11

\* Subscribers hands out a copy in an array of its own.
LEMMA CopyKeeps ==
  ASSUME SetInv, NEW c \in ChannelIDs, Subscribers(c)
  PROVE  SetInv'
<1>. DEFINE src == Content(subs[c])
<1>1. PICK a \in Free :
        /\ held' = held \cup {[slice |-> Slice(a, Len(src)), value |-> src]}
        /\ heap' = Allocated(heap, a, src, Len(src))
        /\ UNCHANGED <<subs, members>>
  BY DEF Subscribers
<1>. DEFINE new == [slice |-> Slice(a, Len(src)), value |-> src]
<1>2. src \in Seq(Clients) /\ Len(src) \in 0 .. MaxCap /\ src \in Seq(Cells)
  BY ListFacts, SliceFacts DEF Cells
<1>3. a \in Arrays /\ a # 0 /\ IsHeap(heap)
  BY UseFacts
<1>. HIDE DEF src
<1>4. /\ new.slice \in Slices \ {nil} /\ new.slice.arr = a /\ new.slice.len = Len(src)
      /\ new.value = src /\ new \in [slice : Slices \ {nil}, value : Seq(Cells)]
  BY <1>2, <1>3, SliceFacts
<1>5. held' = held \cup {new} /\ subs' = subs /\ members' = members
  BY <1>1
<1>. HIDE DEF new
<1>6. /\ IsHeap(heap') /\ StartsWith(heap'[a], src)
      /\ \A b \in Arrays : b # a => heap'[b] = heap[b]
  <2>1. Len(src) \in Nat /\ Len(src) <= Len(src) /\ Len(src) <= MaxCap
    BY <1>2, SubscribersAssumption
  <2>2. heap' = Allocated(heap, a, src, Len(src))
    BY <1>1
  <2>. QED  BY <1>2, <1>3, <2>1, <2>2, AllocatedFacts
<1>7. \A d \in ChannelIDs : subs[d].arr # a /\ (subs[d].arr # 0 => heap'[subs[d].arr] = heap[subs[d].arr])
  BY <1>6, UseFacts
<1>8. \A x \in held : x.slice.arr # a /\ heap'[x.slice.arr] = heap[x.slice.arr]
  BY <1>6, UseFacts
<1>9. SetTypeOK'
  BY <1>4, <1>5, <1>6 DEF SetInv, SetTypeOK, IsHeap, Cells
<1>10. InBounds'
  <2>1. \A d \in ChannelIDs : subs[d].arr # 0 => subs[d].len <= Len(heap'[subs[d].arr])
    BY <1>7 DEF SetInv, InBounds
  <2>2. \A x \in held : x.slice.len <= Len(heap'[x.slice.arr])
    BY <1>8 DEF SetInv, InBounds
  <2>3. new.slice.len <= Len(heap'[new.slice.arr])
    BY <1>4, <1>6 DEF StartsWith
  <2>. QED  BY <1>5, <2>1, <2>2, <2>3 DEF InBounds
<1>11. Apart'
  BY <1>4, <1>5, <1>7, <1>8 DEF SetInv, Apart
<1>12. SubscribersExact'
  <2>1. ASSUME NEW d \in ChannelIDs PROVE ContentIn(heap', subs[d]) = Content(subs[d])
    <3>1. CASE subs[d].len = 0
      BY <3>1 DEF ContentIn, Content
    <3>2. CASE subs[d].len # 0
      <4>1. subs[d].arr # 0
        BY <3>2, ListFacts, SliceFacts
      <4>. QED  BY <1>7, <4>1 DEF ContentIn, Content
    <3>. QED  BY <3>1, <3>2
  <2>2. \A d \in ChannelIDs : /\ ToSet(ContentIn(heap', subs[d])) = members[d]
                              /\ Increasing(ContentIn(heap', subs[d]))
    BY <2>1 DEF SetInv, SubscribersExact
  <2>. QED  BY <1>5, <2>2 DEF SubscribersExact, Content, ToSet, Increasing
<1>13. HeldListsStable'
  <2>1. \A x \in held : ContentIn(heap', x.slice) = x.value
    BY <1>8 DEF SetInv, HeldListsStable, Content, ContentIn
  <2>2. ContentIn(heap', new.slice) = new.value
    <3>1. CASE Len(src) = 0
      <4>1. src = << >>
        BY <1>2, <3>1
      <4>. QED  BY <1>4, <3>1, <4>1 DEF ContentIn
    <3>2. CASE Len(src) # 0
      BY <1>4, <1>6, <3>2 DEF ContentIn, StartsWith
    <3>. QED  BY <3>1, <3>2
  <2>. QED  BY <1>5, <2>1, <2>2 DEF HeldListsStable, Content
<1>. QED  BY <1>9, <1>10, <1>11, <1>12, <1>13 DEF SetInv

\* A caller writes into the list it was given: only its own array changes.
LEMMA WriteKeeps ==
  ASSUME SetInv, NEW x \in held, NEW i \in 1 .. MaxCap, WriteInto(x, i)
  PROVE  SetInv'
<1>. DEFINE a == x.slice.arr
            s == heap[a]
            h == [heap EXCEPT ![a][i] = 0]
            list == ContentIn(h, x.slice)
            new == [x EXCEPT !.value = list]
<1>1. /\ i \in 1 .. x.slice.len /\ heap' = h
      /\ held' = (held \ {x}) \cup {new} /\ subs' = subs /\ members' = members
  BY DEF WriteInto
<1>2. /\ a \in Arrays /\ a # 0 /\ IsHeap(heap) /\ s \in Seq(Cells) /\ Len(s) <= MaxCap
      /\ x \in [slice : Slices \ {nil}, value : Seq(Cells)]
      /\ x.slice.len \in 0 .. MaxCap /\ x.slice.len <= Len(s)
  BY UseFacts, SliceFacts DEF SetInv, SetTypeOK, InBounds, IsHeap, Cells
<1>3. h[a] = [s EXCEPT ![i] = 0] /\ \A b \in Arrays : b # a => h[b] = heap[b]
  BY <1>2 DEF IsHeap
<1>4. [s EXCEPT ![i] = 0] \in Seq(Cells) /\ Len([s EXCEPT ![i] = 0]) = Len(s)
  <2>. HIDE DEF s, a
  <2>1. i \in 1 .. Len(s)
    BY <1>1, <1>2
  <2>2. 0 \in Cells
    BY DEF Cells
  <2>. QED  BY <1>2, <2>1, <2>2
<1>5. IsHeap(h) /\ Len(h[a]) = Len(s)
  <2>1. h \in [Arrays -> Seq(Cells)]
    <3>1. DOMAIN h = Arrays /\ h = [b \in DOMAIN h |-> h[b]]
      BY <1>2 DEF IsHeap
    <3>2. \A b \in Arrays : h[b] \in Seq(Cells)
      BY <1>2, <1>3, <1>4 DEF IsHeap
    <3>. HIDE DEF h
    <3>. QED  BY <3>1, <3>2
  <2>. HIDE DEF h, s
  <2>2. \A b \in Arrays : Len(h[b]) <= MaxCap
    BY <1>2, <1>3, <1>4 DEF IsHeap
  <2>. QED  BY <1>3, <1>4, <2>1, <2>2 DEF IsHeap
<1>. HIDE DEF h
<1>6. list \in Seq(Cells)
  <2>. HIDE DEF a, s
  <2>1. h[a] \in Seq(Cells) /\ x.slice.len \in Nat /\ x.slice.len <= Len(h[a])
    BY <1>2, <1>3, <1>4
  <2>2. list = IF x.slice.len = 0 THEN << >> ELSE SubSeq(h[a], 1, x.slice.len)
    BY DEF ContentIn, a
  <2>. HIDE DEF list
  <2>. QED  BY <2>1, <2>2
<1>7. new.slice = x.slice /\ new.value = list /\ new \in [slice : Slices \ {nil}, value : Seq(Cells)]
  BY <1>2, <1>6
<1>. HIDE DEF new
<1>8. \A d \in ChannelIDs : subs[d].arr # a /\ (subs[d].arr # 0 => h[subs[d].arr] = heap[subs[d].arr])
  BY <1>3, UseFacts DEF SetInv, Apart
<1>9. \A y \in held : y # x => y.slice.arr # a /\ h[y.slice.arr] = heap[y.slice.arr]
  BY <1>3, UseFacts DEF SetInv, Apart
<1>10. SetTypeOK'
  BY <1>1, <1>5, <1>7 DEF SetInv, SetTypeOK, IsHeap, Cells
<1>11. InBounds'
  <2>1. \A d \in ChannelIDs : subs[d].arr # 0 => subs[d].len <= Len(h[subs[d].arr])
    BY <1>8 DEF SetInv, InBounds
  <2>2. \A y \in held : y # x => y.slice.len <= Len(h[y.slice.arr])
    BY <1>9 DEF SetInv, InBounds
  <2>3. new.slice.len <= Len(h[new.slice.arr])
    BY <1>2, <1>5, <1>7
  <2>. QED  BY <1>1, <2>1, <2>2, <2>3 DEF InBounds
<1>12. Apart'
  <2>1. \A d \in ChannelIDs, y \in held : subs[d].arr # y.slice.arr
    BY DEF SetInv, Apart
  <2>2. \A y \in held : y # x => y.slice.arr # new.slice.arr
    BY <1>7, <1>9
  <2>3. \A d \in ChannelIDs : subs[d].arr # new.slice.arr
    BY <1>7, <1>8
  <2>. QED  BY <1>1, <2>1, <2>2, <2>3 DEF SetInv, Apart
<1>13. SubscribersExact'
  <2>1. ASSUME NEW d \in ChannelIDs PROVE ContentIn(h, subs[d]) = Content(subs[d])
    <3>1. CASE subs[d].len = 0
      BY <3>1 DEF ContentIn, Content
    <3>2. CASE subs[d].len # 0
      <4>1. subs[d].arr # 0
        BY <3>2, ListFacts, SliceFacts
      <4>. QED  BY <1>8, <4>1 DEF ContentIn, Content
    <3>. QED  BY <3>1, <3>2
  <2>2. \A d \in ChannelIDs : /\ ToSet(ContentIn(h, subs[d])) = members[d]
                              /\ Increasing(ContentIn(h, subs[d]))
    BY <2>1 DEF SetInv, SubscribersExact
  <2>. QED  BY <1>1, <2>2 DEF SubscribersExact, Content, ToSet, Increasing
<1>14. HeldListsStable'
  <2>1. \A y \in held : y # x => ContentIn(h, y.slice) = y.value
    BY <1>9 DEF SetInv, HeldListsStable, Content, ContentIn
  <2>2. ContentIn(h, new.slice) = new.value
    BY <1>7
  <2>. QED  BY <1>1, <2>1, <2>2 DEF HeldListsStable, Content
<1>. QED  BY <1>10, <1>11, <1>12, <1>13, <1>14 DEF SetInv

\* A caller forgets a list; the collector takes its array.
LEMMA DropKeeps ==
  ASSUME SetInv, NEW x \in held, Drop(x)
  PROVE  SetInv'
<1>1. /\ held' = held \ {x} /\ heap' = Collected(heap, subs, held')
      /\ subs' = subs /\ members' = members
  BY DEF Drop
<1>2. /\ \A d \in ChannelIDs : subs[d].arr \in InUse(subs, held')
      /\ \A y \in held' : y.slice.arr \in InUse(subs, held')
  BY DEF InUse
<1>3. /\ IsHeap(heap')
      /\ \A a \in Arrays : a \in InUse(subs, held') => heap'[a] = heap[a]
  <2>1. IsHeap(heap)
    BY UseFacts
  <2>. DEFINE hs == held'
  <2>2. heap' = Collected(heap, subs, hs)
    BY <1>1
  <2>. HIDE DEF hs
  <2>3. /\ IsHeap(heap')
        /\ \A a \in Arrays : a \in InUse(subs, hs) => heap'[a] = heap[a]
    BY <2>1, <2>2, CollectedFacts
  <2>. QED  BY <2>3 DEF hs
<1>4. \A d \in ChannelIDs : subs[d].arr # 0 => heap'[subs[d].arr] = heap[subs[d].arr]
  BY <1>2, <1>3, UseFacts
<1>5. \A y \in held' : y \in held /\ heap'[y.slice.arr] = heap[y.slice.arr]
  BY <1>1, <1>2, <1>3, UseFacts
<1>6. SetTypeOK'
  BY <1>1, <1>3, <1>5 DEF SetInv, SetTypeOK, IsHeap, Cells
<1>7. InBounds'
  BY <1>1, <1>4, <1>5 DEF SetInv, InBounds
<1>8. Apart'
  BY <1>1, <1>5 DEF SetInv, Apart
<1>9. SubscribersExact'
  <2>1. ASSUME NEW d \in ChannelIDs PROVE ContentIn(heap', subs[d]) = Content(subs[d])
    <3>1. CASE subs[d].len = 0
      BY <3>1 DEF ContentIn, Content
    <3>2. CASE subs[d].len # 0
      <4>1. subs[d].arr # 0
        BY <3>2, ListFacts, SliceFacts
      <4>. QED  BY <1>4, <4>1 DEF ContentIn, Content
    <3>. QED  BY <3>1, <3>2
  <2>2. \A d \in ChannelIDs : /\ ToSet(ContentIn(heap', subs[d])) = members[d]
                              /\ Increasing(ContentIn(heap', subs[d]))
    BY <2>1 DEF SetInv, SubscribersExact
  <2>3. subs' = subs /\ members' = members
    BY <1>1
  <2>. QED  BY <2>2, <2>3 DEF SubscribersExact, Content, ToSet, Increasing
<1>10. HeldListsStable'
  <2>1. \A y \in held' : ContentIn(heap', y.slice) = y.value
    BY <1>5 DEF SetInv, HeldListsStable, Content, ContentIn
  <2>. QED  BY <2>1 DEF HeldListsStable, Content
<1>. QED  BY <1>6, <1>7, <1>8, <1>9, <1>10 DEF SetInv

LEMMA SetInitially == SetInit => SetInv
<1>. SUFFICES ASSUME SetInit PROVE SetInv
  OBVIOUS
<1>1. \A c \in ChannelIDs : subs[c] = nil /\ subs[c] \in Slices /\ subs[c].arr = 0 /\ subs[c].len = 0
  BY SliceFacts DEF SetInit, Slices
<1>2. \A a \in Arrays : Len(heap[a]) <= MaxCap
  <2>1. Len(<< >>) <= MaxCap
    BY SubscribersAssumption
  <2>. QED  BY <2>1 DEF SetInit
<1>3. SetTypeOK
  BY <1>1, <1>2 DEF SetInit, SetTypeOK
<1>4. SubscribersExact
  BY <1>1 DEF SetInit, SubscribersExact, Content, ContentIn, ToSet, Increasing
<1>. QED  BY <1>1, <1>3, <1>4 DEF SetInit, SetInv, InBounds, Apart, HeldListsStable

LEMMA SetInvariance == SetInv /\ [SetNext]_setVars => SetInv'
<1>. SUFFICES ASSUME SetInv, [SetNext]_setVars PROVE SetInv'
  OBVIOUS
<1>1. ASSUME NEW c \in ChannelIDs, NEW id \in Clients, AddSubscriber(c, id) PROVE SetInv'
  BY <1>1, AddStores, StoresKeeps
<1>2. ASSUME NEW c \in ChannelIDs, NEW id \in Clients, RemoveSubscriber(c, id) PROVE SetInv'
  BY <1>2, RemoveStores, StoresKeeps
<1>3. ASSUME NEW c \in ChannelIDs, Subscribers(c) PROVE SetInv'
  BY <1>3, CopyKeeps
<1>4. ASSUME NEW x \in held, Drop(x) PROVE SetInv'
  BY <1>4, DropKeeps
<1>5. ASSUME NEW x \in held, NEW i \in 1 .. MaxCap, WriteInto(x, i) PROVE SetInv'
  BY <1>5, WriteKeeps
<1>6. CASE UNCHANGED setVars
  <2>1. SetTypeOK' /\ InBounds' /\ Apart'
    BY <1>6 DEF setVars, SetInv, SetTypeOK, InBounds, Apart
  <2>2. SubscribersExact'
    <3>1. subs' = subs /\ heap' = heap /\ members' = members
      BY <1>6 DEF setVars
    <3>2. \A d \in ChannelIDs : ContentIn(heap', subs'[d]) = Content(subs[d])
      BY <3>1 DEF ContentIn, Content
    <3>3. \A d \in ChannelIDs : /\ ToSet(ContentIn(heap', subs'[d])) = members'[d]
                                /\ Increasing(ContentIn(heap', subs'[d]))
      BY <3>1, <3>2 DEF SetInv, SubscribersExact
    <3>. QED  BY <3>3 DEF SubscribersExact, Content, ToSet, Increasing
  <2>3. HeldListsStable'
    BY <1>6 DEF setVars, SetInv, HeldListsStable, Content, ContentIn
  <2>. QED  BY <2>1, <2>2, <2>3 DEF SetInv
<1>. QED  BY <1>1, <1>2, <1>3, <1>4, <1>5, <1>6 DEF SetNext

\* The lists of StableSubscriberSet are exact for any clients, channels and
\* arrays: Add and Remove (app.go:299, 308) keep every channel's list sorted,
\* without duplicates and equal to its members.
THEOREM SetSubscribersExact == SetSpec => []SubscribersExact
<1>1. SetInv => SubscribersExact
  BY DEF SetInv
<1>. QED  BY <1>1, SetInitially, SetInvariance, PTL DEF SetSpec

\* No call of StableSubscriberSet changes a list that Subscribers
\* (app.go:321) returned, because no two slices share an array.
THEOREM SetHeldListsStable == SetSpec => []HeldListsStable
<1>1. SetInv => HeldListsStable
  BY DEF SetInv
<1>. QED  BY <1>1, SetInitially, SetInvariance, PTL DEF SetSpec
=============================================================================
