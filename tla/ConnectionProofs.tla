-------------------------- MODULE ConnectionProofs --------------------------
(***************************************************************************)
(* Proofs about one connection of transport/tcp/client.go: its clocks      *)
(* (KeepAlive), for all intervals, timeouts and delays with PeerInterval + *)
(* Delay < HeartbeatTimeout, and its stream of frames (Framing), for all   *)
(* writers, frames and widths of the integers.                             *)
(***************************************************************************)
EXTENDS KeepAlive, Framing, NaturalsInduction, WellFoundedInduction, SequenceTheorems, TLAPS

-----------------------------------------------------------------------------
(***************************************************************************)
(* The inductive invariant.                                                *)
(***************************************************************************)
Ages == 0 .. Oldest

TypeInv ==
  /\ idle \in Ages /\ beat \in Ages
  /\ place \in [Goroutines -> {"out", "check", "write"}]
  /\ alive \in BOOLEAN
  /\ flight \in Seq([beat : BOOLEAN, age : 0 .. Delay])
  /\ age \in [send : Ages, write : Ages, peer : Ages, peerBeat : Ages, beats : [1 .. 3 -> Ages]]

\* Frames under way are no younger than the last one written, a heartbeat is
\* no younger than that either, and a peer that lives is not late.
PeerInv ==
  /\ \A i \in DOMAIN flight : age.peer <= flight[i].age
  /\ age.peer <= age.peerBeat
  /\ alive => age.peerBeat <= PeerInterval

\* LastSeen is no older than what was read last, so that it is at most one
\* pause of the peer behind the frame that is read next.
HeardInv ==
  /\ flight = << >> => idle <= age.peer
  /\ flight # << >> => idle <= Head(flight).age + PeerInterval

\* LastSeen was moved by the last send, or by a frame that was at most Delay
\* old when it was read.
SeenInv == idle >= age.send \/ age.peer <= idle + Delay

\* No heartbeat of the peer is under way.
NoBeat == \A i \in DOMAIN flight : ~flight[i].beat

\* The frame at place i is the heartbeat that is read next.
NextBeat(i) == flight[i].beat /\ \A j \in 1 .. i - 1 : ~flight[j].beat

\* The last write is at most an interval older than the heartbeat that was read
\* last, and so at most an interval and a pause older than the one read next.
WriteRecent ==
  \/ NoBeat /\ age.write <= HeartbeatInterval + age.peerBeat
  \/ \E i \in DOMAIN flight :
       NextBeat(i) /\ age.write <= HeartbeatInterval + PeerInterval + flight[i].age

\* This is so while the reader is not in MaybeSendHeartbeat.
AnswerInv ==
  /\ age.write <= beat
  /\ alive /\ place["reader"] = "out" => WriteRecent
  /\ ClientHeard

\* A goroutine that is about to write a heartbeat has found the last one due,
\* and the one before stays due if another goroutine writes first.
SpacedInv ==
  /\ beat <= age.beats[3] /\ age.beats[3] <= age.beats[2] /\ age.beats[2] <= age.beats[1]
  /\ \A g \in Goroutines : place[g] = "write" => age.beats[2] >= HeartbeatInterval
  /\ (\A g \in Goroutines : place[g] = "write") => age.beats[3] >= HeartbeatInterval
  /\ BeatsSpaced

Inv == TypeInv /\ PeerInv /\ HeardInv /\ SeenInv /\ AnswerInv /\ SpacedInv
-----------------------------------------------------------------------------
(***************************************************************************)
(* Facts about the operators.                                              *)
(***************************************************************************)
\* A set of natural numbers that is not empty has a least element.
LEMMA LeastElement ==
  ASSUME NEW T \in SUBSET Nat, T # {}
  PROVE  \E x \in T : \A y \in T : x <= y
<1>. DEFINE R == {ss \in Nat \X Nat : ss[1] < ss[2]}
<1>1. IsWellFoundedOn(R, Nat)
  BY NatLessThanWellFounded DEF OpToRel
<1>. HIDE DEF R
<1>2. PICK x \in T : \A y \in T : ~ (<<y, x>> \in R)
  BY <1>1, WFMin
<1>3. ASSUME NEW y \in T, y < x PROVE FALSE
  BY <1>2, <1>3 DEF R
<1>. QED  BY <1>3

\* The constants are natural numbers, and the bound on ages is out of the way.
LEMMA Constants ==
  /\ HeartbeatInterval \in Nat /\ HeartbeatTimeout \in Nat /\ PeerInterval \in Nat
  /\ Delay \in Nat /\ Oldest \in Nat
  /\ PeerInterval + Delay < HeartbeatTimeout
  /\ Oldest >= HeartbeatTimeout + Delay
  /\ Oldest > HeartbeatInterval + PeerInterval + Delay
BY KeepAliveAssumption

\* Growing older keeps the order of ages.
LEMMA OlderFacts ==
  ASSUME NEW m \in Ages, NEW n \in Ages
  PROVE  /\ Older(m) \in Ages /\ m <= Older(m) /\ Older(m) <= m + 1
         /\ m < Oldest => Older(m) = m + 1
         /\ m = Oldest => Older(m) = Oldest
         /\ m <= n => Older(m) <= Older(n)
BY Constants DEF Older, Ages

FlightFrames == [beat : BOOLEAN, age : 0 .. Delay]

\* Frames under way are read from the front.
LEMMA TailFacts ==
  ASSUME NEW f \in Seq(FlightFrames), f # << >>
  PROVE  /\ Tail(f) \in Seq(FlightFrames) /\ Len(Tail(f)) = Len(f) - 1
         /\ Len(f) \in Nat /\ Len(f) > 0 /\ DOMAIN f = 1 .. Len(f)
         /\ DOMAIN Tail(f) = 1 .. Len(f) - 1
         /\ \A i \in DOMAIN Tail(f) : i + 1 \in DOMAIN f /\ Tail(f)[i] = f[i + 1]
         /\ Head(f) = f[1] /\ 1 \in DOMAIN f /\ Head(f) \in FlightFrames
<1>. HIDE DEF FlightFrames
<1>. QED  OBVIOUS

\* Frames are written at the end.
LEMMA AppendFacts ==
  ASSUME NEW f \in Seq(FlightFrames), NEW m \in FlightFrames
  PROVE  /\ Append(f, m) \in Seq(FlightFrames) /\ Len(f) \in Nat
         /\ Append(f, m) # << >>
         /\ DOMAIN f = 1 .. Len(f) /\ DOMAIN Append(f, m) = 1 .. Len(f) + 1
         /\ \A i \in DOMAIN f : i \in DOMAIN Append(f, m) /\ Append(f, m)[i] = f[i]
         /\ Append(f, m)[Len(f) + 1] = m
         /\ f = << >> => Head(Append(f, m)) = m
         /\ f # << >> => Head(Append(f, m)) = Head(f)
<1>. HIDE DEF FlightFrames
<1>. DEFINE h == Append(f, m)
<1>1. /\ h \in Seq(FlightFrames) /\ Len(f) \in Nat /\ Len(h) = Len(f) + 1
      /\ DOMAIN f = 1 .. Len(f) /\ DOMAIN h = 1 .. Len(f) + 1
  OBVIOUS
<1>2. (\A i \in DOMAIN f : i \in DOMAIN h /\ h[i] = f[i]) /\ h[Len(f) + 1] = m
  OBVIOUS
<1>. HIDE DEF h
<1>3. h # << >> /\ Head(h) = h[1]
  BY <1>1
<1>4. f = << >> => Len(f) = 0
  OBVIOUS
<1>5. f # << >> => Head(f) = f[1] /\ 1 \in DOMAIN f
  BY <1>1
<1>. QED  BY <1>1, <1>2, <1>3, <1>4, <1>5 DEF h

\* Frames grow older where they are.
Aged(f) == [i \in DOMAIN f |-> [f[i] EXCEPT !.age = @ + 1]]

LEMMA AgedFacts ==
  ASSUME NEW f \in Seq(FlightFrames), \A i \in DOMAIN f : f[i].age < Delay
  PROVE  /\ Aged(f) \in Seq(FlightFrames) /\ DOMAIN Aged(f) = DOMAIN f
         /\ \A i \in DOMAIN f : Aged(f)[i].age = f[i].age + 1 /\ Aged(f)[i].beat = f[i].beat
         /\ Aged(f) = << >> <=> f = << >>
         /\ f # << >> => Head(Aged(f)).age = Head(f).age + 1
<1>. DEFINE h == Aged(f)
<1>1. Len(f) \in Nat /\ DOMAIN f = 1 .. Len(f)
  OBVIOUS
<1>2. ASSUME NEW i \in DOMAIN f
      PROVE  /\ h[i] \in FlightFrames
             /\ h[i].age = f[i].age + 1 /\ h[i].beat = f[i].beat
  <2>1. f[i] \in FlightFrames
    BY <1>1
  <2>2. f[i].age \in 0 .. Delay /\ f[i].age + 1 \in 0 .. Delay /\ f[i].beat \in BOOLEAN
    BY <2>1, Constants DEF FlightFrames
  <2>3. h[i] = [f[i] EXCEPT !.age = f[i].age + 1]
    BY DEF Aged
  <2>. QED  BY <2>1, <2>2, <2>3 DEF FlightFrames
<1>3. h \in [1 .. Len(f) -> FlightFrames]
  BY <1>1, <1>2 DEF Aged
<1>. HIDE DEF FlightFrames, h
<1>4. h \in Seq(FlightFrames) /\ Len(h) = Len(f) /\ DOMAIN h = DOMAIN f
  BY <1>1, <1>3
<1>5. h = << >> <=> f = << >>
  BY <1>1, <1>4
<1>6. f # << >> => Head(h) = h[1] /\ Head(f) = f[1] /\ 1 \in DOMAIN f
  BY <1>1, <1>4, <1>5
<1>. QED  BY <1>2, <1>4, <1>5, <1>6 DEF h
-----------------------------------------------------------------------------
(***************************************************************************)
(* What each action does to each age and to each goroutine.                *)
(***************************************************************************)
LEMMA SendFacts ==
  ASSUME TypeInv, SendEncrypted
  PROVE  /\ TypeInv' /\ idle' = 0 /\ UNCHANGED <<beat, alive, flight>>
         /\ age'.send = 0 /\ age'.write = 0 /\ age'.peer = age.peer
         /\ age'.peerBeat = age.peerBeat /\ age'.beats = age.beats
         /\ place'["sender"] = "check" /\ place'["reader"] = place["reader"]
<1>1. 0 \in Ages
  BY Constants DEF Ages
<1>2. /\ idle' = 0 /\ UNCHANGED <<beat, alive, flight>>
      /\ age' = [age EXCEPT !.send = 0, !.write = 0]
      /\ place' = [place EXCEPT !["sender"] = "check"]
  BY DEF SendEncrypted, Enter
<1>3. /\ place' \in [Goroutines -> {"out", "check", "write"}]
      /\ place'["sender"] = "check" /\ place'["reader"] = place["reader"]
  BY <1>2 DEF TypeInv, Goroutines
<1>. QED  BY <1>1, <1>2, <1>3 DEF TypeInv

LEMMA CheckFacts ==
  ASSUME TypeInv, NEW g \in Goroutines, CheckBeat(g)
  PROVE  /\ TypeInv' /\ UNCHANGED <<idle, beat, alive, flight, age>>
         /\ place[g] = "check" /\ place'[g] \in {"out", "write"}
         /\ place'[g] = "out" => beat < HeartbeatInterval
         /\ place'[g] = "write" => beat >= HeartbeatInterval
         /\ \A h \in Goroutines \ {g} : place'[h] = place[h]
<1>. DEFINE next == IF beat < HeartbeatInterval THEN "out" ELSE "write"
<1>1. /\ next \in {"out", "write"}
      /\ next = "out" => beat < HeartbeatInterval
      /\ next = "write" => beat >= HeartbeatInterval
  BY Constants DEF TypeInv, Ages
<1>2. place[g] = "check" /\ place' = [place EXCEPT ![g] = next] /\ UNCHANGED <<idle, beat, alive, flight, age>>
  BY DEF CheckBeat
<1>. HIDE DEF next
<1>. QED  BY <1>1, <1>2 DEF TypeInv, Goroutines

LEMMA WriteFacts ==
  ASSUME TypeInv, NEW g \in Goroutines, WriteBeat(g)
  PROVE  /\ TypeInv' /\ beat' = 0 /\ UNCHANGED <<idle, alive, flight>>
         /\ age'.send = age.send /\ age'.write = 0 /\ age'.peer = age.peer
         /\ age'.peerBeat = age.peerBeat
         /\ age'.beats[1] = age.beats[2] /\ age'.beats[2] = age.beats[3] /\ age'.beats[3] = 0
         /\ place[g] = "write" /\ place'[g] = "out"
         /\ \A h \in Goroutines \ {g} : place'[h] = place[h]
<1>. DEFINE b == <<age.beats[2], age.beats[3], 0>>
<1>1. age.beats \in [1 .. 3 -> Ages] /\ 0 \in Ages
  BY Constants DEF TypeInv, Ages
<1>2. b \in [1 .. 3 -> Ages] /\ b[1] = age.beats[2] /\ b[2] = age.beats[3] /\ b[3] = 0
  BY <1>1
<1>3. age' = [age EXCEPT !.write = 0, !.beats = b]
  BY DEF WriteBeat
<1>. HIDE DEF b
<1>4. /\ age' \in [send : Ages, write : Ages, peer : Ages, peerBeat : Ages, beats : [1 .. 3 -> Ages]]
      /\ age'.send = age.send /\ age'.write = 0 /\ age'.peer = age.peer
      /\ age'.peerBeat = age.peerBeat /\ age'.beats = b
  BY <1>1, <1>2, <1>3 DEF TypeInv
<1>. QED  BY <1>1, <1>2, <1>4 DEF TypeInv, WriteBeat, Goroutines

LEMMA ReadHeartbeatFacts ==
  ASSUME TypeInv, ReadHeartbeat
  PROVE  /\ TypeInv' /\ idle' = 0 /\ UNCHANGED <<beat, alive, age>>
         /\ flight # << >> /\ flight' = Tail(flight)
         /\ place'["reader"] = "check" /\ place'["sender"] = place["sender"]
<1>1. flight' \in Seq([beat : BOOLEAN, age : 0 .. Delay])
  BY TailFacts DEF ReadHeartbeat, TypeInv, FlightFrames
<1>. QED  BY <1>1, Constants DEF TypeInv, ReadHeartbeat, Enter, Goroutines, Ages

LEMMA ReadRecordFacts ==
  ASSUME TypeInv, ReadRecord
  PROVE  /\ TypeInv' /\ idle' = 0 /\ UNCHANGED <<beat, place, alive, age>>
         /\ flight # << >> /\ flight' = Tail(flight) /\ ~Head(flight).beat
<1>1. flight' \in Seq([beat : BOOLEAN, age : 0 .. Delay])
  BY TailFacts DEF ReadRecord, TypeInv, FlightFrames
<1>. QED  BY <1>1, Constants DEF TypeInv, ReadRecord, Ages

LEMMA PeerWritesFacts ==
  ASSUME TypeInv, NEW isBeat \in BOOLEAN, PeerWrites(isBeat)
  PROVE  /\ TypeInv' /\ UNCHANGED <<idle, beat, place, alive>> /\ alive
         /\ [beat |-> isBeat, age |-> 0] \in FlightFrames
         /\ flight' = Append(flight, [beat |-> isBeat, age |-> 0])
         /\ age'.send = age.send /\ age'.write = age.write /\ age'.peer = 0
         /\ age'.beats = age.beats
         /\ isBeat => age'.peerBeat = 0
         /\ ~isBeat => age'.peerBeat = age.peerBeat
<1>1. [beat |-> isBeat, age |-> 0] \in FlightFrames
  BY Constants DEF FlightFrames
<1>2. flight' \in Seq(FlightFrames)
  BY <1>1, AppendFacts DEF PeerWrites, TypeInv, FlightFrames
<1>. DEFINE p == IF isBeat THEN 0 ELSE age.peerBeat
<1>3. 0 \in Ages /\ p \in Ages
  BY Constants DEF TypeInv, Ages
<1>4. age' = [age EXCEPT !.peer = 0, !.peerBeat = p]
  BY DEF PeerWrites
<1>5. (isBeat => p = 0) /\ (~isBeat => p = age.peerBeat)
  OBVIOUS
<1>. HIDE DEF p
<1>6. /\ age' \in [send : Ages, write : Ages, peer : Ages, peerBeat : Ages, beats : [1 .. 3 -> Ages]]
      /\ age'.send = age.send /\ age'.write = age.write /\ age'.peer = 0
      /\ age'.beats = age.beats /\ age'.peerBeat = p
  BY <1>3, <1>4 DEF TypeInv
<1>7. /\ UNCHANGED <<idle, beat, place, alive>> /\ alive
      /\ flight' = Append(flight, [beat |-> isBeat, age |-> 0])
  BY DEF PeerWrites
<1>8. TypeInv'
  BY <1>2, <1>6, <1>7 DEF TypeInv, FlightFrames
<1>. QED  BY <1>1, <1>5, <1>6, <1>7, <1>8

LEMMA TickFacts ==
  ASSUME TypeInv, Tick
  PROVE  /\ TypeInv' /\ UNCHANGED <<place, alive>>
         /\ \A g \in Goroutines : place[g] = "out"
         /\ \A i \in DOMAIN flight : flight[i].age < Delay
         /\ alive => age.peerBeat < PeerInterval
         /\ idle' = Older(idle) /\ beat' = Older(beat)
         /\ flight' = Aged(flight)
         /\ age'.send = Older(age.send) /\ age'.write = Older(age.write)
         /\ age'.peer = Older(age.peer) /\ age'.peerBeat = Older(age.peerBeat)
         /\ \A i \in 1 .. 3 : age'.beats[i] = Older(age.beats[i])
<1>0. (\A i \in DOMAIN flight : flight[i].age < Delay) /\ flight' = Aged(flight)
  BY DEF Tick, Aged
<1>1. flight' \in Seq(FlightFrames)
  BY <1>0, AgedFacts DEF TypeInv, FlightFrames
<1>2. \A n \in Ages : Older(n) \in Ages
  BY OlderFacts
<1>3. age.beats \in [1 .. 3 -> Ages]
  BY DEF TypeInv
<1>. DEFINE b == [i \in 1 .. 3 |-> Older(age.beats[i])]
<1>4. b \in [1 .. 3 -> Ages] /\ \A i \in 1 .. 3 : b[i] = Older(age.beats[i])
  BY <1>2, <1>3
<1>5. age' = [send |-> Older(age.send), write |-> Older(age.write), peer |-> Older(age.peer),
              peerBeat |-> Older(age.peerBeat), beats |-> b]
  BY DEF Tick
<1>. HIDE DEF b
<1>6. age' \in [send : Ages, write : Ages, peer : Ages, peerBeat : Ages, beats : [1 .. 3 -> Ages]]
  BY <1>2, <1>4, <1>5 DEF TypeInv
<1>7. /\ UNCHANGED <<place, alive>> /\ idle' = Older(idle) /\ beat' = Older(beat)
      /\ \A g \in Goroutines : place[g] = "out"
      /\ alive => age.peerBeat < PeerInterval
  BY DEF Tick
<1>8. TypeInv'
  BY <1>1, <1>2, <1>6, <1>7 DEF TypeInv, FlightFrames
<1>. QED  BY <1>0, <1>4, <1>5, <1>7, <1>8
\* A tick makes every frame under way older.
LEMMA TickFlight ==
  ASSUME TypeInv, Tick
  PROVE  /\ DOMAIN flight' = DOMAIN flight
         /\ \A i \in DOMAIN flight :
              flight'[i].age = flight[i].age + 1 /\ flight'[i].beat = flight[i].beat
         /\ flight' = << >> <=> flight = << >>
         /\ flight # << >> => Head(flight').age = Head(flight).age + 1
<1>1. flight \in Seq(FlightFrames)
  BY DEF TypeInv, FlightFrames
<1>2. (\A i \in DOMAIN flight : flight[i].age < Delay) /\ flight' = Aged(flight)
  BY TickFacts
<1>. QED  BY <1>1, <1>2, AgedFacts

\* Ages are natural numbers, and so are the ages of frames under way.
Numbers ==
  /\ idle \in Nat /\ beat \in Nat /\ age.send \in Nat /\ age.write \in Nat
  /\ age.peer \in Nat /\ age.peerBeat \in Nat
  /\ age.beats[1] \in Nat /\ age.beats[2] \in Nat /\ age.beats[3] \in Nat
  /\ idle <= Oldest /\ age.peer <= Oldest
  /\ age.beats[1] <= Oldest /\ age.beats[2] <= Oldest /\ age.beats[3] <= Oldest

FlightAges ==
  /\ \A i \in DOMAIN flight : flight[i].age \in Nat /\ flight[i].age <= Delay
  /\ flight # << >> => Head(flight).age \in Nat /\ Head(flight).age <= Delay

LEMMA NumberFacts == TypeInv => Numbers /\ FlightAges
<1>. SUFFICES ASSUME TypeInv PROVE Numbers /\ FlightAges
  OBVIOUS
<1>1. \A n \in Ages : n \in Nat /\ n <= Oldest
  BY Constants DEF Ages
<1>2. flight \in Seq(FlightFrames)
  BY DEF TypeInv, FlightFrames
<1>3. ASSUME NEW m \in FlightFrames
      PROVE  m.age \in Nat /\ m.age <= Delay
  BY Constants DEF FlightFrames
<1>4. \A i \in DOMAIN flight : flight[i] \in FlightFrames
  <2>. HIDE DEF FlightFrames
  <2>. QED  BY <1>2
<1>5. flight # << >> => Head(flight) \in FlightFrames
  BY <1>2, TailFacts
<1>6. Numbers
  BY <1>1 DEF TypeInv, Numbers
<1>. QED  BY <1>3, <1>4, <1>5, <1>6 DEF FlightAges

LEMMA TypeStep == TypeInv /\ [Next]_vars => TypeInv'
<1>1. TypeInv /\ PeerDies => TypeInv'
  BY DEF TypeInv, PeerDies
<1>2. TypeInv /\ UNCHANGED vars => TypeInv'
  BY DEF TypeInv, vars
<1>. QED
  BY <1>1, <1>2, SendFacts, CheckFacts, WriteFacts, ReadHeartbeatFacts, ReadRecordFacts,
     PeerWritesFacts, TickFacts
  DEF Next

-----------------------------------------------------------------------------
(***************************************************************************)
(* Each part of the invariant is kept.                                     *)
(***************************************************************************)
LEMMA PeerStep ==
  ASSUME Inv, [Next]_vars
  PROVE  PeerInv'
<1>. TypeInv /\ PeerInv
  BY DEF Inv
<1>0. Numbers /\ FlightAges /\ Numbers' /\ FlightAges'
  BY NumberFacts, TypeStep, PTL
<1>. flight \in Seq(FlightFrames)
  BY DEF TypeInv, FlightFrames
<1>1. CASE SendEncrypted
  BY <1>1, SendFacts DEF PeerInv
<1>2. ASSUME NEW g \in Goroutines, CheckBeat(g) \/ WriteBeat(g) PROVE PeerInv'
  <2>1. /\ age'.peer = age.peer /\ age'.peerBeat = age.peerBeat
        /\ flight' = flight /\ alive' = alive
    BY <1>2, CheckFacts, WriteFacts
  <2>. QED  BY <2>1 DEF PeerInv
<1>3. CASE ReadHeartbeat \/ ReadRecord
  <2>1. flight # << >> /\ flight' = Tail(flight) /\ age' = age /\ alive' = alive
    BY <1>3, ReadHeartbeatFacts, ReadRecordFacts
  <2>2. \A i \in DOMAIN flight' : i + 1 \in DOMAIN flight /\ flight'[i] = flight[i + 1]
    BY <1>0, <2>1, TailFacts
  <2>. QED  BY <2>1, <2>2 DEF PeerInv
<1>4. ASSUME NEW isBeat \in BOOLEAN, PeerWrites(isBeat) PROVE PeerInv'
  <2>1. /\ age'.peer = 0 /\ (age'.peerBeat = 0 \/ age'.peerBeat = age.peerBeat)
        /\ alive' = alive
    BY <1>4, PeerWritesFacts
  <2>2. \A i \in DOMAIN flight' : age'.peer <= flight'[i].age
    BY <1>0, <2>1 DEF FlightAges
  <2>3. age'.peer <= age'.peerBeat
    BY <1>0, <2>1 DEF Numbers
  <2>4. alive' => age'.peerBeat <= PeerInterval
    BY <2>1, Constants DEF PeerInv
  <2>. QED  BY <2>2, <2>3, <2>4 DEF PeerInv
<1>5. CASE PeerDies
  BY <1>5 DEF PeerDies, PeerInv
<1>6. CASE Tick
  <2>1. DOMAIN flight' = DOMAIN flight /\ \A i \in DOMAIN flight : flight'[i].age = flight[i].age + 1
    BY <1>6, TickFlight
  <2>2. /\ age'.peer = Older(age.peer) /\ age'.peerBeat = Older(age.peerBeat)
        /\ alive => age.peerBeat < PeerInterval
        /\ alive' = alive
    BY <1>6, TickFacts
  <2>3. age'.peer <= age.peer + 1 /\ age'.peer <= age'.peerBeat /\ age'.peerBeat <= age.peerBeat + 1
    <3>1. age.peer \in Ages /\ age.peerBeat \in Ages /\ age.peer <= age.peerBeat
      BY DEF TypeInv, PeerInv
    <3>. QED  BY <2>2, <3>1, OlderFacts
  <2>4. \A i \in DOMAIN flight' : age'.peer <= flight'[i].age
    <3>1. ASSUME NEW i \in DOMAIN flight
          PROVE  flight'[i].age = flight[i].age + 1 /\ age.peer <= flight[i].age /\ flight[i].age \in Nat
      BY <1>0, <2>1 DEF PeerInv, FlightAges
    <3>2. age.peer \in Nat /\ age'.peer \in Nat
      BY <1>0 DEF Numbers
    <3>. QED  BY <2>1, <2>3, <3>1, <3>2
  <2>5. alive' => age'.peerBeat <= PeerInterval
    <3>1. age.peerBeat \in Nat /\ age'.peerBeat \in Nat
      BY <1>0 DEF Numbers
    <3>. QED  BY <2>2, <2>3, <3>1, Constants
  <2>. QED  BY <2>3, <2>4, <2>5 DEF PeerInv
<1>7. CASE UNCHANGED vars
  BY <1>7 DEF vars, PeerInv
<1>. QED  BY <1>1, <1>2, <1>3, <1>4, <1>5, <1>6, <1>7 DEF Next

LEMMA HeardStep ==
  ASSUME Inv, [Next]_vars
  PROVE  HeardInv'
<1>. TypeInv /\ PeerInv /\ HeardInv
  BY DEF Inv
<1>0. Numbers /\ FlightAges /\ Numbers' /\ FlightAges'
  BY NumberFacts, TypeStep, PTL
<1>. flight \in Seq(FlightFrames)
  BY DEF TypeInv, FlightFrames
<1>1. CASE SendEncrypted
  <2>1. idle' = 0 /\ flight' = flight /\ age'.peer = age.peer
    BY <1>1, SendFacts
  <2>2. age.peer \in Nat /\ (flight # << >> => Head(flight).age \in Nat)
    BY <1>0 DEF Numbers, FlightAges
  <2>3. 0 <= age.peer /\ (flight # << >> => 0 <= Head(flight).age + PeerInterval)
    BY <2>2, Constants
  <2>. QED  BY <2>1, <2>3 DEF HeardInv
<1>2. ASSUME NEW g \in Goroutines, CheckBeat(g) \/ WriteBeat(g) PROVE HeardInv'
  <2>1. age'.peer = age.peer /\ flight' = flight /\ idle' = idle
    BY <1>2, CheckFacts, WriteFacts
  <2>. QED  BY <2>1 DEF HeardInv
<1>3. CASE ReadHeartbeat \/ ReadRecord
  <2>1. idle' = 0
    BY <1>3, ReadHeartbeatFacts, ReadRecordFacts
  <2>. QED  BY <1>0, <2>1, Constants DEF HeardInv, Numbers, FlightAges
<1>4. ASSUME NEW isBeat \in BOOLEAN, PeerWrites(isBeat) PROVE HeardInv'
  <2>. DEFINE m == [beat |-> isBeat, age |-> 0]
  <2>1. m.age = 0 /\ m \in FlightFrames
    BY <1>4, PeerWritesFacts
  <2>2. flight' = Append(flight, m) /\ idle' = idle /\ alive
    BY <1>4, PeerWritesFacts
  <2>. HIDE DEF m
  <2>3. /\ flight' # << >>
        /\ flight = << >> => Head(flight').age = 0
        /\ flight # << >> => Head(flight') = Head(flight)
    BY <1>0, <2>1, <2>2, AppendFacts
  <2>4. idle \in Nat /\ age.peer \in Nat /\ age.peerBeat \in Nat
    BY <1>0 DEF Numbers
  <2>. QED  BY <2>2, <2>3, <2>4, Constants DEF PeerInv, HeardInv
<1>5. CASE PeerDies
  BY <1>5 DEF PeerDies, HeardInv
<1>6. CASE Tick
  <2>1. /\ flight' = << >> <=> flight = << >>
        /\ flight # << >> => Head(flight').age = Head(flight).age + 1
    BY <1>6, TickFlight
  <2>2. idle' = Older(idle) /\ age'.peer = Older(age.peer)
    BY <1>6, TickFacts
  <2>3. /\ idle' <= idle + 1
        /\ idle <= age.peer => idle' <= age'.peer
    <3>1. age.peer \in Ages /\ idle \in Ages
      BY DEF TypeInv
    <3>. QED  BY <2>2, <3>1, OlderFacts
  <2>4. flight # << >> => Head(flight).age \in Nat /\ Head(flight').age \in Nat
    BY <1>0, <2>1 DEF FlightAges
  <2>5. idle \in Nat /\ idle' \in Nat
    BY <1>0 DEF Numbers
  <2>. QED  BY <2>1, <2>3, <2>4, <2>5, Constants DEF HeardInv
<1>7. CASE UNCHANGED vars
  BY <1>7 DEF vars, HeardInv
<1>. QED  BY <1>1, <1>2, <1>3, <1>4, <1>5, <1>6, <1>7 DEF Next

LEMMA SeenStep ==
  ASSUME Inv, [Next]_vars
  PROVE  SeenInv'
<1>. TypeInv /\ PeerInv /\ SeenInv
  BY DEF Inv
<1>0. Numbers /\ FlightAges /\ Numbers' /\ FlightAges'
  BY NumberFacts, TypeStep, PTL
<1>. flight \in Seq(FlightFrames)
  BY DEF TypeInv, FlightFrames
<1>1. CASE SendEncrypted
  BY <1>1, SendFacts DEF SeenInv
<1>2. ASSUME NEW g \in Goroutines, CheckBeat(g) \/ WriteBeat(g) PROVE SeenInv'
  <2>1. age'.peer = age.peer /\ age'.send = age.send /\ idle' = idle
    BY <1>2, CheckFacts, WriteFacts
  <2>. QED  BY <2>1 DEF SeenInv
<1>3. CASE ReadHeartbeat \/ ReadRecord
  <2>1. flight # << >> /\ idle' = 0 /\ age' = age
    BY <1>3, ReadHeartbeatFacts, ReadRecordFacts
  <2>2. 1 \in DOMAIN flight
    BY <1>0, <2>1, TailFacts
  <2>3. age.peer <= flight[1].age /\ flight[1].age <= Delay /\ flight[1].age \in Nat
    BY <1>0, <2>2 DEF PeerInv, FlightAges
  <2>4. age.peer \in Nat
    BY <1>0 DEF Numbers
  <2>. QED  BY <2>1, <2>3, <2>4, Constants DEF SeenInv
<1>4. ASSUME NEW isBeat \in BOOLEAN, PeerWrites(isBeat) PROVE SeenInv'
  <2>1. age'.peer = 0 /\ idle' = idle
    BY <1>4, PeerWritesFacts
  <2>. QED  BY <1>0, <2>1, Constants DEF SeenInv, Numbers
<1>5. CASE PeerDies
  BY <1>5 DEF PeerDies, SeenInv
<1>6. CASE Tick
  <2>1. idle' = Older(idle) /\ age'.peer = Older(age.peer) /\ age'.send = Older(age.send)
    BY <1>6, TickFacts
  <2>2. /\ age.send <= idle => age'.send <= idle'
        /\ age'.peer <= age.peer + 1
        /\ idle < Oldest => idle' = idle + 1
        /\ idle = Oldest => idle' = Oldest
    <3>1. age.peer \in Ages /\ age.send \in Ages /\ idle \in Ages
      BY DEF TypeInv
    <3>. QED  BY <2>1, <3>1, OlderFacts
  <2>. QED  BY <1>0, <2>2, Constants DEF SeenInv, Numbers
<1>7. CASE UNCHANGED vars
  BY <1>7 DEF vars, SeenInv
<1>. QED  BY <1>1, <1>2, <1>3, <1>4, <1>5, <1>6, <1>7 DEF Next
\* A write within the interval is recent whatever is under way.
LEMMA RecentWrite == TypeInv /\ age.write <= HeartbeatInterval => WriteRecent
<1>. SUFFICES ASSUME TypeInv, age.write <= HeartbeatInterval PROVE WriteRecent
  OBVIOUS
<1>1. age.write \in Nat /\ age.peerBeat \in Nat
  BY NumberFacts DEF Numbers
<1>2. CASE NoBeat
  BY <1>1, <1>2, Constants DEF WriteRecent
<1>3. CASE ~NoBeat
  <2>. DEFINE T == {i \in DOMAIN flight : flight[i].beat}
  <2>1. flight \in Seq(FlightFrames)
    BY DEF TypeInv, FlightFrames
  <2>2. DOMAIN flight \subseteq Nat /\ \A i \in DOMAIN flight : \A j \in 1 .. i - 1 : j \in DOMAIN flight
    <3>. HIDE DEF FlightFrames
    <3>. QED  BY <2>1
  <2>3. T \in SUBSET Nat /\ T # {}
    BY <1>3, <2>2 DEF NoBeat
  <2>. HIDE DEF T
  <2>4. PICK i \in T : \A j \in T : i <= j
    BY <2>3, LeastElement
  <2>5. i \in DOMAIN flight /\ flight[i].beat /\ i \in Nat
    BY <2>2 DEF T
  <2>6. ASSUME NEW j \in 1 .. i - 1, flight[j].beat PROVE FALSE
    <3>1. j \in T
      BY <2>2, <2>5, <2>6 DEF T
    <3>. QED  BY <2>4, <2>5, <3>1
  <2>7. NextBeat(i)
    BY <2>5, <2>6 DEF NextBeat
  <2>8. flight[i].age \in Nat
    BY <2>5, NumberFacts DEF FlightAges
  <2>9. age.write <= HeartbeatInterval + PeerInterval + flight[i].age
    BY <1>1, <2>8, Constants
  <2>. QED  BY <2>5, <2>7, <2>9 DEF WriteRecent
<1>. QED  BY <1>2, <1>3

LEMMA AnswerStep ==
  ASSUME Inv, [Next]_vars
  PROVE  AnswerInv'
<1>. TypeInv /\ PeerInv /\ AnswerInv /\ TypeInv'
  BY TypeStep DEF Inv
<1>0. Numbers /\ FlightAges /\ Numbers' /\ FlightAges'
  BY NumberFacts, TypeStep, PTL
<1>. flight \in Seq(FlightFrames)
  BY DEF TypeInv, FlightFrames
<1>r. (age.write <= HeartbeatInterval)' => WriteRecent'
  BY RecentWrite, TypeInv', PTL
<1>1. CASE SendEncrypted
  <2>1. age'.write = 0 /\ beat' = beat
    BY <1>1, SendFacts
  <2>. QED  BY <1>0, <1>r, <2>1, Constants DEF AnswerInv, ClientHeard, Numbers
<1>2. ASSUME NEW g \in Goroutines, CheckBeat(g) PROVE AnswerInv'
  <2>1. /\ UNCHANGED <<beat, alive, flight, age>>
        /\ place[g] = "check"
        /\ place'[g] = "out" => beat < HeartbeatInterval
        /\ \A h \in Goroutines \ {g} : place'[h] = place[h]
    BY <1>2, CheckFacts
  <2>2. age'.write <= beat' /\ ClientHeard'
    BY <2>1 DEF AnswerInv, ClientHeard
  <2>3. CASE g = "reader"
    <3>1. place'["reader"] = "out" => age'.write <= HeartbeatInterval
      <4>1. age.write <= beat /\ age' = age
        BY <2>1 DEF AnswerInv
      <4>2. age.write \in Nat /\ beat \in Nat /\ HeartbeatInterval \in Nat
        BY <1>0, Constants DEF Numbers
      <4>3. place'["reader"] = "out" => beat < HeartbeatInterval
        BY <2>1, <2>3
      <4>. QED  BY <4>1, <4>2, <4>3
    <3>. QED  BY <1>r, <2>2, <3>1 DEF AnswerInv
  <2>4. CASE g # "reader"
    <3>1. place'["reader"] = place["reader"]
      BY <2>1, <2>4 DEF Goroutines
    <3>2. WriteRecent => WriteRecent'
      BY <2>1 DEF WriteRecent, NoBeat, NextBeat
    <3>. QED  BY <2>1, <2>2, <3>1, <3>2 DEF AnswerInv
  <2>. QED  BY <2>3, <2>4
<1>3. ASSUME NEW g \in Goroutines, WriteBeat(g) PROVE AnswerInv'
  <2>1. age'.write = 0 /\ beat' = 0
    BY <1>3, WriteFacts
  <2>. QED  BY <1>r, <2>1, Constants DEF AnswerInv, ClientHeard
<1>4. CASE ReadHeartbeat
  <2>1. UNCHANGED <<beat, alive, age>> /\ place'["reader"] = "check"
    BY <1>4, ReadHeartbeatFacts
  <2>. QED  BY <2>1 DEF AnswerInv, ClientHeard
<1>5. CASE ReadRecord
  <2>1. /\ UNCHANGED <<beat, place, alive, age>>
        /\ flight # << >> /\ flight' = Tail(flight) /\ ~Head(flight).beat
    BY <1>5, ReadRecordFacts
  <2>2. /\ Len(flight) \in Nat /\ Len(flight) > 0
        /\ DOMAIN flight = 1 .. Len(flight) /\ DOMAIN flight' = 1 .. Len(flight) - 1
        /\ \A i \in DOMAIN flight' : i + 1 \in DOMAIN flight /\ flight'[i] = flight[i + 1]
        /\ ~flight[1].beat
    BY <2>1, TailFacts
  <2>3. ASSUME NoBeat, age.write <= HeartbeatInterval + age.peerBeat PROVE WriteRecent'
    BY <2>1, <2>2, <2>3 DEF WriteRecent, NoBeat
  <2>4. ASSUME NEW i \in DOMAIN flight, NextBeat(i),
               age.write <= HeartbeatInterval + PeerInterval + flight[i].age
        PROVE  WriteRecent'
    <3>1. i - 1 \in DOMAIN flight' /\ flight'[i - 1] = flight[i] /\ i \in Nat
      <4>1. i # 1
        BY <2>2, <2>4 DEF NextBeat
      <4>2. i - 1 \in DOMAIN flight' /\ (i - 1) + 1 = i /\ i \in Nat
        BY <2>2, <4>1
      <4>. QED  BY <2>2, <4>2
    <3>2. ASSUME NEW j \in 1 .. (i - 1) - 1 PROVE ~flight'[j].beat
      <4>1. j \in DOMAIN flight' /\ j + 1 \in 1 .. i - 1
        BY <2>2, <3>1
      <4>. QED  BY <2>2, <2>4, <4>1 DEF NextBeat
    <3>3. NextBeat(i - 1)'
      BY <2>4, <3>1, <3>2 DEF NextBeat
    <3>. QED  BY <2>1, <2>4, <3>1, <3>3 DEF WriteRecent
  <2>5. WriteRecent => WriteRecent'
    BY <2>3, <2>4 DEF WriteRecent
  <2>. QED  BY <2>1, <2>5 DEF AnswerInv, ClientHeard
<1>6. ASSUME NEW isBeat \in BOOLEAN, PeerWrites(isBeat) PROVE AnswerInv'
  <2>. DEFINE m == [beat |-> isBeat, age |-> 0]
  <2>1. m.age = 0 /\ m \in FlightFrames /\ m.beat = isBeat
    BY <1>6, PeerWritesFacts
  <2>2. /\ flight' = Append(flight, m) /\ UNCHANGED <<beat, place, alive>> /\ alive
        /\ age'.write = age.write
        /\ ~isBeat => age'.peerBeat = age.peerBeat
    BY <1>6, PeerWritesFacts
  <2>. HIDE DEF m
  <2>3. /\ Len(flight) \in Nat
        /\ DOMAIN flight = 1 .. Len(flight) /\ DOMAIN flight' = 1 .. Len(flight) + 1
        /\ \A i \in DOMAIN flight : i \in DOMAIN flight' /\ flight'[i] = flight[i]
        /\ flight'[Len(flight) + 1] = m
    BY <2>1, <2>2, AppendFacts
  <2>4. ASSUME NoBeat, ~isBeat, age.write <= HeartbeatInterval + age.peerBeat PROVE WriteRecent'
    <3>1. ASSUME NEW i \in DOMAIN flight' PROVE ~flight'[i].beat
      <4>1. i \in DOMAIN flight \/ i = Len(flight) + 1
        BY <2>3
      <4>. QED  BY <2>1, <2>3, <2>4, <4>1 DEF NoBeat
    <3>. QED  BY <2>2, <2>4, <3>1 DEF WriteRecent, NoBeat
  <2>5. ASSUME NoBeat, isBeat, age.write <= HeartbeatInterval + age.peerBeat PROVE WriteRecent'
    <3>1. Len(flight) + 1 \in DOMAIN flight' /\ flight'[Len(flight) + 1].beat
          /\ flight'[Len(flight) + 1].age = 0
      <4>1. Len(flight) + 1 \in DOMAIN flight'
        BY <2>3
      <4>2. flight'[Len(flight) + 1].age = 0
        BY <2>1, <2>3
      <4>3. flight'[Len(flight) + 1].beat = isBeat
        BY <2>1, <2>3
      <4>. QED  BY <2>5, <4>1, <4>2, <4>3
    <3>2. ASSUME NEW j \in 1 .. (Len(flight) + 1) - 1 PROVE ~flight'[j].beat
      <4>1. j \in DOMAIN flight
        BY <2>3
      <4>. QED  BY <2>3, <2>5, <4>1 DEF NoBeat
    <3>3. age'.write <= HeartbeatInterval + PeerInterval + 0
      <4>1. age.write \in Nat /\ age.peerBeat \in Nat
        BY <1>0 DEF Numbers
      <4>2. age.peerBeat <= PeerInterval /\ age'.write = age.write
        BY <2>2 DEF PeerInv
      <4>3. age.write <= HeartbeatInterval + age.peerBeat
        BY <2>5
      <4>. QED  BY <4>1, <4>2, <4>3, Constants
    <3>. QED  BY <3>1, <3>2, <3>3 DEF WriteRecent, NextBeat
  <2>6. ASSUME NEW i \in DOMAIN flight, NextBeat(i),
               age.write <= HeartbeatInterval + PeerInterval + flight[i].age
        PROVE  WriteRecent'
    <3>1. i \in DOMAIN flight' /\ flight'[i] = flight[i]
      BY <2>3
    <3>2. ASSUME NEW j \in 1 .. i - 1 PROVE ~flight'[j].beat
      <4>1. j \in DOMAIN flight
        BY <2>3
      <4>. QED  BY <2>3, <2>6, <4>1 DEF NextBeat
    <3>3. NextBeat(i)'
      BY <2>6, <3>1, <3>2 DEF NextBeat
    <3>. QED  BY <2>2, <2>6, <3>1, <3>3 DEF WriteRecent
  <2>7. WriteRecent => WriteRecent'
    BY <2>4, <2>5, <2>6 DEF WriteRecent
  <2>. QED  BY <2>2, <2>7 DEF AnswerInv, ClientHeard
<1>7. CASE PeerDies
  BY <1>7 DEF PeerDies, AnswerInv, ClientHeard
<1>8. CASE Tick
  <2>1. /\ age'.write = Older(age.write) /\ beat' = Older(beat)
        /\ age'.peerBeat = Older(age.peerBeat)
        /\ alive => age.peerBeat < PeerInterval
        /\ alive' = alive /\ place["reader"] = "out"
    BY <1>8, TickFacts DEF Goroutines
  <2>2. /\ DOMAIN flight' = DOMAIN flight
        /\ \A i \in DOMAIN flight : flight'[i].age = flight[i].age + 1
        /\ \A i \in DOMAIN flight : flight'[i].beat = flight[i].beat
    BY <1>8, TickFlight
  <2>3. /\ age'.write <= age.write + 1 /\ age'.write <= beat'
        /\ age.peerBeat < Oldest => age'.peerBeat = age.peerBeat + 1
    <3>1. age.write \in Ages /\ beat \in Ages /\ age.peerBeat \in Ages /\ age.write <= beat
      BY DEF TypeInv, AnswerInv
    <3>. QED  BY <2>1, <3>1, OlderFacts
  <2>4. age.write \in Nat /\ age'.write \in Nat /\ age.peerBeat \in Nat /\ age'.peerBeat \in Nat
    BY <1>0 DEF Numbers
  <2>5. alive => age'.peerBeat = age.peerBeat + 1 /\ age'.peerBeat <= PeerInterval
    BY <2>1, <2>3, <2>4, Constants
  <2>6. ASSUME alive, NoBeat, age.write <= HeartbeatInterval + age.peerBeat
        PROVE  WriteRecent' /\ ClientHeard'
    <3>1. NoBeat'
      BY <2>2, <2>6 DEF NoBeat
    <3>2. age'.write <= HeartbeatInterval + age'.peerBeat
      <4>1. age'.write <= age.write + 1 /\ age'.peerBeat = age.peerBeat + 1
        BY <2>3, <2>5, <2>6
      <4>2. age.write <= HeartbeatInterval + age.peerBeat
        BY <2>6
      <4>. QED  BY <2>4, <4>1, <4>2, Constants
    <3>3. age'.write <= HeartbeatInterval + PeerInterval + Delay
      BY <2>4, <2>5, <2>6, <3>2, Constants
    <3>. QED  BY <3>1, <3>2, <3>3 DEF WriteRecent, ClientHeard
  <2>7. ASSUME NEW i \in DOMAIN flight, NextBeat(i),
               age.write <= HeartbeatInterval + PeerInterval + flight[i].age
        PROVE  WriteRecent' /\ ClientHeard'
    <3>1. i \in DOMAIN flight' /\ flight'[i].age = flight[i].age + 1 /\ flight'[i].beat
      BY <2>2, <2>7 DEF NextBeat
    <3>2. ASSUME NEW j \in 1 .. i - 1 PROVE ~flight'[j].beat
      <4>1. j \in DOMAIN flight
        OBVIOUS
      <4>. QED  BY <2>2, <2>7, <4>1 DEF NextBeat
    <3>3. NextBeat(i)'
      BY <3>1, <3>2 DEF NextBeat
    <3>4. flight[i].age \in Nat /\ flight'[i].age \in Nat /\ flight'[i].age <= Delay
      BY <1>0, <3>1 DEF FlightAges
    <3>5. age'.write <= HeartbeatInterval + PeerInterval + flight'[i].age
      <4>1. age'.write <= age.write + 1 /\ flight'[i].age = flight[i].age + 1
        BY <2>3, <3>1
      <4>2. age.write <= HeartbeatInterval + PeerInterval + flight[i].age
        BY <2>7
      <4>. DEFINE w == age.write  v == age'.write  a == flight[i].age  b == flight'[i].age
      <4>3. w \in Nat /\ v \in Nat /\ a \in Nat /\ b = a + 1
        BY <2>4, <3>4, <4>1
      <4>4. v <= w + 1 /\ w <= HeartbeatInterval + PeerInterval + a
        BY <4>1, <4>2
      <4>. HIDE DEF w, v, a, b
      <4>5. v <= HeartbeatInterval + PeerInterval + b
        BY <4>3, <4>4, Constants
      <4>. QED  BY <4>5 DEF v, b
    <3>6. age'.write <= HeartbeatInterval + PeerInterval + Delay
      BY <2>4, <3>4, <3>5, Constants
    <3>. QED  BY <3>1, <3>3, <3>5, <3>6 DEF WriteRecent, ClientHeard
  <2>8. alive => WriteRecent' /\ ClientHeard'
    BY <2>1, <2>6, <2>7 DEF AnswerInv, WriteRecent
  <2>9. ~alive => ClientHeard'
    BY <2>1 DEF ClientHeard
  <2>. QED  BY <2>1, <2>3, <2>8, <2>9 DEF AnswerInv
<1>9. CASE UNCHANGED vars
  BY <1>9 DEF vars, AnswerInv, ClientHeard, WriteRecent, NoBeat, NextBeat
<1>. QED  BY <1>1, <1>2, <1>3, <1>4, <1>5, <1>6, <1>7, <1>8, <1>9 DEF Next
LEMMA SpacedStep ==
  ASSUME Inv, [Next]_vars
  PROVE  SpacedInv'
<1>. TypeInv /\ SpacedInv
  BY DEF Inv
<1>0. Numbers /\ Numbers'
  BY NumberFacts, TypeStep, PTL
<1>. \A g : g \in Goroutines <=> g = "sender" \/ g = "reader"
  BY DEF Goroutines
<1>1. ASSUME beat' = beat, age'.beats = age.beats,
             \A g \in Goroutines : place'[g] = "write" => place[g] = "write"
      PROVE  SpacedInv'
  BY <1>1 DEF SpacedInv, BeatsSpaced
<1>2. CASE SendEncrypted
  BY <1>1, <1>2, SendFacts
<1>3. ASSUME NEW g \in Goroutines, CheckBeat(g) PROVE SpacedInv'
  <2>1. /\ UNCHANGED <<beat, age>>
        /\ place'[g] = "write" => beat >= HeartbeatInterval
        /\ \A h \in Goroutines \ {g} : place'[h] = place[h]
    BY <1>3, CheckFacts
  <2>2. place'[g] = "write" => age.beats[3] >= HeartbeatInterval /\ age.beats[2] >= HeartbeatInterval
    BY <1>0, <2>1, Constants DEF SpacedInv, Numbers
  <2>. QED  BY <2>1, <2>2 DEF SpacedInv, BeatsSpaced
<1>4. ASSUME NEW g \in Goroutines, WriteBeat(g) PROVE SpacedInv'
  <2>1. /\ beat' = 0 /\ age'.beats[1] = age.beats[2] /\ age'.beats[2] = age.beats[3] /\ age'.beats[3] = 0
        /\ place[g] = "write" /\ place'[g] = "out"
        /\ \A h \in Goroutines \ {g} : place'[h] = place[h]
    BY <1>4, WriteFacts
  <2>2. /\ beat' <= age'.beats[3] /\ age'.beats[3] <= age'.beats[2] /\ age'.beats[2] <= age'.beats[1]
    BY <1>0, <2>1 DEF SpacedInv, Numbers
  <2>3. BeatsSpaced'
    <3>1. age.beats[2] >= HeartbeatInterval
      BY <2>1 DEF SpacedInv
    <3>. QED  BY <1>0, <2>1, <3>1, Constants DEF BeatsSpaced, Numbers
  <2>4. ASSUME NEW h \in Goroutines, place'[h] = "write" PROVE age'.beats[2] >= HeartbeatInterval
    <3>1. h # g /\ place[h] = "write"
      BY <2>1, <2>4
    <3>2. \A k \in Goroutines : place[k] = "write"
      BY <2>1, <3>1
    <3>. QED  BY <2>1, <3>2 DEF SpacedInv
  <2>. QED  BY <2>1, <2>2, <2>3, <2>4 DEF SpacedInv
<1>5. CASE ReadHeartbeat
  BY <1>1, <1>5, ReadHeartbeatFacts
<1>6. CASE ReadRecord
  BY <1>1, <1>6, ReadRecordFacts
<1>7. ASSUME NEW isBeat \in BOOLEAN, PeerWrites(isBeat) PROVE SpacedInv'
  BY <1>1, <1>7, PeerWritesFacts
<1>8. CASE PeerDies
  BY <1>1, <1>8 DEF PeerDies
<1>9. CASE Tick
  <2>. DEFINE b1 == age.beats[1]  b2 == age.beats[2]  b3 == age.beats[3]
  <2>1. /\ beat' = Older(beat) /\ age'.beats[1] = Older(b1) /\ age'.beats[2] = Older(b2)
        /\ age'.beats[3] = Older(b3)
        /\ \A g \in Goroutines : place'[g] = "out"
    <3>1. /\ beat' = Older(beat) /\ \A i \in 1 .. 3 : age'.beats[i] = Older(age.beats[i])
          /\ place' = place /\ \A g \in Goroutines : place[g] = "out"
      BY <1>9, TickFacts
    <3>. QED  BY <3>1
  <2>2. b1 \in Ages /\ b2 \in Ages /\ b3 \in Ages /\ beat \in Ages
    BY DEF TypeInv
  <2>3. beat <= b3 /\ b3 <= b2 /\ b2 <= b1 /\ b1 \in Nat /\ b3 \in Nat /\ b2 \in Nat /\ b1 <= Oldest
    BY <1>0 DEF SpacedInv, Numbers
  <2>4. b1 = Oldest \/ b1 - b3 >= HeartbeatInterval
    BY DEF SpacedInv, BeatsSpaced
  <2>. HIDE DEF b1, b2, b3
  <2>5. Older(beat) <= Older(b3) /\ Older(b3) <= Older(b2) /\ Older(b2) <= Older(b1)
    BY <2>2, <2>3, OlderFacts
  <2>6. Older(b1) = Oldest \/ Older(b1) - Older(b3) >= HeartbeatInterval
    <3>1. CASE b1 = Oldest
      BY <2>2, <3>1, OlderFacts
    <3>2. CASE b1 # Oldest
      <4>1. b1 < Oldest /\ b3 < Oldest
        BY <2>3, <3>2, Constants
      <4>2. Older(b1) = b1 + 1 /\ Older(b3) = b3 + 1
        BY <2>2, <4>1, OlderFacts
      <4>. QED  BY <2>3, <2>4, <3>2, <4>2, Constants
    <3>. QED  BY <3>1, <3>2
  <2>. QED  BY <2>1, <2>5, <2>6 DEF SpacedInv, BeatsSpaced
<1>10. CASE UNCHANGED vars
  BY <1>1, <1>10 DEF vars
<1>. QED  BY <1>2, <1>3, <1>4, <1>5, <1>6, <1>7, <1>8, <1>9, <1>10 DEF Next

-----------------------------------------------------------------------------
(***************************************************************************)
(* The theorems.                                                           *)
(***************************************************************************)
LEMMA InvInit == Init => Inv
<1>. SUFFICES ASSUME Init PROVE Inv
  OBVIOUS
<1>1. 0 \in Ages /\ Oldest \in Ages /\ beat \in Ages /\ 0 <= beat /\ beat <= Oldest
  BY Constants DEF Init, Ages
<1>. DEFINE b == <<Oldest, Oldest, Oldest>>
<1>2. b \in [1 .. 3 -> Ages] /\ b[1] = Oldest /\ b[2] = Oldest /\ b[3] = Oldest
  BY <1>1
<1>3. /\ age = [send |-> Oldest, write |-> 0, peer |-> 0, peerBeat |-> 0, beats |-> b]
      /\ idle = 0 /\ flight = << >> /\ alive = TRUE /\ place = [g \in Goroutines |-> "out"]
  BY DEF Init
<1>. HIDE DEF b
<1>4. /\ age.send = Oldest /\ age.write = 0 /\ age.peer = 0 /\ age.peerBeat = 0
      /\ age.beats[1] = Oldest /\ age.beats[2] = Oldest /\ age.beats[3] = Oldest
  BY <1>2, <1>3
<1>5. TypeInv
  BY <1>1, <1>2, <1>3 DEF TypeInv
<1>6. PeerInv /\ HeardInv /\ SeenInv
  BY <1>3, <1>4, Constants DEF PeerInv, HeardInv, SeenInv
<1>7. AnswerInv
  <2>1. WriteRecent
    BY <1>4, <1>5, RecentWrite, Constants
  <2>. QED  BY <1>1, <1>4, <2>1, Constants DEF AnswerInv, ClientHeard
<1>8. SpacedInv
  BY <1>1, <1>3, <1>4, Constants DEF SpacedInv, BeatsSpaced, Goroutines
<1>. QED  BY <1>5, <1>6, <1>7, <1>8 DEF Inv

LEMMA Invariant == Spec => []Inv
<1>1. Inv /\ [Next]_vars => Inv'
  BY TypeStep, PeerStep, HeardStep, SeenStep, AnswerStep, SpacedStep DEF Inv
<1>. QED  BY InvInit, <1>1, PTL DEF Spec

\* A peer that lives is never taken for gone by CheckTimeout (client.go:302):
\* LastSeen is at most a pause and a delay old.
THEOREM KeepAliveLivePeerKept == Spec => []LivePeerKept
<1>1. Inv => LivePeerKept
  <2>. SUFFICES ASSUME Inv, alive PROVE idle < HeartbeatTimeout
    <3>1. Inv => idle \in Nat
      BY NumberFacts DEF Inv, Numbers
    <3>. QED  BY <3>1, Constants DEF LivePeerKept, IsTimedOut
  <2>1. /\ idle \in Nat /\ age.peer \in Nat /\ age.peerBeat \in Nat
        /\ flight # << >> => Head(flight).age \in Nat /\ Head(flight).age <= Delay
    BY NumberFacts DEF Inv, Numbers, FlightAges
  <2>2. age.peer <= age.peerBeat /\ age.peerBeat <= PeerInterval
    BY DEF Inv, PeerInv
  <2>3. /\ flight = << >> => idle <= age.peer
        /\ flight # << >> => idle <= Head(flight).age + PeerInterval
    BY DEF Inv, HeardInv
  <2>. QED  BY <2>1, <2>2, <2>3, Constants
<1>. QED  BY Invariant, <1>1, PTL

\* A peer that has been silent for the timeout is noticed if the client has
\* sent nothing for that long (session.go:216, client.go:302).
THEOREM KeepAliveSilentPeerNoticed == Spec => []SilentPeerNoticed
<1>1. Inv => SilentPeerNoticed
  <2>. SUFFICES ASSUME Inv, age.peer >= HeartbeatTimeout + Delay, age.send >= HeartbeatTimeout
                PROVE  idle >= HeartbeatTimeout
    BY DEF SilentPeerNoticed, IsTimedOut
  <2>1. idle \in Nat /\ age.peer \in Nat /\ age.send \in Nat
    BY NumberFacts DEF Inv, Numbers
  <2>2. idle >= age.send \/ age.peer <= idle + Delay
    BY DEF Inv, SeenInv
  <2>. QED  BY <2>1, <2>2, Constants
<1>. QED  BY Invariant, <1>1, PTL

\* A client that only reads still answers in time (client.go:337).
THEOREM KeepAliveClientHeard == Spec => []ClientHeard
<1>1. Inv => ClientHeard
  BY DEF Inv, AnswerInv
<1>. QED  BY Invariant, <1>1, PTL

\* No more than two heartbeats are written within an interval, although the
\* check and the write are not one step (client.go:291).
THEOREM KeepAliveBeatsSpaced == Spec => []BeatsSpaced
<1>1. Inv => BeatsSpaced
  BY DEF Inv, SpacedInv
<1>. QED  BY Invariant, <1>1, PTL
-----------------------------------------------------------------------------
(***************************************************************************)
(* Framing.  Its loops first.                                              *)
(***************************************************************************)
\* Induction over the rounds of a loop.
LEMMA Rounds ==
  ASSUME NEW n \in Nat, NEW T \in SUBSET (0 .. n), 0 \in T,
         \A i \in 1 .. n : i - 1 \in T => i \in T
  PROVE  \A i \in 0 .. n : i \in T
<1>. DEFINE Missed == {i \in 0 .. n : i \notin T}
<1>. SUFFICES ASSUME Missed # {} PROVE FALSE
  OBVIOUS
<1>1. Missed \in SUBSET Nat
  OBVIOUS
<1>. HIDE DEF Missed
<1>2. PICK x \in Missed : \A y \in Missed : x <= y
  BY <1>1, LeastElement
<1>3. x \in 1 .. n /\ x \notin T
  BY DEF Missed
<1>4. x - 1 \in 0 .. n /\ ~(x <= x - 1)
  BY <1>3
<1>5. x - 1 \in T
  BY <1>2, <1>4 DEF Missed
<1>. QED  BY <1>3, <1>5

\* The n rounds of a loop: g[i] is what round i does.
Trace(n, S, start, g, f) ==
  f \in [0 .. n -> S] /\ f[0] = start /\ \A i \in 1 .. n : f[i] = g[i][f[i - 1]]

\* A loop has a trace.
LEMMA LoopRuns ==
  ASSUME NEW n \in Nat, NEW S, NEW start \in S, NEW g \in [1 .. n -> [S -> S]]
  PROVE  \E f : Trace(n, S, start, g, f)
<1>. DEFINE Runs(m) == \E f \in [0 .. m -> S] :
                         f[0] = start /\ \A i \in 1 .. m : f[i] = g[i][f[i - 1]]
            T == {m \in 0 .. n : Runs(m)}
<1>1. Runs(0)
  <2>. DEFINE h == [i \in 0 .. 0 |-> start]
  <2>1. h \in [0 .. 0 -> S] /\ h[0] = start
    OBVIOUS
  <2>2. \A i \in 1 .. 0 : FALSE
    OBVIOUS
  <2>. HIDE DEF h
  <2>. QED  BY <2>1, <2>2
<1>2. ASSUME NEW m \in 1 .. n, Runs(m - 1)
      PROVE  Runs(m)
  <2>1. PICK f \in [0 .. m - 1 -> S] : f[0] = start /\ \A i \in 1 .. m - 1 : f[i] = g[i][f[i - 1]]
    BY <1>2
  <2>. DEFINE h == [i \in 0 .. m |-> IF i = m THEN g[m][f[m - 1]] ELSE f[i]]
  <2>2. f[m - 1] \in S
    OBVIOUS
  <2>3. h \in [0 .. m -> S]
    <3>1. \A i \in 0 .. m : i = m \/ i \in 0 .. m - 1
      OBVIOUS
    <3>. QED  BY <2>2, <3>1
  <2>4. h[0] = start
    BY <2>1
  <2>5. ASSUME NEW i \in 1 .. m PROVE h[i] = g[i][h[i - 1]]
    <3>1. i - 1 \in 0 .. m /\ i - 1 # m /\ i \in 0 .. m
      OBVIOUS
    <3>2. h[i - 1] = f[i - 1]
      BY <3>1
    <3>3. CASE i = m
      BY <3>1, <3>2, <3>3
    <3>4. CASE i # m
      <4>1. i \in 1 .. m - 1
        BY <3>4
      <4>. QED  BY <2>1, <3>1, <3>2, <3>4, <4>1
    <3>. QED  BY <3>3, <3>4
  <2>. HIDE DEF h
  <2>. QED  BY <2>3, <2>4, <2>5
<1>. HIDE DEF Runs
<1>3. \A i \in 0 .. n : i \in T
  <2>1. T \in SUBSET (0 .. n) /\ 0 \in T
    BY <1>1
  <2>2. \A i \in 1 .. n : i - 1 \in T => i \in T
    BY <1>2
  <2>. HIDE DEF T
  <2>. QED  BY <2>1, <2>2, Rounds
<1>4. Runs(n)
  BY <1>3
<1>. QED  BY <1>4 DEF Runs, Trace


-----------------------------------------------------------------------------
(***************************************************************************)
(* Integers as bytes.                                                      *)
(***************************************************************************)
LEMMA BaseFacts == Base \in Nat /\ Base > 4 /\ W32 \in Nat \ {0}
BY CodecAssumption

\* The loops of U, Number and ValuesOf, round by round.
IsQuotients(w, n, q) ==
  q = [i \in 0 .. w |-> IF i = 0 THEN n ELSE q[i - 1] \div Base]

IsNumber(b, f) ==
  f = [i \in 0 .. Len(b) |-> IF i = 0 THEN 0 ELSE f[i - 1] * Base + b[i]]

IsPowers(w, p) ==
  p = [i \in 0 .. w |-> IF i = 0 THEN 1 ELSE p[i - 1] * Base]

\* A loop over numbers, given by its rounds.
Computes(n, start, g, f) ==
  f = [i \in 0 .. n |-> IF i = 0 THEN start ELSE g[i][f[i - 1]]]

\* A loop over numbers computes something ...
LEMMA NatLoop ==
  ASSUME NEW n \in Nat, NEW start \in Nat, NEW g \in [1 .. n -> [Nat -> Nat]]
  PROVE  \E f : Computes(n, start, g, f)
<1>. DEFINE S == Nat
<1>1. start \in S /\ g \in [1 .. n -> [S -> S]]
  OBVIOUS
<1>. HIDE DEF S
<1>2. PICK f : Trace(n, S, start, g, f)
  BY <1>1, LoopRuns
<1>3. \A i \in 0 .. n : i = 0 \/ i \in 1 .. n
  OBVIOUS
<1>4. \A i \in 0 .. n : f[i] = IF i = 0 THEN start ELSE g[i][f[i - 1]]
  BY <1>2, <1>3 DEF Trace
<1>5. f = [i \in 0 .. n |-> f[i]]
  BY <1>2 DEF Trace
<1>6. Computes(n, start, g, f)
  BY <1>4, <1>5 DEF Computes
<1>. QED  BY <1>6

\* ... and that is a number in every round.
LEMMA NatLoopType ==
  ASSUME NEW w \in Nat, NEW start \in Nat, NEW g \in [1 .. w -> [Nat -> Nat]], NEW f,
         Computes(w, start, g, f)
  PROVE  \A i \in 0 .. w : f[i] \in Nat
<1>. DEFINE T == {i \in 0 .. w : f[i] \in Nat}
<1>1. T \in SUBSET (0 .. w) /\ 0 \in T
  BY DEF Computes
<1>2. ASSUME NEW i \in 1 .. w, i - 1 \in T PROVE i \in T
  <2>1. i \in 0 .. w /\ i # 0
    OBVIOUS
  <2>2. f[i] = g[i][f[i - 1]]
    BY <2>1 DEF Computes
  <2>3. f[i - 1] \in Nat
    BY <1>2
  <2>4. f[i] \in Nat
    BY <2>2, <2>3
  <2>. QED  BY <2>1, <2>4
<1>. HIDE DEF T
<1>3. \A i \in 0 .. w : i \in T
  BY <1>1, <1>2, Rounds
<1>. QED  BY <1>3 DEF T

\* Quotient and remainder.
LEMMA DivFacts ==
  ASSUME NEW x \in Nat
  PROVE  /\ x \div Base \in Nat
         /\ x % Base \in Byte
         /\ x = (x \div Base) * Base + (x % Base)
<1>1. Base \in Nat \ {0}
  BY BaseFacts
<1>2. \A m \in Nat \ {0} :
        x \div m \in Nat /\ x % m \in 0 .. m - 1 /\ x = m * (x \div m) + (x % m)
  BY SMT
<1>3. /\ x \div Base \in Nat /\ x % Base \in 0 .. Base - 1
      /\ x = Base * (x \div Base) + (x % Base)
  BY <1>1, <1>2
<1>4. Base * (x \div Base) = (x \div Base) * Base
  <2>. DEFINE d == x \div Base
  <2>1. d \in Nat
    BY <1>3
  <2>. HIDE DEF d
  <2>2. Base * d = d * Base
    BY <1>1, <2>1
  <2>. QED  BY <2>2 DEF d
<1>5. x = (x \div Base) * Base + (x % Base)
  BY <1>3, <1>4
<1>. QED  BY <1>3, <1>5 DEF Byte

\* The bytes of a number are the remainders of its quotients, the last one first.
LEMMA QuotientRounds ==
  ASSUME NEW w \in Nat, NEW n \in Nat
  PROVE  \E q : /\ U(w, n) = [i \in 1 .. w |-> q[w - i] % Base]
                /\ q[0] = n
                /\ \A i \in 1 .. w : q[i] = q[i - 1] \div Base
                /\ \A i \in 0 .. w : q[i] \in Nat
<1>. DEFINE g == [i \in 1 .. w |-> [x \in Nat |-> x \div Base]]
<1>1. g \in [1 .. w -> [Nat -> Nat]]
  BY DivFacts
<1>. HIDE DEF g
<1>. DEFINE start == n
<1>2. start \in Nat
  OBVIOUS
<1>. HIDE DEF start
<1>3. PICK f : Computes(w, start, g, f)
  BY <1>2, <1>1, NatLoop
<1>4. \A i \in 0 .. w : f[i] \in Nat
  BY <1>2, <1>1, <1>3, NatLoopType
<1>5. f = [i \in 0 .. w |-> IF i = 0 THEN n ELSE g[i][f[i - 1]]]
  BY <1>3 DEF Computes, start
<1>6. \A i \in 1 .. w : f[i] = f[i - 1] \div Base
  <2>. SUFFICES ASSUME NEW i \in 1 .. w PROVE f[i] = f[i - 1] \div Base
    OBVIOUS
  <2>1. i \in 0 .. w /\ i # 0 /\ i - 1 \in 0 .. w
    OBVIOUS
  <2>2. f[i] = g[i][f[i - 1]] /\ f[i - 1] \in Nat
    BY <1>5, <1>4, <2>1
  <2>3. g[i] = [x \in Nat |-> x \div Base]
    BY DEF g
  <2>. QED  BY <2>2, <2>3
<1>7. IsQuotients(w, n, f)
  <2>1. \A i \in 0 .. w : i = 0 \/ i \in 1 .. w
    OBVIOUS
  <2>2. f[0] = n /\ f = [i \in 0 .. w |-> f[i]]
    BY <1>5
  <2>3. \A i \in 0 .. w : f[i] = IF i = 0 THEN n ELSE f[i - 1] \div Base
    BY <1>6, <2>1, <2>2
  <2>. QED  BY <2>2, <2>3 DEF IsQuotients
<1>. DEFINE q == CHOOSE q : IsQuotients(w, n, q)
<1>8. IsQuotients(w, n, q)
  BY <1>7
<1>9. U(w, n) = [i \in 1 .. w |-> q[w - i] % Base]
  BY DEF U, IsQuotients
<1>. HIDE DEF q
<1>10. q[0] = n /\ \A i \in 1 .. w : q[i] = q[i - 1] \div Base
  <2>1. 0 \in 0 .. w /\ \A i \in 1 .. w : i \in 0 .. w /\ i # 0
    OBVIOUS
  <2>. QED  BY <1>8, <2>1 DEF IsQuotients
<1>11. \A i \in 0 .. w : q[i] \in Nat
  <2>. DEFINE T == {i \in 0 .. w : q[i] \in Nat}
  <2>1. T \in SUBSET (0 .. w) /\ 0 \in T
    BY <1>10
  <2>2. ASSUME NEW i \in 1 .. w, i - 1 \in T PROVE i \in T
    <3>1. q[i - 1] \in Nat /\ i \in 0 .. w
      BY <2>2
    <3>2. q[i - 1] \div Base \in Nat
      BY <3>1, DivFacts
    <3>3. q[i] \in Nat
      BY <1>10, <3>2
    <3>. QED  BY <3>1, <3>3
  <2>. HIDE DEF T
  <2>3. \A i \in 0 .. w : i \in T
    BY <2>1, <2>2, Rounds
  <2>. QED  BY <2>3 DEF T
<1>. QED  BY <1>9, <1>10, <1>11

\* Reading a number takes in one byte after the other.
LEMMA NumberRounds ==
  ASSUME NEW b \in Seq(Nat)
  PROVE  \E f : /\ Number(b) = f[Len(b)]
                /\ f[0] = 0
                /\ \A i \in 1 .. Len(b) : f[i] = f[i - 1] * Base + b[i]
<1>. DEFINE w == Len(b)
            g == [i \in 1 .. w |-> [x \in Nat |-> x * Base + b[i]]]
<1>1. w \in Nat /\ \A i \in 1 .. w : b[i] \in Nat
  OBVIOUS
<1>2. g \in [1 .. w -> [Nat -> Nat]]
  <2>1. \A i \in 1 .. w, x \in Nat : x * Base + b[i] \in Nat
    BY <1>1, BaseFacts
  <2>. QED  BY <2>1
<1>. HIDE DEF g
<1>. DEFINE start == 0
<1>3. start \in Nat
  OBVIOUS
<1>. HIDE DEF start, w
<1>4. PICK f : Computes(w, start, g, f)
  BY <1>3, <1>1, <1>2, NatLoop
<1>5. \A i \in 0 .. w : f[i] \in Nat
  BY <1>3, <1>1, <1>2, <1>4, NatLoopType
<1>6. f = [i \in 0 .. w |-> IF i = 0 THEN 0 ELSE g[i][f[i - 1]]]
  BY <1>4 DEF Computes, start
<1>. USE DEF w
<1>7. \A i \in 1 .. w : f[i] = f[i - 1] * Base + b[i]
  <2>. SUFFICES ASSUME NEW i \in 1 .. w PROVE f[i] = f[i - 1] * Base + b[i]
    OBVIOUS
  <2>1. i \in 0 .. w /\ i # 0 /\ i - 1 \in 0 .. w
    BY <1>1
  <2>2. f[i] = g[i][f[i - 1]] /\ f[i - 1] \in Nat
    BY <1>6, <1>5, <2>1
  <2>3. g[i] = [x \in Nat |-> x * Base + b[i]]
    BY DEF g
  <2>. QED  BY <2>2, <2>3
<1>8. IsNumber(b, f)
  <2>1. \A i \in 0 .. w : i = 0 \/ i \in 1 .. w
    BY <1>1
  <2>2. f[0] = 0 /\ f = [i \in 0 .. w |-> f[i]]
    BY <1>1, <1>6
  <2>3. \A i \in 0 .. w : f[i] = IF i = 0 THEN 0 ELSE f[i - 1] * Base + b[i]
    BY <1>7, <2>1, <2>2
  <2>. QED  BY <2>2, <2>3 DEF IsNumber
<1>. DEFINE k == CHOOSE k : IsNumber(b, k)
<1>9. IsNumber(b, k)
  BY <1>8
<1>10. Number(b) = k[w]
  BY DEF Number, IsNumber
<1>. HIDE DEF k
<1>11. k[0] = 0 /\ \A i \in 1 .. w : k[i] = k[i - 1] * Base + b[i]
  <2>1. 0 \in 0 .. w /\ \A i \in 1 .. w : i \in 0 .. w /\ i # 0
    BY <1>1
  <2>. QED  BY <1>9, <2>1 DEF IsNumber
<1>. QED  BY <1>10, <1>11

\* Every byte multiplies the values by Base.
LEMMA PowerRounds ==
  ASSUME NEW w \in Nat
  PROVE  \E p : /\ ValuesOf(w) = p[w]
                /\ p[0] = 1
                /\ \A i \in 1 .. w : p[i] = p[i - 1] * Base
                /\ \A i \in 0 .. w : p[i] \in Nat
<1>. DEFINE g == [i \in 1 .. w |-> [x \in Nat |-> x * Base]]
<1>1. g \in [1 .. w -> [Nat -> Nat]]
  <2>1. \A x \in Nat : x * Base \in Nat
    BY BaseFacts
  <2>. QED  BY <2>1
<1>. HIDE DEF g
<1>. DEFINE start == 1
<1>2. start \in Nat
  OBVIOUS
<1>. HIDE DEF start
<1>3. PICK f : Computes(w, start, g, f)
  BY <1>2, <1>1, NatLoop
<1>4. \A i \in 0 .. w : f[i] \in Nat
  BY <1>2, <1>1, <1>3, NatLoopType
<1>5. f = [i \in 0 .. w |-> IF i = 0 THEN 1 ELSE g[i][f[i - 1]]]
  BY <1>3 DEF Computes, start
<1>6. \A i \in 1 .. w : f[i] = f[i - 1] * Base
  <2>. SUFFICES ASSUME NEW i \in 1 .. w PROVE f[i] = f[i - 1] * Base
    OBVIOUS
  <2>1. i \in 0 .. w /\ i # 0 /\ i - 1 \in 0 .. w
    OBVIOUS
  <2>2. f[i] = g[i][f[i - 1]] /\ f[i - 1] \in Nat
    BY <1>5, <1>4, <2>1
  <2>3. g[i] = [x \in Nat |-> x * Base]
    BY DEF g
  <2>. QED  BY <2>2, <2>3
<1>7. IsPowers(w, f)
  <2>1. \A i \in 0 .. w : i = 0 \/ i \in 1 .. w
    OBVIOUS
  <2>2. f[0] = 1 /\ f = [i \in 0 .. w |-> f[i]]
    BY <1>5
  <2>3. \A i \in 0 .. w : f[i] = IF i = 0 THEN 1 ELSE f[i - 1] * Base
    BY <1>6, <2>1, <2>2
  <2>. QED  BY <2>2, <2>3 DEF IsPowers
<1>. DEFINE p == CHOOSE p : IsPowers(w, p)
<1>8. IsPowers(w, p)
  BY <1>7
<1>9. ValuesOf(w) = p[w]
  BY DEF ValuesOf, IsPowers
<1>. HIDE DEF p
<1>10. p[0] = 1 /\ \A i \in 1 .. w : p[i] = p[i - 1] * Base
  <2>1. 0 \in 0 .. w /\ \A i \in 1 .. w : i \in 0 .. w /\ i # 0
    OBVIOUS
  <2>. QED  BY <1>8, <2>1 DEF IsPowers
<1>11. \A i \in 0 .. w : p[i] \in Nat
  <2>. DEFINE T == {i \in 0 .. w : p[i] \in Nat}
  <2>1. T \in SUBSET (0 .. w) /\ 0 \in T
    BY <1>10
  <2>2. ASSUME NEW i \in 1 .. w, i - 1 \in T PROVE i \in T
    <3>1. p[i - 1] \in Nat /\ i \in 0 .. w
      BY <2>2
    <3>2. p[i] \in Nat
      BY <1>10, <3>1, BaseFacts
    <3>. QED  BY <3>1, <3>2
  <2>. HIDE DEF T
  <2>3. \A i \in 0 .. w : i \in T
    BY <2>1, <2>2, Rounds
  <2>. QED  BY <2>3 DEF T
<1>. QED  BY <1>9, <1>10, <1>11

\* A number below m * Base has less than m Bases in it.
LEMMA QuotientBelow ==
  ASSUME NEW x \in Nat, NEW m \in Nat, x < m * Base
  PROVE  x \div Base < m
<1>. DEFINE d == x \div Base
            r == x % Base
<1>1. d \in Nat /\ r \in Nat /\ x = d * Base + r
  BY DivFacts, BaseFacts DEF Byte
<1>. HIDE DEF d, r
<1>2. ASSUME m <= d PROVE FALSE
  <2>1. PICK e \in Nat : d = m + e
    <3>1. d - m \in Nat /\ d = m + (d - m)
      BY <1>1, <1>2
    <3>. QED  BY <3>1
  <2>2. d * Base = m * Base + e * Base
    BY <2>1, BaseFacts
  <2>3. e * Base \in Nat /\ m * Base \in Nat
    BY BaseFacts
  <2>. DEFINE M == m * Base
              X == e * Base
              D == d * Base
  <2>4. D = M + X /\ M \in Nat /\ X \in Nat /\ x = D + r /\ x < M
    BY <1>1, <2>2, <2>3
  <2>. HIDE DEF M, X, D
  <2>. QED  BY <1>1, <2>4
<1>3. d < m
  BY <1>1, <1>2
<1>. QED  BY <1>3 DEF d

\* An integer that fits into its bytes is read by the decoder as the encoder
\* wrote it, whatever its width (binary/encoder.go, decoder.go).
THEOREM IntegersRoundTrip ==
  ASSUME NEW w \in Nat, NEW n \in Nat, n < ValuesOf(w)
  PROVE  /\ U(w, n) \in Seq(Byte)
         /\ Len(U(w, n)) = w
         /\ Number(U(w, n)) = n
<1>1. PICK q : /\ U(w, n) = [i \in 1 .. w |-> q[w - i] % Base]
               /\ q[0] = n
               /\ \A i \in 1 .. w : q[i] = q[i - 1] \div Base
               /\ \A i \in 0 .. w : q[i] \in Nat
  BY QuotientRounds
<1>2. PICK p : /\ ValuesOf(w) = p[w]
               /\ p[0] = 1
               /\ \A i \in 1 .. w : p[i] = p[i - 1] * Base
               /\ \A i \in 0 .. w : p[i] \in Nat
  BY PowerRounds
<1>. DEFINE b == U(w, n)
<1>3. /\ b \in Seq(Byte) /\ b \in Seq(Nat) /\ Len(b) = w
      /\ \A i \in 1 .. w : b[i] = q[w - i] % Base
  <2>1. \A i \in 1 .. w : w - i \in 0 .. w
    OBVIOUS
  <2>2. \A i \in 1 .. w : q[w - i] % Base \in Byte
    BY <1>1, <2>1, DivFacts
  <2>3. \A x \in Byte : x \in Nat
    BY BaseFacts DEF Byte
  <2>4. b = [i \in 1 .. w |-> q[w - i] % Base]
    BY <1>1
  <2>. HIDE DEF b
  <2>. QED  BY <2>2, <2>3, <2>4
<1>. HIDE DEF b
<1>4. PICK f : /\ Number(b) = f[w]
               /\ f[0] = 0
               /\ \A i \in 1 .. w : f[i] = f[i - 1] * Base + b[i]
  BY <1>3, NumberRounds
<1>5. \A i \in 0 .. w : q[i] < p[w - i]
  <2>. DEFINE T == {i \in 0 .. w : q[i] < p[w - i]}
  <2>1. T \in SUBSET (0 .. w) /\ 0 \in T
    BY <1>1, <1>2
  <2>2. ASSUME NEW i \in 1 .. w, i - 1 \in T PROVE i \in T
    <3>1. i - 1 \in 0 .. w /\ i \in 0 .. w /\ w - i \in 0 .. w /\ w - (i - 1) \in 1 .. w
          /\ (w - (i - 1)) - 1 = w - i
      OBVIOUS
    <3>2. q[i - 1] < p[w - (i - 1)] /\ q[i - 1] \in Nat /\ p[w - i] \in Nat
      BY <1>1, <1>2, <2>2, <3>1
    <3>3. p[w - (i - 1)] = p[w - i] * Base
      BY <1>2, <3>1
    <3>4. q[i] = q[i - 1] \div Base
      BY <1>1
    <3>5. q[i - 1] \div Base < p[w - i]
      BY <3>2, <3>3, QuotientBelow
    <3>. QED  BY <3>1, <3>4, <3>5
  <2>. HIDE DEF T
  <2>3. \A i \in 0 .. w : i \in T
    BY <2>1, <2>2, Rounds
  <2>. QED  BY <2>3 DEF T
<1>6. q[w] = 0
  <2>1. w \in 0 .. w /\ w - w = 0
    OBVIOUS
  <2>2. q[w] < p[w - w] /\ q[w] \in Nat
    BY <1>1, <1>5, <2>1
  <2>. QED  BY <1>2, <2>1, <2>2
<1>7. \A i \in 0 .. w : f[i] = q[w - i]
  <2>. DEFINE T == {i \in 0 .. w : f[i] = q[w - i]}
  <2>1. T \in SUBSET (0 .. w) /\ 0 \in T
    BY <1>4, <1>6
  <2>2. ASSUME NEW i \in 1 .. w, i - 1 \in T PROVE i \in T
    <3>1. i \in 0 .. w /\ w - i \in 0 .. w /\ w - (i - 1) \in 1 .. w
          /\ (w - (i - 1)) - 1 = w - i
      OBVIOUS
    <3>2. f[i - 1] = q[w - (i - 1)]
      BY <2>2
    <3>3. q[w - (i - 1)] = q[w - i] \div Base
      BY <1>1, <3>1
    <3>4. f[i] = (q[w - i] \div Base) * Base + (q[w - i] % Base)
      BY <1>3, <1>4, <3>2, <3>3
    <3>5. q[w - i] \in Nat
      BY <1>1, <3>1
    <3>6. f[i] = q[w - i]
      BY <3>4, <3>5, DivFacts
    <3>. QED  BY <3>1, <3>6
  <2>. HIDE DEF T
  <2>3. \A i \in 0 .. w : i \in T
    BY <2>1, <2>2, Rounds
  <2>. QED  BY <2>3 DEF T
<1>8. f[w] = n
  <2>1. w \in 0 .. w /\ w - w = 0
    OBVIOUS
  <2>. QED  BY <1>1, <1>7, <2>1
<1>. QED  BY <1>3, <1>4, <1>8 DEF b

-----------------------------------------------------------------------------
(***************************************************************************)
(* Frames as bytes.                                                        *)
(***************************************************************************)
LEMMA WriteByte ==
  ASSUME NEW n \in Byte
  PROVE  WriteU8(n) \in Seq(Byte) /\ Len(WriteU8(n)) = 1 /\ WriteU8(n)[1] = n
<1>1. n \in Nat /\ 1 \in Nat
  BY BaseFacts DEF Byte
<1>2. PICK q : /\ U(1, n) = [i \in 1 .. 1 |-> q[1 - i] % Base]
               /\ q[0] = n
  BY <1>1, QuotientRounds
<1>3. n % Base = n
  <2>1. \A m \in Nat \ {0} : \A x \in 0 .. m - 1 : x % m = x
    BY SMT
  <2>. QED  BY <2>1, BaseFacts DEF Byte
<1>4. U(1, n) = [i \in 1 .. 1 |-> n]
  <2>1. \A i \in 1 .. 1 : 1 - i = 0
    OBVIOUS
  <2>. QED  BY <1>2, <1>3, <2>1
<1>5. ASSUME NEW u, u = [i \in 1 .. 1 |-> n]
      PROVE  u \in Seq(Byte) /\ Len(u) = 1 /\ u[1] = n
  BY <1>5
<1>. QED  BY <1>4, <1>5 DEF WriteU8

\* Where the fields of an encoded frame are.
LEMMA EncodeFacts ==
  ASSUME NEW f \in Frames
  PROVE  /\ FrameEncode(f) \in Seq(Byte)
         /\ Len(FrameEncode(f)) = HeaderLen + Len(f.Payload)
         /\ FrameEncode(f)[1] = f.Version
         /\ FrameEncode(f)[2] = f.MsgType
         /\ FrameEncode(f)[3] = f.Flags
         /\ \A j \in 1 .. W32 : FrameEncode(f)[3 + j] = U(W32, Len(f.Payload))[j]
         /\ \A j \in 1 .. Len(f.Payload) : FrameEncode(f)[HeaderLen + j] = f.Payload[j]
<1>. DEFINE a == WriteU8(f.Version)
            b == WriteU8(f.MsgType)
            c == WriteU8(f.Flags)
            d == WriteU32(Len(f.Payload))
            p == f.Payload
<1>1. /\ f.Version \in Byte /\ f.MsgType \in Byte /\ f.Flags \in Byte /\ p \in Seq(Byte)
      /\ Len(p) \in Nat /\ Len(p) < ValuesOf(W32)
  BY FramingAssumption
<1>2. /\ a \in Seq(Byte) /\ Len(a) = 1 /\ a[1] = f.Version
      /\ b \in Seq(Byte) /\ Len(b) = 1 /\ b[1] = f.MsgType
      /\ c \in Seq(Byte) /\ Len(c) = 1 /\ c[1] = f.Flags
  BY <1>1, WriteByte
<1>3. d \in Seq(Byte) /\ Len(d) = W32 /\ d = U(W32, Len(p)) /\ W32 \in Nat
  BY <1>1, IntegersRoundTrip, BaseFacts DEF WriteU32
<1>4. FrameEncode(f) = (((a \o b) \o c) \o d) \o p
  BY DEF FrameEncode
<1>. HIDE DEF a, b, c, d, p
<1>. DEFINE ab == a \o b
            abc == ab \o c
            h == abc \o d
            e == h \o p
<1>5. ab \in Seq(Byte) /\ Len(ab) = 2 /\ ab[1] = a[1] /\ ab[2] = b[1]
  <2>1. /\ ab \in Seq(Byte) /\ Len(ab) = Len(a) + Len(b)
        /\ \A j \in 1 .. Len(a) : ab[j] = a[j]
        /\ \A j \in 1 .. Len(b) : ab[Len(a) + j] = b[j]
    <3>1. a \in Seq(Byte) /\ b \in Seq(Byte)
      BY <1>2
    <3>. QED  BY <3>1
  <2>. HIDE DEF ab
  <2>2. ab[1] = a[1] /\ ab[1 + 1] = b[1]
    BY <1>2, <2>1
  <2>. QED  BY <1>2, <2>1, <2>2
<1>. HIDE DEF ab
<1>6. abc \in Seq(Byte) /\ Len(abc) = 3 /\ abc[1] = a[1] /\ abc[2] = b[1] /\ abc[3] = c[1]
  <2>1. /\ abc \in Seq(Byte) /\ Len(abc) = Len(ab) + Len(c)
        /\ \A j \in 1 .. Len(ab) : abc[j] = ab[j]
        /\ \A j \in 1 .. Len(c) : abc[Len(ab) + j] = c[j]
    <3>1. ab \in Seq(Byte) /\ c \in Seq(Byte)
      BY <1>2, <1>5
    <3>. QED  BY <3>1
  <2>. HIDE DEF abc
  <2>2. abc[1] = ab[1] /\ abc[2] = ab[2] /\ abc[2 + 1] = c[1]
    BY <1>2, <1>5, <2>1
  <2>. QED  BY <1>2, <1>5, <2>1, <2>2
<1>. HIDE DEF abc
<1>7. /\ h \in Seq(Byte) /\ Len(h) = HeaderLen
      /\ h[1] = a[1] /\ h[2] = b[1] /\ h[3] = c[1]
      /\ \A j \in 1 .. W32 : h[3 + j] = d[j]
  <2>1. /\ h \in Seq(Byte) /\ Len(h) = Len(abc) + Len(d)
        /\ \A j \in 1 .. Len(abc) : h[j] = abc[j]
        /\ \A j \in 1 .. Len(d) : h[Len(abc) + j] = d[j]
    <3>1. abc \in Seq(Byte) /\ d \in Seq(Byte)
      BY <1>3, <1>6
    <3>. QED  BY <3>1
  <2>. HIDE DEF h
  <2>2. h[1] = abc[1] /\ h[2] = abc[2] /\ h[3] = abc[3]
    BY <1>6, <2>1
  <2>. QED  BY <1>3, <1>6, <2>1, <2>2 DEF HeaderLen
<1>. HIDE DEF h
<1>8. HeaderLen \in Nat /\ HeaderLen = 3 + W32
  BY <1>3 DEF HeaderLen
<1>9. /\ e \in Seq(Byte) /\ Len(e) = HeaderLen + Len(p)
      /\ \A j \in 1 .. HeaderLen : e[j] = h[j]
      /\ \A j \in 1 .. Len(p) : e[HeaderLen + j] = p[j]
  BY <1>1, <1>7, <1>8
<1>. HIDE DEF e
<1>10. /\ e[1] = a[1] /\ e[2] = b[1] /\ e[3] = c[1]
       /\ \A j \in 1 .. W32 : e[3 + j] = d[j]
  <2>1. 1 \in 1 .. HeaderLen /\ 2 \in 1 .. HeaderLen /\ 3 \in 1 .. HeaderLen
        /\ \A j \in 1 .. W32 : 3 + j \in 1 .. HeaderLen
    BY <1>3, <1>8
  <2>. QED  BY <1>7, <1>9, <2>1
<1>11. FrameEncode(f) = e
  BY <1>4 DEF e, h, abc, ab
<1>. QED  BY <1>2, <1>3, <1>9, <1>10, <1>11 DEF p

HeaderOf(f) ==
  [Version |-> f.Version, MsgType |-> f.MsgType, Flags |-> f.Flags, len |-> Len(f.Payload)]

\* The header that readFrame decodes is that of the frame that was encoded.
LEMMA HeaderRead ==
  ASSUME NEW f \in Frames, NEW buf \in Seq(Byte), Len(buf) = HeaderLen,
         \A j \in 1 .. HeaderLen : buf[j] = FrameEncode(f)[j]
  PROVE  ReadHeader(buf) = HeaderOf(f)
<1>. DEFINE s == SubSeq(buf, 4, HeaderLen)
            u == U(W32, Len(f.Payload))
<1>1. W32 \in Nat \ {0} /\ HeaderLen = 3 + W32 /\ HeaderLen \in Nat
  BY BaseFacts DEF HeaderLen
<1>2. u \in Seq(Byte) /\ Len(u) = W32 /\ Number(u) = Len(f.Payload)
  BY <1>1, IntegersRoundTrip, FramingAssumption
<1>3. s \in Seq(Byte) /\ Len(s) = W32 /\ \A j \in 1 .. W32 : s[j] = buf[3 + j]
  BY <1>1
<1>4. \A j \in 1 .. W32 : buf[3 + j] = u[j]
  <2>1. \A j \in 1 .. W32 : 3 + j \in 1 .. HeaderLen
    BY <1>1
  <2>. QED  BY <2>1, EncodeFacts
<1>. HIDE DEF s, u
<1>5. s = u
  BY <1>1, <1>2, <1>3, <1>4
<1>6. buf[1] = f.Version /\ buf[2] = f.MsgType /\ buf[3] = f.Flags
  <2>1. 1 \in 1 .. HeaderLen /\ 2 \in 1 .. HeaderLen /\ 3 \in 1 .. HeaderLen
    BY <1>1
  <2>. QED  BY <2>1, EncodeFacts
<1>. QED  BY <1>2, <1>5, <1>6 DEF ReadHeader, HeaderOf, s

\* The header of a frame is not Nil.
LEMMA HeaderNotNil ==
  ASSUME NEW f \in Frames
  PROVE  HeaderOf(f) # Nil /\ HeaderOf(f).len = Len(f.Payload) /\ HeaderOf(f).len \in Nat
<1>1. f.Version \in Byte /\ f.MsgType \in Byte /\ f.Flags \in Byte /\ Len(f.Payload) \in Nat
  BY FramingAssumption
<1>2. HeaderOf(f) \in Header
  BY <1>1 DEF HeaderOf, Header
<1>. QED  BY <1>1, <1>2, FramingAssumption DEF HeaderOf

-----------------------------------------------------------------------------
(***************************************************************************)
(* Pieces of a stream.                                                     *)
(***************************************************************************)
\* The bytes s are in the stream from position p on.
Lies(stream, s, p) ==
  /\ p \in Nat
  /\ p + Len(s) <= Len(stream)
  /\ \A j \in 1 .. Len(s) : s[j] = stream[p + j]

\* Two pieces, joined.
LEMMA JoinedFacts ==
  ASSUME NEW s \in Seq(Byte), NEW t \in Seq(Byte)
  PROVE  s \o t \in Seq(Byte) /\ Len(s \o t) = Len(s) + Len(t)
OBVIOUS

\* Pieces that follow one another are one piece.
LEMMA LiesJoined ==
  ASSUME NEW stream \in Seq(Byte), NEW s \in Seq(Byte), NEW t \in Seq(Byte), NEW p \in Nat,
         Lies(stream, s, p), Lies(stream, t, p + Len(s))
  PROVE  Lies(stream, s \o t, p)
<1>. DEFINE u == s \o t
<1>1. /\ Len(s) \in Nat /\ Len(t) \in Nat /\ Len(u) = Len(s) + Len(t) /\ Len(stream) \in Nat
      /\ \A j \in 1 .. Len(s) : u[j] = s[j]
      /\ \A j \in 1 .. Len(t) : u[Len(s) + j] = t[j]
  OBVIOUS
<1>. HIDE DEF u
<1>2. p + Len(u) <= Len(stream)
  BY <1>1 DEF Lies
<1>3. ASSUME NEW j \in 1 .. Len(u) PROVE u[j] = stream[p + j]
  <2>1. CASE j <= Len(s)
    <3>1. j \in 1 .. Len(s)
      BY <1>1, <2>1
    <3>. QED  BY <1>1, <3>1 DEF Lies
  <2>2. CASE ~(j <= Len(s))
    <3>1. j - Len(s) \in 1 .. Len(t) /\ Len(s) + (j - Len(s)) = j
          /\ (p + Len(s)) + (j - Len(s)) = p + j
      <4>1. Len(s) \in Nat /\ Len(t) \in Nat /\ Len(u) = Len(s) + Len(t)
        BY <1>1
      <4>. QED  BY <2>2, <4>1
    <3>2. t[j - Len(s)] = stream[(p + Len(s)) + (j - Len(s))]
      BY <3>1 DEF Lies
    <3>. QED  BY <1>1, <3>1, <3>2
  <2>. QED  BY <2>1, <2>2
<1>. QED  BY <1>2, <1>3 DEF Lies, u

\* A piece that is cut in two is two pieces that follow one another.
LEMMA LiesCut ==
  ASSUME NEW stream \in Seq(Byte), NEW s \in Seq(Byte), NEW p \in Nat, Lies(stream, s, p),
         NEW n \in 0 .. Len(s)
  PROVE  /\ SubSeq(s, 1, n) \in Seq(Byte) /\ Len(SubSeq(s, 1, n)) = n
         /\ Lies(stream, SubSeq(s, 1, n), p)
         /\ SubSeq(s, n + 1, Len(s)) \in Seq(Byte)
         /\ Len(SubSeq(s, n + 1, Len(s))) = Len(s) - n
         /\ Lies(stream, SubSeq(s, n + 1, Len(s)), p + n)
<1>. DEFINE a == SubSeq(s, 1, n)
            b == SubSeq(s, n + 1, Len(s))
<1>1. Len(s) \in Nat /\ n \in Nat /\ n <= Len(s) /\ Len(stream) \in Nat
  OBVIOUS
<1>2. a \in Seq(Byte) /\ Len(a) = n /\ \A j \in 1 .. n : a[j] = s[j]
  BY <1>1
<1>3. b \in Seq(Byte) /\ Len(b) = Len(s) - n /\ \A j \in 1 .. Len(s) - n : b[j] = s[n + j]
  BY <1>1
<1>. HIDE DEF a, b
<1>4. Lies(stream, a, p)
  <2>1. \A j \in 1 .. n : j \in 1 .. Len(s)
    BY <1>1
  <2>2. p + n <= Len(stream)
    BY <1>1 DEF Lies
  <2>. QED  BY <1>2, <2>1, <2>2 DEF Lies
<1>5. Lies(stream, b, p + n)
  <2>1. p + n \in Nat /\ (p + n) + (Len(s) - n) <= Len(stream)
    BY <1>1 DEF Lies
  <2>2. ASSUME NEW j \in 1 .. Len(s) - n PROVE b[j] = stream[(p + n) + j]
    <3>1. n + j \in 1 .. Len(s) /\ p + (n + j) = (p + n) + j
      BY <1>1
    <3>2. s[n + j] = stream[p + (n + j)]
      BY <3>1 DEF Lies
    <3>. QED  BY <1>3, <3>1, <3>2
  <2>. QED  BY <1>3, <2>1, <2>2 DEF Lies
<1>. QED  BY <1>2, <1>3, <1>4, <1>5 DEF a, b

\* A stream that grows keeps what it has.
LEMMA LiesExtended ==
  ASSUME NEW stream \in Seq(Byte), NEW t \in Seq(Byte), NEW s \in Seq(Byte), NEW p \in Nat,
         Lies(stream, s, p)
  PROVE  Lies(stream \o t, s, p)
<1>. DEFINE u == stream \o t
<1>1. /\ Len(stream) \in Nat /\ Len(t) \in Nat /\ Len(s) \in Nat /\ Len(u) = Len(stream) + Len(t)
      /\ \A j \in 1 .. Len(stream) : u[j] = stream[j]
  OBVIOUS
<1>. HIDE DEF u
<1>2. p + Len(s) <= Len(u)
  BY <1>1 DEF Lies
<1>3. \A j \in 1 .. Len(s) : p + j \in 1 .. Len(stream)
  BY <1>1 DEF Lies
<1>. QED  BY <1>1, <1>2, <1>3 DEF Lies, u

\* Frame k of ws is in the stream between off[k - 1] and off[k].
Layout(ws, stream, off) ==
  /\ stream \in Seq(Byte)
  /\ off \in [0 .. Len(ws) -> Nat]
  /\ off[0] = 0
  /\ off[Len(ws)] = Len(stream)
  /\ \A k \in 1 .. Len(ws) :
       /\ off[k] = off[k - 1] + Len(FrameEncode(ws[k]))
       /\ Lies(stream, FrameEncode(ws[k]), off[k - 1])

\* A frame is written at the end of the stream.
LEMMA LayoutAppend ==
  ASSUME NEW ws \in Seq(Frames), NEW stream, NEW off, Layout(ws, stream, off), NEW f \in Frames
  PROVE  \E o : /\ Layout(Append(ws, f), stream \o FrameEncode(f), o)
                /\ \A k \in 0 .. Len(ws) : o[k] = off[k]
<1>. DEFINE e == FrameEncode(f)
            n == Len(ws)
            vs == Append(ws, f)
            st == stream \o e
            o == [k \in 0 .. n + 1 |-> IF k <= n THEN off[k] ELSE Len(stream) + Len(e)]
<1>1. /\ n \in Nat /\ Len(vs) = n + 1 /\ vs[n + 1] = f
      /\ \A k \in 1 .. n : vs[k] = ws[k] /\ ws[k] \in Frames
  OBVIOUS
<1>2. /\ e \in Seq(Byte) /\ Len(e) \in Nat /\ stream \in Seq(Byte) /\ Len(stream) \in Nat
      /\ off \in [0 .. n -> Nat] /\ off[0] = 0 /\ off[n] = Len(stream)
  BY EncodeFacts DEF Layout
<1>. HIDE DEF e
<1>3. /\ st \in Seq(Byte) /\ Len(st) = Len(stream) + Len(e)
      /\ \A j \in 1 .. Len(e) : st[Len(stream) + j] = e[j]
  BY <1>2
<1>. HIDE DEF vs
<1>4. /\ o \in [0 .. n + 1 -> Nat]
      /\ \A k \in 0 .. n : o[k] = off[k]
      /\ o[n + 1] = Len(stream) + Len(e)
  <2>1. \A k \in 0 .. n : k \in 0 .. n + 1 /\ k <= n
    BY <1>1
  <2>2. \A k \in 0 .. n + 1 : k <= n => k \in 0 .. n
    BY <1>1
  <2>3. n + 1 \in 0 .. n + 1 /\ ~(n + 1 <= n)
    BY <1>1
  <2>4. Len(stream) + Len(e) \in Nat
    BY <1>2
  <2>. HIDE DEF n
  <2>. QED  BY <1>2, <2>1, <2>2, <2>3, <2>4
<1>. HIDE DEF o, st
<1>5. ASSUME NEW k \in 1 .. n + 1
      PROVE  /\ o[k] = o[k - 1] + Len(FrameEncode(vs[k]))
             /\ Lies(st, FrameEncode(vs[k]), o[k - 1])
  <2>1. CASE k = n + 1
    <3>1. k - 1 = n /\ n \in 0 .. n
      BY <1>1, <2>1
    <3>2. o[k - 1] = Len(stream) /\ FrameEncode(vs[k]) = e
      <4>1. vs[k] = f
        BY <1>1, <2>1
      <4>2. o[k - 1] = off[n]
        BY <1>4, <3>1
      <4>. QED  BY <1>2, <4>1, <4>2 DEF e
    <3>3. Lies(st, e, Len(stream))
      <4>1. Len(stream) \in Nat /\ Len(e) \in Nat /\ Len(stream) + Len(e) <= Len(st)
        BY <1>2, <1>3
      <4>2. \A j \in 1 .. Len(e) : e[j] = st[Len(stream) + j]
        BY <1>3
      <4>. QED  BY <4>1, <4>2 DEF Lies
    <3>. QED  BY <1>4, <2>1, <3>2, <3>3
  <2>2. CASE k # n + 1
    <3>1. k \in 1 .. n /\ k \in 0 .. n /\ k - 1 \in 0 .. n
      BY <1>1, <2>2
    <3>2. o[k] = off[k] /\ o[k - 1] = off[k - 1] /\ vs[k] = ws[k] /\ ws[k] \in Frames /\ off[k - 1] \in Nat
      BY <1>1, <1>2, <1>4, <3>1
    <3>3. off[k] = off[k - 1] + Len(FrameEncode(ws[k])) /\ Lies(stream, FrameEncode(ws[k]), off[k - 1])
      BY <3>1 DEF Layout
    <3>4. Lies(st, FrameEncode(ws[k]), off[k - 1])
      <4>1. FrameEncode(ws[k]) \in Seq(Byte)
        BY <3>2, EncodeFacts
      <4>. QED  BY <1>2, <3>2, <3>3, <4>1, LiesExtended DEF st
    <3>. QED  BY <3>2, <3>3, <3>4
  <2>. QED  BY <2>1, <2>2
<1>6. o[0] = 0 /\ o[n + 1] = Len(st)
  <2>1. 0 \in 0 .. n
    BY <1>1
  <2>2. o[0] = off[0] /\ off[0] = 0
    BY <1>2, <1>4, <2>1
  <2>3. o[n + 1] = Len(stream) + Len(e) /\ Len(st) = Len(stream) + Len(e)
    BY <1>3, <1>4
  <2>. HIDE DEF n
  <2>. QED  BY <2>2, <2>3
<1>7. Layout(vs, st, o)
  BY <1>1, <1>3, <1>4, <1>5, <1>6 DEF Layout
<1>. QED  BY <1>4, <1>7 DEF vs, st, e

-----------------------------------------------------------------------------
(***************************************************************************)
(* The invariant of the connection.                                        *)
(***************************************************************************)
StreamTypes ==
  /\ calls \in [Writers -> Seq(Seq(Byte))]
  /\ fresh \in [Writers -> Frames \cup {Nil}]
  /\ holder \in Writers \cup {Nil}
  /\ pipe \in Seq(Byte)
  /\ buffer \in Seq(Byte)
  /\ broken \in BOOLEAN
  /\ written \in Seq(Frames)
  /\ read \in Seq(Frames)

\* A writer waits with a frame that is whole, or the stream is taking what is
\* left of its only buffer, or it writes nothing.
WriterInv(w) ==
  \/ /\ holder = w /\ ~broken
     /\ fresh[w] = Nil
     /\ Len(calls[w]) = 1
  \/ /\ holder # w /\ ~broken
     /\ fresh[w] \in Frames
     /\ calls[w] = <<FrameEncode(fresh[w])>>
  \/ /\ holder # w
     /\ fresh[w] = Nil
     /\ calls[w] = << >>

WritersInv == \A w \in Writers : WriterInv(w)

\* The header that was read is that of the next frame.
HeaderInv ==
  header # Nil => /\ Len(read) + 1 \in 1 .. Len(written)
                  /\ header = HeaderOf(written[Len(read) + 1])

PrefixInv ==
  /\ Len(read) <= Len(written)
  /\ \A i \in 1 .. Len(read) : read[i] = written[i]

\* What the Write under way has not handed over yet.
Rest == IF holder = Nil THEN << >> ELSE calls[holder][1]

\* How many bytes readFrame has consumed.
Position(off) == off[Len(read)] + (IF header = Nil THEN 0 ELSE HeaderLen)

\* What the reader has got of a header or payload, what is on its way and what
\* is left of the Write under way follow one another in the stream from
\* position p on, up to its end unless the connection broke.
Follow(stream, p, got, sent, left, cut) ==
  /\ Lies(stream, got, p)
  /\ Lies(stream, sent, p + Len(got))
  /\ Lies(stream, left, p + Len(got) + Len(sent))
  /\ ~cut => p + Len(got) + Len(sent) + Len(left) = Len(stream)

StreamInv ==
  \E stream, off :
    /\ Layout(written, stream, off)
    /\ Follow(stream, Position(off), buffer, pipe, Rest, broken)

ConnInv == StreamTypes /\ WritersInv /\ HeaderInv /\ PrefixInv /\ StreamInv
-----------------------------------------------------------------------------
(***************************************************************************)
(* What each step does to the stream.                                      *)
(***************************************************************************)
LEMMA RestFacts ==
  ASSUME ConnInv
  PROVE  /\ Rest \in Seq(Byte)
         /\ \A w \in Writers : holder = w => Rest = calls[w][1] /\ calls[w] = <<calls[w][1]>> /\ ~broken
         /\ broken => Rest = << >> /\ holder = Nil
<1>1. holder \in Writers \cup {Nil} /\ Nil \notin Writers
  BY FramingAssumption DEF ConnInv, StreamTypes
<1>2. ASSUME NEW w \in Writers, holder = w
      PROVE  /\ Rest = calls[w][1] /\ calls[w] = <<calls[w][1]>> /\ ~broken
             /\ calls[w][1] \in Seq(Byte)
  <2>1. Len(calls[w]) = 1 /\ ~broken
    BY <1>2 DEF ConnInv, WritersInv, WriterInv
  <2>2. calls[w] \in Seq(Seq(Byte))
    BY DEF ConnInv, StreamTypes
  <2>. DEFINE c == calls[w]
              Q == Seq(Byte)
  <2>3. c \in Seq(Q) /\ Len(c) = 1
    BY <2>1, <2>2
  <2>. HIDE DEF c, Q
  <2>4. c[1] \in Q /\ c = <<c[1]>>
    BY <2>3
  <2>5. Rest = calls[w][1]
    BY <1>1, <1>2 DEF Rest
  <2>. QED  BY <2>1, <2>4, <2>5 DEF c, Q
<1>3. CASE holder = Nil
  BY <1>1, <1>3 DEF Rest
<1>4. CASE holder # Nil
  BY <1>1, <1>2, <1>4
<1>. QED  BY <1>3, <1>4

\* One step of the stream, whoever took it: nothing, a new frame begins to be
\* written, bytes are handed over, the connection breaks, bytes are read, a
\* header is complete, a payload is complete.
Same == /\ UNCHANGED <<pipe, buffer, header, written, read>>
        /\ Rest' = Rest /\ (broken' = broken)

Begins(f) == /\ ~broken /\ Rest = << >>
             /\ written' = Append(written, f) /\ Rest' = FrameEncode(f)
             /\ UNCHANGED <<pipe, buffer, header, read, broken>>

Hands(n) == /\ pipe' = pipe \o SubSeq(Rest, 1, n)
            /\ Rest' = SubSeq(Rest, n + 1, Len(Rest))
            /\ UNCHANGED <<buffer, header, written, read, broken>>

Breaks(n) == /\ pipe' = SubSeq(pipe, 1, n) /\ Rest' = << >> /\ broken' = TRUE
             /\ UNCHANGED <<buffer, header, written, read>>

Gets(n) == /\ buffer' = buffer \o SubSeq(pipe, 1, n)
           /\ pipe' = SubSeq(pipe, n + 1, Len(pipe))
           /\ Rest' = Rest
           /\ UNCHANGED <<header, written, read, broken>>

HasHeader == /\ header = Nil /\ Len(buffer) = HeaderLen
             /\ header' = ReadHeader(buffer) /\ buffer' = << >>
             /\ Rest' = Rest
             /\ UNCHANGED <<pipe, written, read, broken>>

HasPayload == /\ header # Nil /\ Len(buffer) = header.len
              /\ read' = Append(read, [Version |-> header.Version, MsgType |-> header.MsgType,
                                       Flags |-> header.Flags, Payload |-> buffer])
              /\ header' = Nil /\ buffer' = << >>
              /\ Rest' = Rest
              /\ UNCHANGED <<pipe, written, broken>>

StreamStep ==
  \/ Same
  \/ \E f \in Frames : Begins(f)
  \/ \E n \in 0 .. Len(Rest) : Hands(n)
  \/ \E n \in 0 .. Len(pipe) : Breaks(n)
  \/ \E n \in 0 .. Len(pipe) : Gets(n)
  \/ HasHeader
  \/ HasPayload

\* Every step of the connection is one of these.
LEMMA EveryStreamStep == ConnInv /\ [StreamNext]_streamVars => StreamStep
<1>. SUFFICES ASSUME ConnInv, [StreamNext]_streamVars PROVE StreamStep
  OBVIOUS
<1>1. /\ holder \in Writers \cup {Nil} /\ Nil \notin Writers
      /\ calls \in [Writers -> Seq(Seq(Byte))]
      /\ Rest \in Seq(Byte) /\ pipe \in Seq(Byte) /\ Len(Rest) \in Nat /\ Len(pipe) \in Nat
  BY RestFacts, FramingAssumption DEF ConnInv, StreamTypes
<1>2. ASSUME NEW w \in Writers, NEW f \in Frames, writeFrame(w, f) PROVE StreamStep
  <2>1. holder # w
    <3>1. CASE holder = w
      <4>1. Len(calls[w]) = 1 /\ calls[w] = << >>
        BY <1>2, <3>1 DEF ConnInv, WritersInv, WriterInv, writeFrame
      <4>. QED  BY <4>1
    <3>. QED  BY <3>1
  <2>2. holder' = holder /\ \A x \in Writers : x # w => calls'[x] = calls[x]
    BY <1>1, <1>2 DEF writeFrame
  <2>3. Rest' = Rest
    BY <1>1, <2>1, <2>2 DEF Rest
  <2>4. Same
    BY <1>2, <2>3 DEF writeFrame, Same
  <2>. QED  BY <2>4 DEF StreamStep
<1>3. ASSUME NEW w \in Writers, StartWrite(w) PROVE StreamStep
  <2>1. /\ ~broken /\ fresh[w] \in Frames /\ fresh[w] # Nil
        /\ calls[w] = <<FrameEncode(fresh[w])>> /\ holder = Nil
    BY <1>1, <1>3, FramingAssumption DEF ConnInv, WritersInv, WriterInv, StartWrite
  <2>2. Rest = << >>
    BY <2>1 DEF Rest
  <2>3. holder' = w /\ calls' = calls /\ w # Nil
    BY <1>1, <1>3 DEF StartWrite
  <2>4. calls[w][1] = FrameEncode(fresh[w])
    BY <2>1
  <2>5. Rest' = FrameEncode(fresh[w])
    BY <2>3, <2>4 DEF Rest
  <2>6. Begins(fresh[w])
    BY <1>3, <2>1, <2>2, <2>5 DEF StartWrite, Begins
  <2>. QED  BY <2>1, <2>6 DEF StreamStep
<1>4. ASSUME NEW w \in Writers, NEW n \in 1 .. HeaderLen + MaxFramePayload, WriteSome(w, n)
      PROVE  StreamStep
  <2>. DEFINE rest == SubSeq(calls[w][1], n + 1, Len(calls[w][1]))
  <2>1. holder = w /\ Rest = calls[w][1] /\ calls[w] = <<calls[w][1]>> /\ w # Nil
    BY <1>1, <1>4, RestFacts DEF WriteSome
  <2>2. n \in 0 .. Len(Rest)
    BY <1>1, <1>4, <2>1 DEF WriteSome
  <2>3. /\ pipe' = pipe \o SubSeq(Rest, 1, n)
        /\ holder' = IF rest = << >> THEN Nil ELSE w
        /\ calls' = [calls EXCEPT ![w] = IF rest = << >> THEN Tail(calls[w]) ELSE <<rest>> \o Tail(calls[w])]
        /\ UNCHANGED <<buffer, header, written, read, broken>>
    BY <1>4, <2>1 DEF WriteSome
  <2>4. rest = SubSeq(Rest, n + 1, Len(Rest))
    BY <2>1
  <2>. HIDE DEF rest
  <2>5. Rest' = rest
    <3>1. CASE rest = << >>
      <4>1. holder' = Nil
        BY <2>3, <3>1
      <4>. QED  BY <3>1, <4>1 DEF Rest
    <3>2. CASE rest # << >>
      <4>1. holder' = w /\ calls'[w] = <<rest>> \o Tail(calls[w])
        BY <1>1, <2>3, <3>2
      <4>2. calls'[w] = <<rest>> \o << >>
        <5>. DEFINE c == calls[w][1]
        <5>1. calls[w] = <<c>>
          BY <2>1
        <5>. HIDE DEF c
        <5>2. Tail(<<c>>) = << >>
          OBVIOUS
        <5>. QED  BY <4>1, <5>1, <5>2
      <4>3. (<<rest>> \o << >>)[1] = rest
        OBVIOUS
      <4>. QED  BY <2>1, <4>1, <4>2, <4>3 DEF Rest
    <3>. QED  BY <3>1, <3>2
  <2>6. Hands(n)
    BY <2>3, <2>4, <2>5 DEF Hands
  <2>. QED  BY <2>2, <2>6 DEF StreamStep
<1>5. ASSUME Break PROVE StreamStep
  <2>1. PICK n \in 0 .. Len(pipe) : pipe' = SubSeq(pipe, 1, n)
    BY <1>5 DEF Break
  <2>2. Rest' = << >>
    BY <1>5 DEF Break, Rest
  <2>3. Breaks(n)
    BY <1>5, <2>1, <2>2 DEF Break, Breaks
  <2>. QED  BY <2>3 DEF StreamStep
<1>6. ASSUME NEW n \in 1 .. Len(pipe), ReadSome(n) PROVE StreamStep
  <2>1. n \in 0 .. Len(pipe)
    BY <1>1
  <2>2. Rest' = Rest
    BY <1>6 DEF ReadSome, Rest
  <2>3. Gets(n)
    BY <1>6, <2>2 DEF ReadSome, Gets
  <2>. QED  BY <2>1, <2>3 DEF StreamStep
<1>7. ASSUME GotHeader PROVE StreamStep
  <2>1. Rest' = Rest
    BY <1>7 DEF GotHeader, Rest
  <2>2. HasHeader
    BY <1>7, <2>1 DEF GotHeader, HasHeader, Full, Wanted
  <2>. QED  BY <2>2 DEF StreamStep
<1>8. ASSUME GotPayload PROVE StreamStep
  <2>1. Rest' = Rest
    BY <1>8 DEF GotPayload, Rest
  <2>2. HasPayload
    BY <1>8, <2>1 DEF GotPayload, HasPayload, Full, Wanted
  <2>. QED  BY <2>2 DEF StreamStep
<1>9. ASSUME ReadFails PROVE StreamStep
  <2>1. Rest' = Rest
    BY <1>9 DEF ReadFails, Rest
  <2>2. Same
    BY <1>9, <2>1 DEF ReadFails, Same
  <2>. QED  BY <2>2 DEF StreamStep
<1>10. CASE UNCHANGED streamVars
  <2>1. Rest' = Rest
    BY <1>10 DEF streamVars, Rest
  <2>2. Same
    BY <1>10, <2>1 DEF streamVars, Same
  <2>. QED  BY <2>2 DEF StreamStep
<1>. QED  BY <1>2, <1>3, <1>4, <1>5, <1>6, <1>7, <1>8, <1>9, <1>10 DEF StreamNext, Reading

-----------------------------------------------------------------------------
(***************************************************************************)
(* The invariant is kept.                                                  *)
(***************************************************************************)
PositionWhere(off, r, hd) == off[r] + (IF hd = Nil THEN 0 ELSE HeaderLen)

\* It is enough to lay out the stream of the next state.
LEMMA NextStream ==
  ASSUME NEW stream, NEW off, Layout(written', stream, off),
         Follow(stream, PositionWhere(off, Len(read'), header'), buffer', pipe', Rest', broken')
  PROVE  StreamInv'
BY DEF StreamInv, Position, PositionWhere

\* The stream of this state.
LEMMA ThisStream ==
  ASSUME ConnInv
  PROVE  \E stream, off :
           /\ Layout(written, stream, off)
           /\ stream \in Seq(Byte) /\ off \in [0 .. Len(written) -> Nat]
           /\ PositionWhere(off, Len(read), header) \in Nat
           /\ Follow(stream, PositionWhere(off, Len(read), header), buffer, pipe, Rest, broken)
<1>1. PICK stream, off : /\ Layout(written, stream, off)
                         /\ Follow(stream, Position(off), buffer, pipe, Rest, broken)
  BY DEF ConnInv, StreamInv
<1>2. stream \in Seq(Byte) /\ off \in [0 .. Len(written) -> Nat]
  BY <1>1 DEF Layout
<1>3. Position(off) = PositionWhere(off, Len(read), header)
  BY DEF Position, PositionWhere
<1>4. Position(off) \in Nat
  BY <1>1 DEF Follow, Lies
<1>. QED  BY <1>1, <1>2, <1>3, <1>4

\* What the invariant says of types and lengths.
LEMMA LengthFacts ==
  ASSUME ConnInv
  PROVE  /\ pipe \in Seq(Byte) /\ buffer \in Seq(Byte) /\ Rest \in Seq(Byte)
         /\ written \in Seq(Frames) /\ read \in Seq(Frames)
         /\ Len(pipe) \in Nat /\ Len(buffer) \in Nat /\ Len(Rest) \in Nat
         /\ Len(written) \in Nat /\ Len(read) \in Nat /\ Len(read) <= Len(written)
         /\ HeaderLen \in Nat /\ HeaderLen > 3
<1>1. HeaderLen \in Nat /\ HeaderLen > 3
  BY BaseFacts DEF HeaderLen
<1>. QED  BY <1>1, RestFacts DEF ConnInv, StreamTypes, PrefixInv

\* The parts of the invariant that the stream is about.
StreamPart ==
  /\ pipe \in Seq(Byte) /\ buffer \in Seq(Byte)
  /\ written \in Seq(Frames) /\ read \in Seq(Frames)
  /\ HeaderInv /\ PrefixInv /\ StreamInv

\* Steps that leave the stream alone.
LEMMA SameKeeps ==
  ASSUME ConnInv, Same
  PROVE  StreamPart'
<1>1. PICK stream, off :
        /\ Layout(written, stream, off)
        /\ Follow(stream, PositionWhere(off, Len(read), header), buffer, pipe, Rest, broken)
  BY ThisStream
<1>2. StreamInv'
  <2>1. /\ written' = written /\ read' = read /\ header' = header /\ buffer' = buffer
        /\ pipe' = pipe /\ Rest' = Rest /\ broken' = broken
    BY DEF Same
  <2>2. /\ Layout(written', stream, off)
        /\ Follow(stream, PositionWhere(off, Len(read'), header'), buffer', pipe', Rest', broken')
    BY <1>1, <2>1
  <2>. QED  BY <2>2, NextStream
<1>. QED  BY <1>2 DEF StreamPart, HeaderInv, HeaderOf, PrefixInv, Same, ConnInv, StreamTypes

\* A Write begins: the stream gets the whole frame, none of which is on its way.
LEMMA BeginsKeeps ==
  ASSUME ConnInv, NEW f \in Frames, Begins(f)
  PROVE  StreamPart'
<1>. DEFINE e == FrameEncode(f)
            r == Len(read)
<1>1. PICK stream, off :
        /\ Layout(written, stream, off)
        /\ stream \in Seq(Byte) /\ off \in [0 .. Len(written) -> Nat]
        /\ PositionWhere(off, r, header) \in Nat
        /\ Follow(stream, PositionWhere(off, r, header), buffer, pipe, Rest, broken)
  BY ThisStream
<1>. DEFINE p == PositionWhere(off, r, header)
<1>2. /\ ~broken /\ Rest = << >> /\ written' = Append(written, f) /\ Rest' = e
      /\ pipe' = pipe /\ buffer' = buffer /\ header' = header /\ read' = read /\ broken' = broken
  BY DEF Begins
<1>3. PICK o : /\ Layout(Append(written, f), stream \o e, o)
               /\ \A k \in 0 .. Len(written) : o[k] = off[k]
  BY <1>1, LengthFacts, LayoutAppend
<1>4. e \in Seq(Byte) /\ Len(e) \in Nat
  BY EncodeFacts
<1>5. PositionWhere(o, r, header) = p /\ p \in Nat
  <2>1. r \in 0 .. Len(written)
    BY LengthFacts
  <2>. QED  BY <1>1, <1>3, <2>1 DEF PositionWhere
<1>. HIDE DEF p, e
<1>6. /\ Lies(stream, buffer, p) /\ Lies(stream, pipe, p + Len(buffer))
      /\ p + Len(buffer) + Len(pipe) = Len(stream)
      /\ p + Len(buffer) \in Nat
  <2>1. p + Len(buffer) + Len(pipe) + Len(Rest) = Len(stream) /\ Len(Rest) = 0
    BY <1>1, <1>2 DEF Follow, p
  <2>. QED  BY <1>1, <1>5, <2>1, LengthFacts DEF Follow, p
<1>7. /\ Lies(stream \o e, buffer, p) /\ Lies(stream \o e, pipe, p + Len(buffer))
  BY <1>1, <1>4, <1>5, <1>6, LengthFacts, LiesExtended
<1>8. Lies(stream \o e, e, Len(stream)) /\ Len(stream \o e) = Len(stream) + Len(e)
  <2>. DEFINE st == stream \o e
  <2>1. /\ Len(st) = Len(stream) + Len(e) /\ Len(stream) \in Nat
        /\ \A j \in 1 .. Len(e) : st[Len(stream) + j] = e[j]
    BY <1>1, <1>4
  <2>. HIDE DEF st
  <2>2. Len(stream) + Len(e) <= Len(st)
    BY <1>4, <2>1
  <2>3. Lies(st, e, Len(stream))
    BY <2>1, <2>2 DEF Lies
  <2>. QED  BY <2>1, <2>3 DEF st
<1>9. Follow(stream \o e, p, buffer, pipe, e, broken)
  BY <1>6, <1>7, <1>8 DEF Follow
<1>10. StreamInv'
  <2>1. /\ Layout(written', stream \o e, o)
        /\ Follow(stream \o e, PositionWhere(o, Len(read'), header'), buffer', pipe', Rest', broken')
    BY <1>2, <1>3, <1>5, <1>9
  <2>. QED  BY <2>1, NextStream
<1>11. /\ written' \in Seq(Frames) /\ Len(written') = Len(written) + 1
       /\ \A i \in 1 .. Len(written) : written'[i] = written[i]
  BY <1>2, LengthFacts
<1>12. HeaderInv'
  <2>1. ASSUME header # Nil
        PROVE  /\ r + 1 \in 1 .. Len(written')
               /\ header = HeaderOf(written'[r + 1])
    <3>1. r + 1 \in 1 .. Len(written) /\ header = HeaderOf(written[r + 1])
      BY <2>1 DEF ConnInv, HeaderInv
    <3>2. r + 1 \in 1 .. Len(written')
      BY <1>11, <3>1, LengthFacts
    <3>. QED  BY <1>11, <3>1, <3>2
  <2>. QED  BY <1>2, <2>1 DEF HeaderInv, HeaderOf
<1>13. PrefixInv'
  <2>1. r <= Len(written')
    BY <1>11, LengthFacts
  <2>2. \A i \in 1 .. r : i \in 1 .. Len(written)
    BY LengthFacts
  <2>3. \A i \in 1 .. r : read[i] = written'[i]
    BY <1>11, <2>2 DEF ConnInv, PrefixInv
  <2>. QED  BY <1>2, <2>1, <2>3 DEF PrefixInv
<1>. QED  BY <1>2, <1>10, <1>11, <1>12, <1>13, LengthFacts DEF StreamPart

\* Steps that move bytes within the stream.
LEMMA MovesKeep ==
  ASSUME ConnInv,
         UNCHANGED <<header, written, read>>,
         NEW got \in Seq(Byte), NEW sent \in Seq(Byte), NEW left, NEW cut,
         buffer' = got, pipe' = sent, Rest' = left, broken' = cut,
         NEW stream, NEW off, Layout(written, stream, off),
         Follow(stream, PositionWhere(off, Len(read), header), got, sent, left, cut)
  PROVE  StreamPart'
<1>1. StreamInv'
  <2>1. written' = written /\ read' = read /\ header' = header
    OBVIOUS
  <2>2. /\ Layout(written', stream, off)
        /\ Follow(stream, PositionWhere(off, Len(read'), header'), buffer', pipe', Rest', broken')
    BY <2>1
  <2>. QED  BY <2>2, NextStream
<1>2. HeaderInv' /\ PrefixInv'
  BY DEF ConnInv, HeaderInv, HeaderOf, PrefixInv
<1>. QED  BY <1>1, <1>2, LengthFacts DEF StreamPart

\* The stream takes bytes of the Write under way.
LEMMA HandsKeeps ==
  ASSUME ConnInv, NEW n \in 0 .. Len(Rest), Hands(n)
  PROVE  StreamPart'
<1>1. PICK stream, off :
        /\ Layout(written, stream, off)
        /\ stream \in Seq(Byte)
        /\ PositionWhere(off, Len(read), header) \in Nat
        /\ Follow(stream, PositionWhere(off, Len(read), header), buffer, pipe, Rest, broken)
  BY ThisStream
<1>. DEFINE p == PositionWhere(off, Len(read), header)
            rest == Rest
            a == SubSeq(rest, 1, n)
            b == SubSeq(rest, n + 1, Len(rest))
            s == pipe \o a
            k == p + Len(buffer)
            l == k + Len(pipe)
<1>2. /\ Lies(stream, buffer, p) /\ Lies(stream, pipe, k) /\ Lies(stream, rest, l)
      /\ p \in Nat /\ k \in Nat /\ l \in Nat /\ rest \in Seq(Byte) /\ n \in 0 .. Len(rest)
      /\ ~broken => l + Len(rest) = Len(stream)
  BY <1>1, LengthFacts DEF Follow
<1>. HIDE DEF p, k, l, rest
<1>3. /\ a \in Seq(Byte) /\ Len(a) = n /\ Lies(stream, a, l)
      /\ b \in Seq(Byte) /\ Len(b) = Len(rest) - n /\ Lies(stream, b, l + n)
  BY <1>1, <1>2, LiesCut
<1>. HIDE DEF a, b
<1>4. s \in Seq(Byte) /\ Len(s) = Len(pipe) + n
  <2>1. pipe \in Seq(Byte) /\ a \in Seq(Byte) /\ Len(a) = n
    BY <1>3, LengthFacts
  <2>. QED  BY <2>1, JoinedFacts
<1>5. Lies(stream, s, k)
  <2>1. Lies(stream, a, k + Len(pipe)) /\ pipe \in Seq(Byte)
    BY <1>3, LengthFacts DEF l
  <2>. HIDE DEF s
  <2>2. Lies(stream, pipe \o a, k)
    BY <1>1, <1>2, <1>3, <2>1, LiesJoined
  <2>. QED  BY <2>2 DEF s
<1>. HIDE DEF s
<1>6. k + Len(s) = l + n /\ (~broken => (l + n) + Len(b) = Len(stream))
  <2>1. Len(pipe) \in Nat /\ n \in Nat /\ Len(rest) \in Nat
    BY <1>2, LengthFacts
  <2>2. k + Len(s) = l + n
    BY <1>2, <1>4, <2>1 DEF l
  <2>3. (l + n) + Len(b) = l + Len(rest)
    BY <1>2, <1>3, <2>1
  <2>. QED  BY <1>2, <2>2, <2>3
<1>7. Follow(stream, p, buffer, s, b, broken)
  BY <1>2, <1>3, <1>5, <1>6 DEF Follow, k
<1>8. /\ buffer' = buffer /\ pipe' = s /\ Rest' = b /\ broken' = broken
      /\ UNCHANGED <<header, written, read>>
  BY DEF Hands, s, a, b, rest
<1>9. buffer \in Seq(Byte)
  BY LengthFacts
<1>. QED  BY <1>1, <1>4, <1>7, <1>8, <1>9, MovesKeep DEF p

\* The end of what is on its way is lost.
LEMMA BreaksKeeps ==
  ASSUME ConnInv, NEW n \in 0 .. Len(pipe), Breaks(n)
  PROVE  StreamPart'
<1>1. PICK stream, off :
        /\ Layout(written, stream, off)
        /\ stream \in Seq(Byte)
        /\ PositionWhere(off, Len(read), header) \in Nat
        /\ Follow(stream, PositionWhere(off, Len(read), header), buffer, pipe, Rest, broken)
  BY ThisStream
<1>. DEFINE p == PositionWhere(off, Len(read), header)
            k == p + Len(buffer)
            a == SubSeq(pipe, 1, n)
            none == << >>
<1>2. /\ Lies(stream, buffer, p) /\ Lies(stream, pipe, k)
      /\ p \in Nat /\ k \in Nat /\ pipe \in Seq(Byte)
  BY <1>1, LengthFacts DEF Follow
<1>. HIDE DEF p, k
<1>3. a \in Seq(Byte) /\ Len(a) = n /\ Lies(stream, a, k)
  BY <1>1, <1>2, LiesCut
<1>. HIDE DEF a
<1>4. Lies(stream, none, k + Len(a))
  <2>1. n \in Nat /\ k + n <= Len(stream) /\ Len(none) = 0
    BY <1>2, <1>3, LengthFacts DEF Lies
  <2>2. \A j \in 1 .. 0 : FALSE
    OBVIOUS
  <2>. HIDE DEF none
  <2>. QED  BY <1>2, <1>3, <2>1, <2>2 DEF Lies
<1>5. Follow(stream, p, buffer, a, none, TRUE)
  BY <1>2, <1>3, <1>4 DEF Follow, k
<1>6. /\ buffer' = buffer /\ pipe' = a /\ Rest' = none /\ broken' = TRUE
      /\ UNCHANGED <<header, written, read>>
  BY DEF Breaks, a
<1>7. buffer \in Seq(Byte)
  BY LengthFacts
<1>. HIDE DEF none
<1>. QED  BY <1>1, <1>3, <1>5, <1>6, <1>7, MovesKeep DEF p

\* io.ReadFull gets a piece.
LEMMA GetsKeeps ==
  ASSUME ConnInv, NEW n \in 0 .. Len(pipe), Gets(n)
  PROVE  StreamPart'
<1>1. PICK stream, off :
        /\ Layout(written, stream, off)
        /\ stream \in Seq(Byte)
        /\ PositionWhere(off, Len(read), header) \in Nat
        /\ Follow(stream, PositionWhere(off, Len(read), header), buffer, pipe, Rest, broken)
  BY ThisStream
<1>. DEFINE p == PositionWhere(off, Len(read), header)
            a == SubSeq(pipe, 1, n)
            b == SubSeq(pipe, n + 1, Len(pipe))
            s == buffer \o a
            k == p + Len(buffer)
            l == k + Len(pipe)
            rest == Rest
<1>2. /\ Lies(stream, buffer, p) /\ Lies(stream, pipe, k) /\ Lies(stream, rest, l)
      /\ p \in Nat /\ k \in Nat /\ l \in Nat /\ rest \in Seq(Byte)
      /\ ~broken => l + Len(rest) = Len(stream)
  BY <1>1, LengthFacts DEF Follow
<1>. HIDE DEF p, k, l, rest
<1>3. /\ a \in Seq(Byte) /\ Len(a) = n /\ Lies(stream, a, k)
      /\ b \in Seq(Byte) /\ Len(b) = Len(pipe) - n /\ Lies(stream, b, k + n)
  BY <1>1, <1>2, LengthFacts, LiesCut
<1>. HIDE DEF a, b
<1>4. s \in Seq(Byte) /\ Len(s) = Len(buffer) + n
  <2>1. buffer \in Seq(Byte) /\ a \in Seq(Byte) /\ Len(a) = n
    BY <1>3, LengthFacts
  <2>. QED  BY <2>1, JoinedFacts
<1>5. Lies(stream, s, p)
  <2>1. Lies(stream, a, p + Len(buffer)) /\ buffer \in Seq(Byte)
    BY <1>3, LengthFacts DEF k
  <2>. HIDE DEF s
  <2>2. Lies(stream, buffer \o a, p)
    BY <1>1, <1>2, <1>3, <2>1, LiesJoined
  <2>. QED  BY <2>2 DEF s
<1>. HIDE DEF s
<1>6. p + Len(s) = k + n /\ (k + n) + Len(b) = l
  <2>1. Len(pipe) \in Nat /\ n \in Nat /\ Len(buffer) \in Nat
    BY LengthFacts
  <2>. QED  BY <1>2, <1>3, <1>4, <2>1 DEF l, k
<1>7. Follow(stream, p, s, b, rest, broken)
  BY <1>2, <1>3, <1>5, <1>6 DEF Follow
<1>8. /\ buffer' = s /\ pipe' = b /\ Rest' = rest /\ broken' = broken
      /\ UNCHANGED <<header, written, read>>
  BY DEF Gets, s, a, b, rest
<1>. QED  BY <1>1, <1>3, <1>4, <1>7, <1>8, MovesKeep DEF p

\* A whole header or payload is taken out of the reader's buffer.
LEMMA Consumed ==
  ASSUME NEW stream \in Seq(Byte), NEW p \in Nat, NEW got \in Seq(Byte),
         NEW sent \in Seq(Byte), NEW left \in Seq(Byte), NEW cut,
         Follow(stream, p, got, sent, left, cut)
  PROVE  Follow(stream, p + Len(got), << >>, sent, left, cut)
<1>. DEFINE none == << >>
            q == p + Len(got)
<1>1. /\ q \in Nat /\ Len(none) = 0 /\ q <= Len(stream) /\ q + Len(none) = q
      /\ Len(got) \in Nat /\ Len(sent) \in Nat /\ Len(left) \in Nat
  BY DEF Follow, Lies
<1>2. /\ Lies(stream, sent, q) /\ Lies(stream, left, q + Len(sent))
      /\ ~cut => q + Len(sent) + Len(left) = Len(stream)
  BY DEF Follow
<1>. HIDE DEF none, q
<1>3. \A j \in 1 .. 0 : FALSE
  OBVIOUS
<1>4. Lies(stream, none, q)
  BY <1>1, <1>3 DEF Lies
<1>5. Follow(stream, q, none, sent, left, cut)
  BY <1>1, <1>2, <1>4 DEF Follow
<1>. QED  BY <1>5 DEF none, q

\* Where the next frame is.
LEMMA NextFrame ==
  ASSUME NEW ws \in Seq(Frames), NEW stream, NEW off, Layout(ws, stream, off),
         NEW r \in Nat, r + 1 \in 1 .. Len(ws)
  PROVE  /\ ws[r + 1] \in Frames
         /\ off[r] \in Nat
         /\ off[r + 1] = off[r] + Len(FrameEncode(ws[r + 1]))
         /\ Lies(stream, FrameEncode(ws[r + 1]), off[r])
<1>1. ws[r + 1] \in Frames
  OBVIOUS
<1>2. (r + 1) - 1 = r /\ r \in 0 .. Len(ws)
  OBVIOUS
<1>3. /\ off[r + 1] = off[(r + 1) - 1] + Len(FrameEncode(ws[r + 1]))
      /\ Lies(stream, FrameEncode(ws[r + 1]), off[(r + 1) - 1])
  BY DEF Layout
<1>4. off[r] \in Nat
  BY <1>2 DEF Layout
<1>. QED  BY <1>1, <1>2, <1>3, <1>4

\* A whole header is that of the next frame, of which there must be one: the
\* stream ends where the last frame ends.
LEMMA HeaderKeeps ==
  ASSUME ConnInv, HasHeader
  PROVE  StreamPart'
<1>. DEFINE r == Len(read)
            f == written[r + 1]
            e == FrameEncode(f)
            rest == Rest
<1>1. PICK stream, off :
        /\ Layout(written, stream, off)
        /\ stream \in Seq(Byte) /\ off \in [0 .. Len(written) -> Nat]
        /\ PositionWhere(off, r, header) \in Nat
        /\ Follow(stream, PositionWhere(off, r, header), buffer, pipe, rest, broken)
  BY ThisStream
<1>2. /\ header = Nil /\ Len(buffer) = HeaderLen /\ header' = ReadHeader(buffer)
      /\ buffer' = << >> /\ Rest' = rest /\ pipe' = pipe /\ written' = written
      /\ read' = read /\ broken' = broken
  BY DEF HasHeader
<1>. HIDE DEF rest
<1>3. r \in 0 .. Len(written) /\ off[r] \in Nat /\ PositionWhere(off, r, header) = off[r]
  <2>1. r \in 0 .. Len(written)
    BY LengthFacts
  <2>2. off[r] \in Nat
    BY <1>1, <2>1
  <2>. QED  BY <1>2, <2>1, <2>2 DEF PositionWhere
<1>4. Follow(stream, off[r], buffer, pipe, rest, broken)
  BY <1>1, <1>3
<1>5. r + 1 \in 1 .. Len(written) /\ r \in Nat
  <2>1. off[r] + HeaderLen <= Len(stream) /\ Len(stream) \in Nat
    BY <1>1, <1>2, <1>4 DEF Follow, Lies
  <2>2. off[Len(written)] = Len(stream)
    BY <1>1 DEF Layout
  <2>3. r # Len(written)
    BY <1>3, <2>1, <2>2, LengthFacts
  <2>. QED  BY <1>3, <2>3, LengthFacts
<1>6. f \in Frames /\ Lies(stream, e, off[r])
  BY <1>1, <1>5, LengthFacts, NextFrame
<1>7. ReadHeader(buffer) = HeaderOf(f)
  <2>1. e \in Seq(Byte) /\ Len(e) = HeaderLen + Len(f.Payload) /\ Len(f.Payload) \in Nat
    BY <1>6, EncodeFacts, FramingAssumption
  <2>. HIDE DEF e, f, r
  <2>2. \A j \in 1 .. HeaderLen : j \in 1 .. Len(e) /\ j \in 1 .. Len(buffer)
    BY <1>2, <2>1, LengthFacts
  <2>3. \A j \in 1 .. HeaderLen : buffer[j] = e[j]
    BY <1>4, <1>6, <2>2 DEF Follow, Lies
  <2>4. buffer \in Seq(Byte)
    BY LengthFacts
  <2>. QED  BY <1>2, <1>6, <2>3, <2>4, HeaderRead DEF e
<1>8. header' = HeaderOf(f) /\ header' # Nil
  BY <1>2, <1>6, <1>7, HeaderNotNil
<1>9. PositionWhere(off, Len(read'), header') = off[r] + Len(buffer)
  BY <1>2, <1>8 DEF PositionWhere
<1>10. Follow(stream, off[r] + Len(buffer), << >>, pipe, rest, broken)
  <2>1. buffer \in Seq(Byte) /\ pipe \in Seq(Byte) /\ rest \in Seq(Byte)
    BY LengthFacts DEF rest
  <2>. HIDE DEF r
  <2>. QED  BY <1>1, <1>3, <1>4, <2>1, Consumed
<1>11. StreamInv'
  <2>1. /\ Layout(written', stream, off)
        /\ Follow(stream, PositionWhere(off, Len(read'), header'), buffer', pipe', Rest', broken')
    BY <1>1, <1>2, <1>9, <1>10
  <2>. QED  BY <2>1, NextStream
<1>12. HeaderInv'
  BY <1>2, <1>5, <1>8 DEF HeaderInv, HeaderOf
<1>13. PrefixInv'
  BY <1>2 DEF ConnInv, PrefixInv
<1>14. buffer' \in Seq(Byte)
  BY <1>2
<1>. QED  BY <1>2, <1>11, <1>12, <1>13, <1>14, LengthFacts DEF StreamPart

\* A whole payload completes the next frame.
LEMMA PayloadKeeps ==
  ASSUME ConnInv, HasPayload
  PROVE  StreamPart' /\ read' = Append(read, written[Len(read) + 1])
<1>. DEFINE r == Len(read)
            f == written[r + 1]
            e == FrameEncode(f)
            rest == Rest
<1>1. PICK stream, off :
        /\ Layout(written, stream, off)
        /\ stream \in Seq(Byte) /\ off \in [0 .. Len(written) -> Nat]
        /\ PositionWhere(off, r, header) \in Nat
        /\ Follow(stream, PositionWhere(off, r, header), buffer, pipe, rest, broken)
  BY ThisStream
<1>2. /\ header # Nil /\ Len(buffer) = header.len
      /\ read' = Append(read, [Version |-> header.Version, MsgType |-> header.MsgType,
                               Flags |-> header.Flags, Payload |-> buffer])
      /\ header' = Nil
      /\ buffer' = << >> /\ Rest' = rest /\ pipe' = pipe /\ written' = written
      /\ broken' = broken
  BY DEF HasPayload
<1>. HIDE DEF rest
<1>3. r + 1 \in 1 .. Len(written) /\ r \in Nat /\ header = HeaderOf(f)
  BY <1>2, LengthFacts DEF ConnInv, HeaderInv
<1>4. /\ f \in Frames /\ Lies(stream, e, off[r]) /\ off[r] \in Nat
      /\ off[r + 1] = off[r] + Len(e)
  BY <1>1, <1>3, LengthFacts, NextFrame
<1>5. /\ e \in Seq(Byte) /\ Len(e) = HeaderLen + Len(f.Payload)
      /\ \A j \in 1 .. Len(f.Payload) : e[HeaderLen + j] = f.Payload[j]
      /\ f.Payload \in Seq(Byte) /\ Len(f.Payload) \in Nat
      /\ f = [Version |-> f.Version, MsgType |-> f.MsgType, Flags |-> f.Flags,
              Payload |-> f.Payload]
  BY <1>4, EncodeFacts, FramingAssumption
<1>6. Len(buffer) = Len(f.Payload)
  BY <1>2, <1>3, <1>4, HeaderNotNil
<1>. DEFINE o == off[r]
            h == HeaderLen
            p == o + h
<1>7. PositionWhere(off, r, header) = p /\ p \in Nat /\ o \in Nat /\ h \in Nat
  BY <1>2, <1>4, LengthFacts DEF PositionWhere
<1>8. Follow(stream, p, buffer, pipe, rest, broken)
  BY <1>1, <1>7
<1>9. buffer = f.Payload
  <2>. DEFINE pay == f.Payload
  <2>1. /\ Len(pay) \in Nat /\ Len(e) = h + Len(pay) /\ Len(buffer) = Len(pay)
        /\ buffer \in Seq(Byte) /\ pay \in Seq(Byte)
        /\ \A j \in 1 .. Len(pay) : e[h + j] = pay[j]
        /\ Lies(stream, e, o) /\ Lies(stream, buffer, o + h)
    BY <1>4, <1>5, <1>6, <1>8, LengthFacts DEF Follow
  <2>. HIDE DEF pay, e, f, o, h, p, r
  <2>2. ASSUME NEW j \in 1 .. Len(pay) PROVE buffer[j] = pay[j]
    <3>1. h + j \in 1 .. Len(e) /\ o + (h + j) = (o + h) + j /\ j \in 1 .. Len(buffer)
      BY <1>7, <2>1
    <3>2. e[h + j] = stream[o + (h + j)] /\ buffer[j] = stream[(o + h) + j]
      BY <2>1, <3>1 DEF Lies
    <3>. QED  BY <2>1, <3>1, <3>2
  <2>3. buffer = pay
    BY <2>1, <2>2
  <2>. QED  BY <2>3 DEF pay
<1>10. /\ header.Version = f.Version /\ header.MsgType = f.MsgType /\ header.Flags = f.Flags
  BY <1>3 DEF HeaderOf
<1>11. read' = Append(read, f)
  BY <1>2, <1>5, <1>9, <1>10
<1>12. /\ read' \in Seq(Frames) /\ Len(read') = r + 1
       /\ \A i \in 1 .. r : read'[i] = read[i]
       /\ read'[r + 1] = f
  BY <1>4, <1>11, LengthFacts
<1>13. off[r + 1] = p + Len(buffer)
  BY <1>4, <1>5, <1>6, <1>7
<1>14. PositionWhere(off, Len(read'), header') = p + Len(buffer)
  <2>1. off[r + 1] \in Nat
    BY <1>1, <1>3
  <2>. QED  BY <1>2, <1>12, <1>13, <2>1 DEF PositionWhere
<1>15. Follow(stream, p + Len(buffer), << >>, pipe, rest, broken)
  <2>1. buffer \in Seq(Byte) /\ pipe \in Seq(Byte) /\ rest \in Seq(Byte)
    BY LengthFacts DEF rest
  <2>. HIDE DEF p
  <2>. QED  BY <1>1, <1>7, <1>8, <2>1, Consumed
<1>16. StreamInv'
  <2>1. /\ Layout(written', stream, off)
        /\ Follow(stream, PositionWhere(off, Len(read'), header'), buffer', pipe', Rest', broken')
    BY <1>1, <1>2, <1>14, <1>15
  <2>. QED  BY <2>1, NextStream
<1>17. HeaderInv'
  BY <1>2 DEF HeaderInv
<1>18. PrefixInv'
  <2>1. Len(read') <= Len(written)
    BY <1>3, <1>12, LengthFacts
  <2>2. ASSUME NEW i \in 1 .. Len(read') PROVE read'[i] = written[i]
    <3>1. CASE i = r + 1
      BY <1>12, <3>1
    <3>2. CASE i # r + 1
      <4>1. i \in 1 .. r
        BY <1>3, <1>12, <3>2
      <4>. QED  BY <1>12, <4>1 DEF ConnInv, PrefixInv
    <3>. QED  BY <3>1, <3>2
  <2>. QED  BY <1>2, <2>1, <2>2 DEF PrefixInv
<1>19. buffer' \in Seq(Byte)
  BY <1>2
<1>. QED  BY <1>2, <1>11, <1>12, <1>16, <1>17, <1>18, <1>19, LengthFacts DEF StreamPart

\* The writers' part of the invariant.
WritersPart ==
  /\ calls \in [Writers -> Seq(Seq(Byte))]
  /\ fresh \in [Writers -> Frames \cup {Nil}]
  /\ holder \in Writers \cup {Nil}
  /\ broken \in BOOLEAN
  /\ WritersInv

\* What the invariant says of the types of the writers.
LEMMA WriterFacts ==
  ASSUME ConnInv
  PROVE  /\ calls \in [Writers -> Seq(Seq(Byte))]
         /\ fresh \in [Writers -> Frames \cup {Nil}]
         /\ holder \in Writers \cup {Nil}
         /\ Nil \notin Writers /\ Nil \notin Frames
BY FramingAssumption DEF ConnInv, StreamTypes

\* writeFrame hands over the encoded frame in one buffer.
LEMMA writeFrameKeeps ==
  ASSUME ConnInv, NEW w \in Writers, NEW f \in Frames, writeFrame(w, f)
  PROVE  WritersPart'
<1>. DEFINE e == FrameEncode(f)
            c == <<e>>
<1>1. holder # w
  <2>1. CASE holder = w
    <3>1. Len(calls[w]) = 1 /\ calls[w] = << >>
      BY <2>1 DEF ConnInv, WritersInv, WriterInv, writeFrame
    <3>. QED  BY <3>1
  <2>. QED  BY <2>1
<1>2. /\ ~broken /\ calls' = [calls EXCEPT ![w] = c] /\ fresh' = [fresh EXCEPT ![w] = f]
      /\ holder' = holder /\ broken' = broken
  BY DEF writeFrame, Buffers
<1>3. c \in Seq(Seq(Byte))
  <2>1. e \in Seq(Byte)
    BY EncodeFacts
  <2>. HIDE DEF e
  <2>. QED  BY <2>1
<1>4. /\ calls'[w] = <<FrameEncode(f)>> /\ fresh'[w] = f
      /\ \A x \in Writers : x # w => calls'[x] = calls[x] /\ fresh'[x] = fresh[x]
  BY <1>2, WriterFacts
<1>. HIDE DEF c, e
<1>5. calls' \in [Writers -> Seq(Seq(Byte))] /\ fresh' \in [Writers -> Frames \cup {Nil}]
  BY <1>2, <1>3, WriterFacts
<1>6. ASSUME NEW x \in Writers PROVE WriterInv(x)'
  <2>1. CASE x = w
    BY <1>1, <1>2, <1>4, <2>1 DEF WriterInv
  <2>2. CASE x # w
    <3>1. WriterInv(x)
      BY DEF ConnInv, WritersInv
    <3>2. calls'[x] = calls[x] /\ fresh'[x] = fresh[x]
      BY <1>4, <2>2
    <3>. QED  BY <1>2, <3>1, <3>2 DEF WriterInv
  <2>. QED  BY <2>1, <2>2
<1>7. WritersInv'
  BY <1>6 DEF WritersInv
<1>. QED  BY <1>2, <1>5, <1>7 DEF WritersPart, ConnInv, StreamTypes

\* Nobody else writes while a Write is under way.
LEMMA StartWriteKeeps ==
  ASSUME ConnInv, NEW w \in Writers, StartWrite(w)
  PROVE  WritersPart'
<1>1. /\ holder = Nil /\ holder' = w /\ calls' = calls /\ fresh' = [fresh EXCEPT ![w] = Nil]
      /\ broken' = broken /\ calls[w] # << >>
  BY DEF StartWrite
<1>2. ~broken /\ calls[w] = <<FrameEncode(fresh[w])>>
  BY <1>1, WriterFacts DEF ConnInv, WritersInv, WriterInv
<1>3. Len(calls'[w]) = 1
  <2>. DEFINE e == FrameEncode(fresh[w])
  <2>1. calls'[w] = <<e>>
    BY <1>1, <1>2
  <2>. HIDE DEF e
  <2>. QED  BY <2>1
<1>4. /\ fresh'[w] = Nil /\ fresh' \in [Writers -> Frames \cup {Nil}]
      /\ \A x \in Writers : x # w => fresh'[x] = fresh[x]
  BY <1>1, WriterFacts
<1>5. ASSUME NEW x \in Writers PROVE WriterInv(x)'
  <2>1. CASE x = w
    BY <1>1, <1>2, <1>3, <1>4, <2>1 DEF WriterInv
  <2>2. CASE x # w
    <3>1. WriterInv(x)
      BY DEF ConnInv, WritersInv
    <3>2. calls'[x] = calls[x] /\ fresh'[x] = fresh[x] /\ holder # x /\ holder' # x
      BY <1>1, <1>4, <2>2, WriterFacts
    <3>. QED  BY <1>1, <3>1, <3>2 DEF WriterInv
  <2>. QED  BY <2>1, <2>2
<1>6. WritersInv'
  BY <1>5 DEF WritersInv
<1>. QED  BY <1>1, <1>4, <1>6, WriterFacts DEF WritersPart, ConnInv, StreamTypes

\* A Write ends with its last byte.
LEMMA WriteSomeKeeps ==
  ASSUME ConnInv, NEW w \in Writers, NEW n \in Nat, WriteSome(w, n)
  PROVE  WritersPart'
<1>. DEFINE c == calls[w][1]
            rest == SubSeq(c, n + 1, Len(c))
            q == IF rest = << >> THEN << >> ELSE <<rest>>
<1>1. /\ holder = w /\ ~broken /\ n <= Len(c)
      /\ calls' = [calls EXCEPT ![w] = IF rest = << >> THEN Tail(calls[w]) ELSE <<rest>> \o Tail(calls[w])]
      /\ holder' = IF rest = << >> THEN Nil ELSE w
      /\ fresh' = fresh /\ broken' = broken
  BY DEF WriteSome
<1>2. calls[w] = <<c>> /\ c \in Seq(Byte)
  <2>1. Rest = calls[w][1] /\ calls[w] = <<calls[w][1]>> /\ Rest \in Seq(Byte)
    BY <1>1, RestFacts
  <2>. QED  BY <2>1
<1>3. fresh[w] = Nil
  BY <1>1 DEF ConnInv, WritersInv, WriterInv
<1>. HIDE DEF c
<1>4. rest \in Seq(Byte)
  BY <1>1, <1>2
<1>. HIDE DEF rest
<1>5. /\ rest = << >> => calls'[w] = << >>
      /\ rest # << >> => calls'[w] = <<rest>>
      /\ \A x \in Writers : x # w => calls'[x] = calls[x]
      /\ calls' = [calls EXCEPT ![w] = q]
  <2>1. Tail(<<c>>) = << >> /\ <<rest>> \o << >> = <<rest>>
    OBVIOUS
  <2>2. calls' = [calls EXCEPT ![w] = q]
    BY <1>1, <1>2, <2>1
  <2>. QED  BY <2>2, WriterFacts
<1>6. calls' \in [Writers -> Seq(Seq(Byte))]
  <2>1. q \in Seq(Seq(Byte))
    BY <1>4
  <2>. HIDE DEF q
  <2>. QED  BY <1>5, <2>1, WriterFacts
<1>7. ASSUME NEW x \in Writers PROVE WriterInv(x)'
  <2>1. CASE x = w /\ rest = << >>
    <3>1. holder' = Nil /\ x # Nil
      BY <1>1, <2>1, WriterFacts
    <3>. QED  BY <1>1, <1>3, <1>5, <2>1, <3>1 DEF WriterInv
  <2>2. CASE x = w /\ rest # << >>
    <3>1. holder' = w
      BY <1>1, <2>2
    <3>2. Len(calls'[w]) = 1
      BY <1>5, <2>2
    <3>. QED  BY <1>1, <1>3, <2>2, <3>1, <3>2 DEF WriterInv
  <2>3. CASE x # w
    <3>1. WriterInv(x)
      BY DEF ConnInv, WritersInv
    <3>2. calls'[x] = calls[x] /\ fresh'[x] = fresh[x] /\ holder # x /\ holder' # x
      BY <1>1, <1>5, <2>3, WriterFacts
    <3>. QED  BY <1>1, <3>1, <3>2 DEF WriterInv
  <2>. QED  BY <2>1, <2>2, <2>3
<1>8. WritersInv'
  BY <1>7 DEF WritersInv
<1>9. holder' \in Writers \cup {Nil}
  BY <1>1
<1>. QED  BY <1>1, <1>6, <1>8, <1>9, WriterFacts DEF WritersPart, ConnInv, StreamTypes

\* Every Write fails.
LEMMA BreakKeeps ==
  ASSUME ConnInv, Break
  PROVE  WritersPart'
<1>1. /\ calls' = [w \in Writers |-> << >>] /\ fresh' = [w \in Writers |-> Nil]
      /\ holder' = Nil /\ broken' = TRUE
  BY DEF Break
<1>2. << >> \in Seq(Seq(Byte))
  OBVIOUS
<1>3. ASSUME NEW x \in Writers PROVE WriterInv(x)'
  BY <1>1, WriterFacts DEF WriterInv
<1>4. WritersInv'
  BY <1>3 DEF WritersInv
<1>. QED  BY <1>1, <1>2, <1>4 DEF WritersPart

\* The reader leaves the writers alone.
LEMMA OthersKeep ==
  ASSUME ConnInv, UNCHANGED <<calls, fresh, holder, broken>>
  PROVE  WritersPart'
<1>1. WritersPart
  BY WriterFacts DEF WritersPart, ConnInv, StreamTypes
<1>. QED  BY <1>1 DEF WritersPart, WritersInv, WriterInv

\* Every step keeps the part of the writers.
LEMMA EveryWritersStep == ConnInv /\ [StreamNext]_streamVars => WritersPart'
<1>. SUFFICES ASSUME ConnInv, [StreamNext]_streamVars PROVE WritersPart'
  OBVIOUS
<1>1. ASSUME NEW w \in Writers, NEW n \in 1 .. HeaderLen + MaxFramePayload, WriteSome(w, n)
      PROVE  WritersPart'
  <2>1. n \in Nat
    OBVIOUS
  <2>. QED  BY <1>1, <2>1, WriteSomeKeeps
<1>2. ASSUME Reading PROVE WritersPart'
  <2>1. UNCHANGED <<calls, fresh, holder, broken>>
    BY <1>2 DEF Reading, ReadSome, GotHeader, GotPayload, ReadFails
  <2>. QED  BY <2>1, OthersKeep
<1>3. CASE UNCHANGED streamVars
  BY <1>3, OthersKeep DEF streamVars
<1>. QED  BY <1>1, <1>2, <1>3, writeFrameKeeps, StartWriteKeeps, BreakKeeps DEF StreamNext

\* The invariant of the connection is inductive.
LEMMA ConnStep == ConnInv /\ [StreamNext]_streamVars => ConnInv'
<1>. SUFFICES ASSUME ConnInv, [StreamNext]_streamVars PROVE ConnInv'
  OBVIOUS
<1>1. StreamPart'
  BY EveryStreamStep, SameKeeps, BeginsKeeps, HandsKeeps, BreaksKeeps, GetsKeeps, HeaderKeeps,
     PayloadKeeps DEF StreamStep
<1>2. WritersPart'
  BY EveryWritersStep
<1>. QED  BY <1>1, <1>2 DEF ConnInv, StreamTypes, StreamPart, WritersPart

\* At first the stream is empty.
LEMMA ConnInit == StreamInit => ConnInv
<1>. SUFFICES ASSUME StreamInit PROVE ConnInv
  OBVIOUS
<1>. DEFINE none == << >>
            off == [k \in 0 .. 0 |-> 0]
<1>1. /\ calls = [w \in Writers |-> none] /\ fresh = [w \in Writers |-> Nil] /\ holder = Nil
      /\ pipe = none /\ broken = FALSE /\ buffer = none /\ header = Nil
      /\ written = none /\ read = none
  BY DEF StreamInit
<1>2. /\ none \in Seq(Byte) /\ none \in Seq(Frames) /\ none \in Seq(Seq(Byte)) /\ Len(none) = 0
  OBVIOUS
<1>3. \A j \in 1 .. 0 : FALSE
  OBVIOUS
<1>4. off \in [0 .. 0 -> Nat] /\ off[0] = 0
  OBVIOUS
<1>5. Rest = none
  BY <1>1 DEF Rest
<1>6. \A w \in Writers : holder # w /\ fresh[w] = Nil /\ calls[w] = << >>
  BY <1>1, FramingAssumption
<1>. HIDE DEF none, off
<1>7. StreamTypes
  BY <1>1, <1>2 DEF StreamTypes
<1>8. WritersInv
  BY <1>6 DEF WritersInv, WriterInv
<1>9. HeaderInv /\ PrefixInv
  BY <1>1, <1>2, <1>3 DEF HeaderInv, PrefixInv
<1>10. Layout(none, none, off)
  BY <1>2, <1>3, <1>4 DEF Layout
<1>11. Follow(none, 0, none, none, none, FALSE)
  BY <1>2, <1>3 DEF Follow, Lies
<1>12. Position(off) = 0
  BY <1>1, <1>2, <1>4 DEF Position
<1>13. StreamInv
  BY <1>1, <1>5, <1>10, <1>11, <1>12 DEF StreamInv
<1>. QED  BY <1>7, <1>8, <1>9, <1>13 DEF ConnInv

\* The invariant implies the property.
LEMMA ConnReads == ConnInv => ReadAsWritten
<1>. SUFFICES ASSUME ConnInv PROVE ReadAsWritten
  OBVIOUS
<1>. DEFINE s == SubSeq(read, 1, Len(read))
            t == SubSeq(written, 1, Len(read))
<1>1. /\ Len(read) <= Len(written) /\ \A i \in 1 .. Len(read) : read[i] = written[i]
      /\ read \in Seq(Frames) /\ written \in Seq(Frames)
      /\ Len(read) \in Nat /\ Len(written) \in Nat
  BY LengthFacts DEF ConnInv, PrefixInv
<1>2. /\ s \in Seq(Frames) /\ Len(s) = Len(read) /\ \A i \in 1 .. Len(read) : s[i] = read[i]
      /\ t \in Seq(Frames) /\ Len(t) = Len(read) /\ \A i \in 1 .. Len(read) : t[i] = written[i]
  BY <1>1
<1>. HIDE DEF s, t
<1>3. s = t
  BY <1>1, <1>2
<1>. QED  BY <1>1, <1>3 DEF ReadAsWritten, IsPrefix, s, t

\* readFrame returns the frames that were written, whole and in their order
\* (client.go:351, 378), whatever pieces the stream comes in, wherever it ends
\* and however many goroutines write.
THEOREM FramingReadAsWritten == StreamSpec => []ReadAsWritten
<1>. QED  BY ConnInit, ConnStep, ConnReads, PTL DEF StreamSpec
=============================================================================
