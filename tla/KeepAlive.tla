----------------------------- MODULE KeepAlive ------------------------------
(***************************************************************************)
(* The clocks of transport/tcp/client.go: when the client writes           *)
(* heartbeats, and when CheckTimeout says that the peer is gone.  The code *)
(* has no timer: MaybeSendHeartbeat is called only after a send and after  *)
(* a heartbeat was read, and LastSeen is moved by every record sealed or   *)
(* opened and by every heartbeat read.                                     *)
(*                                                                         *)
(* Times are kept as ages in ticks.  What the client does takes no time.   *)
(* The peer is external: while it is alive it writes a heartbeat at least  *)
(* every PeerInterval, and what it writes arrives within Delay.            *)
(***************************************************************************)
EXTENDS Naturals, Sequences

CONSTANTS
  HeartbeatInterval,  \* heartbeatInterval, 5 s
  HeartbeatTimeout,   \* heartbeatTimeout, 20 s
  PeerInterval,       \* longest time between heartbeats of a peer that lives
  Delay,              \* longest time a frame is under way
  Oldest,             \* bound: beyond this all ages look alike
  MaxFlight           \* bound: frames of the peer under way

ASSUME KeepAliveAssumption ==
  /\ {HeartbeatInterval, HeartbeatTimeout, PeerInterval, Delay, Oldest, MaxFlight} \subseteq Nat
  /\ PeerInterval + Delay < HeartbeatTimeout
  /\ Oldest >= HeartbeatTimeout + Delay
  /\ Oldest > HeartbeatInterval + PeerInterval + Delay

VARIABLES
  idle,     \* age of Session.LastSeen
  beat,     \* age of Client.LastHeartbeatSent
  place,    \* where the sender and the reader are in MaybeSendHeartbeat
  alive,    \* the peer lives
  flight,   \* frames of the peer under way: [beat, age]
  age       \* history, ages of: send, the last SendEncrypted; write, the last
            \* frame the client wrote; beats, its last three heartbeats;
            \* peer, the last frame the peer wrote; peerBeat, its last heartbeat

vars == <<idle, beat, place, alive, flight, age>>

Goroutines == {"sender", "reader"}

Init ==
  /\ idle = 0
  /\ beat \in 0 .. Oldest   \* since Dial, before the handshake
  /\ place = [g \in Goroutines |-> "out"]
  /\ alive = TRUE
  /\ flight = << >>
  /\ age = [send |-> Oldest, write |-> 0, peer |-> 0, peerBeat |-> 0,
            beats |-> <<Oldest, Oldest, Oldest>>]

-----------------------------------------------------------------------------
\* Seeded fault: the timeout is compared strictly.
IsTimedOutLate == idle > HeartbeatTimeout

\* CheckTimeout, with State.IsTimedOut, reports the timeout.
IsTimedOut == idle >= HeartbeatTimeout

Enter(g) == place[g] = "out" /\ place' = [place EXCEPT ![g] = "check"]

\* SendEncrypted: EncryptFrame touches the session, the frame is written.
SendEncrypted ==
  /\ Enter("sender")
  /\ idle' = 0
  /\ age' = [age EXCEPT !.send = 0, !.write = 0]
  /\ UNCHANGED <<beat, alive, flight>>

\* MaybeSendHeartbeat looks at the clock, and writes afterwards.
CheckBeat(g) ==
  /\ place[g] = "check"
  /\ place' = [place EXCEPT ![g] = IF beat < HeartbeatInterval THEN "out" ELSE "write"]
  /\ UNCHANGED <<idle, beat, alive, flight, age>>

\* Seeded fault: LastHeartbeatSent is not moved.
WriteBeatUnnoted(g) ==
  /\ place[g] = "write"
  /\ place' = [place EXCEPT ![g] = "out"]
  /\ age' = [age EXCEPT !.write = 0, !.beats = <<@[2], @[3], 0>>]
  /\ UNCHANGED <<idle, beat, alive, flight>>

WriteBeat(g) ==
  /\ place[g] = "write"
  /\ place' = [place EXCEPT ![g] = "out"]
  /\ beat' = 0
  /\ age' = [age EXCEPT !.write = 0, !.beats = <<@[2], @[3], 0>>]
  /\ UNCHANGED <<idle, alive, flight>>

\* Seeded fault: a heartbeat does not touch the session.
ReadHeartbeatUntouched ==
  /\ flight # << >>
  /\ Head(flight).beat
  /\ Enter("reader")
  /\ flight' = Tail(flight)
  /\ UNCHANGED <<idle, beat, alive, age>>

\* Seeded fault: a heartbeat is not answered.
ReadHeartbeatUnanswered ==
  /\ flight # << >>
  /\ Head(flight).beat
  /\ flight' = Tail(flight)
  /\ idle' = 0
  /\ UNCHANGED <<beat, place, alive, age>>

\* ReadEncrypted gets a heartbeat: HeartbeatHandler touches the session, and
\* MaybeSendHeartbeat is called.
ReadHeartbeat ==
  /\ flight # << >>
  /\ Head(flight).beat
  /\ Enter("reader")
  /\ flight' = Tail(flight)
  /\ idle' = 0
  /\ UNCHANGED <<beat, alive, age>>

\* ReadEncrypted gets a record: DecryptFrame touches the session, and no
\* heartbeat is thought of.
ReadRecord ==
  /\ flight # << >>
  /\ ~Head(flight).beat
  /\ place["reader"] = "out"
  /\ flight' = Tail(flight)
  /\ idle' = 0
  /\ UNCHANGED <<beat, place, alive, age>>

-----------------------------------------------------------------------------
PeerWrites(isBeat) ==
  /\ alive
  /\ Len(flight) < MaxFlight
  /\ flight' = Append(flight, [beat |-> isBeat, age |-> 0])
  /\ age' = [age EXCEPT !.peer = 0, !.peerBeat = IF isBeat THEN 0 ELSE @]
  /\ UNCHANGED <<idle, beat, place, alive>>

PeerDies ==
  /\ alive
  /\ alive' = FALSE
  /\ UNCHANGED <<idle, beat, place, flight, age>>

Older(n) == IF n < Oldest THEN n + 1 ELSE n

\* A tick passes, unless something is due before.
Tick ==
  /\ \A g \in Goroutines : place[g] = "out"
  /\ \A i \in DOMAIN flight : flight[i].age < Delay
  /\ alive => age.peerBeat < PeerInterval
  /\ idle' = Older(idle)
  /\ beat' = Older(beat)
  /\ flight' = [i \in DOMAIN flight |-> [flight[i] EXCEPT !.age = @ + 1]]
  /\ age' = [send |-> Older(age.send), write |-> Older(age.write), peer |-> Older(age.peer),
             peerBeat |-> Older(age.peerBeat), beats |-> [i \in 1 .. 3 |-> Older(age.beats[i])]]
  /\ UNCHANGED <<place, alive>>

Next ==
  \/ SendEncrypted
  \/ \E g \in Goroutines : CheckBeat(g) \/ WriteBeat(g)
  \/ ReadHeartbeat
  \/ ReadRecord
  \/ \E isBeat \in BOOLEAN : PeerWrites(isBeat)
  \/ PeerDies
  \/ Tick

Spec == Init /\ [][Next]_vars
-----------------------------------------------------------------------------
\* A peer that lives is never taken for gone by CheckTimeout (client.go:302),
\* whatever the client sends or does not send, as long as the longest pause
\* between its heartbeats and the longest delay together are below the timeout.
LivePeerKept == alive => ~IsTimedOut

\* A peer that has been silent for the timeout, counted from when its last
\* frame must have arrived, is noticed, provided that the client itself has
\* sent nothing for that long: EncryptFrame touches LastSeen (session.go:216),
\* so that a client that keeps sending never sees it.
SilentPeerNoticed ==
  /\ age.peer >= HeartbeatTimeout + Delay
  /\ age.send >= HeartbeatTimeout
  => IsTimedOut

\* A client that only reads, and has no timer of its own (client.go:337), is
\* never silent for longer than its interval and the longest pause in the
\* heartbeats it gets.
ClientHeard ==
  alive => age.write <= HeartbeatInterval + PeerInterval + Delay

\* Although the sender and the reader may both find a heartbeat due before
\* either has written it (client.go:291), no more than two heartbeats are
\* written within any interval.
BeatsSpaced ==
  age.beats[1] = Oldest \/ age.beats[1] - age.beats[3] >= HeartbeatInterval
=============================================================================
