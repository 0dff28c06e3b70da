--------------------------- MODULE ExampleClient ----------------------------
(***************************************************************************)
(* The program of cmd/example-client/main.go, which sends one message and  *)
(* waits for one, with the router of WithAppDefaults.  What ReadEncrypted  *)
(* does with each frame is as in Client.  The peer is external: it writes  *)
(* frames of every kind and may close the connection.                      *)
(***************************************************************************)
EXTENDS Naturals, Sequences

CONSTANTS
  Limit,      \* the limit of main in seconds, 3
  MaxFrames   \* bound: frames the peer writes

VARIABLES
  pc,        \* where main is
  elapsed,   \* time since time.After was called
  stream,    \* frames from the peer that are still to be read
  closed,    \* the connection is closed
  frame,     \* the frame ReadEncrypted returned last
  inbox,     \* the messages in the inbox
  outcome,   \* what main has printed at its end, or its panic
  written    \* history: number of frames the peer wrote

vars == <<pc, elapsed, stream, closed, frame, inbox, outcome, written>>

Kinds == {"heartbeat", "message", "malformed", "unhandled", "unopened"}

Init ==
  /\ pc = "dial"
  /\ elapsed = 0
  /\ stream = << >>
  /\ closed = FALSE
  /\ frame = "none"
  /\ inbox = << >>
  /\ outcome = "running"
  /\ written = 0

Stop(what) == pc' = "done" /\ outcome' = what

Continue(place) == pc' = place /\ UNCHANGED outcome

-----------------------------------------------------------------------------
After(place) == CASE place = "dial" -> "handshake"
                  [] place = "handshake" -> "send"
                  [] place = "send" -> "select"

\* Dial, Handshake, SendEncrypted: each may fail, and then main panics.  The
\* time limit starts after the last of them.
Connect(place) ==
  /\ pc = place
  /\ Continue(After(place)) \/ Stop("panic")
  /\ UNCHANGED <<elapsed, stream, closed, frame, inbox, written>>

\* The timer is looked at, not waited for.
Select ==
  /\ pc = "select"
  /\ IF elapsed >= Limit THEN Stop("no response") ELSE Continue("read")
  /\ UNCHANGED <<elapsed, stream, closed, frame, inbox, written>>

\* The loop of ReadEncrypted: heartbeats are taken and it reads on; for what
\* does not open it returns an error.
ReadEncrypted ==
  /\ pc = "read"
  /\ stream # << >>
  /\ stream' = Tail(stream)
  /\ CASE Head(stream) = "heartbeat" -> Continue("read") /\ UNCHANGED frame
       [] Head(stream) = "unopened"  -> Stop("read failed") /\ UNCHANGED frame
       [] OTHER -> Continue("dispatch") /\ frame' = Head(stream)
  /\ UNCHANGED <<elapsed, closed, inbox, written>>

ReadFails ==
  /\ pc = "read"
  /\ stream = << >>
  /\ closed
  /\ Stop("read failed")
  /\ UNCHANGED <<elapsed, stream, closed, frame, inbox, written>>

Dispatch ==
  /\ pc = "dispatch"
  /\ IF frame = "message"
       THEN inbox' = Append(inbox, frame) /\ Continue("pop")
       ELSE Stop("dispatch error") /\ UNCHANGED inbox
  /\ UNCHANGED <<elapsed, stream, closed, frame, written>>

Pop ==
  /\ pc = "pop"
  /\ IF inbox # << >>
       THEN Stop("received") /\ inbox' = Tail(inbox)
       ELSE Continue("select") /\ UNCHANGED inbox
  /\ UNCHANGED <<elapsed, stream, closed, frame, written>>

-----------------------------------------------------------------------------
PeerWrites(kind) ==
  /\ ~closed
  /\ pc \in {"send", "select", "read", "dispatch", "pop"}
  /\ written < MaxFrames
  /\ written' = written + 1
  /\ stream' = Append(stream, kind)
  /\ UNCHANGED <<pc, elapsed, closed, frame, inbox, outcome>>

\* The connection fails or the peer closes it; the end of the stream is lost.
PeerCloses ==
  /\ ~closed
  /\ closed' = TRUE
  /\ \E n \in 0 .. Len(stream) : stream' = SubSeq(stream, 1, n)
  /\ UNCHANGED <<pc, elapsed, frame, inbox, outcome, written>>

Tick ==
  /\ pc \in {"select", "read", "dispatch", "pop"}
  /\ elapsed < Limit
  /\ elapsed' = elapsed + 1
  /\ UNCHANGED <<pc, stream, closed, frame, inbox, outcome, written>>

Main ==
  \/ \E place \in {"dial", "handshake", "send"} : Connect(place)
  \/ Select
  \/ ReadEncrypted
  \/ ReadFails
  \/ Dispatch
  \/ Pop

Next ==
  \/ Main
  \/ \E kind \in Kinds : PeerWrites(kind)
  \/ PeerCloses
  \/ Tick

\* The program runs on whenever it can, and time passes.
Spec == Init /\ [][Next]_vars /\ WF_vars(Main) /\ WF_vars(Tick)
-----------------------------------------------------------------------------
\* main.go:44 prints "no response within 3s": main gives up when its limit has
\* passed without an answer.
GivesUp == elapsed >= Limit ~> pc = "done"
=============================================================================
