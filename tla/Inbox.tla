------------------------------- MODULE Inbox --------------------------------
(***************************************************************************)
(* app.Inbox: one queue of received messages, shared by all copies of an   *)
(* Inbox and by the Messengers made with it, used by several goroutines.   *)
(* Every method locks the mutex, works on the queue and unlocks it on      *)
(* return.  The work is split into the step that takes the lock and reads  *)
(* the queue and the step that stores the new queue and returns, so that   *)
(* what the mutex prevents is expressible.                                 *)
(***************************************************************************)
EXTENDS SequencesExt

CONSTANTS
  Channels,     \* channel numbers of messages
  Goroutines,   \* the goroutines that hold a copy of the Inbox
  Drainer,      \* the goroutine that keeps calling Pop
  Nil,          \* no goroutine, no message
  MaxPush       \* bound: messages pushed

ASSUME InboxAssumption ==
  /\ Drainer \in Goroutines
  /\ Nil \notin Goroutines
  /\ MaxPush \in Nat

Messages == [channel : Channels, id : 1 .. MaxPush]
NoCall == [method |-> "none", arg |-> Nil]
PopCall == [method |-> "Pop", arg |-> Nil]
Calls == {PopCall, [method |-> "Len", arg |-> Nil]}
           \cup [method : {"PopChannel"}, arg : Channels]
           \cup [method : {"Push"}, arg : Messages]

VARIABLES
  queue,      \* inboxState.queue
  mu,         \* inboxState.mu: who holds it, or Nil
  call,       \* the method each goroutine is in
  read,       \* the queue each goroutine read under the lock, or Nil
  answer,     \* what Pop and PopChannel told each goroutine last
  started,    \* number of messages that Push was called with
  pushed,     \* history: the messages pushed, in the order Push returned
  popped      \* history: the messages popped, in the order Pop returned

vars == <<queue, mu, call, read, answer, started, pushed, popped>>

Init ==
  /\ queue = << >>
  /\ mu = Nil
  /\ call = [g \in Goroutines |-> NoCall]
  /\ read = [g \in Goroutines |-> Nil]
  /\ answer = [g \in Goroutines |-> Nil]
  /\ started = 0
  /\ pushed = << >>
  /\ popped = << >>

\* A goroutine calls a method.  The messages are told apart by a number.
Call(g, c) ==
  /\ call[g] = NoCall
  /\ \/ c.method # "Push" /\ UNCHANGED started
     \/ c.method = "Push" /\ c.arg.id = started + 1 /\ started' = started + 1
  /\ call' = [call EXCEPT ![g] = c]
  /\ UNCHANGED <<queue, mu, read, answer, pushed, popped>>

\* Seeded fault: the mutex keeps nobody out.
LockAnyway(g) ==
  /\ call[g] # NoCall
  /\ read[g] = Nil
  /\ mu' = g
  /\ read' = [read EXCEPT ![g] = queue]
  /\ UNCHANGED <<queue, call, answer, started, pushed, popped>>

Lock(g) ==
  /\ call[g] # NoCall
  /\ mu = Nil
  /\ mu' = g
  /\ read' = [read EXCEPT ![g] = queue]
  /\ UNCHANGED <<queue, call, answer, started, pushed, popped>>

\* The deferred Unlock and the return of the method.
Return(g) ==
  /\ mu' = Nil
  /\ call' = [call EXCEPT ![g] = NoCall]
  /\ read' = [read EXCEPT ![g] = Nil]
  /\ UNCHANGED started

InMethod(g, method) == read[g] # Nil /\ call[g].method = method

Push(g) ==
  /\ InMethod(g, "Push")
  /\ queue' = Append(read[g], call[g].arg)
  /\ pushed' = Append(pushed, call[g].arg)
  /\ Return(g)
  /\ UNCHANGED <<answer, popped>>

\* The message at idx leaves the queue and is the answer; 0 is none.
TakeAt(g, idx) ==
  /\ queue' = IF idx = 0 THEN read[g] ELSE RemoveAt(read[g], idx)
  /\ answer' = [answer EXCEPT ![g] = IF idx = 0 THEN Nil ELSE read[g][idx]]
  /\ popped' = IF idx = 0 THEN popped ELSE Append(popped, read[g][idx])
  /\ Return(g)
  /\ UNCHANGED pushed

\* Seeded fault: the last message stays behind.
PopLeavesLast(g) ==
  /\ InMethod(g, "Pop")
  /\ TakeAt(g, IF Len(read[g]) <= 1 THEN 0 ELSE 1)

Pop(g) ==
  /\ InMethod(g, "Pop")
  /\ TakeAt(g, IF read[g] = << >> THEN 0 ELSE 1)

\* Seeded fault: the search goes from the newest message.
PopChannelNewest(g) ==
  /\ InMethod(g, "PopChannel")
  /\ TakeAt(g, SelectLastInSeq(read[g], LAMBDA m : m.channel = call[g].arg))

PopChannel(g) ==
  /\ InMethod(g, "PopChannel")
  /\ TakeAt(g, SelectInSeq(read[g], LAMBDA m : m.channel = call[g].arg))

\* Len only reads.
LenReturn(g) ==
  /\ InMethod(g, "Len")
  /\ Return(g)
  /\ UNCHANGED <<queue, answer, pushed, popped>>

Next ==
  \E g \in Goroutines :
    \/ \E c \in Calls : Call(g, c)
    \/ Lock(g)
    \/ Push(g)
    \/ Pop(g)
    \/ PopChannel(g)
    \/ LenReturn(g)

Spec == Init /\ [][Next]_vars

\* A goroutine that holds the mutex goes on; one that waits for it gets it in
\* the end, as sync.Mutex promises; the drainer keeps polling.
Fairness ==
  /\ \A g \in Goroutines :
       /\ WF_vars(Push(g) \/ Pop(g) \/ PopChannel(g) \/ LenReturn(g))
       /\ SF_vars(Lock(g))
  /\ SF_vars(Call(Drainer, PopCall))

LiveSpec == Spec /\ Fairness
-----------------------------------------------------------------------------
TypeOK ==
  /\ queue \in Seq(Messages)
  /\ mu \in Goroutines \cup {Nil}
  /\ call \in [Goroutines -> Calls \cup {NoCall}]
  /\ read \in [Goroutines -> Seq(Messages) \cup {Nil}]
  /\ answer \in [Goroutines -> Messages \cup {Nil}]
  /\ started \in 0 .. MaxPush
  /\ pushed \in Seq(Messages)
  /\ popped \in Seq(Messages)

\* The queue (app.go:206-233) is exactly what was pushed and not popped, in the
\* order of the pushes: no two goroutines get the same message, none is lost
\* when a Push meets a PopChannel that moves the queue, and a message taken from
\* the middle leaves the others in their order.
NothingLost ==
  /\ ToSet(queue) = ToSet(pushed) \ ToSet(popped)
  /\ Len(queue) + Len(popped) = Len(pushed)
  /\ \A i, j \in DOMAIN queue, k, l \in DOMAIN pushed :
       i < j /\ queue[i] = pushed[k] /\ queue[j] = pushed[l] => k < l

\* The methods are linearizable: under concurrent calls the Inbox behaves as
\* one queue whose operations happen at one instant.  In particular Pop returns
\* the oldest message, PopChannel the oldest of its channel, and they answer
\* "nothing" (app.go:216, 232) only when there is nothing.
messages == INSTANCE MessageQueue WITH
  Ids   <- 1 .. MaxPush,
  Users <- Goroutines,
  q     <- queue

ImplementsQueue == messages!Spec

\* Every message that is pushed is taken in the end, as long as one goroutine
\* keeps calling Pop: no early return leaves the mutex locked, and no message
\* is passed over for ever.
EverythingTaken ==
  \A m \in Messages : m \in ToSet(pushed) ~> m \in ToSet(popped)
=============================================================================
