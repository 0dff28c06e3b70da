---------------------------- MODULE MessageQueue ----------------------------
(***************************************************************************)
(* What app.Inbox promises its users: one queue whose operations happen at *)
(* one instant.  Whoever asks for a message of some channels gets the      *)
(* oldest one of them, and is told that there is none only when there is   *)
(* none at that moment.                                                    *)
(***************************************************************************)
EXTENDS SequencesExt

CONSTANTS Channels, Ids, Users, Nil

VARIABLES
  q,        \* the messages, oldest first
  answer    \* what each user was told last: a message, or Nil

Init ==
  /\ q = << >>
  /\ answer = [u \in Users |-> Nil]

Put(m) ==
  /\ q' = Append(q, m)
  /\ UNCHANGED answer

Take(u, C) ==
  \E i \in DOMAIN q :
    /\ q[i].channel \in C
    /\ \A j \in 1 .. i - 1 : q[j].channel \notin C
    /\ answer' = [answer EXCEPT ![u] = q[i]]
    /\ q' = RemoveAt(q, i)

Miss(u, C) ==
  /\ \A i \in DOMAIN q : q[i].channel \notin C
  /\ answer' = [answer EXCEPT ![u] = Nil]
  /\ UNCHANGED q

\* One asks for a message of any channel, or of a given one.
Asked == {Channels} \cup {{c} : c \in Channels}

Next ==
  \/ \E m \in [channel : Channels, id : Ids] : Put(m)
  \/ \E u \in Users, C \in Asked : Take(u, C) \/ Miss(u, C)

Spec == Init /\ [][Next]_<<q, answer>>
=============================================================================
