---------------------------- MODULE ReplayFilter ----------------------------
(***************************************************************************)
(* What the UDP receive path promises about sequence numbers, with no      *)
(* bitmap: of the last Depth numbers up to the highest one accepted it     *)
(* knows exactly which were accepted, lets a number through once, and      *)
(* refuses everything older.  ReplayReceiver implements this.              *)
(***************************************************************************)
EXTENDS Integers

CONSTANTS
  Depth,       \* how far below the highest accepted number it looks back
  Sequences    \* the sequence numbers that may be presented

VARIABLES
  seen,        \* the accepted numbers among the last Depth
  verdict      \* the answer to the last number presented

Recent(S) == {x \in S : \A y \in S : y - x < Depth}

Judge(s) == CASE s \in seen -> "duplicate"
              [] \E y \in seen : y - s >= Depth -> "outside"
              [] OTHER -> "ok"

Init == seen = {} /\ verdict = "none"

\* The record opens: the number is accepted and remembered.
Accept(s) ==
  /\ Judge(s) = "ok"
  /\ seen' = Recent(seen \cup {s})
  /\ verdict' = "ok"

\* The number is refused before the record is looked at.
Refuse(s) ==
  /\ Judge(s) # "ok"
  /\ verdict' = Judge(s)
  /\ UNCHANGED seen

\* The number is fresh but the record does not open under it.
Discard(s) ==
  /\ Judge(s) = "ok"
  /\ verdict' = "undecryptable"
  /\ UNCHANGED seen

Reset == seen' = {} /\ verdict' = "none"

Next == \/ \E s \in Sequences : Accept(s) \/ Refuse(s) \/ Discard(s)
        \/ Reset

Spec == Init /\ [][Next]_<<seen, verdict>>
=============================================================================
