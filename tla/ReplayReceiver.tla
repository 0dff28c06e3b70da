--------------------------- MODULE ReplayReceiver ---------------------------
(***************************************************************************)
(* The sequence-number side of State.DecryptFrameUDP                       *)
(* (transport/session/session.go): validate the claimed number, open the   *)
(* record, record the number.  Whether a record opens under the number     *)
(* claimed for it is the environment's choice; a sender numbers its        *)
(* records from 0, so no record opens above MaxAuthentic, while a claimed  *)
(* number may be anything a uint64 holds.                                  *)
(***************************************************************************)
EXTENDS ReplayWindow

CONSTANT MaxAuthentic   \* the highest number a sender gets to

\* A sender would need 2^63 records to number one beyond MaxInt64.
ASSUME AuthenticAssumption ==
  MaxAuthentic \in Nat /\ MaxAuthentic <= MaxInt64

VARIABLES
  win,        \* State.udpReplayWindow
  verdict,    \* what the last DecryptFrameUDP answered
  accepted    \* history: the numbers accepted since the window was reset

vars == <<win, verdict, accepted>>

Verdicts == {"none", "ok", "duplicate", "outside", "undecryptable", "panic"}

TypeOK ==
  /\ win \in Window
  /\ verdict \in Verdicts
  /\ accepted \in SUBSET (0 .. MaxAuthentic)

Init ==
  /\ win = EmptyWindow
  /\ verdict = "none"
  /\ accepted = {}

\* validateCandidate refuses the number.
Refuse(s) ==
  /\ validateCandidate(win, s) # "ok"
  /\ verdict' = validateCandidate(win, s)
  /\ UNCHANGED <<win, accepted>>

\* The record does not open under the number claimed for it.
Discard(s) ==
  /\ validateCandidate(win, s) = "ok"
  /\ verdict' = "undecryptable"
  /\ UNCHANGED <<win, accepted>>

\* The record opens and its number is recorded.
Accept(s) ==
  /\ s <= MaxAuthentic
  /\ validateCandidate(win, s) = "ok"
  /\ IF markPanics(win, s)
       THEN verdict' = "panic" /\ UNCHANGED <<win, accepted>>
       ELSE /\ win' = markSeen(win, s)
            /\ verdict' = "ok"
            /\ accepted' = accepted \cup {s}

\* SetReplayMode and RekeyInbound store a fresh udpReplayWindow{}.
Reset ==
  /\ win' = EmptyWindow
  /\ verdict' = "none"
  /\ accepted' = {}

Next == \/ \E s \in Uint64 : Refuse(s) \/ Discard(s) \/ Accept(s)
        \/ Reset

Spec == Init /\ [][Next]_vars

-----------------------------------------------------------------------------
(***************************************************************************)
(* Properties.                                                             *)
(***************************************************************************)
\* The numbers the bitmap says were accepted.
Seen(w) == IF w.initialized
             THEN {w.highestSeen - d : d \in {k \in BitIndex : contains(w.bits, k)}}
             ELSE {}

\* validateCandidate (session.go:37) refuses every number accepted since the
\* window was last reset, however far the window has moved since: markSeen
\* (session.go:54) never loses a number without making it too old.
AcceptedOnce == \A s \in accepted : validateCandidate(win, s) # "ok"

\* The bits are exactly the accepted numbers within reach: no number gets
\* marked that was not accepted (which would refuse a fresh record), and the
\* word-wise shiftWindow (session.go:95) drops none that is still in reach.
WindowExact ==
  Seen(win) = {s \in accepted : win.highestSeen - s < Size}

\* No number, claimed or authentic, makes the int conversions in
\* validateCandidate and markSeen (session.go:44, 64, 71) go negative and
\* stop the program, up to and including MaxInt64.
NoPanic == verdict # "panic"

Filter == INSTANCE ReplayFilter
            WITH Depth <- Size, Sequences <- Uint64, seen <- Seen(win)

\* The bitmap receive path implements the abstract replay filter: every
\* verdict it gives, acceptance and refusal alike, is the filter's.
ImplementsFilter == Filter!Spec
=============================================================================
