------------------------ MODULE ReplayReceiverProofs ------------------------
(***************************************************************************)
(* Proofs about ReplayReceiver, for every word width, number of words and  *)
(* width of the integers.                                                  *)
(***************************************************************************)
EXTENDS ReplayReceiver, ReplayWindowProofs

\* AcceptedOnce is inductive given the type of the window; NoPanic needs that
\* only authentic numbers move the window.
Reached == win.initialized => win.highestSeen <= MaxAuthentic

\* WindowExact bit by bit, which the steps of the window keep: it needs that
\* highestSeen is the greatest of the accepted numbers.
Exact ==
  IF win.initialized
    THEN /\ win.highestSeen \in accepted
         /\ \A s \in accepted : s <= win.highestSeen
         /\ \A d \in BitIndex : contains(win.bits, d) <=> win.highestSeen - d \in accepted
    ELSE accepted = {}

Inv == TypeOK /\ AcceptedOnce /\ Reached /\ Exact /\ NoPanic

LEMMA InvInit == Init => Inv
<1>. SUFFICES ASSUME Init PROVE Inv
  OBVIOUS
<1>1. EmptyWindow \in Window
  BY ClearBits, WindowAssumption DEF EmptyWindow, Window, Uint64
<1>. QED  BY <1>1 DEF Init, Inv, TypeOK, AcceptedOnce, Reached, Exact, NoPanic, Verdicts, EmptyWindow

\* A window below MaxAuthentic converts no distance to a negative int.
LEMMA NoPanicHere ==
  ASSUME TypeOK, Reached, NEW s \in Uint64
  PROVE  /\ validateCandidate(win, s) # "panic"
         /\ s <= MaxAuthentic => ~markPanics(win, s)
<1>1. /\ win.highestSeen \in Nat /\ s \in Nat /\ MaxInt64 \in Nat
      /\ MaxAuthentic \in Nat /\ MaxAuthentic <= MaxInt64
  BY WindowAssumption, AuthenticAssumption DEF TypeOK, Window, Uint64
<1>2. ASSUME win.initialized, ~(s > win.highestSeen)
      PROVE  ~(ToInt(win.highestSeen - s) < 0)
  BY <1>1, <1>2 DEF Reached, ToInt
<1>3. ASSUME win.initialized, s > win.highestSeen, s <= MaxAuthentic
      PROVE  ~(ToInt(s - win.highestSeen) < 0)
  BY <1>1, <1>3 DEF ToInt
<1>. QED  BY <1>2, <1>3 DEF validateCandidate, markPanics

\* Recording an accepted number keeps the bits and the accepted numbers in
\* step.
LEMMA MarkSeenExact ==
  ASSUME TypeOK, Exact, NEW s \in Uint64, validateCandidate(win, s) = "ok",
         ~markPanics(win, s), win' = markSeen(win, s), accepted' = accepted \cup {s}
  PROVE  Exact'
<1>1. /\ win \in Window /\ win.initialized \in BOOLEAN /\ win.highestSeen \in Nat /\ s \in Nat
      /\ accepted \subseteq Nat /\ Size \in Nat \ {0} /\ BitIndex \subseteq Nat /\ 0 \in BitIndex
  <2>1. Size \in Nat \ {0}
    BY WindowAssumption, SMT DEF Size
  <2>. QED  BY <2>1, WindowAssumption, AuthenticAssumption DEF TypeOK, Window, Uint64, BitIndex
<1>2. CASE ~win.initialized
  <2>1. accepted' = {s}
    BY <1>2 DEF Exact
  <2>2. win'.initialized /\ win'.highestSeen = s
    BY <1>1, <1>2, MarkSeenBits
  <2>3. ASSUME NEW d \in BitIndex
        PROVE  contains(win'.bits, d) <=> win'.highestSeen - d \in accepted'
    <3>1. contains(win'.bits, d) <=> d = 0
      BY <1>1, <1>2, MarkSeenBits
    <3>. QED  BY <1>1, <2>1, <2>2, <3>1
  <2>. QED  BY <1>1, <2>1, <2>2, <2>3 DEF Exact
<1>3. CASE win.initialized /\ s > win.highestSeen
  <2>1. win'.initialized /\ win'.highestSeen = s
    BY <1>1, <1>3, MarkSeenBits
  <2>2. \A t \in accepted : t <= win.highestSeen
    BY <1>3 DEF Exact
  <2>3. ASSUME NEW d \in BitIndex
        PROVE  contains(win'.bits, d) <=> win'.highestSeen - d \in accepted'
    <3>. DEFINE n == s - win.highestSeen
    <3>1. contains(win'.bits, d) <=> d = 0 \/ (n <= d /\ contains(win.bits, d - n))
      BY <1>1, <1>3, MarkSeenBits
    <3>2. n <= d => d - n \in BitIndex /\ win.highestSeen - (d - n) = s - d
      BY <1>1, <1>3 DEF BitIndex
    <3>3. n <= d => (contains(win.bits, d - n) <=> s - d \in accepted)
      BY <1>3, <3>2 DEF Exact
    <3>4. ~(n <= d) => s - d \notin accepted
      <4>1. ASSUME ~(n <= d) PROVE s - d > win.highestSeen
        BY <1>1, <4>1
      <4>. QED  BY <1>1, <2>2, <4>1
    <3>5. s - d = s <=> d = 0
      BY <1>1
    <3>. HIDE DEF n
    <3>. QED  BY <2>1, <3>1, <3>3, <3>4, <3>5
  <2>. QED  BY <1>1, <1>3, <2>1, <2>2, <2>3 DEF Exact
<1>4. CASE win.initialized /\ ~(s > win.highestSeen)
  <2>1. win'.initialized /\ win'.highestSeen = win.highestSeen
    BY <1>1, <1>4, MarkSeenBits
  <2>2. ASSUME NEW d \in BitIndex
        PROVE  contains(win'.bits, d) <=> win'.highestSeen - d \in accepted'
    <3>1. contains(win'.bits, d) <=> d = win.highestSeen - s \/ contains(win.bits, d)
      BY <1>1, <1>4, MarkSeenBits
    <3>2. contains(win.bits, d) <=> win.highestSeen - d \in accepted
      BY <1>4 DEF Exact
    <3>3. d = win.highestSeen - s <=> win.highestSeen - d = s
      BY <1>1
    <3>. QED  BY <2>1, <3>1, <3>2, <3>3
  <2>. QED  BY <1>1, <1>4, <2>1, <2>2 DEF Exact
<1>. QED  BY <1>1, <1>2, <1>3, <1>4

LEMMA InvNext == Inv /\ [Next]_vars => Inv'
<1>. SUFFICES ASSUME Inv, [Next]_vars PROVE Inv'
  OBVIOUS
<1>0. TypeOK /\ AcceptedOnce /\ Reached /\ Exact /\ NoPanic /\ win \in Window
  BY DEF Inv, TypeOK
<1>1. ASSUME NEW s \in Uint64, Refuse(s) PROVE Inv'
  <2>1. validateCandidate(win, s) \in Verdicts \ {"panic"}
    BY <1>0, NoPanicHere DEF validateCandidate, Verdicts
  <2>. QED  BY <1>0, <1>1, <2>1 DEF Refuse, Inv, TypeOK, AcceptedOnce, Reached, Exact, NoPanic
<1>2. ASSUME NEW s \in Uint64, Discard(s) PROVE Inv'
  BY <1>0, <1>2 DEF Discard, Inv, TypeOK, AcceptedOnce, Reached, Exact, NoPanic, Verdicts
<1>3. ASSUME NEW s \in Uint64, Accept(s) PROVE Inv'
  <2>1. validateCandidate(win, s) = "ok" /\ s <= MaxAuthentic /\ ~markPanics(win, s)
    BY <1>0, <1>3, NoPanicHere DEF Accept
  <2>2. win' = markSeen(win, s) /\ verdict' = "ok" /\ accepted' = accepted \cup {s}
    BY <1>3, <2>1 DEF Accept
  <2>3. s \in 0 .. MaxAuthentic
    BY <2>1, WindowAssumption, AuthenticAssumption DEF Uint64
  <2>4. TypeOK' /\ NoPanic'
    BY <1>0, <2>1, <2>2, <2>3, MarkSeenType DEF TypeOK, NoPanic, Verdicts
  <2>5. AcceptedOnce'
    <3>1. accepted \subseteq Uint64
      BY <1>0, WindowAssumption, AuthenticAssumption DEF TypeOK, Uint64
    <3>2. /\ validateCandidate(win', s) # "ok"
          /\ \A t \in Uint64 : validateCandidate(win, t) # "ok" =>
                validateCandidate(win', t) # "ok"
      BY <1>0, <2>1, <2>2, MarkSeenRefuses
    <3>. QED  BY <1>0, <2>2, <3>1, <3>2 DEF AcceptedOnce
  <2>6. Reached'
    <3>1. win'.highestSeen = s \/ (win.initialized /\ win'.highestSeen = win.highestSeen)
      BY <1>0, <2>2 DEF markSeen, Window
    <3>. QED  BY <1>0, <2>1, <3>1 DEF Reached
  <2>7. Exact'
    BY <1>0, <2>1, <2>2, MarkSeenExact
  <2>. QED  BY <2>4, <2>5, <2>6, <2>7 DEF Inv
<1>4. CASE Reset
  <2>1. EmptyWindow \in Window /\ ~EmptyWindow.initialized
    BY ClearBits, WindowAssumption DEF EmptyWindow, Window, Uint64
  <2>. QED  BY <1>4, <2>1 DEF Reset, Inv, TypeOK, AcceptedOnce, Reached, Exact, NoPanic, Verdicts
<1>5. CASE UNCHANGED vars
  BY <1>0, <1>5 DEF vars, Inv, TypeOK, AcceptedOnce, Reached, Exact, NoPanic
<1>. QED  BY <1>1, <1>2, <1>3, <1>4, <1>5 DEF Next

\* No number is accepted twice between two resets of the window, however far
\* and in whatever steps the window slides.
THEOREM ReceiverAcceptedOnce == Spec => []AcceptedOnce
<1>1. Inv => AcceptedOnce
  BY DEF Inv
<1>. QED  BY <1>1, InvInit, InvNext, PTL DEF Spec

\* As long as no sender numbers a record beyond MaxInt64, no claimed number
\* stops the program through a negative index or shift.
THEOREM ReceiverNoPanic == Spec => []NoPanic
<1>1. Inv => NoPanic
  BY DEF Inv
<1>. QED  BY <1>1, InvInit, InvNext, PTL DEF Spec

-----------------------------------------------------------------------------
(***************************************************************************)
(* The window against the set of accepted numbers and against the abstract *)
(* filter.                                                                 *)
(***************************************************************************)
\* The numbers the bits stand for are the accepted ones that are in reach.
LEMMA SeenExact == TypeOK /\ Exact => WindowExact
<1>. SUFFICES ASSUME TypeOK, Exact PROVE WindowExact
  OBVIOUS
<1>1. /\ win.initialized \in BOOLEAN /\ win.highestSeen \in Nat
      /\ accepted \subseteq Nat /\ Size \in Nat /\ BitIndex = 0 .. Size - 1
  BY WindowAssumption, AuthenticAssumption DEF TypeOK, Window, Uint64, BitIndex, Size
<1>2. CASE ~win.initialized
  BY <1>2 DEF Exact, WindowExact, Seen
<1>3. CASE win.initialized
  <2>1. ASSUME NEW x
        PROVE  x \in Seen(win) <=> x \in accepted /\ win.highestSeen - x < Size
    <3>1. x \in Seen(win) <=>
            \E d \in BitIndex : contains(win.bits, d) /\ x = win.highestSeen - d
      BY <1>3 DEF Seen
    <3>2. ASSUME NEW d \in BitIndex, contains(win.bits, d), x = win.highestSeen - d
          PROVE  x \in accepted /\ win.highestSeen - x < Size
      BY <1>1, <1>3, <3>2 DEF Exact
    <3>3. ASSUME x \in accepted, win.highestSeen - x < Size
          PROVE  \E d \in BitIndex : contains(win.bits, d) /\ x = win.highestSeen - d
      <4>. DEFINE d == win.highestSeen - x
      <4>1. x \in Nat /\ x <= win.highestSeen
        BY <1>1, <1>3, <3>3 DEF Exact
      <4>2. d \in BitIndex /\ x = win.highestSeen - d
        BY <1>1, <3>3, <4>1
      <4>3. contains(win.bits, d)
        BY <1>3, <3>3, <4>2 DEF Exact
      <4>. HIDE DEF d
      <4>. QED  BY <4>2, <4>3
    <3>. QED  BY <3>1, <3>2, <3>3
  <2>. QED  BY <2>1 DEF WindowExact
<1>. QED  BY <1>1, <1>2, <1>3

\* The bits of the window are exactly the accepted numbers within its reach,
\* for every word width and number of words: shiftWindow neither loses a bit
\* between two words nor makes one up.
THEOREM ReceiverWindowExact == Spec => []WindowExact
<1>1. Inv => WindowExact
  BY SeenExact DEF Inv
<1>. QED  BY <1>1, InvInit, InvNext, PTL DEF Spec

\* The facts about Seen that the filter's definitions ask for.
LEMMA SeenFacts ==
  ASSUME TypeOK, Exact
  PROVE  /\ Size \in Nat \ {0} /\ win.highestSeen \in Nat /\ win.initialized \in BOOLEAN
         /\ Seen(win) \subseteq Nat
         /\ ~win.initialized => Seen(win) = {}
         /\ win.initialized =>
              /\ win.highestSeen \in Seen(win)
              /\ \A x \in Seen(win) : x <= win.highestSeen /\ win.highestSeen - x < Size
              /\ \A x \in accepted : win.highestSeen - x < Size => x \in Seen(win)
              /\ Seen(win) \subseteq accepted
<1>1. Seen(win) = {s \in accepted : win.highestSeen - s < Size}
  BY SeenExact DEF WindowExact
<1>2. /\ win.highestSeen \in Nat /\ accepted \subseteq Nat /\ win.initialized \in BOOLEAN
  BY WindowAssumption, AuthenticAssumption DEF TypeOK, Window, Uint64
<1>3. Size \in Nat \ {0}
  BY WindowAssumption, SMT DEF Size
<1>4. CASE ~win.initialized
  BY <1>1, <1>2, <1>3, <1>4 DEF Exact
<1>5. CASE win.initialized
  <2>1. win.highestSeen \in accepted /\ \A x \in accepted : x <= win.highestSeen
    BY <1>5 DEF Exact
  <2>2. win.highestSeen \in Seen(win)
    BY <1>1, <1>2, <1>3, <2>1
  <2>. QED  BY <1>1, <1>2, <1>3, <1>5, <2>1, <2>2
<1>. QED  BY <1>2, <1>4, <1>5

\* validateCandidate gives the verdict of the filter.
LEMMA SameVerdict ==
  ASSUME TypeOK, Reached, Exact, NEW s \in Uint64
  PROVE  validateCandidate(win, s) = Filter!Judge(s)
<1>0. /\ Size \in Nat \ {0} /\ win.highestSeen \in Nat /\ win.initialized \in BOOLEAN
      /\ Seen(win) \subseteq Nat /\ s \in Nat
  BY SeenFacts, WindowAssumption DEF Uint64
<1>1. Filter!Judge(s) = CASE s \in Seen(win) -> "duplicate"
                          [] \E y \in Seen(win) : y - s >= Size -> "outside"
                          [] OTHER -> "ok"
  BY DEF Filter!Judge
<1>2. CASE ~win.initialized
  <2>1. Seen(win) = {}
    BY <1>2, SeenFacts
  <2>. QED  BY <1>1, <1>2, <2>1 DEF validateCandidate
<1>3. CASE win.initialized /\ s > win.highestSeen
  <2>1. s \notin Seen(win) /\ ~\E y \in Seen(win) : y - s >= Size
    BY <1>0, <1>3, SeenFacts
  <2>. QED  BY <1>1, <1>3, <2>1 DEF validateCandidate
<1>4. CASE win.initialized /\ ~(s > win.highestSeen)
  <2>. DEFINE distance == win.highestSeen - s
  <2>1. distance \in Nat /\ distance <= MaxInt64 /\ ToInt(distance) = distance
    BY <1>0, <1>4, AuthenticAssumption, WindowAssumption DEF Reached, ToInt
  <2>2. CASE distance >= Size
    <3>1. s \notin Seen(win) /\ \E y \in Seen(win) : y - s >= Size
      BY <1>0, <1>4, <2>2, SeenFacts
    <3>2. validateCandidate(win, s) = "outside"
      BY <1>4, <2>1, <2>2 DEF validateCandidate
    <3>. QED  BY <1>1, <3>1, <3>2
  <2>3. CASE distance < Size
    <3>1. ~\E y \in Seen(win) : y - s >= Size
      BY <1>0, <1>4, <2>3, SeenFacts
    <3>2. distance \in BitIndex /\ win.highestSeen - distance = s
      BY <1>0, <2>1, <2>3 DEF BitIndex
    <3>3. contains(win.bits, distance) <=> s \in Seen(win)
      <4>1. contains(win.bits, distance) <=> s \in accepted
        BY <1>4, <3>2 DEF Exact
      <4>. QED  BY <1>4, <2>3, <4>1, SeenFacts
    <3>4. validateCandidate(win, s) =
            IF contains(win.bits, distance) THEN "duplicate" ELSE "ok"
      BY <1>0, <1>4, <2>1, <2>3 DEF validateCandidate
    <3>. QED  BY <1>1, <3>1, <3>3, <3>4
  <2>. QED  BY <1>0, <2>1, <2>2, <2>3
<1>. QED  BY <1>0, <1>2, <1>3, <1>4

\* Recording a number keeps, of the numbers seen and the new one, those that
\* are recent.
LEMMA SeenAfterAccept ==
  ASSUME TypeOK, Exact, TypeOK', Exact', NEW s \in Uint64,
         validateCandidate(win, s) = "ok", ~markPanics(win, s),
         win' = markSeen(win, s), accepted' = accepted \cup {s}
  PROVE  Seen(win)' = Filter!Recent(Seen(win) \cup {s})
<1>a. WindowExact'
  BY SeenExact, PTL
<1>1. Seen(win)' = {x \in accepted' : win'.highestSeen - x < Size}
  BY <1>a DEF WindowExact
<1>0. /\ Size \in Nat \ {0} /\ win.highestSeen \in Nat /\ win.initialized \in BOOLEAN
      /\ Seen(win) \subseteq Nat /\ s \in Nat
      /\ win'.highestSeen \in Nat /\ Seen(win)' \subseteq Nat /\ win'.initialized
      /\ accepted \subseteq Nat
  <2>1. win \in Window /\ 0 \in BitIndex
    BY SeenFacts DEF TypeOK, BitIndex
  <2>2. win'.initialized
    BY <2>1, MarkSeenBits
  <2>3. win'.highestSeen \in Nat /\ accepted' \subseteq Nat
    BY WindowAssumption, AuthenticAssumption DEF TypeOK, Window, Uint64
  <2>4. Seen(win)' \subseteq Nat
    BY <1>1, <2>3
  <2>. QED  BY <2>2, <2>3, <2>4, SeenFacts, WindowAssumption, AuthenticAssumption DEF Uint64, TypeOK
<1>2. /\ win'.highestSeen \in accepted'
      /\ \A x \in accepted' : x <= win'.highestSeen
  BY <1>0 DEF Exact
<1>3. Seen(win) = {x \in accepted : win.highestSeen - x < Size}
  BY SeenExact DEF WindowExact
<1>. DEFINE T == Seen(win) \cup {s}
<1>4. win'.highestSeen \in T /\ \A y \in T : y <= win'.highestSeen
  <2>1. win'.highestSeen = s \/ (win.initialized /\ win'.highestSeen = win.highestSeen)
    BY <1>0 DEF markSeen, TypeOK, Window
  <2>2. win.initialized => win.highestSeen \in Seen(win)
    BY SeenFacts
  <2>. QED  BY <1>2, <1>3, <2>1, <2>2
<1>5. ASSUME NEW x
      PROVE  x \in Seen(win)' <=> x \in T /\ \A y \in T : y - x < Size
  <2>1. ASSUME x \in Seen(win)' PROVE x \in T /\ \A y \in T : y - x < Size
    <3>1. x \in Nat /\ x \in accepted' /\ win'.highestSeen - x < Size
      BY <1>0, <1>1, <2>1
    <3>2. ASSUME NEW y \in T PROVE y - x < Size
      BY <1>0, <1>4, <3>1
    <3>3. CASE x = s
      BY <3>2, <3>3
    <3>4. CASE x \in accepted
      <4>1. win.initialized /\ win.highestSeen \in accepted
        BY <1>0, <3>4 DEF Exact
      <4>2. win.highestSeen <= win'.highestSeen
        BY <1>2, <4>1
      <4>3. win.highestSeen - x < Size
        BY <1>0, <3>1, <4>2
      <4>. QED  BY <1>3, <3>2, <3>4, <4>3
    <3>. QED  BY <3>1, <3>3, <3>4
  <2>2. ASSUME x \in T, \A y \in T : y - x < Size PROVE x \in Seen(win)'
    BY <1>1, <1>3, <1>4, <2>2
  <2>. QED  BY <2>1, <2>2
<1>. QED  BY <1>5 DEF Filter!Recent

LEMMA FilterInit == Init => Filter!Init
BY DEF Init, Filter!Init, Seen, EmptyWindow

\* Every step of the receiver is a step of the filter or changes nothing of it.
LEMMA FilterStep ==
  ASSUME Inv, Inv', [Next]_vars
  PROVE  [Filter!Next]_<<Seen(win), verdict>>
<1>0. TypeOK /\ Reached /\ Exact /\ TypeOK' /\ Exact'
  BY DEF Inv
<1>1. ASSUME NEW s \in Uint64, Refuse(s) PROVE Filter!Refuse(s)
  <2>1. Seen(win)' = Seen(win)
    BY <1>1 DEF Refuse, Seen
  <2>. QED  BY <1>0, <1>1, <2>1, SameVerdict DEF Refuse, Filter!Refuse
<1>2. ASSUME NEW s \in Uint64, Discard(s) PROVE Filter!Discard(s)
  <2>1. Seen(win)' = Seen(win)
    BY <1>2 DEF Discard, Seen
  <2>. QED  BY <1>0, <1>2, <2>1, SameVerdict DEF Discard, Filter!Discard
<1>3. ASSUME NEW s \in Uint64, Accept(s) PROVE Filter!Accept(s)
  <2>1. validateCandidate(win, s) = "ok" /\ s <= MaxAuthentic /\ ~markPanics(win, s)
    BY <1>0, <1>3, NoPanicHere DEF Accept
  <2>2. win' = markSeen(win, s) /\ verdict' = "ok" /\ accepted' = accepted \cup {s}
    BY <1>3, <2>1 DEF Accept
  <2>3. Seen(win)' = Filter!Recent(Seen(win) \cup {s})
    BY <1>0, <2>1, <2>2, SeenAfterAccept
  <2>4. Filter!Judge(s) = "ok"
    BY <1>0, <2>1, SameVerdict
  <2>. QED  BY <2>2, <2>3, <2>4 DEF Filter!Accept
<1>4. ASSUME Reset PROVE Filter!Reset
  <2>1. ~win'.initialized
    BY <1>4 DEF Reset, EmptyWindow
  <2>2. Seen(win)' = {}
    BY <2>1 DEF Seen
  <2>. QED  BY <1>4, <2>2 DEF Reset, Filter!Reset
<1>5. CASE UNCHANGED vars
  BY <1>5 DEF vars, Seen
<1>. QED  BY <1>1, <1>2, <1>3, <1>4, <1>5 DEF Next, Filter!Next

\* The bitmap implements the abstract filter: DecryptFrameUDP answers every
\* number exactly as a receiver would that keeps the set of the last Size
\* accepted numbers.
THEOREM ReceiverImplementsFilter == Spec => ImplementsFilter
<1>1. Inv /\ Inv' /\ [Next]_vars => [Filter!Next]_<<Seen(win), verdict>>
  BY FilterStep
<1>. QED
  BY <1>1, InvInit, InvNext, FilterInit, PTL DEF Spec, ImplementsFilter, Filter!Spec
=============================================================================
