---------------------------- MODULE ReplayWindow ----------------------------
(***************************************************************************)
(* The sliding replay window of the UDP receive path, type udpReplayWindow *)
(* of transport/session/session.go.  The window remembers, for the Size    *)
(* sequence numbers up to the highest one accepted, which were accepted;   *)
(* bit d stands for highestSeen - d.  The bits are kept in an array of     *)
(* machine words, so that sliding the window is a shift with a carry       *)
(* between neighbouring words.                                             *)
(*                                                                         *)
(* A word is modelled by the set of the positions of its one bits, and the *)
(* two integer types by their largest values.                              *)
(***************************************************************************)
EXTENDS Integers

CONSTANTS
  WordBits,    \* bits in a word (64 in the code)
  Words,       \* udpReplayWindowWords (16 in the code)
  MaxInt64,    \* largest value of Go's int
  MaxUint64    \* largest value of Go's uint64

ASSUME WindowAssumption ==
  /\ WordBits \in Nat \ {0}
  /\ Words \in Nat \ {0}
  /\ MaxInt64 \in Nat
  /\ MaxUint64 = 2 * MaxInt64 + 1

\* udpReplayWindowSize
Size == WordBits * Words

\* It is an int, and so is every distance within the window.
ASSUME SizeAssumption == Size - 1 <= MaxInt64

Uint64    == 0 .. MaxUint64
BitIndex  == 0 .. Size - 1
WordIndex == 0 .. Words - 1
BitOfWord == 0 .. WordBits - 1
Bits      == [WordIndex -> SUBSET BitOfWord]

Window == [initialized : BOOLEAN, highestSeen : Uint64, bits : Bits]

\* Array of zero words, what clear leaves behind.
clear == [i \in WordIndex |-> {}]

\* The zero value udpReplayWindow{}.
EmptyWindow == [initialized |-> FALSE, highestSeen |-> 0, bits |-> clear]

\* Seeded fault: the conversion goes through an integer of half the range.
ToShortInt(x) == IF x <= MaxInt64 \div 2 THEN x ELSE x - (MaxUint64 + 1)

\* The conversion int(x) of an unsigned x: the upper half becomes negative.
ToInt(x) == IF x <= MaxInt64 THEN x ELSE x - (MaxUint64 + 1)

-----------------------------------------------------------------------------
(***************************************************************************)
(* Words and bits.                                                         *)
(***************************************************************************)
ShiftLeft(word, n)  == {b \in BitOfWord : b - n \in word}
ShiftRight(word, n) == {b \in BitOfWord : b + n \in word}

contains(bits, bitIndex) == bitIndex % WordBits \in bits[bitIndex \div WordBits]

set(bits, bitIndex) ==
  [bits EXCEPT ![bitIndex \div WordBits] = @ \cup {bitIndex % WordBits}]

\* Seeded fault: the carry from the lower word is forgotten.
CarryLost(bits, src, bitShift) == ShiftLeft(bits[src], bitShift)

\* The new value of a word that receives word src, shifted left by bitShift,
\* and the bits that the next lower word pushes out.
ShiftedWord(bits, src, bitShift) ==
  ShiftLeft(bits[src], bitShift) \cup
    (IF bitShift # 0 /\ src > 0
       THEN ShiftRight(bits[src - 1], WordBits - bitShift)
       ELSE {})

\* Seeded fault: a jump that clears the window is one too long.
ShiftClearsLate(bits, shift) ==
  LET wordShift == shift \div WordBits
  IN [dst \in WordIndex |->
        IF dst < wordShift
          THEN bits[dst]
          ELSE ShiftedWord(bits, dst - wordShift, shift % WordBits)]

shiftWindow(bits, shift) ==
  LET wordShift == shift \div WordBits
      bitShift  == shift % WordBits
  IN  IF shift >= Size
        THEN clear
        ELSE [dst \in WordIndex |->
                IF dst < wordShift
                  THEN {}
                  ELSE ShiftedWord(bits, dst - wordShift, bitShift)]

-----------------------------------------------------------------------------
(***************************************************************************)
(* Deciding about a sequence number and recording it.                      *)
(***************************************************************************)
\* A negative distance is a negative word index or shift count further down,
\* which stops a Go program: the verdict "panic".
validateCandidate(w, sequence) ==
  LET distance == ToInt(w.highestSeen - sequence)
  IN  IF ~w.initialized \/ sequence > w.highestSeen THEN "ok"
      ELSE IF distance >= Size THEN "outside"
      ELSE IF distance < 0 THEN "panic"
      ELSE IF contains(w.bits, distance) THEN "duplicate"
      ELSE "ok"

\* TRUE if recording sequence slides the window by a distance that int
\* cannot hold.
markPanics(w, sequence) ==
  /\ w.initialized
  /\ sequence > w.highestSeen
  /\ ToInt(sequence - w.highestSeen) < 0

\* Seeded fault: a number below the highest one is not recorded.
MarkOnlyForward(w, sequence) ==
  IF w.initialized /\ sequence <= w.highestSeen
    THEN w
    ELSE [initialized |-> TRUE,
          highestSeen |-> sequence,
          bits        |-> set(IF w.initialized
                                THEN shiftWindow(w.bits, ToInt(sequence - w.highestSeen))
                                ELSE clear, 0)]

markSeen(w, sequence) ==
  LET shift    == ToInt(sequence - w.highestSeen)
      distance == ToInt(w.highestSeen - sequence)
  IN  IF ~w.initialized THEN
        [initialized |-> TRUE,
         highestSeen |-> sequence,
         bits        |-> set(clear, 0)]
      ELSE IF sequence > w.highestSeen THEN
        [initialized |-> TRUE,
         highestSeen |-> sequence,
         bits        |-> set(shiftWindow(w.bits, shift), 0)]
      ELSE IF distance < Size THEN
        [w EXCEPT !.bits = set(w.bits, distance)]
      ELSE w
=============================================================================
