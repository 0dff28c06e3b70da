------------------------- MODULE ReplayWindowProofs -------------------------
(***************************************************************************)
(* What the operations of ReplayWindow do to the window as a flat array of *)
(* Size bits, for every word width and number of words, and what follows   *)
(* for the verdicts it gives.                                              *)
(***************************************************************************)
EXTENDS ReplayWindow, TLAPS

-----------------------------------------------------------------------------
(***************************************************************************)
(* Bit indexes as pairs of a word and a position in it.                    *)
(***************************************************************************)
\* A remainder is below the modulus.
LEMMA ModRange ==
  ASSUME NEW x \in Nat, NEW m \in Nat \ {0}
  PROVE  x % m \in 0 .. m - 1
BY SMT

\* Quotient and remainder put together again.
LEMMA DivMod ==
  ASSUME NEW x \in Nat, NEW m \in Nat \ {0}
  PROVE  /\ x \div m \in Nat
         /\ x % m \in 0 .. m - 1
         /\ x = m * (x \div m) + (x % m)
BY SMT

\* Quotient and remainder are the only such pair.
LEMMA DivModUnique ==
  ASSUME NEW m \in Nat \ {0}, NEW q \in Nat, NEW r \in 0 .. m - 1
  PROVE  /\ (m * q + r) \div m = q
         /\ (m * q + r) % m = r
BY SMT

\* Multiplication by a natural number keeps the order.
LEMMA MulMono ==
  ASSUME NEW m \in Nat, NEW a \in Nat, NEW b \in Nat, a <= b
  PROVE  m * a <= m * b
<1>1. PICK c \in Nat : b = a + c
  <2>. WITNESS b - a \in Nat
  <2>. QED  OBVIOUS
<1>2. m * b = m * a + m * c /\ m * c \in Nat /\ m * a \in Nat
  BY <1>1, SMT
<1>. QED  BY <1>2

\* The word of a bit index is a word of the array.
LEMMA WordInRange ==
  ASSUME NEW k \in BitIndex
  PROVE  /\ k \in Nat
         /\ k \div WordBits \in WordIndex
         /\ k % WordBits \in BitOfWord
         /\ k = WordBits * (k \div WordBits) + (k % WordBits)
<1>. DEFINE q == k \div WordBits
<1>1. k \in Nat /\ k < WordBits * Words
  BY WindowAssumption DEF BitIndex, Size
<1>2. /\ q \in Nat
      /\ k % WordBits \in 0 .. WordBits - 1
      /\ k = WordBits * q + (k % WordBits)
  BY <1>1, WindowAssumption, DivMod
<1>3. q < Words
  <2>. SUFFICES ASSUME q >= Words PROVE FALSE
    BY <1>2, WindowAssumption
  <2>. HIDE DEF q
  <2>1. WordBits * Words <= WordBits * q
    BY <1>2, MulMono, WindowAssumption
  <2>2. WordBits * q \in Int /\ WordBits * Words \in Int
    BY <1>2, WindowAssumption
  <2>. QED  BY <2>1, <2>2, <1>1, <1>2, WindowAssumption
<1>. QED  BY <1>1, <1>2, <1>3, WindowAssumption DEF WordIndex, BitOfWord

-----------------------------------------------------------------------------
(***************************************************************************)
(* The operations on bits.                                                 *)
(***************************************************************************)
\* The zero array is an array of words without a one bit.
LEMMA ClearBits ==
  /\ clear \in Bits
  /\ \A d \in BitIndex : ~contains(clear, d)
BY WordInRange DEF clear, Bits, contains

\* Setting a bit leaves an array of words.
LEMMA SetType ==
  ASSUME NEW bits \in Bits, NEW k \in Nat
  PROVE  set(bits, k) \in Bits
BY ModRange, WindowAssumption DEF set, Bits, BitOfWord, WordIndex

\* set sets the bit it is asked to set and no other.
LEMMA SetContains ==
  ASSUME NEW bits \in Bits, NEW k \in BitIndex, NEW d \in BitIndex
  PROVE  contains(set(bits, k), d) <=> d = k \/ contains(bits, d)
<1>1. /\ k \div WordBits \in WordIndex
      /\ d \div WordBits \in WordIndex
      /\ k = WordBits * (k \div WordBits) + (k % WordBits)
      /\ d = WordBits * (d \div WordBits) + (d % WordBits)
  BY WordInRange
<1>2. CASE d \div WordBits = k \div WordBits
  <2>. DEFINE base == WordBits * (k \div WordBits)
  <2>0. base \in Int /\ k % WordBits \in Int /\ d % WordBits \in Int
    BY WordInRange, WindowAssumption DEF WordIndex, BitOfWord
  <2>. HIDE DEF base
  <2>a. k = base + (k % WordBits) /\ d = base + (d % WordBits)
    BY <1>1, <1>2 DEF base
  <2>1. d % WordBits = k % WordBits <=> d = k
    BY <2>0, <2>a
  <2>. QED  BY <1>1, <1>2, <2>1 DEF contains, set, Bits
<1>3. CASE d \div WordBits # k \div WordBits
  BY <1>1, <1>3 DEF contains, set, Bits
<1>. QED  BY <1>2, <1>3

\* Sliding the window leaves an array of words.
LEMMA ShiftType ==
  ASSUME NEW bits \in Bits, NEW n \in Int
  PROVE  shiftWindow(bits, n) \in Bits
BY WindowAssumption
   DEF shiftWindow, ShiftedWord, ShiftLeft, ShiftRight, clear, Bits, WordIndex

\* shiftWindow moves every bit up by n and brings in zeros: the bits that cross
\* into the next word are carried, and those that leave the array are lost.
LEMMA ShiftContains ==
  ASSUME NEW bits \in Bits, NEW n \in Nat \ {0}, NEW d \in BitIndex
  PROVE  contains(shiftWindow(bits, n), d) <=> n <= d /\ contains(bits, d - n)
<1>. DEFINE q == d \div WordBits   r == d % WordBits
            wn == n \div WordBits  bn == n % WordBits
<1>0. d \in Nat /\ d < Size
  BY WindowAssumption DEF BitIndex, Size
<1>1. /\ d \in Nat /\ d < Size
      /\ q \in WordIndex /\ r \in BitOfWord /\ d = WordBits * q + r
  BY <1>0, WordInRange, Zenon
<1>2. /\ wn \in Nat /\ bn \in BitOfWord /\ n = WordBits * wn + bn
  BY DivMod, WindowAssumption DEF BitOfWord
<1>3. Size \in Nat
  BY WindowAssumption DEF Size
<1>a. /\ contains(shiftWindow(bits, n), d) <=> r \in shiftWindow(bits, n)[q]
  BY DEF contains
<1>b. shiftWindow(bits, n) =
        IF n >= Size THEN clear
        ELSE [dst \in WordIndex |->
                IF dst < wn THEN {} ELSE ShiftedWord(bits, dst - wn, bn)]
  BY DEF shiftWindow
<1>. HIDE DEF q, r, wn, bn
<1>4. CASE n >= Size
  BY <1>1, <1>3, <1>4, ClearBits DEF shiftWindow
<1>5. CASE n < Size /\ q < wn
  <2>1. WordBits * (q + 1) <= WordBits * wn
    BY <1>1, <1>2, <1>5, WindowAssumption, SMT DEF WordIndex
  <2>2. WordBits * (q + 1) = WordBits * q + WordBits
    BY <1>1, WindowAssumption, SMT DEF WordIndex
  <2>3. d < n
    BY <1>1, <1>2, <2>1, <2>2, WindowAssumption DEF WordIndex, BitOfWord
  <2>4. ~contains(shiftWindow(bits, n), d)
    BY <1>1, <1>3, <1>5, <1>a, <1>b
  <2>. QED  BY <1>1, <2>3, <2>4
<1>6. CASE n < Size /\ q >= wn
  <2>. DEFINE src == q - wn
  <2>1. src \in WordIndex
    BY <1>1, <1>2, <1>6, WindowAssumption DEF WordIndex
  <2>2. contains(shiftWindow(bits, n), d) <=> r \in ShiftedWord(bits, src, bn)
    <3>1. ~(n >= Size) /\ ~(q < wn)
      BY <1>1, <1>2, <1>3, <1>6 DEF WordIndex
    <3>2. shiftWindow(bits, n)[q] = ShiftedWord(bits, src, bn)
      BY <1>1, <1>b, <3>1
    <3>. QED  BY <1>a, <3>2
  <2>3. d - n = WordBits * src + (r - bn)
    BY <1>1, <1>2, WindowAssumption, SMT DEF WordIndex, BitOfWord
  <2>4. CASE r >= bn
    <3>1. r - bn \in 0 .. WordBits - 1
      BY <1>1, <1>2, <2>4, WindowAssumption DEF BitOfWord
    <3>2. (d - n) \div WordBits = src /\ (d - n) % WordBits = r - bn
      <4>1. src \in Nat
        BY <2>1 DEF WordIndex
      <4>2. /\ (WordBits * src + (r - bn)) \div WordBits = src
            /\ (WordBits * src + (r - bn)) % WordBits = r - bn
        BY <3>1, <4>1, DivModUnique, WindowAssumption, Zenon
      <4>. QED  BY <2>3, <4>2, Zenon
    <3>3. WordBits * src >= 0
      BY <2>1, WindowAssumption, SMT DEF WordIndex
    <3>4. n <= d
      BY <1>1, <2>3, <3>1, <3>3, WindowAssumption, <2>1 DEF WordIndex
    <3>5. r \in ShiftedWord(bits, src, bn) <=> r - bn \in bits[src]
      <4>1. r + (WordBits - bn) \notin BitOfWord
        BY <1>1, <1>2, <2>4, WindowAssumption DEF BitOfWord
      <4>2. src > 0 => bits[src - 1] \subseteq BitOfWord
        BY <2>1, WindowAssumption DEF Bits, WordIndex
      <4>. QED  BY <1>1, <4>1, <4>2 DEF ShiftedWord, ShiftLeft, ShiftRight
    <3>. QED  BY <2>2, <3>2, <3>4, <3>5 DEF contains
  <2>5. CASE r < bn
    <3>1. r - bn \notin bits[src]
      BY <1>1, <1>2, <2>1, <2>5, WindowAssumption DEF Bits, BitOfWord
    <3>2. CASE src = 0
      <4>1. ~(n <= d)
        BY <1>1, <1>2, <2>3, <2>5, <3>2, WindowAssumption DEF BitOfWord
      <4>2. r \notin ShiftedWord(bits, src, bn)
        BY <3>1, <3>2 DEF ShiftedWord, ShiftLeft
      <4>. QED  BY <2>2, <4>1, <4>2
    <3>3. CASE src > 0
      <4>1. r + (WordBits - bn) \in 0 .. WordBits - 1 /\ bn # 0
        BY <1>1, <1>2, <2>5, WindowAssumption DEF BitOfWord
      <4>2. src - 1 \in Nat /\ WordBits * src = WordBits * (src - 1) + WordBits
        BY <2>1, <3>3, WindowAssumption, SMT DEF WordIndex
      <4>3. d - n = WordBits * (src - 1) + (r + (WordBits - bn))
        BY <1>1, <1>2, <2>3, <4>2, WindowAssumption DEF BitOfWord
      <4>4. /\ (d - n) \div WordBits = src - 1
            /\ (d - n) % WordBits = r + (WordBits - bn)
        <5>1. /\ (WordBits * (src - 1) + (r + (WordBits - bn))) \div WordBits = src - 1
              /\ (WordBits * (src - 1) + (r + (WordBits - bn))) % WordBits
                   = r + (WordBits - bn)
          BY <4>1, <4>2, DivModUnique, WindowAssumption, Zenon
        <5>. QED  BY <4>3, <5>1, Zenon
      <4>5. WordBits * (src - 1) >= 0
        BY <4>2, WindowAssumption, SMT
      <4>6. n <= d
        BY <1>1, <4>1, <4>2, <4>3, <4>5, WindowAssumption
      <4>7. r \in ShiftedWord(bits, src, bn) <=> r + (WordBits - bn) \in bits[src - 1]
        BY <1>1, <3>1, <3>3, <4>1 DEF ShiftedWord, ShiftLeft, ShiftRight
      <4>. QED  BY <2>2, <4>4, <4>6, <4>7 DEF contains
    <3>. QED  BY <2>1, <3>2, <3>3, WindowAssumption DEF WordIndex
  <2>. QED  BY <1>1, <1>2, <2>4, <2>5, WindowAssumption DEF BitOfWord
<1>. QED  BY <1>1, <1>2, <1>3, <1>4, <1>5, <1>6, WindowAssumption DEF WordIndex

-----------------------------------------------------------------------------
(***************************************************************************)
(* The verdicts.                                                           *)
(***************************************************************************)
\* A window refuses a number that is not above the highest one accepted and
\* lies out of reach or has its bit set.
LEMMA RefusedIff ==
  ASSUME NEW w \in Window, NEW s \in Uint64
  PROVE  validateCandidate(w, s) # "ok" <=>
           /\ w.initialized
           /\ s <= w.highestSeen
           /\ \/ w.highestSeen - s >= Size
              \/ w.highestSeen - s > MaxInt64
              \/ contains(w.bits, w.highestSeen - s)
<1>. DEFINE x == w.highestSeen - s
<1>1. w.highestSeen \in Nat /\ s \in Nat /\ w.initialized \in BOOLEAN
  BY WindowAssumption DEF Window, Uint64
<1>2. Size \in Nat /\ MaxInt64 \in Nat
  BY WindowAssumption DEF Size
<1>3. CASE ~w.initialized \/ s > w.highestSeen
  BY <1>1, <1>3 DEF validateCandidate
<1>4. CASE w.initialized /\ s <= w.highestSeen
  <2>1. x \in Nat /\ x <= MaxUint64
    BY <1>1, <1>4, WindowAssumption DEF Window, Uint64
  <2>2. ToInt(x) = IF x <= MaxInt64 THEN x ELSE x - (MaxUint64 + 1)
    BY DEF ToInt
  <2>3. CASE x <= MaxInt64
    BY <1>1, <1>2, <1>4, <2>1, <2>2, <2>3 DEF validateCandidate
  <2>4. CASE x > MaxInt64
    <3>1. ToInt(x) < 0
      BY <1>2, <2>1, <2>2, <2>4, WindowAssumption
    <3>. QED  BY <1>1, <1>2, <1>4, <2>4, <3>1 DEF validateCandidate
  <2>. QED  BY <1>2, <2>1, <2>3, <2>4
<1>. QED  BY <1>1, <1>3, <1>4

\* The distance by which markSeen slides the window is the true one.
LEMMA SlideDistance ==
  ASSUME NEW w \in Window, NEW s \in Uint64, ~markPanics(w, s),
         w.initialized, s > w.highestSeen
  PROVE  /\ s - w.highestSeen \in Nat \ {0}
         /\ ToInt(s - w.highestSeen) = s - w.highestSeen
<1>1. w.highestSeen \in Nat /\ s \in Nat /\ s <= MaxUint64 /\ MaxInt64 \in Nat
  BY WindowAssumption DEF Window, Uint64
<1>2. ~(ToInt(s - w.highestSeen) < 0)
  BY DEF markPanics
<1>. QED  BY <1>1, <1>2, WindowAssumption DEF ToInt

\* The distance at which markSeen sets a bit behind the highest number.
LEMMA BackDistance ==
  ASSUME NEW w \in Window, NEW s \in Uint64, validateCandidate(w, s) = "ok",
         w.initialized, ~(s > w.highestSeen)
  PROVE  /\ w.highestSeen - s \in BitIndex
         /\ ToInt(w.highestSeen - s) = w.highestSeen - s
<1>1. w.highestSeen \in Nat /\ s \in Nat /\ MaxInt64 \in Nat /\ Size \in Nat
  BY WindowAssumption DEF Window, Uint64, Size
<1>2. w.highestSeen - s < Size /\ w.highestSeen - s <= MaxInt64
  BY <1>1, RefusedIff
<1>. QED  BY <1>1, <1>2 DEF ToInt, BitIndex

\* markSeen leaves a window.
LEMMA MarkSeenType ==
  ASSUME NEW w \in Window, NEW s \in Uint64,
         validateCandidate(w, s) = "ok", ~markPanics(w, s)
  PROVE  markSeen(w, s) \in Window
<1>1. w.initialized \in BOOLEAN /\ w.highestSeen \in Uint64 /\ w.bits \in Bits
  BY DEF Window
<1>2. CASE ~w.initialized
  <2>1. set(clear, 0) \in Bits
    BY ClearBits, SetType
  <2>. QED  BY <1>2, <2>1 DEF markSeen, Window
<1>3. CASE w.initialized /\ s > w.highestSeen
  <2>1. ToInt(s - w.highestSeen) \in Int
    BY <1>3, SlideDistance
  <2>2. set(shiftWindow(w.bits, ToInt(s - w.highestSeen)), 0) \in Bits
    BY <1>1, <2>1, ShiftType, SetType
  <2>. QED  BY <1>3, <2>2 DEF markSeen, Window
<1>4. CASE w.initialized /\ ~(s > w.highestSeen)
  <2>1. ToInt(w.highestSeen - s) \in Nat
    BY <1>4, BackDistance, WindowAssumption DEF BitIndex, Size
  <2>2. set(w.bits, ToInt(w.highestSeen - s)) \in Bits
    BY <1>1, <2>1, SetType
  <2>. QED  BY <1>4, <2>2 DEF markSeen, Window
<1>. QED  BY <1>1, <1>2, <1>3, <1>4

\* Once recorded, a number is refused, and recording a number never makes the
\* window forget that it refuses another one.
LEMMA MarkSeenRefuses ==
  ASSUME NEW w \in Window, NEW s \in Uint64,
         validateCandidate(w, s) = "ok", ~markPanics(w, s)
  PROVE  /\ validateCandidate(markSeen(w, s), s) # "ok"
         /\ \A t \in Uint64 : validateCandidate(w, t) # "ok" =>
                validateCandidate(markSeen(w, s), t) # "ok"
<1>. DEFINE w2 == markSeen(w, s)
<1>0. w2 \in Window
  BY MarkSeenType
<1>1. /\ w.initialized \in BOOLEAN /\ w.highestSeen \in Nat /\ w.bits \in Bits
      /\ s \in Nat /\ Size \in Nat \ {0} /\ MaxInt64 \in Nat /\ 0 \in BitIndex
  <2>1. Size \in Nat \ {0}
    BY WindowAssumption, SMT DEF Size
  <2>. QED  BY <2>1, WindowAssumption DEF Window, Uint64, BitIndex
<1>2. CASE ~w.initialized
  <2>1. w2.initialized /\ w2.highestSeen = s /\ w2.bits = set(clear, 0)
    BY <1>2 DEF markSeen
  <2>2. contains(w2.bits, s - s)
    BY <1>1, <2>1, ClearBits, SetContains
  <2>3. validateCandidate(w2, s) # "ok"
    BY <1>0, <1>1, <2>1, <2>2, RefusedIff
  <2>. QED  BY <1>2, <2>3, RefusedIff
<1>3. CASE w.initialized /\ s > w.highestSeen
  <2>. DEFINE n == s - w.highestSeen
  <2>1. n \in Nat \ {0} /\ ToInt(n) = n
    BY <1>3, SlideDistance
  <2>2. /\ w2.initialized /\ w2.highestSeen = s
        /\ w2.bits = set(shiftWindow(w.bits, n), 0)
    BY <1>3, <2>1 DEF markSeen
  <2>3. shiftWindow(w.bits, n) \in Bits
    BY <1>1, <2>1, ShiftType
  <2>4. contains(w2.bits, s - s)
    BY <1>1, <2>2, <2>3, SetContains
  <2>5. validateCandidate(w2, s) # "ok"
    BY <1>0, <1>1, <2>2, <2>4, RefusedIff
  <2>6. ASSUME NEW t \in Uint64, validateCandidate(w, t) # "ok"
        PROVE  validateCandidate(w2, t) # "ok"
    <3>1. t \in Nat /\ t <= w.highestSeen /\ t <= s
      BY <1>1, <1>3, <2>6, RefusedIff, WindowAssumption DEF Uint64
    <3>2. CASE s - t >= Size \/ s - t > MaxInt64
      BY <1>0, <2>2, <3>1, <3>2, RefusedIff
    <3>3. CASE s - t < Size /\ s - t <= MaxInt64
      <4>1. s - t \in BitIndex /\ w.highestSeen - t < Size /\ w.highestSeen - t <= MaxInt64
        BY <1>1, <1>3, <3>1, <3>3 DEF BitIndex
      <4>2. contains(w.bits, w.highestSeen - t)
        BY <1>1, <2>6, <3>1, <4>1, RefusedIff
      <4>3. n <= s - t /\ (s - t) - n = w.highestSeen - t
        BY <1>1, <3>1
      <4>4. contains(shiftWindow(w.bits, n), s - t)
        BY <1>1, <2>1, <4>1, <4>2, <4>3, ShiftContains, Zenon
      <4>5. contains(w2.bits, s - t)
        BY <1>1, <2>2, <2>3, <4>1, <4>4, SetContains
      <4>. QED  BY <1>0, <2>2, <3>1, <4>5, RefusedIff
    <3>. QED  BY <1>1, <3>1, <3>2, <3>3
  <2>. QED  BY <2>5, <2>6
<1>4. CASE w.initialized /\ ~(s > w.highestSeen)
  <2>. DEFINE n == w.highestSeen - s
  <2>1. n \in BitIndex /\ ToInt(n) = n /\ n < Size
    BY <1>1, <1>4, BackDistance DEF BitIndex
  <2>2. /\ w2.initialized /\ w2.highestSeen = w.highestSeen
        /\ w2.bits = set(w.bits, n)
    BY <1>4, <2>1 DEF markSeen, Window
  <2>3. contains(w2.bits, n)
    BY <1>1, <2>1, <2>2, SetContains
  <2>4. validateCandidate(w2, s) # "ok"
    BY <1>0, <1>1, <1>4, <2>2, <2>3, RefusedIff
  <2>5. ASSUME NEW t \in Uint64, validateCandidate(w, t) # "ok"
        PROVE  validateCandidate(w2, t) # "ok"
    <3>1. t \in Nat /\ t <= w.highestSeen
      BY <2>5, RefusedIff, WindowAssumption DEF Uint64
    <3>2. CASE w.highestSeen - t >= Size \/ w.highestSeen - t > MaxInt64
      BY <1>0, <2>2, <3>1, <3>2, RefusedIff
    <3>3. CASE w.highestSeen - t < Size /\ contains(w.bits, w.highestSeen - t)
      <4>1. w.highestSeen - t \in BitIndex
        BY <1>1, <3>1, <3>3 DEF BitIndex
      <4>2. contains(w2.bits, w.highestSeen - t)
        BY <1>1, <2>1, <2>2, <3>3, <4>1, SetContains
      <4>. QED  BY <1>0, <2>2, <3>1, <4>2, RefusedIff
    <3>. QED  BY <1>1, <2>5, <3>1, <3>2, <3>3, RefusedIff
  <2>. QED  BY <2>4, <2>5
<1>. QED  BY <1>1, <1>2, <1>3, <1>4

\* What recording a number that may be recorded does to the bits: the window
\* slides so that a new highest number stands at bit 0, or one bit is set.
LEMMA MarkSeenBits ==
  ASSUME NEW w \in Window, NEW s \in Uint64,
         validateCandidate(w, s) = "ok", ~markPanics(w, s), NEW d \in BitIndex
  PROVE  LET w2 == markSeen(w, s)
         IN  /\ w2.initialized
             /\ ~w.initialized =>
                  w2.highestSeen = s /\ (contains(w2.bits, d) <=> d = 0)
             /\ w.initialized /\ s > w.highestSeen =>
                  /\ w2.highestSeen = s
                  /\ contains(w2.bits, d) <=>
                       \/ d = 0
                       \/ s - w.highestSeen <= d /\ contains(w.bits, d - (s - w.highestSeen))
             /\ w.initialized /\ ~(s > w.highestSeen) =>
                  /\ w2.highestSeen = w.highestSeen
                  /\ contains(w2.bits, d) <=> d = w.highestSeen - s \/ contains(w.bits, d)
<1>. DEFINE w2 == markSeen(w, s)
<1>1. w.initialized \in BOOLEAN /\ w.bits \in Bits /\ 0 \in BitIndex
  <2>1. Size \in Nat \ {0}
    BY WindowAssumption, SMT DEF Size
  <2>. QED  BY <2>1 DEF Window, BitIndex
<1>2. CASE ~w.initialized
  <2>1. w2.initialized /\ w2.highestSeen = s /\ w2.bits = set(clear, 0)
    BY <1>2 DEF markSeen
  <2>. QED  BY <1>1, <1>2, <2>1, ClearBits, SetContains
<1>3. CASE w.initialized /\ s > w.highestSeen
  <2>. DEFINE n == s - w.highestSeen
  <2>1. n \in Nat \ {0} /\ ToInt(n) = n
    BY <1>3, SlideDistance
  <2>2. /\ w2.initialized /\ w2.highestSeen = s
        /\ w2.bits = set(shiftWindow(w.bits, n), 0)
    BY <1>3, <2>1 DEF markSeen
  <2>3. shiftWindow(w.bits, n) \in Bits
    BY <1>1, <2>1, ShiftType
  <2>4. contains(shiftWindow(w.bits, n), d) <=> n <= d /\ contains(w.bits, d - n)
    BY <1>1, <2>1, ShiftContains, Zenon
  <2>5. contains(w2.bits, d) <=> d = 0 \/ contains(shiftWindow(w.bits, n), d)
    BY <1>1, <2>2, <2>3, SetContains
  <2>. QED  BY <1>3, <2>2, <2>4, <2>5
<1>4. CASE w.initialized /\ ~(s > w.highestSeen)
  <2>. DEFINE n == w.highestSeen - s
  <2>1. n \in BitIndex /\ ToInt(n) = n /\ n < Size
    BY <1>4, BackDistance, WindowAssumption DEF BitIndex, Size
  <2>2. /\ w2.initialized /\ w2.highestSeen = w.highestSeen
        /\ w2.bits = set(w.bits, n)
    BY <1>4, <2>1 DEF markSeen, Window
  <2>. QED  BY <1>1, <1>4, <2>1, <2>2, SetContains
<1>. QED  BY <1>1, <1>2, <1>3, <1>4
=============================================================================
