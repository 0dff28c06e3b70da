---------------------------- MODULE Subscribers -----------------------------
(***************************************************************************)
(* app.StableSubscriberSet: a sorted list of clients per channel.  Every   *)
(* method holds the mutex throughout, so a call is one step; what can go   *)
(* wrong is the sharing of memory.  Slices are therefore modelled as Go    *)
(* has them: a slice is a length of some array, append writes into the     *)
(* array while there is room and moves to a new one when there is none,    *)
(* and sorting and filtering in place change every slice of that array.    *)
(***************************************************************************)
EXTENDS SequencesExt

CONSTANTS
  ChannelIDs,  \* channel numbers
  Clients,     \* client numbers
  Arrays,      \* addresses of arrays
  MaxCap,      \* bound: capacity of an array
  MaxHeld      \* bound: lists that callers of Subscribers keep

ASSUME SubscribersAssumption ==
  /\ Clients \subseteq Nat \ {0}
  /\ 0 \notin Arrays
  /\ MaxCap \in Nat
  /\ Cardinality(Arrays) >= Cardinality(ChannelIDs) + MaxHeld + 1
  /\ MaxCap > Cardinality(Clients)

VARIABLES
  heap,      \* the contents of each array
  subs,      \* StableSubscriberSet.subs
  held,      \* lists returned by Subscribers: slice, and value when last touched
  members    \* history: who was added and not removed since

setVars == <<heap, subs, held, members>>

-----------------------------------------------------------------------------
(***************************************************************************)
(* Slices.                                                                 *)
(***************************************************************************)
Slice(a, n) == [arr |-> a, len |-> n]
nil == Slice(0, 0)

ContentIn(h, s) == IF s.len = 0 THEN << >> ELSE SubSeq(h[s.arr], 1, s.len)
Content(s) == ContentIn(heap, s)
CapOf(s) == IF s.arr = 0 THEN 0 ELSE Len(heap[s.arr])

\* Writing list over the front of array a.
Overwritten(h, a, list) ==
  [h EXCEPT ![a] = list \o SubSeq(@, Len(list) + 1, Len(@))]

\* A new array with these contents; how much room it has is up to the runtime.
Allocated(h, a, list, cap) ==
  [h EXCEPT ![a] = list \o [i \in 1 .. cap - Len(list) |-> 0]]

\* The arrays that no slice reaches; the collector empties them.
InUse(ss, hs) == {ss[c].arr : c \in ChannelIDs} \cup {x.slice.arr : x \in hs}
Collected(h, ss, hs) == [a \in Arrays |-> IF a \in InUse(ss, hs) THEN h[a] ELSE << >>]
Free == Arrays \ InUse(subs, held)

SetInit ==
  /\ heap = [a \in Arrays |-> << >>]
  /\ subs = [c \in ChannelIDs |-> nil]
  /\ held = {}
  /\ members = [c \in ChannelIDs |-> {}]

-----------------------------------------------------------------------------
\* The ways to put n elements in order.
Orders == [n \in 0 .. MaxCap + 1 |-> Bijection(1 .. n, 1 .. n)]

\* What sort.Slice may leave of s: its elements in increasing order.
sortSlice(s) ==
  {r \in {[i \in 1 .. Len(s) |-> s[p[i]]] : p \in Orders[Len(s)]} :
     \A i, j \in 1 .. Len(s) : i < j => r[i] <= r[j]}

\* dedupe on a sorted list; it builds its answer in an array of its own.
dedupe(list) ==
  LET out[i \in 0 .. Len(list)] ==
        IF i = 0 THEN << >>
        ELSE IF out[i - 1] # << >> /\ Last(out[i - 1]) = list[i]
               THEN out[i - 1]
               ELSE Append(out[i - 1], list[i])
  IN  out[Len(list)]

\* Seeded fault: equal neighbours stay.
AddTwice(c, id) ==
  \E b \in Free, list \in sortSlice(Append(Content(subs[c]), id)) :
    \E cap \in Len(list) .. MaxCap :
      LET ss == [subs EXCEPT ![c] = Slice(b, Len(list))]
      IN  /\ subs' = ss
          /\ heap' = Collected(Allocated(heap, b, list, cap), ss, held)
          /\ members' = [members EXCEPT ![c] = @ \cup {id}]
          /\ UNCHANGED held

\* The append and the sort work in the array of subs[c] when it has room; the
\* slice that dedupe returns replaces it.
AddSubscriber(c, id) ==
  \E b \in Free, list \in sortSlice(Append(Content(subs[c]), id)) :
    LET old == subs[c]
        out == dedupe(list)
        sorted == IF old.len < CapOf(old) THEN Overwritten(heap, old.arr, list) ELSE heap
        ss  == [subs EXCEPT ![c] = Slice(b, Len(out))]
    IN  \E cap \in Len(out) .. MaxCap :
          /\ subs' = ss
          /\ heap' = Collected(Allocated(sorted, b, out, cap), ss, held)
          /\ members' = [members EXCEPT ![c] = @ \cup {id}]
          /\ UNCHANGED held

\* The loop of Remove: the elements other than id.
Without(list, id) ==
  LET kept[i \in 0 .. Len(list)] ==
        IF i = 0 THEN << >>
        ELSE IF list[i] # id THEN Append(kept[i - 1], list[i])
                             ELSE kept[i - 1]
  IN  kept[Len(list)]

\* out := list[:0] filters in the array of subs[c]; out never overtakes the
\* position that is read.
RemoveSubscriber(c, id) ==
  LET old == subs[c]
      out == Without(Content(old), id)
  IN  /\ subs' = [subs EXCEPT ![c] = Slice(old.arr, Len(out))]
      /\ heap' = IF old.arr = 0 THEN heap ELSE Overwritten(heap, old.arr, out)
      /\ members' = [members EXCEPT ![c] = @ \ {id}]
      /\ UNCHANGED held

\* Seeded fault: the copy goes to a buffer that an earlier caller still has.
SubscribersBuffered(c) ==
  LET src == Content(subs[c])
      fit == {x.slice.arr : x \in {y \in held : Len(heap[y.slice.arr]) >= Len(src)}}
  IN  \E a \in IF fit # {} THEN fit ELSE Free :
        /\ Cardinality(held) < MaxHeld
        /\ held' = held \cup {[slice |-> Slice(a, Len(src)), value |-> src]}
        /\ heap' = IF fit # {} THEN Overwritten(heap, a, src)
                               ELSE Allocated(heap, a, src, Len(src))
        /\ UNCHANGED <<subs, members>>

Subscribers(c) ==
  LET src == Content(subs[c])
  IN  \E a \in Free :
        /\ Cardinality(held) < MaxHeld
        /\ held' = held \cup {[slice |-> Slice(a, Len(src)), value |-> src]}
        /\ heap' = Allocated(heap, a, src, Len(src))
        /\ UNCHANGED <<subs, members>>

-----------------------------------------------------------------------------
(***************************************************************************)
(* What a caller may do with a list it was given.                          *)
(***************************************************************************)
WriteInto(x, i) ==
  LET h == [heap EXCEPT ![x.slice.arr][i] = 0]
  IN  /\ i \in 1 .. x.slice.len
      /\ heap' = h
      /\ held' = (held \ {x}) \cup {[x EXCEPT !.value = ContentIn(h, x.slice)]}
      /\ UNCHANGED <<subs, members>>

Drop(x) ==
  /\ held' = held \ {x}
  /\ heap' = Collected(heap, subs, held')
  /\ UNCHANGED <<subs, members>>

SetNext ==
  \/ \E c \in ChannelIDs, id \in Clients :
       AddSubscriber(c, id) \/ RemoveSubscriber(c, id)
  \/ \E c \in ChannelIDs : Subscribers(c)
  \/ \E x \in held : Drop(x) \/ \E i \in 1 .. MaxCap : WriteInto(x, i)

SetSpec == SetInit /\ [][SetNext]_setVars
-----------------------------------------------------------------------------
Slices == {nil} \cup [arr : Arrays, len : 0 .. MaxCap]

SetTypeOK ==
  /\ heap \in [Arrays -> Seq(Clients \cup {0})]
  /\ \A a \in Arrays : Len(heap[a]) <= MaxCap
  /\ subs \in [ChannelIDs -> Slices]
  /\ \A x \in held : x \in [slice : Slices \ {nil}, value : Seq(Clients \cup {0})]
  /\ members \in [ChannelIDs -> SUBSET Clients]

Increasing(list) == \A i, j \in 1 .. Len(list) : i < j => list[i] < list[j]

\* The list of a channel is its members, each once and in increasing order,
\* after any sequence of Add and Remove (app.go:299, 308) that reuses arrays,
\* and whatever callers write into the lists they were given.
SubscribersExact ==
  \A c \in ChannelIDs :
    /\ ToSet(Content(subs[c])) = members[c]
    /\ Increasing(Content(subs[c]))

\* A list that Subscribers (app.go:321) returned never changes under the hands
\* of its caller: not by the sort and the filter that work in place, not when
\* its array would be appended to.
HeldListsStable ==
  \A x \in held : Content(x.slice) = x.value
=============================================================================
