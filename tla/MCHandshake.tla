---------------------------- MODULE MCHandshake -----------------------------
(***************************************************************************)
(* Models of Handshake.                                                    *)
(***************************************************************************)
EXTENDS Handshake, TLC

CONSTANTS i1, i2, r1, alice, bob, c1, c2, short, long

\* One attempt of each side.
Pair == {i1 :> alice @@ r1 :> bob}

\* Two attempts of one client at one server, or one of them by the server's own
\* identity, so that its frames in one role meet it in the other.
Mixed == {i1 :> alice @@ i2 :> alice @@ r1 :> bob,
          i1 :> alice @@ i2 :> bob @@ r1 :> bob}

PolicyOf(caps, maxPayload, limits) ==
  [caps |-> caps, maxPayload |-> maxPayload, limits |-> limits]

\* Overlapping, nested and disjoint capabilities, limits down to zero.
VariedPolicies ==
  {PolicyOf({c1, c2}, 2, long), PolicyOf({c1}, 1, short),
   PolicyOf({c2}, 2, short), PolicyOf({c1, c2}, 0, long)}

Always == [notBefore |-> 0, notAfter |-> MaxNow]
AlwaysOnly == {Always}
VariedWindows == {Always, [notBefore |-> 0, notAfter |-> 0], [notBefore |-> 1, notAfter |-> 1]}

Everyone == {{alice, bob}}
AnyStore == SUBSET {alice, bob}
=============================================================================
