------------------------------ MODULE MCClient ------------------------------
(***************************************************************************)
(* A model of Client: a rekey policy that is never reached.                *)
(***************************************************************************)
EXTENDS Client

Relaxed == [maxBytes |-> MaxUint64, maxAge |-> MaxClock + 1]
RelaxedOnly == {Relaxed}
SomePayloads == [channel : Channels, seq : 0 .. MaxUint32] \cup {Garbage}
DefaultRouter == {WithDefaults}
NoLength == [p \in Payloads |-> 0]
=============================================================================
