------------------------------ MODULE MCFraming -----------------------------
(***************************************************************************)
(* A model of Framing: a heartbeat and a record.                           *)
(***************************************************************************)
EXTENDS Framing

HeartbeatAndRecord == {NewFrame(3, << >>), NewFrame(4, <<1, 0>>)}
=============================================================================
