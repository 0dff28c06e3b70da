------------------------- MODULE MCClientHandshake --------------------------
(***************************************************************************)
(* A model of ClientHandshake: environments with one thing wrong each.     *)
(***************************************************************************)
EXTENDS ClientHandshake

Good == [seeds |-> "both", keyID |-> "fits", validity |-> 0, parses |-> TRUE,
         pins |-> <<Server, "blank">>]

SomeEnvs ==
  {Good,
   [Good EXCEPT !.seeds = "one"],
   [Good EXCEPT !.keyID = "tooLong"],
   [Good EXCEPT !.keyID = "unsendable"],
   [Good EXCEPT !.parses = FALSE],
   [Good EXCEPT !.validity = MaxUint64 - FirstNow + 2],
   [Good EXCEPT !.pins = <<Server, "other", "malformed">>],
   [Good EXCEPT !.pins = <<"blank">>]}

SomeStores == {{}, {Server}}
=============================================================================
