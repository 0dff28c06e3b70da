------------------------------- MODULE MCWire -------------------------------
(***************************************************************************)
(* A model of Wire.  Key IDs have every short content, and every length    *)
(* around the lengths at which a limit is reached.                         *)
(***************************************************************************)
EXTENDS Wire

KeyIDs == BoundedSeq({0, 1}, 2) \cup {[i \in 1 .. n |-> 1] : n \in {3, 4, 5, 13, 14, MaxU16 + 1}}

Usual == [BundleVersion |-> 1, SigAlg |-> 1, KeyID |-> <<1>>, NotBeforeUnix |-> 0,
          NotAfterUnix |-> 1, X25519StaticPublic |-> <<1>>, Ed25519Public |-> <<2>>,
          Signature |-> <<3>>]

\* All key IDs and both ends of the validity; the other fields one at a time,
\* and the two static keys exchanged.
Bundles ==
  {[Usual EXCEPT !.KeyID = k, !.NotAfterUnix = t] : k \in KeyIDs, t \in {1, ValuesOf(W64) - 1}}
    \cup {[Usual EXCEPT !.BundleVersion = 2], [Usual EXCEPT !.SigAlg = 2],
          [Usual EXCEPT !.NotBeforeUnix = 1], [Usual EXCEPT !.Signature = <<4>>],
          [Usual EXCEPT !.X25519StaticPublic = <<2>>], [Usual EXCEPT !.Ed25519Public = <<1>>],
          [Usual EXCEPT !.X25519StaticPublic = <<2>>, !.Ed25519Public = <<1>>]}

Wide(n) == {[i \in 1 .. k |-> 1] : k \in n}

Everything ==
  [clientHello  |-> [CapabilityBits : {0, 1}, RequestedMaxPayload : {ValuesOf(W32) - 1},
                     EphPublic : {<<0>>, <<1>>}, IdentityBundle : Bundles],
   serverHello  |-> [AcceptedCapabilityBits : {1}, AcceptedMaxPayload : {7},
                     EphPublic : {<<0>>, <<1>>}, IdentityBundle : Bundles,
                     TranscriptSignature : {<<3>>, <<4>>}],
   clientFinish |-> [MaxRekeyBytes : {ValuesOf(W64) - 1}, MaxRekeySeconds : {7}, RoleHint : 0 .. 3,
                     TranscriptSignature : {<<4>>}],
   heartbeat    |-> {<< >>},
   message      |-> [ChannelID : {1}, Seq : {0, ValuesOf(W32) - 1}, MsgType : {AppTypeData, AppTypeAck},
                     Payload : Wide({0, 1, MaxAppPayload, MaxAppPayload + 1})],
   ack          |-> [ChannelID : {2}, AckedSeq : {7}, IsNak : BOOLEAN],
   chunk        |-> [ChannelID : {2}, Seq : {1}, ChunkIndex : {0, 3}, ChunkTotal : {4},
                     Payload : Wide({0, 2})]]
=============================================================================
