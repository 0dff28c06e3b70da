--------------------------- MODULE HandshakeProofs --------------------------
(***************************************************************************)
(* Proofs about Handshake, for every number of objects and identities,     *)
(* every way of owning them, every policy and every bound.                 *)
(***************************************************************************)
EXTENDS Handshake, TLAPS

-----------------------------------------------------------------------------
(***************************************************************************)
(* Type correctness.                                                       *)
(***************************************************************************)
\* The fields of what an object was created with.
LEMMA LocalFields ==
  ASSUME TypeOK, NEW o \in Objects
  PROVE  /\ Identity(o) \in Identities
         /\ local[o].policy.caps \in SUBSET CapBits
         /\ local[o].policy.maxPayload \in Payloads
         /\ local[o].policy.maxPayload \in Nat
         /\ local[o].policy.limits \in RekeyLimits
         /\ local[o].bundle \in Bundles
<1>1. local[o] \in [identity : Identities, policy : Policies, bundle : Bundles]
  BY DEF TypeOK
<1>2. local[o].policy \in Policy
  BY <1>1, HandshakeAssumption
<1>3. Payloads \subseteq Nat
  BY HandshakeAssumption
<1>. QED  BY <1>1, <1>2, <1>3 DEF Identity, Policy

\* The bundles of identity.go have the fields of a bundle.
LEMMA IssuedBundle ==
  ASSUME NEW identity \in Identities, NEW window \in Windows
  PROVE  /\ SignedIdentityBundle(identity, window) \in Bundles
         /\ SignedIdentityBundle(identity, window).body.owner = identity
<1>1. window.notBefore \in Nat /\ window.notAfter \in Nat
  BY HandshakeAssumption
<1>2. BundleBody(identity, window) \in
        [owner : Identities, format : {"v1-ed25519"}, notBefore : Nat, notAfter : Nat]
  BY <1>1 DEF BundleBody
<1>3. BundleBody(identity, window).owner = identity
  BY DEF BundleBody
<1>. QED  BY <1>2, <1>3 DEF SignedIdentityBundle, Sign, Bundles

\* A hello of an initiator, field by field.
LEMMA ClientHelloFields ==
  ASSUME TypeOK, NEW i \in Objects
  PROVE  /\ ClientHello(i) \in Hellos
         /\ ClientHello(i).caps = local[i].policy.caps
         /\ ClientHello(i).maxPayload = local[i].policy.maxPayload
         /\ ClientHello(i).eph = i
         /\ ClientHello(i).bundle = local[i].bundle
BY LocalFields DEF ClientHello, Hellos

\* An answer of a responder, field by field; the payload limit is the smaller
\* of the two.
LEMMA ServerHelloFields ==
  ASSUME TypeOK, NEW r \in Objects, NEW ch \in Hellos
  PROVE  /\ ServerHello(r, ch) \in Hellos
         /\ ServerHello(r, ch).caps = ch.caps \cap local[r].policy.caps
         /\ ServerHello(r, ch).maxPayload \in {ch.maxPayload, local[r].policy.maxPayload}
         /\ ServerHello(r, ch).maxPayload <= ch.maxPayload
         /\ ServerHello(r, ch).maxPayload <= local[r].policy.maxPayload
         /\ ServerHello(r, ch).eph = r
         /\ ServerHello(r, ch).bundle = local[r].bundle
<1>. DEFINE limit == IF ch.maxPayload > local[r].policy.maxPayload
                       THEN local[r].policy.maxPayload ELSE ch.maxPayload
<1>1. ch.caps \in SUBSET CapBits /\ ch.maxPayload \in Payloads
  BY DEF Hellos
<1>2. ch.maxPayload \in Nat /\ local[r].policy.maxPayload \in Nat
      /\ local[r].policy.maxPayload \in Payloads
  BY <1>1, LocalFields, HandshakeAssumption
<1>3. /\ limit \in {ch.maxPayload, local[r].policy.maxPayload} /\ limit \in Payloads
      /\ limit <= ch.maxPayload /\ limit <= local[r].policy.maxPayload
  BY <1>1, <1>2
<1>4. ServerHello(r, ch) =
        [caps |-> ch.caps \cap local[r].policy.caps, maxPayload |-> limit,
         eph |-> r, bundle |-> local[r].bundle]
  BY DEF ServerHello
<1>5. ch.caps \cap local[r].policy.caps \in SUBSET CapBits /\ local[r].bundle \in Bundles
  BY <1>1, LocalFields
<1>. HIDE DEF limit
<1>. QED  BY <1>3, <1>4, <1>5 DEF Hellos

\* What an object signs is a signature, and none is missing.
LEMMA SignatureType ==
  ASSUME NEW identity \in Identities, NEW ch \in Hellos, NEW sh \in Hellos
  PROVE  /\ Transcript(ch, sh) \in Transcripts
         /\ Sign(identity, serverSignatureMessage(ch, sh)) \in Signatures
         /\ Sign(identity, clientSignatureMessage(ch, sh)) \in Signatures
<1>1. /\ ch.eph \in Objects /\ sh.eph \in Objects
      /\ ch.bundle.body.owner \in Identities /\ sh.bundle.body.owner \in Identities
  BY DEF Hellos, Bundles
<1>2. Transcript(ch, sh) \in Transcripts
  BY DEF Transcript, Transcripts
<1>. HIDE DEF Transcripts
<1>3. \A label \in {"SERVER_HELLO_SIG", "CLIENT_FINISH_SIG"} :
        SignatureMessage(label, ch, sh) \in
          [label : {"SERVER_HELLO_SIG", "CLIENT_FINISH_SIG"}, transcript : Transcripts,
           ephs : Objects \X Objects, statics : Identities \X Identities]
  BY <1>1, <1>2 DEF SignatureMessage
<1>. QED
  BY <1>2, <1>3 DEF Sign, Signatures, serverSignatureMessage, clientSignatureMessage

\* A bundle that was changed on the way still has the fields of a bundle.
LEMMA AllBundlesType ==
  ASSUME TypeOK
  PROVE  AllBundles \subseteq Bundles
<1>1. ASSUME NEW o \in Objects
      PROVE  /\ local[o].bundle \in Bundles
             /\ [local[o].bundle EXCEPT !.body.notAfter = MaxNow] \in Bundles
             /\ [local[o].bundle EXCEPT !.body.format = "unknown"] \in Bundles
  <2>1. local[o].bundle \in Bundles
    BY LocalFields
  <2>. QED  BY <2>1, HandshakeAssumption DEF Bundles
<1>2. ASSUME NEW b \in AllBundles
      PROVE  \E o \in Objects :
               \/ b = local[o].bundle
               \/ b = [local[o].bundle EXCEPT !.body.notAfter = MaxNow]
               \/ b = [local[o].bundle EXCEPT !.body.format = "unknown"]
  BY DEF AllBundles
<1>. QED  BY <1>1, <1>2

\* A frame that arrives is a frame of the type asked for, and its signature
\* comes from a frame that was sent; if frames are not changed on the way, it
\* was sent itself.
LEMMA ArrivingFacts ==
  ASSUME TypeOK, NEW type \in {"ClientHello", "ServerHello", "ClientFinish"},
         NEW m \in Arriving(type)
  PROVE  /\ m.type = type /\ m \in Frames
         /\ \E n \in net : m.sig = n.sig
         /\ ~Damage => m \in net
<1>1. CASE m \in SentFrames(type)
  BY <1>1 DEF SentFrames, TypeOK
<1>2. ASSUME Damage, NEW n \in SentFrames(type), m \in Damaged(n)
      PROVE  /\ m.type = type /\ m \in Frames
             /\ \E k \in net : m.sig = k.sig
  <2>1. n \in net /\ n \in Frames /\ n.type = type
    BY DEF SentFrames, TypeOK
  <2>2. CASE \E k \in net : m = [n EXCEPT !.sig = k.sig]
    <3>1. PICK k \in net : m = [n EXCEPT !.sig = k.sig]
      BY <2>2
    <3>2. k.sig \in Signatures \cup {Nil}
      BY DEF TypeOK, Frames
    <3>. QED  BY <2>1, <3>1, <3>2 DEF Frames
  <2>3. ASSUME NEW b, b \in IF type = "ClientFinish" THEN RekeyLimits ELSE Hellos,
               m = [n EXCEPT !.body = b]
        PROVE  /\ m.type = type /\ m \in Frames
               /\ \E k \in net : m.sig = k.sig
    BY <2>1, <2>3 DEF Frames
  <2>4. CASE n.type = "ClientFinish" /\ \E b \in RekeyLimits : m = [n EXCEPT !.body = b]
    BY <2>1, <2>3, <2>4
  <2>5. ASSUME n.type # "ClientFinish", NEW b,
               \/ \E c \in SUBSET CapBits : b = [n.body EXCEPT !.caps = c]
               \/ \E p \in Payloads : b = [n.body EXCEPT !.maxPayload = p]
               \/ \E o \in Objects : b = [n.body EXCEPT !.eph = o]
               \/ \E u \in AllBundles : b = [n.body EXCEPT !.bundle = u]
        PROVE  b \in Hellos
    <3>1. n.body \in Hellos
      BY <2>1, <2>5 DEF Frames
    <3>. QED  BY <2>5, <3>1, AllBundlesType DEF Hellos
  <2>6. CASE /\ n.type # "ClientFinish"
             /\ ~ \E k \in net : m = [n EXCEPT !.sig = k.sig]
    <3>1. PICK b :
            /\ m = [n EXCEPT !.body = b]
            /\ \/ \E c \in SUBSET CapBits : b = [n.body EXCEPT !.caps = c]
               \/ \E p \in Payloads : b = [n.body EXCEPT !.maxPayload = p]
               \/ \E o \in Objects : b = [n.body EXCEPT !.eph = o]
               \/ \E u \in AllBundles : b = [n.body EXCEPT !.bundle = u]
      BY <1>2, <2>6 DEF Damaged
    <3>2. b \in Hellos
      BY <2>5, <2>6, <3>1
    <3>. QED  BY <2>1, <2>3, <2>6, <3>1, <3>2
  <2>7. CASE /\ n.type = "ClientFinish"
             /\ ~ \E k \in net : m = [n EXCEPT !.sig = k.sig]
    BY <1>2, <2>4, <2>7 DEF Damaged
  <2>. QED  BY <2>2, <2>6, <2>7
<1>3. m \in SentFrames(type) \/ (Damage /\ \E n \in SentFrames(type) : m \in Damaged(n))
  BY DEF Arriving
<1>. QED  BY <1>1, <1>2, <1>3

LEMMA HelloBody ==
  ASSUME NEW m \in Frames, m.type # "ClientFinish"
  PROVE  m.body \in Hellos
BY DEF Frames

LEMMA InitTypeOK == Init => TypeOK
<1>. SUFFICES ASSUME Init PROVE TypeOK
  OBVIOUS
<1>1. PICK owner \in Owners, policy \in [Objects -> Policies], window \in [Objects -> Windows] :
        local = [o \in Objects |->
                   [identity |-> owner[o], policy |-> policy[o],
                    bundle |-> SignedIdentityBundle(owner[o], window[o])]]
  BY DEF Init
<1>2. \A o \in Objects : owner[o] \in Identities
  BY HandshakeAssumption
<1>3. \A o \in Objects : SignedIdentityBundle(owner[o], window[o]) \in Bundles
  BY <1>2, IssuedBundle
<1>4. local \in [Objects -> [identity : Identities, policy : Policies, bundle : Bundles]]
  BY <1>1, <1>2, <1>3
<1>5. trustStore \in [Objects -> SUBSET Identities]
  BY HandshakeAssumption DEF Init
<1>6. now \in 0 .. MaxNow
  BY HandshakeAssumption DEF Init
<1>. QED  BY <1>4, <1>5, <1>6 DEF Init, TypeOK

LEMMA NextTypeOK == TypeOK /\ [Next]_vars => TypeOK'
<1>. SUFFICES ASSUME TypeOK, [Next]_vars PROVE TypeOK'
  OBVIOUS
<1>1. ASSUME NEW i \in Initiators, BuildClientHello(i) PROVE TypeOK'
  <2>1. i \in Objects
    BY DEF Objects
  <2>2. ClientHello(i) \in Hellos
    BY <2>1, ClientHelloFields
  <2>3. HelloFrame(ClientHello(i)) \in Frames
    BY <2>2 DEF HelloFrame, Frames
  <2>. QED  BY <1>1, <2>1, <2>2, <2>3 DEF BuildClientHello, TypeOK
<1>2. ASSUME NEW i \in Initiators, NEW m \in Arriving("ServerHello"), HandleServerHello(i, m)
      PROVE  TypeOK'
  <2>1. m.body \in Hellos
    BY ArrivingFacts, HelloBody
  <2>. QED  BY <1>2, <2>1 DEF HandleServerHello, TypeOK, Objects
<1>3. ASSUME NEW i \in Initiators, BuildClientFinish(i) PROVE TypeOK'
  <2>1. i \in Objects
    BY DEF Objects
  <2>2. clientHello[i] \in Hellos /\ serverHello[i] \in Hellos
    BY <1>3, <2>1 DEF BuildClientFinish, Answered, TypeOK
  <2>. DEFINE sig == Sign(Identity(i), clientSignatureMessage(clientHello[i], serverHello[i]))
              t == Transcript(clientHello[i], serverHello[i])
              f == FinishFrame(local[i].policy.limits, sig)
  <2>3. sig \in Signatures /\ t \in Transcripts
    BY <2>1, <2>2, SignatureType, LocalFields
  <2>4. f \in Frames
    <3>. HIDE DEF sig
    <3>. QED  BY <2>1, <2>3, LocalFields DEF FinishFrame, Frames
  <2>5. net' = net \cup {f} /\ signed' = [signed EXCEPT ![i] = @ \cup {t}]
        /\ UNCHANGED <<local, trustStore, clientHello, serverHello, now, outputs>>
    BY <1>3 DEF BuildClientFinish
  <2>. HIDE DEF f, t, sig
  <2>. QED  BY <2>1, <2>3, <2>4, <2>5 DEF TypeOK
<1>4. ASSUME NEW i \in Initiators, Finalize(i) PROVE TypeOK'
  <2>1. i \in Objects
    BY DEF Objects
  <2>2. PICK u : /\ outputs' = [outputs EXCEPT ![i] = @ \cup {u}]
                 /\ u.maxPayload = serverHello[i].maxPayload
                 /\ u.limits = local[i].policy.limits
    <3>. DEFINE ch == clientHello[i]
                sh == serverHello[i]
                u == Output("initiator",
                            deriveTransportKeys("initiator", Transcript(ch, sh), InitiatorSecrets(i, sh)),
                            sh.bundle, ch.caps \cap sh.caps, sh.maxPayload,
                            local[i].policy.limits)
    <3>1. outputs' = [outputs EXCEPT ![i] = @ \cup {u}]
      BY <1>4 DEF Finalize
    <3>2. u.maxPayload = sh.maxPayload /\ u.limits = local[i].policy.limits
      BY DEF Output
    <3>. HIDE DEF u
    <3>. QED  BY <3>1, <3>2
  <2>3. serverHello[i].maxPayload \in Payloads
    BY <1>4, <2>1 DEF Finalize, Answered, TypeOK, Hellos
  <2>4. UNCHANGED <<local, trustStore, clientHello, serverHello, net, now, signed>>
    BY <1>4 DEF Finalize
  <2>. QED  BY <2>1, <2>2, <2>3, <2>4, LocalFields DEF TypeOK
<1>5. ASSUME NEW r \in Responders, NEW m \in Arriving("ClientHello"), HandleClientHello(r, m)
      PROVE  TypeOK'
  <2>1. r \in Objects /\ m.body \in Hellos
    BY ArrivingFacts, HelloBody DEF Objects
  <2>. DEFINE sh == ServerHello(r, m.body)
              sig == Sign(Identity(r), serverSignatureMessage(m.body, sh))
              t == Transcript(m.body, sh)
  <2>2. sh \in Hellos
    BY <2>1, ServerHelloFields
  <2>3. sig \in Signatures /\ t \in Transcripts
    BY <2>1, <2>2, SignatureType, LocalFields
  <2>4. AnswerFrame(sh, sig) \in Frames
    <3>. HIDE DEF sig, sh
    <3>. QED  BY <2>2, <2>3 DEF AnswerFrame, Frames
  <2>5. /\ clientHello' = [clientHello EXCEPT ![r] = m.body]
        /\ serverHello' = [serverHello EXCEPT ![r] = sh]
        /\ net' = net \cup {AnswerFrame(sh, sig)}
        /\ signed' = [signed EXCEPT ![r] = @ \cup {t}]
        /\ UNCHANGED <<local, trustStore, now, outputs>>
    BY <1>5 DEF HandleClientHello
  <2>. HIDE DEF t, sig, sh
  <2>. QED  BY <2>1, <2>2, <2>3, <2>4, <2>5 DEF TypeOK
<1>6. ASSUME NEW r \in Responders, NEW m \in Arriving("ClientFinish"), HandleClientFinish(r, m)
      PROVE  TypeOK'
  <2>1. r \in Objects /\ m.body \in RekeyLimits
    BY ArrivingFacts DEF Objects, Frames
  <2>2. PICK u : /\ outputs' = [outputs EXCEPT ![r] = @ \cup {u}]
                 /\ u.maxPayload = serverHello[r].maxPayload
                 /\ u.limits = m.body
    <3>. DEFINE ch == clientHello[r]
                sh == serverHello[r]
                u == Output("responder",
                            deriveTransportKeys("responder", Transcript(ch, sh), ResponderSecrets(r, ch)),
                            ch.bundle, sh.caps, sh.maxPayload, m.body)
    <3>1. outputs' = [outputs EXCEPT ![r] = @ \cup {u}]
      BY <1>6 DEF HandleClientFinish
    <3>2. u.maxPayload = sh.maxPayload /\ u.limits = m.body
      BY DEF Output
    <3>. HIDE DEF u
    <3>. QED  BY <3>1, <3>2
  <2>3. serverHello[r].maxPayload \in Payloads
    BY <1>6, <2>1 DEF HandleClientFinish, FinishAcceptable, Answered, TypeOK, Hellos
  <2>4. UNCHANGED <<local, trustStore, clientHello, serverHello, net, now, signed>>
    BY <1>6 DEF HandleClientFinish
  <2>. QED  BY <2>1, <2>2, <2>3, <2>4 DEF TypeOK
<1>7. ASSUME NEW o \in Objects, NEW k \in Identities, Pin(o, k) PROVE TypeOK'
  BY <1>7 DEF Pin, TypeOK
<1>8. CASE Tick
  BY <1>8, HandshakeAssumption DEF Tick, TypeOK
<1>9. CASE UNCHANGED vars
  BY <1>9 DEF vars, TypeOK
<1>. QED  BY <1>1, <1>2, <1>3, <1>4, <1>5, <1>6, <1>7, <1>8, <1>9 DEF Next

\* Every hello, answer, signature and frame keeps the fields of its kind,
\* whatever arrives and in whatever order (handshake.go:743-1076).
THEOREM HandshakeTypeOK == Spec => []TypeOK
BY InitTypeOK, NextTypeOK, PTL DEF Spec
-----------------------------------------------------------------------------
(***************************************************************************)
(* Authentication.  What is returned rests on what is kept, what is kept   *)
(* on the signatures that arrive, and those on what was signed: each link  *)
(* is a part of the inductive invariant.                                   *)
(***************************************************************************)
\* What Finalize and HandleClientFinish return for a transcript.
InitiatorOutput(i, t) ==
  Output("initiator", deriveTransportKeys("initiator", t, InitiatorSecrets(i, t.server)),
         t.server.bundle, t.client.caps \cap t.server.caps, t.server.maxPayload,
         local[i].policy.limits)

ResponderOutput(r, t, limits) ==
  Output("responder", deriveTransportKeys("responder", t, ResponderSecrets(r, t.client)),
         t.client.bundle, t.server.caps, t.server.maxPayload, limits)

\* The two signatures over a transcript.
ServerSignature(r, t) == Sign(Identity(r), serverSignatureMessage(t.client, t.server))
ClientSignature(i, t) == Sign(Identity(i), clientSignatureMessage(t.client, t.server))

\* A bundle names the identity of the object that it was issued to.
BundlesHonest == \A o \in Objects : local[o].bundle.body.owner = Identity(o)

\* A responder has signed only answers of its own, with something granted; an
\* initiator only for its own hello.
SignedOwn ==
  /\ \A r \in Responders : \A t \in signed[r] :
       t.server = ServerHello(r, t.client) /\ t.server.caps # {} /\ t.server.maxPayload # 0
  /\ \A i \in Initiators : \A t \in signed[i] : t.client = ClientHello(i)

\* Every signature in a frame was made by an object that has noted it.
SignaturesMade ==
  \A m \in net :
    \/ m.sig = Nil
    \/ \E r \in Responders : \E t \in signed[r] : m.sig = ServerSignature(r, t)
    \/ \E i \in Initiators : \E t \in signed[i] : m.sig = ClientSignature(i, t)

\* An initiator keeps its own hello and an answer that a responder has signed
\* for it; a responder keeps a hello and an answer that it has signed.
HellosKept ==
  /\ \A i \in Initiators :
       /\ clientHello[i] # Nil => clientHello[i] = ClientHello(i)
       /\ serverHello[i] # Nil =>
            \E r \in Responders : Transcript(ClientHello(i), serverHello[i]) \in signed[r]
  /\ \A r \in Responders : Answered(r) => Transcript(clientHello[r], serverHello[r]) \in signed[r]

\* Outputs come from transcripts that the other end has signed.
OutputsEarned ==
  /\ \A i \in Initiators : \A a \in outputs[i] :
       \E r \in Responders : \E t \in signed[r] :
         t.client = ClientHello(i) /\ a = InitiatorOutput(i, t)
  /\ \A r \in Responders : \A b \in outputs[r] :
       \E i \in Initiators : \E t \in signed[i] \cap signed[r] :
         b = ResponderOutput(r, t, b.limits)

AuthInv ==
  /\ TypeOK /\ BundlesHonest /\ SignedOwn
  /\ SignaturesMade /\ HellosKept /\ OutputsEarned

\* If frames arrive as they were sent, a ClientFinish carries the rekey limits
\* of the initiator that has signed it, and a responder has taken them over.
FinishesCarryLimits ==
  \A m \in net : m.type = "ClientFinish" =>
    \E i \in Initiators : \E t \in signed[i] :
      m.sig = ClientSignature(i, t) /\ m.body = local[i].policy.limits

LimitsTaken ==
  \A r \in Responders : \A b \in outputs[r] :
    \E i \in Initiators :
      b.keys.sessionID.client.eph = i /\ b.limits = local[i].policy.limits

LimitsInv == FinishesCarryLimits /\ LimitsTaken

\* A transcript is its two hellos.
LEMMA TranscriptFields ==
  /\ \A ch, sh : Transcript(ch, sh).client = ch /\ Transcript(ch, sh).server = sh
  /\ \A t \in Transcripts :
       t.client \in Hellos /\ t.server \in Hellos /\ t = Transcript(t.client, t.server)
<1>1. \A ch, sh : Transcript(ch, sh).client = ch /\ Transcript(ch, sh).server = sh
  BY DEF Transcript
<1>2. ASSUME NEW t \in Transcripts
      PROVE  t.client \in Hellos /\ t.server \in Hellos /\ t = Transcript(t.client, t.server)
  <2>. HIDE DEF Hellos
  <2>. QED  BY DEF Transcripts, Transcript
<1>. QED  BY <1>1, <1>2

\* A signature tells its signer, its role and the two hellos.
LEMMA SignatureInjective ==
  ASSUME NEW a, NEW b, NEW ch, NEW sh, NEW ch2, NEW sh2
  PROVE  /\ Sign(a, serverSignatureMessage(ch, sh)) = Sign(b, serverSignatureMessage(ch2, sh2))
              => a = b /\ ch = ch2 /\ sh = sh2
         /\ Sign(a, clientSignatureMessage(ch, sh)) = Sign(b, clientSignatureMessage(ch2, sh2))
              => a = b /\ ch = ch2 /\ sh = sh2
         /\ Sign(a, serverSignatureMessage(ch, sh)) # Sign(b, clientSignatureMessage(ch2, sh2))
<1>1. \A label : /\ Sign(a, SignatureMessage(label, ch, sh)).by = a
                 /\ Sign(a, SignatureMessage(label, ch, sh)).message.label = label
                 /\ Sign(a, SignatureMessage(label, ch, sh)).message.transcript.client = ch
                 /\ Sign(a, SignatureMessage(label, ch, sh)).message.transcript.server = sh
  BY DEF Sign, SignatureMessage, Transcript
<1>2. \A label : /\ Sign(b, SignatureMessage(label, ch2, sh2)).by = b
                 /\ Sign(b, SignatureMessage(label, ch2, sh2)).message.label = label
                 /\ Sign(b, SignatureMessage(label, ch2, sh2)).message.transcript.client = ch2
                 /\ Sign(b, SignatureMessage(label, ch2, sh2)).message.transcript.server = sh2
  BY DEF Sign, SignatureMessage, Transcript
<1>3. "SERVER_HELLO_SIG" # "CLIENT_FINISH_SIG"
  OBVIOUS
<1>. QED  BY <1>1, <1>2, <1>3 DEF serverSignatureMessage, clientSignatureMessage

\* What follows from an object's own data stays when the data stays.
LEMMA SameLocal ==
  ASSUME local' = local
  PROVE  /\ \A o : Identity(o)' = Identity(o) /\ ClientHello(o)' = ClientHello(o)
         /\ \A o, ch : ServerHello(o, ch)' = ServerHello(o, ch)
         /\ \A o, t : ServerSignature(o, t)' = ServerSignature(o, t)
         /\ \A o, t : ClientSignature(o, t)' = ClientSignature(o, t)
         /\ \A o, t : InitiatorOutput(o, t)' = InitiatorOutput(o, t)
         /\ \A o, t, l : ResponderOutput(o, t, l)' = ResponderOutput(o, t, l)
<1>1. \A o : Identity(o)' = Identity(o)
  BY DEF Identity
<1>2. \A o : ClientHello(o)' = ClientHello(o)
  BY DEF ClientHello
<1>3. \A o, ch : ServerHello(o, ch)' = ServerHello(o, ch)
  BY DEF ServerHello
<1>4. \A o, t : ServerSignature(o, t)' = ServerSignature(o, t)
                /\ ClientSignature(o, t)' = ClientSignature(o, t)
  BY <1>1 DEF ServerSignature, ClientSignature
<1>5. \A o, t : InitiatorOutput(o, t)' = InitiatorOutput(o, t)
  BY <1>1 DEF InitiatorOutput, InitiatorSecrets
<1>6. \A o, t, l : ResponderOutput(o, t, l)' = ResponderOutput(o, t, l)
  BY <1>1 DEF ResponderOutput, ResponderSecrets
<1>. QED  BY <1>1, <1>2, <1>3, <1>4, <1>5, <1>6

\* A part of the invariant stays when the variables that it is about stay and
\* nothing that was signed is forgotten.
LEMMA PartsKept ==
  ASSUME local' = local, \A o \in Objects : signed[o] \subseteq signed'[o]
  PROVE  /\ BundlesHonest => BundlesHonest'
         /\ SignedOwn /\ signed' = signed => SignedOwn'
         /\ SignaturesMade /\ net' = net => SignaturesMade'
         /\ HellosKept /\ clientHello' = clientHello /\ serverHello' = serverHello => HellosKept'
         /\ OutputsEarned /\ outputs' = outputs => OutputsEarned'
<1>. \A o : (o \in Initiators \/ o \in Responders) <=> o \in Objects
  BY DEF Objects
<1>1. BundlesHonest => BundlesHonest'
  BY SameLocal DEF BundlesHonest
<1>2. SignedOwn /\ signed' = signed => SignedOwn'
  BY SameLocal DEF SignedOwn
<1>3. SignaturesMade /\ net' = net => SignaturesMade'
  BY SameLocal DEF SignaturesMade
<1>4. HellosKept /\ clientHello' = clientHello /\ serverHello' = serverHello => HellosKept'
  BY SameLocal DEF HellosKept, Answered
<1>5. OutputsEarned /\ outputs' = outputs => OutputsEarned'
  BY SameLocal DEF OutputsEarned
<1>. QED  BY <1>1, <1>2, <1>3, <1>4, <1>5
LEMMA AuthInit == Init => AuthInv
<1>. SUFFICES ASSUME Init PROVE AuthInv
  OBVIOUS
<1>1. BundlesHonest
  <2>1. PICK owner \in Owners, policy \in [Objects -> Policies], window \in [Objects -> Windows] :
          local = [o \in Objects |->
                     [identity |-> owner[o], policy |-> policy[o],
                      bundle |-> SignedIdentityBundle(owner[o], window[o])]]
    BY DEF Init
  <2>2. \A o \in Objects : owner[o] \in Identities
    BY HandshakeAssumption
  <2>3. \A o \in Objects : SignedIdentityBundle(owner[o], window[o]).body.owner = owner[o]
    BY <2>2, IssuedBundle
  <2>. QED  BY <2>1, <2>3 DEF BundlesHonest, Identity
<1>2. SignedOwn /\ SignaturesMade /\ HellosKept /\ OutputsEarned
  BY DEF Init, Objects, SignedOwn, SignaturesMade, HellosKept, Answered, OutputsEarned
<1>. QED  BY <1>1, <1>2, InitTypeOK DEF AuthInv

\* A server signature that arrives and verifies for two hellos was made by a
\* responder of the identity it was verified for, over these two.
LEMMA ServerSignatureMade ==
  ASSUME AuthInv, NEW n \in net, NEW identity \in Identities, NEW ch \in Hellos, NEW sh \in Hellos,
         n.sig = Sign(identity, serverSignatureMessage(ch, sh))
  PROVE  \E r \in Responders : Identity(r) = identity /\ Transcript(ch, sh) \in signed[r]
<1>1. n.sig # Nil
  BY SignatureType, NilAssumption
<1>2. ~ \E i \in Initiators : \E t \in signed[i] : n.sig = ClientSignature(i, t)
  BY SignatureInjective DEF ClientSignature
<1>3. PICK r \in Responders : \E t \in signed[r] : n.sig = ServerSignature(r, t)
  BY <1>1, <1>2 DEF AuthInv, SignaturesMade
<1>4. PICK t \in signed[r] : n.sig = ServerSignature(r, t)
  BY <1>3
<1>5. Identity(r) = identity /\ t.client = ch /\ t.server = sh
  <2>1. Sign(identity, serverSignatureMessage(ch, sh)) =
          Sign(Identity(r), serverSignatureMessage(t.client, t.server))
    BY <1>4 DEF ServerSignature
  <2>. QED  BY <2>1, SignatureInjective
<1>6. t \in Transcripts
  BY <1>4 DEF AuthInv, TypeOK, Objects
<1>. QED  BY <1>4, <1>5, <1>6, TranscriptFields

\* The same for a client signature.
LEMMA ClientSignatureMade ==
  ASSUME AuthInv, NEW n \in net, NEW identity \in Identities, NEW ch \in Hellos, NEW sh \in Hellos,
         n.sig = Sign(identity, clientSignatureMessage(ch, sh))
  PROVE  \E i \in Initiators : Identity(i) = identity /\ Transcript(ch, sh) \in signed[i]
<1>1. n.sig # Nil
  BY SignatureType, NilAssumption
<1>2. ~ \E r \in Responders : \E t \in signed[r] : n.sig = ServerSignature(r, t)
  BY SignatureInjective DEF ServerSignature
<1>3. PICK i \in Initiators : \E t \in signed[i] : n.sig = ClientSignature(i, t)
  BY <1>1, <1>2 DEF AuthInv, SignaturesMade
<1>4. PICK t \in signed[i] : n.sig = ClientSignature(i, t)
  BY <1>3
<1>5. Identity(i) = identity /\ t.client = ch /\ t.server = sh
  <2>1. Sign(identity, clientSignatureMessage(ch, sh)) =
          Sign(Identity(i), clientSignatureMessage(t.client, t.server))
    BY <1>4 DEF ClientSignature
  <2>. QED  BY <2>1, SignatureInjective
<1>6. t \in Transcripts
  BY <1>4 DEF AuthInv, TypeOK, Objects
<1>. QED  BY <1>4, <1>5, <1>6, TranscriptFields

\* The owner named in a hello is an identity.
LEMMA HelloOwner == \A h \in Hellos : h.bundle.body.owner \in Identities
BY DEF Hellos, Bundles

LEMMA AuthNext == AuthInv /\ [Next]_vars => AuthInv'
<1>. SUFFICES ASSUME AuthInv, [Next]_vars PROVE AuthInv'
  OBVIOUS
<1>. TypeOK /\ TypeOK'
  BY NextTypeOK DEF AuthInv
<1>. /\ BundlesHonest /\ SignedOwn /\ SignaturesMade /\ HellosKept /\ OutputsEarned
  BY DEF AuthInv
<1>. /\ DOMAIN clientHello = Objects /\ DOMAIN serverHello = Objects
     /\ DOMAIN signed = Objects /\ DOMAIN outputs = Objects
  BY DEF TypeOK
<1>. /\ \A i \in Initiators : i \in Objects /\ i \notin Responders
     /\ \A r \in Responders : r \in Objects /\ r \notin Initiators
  BY HandshakeAssumption DEF Objects
<1>1. ASSUME NEW i \in Initiators, BuildClientHello(i) PROVE AuthInv'
  <2>1. /\ clientHello' = [clientHello EXCEPT ![i] = ClientHello(i)]
        /\ net' = net \cup {HelloFrame(ClientHello(i))}
        /\ UNCHANGED <<local, serverHello, signed, outputs>>
    BY <1>1 DEF BuildClientHello
  <2>2. BundlesHonest' /\ SignedOwn' /\ OutputsEarned'
    BY <2>1, PartsKept
  <2>3. HelloFrame(ClientHello(i)).sig = Nil
    BY DEF HelloFrame
  <2>4. SignaturesMade'
    BY <2>1, <2>3, SameLocal DEF SignaturesMade
  <2>5. HellosKept'
    BY <2>1, SameLocal DEF HellosKept, Answered
  <2>. QED  BY <2>2, <2>4, <2>5 DEF AuthInv
<1>2. ASSUME NEW i \in Initiators, NEW m \in Arriving("ServerHello"), HandleServerHello(i, m)
      PROVE  AuthInv'
  <2>1. /\ serverHello' = [serverHello EXCEPT ![i] = m.body]
        /\ UNCHANGED <<local, clientHello, net, signed, outputs>>
        /\ clientHello[i] # Nil
        /\ m.sig = Sign(m.body.bundle.body.owner, serverSignatureMessage(clientHello[i], m.body))
    BY <1>2 DEF HandleServerHello, AnswerAcceptable, VerifyEd25519
  <2>2. BundlesHonest' /\ SignedOwn' /\ SignaturesMade' /\ OutputsEarned'
    BY <2>1, PartsKept
  <2>3. m.body \in Hellos /\ \E n \in net : n.sig = m.sig
    BY ArrivingFacts, HelloBody
  <2>4. clientHello[i] = ClientHello(i) /\ ClientHello(i) \in Hellos
    BY <2>1, ClientHelloFields DEF HellosKept
  <2>5. \E r \in Responders : Transcript(ClientHello(i), m.body) \in signed[r]
    BY <2>1, <2>3, <2>4, ServerSignatureMade, HelloOwner
  <2>6. HellosKept'
    BY <2>1, <2>5, SameLocal DEF HellosKept, Answered
  <2>. QED  BY <2>2, <2>6 DEF AuthInv
<1>3. ASSUME NEW i \in Initiators, BuildClientFinish(i) PROVE AuthInv'
  <2>. DEFINE t == Transcript(clientHello[i], serverHello[i])
  <2>1. clientHello[i] = ClientHello(i) /\ t.client = ClientHello(i) /\ t.server = serverHello[i]
    BY <1>3, TranscriptFields DEF BuildClientFinish, Answered, HellosKept
  <2>2. /\ net' = net \cup {FinishFrame(local[i].policy.limits, ClientSignature(i, t))}
        /\ signed' = [signed EXCEPT ![i] = @ \cup {t}]
        /\ UNCHANGED <<local, clientHello, serverHello, outputs>>
    BY <1>3, <2>1 DEF BuildClientFinish, ClientSignature
  <2>3. \A sig : FinishFrame(local[i].policy.limits, sig).sig = sig
    BY DEF FinishFrame
  <2>. HIDE DEF t
  <2>4. t \in signed'[i] /\ \A o \in Objects : signed[o] \subseteq signed'[o]
    BY <2>2
  <2>5. BundlesHonest' /\ HellosKept' /\ OutputsEarned'
    BY <2>2, <2>4, PartsKept
  <2>6. SignedOwn'
    BY <2>1, <2>2, SameLocal DEF SignedOwn
  <2>7. SignaturesMade'
    BY <2>2, <2>3, <2>4, SameLocal DEF SignaturesMade
  <2>. QED  BY <2>5, <2>6, <2>7 DEF AuthInv
<1>4. ASSUME NEW i \in Initiators, Finalize(i) PROVE AuthInv'
  <2>. DEFINE t == Transcript(clientHello[i], serverHello[i])
  <2>1. clientHello[i] = ClientHello(i) /\ t.client = ClientHello(i) /\ t.server = serverHello[i]
    BY <1>4, TranscriptFields DEF Finalize, Answered, HellosKept
  <2>2. /\ outputs' = [outputs EXCEPT ![i] = @ \cup {InitiatorOutput(i, t)}]
        /\ UNCHANGED <<local, clientHello, serverHello, net, signed>>
    BY <1>4, <2>1 DEF Finalize, InitiatorOutput
  <2>3. PICK r \in Responders : t \in signed[r]
    BY <1>4, <2>1 DEF Finalize, Answered, HellosKept
  <2>. HIDE DEF t
  <2>4. BundlesHonest' /\ SignedOwn' /\ SignaturesMade' /\ HellosKept'
    BY <2>2, PartsKept
  <2>5. OutputsEarned'
    BY <2>1, <2>2, <2>3, SameLocal DEF OutputsEarned
  <2>. QED  BY <2>4, <2>5 DEF AuthInv
<1>5. ASSUME NEW r \in Responders, NEW m \in Arriving("ClientHello"), HandleClientHello(r, m)
      PROVE  AuthInv'
  <2>. DEFINE sh == ServerHello(r, m.body)
              t == Transcript(m.body, sh)
  <2>1. t.client = m.body /\ t.server = sh
    BY TranscriptFields
  <2>2. /\ clientHello' = [clientHello EXCEPT ![r] = m.body]
        /\ serverHello' = [serverHello EXCEPT ![r] = sh]
        /\ net' = net \cup {AnswerFrame(sh, ServerSignature(r, t))}
        /\ signed' = [signed EXCEPT ![r] = @ \cup {t}]
        /\ UNCHANGED <<local, outputs>>
        /\ sh.caps # {} /\ sh.maxPayload # 0
    BY <1>5, <2>1 DEF HandleClientHello, ServerSignature
  <2>3. \A sig : AnswerFrame(sh, sig).sig = sig
    BY DEF AnswerFrame
  <2>4. /\ t.server = ServerHello(r, t.client) /\ t.server.caps # {} /\ t.server.maxPayload # 0
        /\ t = Transcript(m.body, sh)
    BY <2>1, <2>2
  <2>. HIDE DEF t, sh
  <2>5. t \in signed'[r] /\ \A o \in Objects : signed[o] \subseteq signed'[o]
    BY <2>2
  <2>6. BundlesHonest' /\ OutputsEarned'
    BY <2>2, <2>5, PartsKept
  <2>7. SignedOwn'
    BY <2>2, <2>4, SameLocal DEF SignedOwn
  <2>8. SignaturesMade'
    BY <2>2, <2>3, <2>5, SameLocal DEF SignaturesMade
  <2>9. HellosKept'
    BY <2>2, <2>4, <2>5, SameLocal DEF HellosKept, Answered
  <2>. QED  BY <2>6, <2>7, <2>8, <2>9 DEF AuthInv
<1>6. ASSUME NEW r \in Responders, NEW m \in Arriving("ClientFinish"), HandleClientFinish(r, m)
      PROVE  AuthInv'
  <2>. DEFINE ch == clientHello[r]
              sh == serverHello[r]
              t == Transcript(ch, sh)
              b == ResponderOutput(r, t, m.body)
  <2>1. t.client = ch /\ t.server = sh
    BY TranscriptFields
  <2>2. /\ outputs' = [outputs EXCEPT ![r] = @ \cup {b}]
        /\ UNCHANGED <<local, clientHello, serverHello, net, signed>>
        /\ ch # Nil /\ sh # Nil
        /\ m.sig = Sign(ch.bundle.body.owner, clientSignatureMessage(ch, sh))
    BY <1>6, <2>1
    DEF HandleClientFinish, FinishAcceptable, Answered, VerifyEd25519, ResponderOutput
  <2>3. ch \in Hellos /\ sh \in Hellos
    BY <2>2 DEF TypeOK
  <2>4. t \in signed[r]
    BY <2>2 DEF HellosKept, Answered
  <2>5. \E n \in net : n.sig = m.sig
    BY ArrivingFacts
  <2>6. PICK i \in Initiators : t \in signed[i]
    BY <2>2, <2>3, <2>5, ClientSignatureMade, HelloOwner
  <2>7. b.limits = m.body
    BY DEF ResponderOutput, Output
  <2>8. b = ResponderOutput(r, t, b.limits)
    BY <2>7
  <2>. HIDE DEF b, t, ch, sh
  <2>9. BundlesHonest' /\ SignedOwn' /\ SignaturesMade' /\ HellosKept'
    BY <2>2, PartsKept
  <2>10. OutputsEarned'
    BY <2>2, <2>4, <2>6, <2>8, SameLocal DEF OutputsEarned
  <2>. QED  BY <2>9, <2>10 DEF AuthInv
<1>7. ASSUME NEW o \in Objects, NEW k \in Identities, Pin(o, k) PROVE AuthInv'
  BY <1>7, PartsKept DEF Pin, AuthInv
<1>8. CASE Tick
  BY <1>8, PartsKept DEF Tick, AuthInv
<1>9. CASE UNCHANGED vars
  BY <1>9, PartsKept DEF vars, AuthInv
<1>. QED  BY <1>1, <1>2, <1>3, <1>4, <1>5, <1>6, <1>7, <1>8, <1>9 DEF Next

LEMMA AuthInvariant == Spec => []AuthInv
BY AuthInit, AuthNext, PTL DEF Spec
\* An output of an initiator, field by field.
LEMMA InitiatorOutputFields ==
  ASSUME NEW i, NEW t
  PROVE  /\ InitiatorOutput(i, t).keys = deriveTransportKeys("initiator", t, InitiatorSecrets(i, t.server))
         /\ InitiatorOutput(i, t).keys.sessionID = t
         /\ InitiatorOutput(i, t).keys.tx.salt = t
         /\ InitiatorOutput(i, t).keys.tx.part = "i2r"
         /\ InitiatorOutput(i, t).peer = t.server.bundle
         /\ InitiatorOutput(i, t).caps = t.client.caps \cap t.server.caps
         /\ InitiatorOutput(i, t).maxPayload = t.server.maxPayload
BY DEF InitiatorOutput, Output, deriveTransportKeys

\* An output of a responder, field by field.
LEMMA ResponderOutputFields ==
  ASSUME NEW r, NEW t, NEW limits
  PROVE  /\ ResponderOutput(r, t, limits).keys = deriveTransportKeys("responder", t, ResponderSecrets(r, t.client))
         /\ ResponderOutput(r, t, limits).keys.sessionID = t
         /\ ResponderOutput(r, t, limits).keys.tx.salt = t
         /\ ResponderOutput(r, t, limits).keys.tx.part = "r2i"
         /\ ResponderOutput(r, t, limits).peer = t.client.bundle
         /\ ResponderOutput(r, t, limits).caps = t.server.caps
         /\ ResponderOutput(r, t, limits).maxPayload = t.server.maxPayload
         /\ ResponderOutput(r, t, limits).limits = limits
BY DEF ResponderOutput, Output, deriveTransportKeys

\* The two ends compute the same four secrets, and take the two keys crosswise.
LEMMA SecretsAgree ==
  ASSUME NEW i, NEW r, NEW t,
         t.client.eph = i, t.server.eph = r,
         t.client.bundle.body.owner = Identity(i), t.server.bundle.body.owner = Identity(r)
  PROVE  LET a == deriveTransportKeys("initiator", t, InitiatorSecrets(i, t.server))
             b == deriveTransportKeys("responder", t, ResponderSecrets(r, t.client))
         IN  a.tx = b.rx /\ a.rx = b.tx
<1>1. InitiatorSecrets(i, t.server) = ResponderSecrets(r, t.client)
  BY DEF InitiatorSecrets, ResponderSecrets, x25519Shared
<1>. QED  BY <1>1 DEF deriveTransportKeys

\* What an initiator has returned comes from its own hello and from the answer
\* of a responder, both in full.
LEMMA InitiatorFacts ==
  ASSUME AuthInv, NEW i \in Initiators, NEW a \in outputs[i]
  PROVE  \E r \in Responders : \E t \in signed[r] :
           /\ a = InitiatorOutput(i, t)
           /\ t \in Transcripts /\ t.client = ClientHello(i) /\ t.server = ServerHello(r, ClientHello(i))
           /\ t.server.caps # {} /\ t.server.maxPayload # 0
<1>1. PICK r \in Responders : \E t \in signed[r] :
         t.client = ClientHello(i) /\ a = InitiatorOutput(i, t)
  BY DEF AuthInv, OutputsEarned
<1>2. PICK t \in signed[r] : t.client = ClientHello(i) /\ a = InitiatorOutput(i, t)
  BY <1>1
<1>3. t \in Transcripts
  BY <1>2 DEF AuthInv, TypeOK, Objects
<1>4. t.server = ServerHello(r, t.client) /\ t.server.caps # {} /\ t.server.maxPayload # 0
  BY <1>2 DEF AuthInv, SignedOwn
<1>. QED  BY <1>2, <1>3, <1>4

\* What a responder has returned comes from its own answer and from the hello
\* of an initiator that has signed for both.
LEMMA ResponderFacts ==
  ASSUME AuthInv, NEW r \in Responders, NEW b \in outputs[r]
  PROVE  \E i \in Initiators : \E t \in signed[i] :
           /\ t \in signed[r]
           /\ b = ResponderOutput(r, t, b.limits)
           /\ t \in Transcripts /\ t.client = ClientHello(i) /\ t.server = ServerHello(r, ClientHello(i))
           /\ t.server.caps # {} /\ t.server.maxPayload # 0
<1>1. PICK i \in Initiators : \E t \in signed[i] \cap signed[r] : b = ResponderOutput(r, t, b.limits)
  BY DEF AuthInv, OutputsEarned
<1>2. PICK t \in signed[i] \cap signed[r] : b = ResponderOutput(r, t, b.limits)
  BY <1>1
<1>3. t \in Transcripts
  BY <1>2 DEF AuthInv, TypeOK, Objects
<1>4. t.server = ServerHello(r, t.client) /\ t.server.caps # {} /\ t.server.maxPayload # 0
  BY <1>2 DEF AuthInv, SignedOwn
<1>5. t.client = ClientHello(i)
  BY <1>2 DEF AuthInv, SignedOwn
<1>. QED  BY <1>2, <1>3, <1>4, <1>5

\* What the hello of initiator i and the answer of responder r to it say.
LEMMA HelloPair ==
  ASSUME AuthInv, NEW i \in Initiators, NEW r \in Responders
  PROVE  LET ch == ClientHello(i)
             sh == ServerHello(r, ch)
         IN  /\ ch.eph = i /\ sh.eph = r
             /\ ch.bundle.body.owner = Identity(i) /\ sh.bundle.body.owner = Identity(r)
             /\ ch.caps = local[i].policy.caps
             /\ sh.caps = local[i].policy.caps \cap local[r].policy.caps
             /\ sh.maxPayload \in {local[i].policy.maxPayload, local[r].policy.maxPayload}
             /\ sh.maxPayload <= local[i].policy.maxPayload
             /\ sh.maxPayload <= local[r].policy.maxPayload
             /\ sh.maxPayload \in Nat
<1>1. i \in Objects /\ r \in Objects /\ TypeOK /\ BundlesHonest
  BY DEF Objects, AuthInv
<1>. DEFINE ch == ClientHello(i)
            sh == ServerHello(r, ch)
<1>2. /\ ch \in Hellos /\ ch.eph = i /\ ch.bundle = local[i].bundle /\ ch.caps = local[i].policy.caps
      /\ ch.maxPayload = local[i].policy.maxPayload
  BY <1>1, ClientHelloFields
<1>. HIDE DEF ch
<1>3. /\ sh.eph = r /\ sh.bundle = local[r].bundle /\ sh.caps = ch.caps \cap local[r].policy.caps
      /\ sh.maxPayload \in {ch.maxPayload, local[r].policy.maxPayload}
      /\ sh.maxPayload <= ch.maxPayload /\ sh.maxPayload <= local[r].policy.maxPayload
  BY <1>1, <1>2, ServerHelloFields
<1>. HIDE DEF sh
<1>4. local[i].policy.maxPayload \in Nat /\ local[r].policy.maxPayload \in Nat
  BY <1>1, LocalFields
<1>5. ch.bundle.body.owner = Identity(i) /\ sh.bundle.body.owner = Identity(r)
  BY <1>1, <1>2, <1>3 DEF BundlesHonest
<1>. QED  BY <1>2, <1>3, <1>4, <1>5 DEF ch, sh
LEMMA AuthKeyAgreement == AuthInv => KeyAgreement
<1>. SUFFICES ASSUME AuthInv, NEW i \in Initiators, NEW r \in Responders,
                     NEW a \in outputs[i], NEW b \in outputs[r],
                     a.keys.sessionID = b.keys.sessionID
              PROVE  /\ a.keys.tx = b.keys.rx /\ a.keys.rx = b.keys.tx
                     /\ a.caps = b.caps /\ a.maxPayload = b.maxPayload
                     /\ a.peer.body.owner = Identity(r) /\ b.peer.body.owner = Identity(i)
  BY DEF KeyAgreement
<1>1. PICK q \in Responders : \E t \in signed[q] :
         a = InitiatorOutput(i, t) /\ t.client = ClientHello(i)
  BY InitiatorFacts
<1>2. PICK t : a = InitiatorOutput(i, t) /\ t.client = ClientHello(i)
  BY <1>1
<1>3. PICK j \in Initiators : \E u \in signed[j] :
         /\ b = ResponderOutput(r, u, b.limits)
         /\ u.client = ClientHello(j) /\ u.server = ServerHello(r, ClientHello(j))
  BY ResponderFacts
<1>4. PICK u : /\ b = ResponderOutput(r, u, b.limits)
               /\ u.client = ClientHello(j) /\ u.server = ServerHello(r, ClientHello(j))
  BY <1>3
<1>5. a.keys.sessionID = t /\ b.keys.sessionID = u
  BY <1>2, <1>4, InitiatorOutputFields, ResponderOutputFields
<1>6. t.server = ServerHello(r, ClientHello(i)) /\ b = ResponderOutput(r, t, b.limits)
  BY <1>2, <1>4, <1>5
<1>7. /\ t.client.eph = i /\ t.server.eph = r
      /\ t.client.bundle.body.owner = Identity(i) /\ t.server.bundle.body.owner = Identity(r)
      /\ t.server.caps = t.client.caps \cap local[r].policy.caps
  BY <1>2, <1>6, HelloPair
<1>8. a.keys.tx = b.keys.rx /\ a.keys.rx = b.keys.tx
  BY <1>2, <1>6, <1>7, SecretsAgree, InitiatorOutputFields, ResponderOutputFields
<1>9. /\ a.caps = t.client.caps \cap t.server.caps /\ b.caps = t.server.caps
      /\ a.maxPayload = b.maxPayload
      /\ a.peer = t.server.bundle /\ b.peer = t.client.bundle
  BY <1>2, <1>6, InitiatorOutputFields, ResponderOutputFields
<1>. QED  BY <1>7, <1>8, <1>9

LEMMA AuthSendingKeys == AuthInv => SendingKeysExclusive
<1>. SUFFICES ASSUME AuthInv, NEW o \in Objects, NEW p \in Objects,
                     NEW a \in outputs[o], NEW b \in outputs[p], a.keys.tx = b.keys.tx
              PROVE  o = p /\ a.keys.sessionID = b.keys.sessionID
  BY DEF SendingKeysExclusive
<1>1. ASSUME NEW i \in Initiators, NEW u \in outputs[i]
      PROVE  /\ u.keys.sessionID = u.keys.tx.salt /\ u.keys.tx.part = "i2r"
             /\ u.keys.sessionID.client.eph = i
  <2>1. PICK r \in Responders : \E t \in signed[r] :
           u = InitiatorOutput(i, t) /\ t.client = ClientHello(i)
    BY InitiatorFacts
  <2>. QED  BY <2>1, HelloPair, InitiatorOutputFields
<1>2. ASSUME NEW r \in Responders, NEW u \in outputs[r]
      PROVE  /\ u.keys.sessionID = u.keys.tx.salt /\ u.keys.tx.part = "r2i"
             /\ u.keys.sessionID.server.eph = r
  <2>1. PICK i \in Initiators : \E t \in signed[i] :
           u = ResponderOutput(r, t, u.limits) /\ t.server = ServerHello(r, ClientHello(i))
    BY ResponderFacts
  <2>. QED  BY <2>1, HelloPair, ResponderOutputFields
<1>3. o \in Initiators \/ o \in Responders
  BY DEF Objects
<1>4. p \in Initiators \/ p \in Responders
  BY DEF Objects
<1>. QED  BY <1>1, <1>2, <1>3, <1>4

LEMMA AuthResponder == AuthInv => ResponderAuthenticated
<1>. SUFFICES ASSUME AuthInv, NEW r \in Responders, NEW b \in outputs[r]
              PROVE  \E i \in Initiators :
                       /\ Identity(i) = b.peer.body.owner
                       /\ b.keys.sessionID \in signed[i]
                       /\ b.keys.sessionID.client = ClientHello(i)
  BY DEF ResponderAuthenticated
<1>1. PICK i \in Initiators : \E t \in signed[i] :
         b = ResponderOutput(r, t, b.limits) /\ t.client = ClientHello(i)
  BY ResponderFacts
<1>2. ClientHello(i).bundle.body.owner = Identity(i)
  BY HelloPair
<1>. QED  BY <1>1, <1>2, ResponderOutputFields

LEMMA AuthInitiator == AuthInv => InitiatorAuthenticated
<1>. SUFFICES ASSUME AuthInv, NEW i \in Initiators, NEW a \in outputs[i]
              PROVE  \E r \in Responders :
                       /\ Identity(r) = a.peer.body.owner
                       /\ a.keys.sessionID \in signed[r]
                       /\ a.keys.sessionID.client = ClientHello(i)
  BY DEF InitiatorAuthenticated
<1>1. PICK r \in Responders : \E t \in signed[r] :
         /\ a = InitiatorOutput(i, t) /\ t.client = ClientHello(i)
         /\ t.server = ServerHello(r, ClientHello(i))
  BY InitiatorFacts
<1>2. ServerHello(r, ClientHello(i)).bundle.body.owner = Identity(r)
  BY HelloPair
<1>. QED  BY <1>1, <1>2, InitiatorOutputFields

LEMMA AuthNegotiated == AuthInv => NegotiatedFully
<1>. SUFFICES ASSUME AuthInv, NEW i \in Initiators, NEW r \in Responders,
                     NEW u \in outputs[i] \cup outputs[r],
                     u.keys.sessionID.client.eph = i, u.keys.sessionID.server.eph = r
              PROVE  /\ u.caps = local[i].policy.caps \cap local[r].policy.caps
                     /\ u.caps # {}
                     /\ u.maxPayload > 0
                     /\ u.maxPayload <= local[i].policy.maxPayload
                     /\ u.maxPayload <= local[r].policy.maxPayload
                     /\ u.maxPayload \in {local[i].policy.maxPayload, local[r].policy.maxPayload}
  BY DEF NegotiatedFully
<1>. DEFINE sh == ServerHello(r, ClientHello(i))
<1>1. ASSUME u \in outputs[i]
      PROVE  u.caps = ClientHello(i).caps \cap sh.caps /\ u.maxPayload = sh.maxPayload
             /\ sh.caps # {} /\ sh.maxPayload # 0
  <2>1. PICK q \in Responders : \E t \in signed[q] :
           /\ u = InitiatorOutput(i, t) /\ t.client = ClientHello(i)
           /\ t.server = ServerHello(q, ClientHello(i))
           /\ t.server.caps # {} /\ t.server.maxPayload # 0
    BY <1>1, InitiatorFacts
  <2>2. ServerHello(q, ClientHello(i)).eph = q
    BY HelloPair
  <2>. QED  BY <2>1, <2>2, InitiatorOutputFields
<1>2. ASSUME u \in outputs[r]
      PROVE  u.caps = sh.caps /\ u.maxPayload = sh.maxPayload
             /\ sh.caps # {} /\ sh.maxPayload # 0
  <2>1. PICK j \in Initiators : \E t \in signed[j] :
           /\ u = ResponderOutput(r, t, u.limits) /\ t.client = ClientHello(j)
           /\ t.server = ServerHello(r, ClientHello(j))
           /\ t.server.caps # {} /\ t.server.maxPayload # 0
    BY <1>2, ResponderFacts
  <2>2. ClientHello(j).eph = j
    BY HelloPair
  <2>. QED  BY <2>1, <2>2, ResponderOutputFields
<1>3. /\ ClientHello(i).caps = local[i].policy.caps
      /\ sh.caps = local[i].policy.caps \cap local[r].policy.caps
      /\ sh.maxPayload \in {local[i].policy.maxPayload, local[r].policy.maxPayload}
      /\ sh.maxPayload <= local[i].policy.maxPayload
      /\ sh.maxPayload <= local[r].policy.maxPayload
      /\ sh.maxPayload \in Nat
  BY HelloPair
<1>. HIDE DEF sh
<1>. QED  BY <1>1, <1>2, <1>3

\* Two objects that return the same SessionID return mirrored keys, the same
\* capabilities and payload limit, and name each other (handshake.go:866, 1003).
THEOREM HandshakeKeyAgreement == Spec => []KeyAgreement
BY AuthInvariant, AuthKeyAgreement, PTL

\* No sending key belongs to two objects, or to one for two transcripts: the
\* transcript is the salt of the key and holds the ephemeral key of its sender.
THEOREM HandshakeSendingKeysExclusive == Spec => []SendingKeysExclusive
BY AuthInvariant, AuthSendingKeys, PTL

\* A responder completes only with an initiator of the identity it names, that
\* has signed for this hello and this answer (handshake.go:1029).
THEOREM HandshakeResponderAuthenticated == Spec => []ResponderAuthenticated
BY AuthInvariant, AuthResponder, PTL

\* An initiator derives keys only from an answer that a responder of the
\* identity it names has signed for its own hello (handshake.go:788).
THEOREM HandshakeInitiatorAuthenticated == Spec => []InitiatorAuthenticated
BY AuthInvariant, AuthInitiator, PTL

\* What is negotiated is what the two policies give, whatever was changed on
\* the way (handshake.go:788, 950).
THEOREM HandshakeNegotiatedFully == Spec => []NegotiatedFully
BY AuthInvariant, AuthNegotiated, PTL

-----------------------------------------------------------------------------
(***************************************************************************)
(* The rekey limits, when frames arrive as they were sent.                 *)
(***************************************************************************)
LEMMA LimitsInit == Init => LimitsInv
BY DEF Init, Objects, LimitsInv, FinishesCarryLimits, LimitsTaken

LEMMA LimitsNext == ~Damage /\ AuthInv /\ LimitsInv /\ [Next]_vars => LimitsInv'
<1>. SUFFICES ASSUME ~Damage, AuthInv, LimitsInv, [Next]_vars PROVE LimitsInv'
  OBVIOUS
<1>. TypeOK /\ FinishesCarryLimits /\ LimitsTaken
  BY DEF AuthInv, LimitsInv
<1>. DOMAIN signed = Objects /\ DOMAIN outputs = Objects
  BY DEF TypeOK
<1>. /\ \A i \in Initiators : i \in Objects /\ i \notin Responders
     /\ \A r \in Responders : r \in Objects /\ r \notin Initiators
  BY HandshakeAssumption DEF Objects
<1>0. ASSUME local' = local, \A o \in Objects : signed[o] \subseteq signed'[o]
      PROVE  /\ net' = net => FinishesCarryLimits'
             /\ \A f : net' = net \cup {f} /\ f.type # "ClientFinish" => FinishesCarryLimits'
             /\ outputs' = outputs => LimitsTaken'
  BY <1>0, SameLocal DEF FinishesCarryLimits, LimitsTaken
<1>1. ASSUME NEW i \in Initiators, BuildClientHello(i) PROVE LimitsInv'
  <2>1. HelloFrame(ClientHello(i)).type # "ClientFinish"
    BY DEF HelloFrame
  <2>. QED  BY <1>0, <1>1, <2>1 DEF BuildClientHello, LimitsInv
<1>2. ASSUME NEW i \in Initiators, NEW m \in Arriving("ServerHello"), HandleServerHello(i, m)
      PROVE  LimitsInv'
  BY <1>0, <1>2 DEF HandleServerHello, LimitsInv
<1>3. ASSUME NEW i \in Initiators, BuildClientFinish(i) PROVE LimitsInv'
  <2>. DEFINE t == Transcript(clientHello[i], serverHello[i])
              f == FinishFrame(local[i].policy.limits, ClientSignature(i, t))
  <2>1. t.client = clientHello[i] /\ t.server = serverHello[i]
    BY TranscriptFields
  <2>2. /\ net' = net \cup {f}
        /\ signed' = [signed EXCEPT ![i] = @ \cup {t}]
        /\ UNCHANGED <<local, outputs>>
    BY <1>3, <2>1 DEF BuildClientFinish, ClientSignature
  <2>3. f.sig = ClientSignature(i, t) /\ f.body = local[i].policy.limits
    BY DEF FinishFrame
  <2>. HIDE DEF t, f
  <2>4. t \in signed'[i] /\ \A o \in Objects : signed[o] \subseteq signed'[o]
    BY <2>2
  <2>5. FinishesCarryLimits'
    BY <2>2, <2>3, <2>4, SameLocal DEF FinishesCarryLimits
  <2>. QED  BY <1>0, <2>2, <2>4, <2>5 DEF LimitsInv
<1>4. ASSUME NEW i \in Initiators, Finalize(i) PROVE LimitsInv'
  <2>1. /\ \A r \in Responders : outputs'[r] = outputs[r]
        /\ UNCHANGED <<local, net, signed>>
    BY <1>4 DEF Finalize
  <2>2. LimitsTaken'
    BY <2>1 DEF LimitsTaken
  <2>. QED  BY <1>0, <2>1, <2>2 DEF LimitsInv
<1>5. ASSUME NEW r \in Responders, NEW m \in Arriving("ClientHello"), HandleClientHello(r, m)
      PROVE  LimitsInv'
  <2>1. \A sh, sig : AnswerFrame(sh, sig).type # "ClientFinish"
    BY DEF AnswerFrame
  <2>2. \A o \in Objects : signed[o] \subseteq signed'[o]
    BY <1>5 DEF HandleClientHello
  <2>. QED  BY <1>0, <1>5, <2>1, <2>2 DEF HandleClientHello, LimitsInv
<1>6. ASSUME NEW r \in Responders, NEW m \in Arriving("ClientFinish"), HandleClientFinish(r, m)
      PROVE  LimitsInv'
  <2>. DEFINE ch == clientHello[r]
              sh == serverHello[r]
              t == Transcript(ch, sh)
              b == ResponderOutput(r, t, m.body)
  <2>1. t.client = ch /\ t.server = sh
    BY TranscriptFields
  <2>2. /\ outputs' = [outputs EXCEPT ![r] = @ \cup {b}]
        /\ UNCHANGED <<local, net, signed>>
        /\ m.sig = Sign(ch.bundle.body.owner, clientSignatureMessage(ch, sh))
    BY <1>6, <2>1
    DEF HandleClientFinish, FinishAcceptable, VerifyEd25519, ResponderOutput
  <2>3. m \in net /\ m.type = "ClientFinish"
    BY ArrivingFacts
  <2>4. PICK i \in Initiators : \E u \in signed[i] :
           m.sig = ClientSignature(i, u) /\ m.body = local[i].policy.limits
    BY <2>3 DEF FinishesCarryLimits
  <2>5. PICK u \in signed[i] : m.sig = ClientSignature(i, u) /\ m.body = local[i].policy.limits
    BY <2>4
  <2>6. u.client = ClientHello(i)
    BY DEF AuthInv, SignedOwn
  <2>7. ClientHello(i).eph = i
    BY ClientHelloFields
  <2>8. ch = u.client
    <3>1. Sign(ch.bundle.body.owner, clientSignatureMessage(ch, sh)) =
            Sign(Identity(i), clientSignatureMessage(u.client, u.server))
      BY <2>2, <2>5 DEF ClientSignature
    <3>. HIDE DEF ch, sh
    <3>. QED  BY <3>1, SignatureInjective
  <2>9. b.keys.sessionID.client.eph = i /\ b.limits = local[i].policy.limits
    BY <2>1, <2>5, <2>6, <2>7, <2>8, ResponderOutputFields
  <2>. HIDE DEF b
  <2>10. LimitsTaken'
    BY <2>2, <2>9 DEF LimitsTaken
  <2>. QED  BY <1>0, <2>2, <2>10 DEF LimitsInv
<1>7. ASSUME NEW o \in Objects, NEW k \in Identities, Pin(o, k) PROVE LimitsInv'
  BY <1>0, <1>7 DEF Pin, LimitsInv
<1>8. CASE Tick
  BY <1>0, <1>8 DEF Tick, LimitsInv
<1>9. CASE UNCHANGED vars
  BY <1>0, <1>9 DEF vars, LimitsInv
<1>. QED  BY <1>1, <1>2, <1>3, <1>4, <1>5, <1>6, <1>7, <1>8, <1>9 DEF Next

\* The rekey limits of a session are the initiator's at both ends, as long as
\* frames arrive as they were sent: ClientFinish carries them outside what is
\* signed (handshake.go:830).
THEOREM HandshakeRekeyLimitsAgree ==
  ASSUME ~Damage
  PROVE  Spec => []RekeyLimitsAgree
<1>1. LimitsInv => RekeyLimitsAgree
  BY DEF LimitsInv, LimitsTaken, RekeyLimitsAgree
<1>2. AuthInv /\ LimitsInv /\ [Next]_vars => LimitsInv'
  BY LimitsNext
<1>. QED  BY AuthInvariant, LimitsInit, <1>1, <1>2, PTL DEF Spec
=============================================================================
