------------------------------ MODULE Handshake -----------------------------
(***************************************************************************)
(* The three-message handshake of transport/handshake/handshake.go between *)
(* SecureInitiator and SecureResponder objects.  Each object is used for   *)
(* one attempt and owns one ephemeral key; an identity may own several     *)
(* objects, of either kind, at a time.                                     *)
(*                                                                         *)
(* Primitives are ideal.  A hash is what was hashed, a signature names its *)
(* signer and its message and only the signer makes it, and an X25519      *)
(* shared secret is the pair of the two public keys it is made from.  An   *)
(* object stands for its ephemeral key and an identity for its Ed25519 and *)
(* X25519 keys.  The set net holds every frame ever sent: frames are lost, *)
(* repeated, reordered and handed to the wrong object, and they may arrive *)
(* with a field changed, though never with a signature nobody made.        *)
(***************************************************************************)
EXTENDS Integers, FiniteSets

CONSTANTS
  Initiators, Responders,  \* the objects
  Identities,    \* the owners of identity keys
  Owners,        \* the ways in which they may own the objects
  CapBits,       \* capability bits
  Payloads,      \* values of MaxPayload
  RekeyLimits,   \* values of MaxRekeyBytes and MaxRekeySeconds together
  Policies,      \* the policies an object may be given
  Windows,       \* the validity windows a bundle may be issued with
  TrustStores,   \* the pinned sets an object may start with
  Damage,        \* TRUE if frames may be changed on the way
  MaxAnswers,    \* bound: hellos that one responder answers
  MaxNow,        \* bound: last second of the run
  Nil            \* a nil pointer

Objects == Initiators \cup Responders
Policy == [caps : SUBSET CapBits, maxPayload : Payloads, limits : RekeyLimits]

ASSUME HandshakeAssumption ==
  /\ Initiators \cap Responders = {}
  /\ Owners \subseteq [Objects -> Identities]
  /\ Payloads \subseteq Nat
  /\ Policies \subseteq Policy
  /\ Windows \subseteq [notBefore : Nat, notAfter : Nat]
  /\ TrustStores \subseteq SUBSET Identities
  /\ Damage \in BOOLEAN
  /\ MaxAnswers \in Nat
  /\ MaxNow \in Nat

VARIABLES
  local,         \* localIdentity, policy and localBundle of each object
  trustStore,    \* the identities each object has pinned
  clientHello,   \* the hello of this attempt, at both ends
  serverHello,   \* the answer of this attempt, at both ends
  net,           \* the frames sent so far
  now,           \* time.Now, as the callers pass it in
  signed,        \* history: the transcripts each object has signed
  outputs        \* history: the HandshakeOutputs each object has returned

vars == <<local, trustStore, clientHello, serverHello, net, now, signed, outputs>>

Identity(o) == local[o].identity

-----------------------------------------------------------------------------
(***************************************************************************)
(* Identity bundles and the messages.                                      *)
(***************************************************************************)
Sign(identity, message) == [by |-> identity, message |-> message]
VerifyEd25519(identity, message, sig) == sig = Sign(identity, message)

\* Everything in a bundle but the signature: signatureInput.  The version and
\* the algorithm share one field.
BundleBody(identity, window) ==
  [owner |-> identity, format |-> "v1-ed25519",
   notBefore |-> window.notBefore, notAfter |-> window.notAfter]

SignedIdentityBundle(identity, window) ==
  [body |-> BundleBody(identity, window),
   sig  |-> Sign(identity, BundleBody(identity, window))]

Validate(bundle, trust, nowUnix) ==
  /\ bundle.body.format = "v1-ed25519"
  /\ bundle.body.notBefore <= nowUnix
  /\ nowUnix <= bundle.body.notAfter
  /\ bundle.body.owner \in trust
  /\ VerifyEd25519(bundle.body.owner, bundle.body, bundle.sig)

\* The bodies of the two hellos; a ServerHello carries a signature as well.
ClientHello(i) ==
  [caps |-> local[i].policy.caps, maxPayload |-> local[i].policy.maxPayload,
   eph |-> i, bundle |-> local[i].bundle]

\* Seeded fault: the payload limit asked for is granted.
ServerHelloUnclamped(r, ch) ==
  [caps |-> ch.caps \cap local[r].policy.caps, maxPayload |-> ch.maxPayload,
   eph |-> r, bundle |-> local[r].bundle]

ServerHello(r, ch) ==
  [caps |-> ch.caps \cap local[r].policy.caps,
   maxPayload |-> IF ch.maxPayload > local[r].policy.maxPayload
                    THEN local[r].policy.maxPayload ELSE ch.maxPayload,
   eph |-> r, bundle |-> local[r].bundle]

\* handshakeTranscriptHash: the signature of the ServerHello is left out.
Transcript(ch, sh) == [client |-> ch, server |-> sh]

SignatureMessage(label, ch, sh) ==
  [label |-> label, transcript |-> Transcript(ch, sh),
   ephs |-> <<ch.eph, sh.eph>>,
   statics |-> <<ch.bundle.body.owner, sh.bundle.body.owner>>]

serverSignatureMessage(ch, sh) == SignatureMessage("SERVER_HELLO_SIG", ch, sh)
clientSignatureMessage(ch, sh) == SignatureMessage("CLIENT_FINISH_SIG", ch, sh)

\* The frames.
HelloFrame(ch) == [type |-> "ClientHello", body |-> ch, sig |-> Nil]
AnswerFrame(sh, sig) == [type |-> "ServerHello", body |-> sh, sig |-> sig]

\* Seeded fault: the default limits are sent, not those of the policy.
FinishDefaults(limits, sig) ==
  [type |-> "ClientFinish", body |-> CHOOSE l \in RekeyLimits : TRUE, sig |-> sig]

FinishFrame(limits, sig) == [type |-> "ClientFinish", body |-> limits, sig |-> sig]

-----------------------------------------------------------------------------
(***************************************************************************)
(* The keys.                                                               *)
(***************************************************************************)
x25519Shared(private, public) == {private, public}

\* Seeded fault: both ends take the same key for sending.
KeysNotMirrored(role, transcript, ikm) ==
  [sessionID |-> transcript,
   tx |-> [ikm |-> ikm, salt |-> transcript, part |-> "i2r"],
   rx |-> [ikm |-> ikm, salt |-> transcript, part |-> "r2i"]]

\* HKDF of the four shared secrets and the transcript.  The code keeps 64 bits
\* of the session identifier.
deriveTransportKeys(role, transcript, ikm) ==
  LET key(part) == [ikm |-> ikm, salt |-> transcript, part |-> part]
  IN  [sessionID |-> transcript,
       tx |-> key(IF role = "initiator" THEN "i2r" ELSE "r2i"),
       rx |-> key(IF role = "initiator" THEN "r2i" ELSE "i2r")]

\* ee, es, se and ss as the initiator computes them.
InitiatorSecrets(i, sh) ==
  <<x25519Shared(i, sh.eph),
    x25519Shared(i, sh.bundle.body.owner),
    x25519Shared(Identity(i), sh.eph),
    x25519Shared(Identity(i), sh.bundle.body.owner)>>

\* Seeded fault: es and se are named from the responder's side.
ResponderSecretsSwapped(r, ch) ==
  <<x25519Shared(r, ch.eph),
    x25519Shared(r, ch.bundle.body.owner),
    x25519Shared(Identity(r), ch.eph),
    x25519Shared(Identity(r), ch.bundle.body.owner)>>

\* The same four as the responder computes them.
ResponderSecrets(r, ch) ==
  <<x25519Shared(r, ch.eph),
    x25519Shared(Identity(r), ch.eph),
    x25519Shared(r, ch.bundle.body.owner),
    x25519Shared(Identity(r), ch.bundle.body.owner)>>

Output(role, keys, peer, caps, maxPayload, limits) ==
  [role |-> role, keys |-> keys, peer |-> peer, caps |-> caps,
   maxPayload |-> maxPayload, limits |-> limits]

-----------------------------------------------------------------------------
(***************************************************************************)
(* What arrives.                                                           *)
(***************************************************************************)
SentFrames(type) == {m \in net : m.type = type}

AllBundles ==
  LET issued == {local[o].bundle : o \in Objects}
  IN  issued \cup {[b EXCEPT !.body.notAfter = MaxNow] : b \in issued}
             \cup {[b EXCEPT !.body.format = "unknown"] : b \in issued}

\* Frame m with one field changed.  Signatures come from frames that were sent.
Damaged(m) ==
  LET Bodies ==
        IF m.type = "ClientFinish"
          THEN RekeyLimits
          ELSE {[m.body EXCEPT !.caps = c] : c \in SUBSET CapBits}
               \cup {[m.body EXCEPT !.maxPayload = p] : p \in Payloads}
               \cup {[m.body EXCEPT !.eph = o] : o \in Objects}
               \cup {[m.body EXCEPT !.bundle = b] : b \in AllBundles}
  IN  {[m EXCEPT !.body = b] : b \in Bodies}
      \cup {[m EXCEPT !.sig = n.sig] : n \in net}

Arriving(type) ==
  SentFrames(type) \cup
    (IF Damage THEN UNION {Damaged(m) : m \in SentFrames(type)} ELSE {})

-----------------------------------------------------------------------------
(***************************************************************************)
(* The initiator.                                                          *)
(***************************************************************************)
BuildClientHello(i) ==
  /\ clientHello' = [clientHello EXCEPT ![i] = ClientHello(i)]
  /\ net' = net \cup {HelloFrame(ClientHello(i))}
  /\ UNCHANGED <<local, trustStore, serverHello, now, signed, outputs>>

\* Seeded fault: the transcript signature is not verified.
AnswerUnverified(i, m) ==
  /\ Validate(m.body.bundle, trustStore[i], now)
  /\ clientHello[i] # Nil
  /\ clientHello[i].caps \cap m.body.caps # {}
  /\ m.body.maxPayload \in 1 .. local[i].policy.maxPayload

\* Seeded fault: an answer that grants all that was asked for is refused.
AnswerTooStrict(i, m) ==
  /\ AnswerUnverified(i, m)
  /\ m.body.maxPayload < local[i].policy.maxPayload
  /\ VerifyEd25519(m.body.bundle.body.owner,
                   serverSignatureMessage(clientHello[i], m.body), m.sig)

\* The checks of HandleServerHello.
AnswerAcceptable(i, m) ==
  /\ Validate(m.body.bundle, trustStore[i], now)
  /\ clientHello[i] # Nil
  /\ clientHello[i].caps \cap m.body.caps # {}
  /\ m.body.maxPayload # 0
  /\ m.body.maxPayload <= local[i].policy.maxPayload
  /\ VerifyEd25519(m.body.bundle.body.owner,
                   serverSignatureMessage(clientHello[i], m.body), m.sig)

HandleServerHello(i, m) ==
  /\ AnswerAcceptable(i, m)
  /\ serverHello' = [serverHello EXCEPT ![i] = m.body]
  /\ UNCHANGED <<local, trustStore, clientHello, net, now, signed, outputs>>

Answered(o) == clientHello[o] # Nil /\ serverHello[o] # Nil

BuildClientFinish(i) ==
  LET ch == clientHello[i]
      sh == serverHello[i]
  IN  /\ Answered(i)
      /\ net' = net \cup {FinishFrame(local[i].policy.limits,
                            Sign(Identity(i), clientSignatureMessage(ch, sh)))}
      /\ signed' = [signed EXCEPT ![i] = @ \cup {Transcript(ch, sh)}]
      /\ UNCHANGED <<local, trustStore, clientHello, serverHello, now, outputs>>

Finalize(i) ==
  LET ch == clientHello[i]
      sh == serverHello[i]
      out == Output("initiator",
                    deriveTransportKeys("initiator", Transcript(ch, sh), InitiatorSecrets(i, sh)),
                    sh.bundle, ch.caps \cap sh.caps, sh.maxPayload,
                    local[i].policy.limits)
  IN  /\ Answered(i)
      /\ outputs' = [outputs EXCEPT ![i] = @ \cup {out}]
      /\ UNCHANGED <<local, trustStore, clientHello, serverHello, net, now, signed>>

-----------------------------------------------------------------------------
(***************************************************************************)
(* The responder.                                                          *)
(***************************************************************************)
HandleClientHello(r, m) ==
  LET ch == m.body
      sh == ServerHello(r, ch)
  IN  /\ Cardinality(signed[r] \cup {Transcript(ch, sh)}) <= MaxAnswers
      /\ Validate(ch.bundle, trustStore[r], now)
      /\ sh.caps # {}
      /\ sh.maxPayload # 0
      /\ clientHello' = [clientHello EXCEPT ![r] = ch]
      /\ serverHello' = [serverHello EXCEPT ![r] = sh]
      /\ net' = net \cup {AnswerFrame(sh, Sign(Identity(r), serverSignatureMessage(ch, sh)))}
      /\ signed' = [signed EXCEPT ![r] = @ \cup {Transcript(ch, sh)}]
      /\ UNCHANGED <<local, trustStore, now, outputs>>

\* Seeded fault: any signature of the client will do.
FinishOfAnyAttempt(r, m) ==
  Answered(r) /\ m.sig # Nil /\ m.sig.by = clientHello[r].bundle.body.owner

\* The checks of HandleClientFinish.
FinishAcceptable(r, m) ==
  /\ Answered(r)
  /\ VerifyEd25519(clientHello[r].bundle.body.owner,
                   clientSignatureMessage(clientHello[r], serverHello[r]), m.sig)

HandleClientFinish(r, m) ==
  LET ch == clientHello[r]
      sh == serverHello[r]
      out == Output("responder",
                    deriveTransportKeys("responder", Transcript(ch, sh), ResponderSecrets(r, ch)),
                    ch.bundle, sh.caps, sh.maxPayload, m.body)
  IN  /\ FinishAcceptable(r, m)
      /\ outputs' = [outputs EXCEPT ![r] = @ \cup {out}]
      /\ UNCHANGED <<local, trustStore, clientHello, serverHello, net, now, signed>>

-----------------------------------------------------------------------------
\* TrustStore.Pin.  The store is handed to an object by value, but the map in
\* it is shared with the owner, who may pin while the handshake is under way.
Pin(o, identity) ==
  /\ trustStore' = [trustStore EXCEPT ![o] = @ \cup {identity}]
  /\ UNCHANGED <<local, clientHello, serverHello, net, now, signed, outputs>>

Tick ==
  /\ now < MaxNow
  /\ now' = now + 1
  /\ UNCHANGED <<local, trustStore, clientHello, serverHello, net, signed, outputs>>

\* NewSecureInitiator and NewSecureResponder, with a bundle issued before.
Init ==
  /\ \E owner \in Owners, policy \in [Objects -> Policies], window \in [Objects -> Windows] :
       local = [o \in Objects |->
                  [identity |-> owner[o], policy |-> policy[o],
                   bundle |-> SignedIdentityBundle(owner[o], window[o])]]
  /\ trustStore \in [Objects -> TrustStores]
  /\ clientHello = [o \in Objects |-> Nil]
  /\ serverHello = [o \in Objects |-> Nil]
  /\ net = {}
  /\ now = 0
  /\ signed = [o \in Objects |-> {}]
  /\ outputs = [o \in Objects |-> {}]

Next ==
  \/ \E i \in Initiators :
       \/ BuildClientHello(i)
       \/ \E m \in Arriving("ServerHello") : HandleServerHello(i, m)
       \/ BuildClientFinish(i)
       \/ Finalize(i)
  \/ \E r \in Responders :
       \/ \E m \in Arriving("ClientHello") : HandleClientHello(r, m)
       \/ \E m \in Arriving("ClientFinish") : HandleClientFinish(r, m)
  \/ \E o \in Objects, k \in Identities : Pin(o, k)
  \/ Tick

Spec == Init /\ [][Next]_vars

\* Every owner goes on with its handshake, and a frame that was sent and stays
\* acceptable is handled in the end.
Fairness ==
  /\ \A i \in Initiators :
       /\ WF_vars(BuildClientHello(i))
       /\ WF_vars(\E m \in SentFrames("ServerHello") : HandleServerHello(i, m))
       /\ WF_vars(BuildClientFinish(i))
       /\ WF_vars(Finalize(i))
  /\ \A r \in Responders :
       /\ WF_vars(\E m \in SentFrames("ClientHello") : HandleClientHello(r, m))
       /\ WF_vars(\E m \in SentFrames("ClientFinish") : HandleClientFinish(r, m))

FairSpec == Spec /\ Fairness

-----------------------------------------------------------------------------
(***************************************************************************)
(* Properties.                                                             *)
(***************************************************************************)
Bundles ==
  [body : [owner : Identities, format : {"v1-ed25519", "unknown"}, notBefore : Nat, notAfter : Nat],
   sig  : [by : Identities,
           message : [owner : Identities, format : {"v1-ed25519"}, notBefore : Nat, notAfter : Nat]]]

Hellos == [caps : SUBSET CapBits, maxPayload : Payloads, eph : Objects, bundle : Bundles]
Transcripts == [client : Hellos, server : Hellos]

Signatures ==
  [by : Identities,
   message : [label : {"SERVER_HELLO_SIG", "CLIENT_FINISH_SIG"}, transcript : Transcripts,
              ephs : Objects \X Objects, statics : Identities \X Identities]]

\* A missing signature is not a signature.
ASSUME NilAssumption == Nil \notin Signatures

Frames ==
  [type : {"ClientHello", "ServerHello"}, body : Hellos, sig : Signatures \cup {Nil}]
    \cup [type : {"ClientFinish"}, body : RekeyLimits, sig : Signatures \cup {Nil}]

TypeOK ==
  /\ local \in [Objects -> [identity : Identities, policy : Policies, bundle : Bundles]]
  /\ trustStore \in [Objects -> SUBSET Identities]
  /\ clientHello \in [Objects -> Hellos \cup {Nil}]
  /\ serverHello \in [Objects -> Hellos \cup {Nil}]
  /\ net \subseteq Frames
  /\ now \in 0 .. MaxNow
  /\ signed \in [Objects -> SUBSET Transcripts]
  /\ DOMAIN outputs = Objects
  /\ \A o \in Objects : \A u \in outputs[o] : u.maxPayload \in Payloads /\ u.limits \in RekeyLimits

\* Two objects that return the same SessionID return mirrored keys, the same
\* capabilities and the same payload limit, and each names the other's
\* identity as its peer: Finalize (handshake.go:866) computes from the
\* initiator's private keys what HandleClientFinish (handshake.go:1003)
\* computes from the responder's, whatever the two have been handed.
KeyAgreement ==
  \A i \in Initiators, r \in Responders : \A a \in outputs[i], b \in outputs[r] :
    a.keys.sessionID = b.keys.sessionID =>
      /\ a.keys.tx = b.keys.rx /\ a.keys.rx = b.keys.tx
      /\ a.caps = b.caps /\ a.maxPayload = b.maxPayload
      /\ a.peer.body.owner = Identity(r) /\ b.peer.body.owner = Identity(i)

\* No key that seals is ever the sending key of two objects, or of one object
\* for two transcripts: nonces repeat across sessions, so keys must not.  A
\* responder keeps its ephemeral key when it answers a second hello.
SendingKeysExclusive ==
  \A o, p \in Objects : \A a \in outputs[o], b \in outputs[p] :
    a.keys.tx = b.keys.tx => o = p /\ a.keys.sessionID = b.keys.sessionID

\* A responder completes only with an initiator of the identity it names, that
\* has accepted this very answer to its own unchanged hello and signed for it
\* (handshake.go:1029): not with the finish of another attempt of the same
\* client, nor after its stored hello was overwritten by a second one.
ResponderAuthenticated ==
  \A r \in Responders : \A b \in outputs[r] :
    \E i \in Initiators :
      /\ Identity(i) = b.peer.body.owner
      /\ b.keys.sessionID \in signed[i]
      /\ b.keys.sessionID.client = ClientHello(i)

\* An initiator derives keys only with a responder of the identity it names,
\* that received its hello unchanged and answered it with this answer, also
\* when HandleServerHello (handshake.go:788) has replaced an earlier answer.
InitiatorAuthenticated ==
  \A i \in Initiators : \A a \in outputs[i] :
    \E r \in Responders :
      /\ Identity(r) = a.peer.body.owner
      /\ a.keys.sessionID \in signed[r]
      /\ a.keys.sessionID.client = ClientHello(i)

\* What is negotiated is what the two policies give, neither less nor more,
\* although each end sees only the other's hello and hellos may be changed.
NegotiatedFully ==
  \A i \in Initiators, r \in Responders : \A u \in outputs[i] \cup outputs[r] :
    u.keys.sessionID.client.eph = i /\ u.keys.sessionID.server.eph = r =>
      /\ u.caps = local[i].policy.caps \cap local[r].policy.caps
      /\ u.caps # {}
      /\ u.maxPayload > 0
      /\ u.maxPayload <= local[i].policy.maxPayload
      /\ u.maxPayload <= local[r].policy.maxPayload
      /\ u.maxPayload \in {local[i].policy.maxPayload, local[r].policy.maxPayload}

\* The rekey limits of a session are the same at both ends, and the
\* initiator's.  ClientFinish carries them outside what is signed, so this is
\* claimed only of frames that arrive as they were sent.
RekeyLimitsAgree ==
  \A i \in Initiators, r \in Responders : \A b \in outputs[r] :
    b.keys.sessionID.client.eph = i => b.limits = local[i].policy.limits

Compatible(i, r) ==
  /\ local[i].policy.caps \cap local[r].policy.caps # {}
  /\ local[i].policy.maxPayload > 0
  /\ local[r].policy.maxPayload > 0

\* Each end has pinned the other and the other's bundle never expires.
Vetted(i, r) ==
  /\ Identity(r) \in trustStore[i] /\ Identity(i) \in trustStore[r]
  /\ \A o \in {i, r} :
       local[o].bundle.body.notBefore = 0 /\ local[o].bundle.body.notAfter >= MaxNow

\* A handshake that can succeed does: if the policies have something in common
\* and each end keeps accepting the other's bundle, both ends return keys.  No
\* check of one end refuses what the other end's policy made it send.
Completes ==
  \A i \in Initiators, r \in Responders :
    [](Compatible(i, r) /\ Vetted(i, r)) ~> (outputs[i] # {} /\ outputs[r] # {})
=============================================================================
