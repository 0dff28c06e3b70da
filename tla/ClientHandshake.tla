--------------------------- MODULE ClientHandshake --------------------------
(***************************************************************************)
(* How transport/tcp/client.go gets its session: Handshake with what it    *)
(* takes from the environment and keeps, and handshakeSecure over a        *)
(* connection that may fail between any two steps.  The owner may set      *)
(* identity and trust himself, change the environment, and call Handshake  *)
(* again after an error on the same connection.  The messages' contents    *)
(* belong to Handshake; here a hello is its attempt and its bundle's       *)
(* validity, and an answer names the attempt whose hello it answers.       *)
(*                                                                         *)
(* The server is external: it handles one hello after the other, and       *)
(* closes the connection when it refuses one.                              *)
(***************************************************************************)
EXTENDS SequencesExt

CONSTANTS
  MaxUint64,         \* largest uint64
  Skew,              \* how long before now a bundle's validity starts (60)
  DefaultValidity,   \* defaultIdentityValiditySeconds
  Envs,              \* environments: [seeds, keyID, validity, parses, pins]
  Server,            \* the server's identity key
  TrustStores,       \* pin sets an owner may set
  None,              \* no bundle, no session
  FirstNow, LastNow, \* bound: the clock
  MaxAttempts,       \* bound: calls of handshakeSecure
  MaxChanges,        \* bound: changes by the owner
  MaxStray           \* bound: frames of another type from the server

\* A key ID that is no uint16 long; one that is, but leaves no room for the
\* rest of the hello in a uint16; and any other.
KeyIDs == {"tooLong", "unsendable", "fits"}

ASSUME ClientHandshakeAssumption ==
  /\ {MaxUint64, Skew, DefaultValidity, FirstNow, LastNow} \subseteq Nat
  /\ {MaxAttempts, MaxChanges, MaxStray} \subseteq Nat
  /\ Skew <= FirstNow
  /\ FirstNow <= LastNow
  /\ LastNow + DefaultValidity <= MaxUint64
  /\ Envs # {}
  /\ \A e \in Envs : e.validity \in 0 .. MaxUint64 /\ e.keyID \in KeyIDs

VARIABLES
  env,       \* the environment
  now,       \* time.Now().Unix()
  conn,      \* "up", "broken" (Close breaks it too), or "closed" by the server
  bundle,    \* Client.localBundle, localIdentity with it
  trust,     \* Client.trustStore and trustConfigured: [set, pins, own],
             \* with own as history: the owner set it
  session,   \* Client.Session: [hello, answer] attempt numbers
  pc,        \* where handshakeSecure is
  attempt,   \* number of the attempt under way, or of the last one
  using,     \* the pins the attempt trusts
  answer,    \* SecureInitiator.serverHello: the attempt it answers
  up, down,  \* the stream to the server and from it
  server,    \* the server: [hello, session]
  accepted,  \* history: [time, made, validity] of hellos the server took
  flaw,      \* history: Finalize failed, and nothing succeeded since
  budget     \* bounds: [changes, stray]

kept == <<bundle, trust>>
progress == <<session, pc, attempt, using, answer, flaw>>
streams == <<conn, up, down>>
serverSide == <<server, accepted>>
vars == <<env, now, kept, progress, streams, serverSide, budget>>

Init ==
  /\ env \in Envs
  /\ now = FirstNow
  /\ conn = "up"
  /\ bundle = None
  /\ trust = [set |-> FALSE, pins |-> {}, own |-> FALSE]
  /\ session = None
  /\ pc = "idle"
  /\ attempt = 0
  /\ using = {}
  /\ answer = 0
  /\ up = << >>
  /\ down = << >>
  /\ server = [hello |-> 0, session |-> None]
  /\ accepted = {}
  /\ flaw = FALSE
  /\ budget = [changes |-> 0, stray |-> 0]

-----------------------------------------------------------------------------
(***************************************************************************)
(* The environment.                                                        *)
(***************************************************************************)
\* buildIdentityFromEnv: both seeds are there and well formed.
identityFromEnv(e) == e.seeds = "both"

\* The validity where it parses, as parseOptionalUint64Env returns it, zero
\* when it is not set, and the default.
validityFromEnv(e) == IF e.validity = 0 THEN DefaultValidity ELSE e.validity

\* Seeded fault: the end of the validity keeps the largest value.
bundleSaturated(e, t) ==
  LET v == validityFromEnv(e)
  IN  IF ~identityFromEnv(e) \/ ~e.parses \/ e.keyID = "tooLong"
        THEN None
        ELSE [notBefore |-> t - Skew, notAfter |-> MaxUint64, made |-> t, validity |-> v,
              keyID |-> e.keyID]

\* Seeded fault: the default is not applied to the end of the validity.
bundleWithoutDefault(e, t) ==
  LET v == validityFromEnv(e)
  IN  IF ~identityFromEnv(e) \/ ~e.parses \/ e.keyID = "tooLong"
        THEN None
        ELSE [notBefore |-> t - Skew, notAfter |-> (t + e.validity) % (MaxUint64 + 1),
              made |-> t, validity |-> v, keyID |-> e.keyID]

\* The bundle ensureIdentityBundle makes at time t, or None for an error: of the
\* identity, of the validity, or of SignedIdentityBundle.
bundleFromEnv(e, t) ==
  LET v == validityFromEnv(e)
  IN  IF ~identityFromEnv(e) \/ ~e.parses \/ e.keyID = "tooLong"
        THEN None
        ELSE [notBefore |-> t - Skew, notAfter |-> (t + v) % (MaxUint64 + 1),
              made |-> t, validity |-> v, keyID |-> e.keyID]

\* Seeded fault: a malformed pin is skipped like a blank one.
trustSkipsMalformed(e) == ToSet(e.pins) \ {"blank", "malformed"}

\* buildTrustStoreFromEnv; {} is an error.
trustFromEnv(e) ==
  LET tokens == ToSet(e.pins) \ {"blank"}
  IN  IF "malformed" \in tokens THEN {} ELSE tokens

ValidAt(b, t) == b.notBefore <= t /\ t <= b.notAfter

-----------------------------------------------------------------------------
(***************************************************************************)
(* Handshake.                                                              *)
(***************************************************************************)
\* What ensureIdentityBundle returns: the bundle it keeps, or a new one.
ensureIdentityBundle == IF bundle # None THEN bundle ELSE bundleFromEnv(env, now)

trustToUse == IF trust.set THEN trust.pins ELSE trustFromEnv(env)

CanBegin == ensureIdentityBundle # None /\ (trust.set \/ trustToUse # {})

\* Handshake returns before anything is sent.  A bundle that was made is kept
\* although there is no trust store.
HandshakeRefused ==
  /\ pc = "idle"
  /\ ~CanBegin
  /\ bundle' = ensureIdentityBundle
  /\ UNCHANGED <<env, now, trust, progress, streams, serverSide, budget>>

\* handshakeSecure returns before anything is sent, because BuildClientHello
\* cannot put the bundle into a hello.  Bundle and trust store are kept.
HelloRefused ==
  /\ pc = "idle"
  /\ CanBegin
  /\ ensureIdentityBundle.keyID = "unsendable"
  /\ bundle' = ensureIdentityBundle
  /\ trust' = [trust EXCEPT !.set = TRUE, !.pins = trustToUse]
  /\ UNCHANGED <<env, now, progress, streams, serverSide, budget>>

\* handshakeSecure up to the write of the hello; a failed write is an error.
SendHello(b, pins) ==
  /\ pc = "idle"
  /\ attempt' = attempt + 1
  /\ using' = pins
  /\ up' = IF conn = "up" THEN Append(up, [type |-> "clientHello", attempt |-> attempt + 1,
                                          bundle |-> b])
                          ELSE up
  /\ pc' = IF conn = "up" THEN "wait" ELSE "idle"
  /\ UNCHANGED <<env, now, session, answer, flaw, conn, down, serverSide>>

BeginHandshake ==
  /\ attempt < MaxAttempts
  /\ CanBegin
  /\ ensureIdentityBundle.keyID # "unsendable"
  /\ SendHello(ensureIdentityBundle, trustToUse)
  /\ bundle' = ensureIdentityBundle
  /\ trust' = [trust EXCEPT !.set = TRUE, !.pins = trustToUse]
  /\ UNCHANGED budget

\* Seeded fault: the answer's transcript is not compared.
AnswerToAnything(f) == f.type = "serverHello" /\ Server \in using

\* The type check and HandleServerHello: the answer is to this hello, from a
\* server that is trusted.
AnswerGood(f) ==
  /\ f.type = "serverHello"
  /\ Server \in using
  /\ f.attempt = attempt

\* readFrame returns a frame.  When it is not the answer the attempt has
\* failed, and the frame is gone.
ReadAnswer ==
  /\ pc = "wait"
  /\ down # << >>
  /\ down' = Tail(down)
  /\ IF AnswerGood(Head(down))
       THEN pc' = "finish" /\ answer' = Head(down).attempt
       ELSE pc' = "idle" /\ UNCHANGED answer
  /\ UNCHANGED <<env, now, kept, session, attempt, using, flaw, conn, up, serverSide, budget>>

ReadAnswerFails ==
  /\ pc = "wait"
  /\ conn # "up"
  /\ down = << >>
  /\ pc' = "idle"
  /\ UNCHANGED <<env, now, kept, session, attempt, using, answer, flaw, streams, serverSide, budget>>

WriteFinish ==
  /\ pc = "finish"
  /\ up' = IF conn = "up" THEN Append(up, [type |-> "clientFinish", attempt |-> attempt]) ELSE up
  /\ pc' = IF conn = "up" THEN "finalize" ELSE "idle"
  /\ UNCHANGED <<env, now, kept, session, attempt, using, answer, flaw, conn, down, serverSide, budget>>

\* Finalize fails when a key exchange yields zero.  The session is replaced
\* only when everything has succeeded.
Finalize ==
  /\ pc = "finalize"
  /\ pc' = "idle"
  /\ \/ session' = [hello |-> attempt, answer |-> answer] /\ flaw' = FALSE
     \/ session' = session /\ flaw' = TRUE
  /\ UNCHANGED <<env, now, kept, attempt, using, answer, streams, serverSide, budget>>

-----------------------------------------------------------------------------
(***************************************************************************)
(* The owner.                                                              *)
(***************************************************************************)
Owner == /\ pc = "idle"
         /\ budget.changes < MaxChanges
         /\ budget' = [budget EXCEPT !.changes = @ + 1]

Setenv(e) ==
  /\ Owner
  /\ env' = e
  /\ UNCHANGED <<now, kept, progress, streams, serverSide>>

\* The owner's own bundle, valid for as long as the default.
OwnBundle == [notBefore |-> now, notAfter |-> now + DefaultValidity,
              made |-> now, validity |-> DefaultValidity, keyID |-> "fits"]

SetSecureIdentity ==
  /\ Owner
  /\ bundle' = OwnBundle
  /\ UNCHANGED <<env, now, trust, progress, streams, serverSide>>

SetTrustStore(pins) ==
  /\ Owner
  /\ trust' = [set |-> TRUE, pins |-> pins, own |-> TRUE]
  /\ UNCHANGED <<env, now, bundle, progress, streams, serverSide>>

\* Everything is given for this call alone, and nothing of it is kept.  The
\* last attempt is left to Handshake.
HandshakeSecure(pins) ==
  /\ Owner
  /\ attempt + 1 < MaxAttempts
  /\ SendHello(OwnBundle, pins)
  /\ UNCHANGED kept

-----------------------------------------------------------------------------
(***************************************************************************)
(* The connection, the clock and the server.                               *)
(***************************************************************************)
\* The connection fails, or Close is called: what was on its way to the
\* server may be lost from some point on, and to the client likewise.
Break ==
  /\ conn = "up"
  /\ conn' = "broken"
  /\ \E n \in 0 .. Len(up) : up' = SubSeq(up, 1, n)
  /\ \E n \in 0 .. Len(down) : down' = SubSeq(down, 1, n)
  /\ UNCHANGED <<env, now, kept, progress, serverSide, budget>>

Tick ==
  /\ now < LastNow
  /\ now' = now + 1
  /\ UNCHANGED <<env, kept, progress, streams, serverSide, budget>>

ServerHandleHello ==
  /\ up # << >>
  /\ Head(up).type = "clientHello"
  /\ up' = Tail(up)
  /\ IF ValidAt(Head(up).bundle, now)
       THEN /\ server' = [server EXCEPT !.hello = Head(up).attempt]
            /\ accepted' = accepted \cup
                 {[at |-> now, made |-> Head(up).bundle.made, validity |-> Head(up).bundle.validity]}
            /\ down' = IF conn = "up"
                         THEN Append(down, [type |-> "serverHello", attempt |-> Head(up).attempt])
                         ELSE down
            /\ UNCHANGED conn
       ELSE conn' = "closed" /\ UNCHANGED <<server, accepted, down>>
  /\ UNCHANGED <<env, now, kept, progress, budget>>

ServerHandleFinish ==
  /\ up # << >>
  /\ Head(up).type = "clientFinish"
  /\ up' = Tail(up)
  /\ server' = IF Head(up).attempt = server.hello
                 THEN [server EXCEPT !.session = [hello |-> server.hello, answer |-> server.hello]]
                 ELSE server
  /\ UNCHANGED <<env, now, kept, progress, conn, down, accepted, budget>>

\* The server sends a frame that is no answer.
ServerSendsOther ==
  /\ conn = "up"
  /\ budget.stray < MaxStray
  /\ budget' = [budget EXCEPT !.stray = @ + 1]
  /\ down' = Append(down, [type |-> "other"])
  /\ UNCHANGED <<env, now, kept, progress, conn, up, serverSide>>

-----------------------------------------------------------------------------
Handshaking ==
  \/ HandshakeRefused
  \/ HelloRefused
  \/ BeginHandshake
  \/ ReadAnswer
  \/ ReadAnswerFails
  \/ WriteFinish
  \/ Finalize

Next ==
  \/ Handshaking
  \/ \E e \in Envs : Setenv(e)
  \/ SetSecureIdentity
  \/ \E pins \in TrustStores : SetTrustStore(pins) \/ HandshakeSecure(pins)
  \/ Break
  \/ Tick
  \/ ServerHandleHello
  \/ ServerHandleFinish
  \/ ServerSendsOther

Spec == Init /\ [][Next]_vars

\* A call that was made goes on; an owner without a session calls again; the
\* server handles what it gets.
Fairness ==
  /\ WF_vars(Handshaking /\ session = None)
  /\ WF_vars(ServerHandleHello \/ ServerHandleFinish)

LiveSpec == Spec /\ Fairness
-----------------------------------------------------------------------------
(***************************************************************************)
(* Properties.                                                             *)
(***************************************************************************)
Pins == (UNION TrustStores) \cup UNION {ToSet(e.pins) \ {"blank", "malformed"} : e \in Envs}

Bundles == [notBefore : 0 .. MaxUint64, notAfter : 0 .. MaxUint64,
            made : FirstNow .. LastNow, validity : 0 .. MaxUint64,
            keyID : {"unsendable", "fits"}]
Hellos == [type : {"clientHello"}, attempt : 1 .. MaxAttempts, bundle : Bundles]
Finishes == [type : {"clientFinish"}, attempt : 1 .. MaxAttempts]
Answers == [type : {"serverHello"}, attempt : 1 .. MaxAttempts]
Others == [type : {"other"}]
Sessions == [hello : 1 .. MaxAttempts, answer : 1 .. MaxAttempts]

TypeOK ==
  /\ env \in Envs
  /\ now \in FirstNow .. LastNow
  /\ conn \in {"up", "broken", "closed"}
  /\ bundle \in Bundles \cup {None}
  /\ trust \in [set : BOOLEAN, own : BOOLEAN, pins : SUBSET Pins]
  /\ session \in Sessions \cup {None}
  /\ pc \in {"idle", "wait", "finish", "finalize"}
  /\ attempt \in 0 .. MaxAttempts
  /\ using \subseteq Pins
  /\ answer \in 0 .. MaxAttempts
  /\ up \in Seq(Hellos \cup Finishes)
  /\ down \in Seq(Answers \cup Others)
  /\ server \in [hello : 0 .. MaxAttempts, session : Sessions \cup {None}]
  /\ flaw \in BOOLEAN
  /\ budget \in [changes : 0 .. MaxChanges, stray : 0 .. MaxStray]

\* Between calls, on a connection that lives and with nothing on its way, the
\* two ends have the same session or both none: a failed attempt leaves the
\* session of an earlier one in place at both ends (client.go:154), and an
\* answer to an earlier attempt that is still in the stream is not taken for
\* the answer to this one.  After a Finalize that failed, the finish being
\* written already (client.go:149), the server alone has moved on: the client
\* is never ahead, and what it still has is an older session.
SessionsAgree ==
  pc = "idle" /\ conn = "up" /\ up = << >> =>
    \/ session = server.session
    \/ /\ flaw
       /\ server.session \in Sessions
       /\ session # None => session.hello < server.session.hello

\* The server never takes a bundle outside the validity that was configured,
\* counted without overflow, although ensureIdentityBundle (client.go:159, 180)
\* keeps the first bundle for ever and its end wraps for a validity near the
\* largest uint64: a bundle that wrapped is refused from the start, never
\* taken for longer.
AcceptedWithinValidity ==
  \A a \in accepted : a.made - Skew <= a.at /\ a.at <= a.made + a.validity

\* The client only ever uses a trust store that was complete: the pins of
\* the environment are used only if every one of them was well formed
\* (client.go:245), and no bad environment of an earlier call leaves anything
\* behind in the trust store.
TrustComplete ==
  trust.set =>
    \/ trust.own
    \/ \E e \in Envs : /\ "malformed" \notin ToSet(e.pins)
                       /\ trust.pins = ToSet(e.pins) \ {"blank"}
                       /\ trust.pins # {}

\* Nothing is wrong with the environment, with the connection, unless the
\* server closed it, and with what the client keeps and has sent.
InOrder ==
  /\ conn # "broken"
  /\ budget.stray = 0
  /\ identityFromEnv(env) /\ env.parses /\ Server \in trustFromEnv(env)
  /\ env.keyID = "fits" /\ (bundle # None => bundle.keyID = "fits")
  /\ LET end == IF bundle = None THEN now + validityFromEnv(env)
                                 ELSE bundle.made + bundle.validity
     IN  now <= end /\ end <= MaxUint64
  /\ \A i \in DOMAIN up :
       up[i].type = "clientHello" => now <= up[i].bundle.made + up[i].bundle.validity
  /\ trust.own => Server \in trust.pins

\* Every environment that pins anything pins the server.
PinsServer ==
  \A e \in Envs : Server \in ToSet(e.pins) \/ ToSet(e.pins) \subseteq {"blank", "malformed"}

\* A client whose environment is put in order, also after calls that failed
\* because of it, gets a session from its next call, unless the order is
\* disturbed again: the errors of Handshake (client.go:84-94) keep nothing that
\* would spoil a later call, and no server refuses a bundle within the validity
\* it was configured with.  What is kept for good and does spoil later calls is
\* excluded: a bundle that has expired or wrapped (client.go:159, 180), and one
\* whose key ID can be signed but not sent (client.go:184).
Connects ==
  PinsServer /\ InOrder /\ conn = "up" /\ pc = "idle" /\ attempt < MaxAttempts
    ~> session # None \/ flaw \/ ~InOrder
=============================================================================
