----------------------- MODULE ClientHandshakeProofs ------------------------
(***************************************************************************)
(* Proofs about ClientHandshake, for every clock, every set of             *)
(* environments and trust stores, and every number of attempts.            *)
(***************************************************************************)
EXTENDS ClientHandshake, TLAPS

-----------------------------------------------------------------------------
(***************************************************************************)
(* The inductive invariant.                                                *)
(***************************************************************************)
\* A session, if there is one, is of an attempt before number n.
Older(s, n) == s # None => s.hello < n

\* A call under way has a number, and an answer taken is one to its hello; the
\* session is that of an attempt before it.
CallInv ==
  /\ Older(session, attempt + 1)
  /\ pc # "idle" => Older(session, attempt)
  /\ pc # "idle" => attempt > 0
  /\ pc \in {"finish", "finalize"} => answer = attempt

\* No bundle is valid outside the time that was configured for it.
Honest(b) == b.made - Skew <= b.notBefore /\ b.notAfter <= b.made + b.validity

BundleInv ==
  /\ bundle # None => Honest(bundle)
  /\ \A i \in DOMAIN up : up[i].type = "clientHello" => Honest(up[i].bundle)

\* The hellos under way are later than what the server has handled, and in
\* their order.
HellosInv ==
  /\ server.hello <= attempt
  /\ \A i \in DOMAIN up :
       up[i].type = "clientHello" => server.hello < up[i].attempt /\ up[i].attempt <= attempt
  /\ \A i, j \in DOMAIN up :
       i < j /\ up[i].type = "clientHello" /\ up[j].type = "clientHello"
         => up[i].attempt < up[j].attempt

\* An answer to the attempt under way shows that the server is at its hello.
AnswersInv ==
  /\ \A i \in DOMAIN down : down[i].type = "serverHello" =>
       down[i].attempt <= attempt /\ (down[i].attempt = attempt => server.hello = attempt)
  /\ pc \in {"finish", "finalize"} => server.hello = attempt

\* A finish is only ever the first frame under way, and fits the hello the
\* server is at.
FinishInv ==
  \A i \in DOMAIN up : up[i].type = "clientFinish" =>
    /\ i = 1
    /\ up[i].attempt = server.hello
    /\ pc \in {"wait", "finish"} => server.hello < attempt

\* The session of the server once it has handled a finish under way.
Coming ==
  IF up # << >> /\ up[1].type = "clientFinish"
    THEN [hello |-> server.hello, answer |-> server.hello]
    ELSE server.session

\* After a Finalize that failed the server has the later session.
Ahead == flaw /\ Coming \in Sessions /\ Older(session, Coming.hello)

SessionInv ==
  /\ pc = "finalize" => Coming = [hello |-> attempt, answer |-> attempt]
  /\ pc # "finalize" => session = Coming \/ Ahead

\* Only while the connection lives are the two ends in step.
InStep == HellosInv /\ AnswersInv /\ FinishInv /\ SessionInv

HandshakeInv ==
  /\ TypeOK
  /\ CallInv
  /\ BundleInv
  /\ AcceptedWithinValidity
  /\ TrustComplete
  /\ conn = "up" => InStep

-----------------------------------------------------------------------------
(***************************************************************************)
(* What the environment gives.                                             *)
(***************************************************************************)
\* A sum that wraps is not larger than one that does not.
LEMMA WrapSmaller ==
  ASSUME NEW x \in Nat, NEW m \in Nat
  PROVE  x % (m + 1) \in 0 .. m /\ x % (m + 1) <= x
<1>1. m + 1 \in Nat \ {0}
  OBVIOUS
<1>. QED  BY <1>1

\* The bundles a client makes, or is given, are valid for no longer than was
\* configured.
LEMMA BundleType ==
  ASSUME TypeOK, BundleInv
  PROVE  /\ OwnBundle \in Bundles /\ Honest(OwnBundle)
         /\ ensureIdentityBundle \in Bundles \cup {None}
         /\ ensureIdentityBundle # None => Honest(ensureIdentityBundle)
<1>. USE ClientHandshakeAssumption
<1>0. now \in FirstNow .. LastNow /\ env \in Envs /\ bundle \in Bundles \cup {None}
  BY DEF TypeOK
<1>1. OwnBundle \in Bundles /\ Honest(OwnBundle)
  <2>1. now \in 0 .. MaxUint64 /\ now + DefaultValidity \in 0 .. MaxUint64
        /\ DefaultValidity \in 0 .. MaxUint64
    BY <1>0
  <2>2. OwnBundle \in Bundles
    BY <1>0, <2>1 DEF OwnBundle, Bundles
  <2>3. /\ OwnBundle.made = now /\ OwnBundle.notBefore = now
        /\ OwnBundle.notAfter = now + DefaultValidity /\ OwnBundle.validity = DefaultValidity
    BY DEF OwnBundle
  <2>4. now - Skew <= now /\ now + DefaultValidity <= now + DefaultValidity
    BY <1>0
  <2>. HIDE DEF OwnBundle
  <2>. QED  BY <2>2, <2>3, <2>4 DEF Honest
<1>2. ASSUME bundleFromEnv(env, now) # None
      PROVE  bundleFromEnv(env, now) \in Bundles /\ Honest(bundleFromEnv(env, now))
  <2>. DEFINE v == validityFromEnv(env)
              e == (now + v) % (MaxUint64 + 1)
              b == [notBefore |-> now - Skew, notAfter |-> e, made |-> now, validity |-> v,
                    keyID |-> env.keyID]
  <2>1. v \in 0 .. MaxUint64
    BY <1>0 DEF validityFromEnv
  <2>2. bundleFromEnv(env, now) = b /\ env.keyID # "tooLong"
    BY <1>2 DEF bundleFromEnv
  <2>. HIDE DEF v
  <2>3. now + v \in Nat /\ now \in Nat /\ now - Skew \in 0 .. MaxUint64
    BY <1>0, <2>1
  <2>4. e \in 0 .. MaxUint64 /\ e <= now + v
    BY <2>3, WrapSmaller
  <2>. HIDE DEF e
  <2>5. b \in Bundles
    <3>1. env.keyID \in {"unsendable", "fits"}
      BY <1>0, <2>2 DEF KeyIDs
    <3>. QED  BY <1>0, <2>1, <2>3, <2>4, <3>1 DEF Bundles
  <2>6. now - Skew <= now - Skew
    BY <2>3
  <2>7. Honest(b)
    BY <2>4, <2>6 DEF Honest
  <2>. QED  BY <2>2, <2>5, <2>7
<1>. QED  BY <1>0, <1>1, <1>2 DEF ensureIdentityBundle, BundleInv

\* The pins of an environment are used all or not at all.
LEMMA TrustType ==
  ASSUME NEW e \in Envs
  PROVE  /\ trustFromEnv(e) \subseteq Pins
         /\ trustFromEnv(e) # {} => /\ "malformed" \notin ToSet(e.pins)
                                    /\ trustFromEnv(e) = ToSet(e.pins) \ {"blank"}
<1>. DEFINE tokens == ToSet(e.pins)
<1>. HIDE DEF tokens
<1>1. trustFromEnv(e) = IF "malformed" \in tokens \ {"blank"} THEN {} ELSE tokens \ {"blank"}
  BY DEF trustFromEnv, tokens
<1>2. tokens \ {"blank", "malformed"} \subseteq Pins
  BY DEF Pins, tokens
<1>3. "malformed" # "blank"
  OBVIOUS
<1>. QED  BY <1>1, <1>2, <1>3 DEF tokens

-----------------------------------------------------------------------------
(***************************************************************************)
(* What the client keeps.                                                  *)
(***************************************************************************)
KeptTypes ==
  /\ env \in Envs
  /\ now \in FirstNow .. LastNow
  /\ bundle \in Bundles \cup {None}
  /\ bundle # None => Honest(bundle)

LEMMA KeptStep ==
  ASSUME HandshakeInv, [Next]_vars
  PROVE  KeptTypes'
<1>0. /\ env \in Envs /\ now \in FirstNow .. LastNow /\ bundle \in Bundles \cup {None}
      /\ bundle # None => Honest(bundle)
  BY DEF HandshakeInv, TypeOK, BundleInv
<1>1. /\ OwnBundle \in Bundles /\ Honest(OwnBundle)
      /\ ensureIdentityBundle \in Bundles \cup {None}
      /\ ensureIdentityBundle # None => Honest(ensureIdentityBundle)
  BY BundleType DEF HandshakeInv
<1>2. /\ env' \in Envs
      /\ bundle' \in {bundle, ensureIdentityBundle, OwnBundle}
      /\ now' = now \/ (now < LastNow /\ now' = now + 1)
  BY <1>0 DEF Next, Handshaking, HandshakeRefused, HelloRefused, BeginHandshake, ReadAnswer, ReadAnswerFails,
       WriteFinish, Finalize, Setenv, SetSecureIdentity, SetTrustStore, HandshakeSecure,
       SendHello, Break, Tick, ServerHandleHello, ServerHandleFinish, ServerSendsOther,
       Owner, vars, kept
<1>3. now' \in FirstNow .. LastNow
  BY <1>0, <1>2, ClientHandshakeAssumption
<1>4. bundle' \in Bundles \cup {None} /\ (bundle' # None => Honest(bundle'))
  <2>. HIDE DEF Honest, Bundles, OwnBundle, ensureIdentityBundle
  <2>. QED  BY <1>0, <1>1, <1>2
<1>. QED  BY <1>2, <1>3, <1>4 DEF KeptTypes, Bundles, Honest

\* The owner sets the trust store, Handshake takes it from an environment that
\* is complete, or it stays.
LEMMA TrustStep ==
  ASSUME HandshakeInv, [Next]_vars
  PROVE  /\ trust' \in [set : BOOLEAN, own : BOOLEAN, pins : SUBSET Pins]
         /\ TrustComplete'
         /\ using' \subseteq Pins
<1>. DEFINE Complete(t) ==
              t.set => \/ t.own
                       \/ \E e \in Envs : /\ "malformed" \notin ToSet(e.pins)
                                          /\ t.pins = ToSet(e.pins) \ {"blank"}
                                          /\ t.pins # {}
            Trusts == [set : BOOLEAN, own : BOOLEAN, pins : SUBSET Pins]
<1>. SUFFICES trust' \in Trusts /\ Complete(trust') /\ using' \subseteq Pins
  BY DEF TrustComplete
<1>0. trust \in Trusts /\ Complete(trust) /\ using \subseteq Pins /\ env \in Envs
  BY DEF HandshakeInv, TypeOK, TrustComplete
<1>1. trustToUse \subseteq Pins
  BY <1>0, TrustType DEF trustToUse
<1>2. ASSUME NEW pins \in TrustStores
      PROVE  pins \subseteq Pins
  BY DEF Pins
<1>3. ASSUME BeginHandshake \/ HelloRefused
      PROVE  trust' \in Trusts /\ Complete(trust') /\ using' \subseteq Pins
  <2>. DEFINE t == [trust EXCEPT !.set = TRUE, !.pins = trustToUse]
  <2>1. trust' = t /\ using' \in {using, trustToUse} /\ (trust.set \/ trustToUse # {})
    BY <1>3 DEF BeginHandshake, HelloRefused, SendHello, CanBegin, progress
  <2>2. t \in Trusts /\ t.set /\ t.own = trust.own /\ t.pins = trustToUse
    BY <1>0, <1>1
  <2>3. Complete(t)
    <3>1. CASE trust.set
      <4>1. trustToUse = trust.pins
        BY <3>1 DEF trustToUse
      <4>. HIDE DEF t
      <4>. QED  BY <1>0, <2>2, <3>1, <4>1
    <3>2. CASE ~trust.set
      <4>1. trustToUse = trustFromEnv(env) /\ trustFromEnv(env) # {}
        BY <2>1, <3>2 DEF trustToUse
      <4>2. /\ "malformed" \notin ToSet(env.pins)
            /\ trustFromEnv(env) = ToSet(env.pins) \ {"blank"}
        BY <1>0, <4>1, TrustType
      <4>. HIDE DEF t
      <4>. QED  BY <1>0, <2>2, <4>1, <4>2
    <3>. QED  BY <3>1, <3>2
  <2>. HIDE DEF t, Complete
  <2>. QED  BY <1>0, <1>1, <2>1, <2>2, <2>3
<1>4. ASSUME NEW pins \in TrustStores, SetTrustStore(pins) \/ HandshakeSecure(pins)
      PROVE  trust' \in Trusts /\ Complete(trust') /\ using' \subseteq Pins
  <2>1. CASE SetTrustStore(pins)
    <3>. DEFINE t == [set |-> TRUE, pins |-> pins, own |-> TRUE]
    <3>1. trust' = t /\ using' = using
      BY <2>1 DEF SetTrustStore, progress
    <3>2. t \in Trusts /\ t.own
      BY <1>2
    <3>. HIDE DEF t
    <3>. QED  BY <1>0, <3>1, <3>2
  <2>2. CASE HandshakeSecure(pins)
    <3>1. trust' = trust /\ using' = pins
      BY <2>2 DEF HandshakeSecure, SendHello, kept
    <3>. HIDE DEF Complete
    <3>. QED  BY <1>0, <1>2, <3>1
  <2>. QED  BY <1>4, <2>1, <2>2
<1>5. ASSUME UNCHANGED <<trust, using>>
      PROVE  trust' \in Trusts /\ Complete(trust') /\ using' \subseteq Pins
  BY <1>0, <1>5
<1>. HIDE DEF Complete
<1>6. \/ BeginHandshake \/ HelloRefused
      \/ \E pins \in TrustStores : SetTrustStore(pins) \/ HandshakeSecure(pins)
      \/ UNCHANGED <<trust, using>>
  BY DEF Next, Handshaking, HandshakeRefused, ReadAnswer, ReadAnswerFails,
       WriteFinish, Finalize, Setenv, SetSecureIdentity, Break, Tick, ServerHandleHello,
       ServerHandleFinish, ServerSendsOther, vars, kept, progress
<1>. QED  BY <1>3, <1>4, <1>5, <1>6

-----------------------------------------------------------------------------
(***************************************************************************)
(* The call of the client, and the bounds.                                 *)
(***************************************************************************)
CallTypes ==
  /\ session \in Sessions \cup {None}
  /\ pc \in {"idle", "wait", "finish", "finalize"}
  /\ attempt \in 0 .. MaxAttempts
  /\ answer \in 0 .. MaxAttempts
  /\ flaw \in BOOLEAN
  /\ CallInv

LEMMA CallStep ==
  ASSUME HandshakeInv, [Next]_vars
  PROVE  CallTypes'
<1>. USE ClientHandshakeAssumption
<1>0. /\ session \in Sessions \cup {None} /\ pc \in {"idle", "wait", "finish", "finalize"}
      /\ attempt \in 0 .. MaxAttempts /\ answer \in 0 .. MaxAttempts /\ CallInv
      /\ down \in Seq(Answers \cup Others)
  BY DEF HandshakeInv, TypeOK
<1>a. flaw \in BOOLEAN
  BY DEF HandshakeInv, TypeOK
<1>1. ASSUME UNCHANGED progress PROVE CallTypes'
  BY <1>0, <1>1, <1>a DEF progress, CallTypes, CallInv, Older, Sessions
<1>2. ASSUME NEW b, NEW pins, attempt < MaxAttempts, SendHello(b, pins) PROVE CallTypes'
  <2>1. /\ attempt' = attempt + 1 /\ pc' \in {"wait", "idle"}
        /\ session' = session /\ answer' = answer /\ flaw' = flaw
    BY <1>2 DEF SendHello
  <2>2. attempt' \in 0 .. MaxAttempts /\ attempt' > 0
    BY <1>0, <1>2, <2>1
  <2>3. Older(session', attempt') /\ Older(session', attempt' + 1)
    <3>1. session # None => session.hello \in Nat /\ session.hello < attempt + 1
      BY <1>0 DEF CallInv, Older, Sessions
    <3>. QED  BY <1>0, <2>1, <3>1 DEF Older
  <2>. QED  BY <1>0, <1>a, <2>1, <2>2, <2>3 DEF CallTypes, CallInv, Sessions
<1>3. ASSUME ReadAnswer PROVE CallTypes'
  <2>1. /\ pc = "wait" /\ session' = session /\ attempt' = attempt /\ flaw' = flaw
        /\ \/ pc' = "idle" /\ answer' = answer
           \/ pc' = "finish" /\ answer' = Head(down).attempt /\ Head(down).attempt = attempt
    BY <1>3 DEF ReadAnswer, AnswerGood
  <2>2. answer' \in 0 .. MaxAttempts /\ (pc' = "finish" => answer' = attempt)
    BY <1>0, <2>1
  <2>3. attempt > 0
    BY <1>0, <2>1 DEF CallInv
  <2>. QED  BY <1>0, <1>a, <2>1, <2>2, <2>3 DEF CallTypes, CallInv, Older, Sessions
<1>4. ASSUME ReadAnswerFails \/ WriteFinish PROVE CallTypes'
  <2>1. /\ pc' = "idle" \/ (pc = "finish" /\ pc' = "finalize")
        /\ session' = session /\ attempt' = attempt /\ answer' = answer /\ flaw' = flaw
    BY <1>4 DEF ReadAnswerFails, WriteFinish
  <2>. QED  BY <1>0, <1>a, <2>1 DEF CallTypes, CallInv, Older, Sessions
<1>5. ASSUME Finalize PROVE CallTypes'
  <2>1. /\ pc = "finalize" /\ pc' = "idle" /\ attempt' = attempt /\ answer' = answer
        /\ session' = session \/ session' = [hello |-> attempt, answer |-> answer]
    BY <1>5 DEF Finalize
  <2>2. attempt \in 1 .. MaxAttempts /\ answer = attempt
    BY <1>0, <2>1 DEF CallInv
  <2>3. session' \in Sessions \cup {None}
    BY <1>0, <2>1, <2>2 DEF Sessions
  <2>4. flaw' \in BOOLEAN
    BY <1>5 DEF Finalize
  <2>5. Older(session', attempt' + 1)
    <3>1. session' = session \/ session'.hello = attempt
      BY <2>1
    <3>. QED  BY <1>0, <2>1, <3>1 DEF CallInv, Older
  <2>. QED  BY <1>0, <2>1, <2>3, <2>4, <2>5 DEF CallTypes, CallInv, Sessions
<1>6. \/ \E b, pins : attempt < MaxAttempts /\ SendHello(b, pins)
      \/ ReadAnswer \/ ReadAnswerFails \/ WriteFinish \/ Finalize \/ UNCHANGED progress
  <2>1. ASSUME BeginHandshake
        PROVE  \E b, pins : attempt < MaxAttempts /\ SendHello(b, pins)
    BY <2>1 DEF BeginHandshake
  <2>2. ASSUME NEW x, HandshakeSecure(x)
        PROVE  \E b, pins : attempt < MaxAttempts /\ SendHello(b, pins)
    BY <1>0, <2>2 DEF HandshakeSecure
  <2>3. ASSUME NEW x, Setenv(x) \/ SetSecureIdentity \/ SetTrustStore(x) \/ HandshakeRefused \/ HelloRefused
                      \/ Break \/ Tick \/ ServerHandleHello \/ ServerHandleFinish
                      \/ ServerSendsOther \/ UNCHANGED vars
        PROVE  UNCHANGED progress
    BY <2>3 DEF Setenv, SetSecureIdentity, SetTrustStore, HandshakeRefused, HelloRefused, Break, Tick,
                ServerHandleHello, ServerHandleFinish, ServerSendsOther, vars
  <2>. QED  BY <2>1, <2>2, <2>3 DEF Next, Handshaking
<1>. QED  BY <1>1, <1>2, <1>3, <1>4, <1>5, <1>6

LEMMA BoundStep ==
  ASSUME HandshakeInv, [Next]_vars
  PROVE  /\ budget' \in [changes : 0 .. MaxChanges, stray : 0 .. MaxStray]
         /\ conn' \in {"up", "broken", "closed"}
<1>0. budget \in [changes : 0 .. MaxChanges, stray : 0 .. MaxStray]
      /\ conn \in {"up", "broken", "closed"}
  BY DEF HandshakeInv, TypeOK
<1>1. conn' \in {conn, "broken", "closed"}
  BY DEF Next, Handshaking, HandshakeRefused, HelloRefused, BeginHandshake, ReadAnswer, ReadAnswerFails,
       WriteFinish, Finalize, Setenv, SetSecureIdentity, SetTrustStore, HandshakeSecure,
       SendHello, Break, Tick, ServerHandleHello, ServerHandleFinish, ServerSendsOther,
       vars, streams
<1>2. \/ budget' = budget
      \/ budget.changes < MaxChanges /\ budget' = [budget EXCEPT !.changes = @ + 1]
      \/ budget.stray < MaxStray /\ budget' = [budget EXCEPT !.stray = @ + 1]
  BY DEF Next, Handshaking, HandshakeRefused, HelloRefused, BeginHandshake, ReadAnswer, ReadAnswerFails,
       WriteFinish, Finalize, Setenv, SetSecureIdentity, SetTrustStore, HandshakeSecure,
       Break, Tick, ServerHandleHello, ServerHandleFinish, ServerSendsOther,
       Owner, vars
<1>3. budget' \in [changes : 0 .. MaxChanges, stray : 0 .. MaxStray]
  BY <1>0, <1>2, ClientHandshakeAssumption
<1>. QED  BY <1>0, <1>1, <1>3

-----------------------------------------------------------------------------
(***************************************************************************)
(* The streams and the server.                                             *)
(***************************************************************************)
Hello(b) == [type |-> "clientHello", attempt |-> attempt + 1, bundle |-> b]
Finish == [type |-> "clientFinish", attempt |-> attempt]

\* Taking the first frame off a stream, putting one on it, cutting it.
LEMMA StreamParts ==
  ASSUME NEW S, NEW t \in Seq(S), t # << >>
  PROVE  /\ Head(t) \in S /\ Head(t) = t[1] /\ 1 \in DOMAIN t
         /\ Tail(t) \in Seq(S)
         /\ \A i \in DOMAIN Tail(t) : i + 1 \in DOMAIN t /\ Tail(t)[i] = t[i + 1]
OBVIOUS

LEMMA StreamAppended ==
  ASSUME NEW S, NEW t \in Seq(S), NEW f \in S
  PROVE  /\ Append(t, f) \in Seq(S)
         /\ \A i \in DOMAIN Append(t, f) :
              (i \in DOMAIN t /\ Append(t, f)[i] = t[i]) \/ (i = Len(t) + 1 /\ Append(t, f)[i] = f)
OBVIOUS

LEMMA StreamCut ==
  ASSUME NEW S, NEW t \in Seq(S), NEW n \in 0 .. Len(t)
  PROVE  /\ SubSeq(t, 1, n) \in Seq(S)
         /\ \A i \in DOMAIN SubSeq(t, 1, n) : i \in DOMAIN t /\ SubSeq(t, 1, n)[i] = t[i]
OBVIOUS

\* What a step does to the stream to the server.
UpPut ==
  \/ \E b \in Bundles :
       /\ Honest(b) /\ attempt < MaxAttempts
       /\ up' = Append(up, Hello(b))
  \/ pc = "finish" /\ up' = Append(up, Finish)

UpTaken == up # << >> /\ up' = Tail(up)

UpCut == \E n \in 0 .. Len(up) : up' = SubSeq(up, 1, n)

LEMMA UpSteps ==
  ASSUME HandshakeInv, [Next]_vars
  PROVE  UpPut \/ UpTaken \/ UpCut \/ UNCHANGED up
<1>0. attempt \in 0 .. MaxAttempts
  BY DEF HandshakeInv, TypeOK
<1>1. /\ OwnBundle \in Bundles /\ Honest(OwnBundle)
      /\ ensureIdentityBundle \in Bundles \cup {None}
      /\ ensureIdentityBundle # None => Honest(ensureIdentityBundle)
  BY BundleType DEF HandshakeInv
<1>2. ASSUME NEW b \in Bundles, Honest(b), NEW pins, attempt < MaxAttempts, SendHello(b, pins)
      PROVE  UpPut \/ UNCHANGED up
  BY <1>2 DEF SendHello, UpPut, Hello
<1>3. ASSUME BeginHandshake PROVE UpPut \/ UNCHANGED up
  BY <1>1, <1>2, <1>3 DEF BeginHandshake, CanBegin
<1>4. ASSUME NEW pins, HandshakeSecure(pins) PROVE UpPut \/ UNCHANGED up
  <2>1. attempt < MaxAttempts /\ SendHello(OwnBundle, pins)
    BY <1>0, <1>4, ClientHandshakeAssumption DEF HandshakeSecure
  <2>. QED  BY <1>1, <1>2, <2>1
<1>5. ASSUME WriteFinish PROVE UpPut \/ UNCHANGED up
  BY <1>5 DEF WriteFinish, UpPut, Finish
<1>6. ASSUME ServerHandleHello \/ ServerHandleFinish PROVE UpTaken
  BY <1>6 DEF ServerHandleHello, ServerHandleFinish, UpTaken
<1>7. ASSUME Break PROVE UpCut
  BY <1>7 DEF Break, UpCut
<1>8. ASSUME NEW x, Setenv(x) \/ SetSecureIdentity \/ SetTrustStore(x) \/ HandshakeRefused \/ HelloRefused
                    \/ ReadAnswer \/ ReadAnswerFails \/ Finalize \/ Tick
                    \/ ServerSendsOther \/ UNCHANGED vars
      PROVE  UNCHANGED up
  BY <1>8 DEF Setenv, SetSecureIdentity, SetTrustStore, HandshakeRefused, HelloRefused, ReadAnswer,
              ReadAnswerFails, Finalize, Tick, ServerSendsOther, vars, streams
<1>. QED  BY <1>3, <1>4, <1>5, <1>6, <1>7, <1>8 DEF Next, Handshaking

\* What a step puts on the stream to the server is a hello or a finish.
LEMMA PutType ==
  ASSUME HandshakeInv
  PROVE  /\ \A b \in Bundles : attempt < MaxAttempts =>
              /\ Hello(b) \in Hellos \cup Finishes /\ Hello(b).type = "clientHello"
              /\ Hello(b).attempt = attempt + 1 /\ Hello(b).bundle = b
         /\ pc = "finish" => /\ Finish \in Hellos \cup Finishes
                             /\ Finish.type = "clientFinish" /\ Finish.attempt = attempt
<1>0. attempt \in 0 .. MaxAttempts /\ CallInv
  BY DEF HandshakeInv, TypeOK
<1>1. ASSUME NEW b \in Bundles, attempt < MaxAttempts
      PROVE  /\ Hello(b) \in Hellos \cup Finishes /\ Hello(b).type = "clientHello"
             /\ Hello(b).attempt = attempt + 1 /\ Hello(b).bundle = b
  <2>1. attempt + 1 \in 1 .. MaxAttempts
    BY <1>0, <1>1, ClientHandshakeAssumption
  <2>. QED  BY <1>1, <2>1 DEF Hello, Hellos
<1>2. ASSUME pc = "finish"
      PROVE  /\ Finish \in Hellos \cup Finishes
             /\ Finish.type = "clientFinish" /\ Finish.attempt = attempt
  <2>1. attempt \in 1 .. MaxAttempts
    BY <1>0, <1>2, ClientHandshakeAssumption DEF CallInv
  <2>. QED  BY <2>1 DEF Finish, Finishes
<1>. QED  BY <1>1, <1>2

LEMMA UpStep ==
  ASSUME HandshakeInv, [Next]_vars
  PROVE  /\ up' \in Seq(Hellos \cup Finishes)
         /\ \A i \in DOMAIN up' : up'[i].type = "clientHello" => Honest(up'[i].bundle)
<1>. DEFINE Frames == Hellos \cup Finishes
            Fine(f) == f.type = "clientHello" => Honest(f.bundle)
<1>. SUFFICES up' \in Seq(Frames) /\ \A i \in DOMAIN up' : Fine(up'[i])
  OBVIOUS
<1>0. up \in Seq(Frames) /\ \A i \in DOMAIN up : Fine(up[i])
  BY DEF HandshakeInv, TypeOK, BundleInv
<1>1. ASSUME NEW f \in Frames, Fine(f), up' = Append(up, f)
      PROVE  up' \in Seq(Frames) /\ \A i \in DOMAIN up' : Fine(up'[i])
  <2>. HIDE DEF Fine, Frames
  <2>. QED  BY <1>0, <1>1, StreamAppended
<1>2. ASSUME UpPut
      PROVE  up' \in Seq(Frames) /\ \A i \in DOMAIN up' : Fine(up'[i])
  <2>1. ASSUME NEW b \in Bundles, Honest(b), attempt < MaxAttempts, up' = Append(up, Hello(b))
        PROVE  up' \in Seq(Frames) /\ \A i \in DOMAIN up' : Fine(up'[i])
    <3>1. Hello(b) \in Frames /\ Hello(b).bundle = b
      BY <2>1, PutType
    <3>2. Fine(Hello(b))
      BY <2>1, <3>1
    <3>. HIDE DEF Fine, Frames
    <3>. QED  BY <1>1, <2>1, <3>1, <3>2
  <2>2. ASSUME pc = "finish", up' = Append(up, Finish)
        PROVE  up' \in Seq(Frames) /\ \A i \in DOMAIN up' : Fine(up'[i])
    <3>1. Finish \in Frames /\ Finish.type = "clientFinish"
      BY <2>2, PutType
    <3>2. Fine(Finish)
      BY <3>1
    <3>. HIDE DEF Fine, Frames
    <3>. QED  BY <1>1, <2>2, <3>1, <3>2
  <2>. HIDE DEF Fine, Frames
  <2>. QED  BY <1>2, <2>1, <2>2 DEF UpPut
<1>. HIDE DEF Fine, Frames
<1>3. ASSUME UpTaken
      PROVE  up' \in Seq(Frames) /\ \A i \in DOMAIN up' : Fine(up'[i])
  BY <1>0, <1>3, StreamParts DEF UpTaken
<1>4. ASSUME UpCut
      PROVE  up' \in Seq(Frames) /\ \A i \in DOMAIN up' : Fine(up'[i])
  BY <1>0, <1>4, StreamCut DEF UpCut
<1>5. ASSUME UNCHANGED up
      PROVE  up' \in Seq(Frames) /\ \A i \in DOMAIN up' : Fine(up'[i])
  BY <1>0, <1>5
<1>. QED  BY <1>2, <1>3, <1>4, <1>5, UpSteps

LEMMA DownStep ==
  ASSUME HandshakeInv, [Next]_vars
  PROVE  down' \in Seq(Answers \cup Others)
<1>. DEFINE Frames == Answers \cup Others
<1>0. down \in Seq(Frames) /\ up \in Seq(Hellos \cup Finishes)
  BY DEF HandshakeInv, TypeOK
<1>1. ASSUME ServerHandleHello PROVE down' \in Seq(Frames)
  <2>1. Head(up) \in Hellos \cup Finishes /\ Head(up).type = "clientHello"
    BY <1>0, <1>1, StreamParts DEF ServerHandleHello
  <2>2. Head(up).attempt \in 1 .. MaxAttempts
    BY <2>1 DEF Hellos, Finishes
  <2>3. [type |-> "serverHello", attempt |-> Head(up).attempt] \in Frames
    BY <2>2 DEF Answers
  <2>4. down' \in {down, Append(down, [type |-> "serverHello", attempt |-> Head(up).attempt])}
    BY <1>1 DEF ServerHandleHello
  <2>. HIDE DEF Frames
  <2>. QED  BY <1>0, <2>3, <2>4, StreamAppended
<1>2. ASSUME ServerSendsOther PROVE down' \in Seq(Frames)
  <2>1. [type |-> "other"] \in Frames
    BY DEF Others
  <2>2. down' = Append(down, [type |-> "other"])
    BY <1>2 DEF ServerSendsOther
  <2>. HIDE DEF Frames
  <2>. QED  BY <1>0, <2>1, <2>2, StreamAppended
<1>. HIDE DEF Frames
<1>3. ASSUME ReadAnswer PROVE down' \in Seq(Frames)
  BY <1>0, <1>3, StreamParts DEF ReadAnswer
<1>4. ASSUME Break PROVE down' \in Seq(Frames)
  BY <1>0, <1>4, StreamCut DEF Break
<1>5. ServerHandleHello \/ ServerSendsOther \/ ReadAnswer \/ Break \/ UNCHANGED down
  BY DEF Next, Handshaking, HandshakeRefused, HelloRefused, BeginHandshake, ReadAnswerFails,
       WriteFinish, Finalize, Setenv, SetSecureIdentity, SetTrustStore, HandshakeSecure,
       SendHello, Tick, ServerHandleFinish, vars, streams
<1>6. down' \in Seq(Frames)
  BY <1>0, <1>1, <1>2, <1>3, <1>4, <1>5
<1>. QED  BY <1>6 DEF Frames

\* The server takes a hello only while its bundle is valid.
LEMMA ServerStep ==
  ASSUME HandshakeInv, [Next]_vars
  PROVE  /\ server' \in [hello : 0 .. MaxAttempts, session : Sessions \cup {None}]
         /\ AcceptedWithinValidity'
<1>. DEFINE Within(a) == a.made - Skew <= a.at /\ a.at <= a.made + a.validity
            Servers == [hello : 0 .. MaxAttempts, session : Sessions \cup {None}]
<1>. SUFFICES server' \in Servers /\ \A a \in accepted' : Within(a)
  BY DEF AcceptedWithinValidity
<1>0. /\ server \in Servers /\ up \in Seq(Hellos \cup Finishes)
      /\ \A a \in accepted : Within(a)
      /\ \A i \in DOMAIN up : up[i].type = "clientHello" => Honest(up[i].bundle)
      /\ now \in FirstNow .. LastNow
  BY DEF HandshakeInv, TypeOK, AcceptedWithinValidity, BundleInv
<1>1. ASSUME ServerHandleHello
      PROVE  server' \in Servers /\ \A a \in accepted' : Within(a)
  <2>. DEFINE h == Head(up)
              b == h.bundle
              a == [at |-> now, made |-> b.made, validity |-> b.validity]
  <2>1. /\ h \in Hellos \cup Finishes /\ h.type = "clientHello"
        /\ h = up[1] /\ 1 \in DOMAIN up
    BY <1>0, <1>1, StreamParts DEF ServerHandleHello
  <2>2. h.attempt \in 1 .. MaxAttempts /\ b \in Bundles /\ Honest(b)
    BY <1>0, <2>1 DEF Hellos, Finishes
  <2>3. \/ server' = [server EXCEPT !.hello = h.attempt] /\ ValidAt(b, now)
           /\ accepted' = accepted \cup {a}
        \/ server' = server /\ accepted' = accepted
    BY <1>1 DEF ServerHandleHello
  <2>. HIDE DEF h
  <2>4. /\ b.made \in Int /\ b.validity \in Int /\ b.notBefore \in Int /\ b.notAfter \in Int
        /\ now \in Int /\ Skew \in Int
    <3>1. /\ b.notBefore \in 0 .. MaxUint64 /\ b.notAfter \in 0 .. MaxUint64
          /\ b.made \in FirstNow .. LastNow /\ b.validity \in 0 .. MaxUint64
      BY <2>2 DEF Bundles
    <3>2. /\ \A x \in FirstNow .. LastNow : x \in Int
          /\ \A x \in 0 .. MaxUint64 : x \in Int
          /\ Skew \in Int
      BY ClientHandshakeAssumption
    <3>. HIDE DEF b
    <3>. QED  BY <1>0, <3>1, <3>2
  <2>5. b.made - Skew <= b.notBefore /\ b.notAfter <= b.made + b.validity
    BY <2>2 DEF Honest
  <2>6. a.at = now /\ a.made = b.made /\ a.validity = b.validity
    OBVIOUS
  <2>7. ValidAt(b, now) => b.notBefore <= now /\ now <= b.notAfter
    BY DEF ValidAt
  <2>. HIDE DEF a, b
  <2>8. ValidAt(b, now) => b.made - Skew <= now /\ now <= b.made + b.validity
    BY <2>4, <2>5, <2>7
  <2>9. ValidAt(b, now) => Within(a)
    BY <2>6, <2>8
  <2>10. [server EXCEPT !.hello = h.attempt] \in Servers
    BY <1>0, <2>2
  <2>. HIDE DEF Within, Servers
  <2>. QED  BY <1>0, <2>3, <2>9, <2>10
<1>2. ASSUME ServerHandleFinish
      PROVE  server' \in Servers /\ \A a \in accepted' : Within(a)
  <2>. DEFINE h == Head(up)
              new == [hello |-> server.hello, answer |-> server.hello]
  <2>1. h \in Hellos \cup Finishes
    BY <1>0, <1>2, StreamParts DEF ServerHandleFinish
  <2>2. h.attempt \in 1 .. MaxAttempts
    BY <2>1 DEF Hellos, Finishes
  <2>3. /\ accepted' = accepted
        /\ \/ server' = server
           \/ h.attempt = server.hello /\ server' = [server EXCEPT !.session = new]
    BY <1>2 DEF ServerHandleFinish
  <2>. HIDE DEF h
  <2>4. h.attempt = server.hello => new \in Sessions
    BY <2>2 DEF Sessions
  <2>. HIDE DEF new
  <2>5. server' \in Servers
    BY <1>0, <2>3, <2>4
  <2>. QED  BY <1>0, <2>3, <2>5
<1>3. ASSUME UNCHANGED <<server, accepted>>
      PROVE  server' \in Servers /\ \A a \in accepted' : Within(a)
  BY <1>0, <1>3
<1>4. ServerHandleHello \/ ServerHandleFinish \/ UNCHANGED <<server, accepted>>
  BY DEF Next, Handshaking, HandshakeRefused, HelloRefused, BeginHandshake, ReadAnswer, ReadAnswerFails,
       WriteFinish, Finalize, Setenv, SetSecureIdentity, SetTrustStore, HandshakeSecure,
       SendHello, Break, Tick, ServerSendsOther, vars, serverSide
<1>. QED  BY <1>1, <1>2, <1>3, <1>4

-----------------------------------------------------------------------------
(***************************************************************************)
(* The two ends are in step while the connection lives.                    *)
(***************************************************************************)
Numbers ==
  /\ attempt \in Nat /\ server.hello \in Nat
  /\ \A i \in DOMAIN up : up[i].attempt \in Nat /\ up[i].type \in {"clientHello", "clientFinish"}
  /\ \A i \in DOMAIN down : down[i].type = "serverHello" => down[i].attempt \in Nat

LEMMA NumbersType == TypeOK => Numbers
<1>. SUFFICES ASSUME TypeOK PROVE Numbers
  OBVIOUS
<1>0. /\ up \in Seq(Hellos \cup Finishes) /\ down \in Seq(Answers \cup Others)
      /\ attempt \in 0 .. MaxAttempts /\ server \in [hello : 0 .. MaxAttempts, session : Sessions \cup {None}]
  BY DEF TypeOK
<1>1. ASSUME NEW i \in DOMAIN up
      PROVE  up[i].attempt \in Nat /\ up[i].type \in {"clientHello", "clientFinish"}
  <2>1. up[i] \in Hellos \cup Finishes
    BY <1>0, <1>1
  <2>. QED  BY <2>1, ClientHandshakeAssumption DEF Hellos, Finishes
<1>2. ASSUME NEW i \in DOMAIN down, down[i].type = "serverHello"
      PROVE  down[i].attempt \in Nat
  <2>1. down[i] \in Answers \cup Others
    BY <1>0, <1>2
  <2>. QED  BY <1>2, <2>1, ClientHandshakeAssumption DEF Answers, Others
<1>. QED  BY <1>0, <1>1, <1>2, ClientHandshakeAssumption DEF Numbers

\* A finish comes first on the stream.
FinishFirst == up # << >> /\ up[1].type = "clientFinish"

LEMMA ComingSame ==
  ASSUME server' = server, FinishFirst' <=> FinishFirst
  PROVE  Coming' = Coming
BY DEF Coming, FinishFirst

LEMMA InStepQuiet ==
  ASSUME InStep, UNCHANGED <<session, pc, attempt, answer, flaw, up, down, server>>
  PROVE  InStep'
<1>1. Coming' = Coming
  BY ComingSame DEF FinishFirst
<1>2. HellosInv' /\ AnswersInv' /\ FinishInv'
  BY DEF InStep, HellosInv, AnswersInv, FinishInv
<1>3. SessionInv'
  BY <1>1 DEF InStep, SessionInv, Ahead, Older, Sessions
<1>. QED  BY <1>2, <1>3 DEF InStep

LEMMA InStepHello ==
  ASSUME TypeOK, InStep, NEW b \in Bundles, NEW pins, conn = "up", attempt < MaxAttempts,
         SendHello(b, pins)
  PROVE  InStep'
<1>. DEFINE h == Hello(b)  n == Len(up) + 1
<1>0. /\ Numbers /\ up \in Seq(Hellos \cup Finishes)
      /\ HellosInv /\ AnswersInv /\ FinishInv /\ SessionInv
  BY NumbersType DEF TypeOK, InStep
<1>1. /\ pc = "idle" /\ pc' = "wait" /\ attempt' = attempt + 1 /\ up' = Append(up, h)
      /\ session' = session /\ flaw' = flaw /\ down' = down /\ server' = server
  BY DEF SendHello, Hello, serverSide
<1>2. h \in Hellos \cup Finishes /\ h.type = "clientHello" /\ h.attempt = attempt + 1
  <2>1. attempt + 1 \in 1 .. MaxAttempts
    BY ClientHandshakeAssumption DEF TypeOK
  <2>. QED  BY <2>1 DEF Hello, Hellos
<1>. HIDE DEF h
<1>3. \A i \in DOMAIN up' : \/ i \in DOMAIN up /\ up'[i] = up[i] /\ i < n
                            \/ i = n /\ up'[i] = h
  BY <1>0, <1>1, <1>2
<1>. HIDE DEF n
<1>4. DOMAIN up \subseteq Int /\ n \in Nat
  BY <1>0 DEF n
<1>5. attempt \in Nat /\ server.hello \in Nat /\ server.hello <= attempt
  BY <1>0 DEF Numbers, HellosInv
<1>6. HellosInv'
  <2>1. server'.hello <= attempt'
    BY <1>1, <1>5
  <2>2. ASSUME NEW i \in DOMAIN up', up'[i].type = "clientHello"
        PROVE  server'.hello < up'[i].attempt /\ up'[i].attempt <= attempt'
    <3>1. CASE i \in DOMAIN up /\ up'[i] = up[i]
      <4>1. up[i].attempt \in Nat /\ server.hello < up[i].attempt /\ up[i].attempt <= attempt
        BY <1>0, <2>2, <3>1 DEF Numbers, HellosInv
      <4>. QED  BY <1>1, <1>5, <3>1, <4>1
    <3>2. CASE up'[i] = h
      BY <1>1, <1>2, <1>5, <3>2
    <3>. QED  BY <1>3, <3>1, <3>2
  <2>3. ASSUME NEW i \in DOMAIN up', NEW j \in DOMAIN up', i < j,
               up'[i].type = "clientHello", up'[j].type = "clientHello"
        PROVE  up'[i].attempt < up'[j].attempt
    <3>1. i \in DOMAIN up /\ up'[i] = up[i]
      <4>. SUFFICES ASSUME i = n PROVE FALSE
        BY <1>3
      <4>1. j = n \/ (j \in DOMAIN up /\ j < n)
        BY <1>3
      <4>. QED  BY <1>4, <2>3, <4>1
    <3>2. CASE j \in DOMAIN up /\ up'[j] = up[j]
      BY <1>0, <2>3, <3>1, <3>2 DEF HellosInv
    <3>3. CASE up'[j] = h
      <4>1. up[i].attempt \in Nat /\ up[i].attempt <= attempt
        BY <1>0, <2>3, <3>1 DEF Numbers, HellosInv
      <4>. QED  BY <1>2, <1>5, <3>1, <3>3, <4>1
    <3>. QED  BY <1>3, <3>2, <3>3
  <2>. QED  BY <2>1, <2>2, <2>3 DEF HellosInv
<1>7. AnswersInv'
  <2>1. ASSUME NEW i \in DOMAIN down, down[i].type = "serverHello"
        PROVE  down[i].attempt <= attempt + 1 /\ down[i].attempt # attempt + 1
    <3>1. down[i].attempt \in Nat /\ down[i].attempt <= attempt
      BY <1>0, <2>1 DEF Numbers, AnswersInv
    <3>. QED  BY <1>5, <3>1
  <2>. QED  BY <1>1, <2>1 DEF AnswersInv
<1>8. FinishInv'
  <2>. SUFFICES ASSUME NEW i \in DOMAIN up', up'[i].type = "clientFinish"
                PROVE  i = 1 /\ up'[i].attempt = server'.hello /\ server'.hello < attempt'
    BY DEF FinishInv
  <2>1. i \in DOMAIN up /\ up'[i] = up[i]
    BY <1>2, <1>3
  <2>2. i = 1 /\ up[i].attempt = server.hello
    BY <1>0, <2>1 DEF FinishInv
  <2>. QED  BY <1>1, <1>5, <2>1, <2>2
<1>9. SessionInv'
  <2>1. FinishFirst' <=> FinishFirst
    <3>1. CASE up = << >>
      <4>1. up'[1] = h
        BY <1>1, <1>2, <3>1
      <4>. QED  BY <1>2, <3>1, <4>1 DEF FinishFirst
    <3>2. CASE up # << >>
      <4>1. up'[1] = up[1] /\ up' # << >>
        BY <1>0, <1>1, <1>2, <3>2
      <4>. QED  BY <3>2, <4>1 DEF FinishFirst
    <3>. QED  BY <3>1, <3>2
  <2>2. Coming' = Coming
    BY <1>1, <2>1, ComingSame
  <2>. QED  BY <1>0, <1>1, <2>2 DEF SessionInv, Ahead, Older, Sessions
<1>. QED  BY <1>6, <1>7, <1>8, <1>9 DEF InStep

LEMMA InStepAnswer ==
  ASSUME TypeOK, InStep, ReadAnswer
  PROVE  InStep'
<1>0. /\ Numbers /\ down \in Seq(Answers \cup Others)
      /\ HellosInv /\ AnswersInv /\ FinishInv /\ SessionInv
  BY NumbersType DEF TypeOK, InStep
<1>1. /\ pc = "wait" /\ down # << >> /\ down' = Tail(down)
      /\ session' = session /\ flaw' = flaw /\ attempt' = attempt
      /\ up' = up /\ server' = server
      /\ \/ pc' = "idle"
         \/ /\ pc' = "finish" /\ Head(down).type = "serverHello"
            /\ Head(down).attempt = attempt
  BY DEF ReadAnswer, AnswerGood, serverSide
<1>2. /\ Head(down) = down[1] /\ 1 \in DOMAIN down
      /\ \A i \in DOMAIN down' : i + 1 \in DOMAIN down /\ down'[i] = down[i + 1]
  BY <1>0, <1>1, StreamParts
<1>3. pc' = "finish" => server.hello = attempt
  BY <1>0, <1>1, <1>2 DEF AnswersInv
<1>4. HellosInv'
  BY <1>0, <1>1 DEF HellosInv
<1>5. AnswersInv'
  BY <1>0, <1>1, <1>2, <1>3 DEF AnswersInv
<1>6. FinishInv'
  BY <1>0, <1>1 DEF FinishInv
<1>7. Coming' = Coming
  BY <1>1, ComingSame DEF FinishFirst
<1>8. SessionInv'
  BY <1>0, <1>1, <1>7 DEF SessionInv, Ahead, Older, Sessions
<1>. QED  BY <1>4, <1>5, <1>6, <1>8 DEF InStep

\* When a finish is written everything before it has been handled.
LEMMA InStepFinish ==
  ASSUME TypeOK, CallInv, InStep, conn = "up", WriteFinish
  PROVE  InStep'
<1>0. /\ Numbers /\ up \in Seq(Hellos \cup Finishes)
      /\ HellosInv /\ AnswersInv /\ FinishInv /\ SessionInv
  BY NumbersType DEF TypeOK, InStep
<1>1. /\ pc = "finish" /\ pc' = "finalize" /\ up' = Append(up, Finish)
      /\ session' = session /\ flaw' = flaw /\ attempt' = attempt
      /\ down' = down /\ server' = server
  BY DEF WriteFinish, Finish, serverSide
<1>2. server.hello = attempt /\ attempt \in Nat
  BY <1>0, <1>1 DEF AnswersInv, Numbers
<1>3. up = << >>
  <2>. SUFFICES ASSUME up # << >> PROVE FALSE
    OBVIOUS
  <2>1. 1 \in DOMAIN up
    BY <1>0
  <2>2. up[1].attempt \in Nat /\ up[1].type \in {"clientHello", "clientFinish"}
    BY <1>0, <2>1 DEF Numbers
  <2>3. up[1].type = "clientHello" => server.hello < up[1].attempt /\ up[1].attempt <= attempt
    BY <1>0, <2>1 DEF HellosInv
  <2>4. up[1].type = "clientFinish" => server.hello < attempt
    BY <1>0, <1>1, <2>1 DEF FinishInv
  <2>. QED  BY <1>2, <2>2, <2>3, <2>4
<1>4. Finish.type = "clientFinish" /\ Finish.attempt = attempt
  BY DEF Finish
<1>5. up' = <<Finish>>
  BY <1>1, <1>3
<1>6. DOMAIN up' = {1} /\ up'[1] = Finish /\ up' # << >>
  BY <1>5
<1>7. HellosInv'
  <2>1. server'.hello <= attempt'
    BY <1>1, <1>2
  <2>2. \A i \in DOMAIN up' : up'[i].type # "clientHello"
    BY <1>4, <1>6
  <2>. QED  BY <2>1, <2>2 DEF HellosInv
<1>8. AnswersInv'
  BY <1>0, <1>1 DEF AnswersInv
<1>9. FinishInv'
  BY <1>1, <1>2, <1>4, <1>6 DEF FinishInv
<1>10. SessionInv'
  <2>1. Coming' = [hello |-> attempt, answer |-> attempt]
    BY <1>1, <1>2, <1>4, <1>6 DEF Coming
  <2>. QED  BY <1>1, <2>1 DEF SessionInv
<1>. QED  BY <1>7, <1>8, <1>9, <1>10 DEF InStep

LEMMA InStepFinalize ==
  ASSUME TypeOK, CallInv, InStep, Finalize
  PROVE  InStep'
<1>0. HellosInv /\ AnswersInv /\ FinishInv /\ SessionInv
  BY DEF InStep
<1>1. /\ pc = "finalize" /\ pc' = "idle" /\ attempt' = attempt
      /\ up' = up /\ down' = down /\ server' = server
      /\ session' = [hello |-> attempt, answer |-> answer] \/ (flaw' /\ session' = session)
  BY DEF Finalize, streams, serverSide
<1>2. HellosInv' /\ AnswersInv' /\ FinishInv'
  BY <1>0, <1>1 DEF HellosInv, AnswersInv, FinishInv
<1>3. Coming' = Coming
  BY <1>1, ComingSame DEF FinishFirst
<1>4. answer = attempt /\ Coming = [hello |-> attempt, answer |-> attempt]
  BY <1>0, <1>1 DEF CallInv, SessionInv
<1>5. SessionInv'
  <2>1. attempt \in 1 .. MaxAttempts /\ Older(session, attempt)
    BY <1>1, ClientHandshakeAssumption DEF TypeOK, CallInv
  <2>2. Coming' \in Sessions /\ Coming'.hello = attempt
    BY <1>3, <1>4, <2>1 DEF Sessions
  <2>3. session' = Coming' \/ (flaw' /\ Older(session', Coming'.hello))
    BY <1>1, <1>3, <1>4, <2>1, <2>2 DEF Older
  <2>. QED  BY <1>1, <2>2, <2>3 DEF SessionInv, Ahead, Older, Sessions
<1>. QED  BY <1>2, <1>5 DEF InStep

\* Taking the first frame off the stream keeps the order of the others, and
\* leaves no finish behind.
LEMMA InStepTaken ==
  ASSUME TypeOK, InStep, up # << >>, up' = Tail(up)
  PROVE  /\ up[1].attempt \in Nat /\ 1 \in DOMAIN up
         /\ \A i \in DOMAIN up' :
              /\ up'[i].type = "clientHello"
              /\ up'[i].attempt \in Nat
              /\ server.hello < up'[i].attempt /\ up'[i].attempt <= attempt
              /\ up[1].type = "clientHello" => up[1].attempt < up'[i].attempt
         /\ \A i, j \in DOMAIN up' : i < j => up'[i].attempt < up'[j].attempt
         /\ ~FinishFirst'
<1>0. Numbers /\ up \in Seq(Hellos \cup Finishes) /\ HellosInv /\ FinishInv
  BY NumbersType DEF TypeOK, InStep
<1>1. /\ 1 \in DOMAIN up /\ up' \in Seq(Hellos \cup Finishes)
      /\ \A i \in DOMAIN up' : i + 1 \in DOMAIN up /\ up'[i] = up[i + 1]
  BY <1>0, StreamParts
<1>2. \A i \in DOMAIN up' : i \in Nat /\ i > 0
  BY <1>1
<1>3. ASSUME NEW i \in DOMAIN up'
      PROVE  /\ up'[i].type = "clientHello"
             /\ up'[i].attempt \in Nat
             /\ server.hello < up'[i].attempt /\ up'[i].attempt <= attempt
             /\ up[1].type = "clientHello" => up[1].attempt < up'[i].attempt
  <2>1. i + 1 \in DOMAIN up /\ up'[i] = up[i + 1] /\ i + 1 # 1 /\ 1 < i + 1
    BY <1>1, <1>2
  <2>2. up[i + 1].type = "clientHello" /\ up[i + 1].attempt \in Nat
    BY <1>0, <2>1 DEF Numbers, FinishInv
  <2>3. server.hello < up[i + 1].attempt /\ up[i + 1].attempt <= attempt
    BY <1>0, <2>1, <2>2 DEF HellosInv
  <2>4. up[1].type = "clientHello" => up[1].attempt < up[i + 1].attempt
    BY <1>0, <1>1, <2>1, <2>2 DEF HellosInv
  <2>. QED  BY <2>1, <2>2, <2>3, <2>4
<1>4. ASSUME NEW i \in DOMAIN up', NEW j \in DOMAIN up', i < j
      PROVE  up'[i].attempt < up'[j].attempt
  <2>1. /\ i + 1 \in DOMAIN up /\ up'[i] = up[i + 1] /\ j + 1 \in DOMAIN up /\ up'[j] = up[j + 1]
    BY <1>1
  <2>2. i + 1 < j + 1
    BY <1>2, <1>4
  <2>3. up[i + 1].type = "clientHello" /\ up[j + 1].type = "clientHello"
    BY <1>3, <2>1
  <2>4. up[i + 1].attempt < up[j + 1].attempt
    BY <1>0, <2>1, <2>2, <2>3 DEF HellosInv
  <2>. QED  BY <2>1, <2>4
<1>5. ~FinishFirst'
  <2>. SUFFICES ASSUME up' # << >> PROVE up'[1].type # "clientFinish"
    BY DEF FinishFirst
  <2>1. 1 \in DOMAIN up'
    BY <1>1
  <2>. QED  BY <1>3, <2>1
<1>. QED  BY <1>0, <1>1, <1>3, <1>4, <1>5 DEF Numbers

LEMMA InStepServerHello ==
  ASSUME TypeOK, InStep, ServerHandleHello, conn = "up", conn' = "up"
  PROVE  InStep'
<1>. DEFINE h == up[1]  a == [type |-> "serverHello", attempt |-> h.attempt]
<1>0. /\ Numbers /\ up \in Seq(Hellos \cup Finishes) /\ down \in Seq(Answers \cup Others)
      /\ HellosInv /\ AnswersInv /\ FinishInv /\ SessionInv
      /\ server \in [hello : 0 .. MaxAttempts, session : Sessions \cup {None}]
  BY NumbersType DEF TypeOK, InStep
<1>1. up # << >> /\ up' = Tail(up) /\ Head(up) = h /\ 1 \in DOMAIN up /\ h \in Hellos \cup Finishes
  BY <1>0, StreamParts DEF ServerHandleHello
<1>2. /\ h.type = "clientHello" /\ down' = Append(down, a)
      /\ server' = [server EXCEPT !.hello = h.attempt]
      /\ pc' = pc /\ session' = session /\ flaw' = flaw /\ attempt' = attempt
  BY <1>1 DEF ServerHandleHello, progress
<1>3. server'.hello = h.attempt /\ server'.session = server.session
  BY <1>0, <1>2
<1>4. /\ h.attempt \in Nat /\ ~FinishFirst'
      /\ \A i \in DOMAIN up' :
           /\ up'[i].type = "clientHello" /\ up'[i].attempt \in Nat
           /\ up'[i].attempt <= attempt /\ h.attempt < up'[i].attempt
      /\ \A i, j \in DOMAIN up' : i < j => up'[i].attempt < up'[j].attempt
  BY <1>1, <1>2, InStepTaken
<1>5. server.hello < h.attempt /\ h.attempt <= attempt /\ server.hello \in Nat /\ attempt \in Nat
  BY <1>0, <1>1, <1>2 DEF HellosInv, Numbers
<1>6. HellosInv'
  BY <1>2, <1>3, <1>4, <1>5 DEF HellosInv
<1>7. server.hello # attempt
  BY <1>4, <1>5
<1>8. AnswersInv'
  <2>1. a \in Answers \cup Others /\ a.type = "serverHello" /\ a.attempt = h.attempt
    <3>1. h.attempt \in 1 .. MaxAttempts
      BY <1>1 DEF Hellos, Finishes
    <3>. QED  BY <3>1 DEF Answers
  <2>. HIDE DEF a
  <2>2. \A i \in DOMAIN down' : (i \in DOMAIN down /\ down'[i] = down[i]) \/ down'[i] = a
    BY <1>0, <1>2, <2>1, StreamAppended
  <2>3. ASSUME NEW i \in DOMAIN down', down'[i].type = "serverHello"
        PROVE  /\ down'[i].attempt <= attempt
               /\ down'[i].attempt = attempt => h.attempt = attempt
    <3>1. CASE i \in DOMAIN down /\ down'[i] = down[i]
      BY <1>0, <1>7, <2>3, <3>1 DEF AnswersInv
    <3>2. CASE down'[i] = a
      BY <1>5, <2>1, <3>2
    <3>. QED  BY <2>2, <3>1, <3>2
  <2>4. pc \notin {"finish", "finalize"}
    BY <1>0, <1>7 DEF AnswersInv
  <2>. QED  BY <1>2, <1>3, <2>3, <2>4 DEF AnswersInv
<1>9. FinishInv'
  BY <1>4 DEF FinishInv
<1>10. SessionInv'
  <2>1. Coming' = server'.session
    BY <1>4 DEF Coming, FinishFirst
  <2>2. Coming = server.session
    BY <1>2 DEF Coming
  <2>. QED  BY <1>0, <1>2, <1>3, <2>1, <2>2 DEF SessionInv, Ahead, Older, Sessions
<1>. QED  BY <1>6, <1>8, <1>9, <1>10 DEF InStep

LEMMA InStepServerFinish ==
  ASSUME TypeOK, InStep, ServerHandleFinish
  PROVE  InStep'
<1>. DEFINE h == up[1]  new == [hello |-> server.hello, answer |-> server.hello]
<1>0. /\ Numbers /\ up \in Seq(Hellos \cup Finishes)
      /\ HellosInv /\ AnswersInv /\ FinishInv /\ SessionInv
      /\ server \in [hello : 0 .. MaxAttempts, session : Sessions \cup {None}]
  BY NumbersType DEF TypeOK, InStep
<1>1. up # << >> /\ up' = Tail(up) /\ Head(up) = h /\ 1 \in DOMAIN up
  BY <1>0, StreamParts DEF ServerHandleFinish
<1>2. h.type = "clientFinish" /\ h.attempt = server.hello
  BY <1>0, <1>1 DEF ServerHandleFinish, FinishInv
<1>3. /\ server' = [server EXCEPT !.session = new] /\ down' = down
      /\ pc' = pc /\ session' = session /\ flaw' = flaw /\ attempt' = attempt
  BY <1>1, <1>2 DEF ServerHandleFinish, progress
<1>4. server'.hello = server.hello /\ server'.session = new
  BY <1>0, <1>3
<1>5. /\ ~FinishFirst'
      /\ \A i \in DOMAIN up' :
           /\ up'[i].type = "clientHello"
           /\ server.hello < up'[i].attempt /\ up'[i].attempt <= attempt
      /\ \A i, j \in DOMAIN up' : i < j => up'[i].attempt < up'[j].attempt
  BY <1>1, InStepTaken
<1>6. HellosInv'
  BY <1>0, <1>3, <1>4, <1>5 DEF HellosInv
<1>7. AnswersInv'
  BY <1>0, <1>3, <1>4 DEF AnswersInv
<1>8. FinishInv'
  BY <1>5 DEF FinishInv
<1>9. SessionInv'
  <2>1. Coming' = server'.session
    BY <1>5 DEF Coming, FinishFirst
  <2>2. Coming = new
    BY <1>1, <1>2 DEF Coming
  <2>. HIDE DEF new
  <2>. QED  BY <1>0, <1>3, <1>4, <2>1, <2>2 DEF SessionInv, Ahead, Older, Sessions
<1>. QED  BY <1>6, <1>7, <1>8, <1>9 DEF InStep

LEMMA InStepOther ==
  ASSUME TypeOK, InStep, ServerSendsOther
  PROVE  InStep'
<1>. DEFINE f == [type |-> "other"]
<1>0. /\ down \in Seq(Answers \cup Others)
      /\ HellosInv /\ AnswersInv /\ FinishInv /\ SessionInv
  BY DEF TypeOK, InStep
<1>1. /\ down' = Append(down, f) /\ server' = server /\ up' = up
      /\ pc' = pc /\ session' = session /\ flaw' = flaw /\ attempt' = attempt
  BY DEF ServerSendsOther, progress, serverSide
<1>2. f \in Answers \cup Others /\ f.type = "other"
  BY DEF Others
<1>. HIDE DEF f
<1>3. \A i \in DOMAIN down' : (i \in DOMAIN down /\ down'[i] = down[i]) \/ down'[i] = f
  BY <1>0, <1>1, <1>2, StreamAppended
<1>4. AnswersInv'
  BY <1>0, <1>1, <1>2, <1>3 DEF AnswersInv
<1>5. HellosInv' /\ FinishInv'
  BY <1>0, <1>1 DEF HellosInv, FinishInv
<1>6. Coming' = Coming
  BY <1>1, ComingSame DEF FinishFirst
<1>7. SessionInv'
  BY <1>0, <1>1, <1>6 DEF SessionInv, Ahead, Older, Sessions
<1>. QED  BY <1>4, <1>5, <1>7 DEF InStep

LEMMA InStepStep ==
  ASSUME HandshakeInv, [Next]_vars, conn' = "up"
  PROVE  InStep'
<1>1. conn = "up"
  BY DEF Next, Handshaking, HandshakeRefused, HelloRefused, BeginHandshake, ReadAnswer, ReadAnswerFails,
       WriteFinish, Finalize, Setenv, SetSecureIdentity, SetTrustStore, HandshakeSecure,
       SendHello, Break, Tick, ServerHandleHello, ServerHandleFinish, ServerSendsOther,
       vars, streams
<1>2. TypeOK /\ CallInv /\ InStep /\ attempt \in 0 .. MaxAttempts
  BY <1>1 DEF HandshakeInv, TypeOK
<1>3. /\ OwnBundle \in Bundles
      /\ ensureIdentityBundle \in Bundles \cup {None}
  BY BundleType DEF HandshakeInv
<1>4. ASSUME BeginHandshake PROVE InStep'
  BY <1>1, <1>2, <1>3, <1>4, InStepHello DEF BeginHandshake, CanBegin
<1>5. ASSUME NEW pins, HandshakeSecure(pins) PROVE InStep'
  <2>1. attempt < MaxAttempts /\ SendHello(OwnBundle, pins)
    BY <1>2, <1>5, ClientHandshakeAssumption DEF HandshakeSecure
  <2>. QED  BY <1>1, <1>2, <1>3, <2>1, InStepHello
<1>6. ASSUME NEW x, Setenv(x) \/ SetSecureIdentity \/ SetTrustStore(x) \/ HandshakeRefused \/ HelloRefused
                    \/ Tick \/ UNCHANGED vars
      PROVE  InStep'
  <2>1. UNCHANGED <<session, pc, attempt, answer, flaw, up, down, server>>
    BY <1>6 DEF Setenv, SetSecureIdentity, SetTrustStore, HandshakeRefused, HelloRefused, Tick, vars,
                progress, streams, serverSide
  <2>. QED  BY <1>2, <2>1, InStepQuiet
<1>7. ~Break /\ ~ReadAnswerFails
  BY <1>1 DEF Break, ReadAnswerFails
<1>8. ASSUME ReadAnswer \/ WriteFinish \/ Finalize PROVE InStep'
  BY <1>1, <1>2, <1>8, InStepAnswer, InStepFinish, InStepFinalize
<1>9. ASSUME ServerHandleHello \/ ServerHandleFinish \/ ServerSendsOther PROVE InStep'
  BY <1>1, <1>2, <1>9, InStepServerHello, InStepServerFinish, InStepOther
<1>. QED  BY <1>4, <1>5, <1>6, <1>7, <1>8, <1>9 DEF Next, Handshaking

-----------------------------------------------------------------------------
(***************************************************************************)
(* The theorems.                                                           *)
(***************************************************************************)
LEMMA HandshakeInit == Init => HandshakeInv
<1>. SUFFICES ASSUME Init PROVE HandshakeInv
  OBVIOUS
<1>. USE ClientHandshakeAssumption
<1>1. TypeOK
  <2>1. /\ now \in FirstNow .. LastNow /\ attempt \in 0 .. MaxAttempts
        /\ answer \in 0 .. MaxAttempts
        /\ budget \in [changes : 0 .. MaxChanges, stray : 0 .. MaxStray]
    BY DEF Init
  <2>2. trust \in [set : BOOLEAN, own : BOOLEAN, pins : SUBSET Pins] /\ using \subseteq Pins
    BY DEF Init
  <2>3. up \in Seq(Hellos \cup Finishes) /\ down \in Seq(Answers \cup Others)
    BY DEF Init
  <2>4. server \in [hello : 0 .. MaxAttempts, session : Sessions \cup {None}]
    BY DEF Init
  <2>5. /\ env \in Envs /\ conn \in {"up", "broken", "closed"} /\ bundle \in Bundles \cup {None}
        /\ session \in Sessions \cup {None} /\ pc \in {"idle", "wait", "finish", "finalize"}
    BY DEF Init
  <2>6. flaw \in BOOLEAN
    BY DEF Init
  <2>. QED  BY <2>1, <2>2, <2>3, <2>4, <2>5, <2>6 DEF TypeOK
<1>2. CallInv /\ BundleInv /\ AcceptedWithinValidity /\ TrustComplete
  BY DEF Init, CallInv, Older, BundleInv, AcceptedWithinValidity, TrustComplete
<1>3. InStep
  <2>1. HellosInv /\ AnswersInv /\ FinishInv
    BY DEF Init, HellosInv, AnswersInv, FinishInv
  <2>2. SessionInv
    BY DEF Init, SessionInv, Coming
  <2>. QED  BY <2>1, <2>2 DEF InStep
<1>. QED  BY <1>1, <1>2, <1>3 DEF HandshakeInv

LEMMA HandshakeStep == HandshakeInv /\ [Next]_vars => HandshakeInv'
<1>. SUFFICES ASSUME HandshakeInv, [Next]_vars PROVE HandshakeInv'
  OBVIOUS
<1>1. KeptTypes' /\ CallTypes'
  BY KeptStep, CallStep
<1>2. /\ (trust \in [set : BOOLEAN, own : BOOLEAN, pins : SUBSET Pins])'
      /\ TrustComplete' /\ (using \subseteq Pins)'
  BY TrustStep DEF Pins
<1>3. /\ (up \in Seq(Hellos \cup Finishes))'
      /\ (\A i \in DOMAIN up : up[i].type = "clientHello" => Honest(up[i].bundle))'
  BY UpStep DEF Hellos, Finishes, Bundles, Honest
<1>4. (down \in Seq(Answers \cup Others))'
  BY DownStep DEF Answers, Others
<1>5. /\ (server \in [hello : 0 .. MaxAttempts, session : Sessions \cup {None}])'
      /\ AcceptedWithinValidity'
  BY ServerStep DEF Sessions
<1>6. /\ (budget \in [changes : 0 .. MaxChanges, stray : 0 .. MaxStray])'
      /\ (conn \in {"up", "broken", "closed"})'
  BY BoundStep
<1>7. TypeOK'
  BY <1>1, <1>2, <1>3, <1>4, <1>5, <1>6 DEF KeptTypes, CallTypes, TypeOK
<1>8. CallInv' /\ BundleInv'
  BY <1>1, <1>3 DEF KeptTypes, CallTypes, BundleInv
<1>9. (conn = "up" => InStep)'
  BY InStepStep
<1>. QED  BY <1>2, <1>5, <1>7, <1>8, <1>9 DEF HandshakeInv

LEMMA HandshakeInvariant == Spec => []HandshakeInv
BY HandshakeInit, HandshakeStep, PTL DEF Spec

\* The variables have their types.
THEOREM ClientHandshakeTypeOK == Spec => []TypeOK
<1>1. HandshakeInv => TypeOK
  BY DEF HandshakeInv
<1>. QED  BY <1>1, HandshakeInvariant, PTL

\* Between calls, on a connection that lives and with nothing on its way, the
\* two ends have the same session or both none, or a Finalize has failed after
\* the finish was written and the server has a later session than the client.
THEOREM ClientHandshakeSessionsAgree == Spec => []SessionsAgree
<1>1. HandshakeInv => SessionsAgree
  <2>. SUFFICES ASSUME HandshakeInv, pc = "idle", conn = "up", up = << >>
                PROVE  session = Coming \/ Ahead
    BY DEF SessionsAgree, Ahead, Older, Coming
  <2>. QED  BY DEF HandshakeInv, InStep, SessionInv
<1>. QED  BY <1>1, HandshakeInvariant, PTL

\* The server never takes a bundle outside the validity that was configured,
\* however near to the largest uint64 that lies.
THEOREM ClientHandshakeWithinValidity == Spec => []AcceptedWithinValidity
<1>1. HandshakeInv => AcceptedWithinValidity
  BY DEF HandshakeInv
<1>. QED  BY <1>1, HandshakeInvariant, PTL

\* A trust store that is in use was set by the owner or holds all the pins of
\* an environment without a malformed one.
THEOREM ClientHandshakeTrustComplete == Spec => []TrustComplete
<1>1. HandshakeInv => TrustComplete
  BY DEF HandshakeInv
<1>. QED  BY <1>1, HandshakeInvariant, PTL
=============================================================================
