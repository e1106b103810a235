-------------------------- MODULE WebServerProofs --------------------------
(***************************************************************************)
(* Proofs about the web sources (WebServer): type correctness, and that   *)
(* with a static list of form fields only requests with the right secret  *)
(* and a valid body reach a pipeline, for any number of requests and any  *)
(* set of route kinds.                                                     *)
(***************************************************************************)
EXTENDS WebServer, TLAPS

-----------------------------------------------------------------------------
(***************************************************************************)
(* Type correctness.                                                       *)
(***************************************************************************)

\* What the input of a request tells about itself.
LEMMA InputFacts ==
  ASSUME NEW i \in Inputs
  PROVE  /\ i.kind \in Routes
         /\ i.secret \in SecretsOf(i.kind)
         /\ i.body \in BodiesOf(i.kind)
  BY DEF Inputs, InputsOf

LEMMA WsTypeInit == WsInit => WsTypeOK
<1> SUFFICES ASSUME WsInit PROVE WsTypeOK
  OBVIOUS
<1>1. Inputs # {}
  <2>1. PICK k \in Routes : TRUE
    BY WebServerAssumption
  <2>2. PICK v \in Variants : TRUE
    BY WebServerAssumption
  <2>3. [kind |-> k, secret |-> "none", method |-> "GET", body |-> "ok",
         variant |-> v] \in InputsOf(k)
    BY DEF InputsOf, SecretsOf, MethodsOf, BodiesOf
  <2>4. QED
    BY <2>3 DEF Inputs
<1>2. req \in [Requests -> Inputs]
  BY <1>1 DEF WsInit
<1>3. QED
  BY <1>2 DEF WsInit, WsTypeOK, Outcomes

LEMMA WsTypeStep == WsTypeOK /\ [WsNext]_wsVars => WsTypeOK'
<1> SUFFICES ASSUME WsTypeOK, [WsNext]_wsVars PROVE WsTypeOK'
  OBVIOUS
<1> USE DEF WsTypeOK
<1>1. ASSUME NEW k \in Routes, PipelineReady(k) PROVE WsTypeOK'
  BY <1>1 DEF PipelineReady
<1>2. ASSUME NEW r \in Requests, Arrive(r) PROVE WsTypeOK'
  BY <1>2 DEF Arrive
<1>3. ASSUME NEW r \in Requests, Inject(r) PROVE
        /\ pc' \in [Requests -> {"absent", "handling", "awaiting", "done", "cancelled"}]
        /\ outcome' \in [Requests -> Outcomes]
        /\ fut' \in [Requests -> {"none", "pending", "done", "cancelled"}]
        /\ ev' \in [Requests -> {"none", "inflight", "sunk", "lost"}]
        /\ injected' \subseteq Requests
  BY <1>3 DEF Inject, Answer, Outcomes
<1>4. ASSUME NEW r \in Requests, NEW o \in Outcomes, Refuse(r, o) PROVE
        /\ pc' \in [Requests -> {"absent", "handling", "awaiting", "done", "cancelled"}]
        /\ outcome' \in [Requests -> Outcomes]
        /\ fut' \in [Requests -> {"none", "pending", "done", "cancelled"}]
        /\ ev' \in [Requests -> {"none", "inflight", "sunk", "lost"}]
        /\ injected' \subseteq Requests
  BY <1>4 DEF Refuse, Answer
<1>5. \A r \in Requests : GateOutcome(r) \in Outcomes \cup {"pass"}
  BY DEF GateOutcome, Outcomes
<1>6. \A r \in Requests : GateRefuses(r) => GateOutcome(r) \in Outcomes
  BY <1>5 DEF GateRefuses
<1>7. ASSUME NEW r \in Requests, HandleRoute(r) PROVE WsTypeOK'
  BY <1>7, <1>3 DEF HandleRoute
<1>8. ASSUME NEW r \in Requests, HandleProtectedRoute(r) PROVE WsTypeOK'
  BY <1>8, <1>3, <1>4, <1>6 DEF HandleProtectedRoute
<1>9. ASSUME NEW r \in Requests, HandleFormGet(r) PROVE WsTypeOK'
  <2>1. req[r] \in Inputs
    OBVIOUS
  <2>2. req[r].kind \in Routes /\ req[r].variant \in Variants
    BY <2>1 DEF Inputs, InputsOf
  <2>3. fields' \in [Routes -> {"static", "empty"} \cup Variants]
    BY <1>9, <2>2 DEF HandleFormGet
  <2>4. QED
    BY <1>9, <1>6, <2>3 DEF HandleFormGet, Answer, Outcomes
<1>10. ASSUME NEW r \in Requests, HandleFormPost(r) PROVE WsTypeOK'
  <2>1. PICK accept \in FieldsAccept(r) :
          IF PostOutcome(r, accept) = "pass"
          THEN Inject(r)
          ELSE Refuse(r, PostOutcome(r, accept))
    BY <1>10 DEF HandleFormPost
  <2>2. PostOutcome(r, accept) \in Outcomes \cup {"pass"}
    BY <1>5 DEF PostOutcome, JWTPostOutcome, Outcomes
  <2>3. /\ pc' \in [Requests -> {"absent", "handling", "awaiting", "done", "cancelled"}]
        /\ outcome' \in [Requests -> Outcomes]
        /\ fut' \in [Requests -> {"none", "pending", "done", "cancelled"}]
        /\ ev' \in [Requests -> {"none", "inflight", "sunk", "lost"}]
        /\ injected' \subseteq Requests
    BY <2>1, <2>2, <1>3, <1>4
  <2>4. QED
    BY <1>10, <2>3 DEF HandleFormPost
<1>11. ASSUME NEW r \in Requests, Deliver(r) PROVE WsTypeOK'
  BY <1>11 DEF Deliver
<1>12. ASSUME NEW r \in Requests, Respond(r) PROVE WsTypeOK'
  BY <1>12 DEF Respond, Answer, Outcomes
<1>13. ASSUME NEW r \in Requests, Disconnect(r) PROVE WsTypeOK'
  BY <1>13 DEF Disconnect
<1>14. CASE UNCHANGED wsVars
  BY <1>14 DEF wsVars
<1>15. QED
  BY <1>1, <1>2, <1>7, <1>8, <1>9, <1>10, <1>11, <1>12, <1>13, <1>14
  DEF WsNext, Handle

(***************************************************************************)
(* WsTypeCorrect: the handlers, the sink and the bootstraps keep every    *)
(* request, future and event in its set of states.                         *)
(***************************************************************************)
THEOREM WsTypeCorrect == WsSpec => []WsTypeOK
  BY WsTypeInit, WsTypeStep, PTL DEF WsSpec

-----------------------------------------------------------------------------
(***************************************************************************)
(* Only valid requests reach a pipeline.                                   *)
(***************************************************************************)

\* What PipelineSeesOnlyValidRequests asks of one request.
ValidRequest(r) ==
    /\ req[r].kind \in Protected => req[r].secret \in ValidSecrets
    /\ req[r].body = "ok"

(***************************************************************************)
(* GateIInv: besides the types, the form sources keep their static list  *)
(* of fields, and a request whose event entered a pipeline has arrived,   *)
(* so that no later Arrive rewrites its input, and was valid.             *)
(***************************************************************************)
GateIInv ==
    /\ WsTypeOK
    /\ \A k \in Routes : fields[k] = "static"
    /\ \A r \in injected : pc[r] # "absent" /\ ValidRequest(r)

\* A handler that refuses r leaves the invariant's part about events alone.
LEMMA RefuseKeeps ==
  ASSUME GateIInv, WsTypeOK', NEW r \in Requests, pc[r] = "handling",
         NEW o, Refuse(r, o), UNCHANGED <<req, fields>>
  PROVE  GateIInv'
  BY DEF GateIInv, Refuse, Answer, ValidRequest

\* A handler that hands a valid request r to Source.process keeps it.
LEMMA InjectKeeps ==
  ASSUME GateIInv, WsTypeOK', NEW r \in Requests, pc[r] = "handling",
         Inject(r), UNCHANGED <<req, fields>>, ValidRequest(r)
  PROVE  GateIInv'
<1>1. \A s \in injected : ValidRequest(s)' /\ pc[s] # "absent"
  BY DEF GateIInv, ValidRequest
<1>2. CASE pipeline[req[r].kind] = "ready"
  <2>1. injected' = injected \cup {r} /\ pc' = [pc EXCEPT ![r] = "awaiting"]
    BY <1>2 DEF Inject
  <2>2. \A s \in injected' : pc'[s] # "absent"
    BY <1>1, <2>1 DEF GateIInv, WsTypeOK
  <2>3. QED
    BY <1>1, <2>1, <2>2 DEF GateIInv, ValidRequest
<1>3. CASE pipeline[req[r].kind] # "ready"
  <2>1. injected' = injected /\ pc' = [pc EXCEPT ![r] = "done"]
    BY <1>3 DEF Inject, Answer
  <2>2. \A s \in injected' : pc'[s] # "absent"
    BY <1>1, <2>1 DEF GateIInv, WsTypeOK
  <2>3. QED
    BY <1>1, <2>1, <2>2 DEF GateIInv
<1>4. QED
  BY <1>2, <1>3

\* A POST that reaches the pipeline had the secret, on the JWT form as
\* well, which checks it itself, and a body the fields accept.
LEMMA PostPasses ==
  ASSUME NEW r \in Requests, req[r] \in Inputs, NEW accept \in BOOLEAN,
         PostOutcome(r, accept) = "pass"
  PROVE  /\ accept
         /\ req[r].kind \in Protected => req[r].secret \in ValidSecrets
  BY DEF PostOutcome, JWTPostOutcome, GateRefuses, GateOutcome, SecretTest,
         ValidSecrets

LEMMA GateIInvInit == ~GenerateFields /\ WsInit => GateIInv
  BY WsTypeInit DEF GateIInv, WsInit

LEMMA GateIInvStep ==
  ASSUME ~GenerateFields
  PROVE  GateIInv /\ [WsNext]_wsVars => GateIInv'
<1> SUFFICES ASSUME GateIInv, [WsNext]_wsVars PROVE GateIInv'
  OBVIOUS
<1>0. WsTypeOK /\ WsTypeOK'
  BY WsTypeStep DEF GateIInv
<1>1. ASSUME NEW k \in Routes, PipelineReady(k) PROVE GateIInv'
  BY <1>0, <1>1 DEF PipelineReady, GateIInv, ValidRequest
<1>2. ASSUME NEW r \in Requests, Arrive(r) PROVE GateIInv'
  <2>1. r \notin injected
    BY <1>2 DEF Arrive, GateIInv
  <2>2. \A s \in injected : req'[s] = req[s]
    BY <1>0, <1>2, <2>1 DEF Arrive, WsTypeOK
  <2>3. QED
    BY <1>0, <1>2, <2>2 DEF Arrive, GateIInv, ValidRequest
<1>3. ASSUME NEW r \in Requests, HandleRoute(r) PROVE GateIInv'
  <2>1. req[r] \in Inputs
    BY <1>0 DEF WsTypeOK
  <2>2. req[r].body \in BodiesOf(req[r].kind)
    BY <2>1, InputFacts
  <2>3. ValidRequest(r)
    BY <1>3, <2>2 DEF HandleRoute, BodiesOf, ValidRequest, FormKinds, Protected
  <2>4. QED
    BY <1>0, <1>3, <2>3, InjectKeeps DEF HandleRoute
<1>4. ASSUME NEW r \in Requests, HandleProtectedRoute(r) PROVE GateIInv'
  <2>1. GateRefuses(r)
    BY <1>4 DEF HandleProtectedRoute, GateRefuses, GateOutcome, SecretTest, Protected
  <2>2. QED
    BY <1>0, <1>4, <2>1, RefuseKeeps DEF HandleProtectedRoute
<1>5. ASSUME NEW r \in Requests, HandleFormGet(r) PROVE GateIInv'
  <2>1. UNCHANGED <<req, fields, injected>> /\ pc'[r] = "done"
    BY <1>0, <1>5 DEF HandleFormGet, Answer, WsTypeOK
  <2>2. \A s \in Requests \ {r} : pc'[s] = pc[s]
    BY <1>0, <1>5 DEF HandleFormGet, Answer, WsTypeOK
  <2>3. QED
    BY <1>0, <2>1, <2>2 DEF GateIInv, ValidRequest, WsTypeOK
<1>6. ASSUME NEW r \in Requests, HandleFormPost(r) PROVE GateIInv'
  <2>1. PICK accept \in FieldsAccept(r) :
          IF PostOutcome(r, accept) = "pass"
          THEN Inject(r)
          ELSE Refuse(r, PostOutcome(r, accept))
    BY <1>6 DEF HandleFormPost
  <2>2. CASE PostOutcome(r, accept) = "pass"
    <3>0. accept \in BOOLEAN
      BY <2>1 DEF FieldsAccept
    <3>1. accept /\ (req[r].kind \in Protected => req[r].secret \in ValidSecrets)
      BY <1>0, <2>2, <3>0, PostPasses DEF WsTypeOK
    <3>2. fields[req[r].kind] = "static"
      BY <1>0 DEF GateIInv, WsTypeOK, Inputs, InputsOf
    <3>3. req[r].body = "ok"
      BY <3>1, <3>2 DEF FieldsAccept
    <3>4. ValidRequest(r)
      BY <3>1, <3>3 DEF ValidRequest
    <3>5. QED
      BY <1>0, <1>6, <2>1, <2>2, <3>4, InjectKeeps DEF HandleFormPost
  <2>3. CASE PostOutcome(r, accept) # "pass"
    BY <1>0, <1>6, <2>1, <2>3, RefuseKeeps DEF HandleFormPost
  <2>4. QED
    BY <2>2, <2>3
<1>7. ASSUME NEW r \in Requests, Deliver(r) PROVE GateIInv'
  BY <1>0, <1>7 DEF Deliver, GateIInv, ValidRequest
<1>8. ASSUME NEW r \in Requests, Respond(r) PROVE GateIInv'
  BY <1>0, <1>8 DEF Respond, Answer, GateIInv, ValidRequest
<1>9. ASSUME NEW r \in Requests, Disconnect(r) PROVE GateIInv'
  BY <1>0, <1>9 DEF Disconnect, GateIInv, ValidRequest
<1>10. CASE UNCHANGED wsVars
  BY <1>0, <1>10 DEF wsVars, GateIInv, ValidRequest
<1>11. QED
  BY <1>1, <1>2, <1>3, <1>4, <1>5, <1>6, <1>7, <1>8, <1>9, <1>10
  DEF WsNext, Handle

(***************************************************************************)
(* GateSound: when the form sources are given their fields as a list,    *)
(* gate_response and handle_post's checks let an event into a pipeline    *)
(* only for a request with the right secret (on a protected source) and   *)
(* a body that has its form's fields, however many requests interleave.  *)
(* MCWebServerGeneratedFields shows that a fields callable breaks this.  *)
(***************************************************************************)
THEOREM GateSound ==
  ASSUME ~GenerateFields
  PROVE  WsSpec => []PipelineSeesOnlyValidRequests
<1>1. GateIInv => PipelineSeesOnlyValidRequests
  BY DEF GateIInv, ValidRequest, PipelineSeesOnlyValidRequests
<1>2. QED
  BY GateIInvInit, GateIInvStep, <1>1, PTL DEF WsSpec

=============================================================================
