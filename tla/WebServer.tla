------------------------------ MODULE WebServer ------------------------------
(***************************************************************************)
(* The request/response web sources and sinks of                           *)
(* src/bspump/http/web/server.py: one web source per route kind in Routes *)
(* on one WebServerConnection, serving concurrent HTTP requests into its  *)
(* pipeline, and the WebSink (or JSONWebSink) ending that pipeline, which *)
(* answers them.                                                           *)
(*                                                                         *)
(* A handler (handle_request / handle_post) puts an event carrying a new  *)
(* asyncio future into the pipeline and awaits the future; only the sink  *)
(* resolves it.  Protected sources first pass the request through         *)
(* gate_response (secret in the query or as a Bearer token); form sources *)
(* extract, check and clean the submitted fields against self.fields,     *)
(* which a callable regenerates on every GET.                              *)
(*                                                                         *)
(* Modelled from spec.md 4.3, since Pipeline is not under src/: the event  *)
(* runs through the stages, which may await, after Source.process;  the   *)
(* sources set StopOnErrors = False, so a stage that raises or drops the  *)
(* event leaves the pipeline ready and the event is lost.                 *)
(***************************************************************************)
EXTENDS Naturals

CONSTANTS
    Requests,            \* HTTP requests (model values)
    Routes,              \* the source classes serving a route, one each
    Faults,              \* stages (or the sink itself) may raise or drop
    HandlerCancellation, \* aiohttp cancels the handler when the client leaves
    GenerateFields,      \* form sources built with a callable for fields
    Variants             \* the forms the callable can generate

Kinds == {"route", "protected_route", "form", "protected_form", "jwt_form"}
FormKinds == {"form", "protected_form", "jwt_form"}
Protected == {"protected_route", "protected_form", "jwt_form"}

ASSUME WebServerAssumption ==
    /\ Routes \subseteq Kinds
    /\ Routes # {}
    /\ Faults \in BOOLEAN
    /\ HandlerCancellation \in BOOLEAN
    /\ GenerateFields \in BOOLEAN
    /\ Variants # {}

(***************************************************************************)
(* What a request carries, as far as the handlers tell apart: its route,  *)
(* where its secret is and whether it is right, its method, whether its   *)
(* body parses and has the fields of its form, and which form it was     *)
(* filled in from.                                                         *)
(***************************************************************************)
SecretsOf(k) ==
    IF k \in Protected
    THEN {"none", "query_valid", "query_invalid", "bearer_valid", "bearer_invalid"}
    ELSE {"none"}
ValidSecrets == {"query_valid", "bearer_valid"}
MethodsOf(k) == IF k \in FormKinds THEN {"GET", "POST"} ELSE {"GET"}
BodiesOf(k) == IF k \in FormKinds THEN {"json_bad", "bad_fields", "ok"} ELSE {"ok"}
InputsOf(k) ==
    {i \in [kind : {k}, secret : SecretsOf(k), method : MethodsOf(k),
            body : BodiesOf(k), variant : Variants] :
        i.method = "GET" => i.body = "ok"}
Inputs == UNION {InputsOf(k) : k \in Routes}

\* How a handler ended: the reply's cause (HTTP status in the comment).
Outcomes == {"none",
             "unauthorized",  \* 401 secret missing
             "forbidden",     \* 403 secret rejected
             "invalid",       \* 400 body or fields rejected
             "error",         \* 500 an exception in the handler
             "not_ready",     \* 500 Source.process: pipeline not ready
             "form",          \* 200 the form (GET of a form source)
             "answered"}      \* the response the sink put in the future

VARIABLES
    pipeline,  \* route -> "built" or "ready" (StopOnErrors = False: no "error")
    req,       \* request -> its input
    pc,        \* request -> "absent", "handling", "awaiting", "done", "cancelled"
    outcome,   \* request -> how its handler ended
    fut,       \* request -> its response_future: "none", "pending", "done", "cancelled"
    ev,        \* request -> its event: "none", "inflight", "sunk", "lost"
    fields,    \* route -> self.fields: "static", "empty", or the variant generated last
    injected   \* ghost: requests whose event entered the pipeline

wsVars == <<pipeline, req, pc, outcome, fut, ev, fields, injected>>

WsTypeOK ==
    /\ pipeline \in [Routes -> {"built", "ready"}]
    /\ req \in [Requests -> Inputs]
    /\ pc \in [Requests -> {"absent", "handling", "awaiting", "done", "cancelled"}]
    /\ outcome \in [Requests -> Outcomes]
    /\ fut \in [Requests -> {"none", "pending", "done", "cancelled"}]
    /\ ev \in [Requests -> {"none", "inflight", "sunk", "lost"}]
    /\ fields \in [Routes -> {"static", "empty"} \cup Variants]
    /\ injected \subseteq Requests

(***************************************************************************)
(* The sources' __init__: routes added, pipelines not yet ready, a form   *)
(* source holding its list of fields, or a callable and no fields yet.    *)
(* A request's input is chosen when it arrives.                           *)
(***************************************************************************)
WsInit ==
    /\ pipeline = [k \in Routes |-> "built"]
    /\ req = [r \in Requests |-> CHOOSE i \in Inputs : TRUE]
    /\ pc = [r \in Requests |-> "absent"]
    /\ outcome = [r \in Requests |-> "none"]
    /\ fut = [r \in Requests |-> "none"]
    /\ ev = [r \in Requests |-> "none"]
    /\ fields = [k \in Routes |-> IF GenerateFields THEN "empty" ELSE "static"]
    /\ injected = {}

-----------------------------------------------------------------------------
\* The handler of r returns with outcome o.
Answer(r, o) ==
    /\ pc' = [pc EXCEPT ![r] = "done"]
    /\ outcome' = [outcome EXCEPT ![r] = o]

(***************************************************************************)
(* `await self.process({... "response_future": response_future ...})`:   *)
(* Source.process raises when the pipeline is not ready (500); otherwise  *)
(* the event enters the pipeline and the handler awaits the future.       *)
(***************************************************************************)
Inject(r) ==
    IF pipeline[req[r].kind] = "ready"
    THEN /\ pc' = [pc EXCEPT ![r] = "awaiting"]
         /\ fut' = [fut EXCEPT ![r] = "pending"]
         /\ ev' = [ev EXCEPT ![r] = "inflight"]
         /\ injected' = injected \cup {r}
         /\ UNCHANGED outcome
    ELSE /\ Answer(r, "not_ready")
         /\ UNCHANGED <<fut, ev, injected>>

\* The handler returns without an event; o is its reply.
Refuse(r, o) == Answer(r, o) /\ UNCHANGED <<fut, ev, injected>>

\* The test_secret each protected class hands to gate_response.
SecretTest(r) ==
    IF req[r].kind = "protected_route" THEN "raises"
    ELSE IF req[r].secret \in ValidSecrets THEN "true"
    ELSE "false"

\* Mutant of GateOutcome: a Bearer token is let through untested.
GateOutcomeTrustsBearer(r) ==
    IF req[r].secret = "none" THEN "unauthorized"
    ELSE IF req[r].secret \in {"bearer_valid", "bearer_invalid"} THEN "pass"
    ELSE IF SecretTest(r) = "raises" THEN "error"
    ELSE IF SecretTest(r) = "false" THEN "forbidden"
    ELSE "pass"

(***************************************************************************)
(* gate_response: 401 without a secret (neither ?secret= nor a Bearer     *)
(* header), 403 when test_secret says no, and on to the handler when it   *)
(* says yes.  ProtectedWebRouteSource passes the configured secret string *)
(* as test_secret: calling it raises TypeError, which its handler turns   *)
(* into a 500.                                                             *)
(***************************************************************************)
GateOutcome(r) ==
    IF req[r].secret = "none" THEN "unauthorized"
    ELSE IF SecretTest(r) = "raises" THEN "error"
    ELSE IF SecretTest(r) = "false" THEN "forbidden"
    ELSE "pass"

\* Behind a protected source's gate, r is refused.
GateRefuses(r) == req[r].kind \in Protected /\ GateOutcome(r) # "pass"

\* JWTWebFormSource reads request.query["secret"] again after the gate.
JWTQueryMissing(r) ==
    req[r].kind = "jwt_form" /\ req[r].secret \in {"bearer_valid", "bearer_invalid"}

(***************************************************************************)
(* Whether validate_field_presence and every field's clean accept the     *)
(* body, checked against self.fields: the static list, no fields at all  *)
(* (a callable that has not run yet), or the form generated for the last *)
(* GET, which may be another form than the one this body was filled in.  *)
(***************************************************************************)
FieldsAccept(r) ==
    LET f == fields[req[r].kind] IN
    IF f = "empty" THEN {TRUE}
    ELSE IF f \in {"static", req[r].variant} THEN {req[r].body = "ok"}
    ELSE BOOLEAN

-----------------------------------------------------------------------------
\* An HTTP request reaches one of the routes.
Arrive(r) ==
    /\ pc[r] = "absent"
    /\ \E i \in Inputs : req' = [req EXCEPT ![r] = i]
    /\ pc' = [pc EXCEPT ![r] = "handling"]
    /\ UNCHANGED <<pipeline, outcome, fut, ev, fields, injected>>

\* WebRouteSource.handle_request.
HandleRoute(r) ==
    /\ req[r].kind = "route"
    /\ pc[r] = "handling"
    /\ Inject(r)
    /\ UNCHANGED <<pipeline, req, fields>>

\* ProtectedWebRouteSource.handle_request: the gate, then as above.
HandleProtectedRoute(r) ==
    /\ req[r].kind = "protected_route"
    /\ pc[r] = "handling"
    /\ IF GateRefuses(r) THEN Refuse(r, GateOutcome(r)) ELSE Inject(r)
    /\ UNCHANGED <<pipeline, req, fields>>

(***************************************************************************)
(* GET on a form source (WebFormSource.handle_request, behind the gate    *)
(* for the protected ones): regenerate self.fields from the request when *)
(* a callable was given, then render the form; JWTWebFormSource's        *)
(* extract_defaults raises KeyError when the token was not in the query.  *)
(***************************************************************************)
HandleFormGet(r) ==
    /\ req[r].kind \in FormKinds
    /\ pc[r] = "handling"
    /\ req[r].method = "GET"
    /\ IF GateRefuses(r)
       THEN /\ Answer(r, GateOutcome(r))
            /\ UNCHANGED fields
       ELSE /\ fields' = IF GenerateFields
                         THEN [fields EXCEPT ![req[r].kind] = req[r].variant]
                         ELSE fields
            /\ Answer(r, IF JWTQueryMissing(r) THEN "error" ELSE "form")
    /\ UNCHANGED <<pipeline, req, fut, ev, injected>>

(***************************************************************************)
(* JWTWebFormSource.handle_post overrides the form's POST handler and has *)
(* no gate: a body that is not JSON is a 400; request.query["secret"] is  *)
(* then decoded, a KeyError (no query secret, a Bearer header) escaping  *)
(* as a 500 and a token that does not decode as a 400 (an expired one,   *)
(* 403, is another refusal of the same token class); missing fields are  *)
(* a 400, and a valid body goes on to clean_and_process.                 *)
(***************************************************************************)
JWTPostOutcome(r, accept) ==
    IF req[r].body = "json_bad" THEN "invalid"
    ELSE IF req[r].secret \notin {"query_valid", "query_invalid"} THEN "error"
    ELSE IF req[r].secret \notin ValidSecrets THEN "invalid"
    ELSE IF ~accept THEN "invalid"
    ELSE "pass"

(***************************************************************************)
(* POST on a form source (WebFormSource.handle_post, behind the gate for  *)
(* the protected form), given whether the fields accept the body: a body *)
(* that is not JSON is a 400, missing or unclean fields are a 400, and a *)
(* valid body passes on to clean_and_process's self.process.              *)
(***************************************************************************)
PostOutcome(r, accept) ==
    IF req[r].kind = "jwt_form" THEN JWTPostOutcome(r, accept)
    ELSE IF GateRefuses(r) THEN GateOutcome(r)
    ELSE IF req[r].body = "json_bad" THEN "invalid"
    ELSE IF ~accept THEN "invalid"
    ELSE "pass"

HandleFormPost(r) ==
    /\ req[r].kind \in FormKinds
    /\ pc[r] = "handling"
    /\ req[r].method = "POST"
    /\ \E accept \in FieldsAccept(r) :
         IF PostOutcome(r, accept) = "pass"
         THEN Inject(r)
         ELSE Refuse(r, PostOutcome(r, accept))
    /\ UNCHANGED <<pipeline, req, fields>>

\* Mutant of Deliver: the sink resolves the future of some event, not
\* necessarily the one it processes (a future kept on the sink, say).
DeliverWrongFuture(r) ==
    /\ ev[r] = "inflight"
    /\ ev' = [ev EXCEPT ![r] = "sunk"]
    /\ \E o \in Requests :
          fut' = [fut EXCEPT ![o] = IF @ = "pending" THEN "done" ELSE @]
    /\ UNCHANGED <<pipeline, req, pc, outcome, fields, injected>>

(***************************************************************************)
(* The event leaves the pipeline.  WebSink/JSONWebSink.process calls      *)
(* event["response_future"].set_result(...); on a future cancelled with  *)
(* its handler, set_result raises InvalidStateError, which the pipeline   *)
(* only logs.  With Faults a stage (or the sink, on an event without a   *)
(* "response") raises, or a processor drops the event: it is lost.        *)
(***************************************************************************)
Deliver(r) ==
    /\ ev[r] = "inflight"
    /\ \/ /\ ev' = [ev EXCEPT ![r] = "sunk"]
          /\ fut' = [fut EXCEPT ![r] = IF @ = "pending" THEN "done" ELSE @]
       \/ /\ Faults
          /\ ev' = [ev EXCEPT ![r] = "lost"]
          /\ UNCHANGED fut
    /\ UNCHANGED <<pipeline, req, pc, outcome, fields, injected>>

\* `return await response_future` returns the sink's response.
Respond(r) ==
    /\ pc[r] = "awaiting"
    /\ fut[r] = "done"
    /\ Answer(r, "answered")
    /\ UNCHANGED <<pipeline, req, fut, ev, fields, injected>>

\* The client goes away; aiohttp cancels the handler and the future it awaits.
Disconnect(r) ==
    /\ HandlerCancellation
    /\ pc[r] = "awaiting"
    /\ pc' = [pc EXCEPT ![r] = "cancelled"]
    /\ fut' = [fut EXCEPT ![r] = "cancelled"]
    /\ UNCHANGED <<pipeline, req, outcome, ev, fields, injected>>

\* The bootstrap of the pipeline behind route k (spec.md 4.3).
PipelineReady(k) ==
    /\ pipeline[k] = "built"
    /\ pipeline' = [pipeline EXCEPT ![k] = "ready"]
    /\ UNCHANGED <<req, pc, outcome, fut, ev, fields, injected>>

Handle(r) ==
    \/ HandleRoute(r)
    \/ HandleProtectedRoute(r)
    \/ HandleFormGet(r)
    \/ HandleFormPost(r)

WsNext ==
    \/ \E k \in Routes : PipelineReady(k)
    \/ \E r \in Requests :
          \/ Arrive(r)
          \/ Handle(r)
          \/ Deliver(r)
          \/ Respond(r)
          \/ Disconnect(r)

(***************************************************************************)
(* The loop runs handlers, stages and bootstraps once they are ready to   *)
(* run; requests and disconnections are the clients' and carry none.      *)
(***************************************************************************)
WsFairness ==
    /\ \A k \in Routes : WF_wsVars(PipelineReady(k))
    /\ \A r \in Requests :
          /\ WF_wsVars(Handle(r))
          /\ WF_wsVars(Deliver(r))
          /\ WF_wsVars(Respond(r))

WsSpec == WsInit /\ [][WsNext]_wsVars /\ WsFairness

-----------------------------------------------------------------------------
(***************************************************************************)
(* AnsweredUnlessLost: a request the handler has started on is answered, *)
(* given up by its client, or waits on an event a stage lost: a pipeline *)
(* not yet ready, a client leaving before the sink resolves the future,  *)
(* and the sink then failing on the cancelled future never leave a       *)
(* handler waiting.  With StopOnErrors = False nothing answers a request  *)
(* whose event is lost: handle_request awaits the future without timeout. *)
(***************************************************************************)
AnsweredUnlessLost ==
    \A r \in Requests :
        pc[r] = "handling" ~> (pc[r] \in {"done", "cancelled"} \/ ev[r] = "lost")

(***************************************************************************)
(* PipelineSeesOnlyValidRequests: an event reaches the pipeline only for  *)
(* a request that passed the gate of a protected source with the right   *)
(* secret and, on a form source, whose body has the fields of its form.   *)
(***************************************************************************)
PipelineSeesOnlyValidRequests ==
    \A r \in injected :
        /\ req[r].kind \in Protected => req[r].secret \in ValidSecrets
        /\ req[r].body = "ok"

(***************************************************************************)
(* ValidSecretServed: a request carrying the right secret, in the query  *)
(* or as the Bearer token gate_response accepts, is never refused nor     *)
(* answered with a 500 from an exception in the handler.                 *)
(***************************************************************************)
ValidSecretServed ==
    \A r \in Requests :
        outcome[r] # "none" /\ req[r].secret \in ValidSecrets =>
            outcome[r] \notin {"unauthorized", "forbidden", "error"}

=============================================================================
