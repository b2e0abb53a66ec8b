----------------------------- MODULE ControlWeb -----------------------------
(***************************************************************************)
(* The request handlers of ftnl-control-web (src/control.rs): full_tunnel, *)
(* tunnel_pagelet and tunnel_island all run load_tunnel, which             *)
(* authenticates, asks the backend and turns the outcome into a status;    *)
(* and the process they run in, which ends by a graceful shutdown.         *)
(*                                                                         *)
(* The backend is whatever implements TunnelBackend: its own steps, the    *)
(* answer, the failure and the authority's decision, are that module's.    *)
(* The calls and their dropping are the handlers'.  In the direct_read     *)
(* mode the authorization is not looked at and nothing bounds a query; the *)
(* other modes forward it, and their lookups have deadlines.               *)
(* External: the Shared Auth guard, which decides within its deadline, and *)
(* may authenticate by something else than the Authorization header.       *)
(***************************************************************************)
EXTENDS LookupOutcomes

CONSTANT Requests

VARIABLES
    stage,      \* where each request is
    header,     \* its Authorization header
    decision,   \* what the guard said of it
    status,     \* the status of its response
    server,     \* the process: serving, draining, stopped
    mode,       \* the kind of backend: never changes
    phase, verdict, result      \* of its lookup, see TunnelBackend

callVars == <<phase, verdict, result>>
vars == <<stage, header, decision, status, server, mode, callVars>>

Backend == INSTANCE TunnelBackend WITH Lookups <- Requests

(* "opaque" has bytes that to_str refuses, "malformed" is no bearer token. *)
Headers    == {"none", "opaque", "malformed", "bearer"}
Decisions  == {"authenticated", "anonymous", "unauthenticated", "degraded"}
NoDecision == "pending"
NoStatus   == 0
InProgress == {"authorizing", "loading"}

TypeOK ==
    /\ stage \in [Requests -> {"none", "responded", "left"} \union InProgress]
    /\ header \in [Requests -> Headers]
    /\ decision \in [Requests -> Decisions \union {NoDecision}]
    /\ status \in [Requests -> {NoStatus, 200, 400, 401, 404, 503}]
    /\ server \in {"serving", "draining", "stopped"}
    /\ mode \in {"direct_read", "forwarding"}
    /\ phase \in [Requests -> Backend!Phases]
    /\ verdict \in [Requests -> Verdicts \union {Undecided}]
    /\ result \in [Requests -> Results \union {NoResult}]

Init ==
    /\ stage = [r \in Requests |-> "none"]
    /\ header \in [Requests -> Headers]
    /\ decision = [r \in Requests |-> NoDecision]
    /\ status = [r \in Requests |-> NoStatus]
    /\ server = "serving"
    /\ mode \in {"direct_read", "forwarding"}
    /\ Backend!Init

-----------------------------------------------------------------------------
Arrive(r) ==
    /\ server = "serving"
    /\ stage[r] = "none"
    /\ stage' = [stage EXCEPT ![r] = "authorizing"]
    /\ UNCHANGED <<header, decision, status, server, mode, callVars>>

Respond(r, code) ==
    /\ stage' = [stage EXCEPT ![r] = "responded"]
    /\ status' = [status EXCEPT ![r] = code]

(* The tunnel id is no UUID: axum's extractor answers before the handler.  *)
RejectPath(r) ==
    /\ server = "serving"
    /\ stage[r] = "none"
    /\ Respond(r, 400)
    /\ UNCHANGED <<header, decision, server, mode, callVars>>

(* The guard's outcome comes in.                                           *)
Decides(r, d) ==
    /\ stage[r] = "authorizing"
    /\ decision' = [decision EXCEPT ![r] = d]
    /\ UNCHANGED <<header, server, mode>>

(* Wrong on purpose: someone without credentials told to try again later,  *)
(* which only a degraded authority is a reason for.                        *)
NobodyCoarse(r) ==
    /\ \E d \in {"anonymous", "unauthenticated", "degraded"} : Decides(r, d)
    /\ Respond(r, 503)
    /\ UNCHANGED callVars

(* No actor, or no authorization that could be forwarded.                  *)
Nobody(r) ==
    /\ \/ \E d \in {"anonymous", "unauthenticated"} : Decides(r, d)
       \/ header[r] \in {"none", "opaque"} /\ Decides(r, "authenticated")
    /\ Respond(r, 401)
    /\ UNCHANGED callVars

Degraded(r) ==
    /\ Decides(r, "degraded")
    /\ Respond(r, 503)
    /\ UNCHANGED callVars

(* lookup begins, or validate_authorization ends it where it begins.       *)
Call(r) ==
    /\ IF mode = "forwarding" /\ header[r] = "malformed"
       THEN /\ phase' = [phase EXCEPT ![r] = "refused"]
            /\ result' = [result EXCEPT ![r] = "rejected"]
       ELSE /\ phase' = [phase EXCEPT ![r] = "open"]
            /\ UNCHANGED result
    /\ UNCHANGED verdict

(* Wrong on purpose: a degraded authority's actor is let through.          *)
LookUpUnlessDenied(r) ==
    /\ header[r] \in {"malformed", "bearer"}
    /\ \E d \in {"authenticated", "degraded"} : Decides(r, d)
    /\ stage' = [stage EXCEPT ![r] = "loading"]
    /\ Call(r)
    /\ UNCHANGED status

(* An actor with something to forward.                                     *)
LookUp(r) ==
    /\ header[r] \in {"malformed", "bearer"}
    /\ Decides(r, "authenticated")
    /\ stage' = [stage EXCEPT ![r] = "loading"]
    /\ Call(r)
    /\ UNCHANGED status

(* Wrong on purpose: whatever is not a summary is "not found".             *)
StatusOfCoarse(res) == IF res = "ok" THEN 200 ELSE 404

(* secure_html, and ControlError::into_response.                           *)
StatusOf(res) ==
    CASE res = "ok"              -> 200
      [] res = "rejected"        -> 401
      [] res = "invalid_request" -> 400
      [] res = "not_found"       -> 404
      [] res = "unavailable"     -> 503

Loaded(r) ==
    /\ stage[r] = "loading"
    /\ result[r] # NoResult
    /\ Respond(r, StatusOf(result[r]))
    /\ UNCHANGED <<header, decision, server, mode, callVars>>

(* The client closes its connection: the handler is dropped, and with it   *)
(* the lookup it awaits.                                                   *)
Leave(r) ==
    /\ stage[r] \in InProgress
    /\ stage' = [stage EXCEPT ![r] = "left"]
    /\ phase' = [phase EXCEPT ![r] = IF @ = "open" THEN "gone" ELSE @]
    /\ UNCHANGED <<header, decision, status, server, mode, verdict, result>>

(* Wrong on purpose: a shutdown that waits for lookups without a caller.   *)
StopWhenAuthorityIdle ==
    /\ server = "draining"
    /\ \A r \in Requests : stage[r] \notin InProgress
    /\ \A r \in Requests : phase[r] \in {"gone", "done"} => verdict[r] # Undecided
    /\ server' = "stopped"
    /\ UNCHANGED <<stage, header, decision, status, mode, callVars>>

(* ctrl_c(); then axum waits for the requests it has accepted.             *)
Interrupt ==
    /\ server = "serving"
    /\ server' = "draining"
    /\ UNCHANGED <<stage, header, decision, status, mode, callVars>>

Stop ==
    /\ server = "draining"
    /\ \A r \in Requests : stage[r] \notin InProgress
    /\ server' = "stopped"
    /\ UNCHANGED <<stage, header, decision, status, mode, callVars>>

-----------------------------------------------------------------------------
Authorized(r) == Nobody(r) \/ Degraded(r) \/ LookUp(r)

Returns(r) ==
    /\ Backend!Answer(r) \/ Backend!Fail(r)
    /\ UNCHANGED <<stage, header, decision, status, server, mode>>

AuthorityDecides(r) ==
    /\ \E v \in Verdicts : Backend!Decide(r, v)
    /\ UNCHANGED <<stage, header, decision, status, server, mode>>

Request(r) ==
    \/ Arrive(r)
    \/ RejectPath(r)
    \/ Authorized(r)
    \/ Loaded(r)
    \/ Leave(r)
    \/ Returns(r)
    \/ AuthorityDecides(r)

Next == (\E r \in Requests : Request(r)) \/ Interrupt \/ Stop

(* The guard has a deadline, and so has a backend that forwards.           *)
Spec ==
    /\ Init /\ [][Next]_vars
    /\ \A r \in Requests :
          /\ WF_vars(Authorized(r)) /\ WF_vars(Loaded(r))
          /\ WF_vars(mode = "forwarding" /\ Returns(r))
    /\ WF_vars(Stop)

-----------------------------------------------------------------------------
(* Every status is one the outcome behind it justifies: a page is served   *)
(* only on the authority's word about that request, "not found" and        *)
(* "invalid" only when it said so, and "sign in" and "try later" only to   *)
(* those who should.                                                       *)
StatusIsJustified ==
    \A r \in Requests :
        /\ status[r] = 200 => verdict[r] = "ok"
        /\ status[r] = 404 => verdict[r] = "not_found"
        /\ status[r] = 400 =>
              verdict[r] = "invalid_request" \/ decision[r] = NoDecision
        /\ status[r] = 401 =>
              \/ decision[r] \in {"anonymous", "unauthenticated"}
              \/ header[r] \in {"none", "opaque"}
              \/ header[r] = "malformed" /\ mode = "forwarding"
              \/ verdict[r] = "unauthorized"
        /\ status[r] = 503 => decision[r] = "degraded" \/ result[r] = "unavailable"

(* "Degraded authority status fails closed" (docs/control-web.md): without *)
(* an authenticated actor no authority is asked and nothing is shown, not  *)
(* even whether there is such a tunnel.                                    *)
FailsClosed ==
    \A r \in Requests :
        decision[r] # "authenticated" =>
            /\ phase[r] = "idle"
            /\ verdict[r] = Undecided
            /\ status[r] \in {NoStatus, 400, 401, 503}

(* Every query of the direct_read mode comes to an end; nothing in the     *)
(* program sees to that.                                                   *)
DatabaseAnswers == \A r \in Requests : WF_vars(Returns(r))

(* A server that is told to stop does, with every request it accepted      *)
(* answered or abandoned by its client: the lookups' deadlines see to it   *)
(* where they have any, and in the direct_read mode the database.          *)
DrainEnds ==
    (mode = "direct_read" => DatabaseAnswers)
        => (server = "draining" ~> server = "stopped")
StoppedIsIdle ==
    server = "stopped" => \A r \in Requests : stage[r] \notin InProgress /\ phase[r] # "open"

(* The inductive invariant behind the three.                               *)
CallsFollowRequests ==
    \A r \in Requests :
        /\ stage[r] \in {"none", "authorizing"} =>
              decision[r] = NoDecision /\ phase[r] = "idle"
        /\ stage[r] # "responded" => status[r] = NoStatus
        /\ phase[r] = "open" => stage[r] = "loading"
        /\ phase[r] = "idle" => verdict[r] = Undecided /\ result[r] = NoResult
        /\ phase[r] = "refused" =>
              /\ header[r] = "malformed" /\ mode = "forwarding"
              /\ result[r] = "rejected" /\ verdict[r] = Undecided
        /\ phase[r] \in {"open", "gone"} => result[r] = NoResult
        /\ phase[r] = "done" =>
              \/ result[r] = "unavailable"
              \/ verdict[r] # Undecided /\ result[r] = ResultOf[verdict[r]]

IInv ==
    /\ TypeOK
    /\ CallsFollowRequests
    /\ StatusIsJustified
    /\ FailsClosed
    /\ StoppedIsIdle
=============================================================================
