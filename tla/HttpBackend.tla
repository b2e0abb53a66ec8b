----------------------------- MODULE HttpBackend -----------------------------
(***************************************************************************)
(* The http mode of ftnl-control-web (src/control.rs, HttpBackend): a      *)
(* lookup is one GET, with three seconds for its headers and body          *)
(* together.  The status decides first; only then the body is read.        *)
(*                                                                         *)
(* External: reqwest, the network and the API, which decides with a status *)
(* and a body.  Something on the way may answer instead of it: with a      *)
(* redirect, which is not followed, or an error; that a 401 or a 404 is    *)
(* the API's own is assumed, as the code does.                             *)
(***************************************************************************)
EXTENDS LookupOutcomes

CONSTANT Lookups        \* the calls of lookup

VARIABLES
    phase,      \* where each call of lookup is: its head or body awaited
    verdict,    \* what the API decided about it
    result,     \* what it returned
    request,    \* the GET: "none", "sent", "answered" by a head, "complete"
    response    \* the status of the answer and what its body is

vars == <<phase, verdict, result, request, response>>

(* 401, 404, another status that error_for_status refuses, or one it lets  *)
(* pass (2xx and 3xx).                                                     *)
Statuses == {"401", "404", "refused", "passed"}

(* "unusable": more than MAX_RESPONSE_BYTES, no TunnelSummary, broken off. *)
Responses  == [status : Statuses, body : {"summary", "unusable"}]
NoResponse == [status |-> "refused", body |-> "unusable"]

Awaiting == {"head", "body"}

TypeOK ==
    /\ phase \in [Lookups -> {"idle", "refused", "done", "gone"} \union Awaiting]
    /\ verdict \in [Lookups -> Verdicts \union {Undecided}]
    /\ result \in [Lookups -> Results \union {NoResult}]
    /\ request \in [Lookups -> {"none", "sent", "answered", "complete"}]
    /\ response \in [Lookups -> Responses]

Init ==
    /\ phase = [l \in Lookups |-> "idle"]
    /\ verdict = [l \in Lookups |-> Undecided]
    /\ result = [l \in Lookups |-> NoResult]
    /\ request = [l \in Lookups |-> "none"]
    /\ response = [l \in Lookups |-> NoResponse]

-----------------------------------------------------------------------------
(* valid is what validate_authorization says of the header.                *)
Ask(l, valid) ==
    /\ phase[l] = "idle"
    /\ valid
    /\ phase' = [phase EXCEPT ![l] = "head"]
    /\ request' = [request EXCEPT ![l] = "sent"]
    /\ UNCHANGED <<verdict, result, response>>

Refuse(l, valid) ==
    /\ phase[l] = "idle"
    /\ ~valid
    /\ phase' = [phase EXCEPT ![l] = "refused"]
    /\ result' = [result EXCEPT ![l] = "rejected"]
    /\ UNCHANGED <<verdict, request, response>>

Return(l, r) ==
    /\ phase' = [phase EXCEPT ![l] = "done"]
    /\ result' = [result EXCEPT ![l] = r]
    /\ UNCHANGED <<verdict, request, response>>

(* What the status alone makes of the call.                                *)
StatusResult(status) ==
    CASE status = "401"     -> "rejected"
      [] status = "404"     -> "not_found"
      [] status = "refused" -> "unavailable"
      [] status = "passed"  -> "read_body"

ReadHead(l) ==
    LET outcome == StatusResult(response[l].status) IN
    /\ phase[l] = "head"
    /\ request[l] \in {"answered", "complete"}
    /\ IF outcome = "read_body"
       THEN /\ phase' = [phase EXCEPT ![l] = "body"]
            /\ UNCHANGED <<verdict, result, request, response>>
       ELSE Return(l, outcome)

(* Wrong on purpose: a body handed on without being parsed.                *)
ReadBodyUnparsed(l) ==
    /\ phase[l] = "body"
    /\ request[l] = "complete"
    /\ Return(l, response[l].body)

ReadBody(l) ==
    /\ phase[l] = "body"
    /\ request[l] = "complete"
    /\ Return(l, IF response[l].body = "summary" THEN "ok" ELSE "unavailable")

(* The deadline passes, or the transfer fails.                             *)
TimesOut(l) ==
    /\ phase[l] \in Awaiting
    /\ Return(l, "unavailable")

(* The handler is dropped with its client's connection.                    *)
Cancel(l) ==
    /\ phase[l] \in Awaiting
    /\ phase' = [phase EXCEPT ![l] = "gone"]
    /\ UNCHANGED <<verdict, result, request, response>>

-----------------------------------------------------------------------------
(* The API and what is on the way to it (external).                        *)
StatusOf(v) ==
    CASE v = "ok"           -> "passed"
      [] v = "unauthorized" -> "401"
      [] v = "not_found"    -> "404"
      [] OTHER              -> "refused"

Answered(l, status, body) ==
    /\ request[l] = "sent"
    /\ request' = [request EXCEPT ![l] = "answered"]
    /\ response' = [response EXCEPT ![l] = [status |-> status, body |-> body]]
    /\ UNCHANGED <<phase, result>>

(* It serves a request even when nobody waits for it any more.  Only a     *)
(* decision in favour comes with a summary.                                *)
Decide(l, v) ==
    /\ \E body \in {"summary", "unusable"} :
          /\ body = "summary" => v = "ok"
          /\ Answered(l, StatusOf(v), body)
    /\ verdict' = [verdict EXCEPT ![l] = v]

Intercept(l) ==
    /\ \E status \in {"refused", "passed"} : Answered(l, status, "unusable")
    /\ UNCHANGED verdict

(* The rest of the body arrives, or the end of it.                         *)
Complete(l) ==
    /\ request[l] = "answered"
    /\ request' = [request EXCEPT ![l] = "complete"]
    /\ UNCHANGED <<phase, verdict, result, response>>

-----------------------------------------------------------------------------
Progress(l) == ReadHead(l) \/ ReadBody(l) \/ TimesOut(l)

Lookup(l) ==
    \/ \E valid \in BOOLEAN : Ask(l, valid) \/ Refuse(l, valid)
    \/ Progress(l)
    \/ Cancel(l)

Server(l) == Intercept(l) \/ Complete(l) \/ \E v \in Verdicts : Decide(l, v)

(* Every request was served and nothing is left to do.                     *)
Finished ==
    /\ \A l \in Lookups : phase[l] \in {"done", "gone", "refused"}
    /\ UNCHANGED vars

Next == (\E l \in Lookups : Lookup(l) \/ Server(l)) \/ Finished

(* tokio polls what is ready and fires the deadline; nothing is assumed of *)
(* the API.                                                                *)
Fairness == \A l \in Lookups : WF_vars(Progress(l))

Spec == Init /\ [][Next]_vars /\ Fairness

-----------------------------------------------------------------------------
(* The http backend is a TunnelBackend: whatever stands between it and the *)
(* API, its calls return the API's verdict or "unavailable", and they end. *)
Phase == [l \in Lookups |-> IF phase[l] \in Awaiting THEN "open" ELSE phase[l]]
Contract == INSTANCE TunnelBackend WITH phase <- Phase
ImplementsTunnelBackend == Contract!Spec

(* The invariant behind it: a GET is there only after the call, a verdict  *)
(* only once it was answered, and what the answer says of the tunnel is    *)
(* what the API decided.                                                   *)
AnsweredAfterAsked ==
    \A l \in Lookups :
        /\ phase[l] \in {"idle", "refused"} => request[l] = "none"
        /\ request[l] \in {"none", "sent"} =>
              verdict[l] = Undecided /\ response[l] = NoResponse

ResponsesAreTruthful ==
    \A l \in Lookups :
        /\ response[l].status = "401" => verdict[l] = "unauthorized"
        /\ response[l].status = "404" => verdict[l] = "not_found"
        /\ response[l].body = "summary" => verdict[l] = "ok"

IInv == TypeOK /\ AnsweredAfterAsked /\ ResponsesAreTruthful
=============================================================================
