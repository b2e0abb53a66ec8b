-------------------------- MODULE HttpBackendProofs --------------------------
(***************************************************************************)
(* The http backend implements the safety part of TunnelBackend, for any   *)
(* set of lookups.                                                         *)
(***************************************************************************)
EXTENDS HttpBackend, TLAPS

(* The two modules share one vocabulary.                                   *)
LEMMA SameOutcomes ==
    /\ Contract!Undecided = Undecided
    /\ Contract!NoResult = NoResult
    /\ Contract!Verdicts = Verdicts
    /\ Contract!ResultOf = ResultOf
  BY DEF Contract!Undecided, Undecided, Contract!NoResult, NoResult,
         Contract!Verdicts, Verdicts, Contract!ResultOf, ResultOf

(* What the three verdicts that a response can tell are turned into.       *)
LEMMA Told ==
    /\ ResultOf["ok"] = "ok" /\ "ok" # Undecided
    /\ ResultOf["unauthorized"] = "rejected" /\ "unauthorized" # Undecided
    /\ ResultOf["not_found"] = "not_found" /\ "not_found" # Undecided
  BY DEF ResultOf, Verdicts, Undecided

LEMMA NoResponseType ==
    NoResponse \in Responses /\ NoResponse.status = "refused" /\ NoResponse.body = "unusable"
  BY DEF NoResponse, Responses, Statuses

-----------------------------------------------------------------------------
LEMMA InitEstablishes == Init => IInv
  BY NoResponseType
     DEF Init, IInv, TypeOK, AnsweredAfterAsked, ResponsesAreTruthful

(* A call's own steps leave what the API said alone, and the request too,  *)
(* but for the step that sends it.                                         *)
OwnStep(l) ==
    /\ phase' \in [Lookups -> {"idle", "refused", "done", "gone"} \union Awaiting]
    /\ result' \in [Lookups -> Results \union {NoResult}]
    /\ request' \in [Lookups -> {"none", "sent", "answered", "complete"}]
    /\ UNCHANGED <<verdict, response>>
    /\ \A m \in Lookups :
          /\ request'[m] # request[m] => request[m] = "none" /\ request'[m] = "sent"
          /\ phase'[m] \in {"idle", "refused"} =>
                phase[m] \in {"idle", "refused"} /\ request'[m] = request[m]

LEMMA LookupKeeps ==
  ASSUME IInv, NEW l \in Lookups, Lookup(l)
  PROVE  IInv'
  <1> USE DEF IInv
  <1>1. OwnStep(l)
    <2> USE DEF TypeOK, Awaiting, OwnStep
    <2>1. ASSUME NEW valid \in BOOLEAN, Ask(l, valid) PROVE OwnStep(l)
      BY <2>1 DEF Ask, AnsweredAfterAsked
    <2>2. ASSUME NEW valid \in BOOLEAN, Refuse(l, valid) PROVE OwnStep(l)
      BY <2>2 DEF Refuse, Results, BackendErrors
    <2>3. CASE ReadHead(l)
      <3>1. StatusResult(response[l].status) \in Results \union {"read_body"}
        BY DEF StatusResult, Results, BackendErrors, Responses, Statuses
      <3>2. CASE StatusResult(response[l].status) = "read_body"
        BY <2>3, <3>2 DEF ReadHead
      <3>3. CASE StatusResult(response[l].status) # "read_body"
        BY <2>3, <3>1, <3>3 DEF ReadHead, Return
      <3> QED
        BY <3>2, <3>3
    <2>4. CASE ReadBody(l)
      BY <2>4 DEF ReadBody, Return, Results, BackendErrors
    <2>5. CASE TimesOut(l)
      BY <2>5 DEF TimesOut, Return, Results, BackendErrors
    <2>6. CASE Cancel(l)
      BY <2>6 DEF Cancel
    <2> QED
      BY <2>1, <2>2, <2>3, <2>4, <2>5, <2>6 DEF Lookup, Progress
  <1>2. TypeOK'
    BY <1>1 DEF OwnStep, TypeOK
  <1>3. AnsweredAfterAsked'
    BY <1>1 DEF OwnStep, AnsweredAfterAsked
  <1>4. ResponsesAreTruthful'
    BY <1>1 DEF OwnStep, ResponsesAreTruthful
  <1> QED
    BY <1>2, <1>3, <1>4

(* The API, or what is on the way to it, answers a request once.           *)
LEMMA ServerKeeps ==
  ASSUME IInv, NEW l \in Lookups, Server(l)
  PROVE  IInv'
  <1> USE DEF IInv
  <1>1. CASE Complete(l)
    <2>1. TypeOK'
      BY <1>1 DEF Complete, TypeOK
    <2>2. AnsweredAfterAsked'
      BY <1>1 DEF Complete, TypeOK, AnsweredAfterAsked
    <2>3. ResponsesAreTruthful'
      BY <1>1 DEF Complete, ResponsesAreTruthful
    <2> QED
      BY <2>1, <2>2, <2>3
  <1>2. ASSUME NEW status \in Statuses, NEW body \in {"summary", "unusable"},
               NEW v \in Verdicts \union {Undecided},
               Answered(l, status, body), verdict' = [verdict EXCEPT ![l] = v],
               status = "401" => v = "unauthorized",
               status = "404" => v = "not_found",
               body = "summary" => v = "ok"
        PROVE  IInv'
    <2> DEFINE res == [status |-> status, body |-> body]
    <2>1. res \in Responses /\ res.status = status /\ res.body = body
      BY DEF Responses
    <2>2. /\ request[l] = "sent"
          /\ request' = [request EXCEPT ![l] = "answered"]
          /\ response' = [response EXCEPT ![l] = res]
          /\ UNCHANGED <<phase, result>>
      BY <1>2 DEF Answered
    <2> HIDE DEF res
    <2>3. TypeOK'
      BY <1>2, <2>1, <2>2 DEF TypeOK
    <2>4. AnsweredAfterAsked'
      BY <1>2, <2>2 DEF TypeOK, AnsweredAfterAsked
    <2>5. ResponsesAreTruthful'
      BY <1>2, <2>1, <2>2 DEF TypeOK, ResponsesAreTruthful
    <2> QED
      BY <2>3, <2>4, <2>5
  <1>3. CASE Intercept(l)
    <2>1. PICK status \in {"refused", "passed"} : Answered(l, status, "unusable")
      BY <1>3 DEF Intercept
    <2>2. verdict' = [verdict EXCEPT ![l] = verdict[l]] /\ verdict[l] \in Verdicts \union {Undecided}
      BY <1>3 DEF Intercept, TypeOK
    <2> QED
      BY <1>2, <2>1, <2>2 DEF Statuses
  <1>4. ASSUME NEW v \in Verdicts, Decide(l, v) PROVE IInv'
    <2>1. PICK body \in {"summary", "unusable"} :
             (body = "summary" => v = "ok") /\ Answered(l, StatusOf(v), body)
      BY <1>4 DEF Decide
    <2>2. /\ StatusOf(v) \in Statuses
          /\ StatusOf(v) = "401" => v = "unauthorized"
          /\ StatusOf(v) = "404" => v = "not_found"
      BY DEF StatusOf, Statuses
    <2>3. v \in Verdicts /\ verdict' = [verdict EXCEPT ![l] = v]
      BY <1>4 DEF Decide
    <2> QED
      BY <1>2, <2>1, <2>2, <2>3
  <1> QED
    BY <1>1, <1>3, <1>4 DEF Server

LEMMA NextKeeps == IInv /\ [Next]_vars => IInv'
  <1> SUFFICES ASSUME IInv, [Next]_vars PROVE IInv'
    OBVIOUS
  <1>1. ASSUME NEW l \in Lookups, Lookup(l) \/ Server(l) PROVE IInv'
    BY <1>1, LookupKeeps, ServerKeeps
  <1>2. CASE UNCHANGED vars
    BY <1>2 DEF vars, IInv, TypeOK, AnsweredAfterAsked, ResponsesAreTruthful
  <1> QED
    BY <1>1, <1>2 DEF Next, Finished

(* A response is there only after its request, and its status and body     *)
(* tell what the API decided.                                              *)
THEOREM Invariance == Spec => []IInv
  BY InitEstablishes, NextKeeps, PTL DEF Spec

-----------------------------------------------------------------------------
LEMMA InitImplements == Init => Contract!Init
  BY SameOutcomes DEF Init, Contract!Init, Phase, Awaiting

(* How the phases of a call look to the contract.                          *)
LEMMA PhaseMaps ==
  ASSUME IInv, NEW l \in Lookups
  PROVE  /\ phase[l] \in Awaiting => Phase[l] = "open"
         /\ phase[l] \notin Awaiting => Phase[l] = phase[l]
         /\ \A p \in {"refused", "done", "gone"} :
               phase' = [phase EXCEPT ![l] = p] => Phase' = [Phase EXCEPT ![l] = p]
         /\ \A p \in Awaiting :
               phase' = [phase EXCEPT ![l] = p] => Phase' = [Phase EXCEPT ![l] = "open"]
  BY DEF IInv, TypeOK, Phase, Awaiting

(* What the status or the body tells is the verdict, or nothing is told.   *)
LEMMA ReturnImplements ==
  ASSUME IInv, NEW l \in Lookups, ReadHead(l) \/ ReadBody(l)
  PROVE  Contract!End(l) \/ UNCHANGED Contract!vars
  <1>1. CASE ReadBody(l)
    <2>1. phase[l] \in Awaiting
      BY <1>1 DEF ReadBody, Awaiting
    <2>2. CASE response[l].body = "summary"
      BY <1>1, <2>1, <2>2, PhaseMaps, Told, SameOutcomes
         DEF IInv, ResponsesAreTruthful, ReadBody, Return, Contract!End, Contract!Answer
    <2>3. CASE response[l].body # "summary"
      BY <1>1, <2>1, <2>3, PhaseMaps DEF ReadBody, Return, Contract!End, Contract!Fail
    <2> QED
      BY <2>2, <2>3
  <1>2. CASE ReadHead(l)
    <2>1. phase[l] \in Awaiting /\ "body" \in Awaiting
      BY <1>2 DEF ReadHead, Awaiting
    <2>2. response[l].status \in Statuses
      BY DEF IInv, TypeOK, Responses
    <2>3. CASE response[l].status = "401"
      BY <1>2, <2>1, <2>3, PhaseMaps, Told, SameOutcomes
         DEF IInv, ResponsesAreTruthful, ReadHead, StatusResult, Return,
             Contract!End, Contract!Answer
    <2>4. CASE response[l].status = "404"
      BY <1>2, <2>1, <2>4, PhaseMaps, Told, SameOutcomes
         DEF IInv, ResponsesAreTruthful, ReadHead, StatusResult, Return,
             Contract!End, Contract!Answer
    <2>5. CASE response[l].status = "refused"
      BY <1>2, <2>1, <2>5, PhaseMaps
         DEF ReadHead, StatusResult, Return, Contract!End, Contract!Fail
    <2>6. CASE response[l].status = "passed"
      <3>1. phase' = [phase EXCEPT ![l] = "body"] /\ UNCHANGED <<verdict, result>>
        BY <1>2, <2>6 DEF ReadHead, StatusResult
      <3>2. Phase' = Phase
        BY <2>1, <3>1, PhaseMaps DEF Phase
      <3> QED
        BY <3>1, <3>2 DEF Contract!vars
    <2> QED
      BY <2>2, <2>3, <2>4, <2>5, <2>6 DEF Statuses
  <1> QED
    BY <1>1, <1>2

LEMMA LookupImplements ==
  ASSUME IInv, NEW l \in Lookups, Lookup(l)
  PROVE  Contract!Ask(l) \/ Contract!Refuse(l) \/ Contract!End(l) \/ UNCHANGED Contract!vars
  <1>1. ASSUME NEW valid \in BOOLEAN, Ask(l, valid) PROVE Contract!Ask(l)
    BY <1>1, PhaseMaps DEF Ask, Contract!Ask, Awaiting
  <1>2. ASSUME NEW valid \in BOOLEAN, Refuse(l, valid) PROVE Contract!Refuse(l)
    BY <1>2, PhaseMaps DEF Refuse, Contract!Refuse, Awaiting
  <1>3. CASE TimesOut(l)
    BY <1>3, PhaseMaps DEF TimesOut, Return, Contract!Fail, Contract!End
  <1>4. CASE Cancel(l)
    BY <1>4, PhaseMaps DEF Cancel, Contract!Abandon, Contract!End
  <1> QED
    BY <1>1, <1>2, <1>3, <1>4, ReturnImplements DEF Lookup, Progress

(* The API decides about a request that was made, and once.                *)
LEMMA ServerImplements ==
  ASSUME IInv, NEW l \in Lookups, Server(l)
  PROVE  (\E v \in Verdicts : Contract!Decide(l, v)) \/ UNCHANGED Contract!vars
  <1>1. ASSUME NEW v \in Verdicts, Decide(l, v)
        PROVE  v \in Verdicts /\ Contract!Decide(l, v)
    <2>1. /\ request[l] = "sent"
          /\ verdict' = [verdict EXCEPT ![l] = v]
          /\ UNCHANGED <<phase, result>>
      BY <1>1 DEF Decide, Answered
    <2>2. Phase[l] \in {"open", "done", "gone"} /\ Phase' = Phase
      BY <2>1 DEF IInv, TypeOK, AnsweredAfterAsked, Phase, Awaiting
    <2> QED
      BY <2>1, <2>2, SameOutcomes
         DEF IInv, AnsweredAfterAsked, Contract!Decide
  <1>2. ASSUME Intercept(l) \/ Complete(l) PROVE UNCHANGED Contract!vars
    BY <1>2 DEF Intercept, Answered, Complete, Contract!vars, Phase
  <1> QED
    BY <1>1, <1>2 DEF Server

LEMMA NextImplements == IInv /\ [Next]_vars => [Contract!Next]_(Contract!vars)
  <1> SUFFICES ASSUME IInv, [Next]_vars PROVE [Contract!Next]_(Contract!vars)
    OBVIOUS
  <1>1. ASSUME NEW l \in Lookups, Lookup(l) PROVE [Contract!Next]_(Contract!vars)
    BY <1>1, LookupImplements DEF Contract!Next
  <1>2. ASSUME NEW l \in Lookups, Server(l) PROVE [Contract!Next]_(Contract!vars)
    BY <1>2, ServerImplements, SameOutcomes DEF Contract!Next
  <1>3. CASE UNCHANGED vars
    BY <1>3 DEF vars, Contract!vars, Phase
  <1> QED
    BY <1>1, <1>2, <1>3 DEF Next, Finished

(* Whatever stands between it and the API, a lookup over HTTP returns its  *)
(* own verdict or "unavailable", at most once.                             *)
THEOREM Implements == Spec => Contract!Safety
  BY Invariance, InitImplements, NextImplements, PTL DEF Spec, Contract!Safety
=============================================================================
