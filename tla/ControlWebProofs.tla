--------------------------- MODULE ControlWebProofs ---------------------------
(***************************************************************************)
(* The request handlers keep their promises for any number of requests.    *)
(***************************************************************************)
EXTENDS ControlWeb, TLAPS

(* The backend speaks the handlers' vocabulary.                            *)
LEMMA SameOutcomes ==
    /\ Backend!Undecided = Undecided
    /\ Backend!NoResult = NoResult
    /\ Backend!ResultOf = ResultOf
  BY DEF Backend!Undecided, Undecided, Backend!NoResult, NoResult,
         Backend!Verdicts, Verdicts, Backend!ResultOf, ResultOf

(* What a verdict becomes, and what a result becomes.                      *)
LEMMA Outcomes ==
    /\ \A v \in Verdicts :
          /\ v # Undecided
          /\ ResultOf[v] \in Results
          /\ ResultOf[v] = "ok" => v = "ok"
          /\ ResultOf[v] = "not_found" => v = "not_found"
          /\ ResultOf[v] = "invalid_request" => v = "invalid_request"
          /\ ResultOf[v] = "rejected" => v = "unauthorized"
    /\ \A res \in Results :
          /\ res # NoResult
          /\ StatusOf(res) \in {200, 400, 401, 404, 503}
          /\ StatusOf(res) = 200 <=> res = "ok"
          /\ StatusOf(res) = 404 <=> res = "not_found"
          /\ StatusOf(res) = 400 <=> res = "invalid_request"
          /\ StatusOf(res) = 401 <=> res = "rejected"
          /\ StatusOf(res) = 503 <=> res = "unavailable"
  <1>1. \A v \in Verdicts : v # Undecided
    BY DEF Verdicts, Undecided
  <1>2. \A v \in Verdicts :
          ResultOf[v] = CASE v = "ok"              -> "ok"
                          [] v = "unauthorized"    -> "rejected"
                          [] v = "not_found"       -> "not_found"
                          [] v = "invalid_request" -> "invalid_request"
                          [] v = "other"           -> "unavailable"
    BY DEF ResultOf
  <1>3. \A res \in Results : res # NoResult
    BY DEF Results, BackendErrors, NoResult
  <1>4. \A res \in Results :
          /\ StatusOf(res) \in {200, 400, 401, 404, 503}
          /\ StatusOf(res) = 200 <=> res = "ok"
          /\ StatusOf(res) = 404 <=> res = "not_found"
          /\ StatusOf(res) = 400 <=> res = "invalid_request"
          /\ StatusOf(res) = 401 <=> res = "rejected"
          /\ StatusOf(res) = 503 <=> res = "unavailable"
    BY DEF Results, BackendErrors, StatusOf
  <1> QED
    BY <1>1, <1>2, <1>3, <1>4 DEF Verdicts, Results, BackendErrors

-----------------------------------------------------------------------------
(* Nothing is asked before the first request.                              *)
LEMMA InitEstablishes == Init => IInv
  BY SameOutcomes
     DEF Init, Backend!Init, Backend!Phases, IInv, TypeOK, CallsFollowRequests,
         StatusIsJustified, FailsClosed, StoppedIsIdle, InProgress, NoDecision, NoStatus

(* A request arrives, or is turned away before its handler.                *)
LEMMA ArriveKeeps ==
  ASSUME IInv, NEW r \in Requests, Arrive(r) \/ RejectPath(r)
  PROVE  IInv'
  <1> USE DEF IInv, callVars, NoStatus, NoDecision, InProgress
  <1>1. TypeOK'
    BY DEF Arrive, RejectPath, Respond, TypeOK
  <1>2. CallsFollowRequests'
    BY DEF Arrive, RejectPath, Respond, TypeOK, CallsFollowRequests
  <1>3. StatusIsJustified'
    BY DEF Arrive, RejectPath, Respond, TypeOK, CallsFollowRequests, StatusIsJustified
  <1>4. FailsClosed'
    BY DEF Arrive, RejectPath, Respond, TypeOK, FailsClosed
  <1>5. StoppedIsIdle'
    BY DEF Arrive, RejectPath, Respond, TypeOK, StoppedIsIdle
  <1> QED
    BY <1>1, <1>2, <1>3, <1>4, <1>5

(* The guard has spoken, and the request goes no further.                  *)
LEMMA DenialKeeps ==
  ASSUME IInv, NEW r \in Requests, Nobody(r) \/ Degraded(r)
  PROVE  IInv'
  <1> USE DEF IInv, callVars, NoStatus, NoDecision, InProgress
  <1>1. PICK d \in Decisions, code \in {401, 503} :
          /\ stage[r] = "authorizing"
          /\ decision' = [decision EXCEPT ![r] = d]
          /\ stage' = [stage EXCEPT ![r] = "responded"]
          /\ status' = [status EXCEPT ![r] = code]
          /\ code = 401 =>
                d \in {"anonymous", "unauthenticated"} \/ header[r] \in {"none", "opaque"}
          /\ code = 503 => d = "degraded"
          /\ UNCHANGED <<header, server, mode, phase, verdict, result>>
    BY DEF Nobody, Degraded, Decides, Respond, Decisions
  <1>2. TypeOK'
    BY <1>1 DEF TypeOK
  <1>3. CallsFollowRequests'
    BY <1>1 DEF TypeOK, CallsFollowRequests
  <1>4. StatusIsJustified'
    BY <1>1 DEF TypeOK, CallsFollowRequests, StatusIsJustified
  <1>5. FailsClosed'
    BY <1>1 DEF TypeOK, CallsFollowRequests, FailsClosed
  <1>6. StoppedIsIdle'
    BY <1>1 DEF TypeOK, StoppedIsIdle
  <1> QED
    BY <1>2, <1>3, <1>4, <1>5, <1>6

(* An authenticated actor's lookup begins, or is refused.                  *)
LEMMA LookUpKeeps ==
  ASSUME IInv, NEW r \in Requests, LookUp(r)
  PROVE  IInv'
  <1> USE DEF IInv, callVars, NoStatus, NoDecision, InProgress
  <1>1. /\ stage[r] = "authorizing"
        /\ decision' = [decision EXCEPT ![r] = "authenticated"]
        /\ stage' = [stage EXCEPT ![r] = "loading"]
        /\ UNCHANGED <<header, status, server, mode, verdict>>
    BY DEF LookUp, Decides, Call
  <1>2. \/ phase' = [phase EXCEPT ![r] = "open"] /\ UNCHANGED result
        \/ /\ header[r] = "malformed" /\ mode = "forwarding"
           /\ phase' = [phase EXCEPT ![r] = "refused"]
           /\ result' = [result EXCEPT ![r] = "rejected"]
    BY DEF LookUp, Call
  <1>3. TypeOK'
    BY <1>1, <1>2 DEF TypeOK, Decisions, Results, BackendErrors, Backend!Phases
  <1>4. CallsFollowRequests'
    BY <1>1, <1>2 DEF TypeOK, CallsFollowRequests
  <1>5. StatusIsJustified'
    BY <1>1, <1>2 DEF TypeOK, CallsFollowRequests, StatusIsJustified
  <1>6. FailsClosed'
    BY <1>1, <1>2 DEF TypeOK, FailsClosed
  <1>7. StoppedIsIdle'
    BY <1>1, <1>2 DEF TypeOK, StoppedIsIdle
  <1> QED
    BY <1>3, <1>4, <1>5, <1>6, <1>7

(* The outcome of a lookup becomes a status, and says no more than it.     *)
LEMMA LoadedKeeps ==
  ASSUME IInv, NEW r \in Requests, Loaded(r)
  PROVE  IInv'
  <1> USE DEF IInv, callVars, NoStatus, NoDecision, InProgress
  <1> DEFINE code == StatusOf(result[r])
  <1>1. /\ stage[r] = "loading"
        /\ result[r] \in Results
        /\ stage' = [stage EXCEPT ![r] = "responded"]
        /\ status' = [status EXCEPT ![r] = code]
        /\ UNCHANGED <<header, decision, server, mode, phase, verdict, result>>
    BY DEF Loaded, Respond, TypeOK
  <1>2. /\ code \in {200, 400, 401, 404, 503}
        /\ code = 200 => result[r] = "ok"
        /\ code = 404 => result[r] = "not_found"
        /\ code = 400 => result[r] = "invalid_request"
        /\ code = 401 => result[r] = "rejected"
        /\ code = 503 => result[r] = "unavailable"
    BY <1>1, Outcomes
  <1> HIDE DEF code
  <1>3. phase[r] \in {"refused", "done"}
    BY <1>1, Outcomes DEF TypeOK, Backend!Phases, CallsFollowRequests
  <1>4. /\ code = 200 => verdict[r] = "ok"
        /\ code = 404 => verdict[r] = "not_found"
        /\ code = 400 => verdict[r] = "invalid_request"
        /\ code = 401 =>
              \/ header[r] = "malformed" /\ mode = "forwarding"
              \/ verdict[r] = "unauthorized"
    <2>1. CASE phase[r] = "refused"
      BY <1>2, <2>1 DEF CallsFollowRequests
    <2>2. CASE phase[r] = "done"
      <3>1. result[r] = "unavailable"
               \/ (verdict[r] \in Verdicts /\ result[r] = ResultOf[verdict[r]])
        BY <2>2 DEF TypeOK, CallsFollowRequests
      <3> QED
        BY <1>2, <3>1, Outcomes
    <2> QED
      BY <1>3, <2>1, <2>2
  <1>5. TypeOK'
    BY <1>1, <1>2 DEF TypeOK
  <1>6. CallsFollowRequests'
    BY <1>1, <1>3 DEF TypeOK, CallsFollowRequests
  <1>7. StatusIsJustified'
    BY <1>1, <1>2, <1>4 DEF TypeOK, StatusIsJustified
  <1>8. FailsClosed'
    BY <1>1, <1>3 DEF TypeOK, FailsClosed
  <1>9. StoppedIsIdle'
    BY <1>1 DEF TypeOK, StoppedIsIdle
  <1> QED
    BY <1>5, <1>6, <1>7, <1>8, <1>9

(* A client leaves; its lookup, if there is one, is dropped with it.       *)
LEMMA LeaveKeeps ==
  ASSUME IInv, NEW r \in Requests, Leave(r)
  PROVE  IInv'
  <1> USE DEF IInv, callVars, NoStatus, NoDecision, InProgress
  <1>1. /\ stage[r] \in {"authorizing", "loading"}
        /\ stage' = [stage EXCEPT ![r] = "left"]
        /\ UNCHANGED <<header, decision, status, server, mode, verdict, result>>
        /\ \/ phase[r] = "open" /\ phase' = [phase EXCEPT ![r] = "gone"]
           \/ phase[r] # "open" /\ UNCHANGED phase
    BY DEF Leave, IInv, TypeOK
  <1>2. TypeOK'
    BY <1>1 DEF TypeOK, Backend!Phases
  <1>3. CallsFollowRequests'
    BY <1>1 DEF TypeOK, CallsFollowRequests
  <1>4. StatusIsJustified'
    BY <1>1 DEF TypeOK, StatusIsJustified
  <1>5. FailsClosed'
    BY <1>1 DEF TypeOK, FailsClosed
  <1>6. StoppedIsIdle'
    BY <1>1 DEF TypeOK, StoppedIsIdle
  <1> QED
    BY <1>2, <1>3, <1>4, <1>5, <1>6

(* A lookup ends as the contract of the backend allows.                    *)
LEMMA ReturnsKeeps ==
  ASSUME IInv, NEW r \in Requests, Returns(r)
  PROVE  IInv'
  <1> USE DEF IInv, NoStatus, NoDecision, InProgress
  <1>1. PICK res \in Results :
          /\ phase[r] = "open"
          /\ phase' = [phase EXCEPT ![r] = "done"]
          /\ result' = [result EXCEPT ![r] = res]
          /\ res = "unavailable" \/ (verdict[r] # Undecided /\ res = ResultOf[verdict[r]])
          /\ UNCHANGED <<stage, header, decision, status, server, mode, verdict>>
    BY SameOutcomes, Outcomes
       DEF Returns, Backend!Answer, Backend!Fail, Results, BackendErrors, TypeOK
  <1>2. stage[r] = "loading" /\ status[r] = 0
    BY <1>1 DEF CallsFollowRequests
  <1>3. TypeOK'
    BY <1>1 DEF TypeOK, Backend!Phases
  <1>4. CallsFollowRequests'
    BY <1>1, <1>2 DEF TypeOK, CallsFollowRequests
  <1>5. StatusIsJustified'
    BY <1>1, <1>2 DEF TypeOK, StatusIsJustified
  <1>6. FailsClosed'
    BY <1>1 DEF TypeOK, FailsClosed
  <1>7. StoppedIsIdle'
    BY <1>1 DEF TypeOK, StoppedIsIdle
  <1> QED
    BY <1>3, <1>4, <1>5, <1>6, <1>7

(* The authority decides about a lookup, perhaps after it has ended.       *)
LEMMA DecisionKeeps ==
  ASSUME IInv, NEW r \in Requests, AuthorityDecides(r)
  PROVE  IInv'
  <1> USE DEF IInv, NoStatus, NoDecision, InProgress
  <1>1. PICK v \in Verdicts :
          /\ phase[r] \in {"open", "done", "gone"}
          /\ verdict[r] = Undecided
          /\ verdict' = [verdict EXCEPT ![r] = v]
          /\ UNCHANGED <<stage, header, decision, status, server, mode, phase, result>>
    BY SameOutcomes DEF AuthorityDecides, Backend!Decide
  <1>2. v # Undecided /\ \A x \in {"ok", "not_found", "invalid_request"} : x # Undecided
    BY Outcomes DEF Undecided
  <1>3. TypeOK'
    BY <1>1 DEF TypeOK
  <1>4. CallsFollowRequests'
    BY <1>1 DEF TypeOK, CallsFollowRequests
  <1>5. StatusIsJustified'
    BY <1>1, <1>2 DEF TypeOK, StatusIsJustified, Undecided
  <1>6. FailsClosed'
    BY <1>1 DEF TypeOK, FailsClosed
  <1>7. StoppedIsIdle'
    BY <1>1 DEF TypeOK, StoppedIsIdle
  <1> QED
    BY <1>3, <1>4, <1>5, <1>6, <1>7

(* The server begins to drain, and stops when no request is in progress:   *)
(* then no lookup is open either.                                          *)
LEMMA ShutdownKeeps ==
  ASSUME IInv, Interrupt \/ Stop
  PROVE  IInv'
  <1> USE DEF IInv, callVars, Interrupt, Stop
  <1>1. TypeOK'
    BY DEF TypeOK
  <1>2. CallsFollowRequests'
    BY DEF CallsFollowRequests
  <1>3. StatusIsJustified'
    BY DEF StatusIsJustified
  <1>4. FailsClosed'
    BY DEF FailsClosed
  <1>5. StoppedIsIdle'
    BY DEF StoppedIsIdle, CallsFollowRequests, InProgress
  <1> QED
    BY <1>1, <1>2, <1>3, <1>4, <1>5

LEMMA NextKeeps == IInv /\ [Next]_vars => IInv'
  <1> SUFFICES ASSUME IInv, [Next]_vars PROVE IInv'
    OBVIOUS
  <1>1. ASSUME NEW r \in Requests, Request(r) PROVE IInv'
    BY <1>1, ArriveKeeps, DenialKeeps, LookUpKeeps, LoadedKeeps, LeaveKeeps,
       ReturnsKeeps, DecisionKeeps DEF Request, Authorized
  <1>2. CASE UNCHANGED vars
    BY <1>2 DEF vars, callVars, IInv, TypeOK, CallsFollowRequests, StatusIsJustified,
                FailsClosed, StoppedIsIdle
  <1> QED
    BY <1>1, <1>2, ShutdownKeeps DEF Next

-----------------------------------------------------------------------------
(* IInv holds throughout: load_tunnel never asks for someone it does not   *)
(* know, and what it answers follows from what it was told.                *)
THEOREM Invariance == Spec => []IInv
  BY InitEstablishes, NextKeeps, PTL DEF Spec

(* The status of every response is justified by the decision of the guard, *)
(* the header, or the verdict of the authority about that request.         *)
THEOREM StatusesAreJustified == Spec => []StatusIsJustified
  <1>1. IInv => StatusIsJustified
    BY DEF IInv
  <1> QED
    BY <1>1, Invariance, PTL

(* No authority is asked on behalf of nobody, or of a degraded outcome.    *)
THEOREM NobodyIsShownNothing == Spec => []FailsClosed
  <1>1. IInv => FailsClosed
    BY DEF IInv
  <1> QED
    BY <1>1, Invariance, PTL

(* A server that has stopped has left no request without an answer and no  *)
(* lookup without its end, unless the client went away.                    *)
THEOREM NobodyIsLeftBehind == Spec => []StoppedIsIdle
  <1>1. IInv => StoppedIsIdle
    BY DEF IInv
  <1> QED
    BY <1>1, Invariance, PTL

-----------------------------------------------------------------------------
(* What a step may never do.                                               *)

(* The response of a request, its decision and an ended lookup are final.  *)
Final(r) ==
    /\ stage[r] \in {"responded", "left"} => stage'[r] = stage[r] /\ status'[r] = status[r]
    /\ decision[r] # NoDecision => decision'[r] = decision[r]
    /\ phase[r] \in {"refused", "done", "gone"} =>
          phase'[r] = phase[r] /\ result'[r] = result[r]

(* What a stopped server leaves behind changes no more: only an authority  *)
(* may still decide, about a call nobody waits for.                        *)
Stopped == server = "stopped" => UNCHANGED <<stage, header, decision, status, server, phase, result>>

LEMMA RequestStep ==
  ASSUME IInv, NEW r \in Requests, Request(r)
  PROVE  /\ Backend!Next \/ UNCHANGED callVars
         /\ \A q \in Requests : Final(q)
         /\ Stopped
  <1> USE DEF callVars
  <1>1. TypeOK /\ StoppedIsIdle /\ CallsFollowRequests
    BY DEF IInv
  <1>2. CASE Arrive(r) \/ RejectPath(r)
    BY <1>1, <1>2 DEF Arrive, RejectPath, Respond, Final, Stopped, TypeOK
  <1>3. CASE Nobody(r) \/ Degraded(r)
    <2>1. PICK d \in Decisions, code \in {401, 503} :
            /\ stage[r] = "authorizing"
            /\ stage' = [stage EXCEPT ![r] = "responded"]
            /\ status' = [status EXCEPT ![r] = code]
            /\ decision' = [decision EXCEPT ![r] = d]
            /\ UNCHANGED callVars
      BY <1>3 DEF Nobody, Degraded, Decides, Respond, Decisions
    <2>2. decision[r] = NoDecision /\ server # "stopped"
      BY <1>1, <2>1 DEF CallsFollowRequests, StoppedIsIdle, InProgress
    <2> QED
      BY <1>1, <2>1, <2>2 DEF Final, Stopped, TypeOK
  <1>4. CASE LookUp(r)
    <2>1. /\ stage[r] = "authorizing"
          /\ stage' = [stage EXCEPT ![r] = "loading"]
          /\ decision' = [decision EXCEPT ![r] = "authenticated"]
          /\ UNCHANGED status
          /\ Call(r)
      BY <1>4 DEF LookUp, Decides
    <2>2. decision[r] = NoDecision /\ server # "stopped" /\ phase[r] = "idle"
      BY <1>1, <2>1 DEF CallsFollowRequests, StoppedIsIdle, InProgress
    <2>3. \A q \in Requests : phase[q] \in {"refused", "done", "gone"} =>
            phase'[q] = phase[q] /\ result'[q] = result[q]
      BY <1>1, <2>1, <2>2 DEF Call, TypeOK
    <2>4. Backend!Next
      <3>1. Backend!Ask(r) \/ Backend!Refuse(r)
        BY <2>1, <2>2 DEF Call, Backend!Ask, Backend!Refuse
      <3> QED
        BY <3>1 DEF Backend!Next
    <2>5. \A q \in Requests : Final(q)
      BY <1>1, <2>1, <2>2, <2>3 DEF Final, TypeOK
    <2> QED
      BY <2>2, <2>4, <2>5 DEF Stopped
  <1>5. CASE Loaded(r)
    BY <1>1, <1>5 DEF Loaded, Respond, Final, Stopped, TypeOK, StoppedIsIdle, InProgress
  <1>6. CASE Leave(r)
    <2>1. Backend!Abandon(r) \/ UNCHANGED callVars
      <3>1. UNCHANGED <<verdict, result>>
            /\ phase' = [phase EXCEPT ![r] = IF phase[r] = "open" THEN "gone" ELSE phase[r]]
        BY <1>6 DEF Leave
      <3>2. CASE phase[r] = "open"
        BY <3>1, <3>2 DEF Backend!Abandon
      <3>3. CASE phase[r] # "open"
        BY <1>1, <3>1, <3>3 DEF TypeOK
      <3> QED
        BY <3>2, <3>3
    <2>2. Backend!Next \/ UNCHANGED callVars
      BY <2>1 DEF Backend!Next, Backend!End
    <2>3. /\ stage[r] \in {"authorizing", "loading"} /\ server # "stopped"
          /\ stage' = [stage EXCEPT ![r] = "left"]
          /\ UNCHANGED <<header, decision, status>>
      BY <1>1, <1>6 DEF Leave, StoppedIsIdle, InProgress
    <2>4. \A q \in Requests : phase[q] \in {"refused", "done", "gone"} =>
            phase'[q] = phase[q] /\ result'[q] = result[q]
      BY <1>1, <2>1 DEF Backend!Abandon, TypeOK
    <2> QED
      BY <1>1, <2>2, <2>3, <2>4 DEF Final, Stopped, TypeOK
  <1>7. CASE Returns(r)
    <2>1. /\ phase[r] = "open" /\ Backend!End(r)
          /\ UNCHANGED <<stage, header, decision, status, server>>
      BY <1>7 DEF Returns, Backend!End, Backend!Answer, Backend!Fail
    <2>2. server # "stopped"
      BY <1>1, <2>1 DEF StoppedIsIdle
    <2>3. \A q \in Requests : phase[q] \in {"refused", "done", "gone"} =>
            phase'[q] = phase[q] /\ result'[q] = result[q]
      BY <1>1, <2>1 DEF Backend!End, Backend!Answer, Backend!Fail, Backend!Abandon, TypeOK
    <2> QED
      BY <2>1, <2>2, <2>3 DEF Final, Stopped, Backend!Next
  <1>8. CASE AuthorityDecides(r)
    BY <1>8, SameOutcomes
       DEF AuthorityDecides, Backend!Decide, Backend!Next, Final, Stopped, Backend!Verdicts, Verdicts
  <1> QED
    BY <1>2, <1>3, <1>4, <1>5, <1>6, <1>7, <1>8 DEF Request, Authorized

LEMMA NextStep ==
    IInv /\ [Next]_vars => /\ [Backend!Next]_callVars
                           /\ [\A r \in Requests : Final(r)]_vars
                           /\ [Stopped]_vars
  <1> SUFFICES ASSUME IInv, [Next]_vars
               PROVE  /\ Backend!Next \/ UNCHANGED callVars
                      /\ (\A r \in Requests : Final(r)) \/ UNCHANGED vars
                      /\ Stopped \/ UNCHANGED vars
    OBVIOUS
  <1>1. CASE \E r \in Requests : Request(r)
    BY <1>1, RequestStep
  <1>2. CASE Interrupt \/ Stop
    BY <1>2 DEF Interrupt, Stop, Final, Stopped, callVars
  <1>3. CASE UNCHANGED vars
    BY <1>3 DEF vars
  <1> QED
    BY <1>1, <1>2, <1>3 DEF Next

(* The handlers use their backend as its contract allows.  Neither the     *)
(* call nor the dropping of a handler looks at the lookup: that a request  *)
(* looks up at most once, and abandons a lookup only while it is open,     *)
(* follows from where the request is, by CallsFollowRequests.              *)
THEOREM HandlersKeepTheContract == Spec => Backend!Safety
  <1>1. Init => Backend!Init
    BY DEF Init
  <1>2. [Backend!Next]_callVars => [Backend!Next]_(Backend!vars)
    BY DEF callVars, Backend!vars
  <1> QED
    BY <1>1, <1>2, NextStep, Invariance, PTL DEF Spec, Backend!Safety

(* A request is decided and answered at most once, and neither a lookup    *)
(* that returns late nor the shutdown changes an answer.                   *)
THEOREM ResponsesAreFinal == Spec => [][\A r \in Requests : Final(r)]_vars
  BY NextStep, Invariance, PTL DEF Spec

(* After the server has stopped nothing arrives, nothing is answered and   *)
(* no lookup ends.                                                         *)
THEOREM StoppedStaysStopped == Spec => [][Stopped]_vars
  BY NextStep, Invariance, PTL DEF Spec
=============================================================================
