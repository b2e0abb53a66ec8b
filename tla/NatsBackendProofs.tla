-------------------------- MODULE NatsBackendProofs --------------------------
(***************************************************************************)
(* The nats backend implements the safety part of TunnelBackend, for any   *)
(* set of lookups.                                                         *)
(***************************************************************************)
EXTENDS NatsBackend, TLAPS

(* The two modules share one vocabulary.                                   *)
LEMMA SameOutcomes ==
    /\ Contract!Undecided = Undecided
    /\ Contract!NoResult = NoResult
    /\ Contract!Verdicts = Verdicts
    /\ Contract!ResultOf = ResultOf
  BY DEF Contract!Undecided, Undecided, Contract!NoResult, NoResult,
         Contract!Verdicts, Verdicts, Contract!ResultOf, ResultOf

LEMMA ResultOfType == \A v \in Verdicts : ResultOf[v] \in Results /\ v # Undecided
  BY DEF Verdicts, Results, BackendErrors, ResultOf, Undecided

LEMMA NoReplyType == NoReply \in Replies /\ ~NoReply.own
  BY DEF NoReply, Replies, Verdicts

-----------------------------------------------------------------------------
LEMMA InitEstablishes == Init => IInv
  BY NoReplyType
     DEF Init, IInv, TypeOK, InboxIsTruthful, ServedAfterAsked, Results

(* The call is made, or refused before anything is sent.                   *)
LEMMA CallKeeps ==
  ASSUME IInv, NEW l \in Lookups, NEW valid \in BOOLEAN, Ask(l, valid) \/ Refuse(l, valid)
  PROVE  IInv'
  <1> USE DEF IInv, Ask, Refuse
  <1>1. TypeOK'
    BY DEF TypeOK, Results, BackendErrors
  <1>2. InboxIsTruthful'
    BY DEF InboxIsTruthful
  <1>3. ServedAfterAsked'
    BY DEF TypeOK, ServedAfterAsked
  <1> QED
    BY <1>1, <1>2, <1>3

(* What a call returns when it reads its inbox.                            *)
Outcome(l) ==
    IF reply[l].usable /\ reply[l].own THEN ResultOf[reply[l].verdict] ELSE "unavailable"

LEMMA OutcomeType ==
  ASSUME IInv, NEW l \in Lookups
  PROVE  Outcome(l) \in Results
  <1>1. reply[l].verdict \in Verdicts
    BY DEF IInv, TypeOK, Replies
  <1> QED
    BY <1>1, ResultOfType DEF Outcome, Results, BackendErrors

(* The call ends: by its reply, without one, or by being dropped.          *)
LEMMA EndKeeps ==
  ASSUME IInv, NEW l \in Lookups, End(l)
  PROVE  IInv'
  <1> USE DEF IInv
  <1>1. PICK p \in {"done", "gone"}, r \in Results \union {NoResult} :
          /\ phase[l] = "open"
          /\ phase' = [phase EXCEPT ![l] = p]
          /\ result' \in {result, [result EXCEPT ![l] = r]}
          /\ reply' \in {reply, [reply EXCEPT ![l] = NoReply]}
          /\ UNCHANGED <<verdict, request>>
    <2>1. CASE ReadReply(l)
      BY <2>1, OutcomeType DEF ReadReply, Return, Outcome
    <2>2. CASE RequestFails(l)
      BY <2>2 DEF RequestFails, Return, Results, BackendErrors
    <2>3. CASE Cancel(l)
      BY <2>3 DEF Cancel
    <2> QED
      BY <2>1, <2>2, <2>3 DEF End, Progress
  <1>2. TypeOK'
    BY <1>1, NoReplyType DEF TypeOK
  <1>3. InboxIsTruthful'
    BY <1>1, NoReplyType DEF TypeOK, InboxIsTruthful
  <1>4. ServedAfterAsked'
    BY <1>1 DEF TypeOK, ServedAfterAsked
  <1> QED
    BY <1>2, <1>3, <1>4

(* The responder decides, answers badly, or is not heard.                  *)
LEMMA ResponderKeeps ==
  ASSUME IInv, NEW l \in Lookups, Responder(l)
  PROVE  IInv'
  <1> USE DEF IInv
  <1>1. PICK v \in Verdicts \union {Undecided}, rep \in Replies :
          /\ request[l] = "sent" \/ (reply[l] # NoReply /\ v = verdict[l])
          /\ request' = [request EXCEPT ![l] = "served"]
          /\ verdict' = [verdict EXCEPT ![l] = v]
          /\ reply' = [reply EXCEPT ![l] = rep]
          /\ rep.own => rep.verdict = v
          /\ UNCHANGED <<phase, result>>
    <2>1. ASSUME NEW v \in Verdicts, Decide(l, v)
          PROVE  /\ request[l] = "sent"
                 /\ request' = [request EXCEPT ![l] = "served"]
                 /\ verdict' = [verdict EXCEPT ![l] = v]
                 /\ reply' = [reply EXCEPT ![l] = [own |-> TRUE, verdict |-> v, usable |-> TRUE]]
                 /\ [own |-> TRUE, verdict |-> v, usable |-> TRUE] \in Replies
                 /\ v \in Verdicts
                 /\ UNCHANGED <<phase, result>>
      BY <2>1 DEF Decide, Replies
    <2>2. ASSUME NEW bad \in Replies, AnswerBadly(l, bad)
          PROVE  /\ request[l] = "sent"
                 /\ request' = [request EXCEPT ![l] = "served"]
                 /\ verdict' = [verdict EXCEPT ![l] = verdict[l]]
                 /\ reply' = [reply EXCEPT ![l] = bad]
                 /\ ~bad.own
                 /\ UNCHANGED <<phase, result>>
      BY <2>2 DEF AnswerBadly, TypeOK
    <2>3. ASSUME Lose(l)
          PROVE  /\ request[l] = "sent" \/ reply[l] # NoReply
                 /\ request' = [request EXCEPT ![l] = "served"]
                 /\ verdict' = [verdict EXCEPT ![l] = verdict[l]]
                 /\ reply' = [reply EXCEPT ![l] = NoReply]
                 /\ UNCHANGED <<phase, result>>
      BY <2>3 DEF Lose, TypeOK
    <2>4. verdict[l] \in Verdicts \union {Undecided}
      BY DEF TypeOK
    <2>5. CASE \E v \in Verdicts : Decide(l, v)
      <3>1. PICK v \in Verdicts : Decide(l, v)
        BY <2>5
      <3> QED
        BY <2>1, <3>1
    <2>6. CASE \E bad \in Replies : AnswerBadly(l, bad)
      BY <2>2, <2>4, <2>6
    <2>7. CASE Lose(l)
      BY <2>3, <2>4, <2>7, NoReplyType
    <2> QED
      BY <2>5, <2>6, <2>7 DEF Responder
  <1>2. phase[l] \notin {"idle", "refused"}
    BY <1>1 DEF ServedAfterAsked
  <1>3. TypeOK'
    BY <1>1 DEF TypeOK
  <1>4. InboxIsTruthful'
    BY <1>1 DEF TypeOK, InboxIsTruthful
  <1>5. ServedAfterAsked'
    BY <1>1, <1>2 DEF TypeOK, ServedAfterAsked
  <1> QED
    BY <1>3, <1>4, <1>5

LEMMA NextKeeps == IInv /\ [Next]_vars => IInv'
  <1> SUFFICES ASSUME IInv, [Next]_vars PROVE IInv'
    OBVIOUS
  <1>1. ASSUME NEW l \in Lookups, Lookup(l) \/ Responder(l) PROVE IInv'
    BY <1>1, CallKeeps, EndKeeps, ResponderKeeps DEF Lookup
  <1>2. CASE UNCHANGED vars
    BY <1>2 DEF vars, IInv, TypeOK, InboxIsTruthful, ServedAfterAsked
  <1> QED
    BY <1>1, <1>2 DEF Next, Finished

(* A message is there only after its call, and a reply that names its      *)
(* request tells what the API decided, however late it comes.              *)
THEOREM Invariance == Spec => []IInv
  BY InitEstablishes, NextKeeps, PTL DEF Spec

-----------------------------------------------------------------------------
LEMMA InitImplements == Init => Contract!Init
  BY SameOutcomes DEF Init, Contract!Init

(* The inbox tells the call its own verdict, or nothing.                   *)
LEMMA ReadReplyImplements ==
  ASSUME IInv, NEW l \in Lookups, ReadReply(l)
  PROVE  Contract!Answer(l) \/ Contract!Fail(l)
  <1> USE DEF IInv, ReadReply, Return
  <1>1. CASE reply[l].usable /\ reply[l].own
    <2>1. reply[l].verdict = verdict[l] /\ reply[l].verdict \in Verdicts
      BY <1>1 DEF InboxIsTruthful, TypeOK, Replies
    <2> QED
      BY <1>1, <2>1, ResultOfType, SameOutcomes DEF Contract!Answer
  <1>2. CASE ~(reply[l].usable /\ reply[l].own)
    BY <1>2 DEF Contract!Fail
  <1> QED
    BY <1>1, <1>2

LEMMA LookupImplements ==
  ASSUME IInv, NEW l \in Lookups, Lookup(l)
  PROVE  Contract!Ask(l) \/ Contract!Refuse(l) \/ Contract!End(l)
  <1>1. ASSUME NEW valid \in BOOLEAN, Ask(l, valid) PROVE Contract!Ask(l)
    BY <1>1 DEF Ask, Contract!Ask
  <1>2. ASSUME NEW valid \in BOOLEAN, Refuse(l, valid) PROVE Contract!Refuse(l)
    BY <1>2 DEF Refuse, Contract!Refuse
  <1>3. CASE RequestFails(l)
    BY <1>3 DEF RequestFails, Return, Contract!Fail, Contract!End
  <1>4. CASE Cancel(l)
    BY <1>4 DEF Cancel, Contract!Abandon, Contract!End
  <1> QED
    BY <1>1, <1>2, <1>3, <1>4, ReadReplyImplements DEF Lookup, End, Progress, Contract!End

(* The API decides about a request that was made, and once.                *)
LEMMA ResponderImplements ==
  ASSUME IInv, NEW l \in Lookups, Responder(l)
  PROVE  (\E v \in Verdicts : Contract!Decide(l, v)) \/ UNCHANGED Contract!vars
  <1>1. ASSUME NEW v \in Verdicts, Decide(l, v)
        PROVE  v \in Verdicts /\ Contract!Decide(l, v)
    BY <1>1, SameOutcomes
       DEF IInv, TypeOK, ServedAfterAsked, Decide, Contract!Decide
  <1>2. ASSUME NEW bad, AnswerBadly(l, bad) PROVE UNCHANGED Contract!vars
    BY <1>2 DEF AnswerBadly, Contract!vars
  <1>3. CASE Lose(l)
    BY <1>3 DEF Lose, Contract!vars
  <1> QED
    BY <1>1, <1>2, <1>3 DEF Responder

LEMMA NextImplements == IInv /\ [Next]_vars => [Contract!Next]_(Contract!vars)
  <1> SUFFICES ASSUME IInv, [Next]_vars PROVE [Contract!Next]_(Contract!vars)
    OBVIOUS
  <1>1. ASSUME NEW l \in Lookups, Lookup(l) PROVE Contract!Next
    BY <1>1, LookupImplements DEF Contract!Next
  <1>2. ASSUME NEW l \in Lookups, Responder(l) PROVE [Contract!Next]_(Contract!vars)
    BY <1>2, ResponderImplements, SameOutcomes DEF Contract!Next
  <1>3. CASE UNCHANGED vars
    BY <1>3 DEF vars, Contract!vars
  <1> QED
    BY <1>1, <1>2, <1>3 DEF Next, Finished

(* Whatever becomes of requests and replies, a lookup over NATS returns    *)
(* its own verdict or "unavailable", at most once.                         *)
THEOREM Implements == Spec => Contract!Safety
  BY Invariance, InitImplements, NextImplements, PTL
     DEF Spec, Contract!Safety
=============================================================================
