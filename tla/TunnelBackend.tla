---------------------------- MODULE TunnelBackend ----------------------------
(***************************************************************************)
(* What the TunnelBackend trait promises the request handlers, whatever    *)
(* the transport behind it (direct_read, http, tcp, nats):                 *)
(*                                                                         *)
(*   - a lookup returns at most once, and what it returns is the decision  *)
(*     the authority took about THAT lookup, or "unavailable";             *)
(*   - a lookup whose authorization is malformed is rejected before it is  *)
(*     ever seen by an authority;                                          *)
(*   - a lookup that was admitted comes to an end, unless its caller goes  *)
(*     away first; direct_read keeps this only if the database answers.    *)
(*                                                                         *)
(* The backends are separate modules that implement this one.              *)
(***************************************************************************)
EXTENDS LookupOutcomes

CONSTANT Lookups        \* calls of lookup: one per request being handled

VARIABLES
    phase,              \* [Lookups -> Phases]
    verdict,            \* what the authority decided, or Undecided
    result              \* what the call returned, or NoResult

vars == <<phase, verdict, result>>

Phases == {"idle", "open", "refused", "done", "gone"}

Init ==
    /\ phase = [l \in Lookups |-> "idle"]
    /\ verdict = [l \in Lookups |-> Undecided]
    /\ result = [l \in Lookups |-> NoResult]

(* The call is made with an authorization the backend can forward.         *)
Ask(l) ==
    /\ phase[l] = "idle"
    /\ phase' = [phase EXCEPT ![l] = "open"]
    /\ UNCHANGED <<verdict, result>>

(* The call is made with one it cannot.                                    *)
Refuse(l) ==
    /\ phase[l] = "idle"
    /\ phase' = [phase EXCEPT ![l] = "refused"]
    /\ result' = [result EXCEPT ![l] = "rejected"]
    /\ UNCHANGED verdict

(* The authority decides, once, even about a call whose caller no longer   *)
(* waits.                                                                  *)
Decide(l, v) ==
    /\ phase[l] \in {"open", "done", "gone"}
    /\ verdict[l] = Undecided
    /\ verdict' = [verdict EXCEPT ![l] = v]
    /\ UNCHANGED <<phase, result>>

Answer(l) ==
    /\ phase[l] = "open"
    /\ verdict[l] # Undecided
    /\ phase' = [phase EXCEPT ![l] = "done"]
    /\ result' = [result EXCEPT ![l] = ResultOf[verdict[l]]]
    /\ UNCHANGED verdict

Fail(l) ==
    /\ phase[l] = "open"
    /\ phase' = [phase EXCEPT ![l] = "done"]
    /\ result' = [result EXCEPT ![l] = "unavailable"]
    /\ UNCHANGED verdict

(* The request's connection closed and its handler was dropped.            *)
Abandon(l) ==
    /\ phase[l] = "open"
    /\ phase' = [phase EXCEPT ![l] = "gone"]
    /\ UNCHANGED <<verdict, result>>

End(l) == Answer(l) \/ Fail(l) \/ Abandon(l)

Next ==
    \E l \in Lookups :
        \/ Ask(l)
        \/ Refuse(l)
        \/ End(l)
        \/ \E v \in Verdicts : Decide(l, v)

Safety == Init /\ [][Next]_vars

(* A lookup ends: http, tcp and nats bound theirs with deadlines, while    *)
(* direct_read needs a database that answers.  Nothing obliges a user to   *)
(* ask, or an authority to decide.                                         *)
Fairness == \A l \in Lookups : WF_vars(End(l))

Spec == Safety /\ Fairness

-----------------------------------------------------------------------------
(* What follows for whoever calls a lookup.                                *)

TypeOK ==
    /\ phase \in [Lookups -> Phases]
    /\ verdict \in [Lookups -> Verdicts \union {Undecided}]
    /\ result \in [Lookups -> Results \union {NoResult}]

(* A call returns when it is refused or done, and then what was decided    *)
(* about it, or that nobody could be asked.                                *)
ResultIsOwn ==
    \A l \in Lookups :
        /\ phase[l] \in {"idle", "refused"} => verdict[l] = Undecided
        /\ phase[l] \in {"idle", "open", "gone"} => result[l] = NoResult
        /\ phase[l] = "refused" => result[l] = "rejected"
        /\ phase[l] = "done" =>
              \/ result[l] = "unavailable"
              \/ verdict[l] # Undecided /\ result[l] = ResultOf[verdict[l]]

(* Neither a decision nor what a call returned is taken back, and a call   *)
(* that has ended, refused or with its caller, stays so.                   *)
NothingIsTakenBack ==
    [][\A l \in Lookups :
          /\ verdict[l] # Undecided => verdict'[l] = verdict[l]
          /\ result[l] # NoResult => result'[l] = result[l]
          /\ phase[l] \in {"refused", "done", "gone"} => phase'[l] = phase[l]]_vars
=============================================================================
