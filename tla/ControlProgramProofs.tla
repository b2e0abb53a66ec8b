------------------------ MODULE ControlProgramProofs ------------------------
(***************************************************************************)
(* The control program uses no transport but the configured one, whatever  *)
(* the backends do; it implements the TunnelBackend contract in every      *)
(* mode, by the proofs about each mode's backend; and in its direct_read   *)
(* mode it finds the actors' own rows.  For any number of lookups, any     *)
(* view and any pool; liveness aside.                                      *)
(***************************************************************************)
EXTENDS ControlProgram, TLAPS

NatsLemmas == INSTANCE NatsBackendProofs WITH request <- message
HttpLemmas == INSTANCE HttpBackendProofs WITH request <- get

(* What was accepted stays accepted, and nothing moves before.             *)
Accepted ==
    /\ stage \in {"starting", "binding", "serving", "exited"}
    /\ stage \in {"binding", "serving"} => AuthAccepted /\ TargetAccepted
    /\ stage # "serving" => \A l \in Lookups : phase[l] = "idle"

(* Each mode keeps to its own variables.                                   *)
OwnTransport ==
    /\ stage # "serving" \/ Mode # "nats" => \A l \in Lookups : message[l] = "none"
    /\ stage # "serving" \/ Mode # "http" => \A l \in Lookups : get[l] = "none"
    /\ stage # "serving" \/ Mode # "direct_read" => busy = {}

Selected == Accepted /\ OwnTransport

LEMMA Initially == Init => Selected
<1> SUFFICES ASSUME Init
             PROVE  Selected
  OBVIOUS
<1>1. /\ stage = "starting"
      /\ \A l \in Lookups : phase[l] = "idle" /\ message[l] = "none"
  BY DEF Init, InitWith, Nats!Init
<1>2. \A l \in Lookups : get[l] = "none"
  BY DEF Init, InitWith, Http!Init
<1>3. busy = {}
  BY DEF Init, InitWith, DirectRead!Init
<1> QED
  BY <1>1, <1>2, <1>3 DEF Selected, Accepted, OwnTransport

(* Startup changes the stage alone, and passes "starting" only with what   *)
(* is accepted.                                                            *)
LEMMA StartupSelects ==
  ASSUME Selected,
         Refuse \/ MakeBackend \/ CannotConnect \/ CannotBind \/ Listen
  PROVE  Selected'
<1>1. UNCHANGED <<settings, phase, message, get, busy>>
  BY DEF Refuse, MakeBackend, CannotConnect, CannotBind, Listen, Move,
         callVars, natsVars, httpVars, queryVars
<1>2. stage' \in {"binding", "serving", "exited"}
  BY DEF Refuse, MakeBackend, CannotConnect, CannotBind, Listen, Move
<1>3. stage # "serving"
  BY DEF Refuse, MakeBackend, CannotConnect, CannotBind, Listen
<1>4. stage' # "exited" => AuthAccepted /\ TargetAccepted
  BY DEF Selected, Accepted, Refuse, MakeBackend, CannotConnect, CannotBind, Listen, Move
<1>5. Mode' = Mode /\ AuthAccepted' = AuthAccepted /\ TargetAccepted' = TargetAccepted
  BY <1>1 DEF Mode, AuthAccepted, TargetAccepted
<1>6. Accepted'
  BY <1>1, <1>2, <1>3, <1>4, <1>5 DEF Selected, Accepted
<1>7. OwnTransport'
  BY <1>1, <1>3 DEF Selected, OwnTransport
<1> QED
  BY <1>6, <1>7 DEF Selected

(* A lookup leaves the stage, the settings and the other modes' variables  *)
(* alone.                                                                  *)
LEMMA LookupsKeepToTheirMode ==
  ASSUME Selected,
         LookUpByNats \/ LookUpByHttp \/ LookUpDirectly \/ LookUpByTcp
  PROVE  Selected'
<1>1. stage = "serving" /\ UNCHANGED <<stage, settings>>
  BY DEF LookUpByNats, LookUpByHttp, LookUpDirectly, LookUpByTcp, Serving
<1>2. Mode' = Mode /\ AuthAccepted' = AuthAccepted /\ TargetAccepted' = TargetAccepted
  BY <1>1 DEF Mode, AuthAccepted, TargetAccepted
<1>3. Accepted'
  BY <1>1, <1>2 DEF Selected, Accepted
<1>4. Mode # "nats" => UNCHANGED message
  BY DEF LookUpByNats, LookUpByHttp, LookUpDirectly, LookUpByTcp, Serving, natsVars
<1>5. Mode # "http" => UNCHANGED get
  BY DEF LookUpByNats, LookUpByHttp, LookUpDirectly, LookUpByTcp, Serving, httpVars
<1>6. Mode # "direct_read" => UNCHANGED busy
  BY DEF LookUpByNats, LookUpByHttp, LookUpDirectly, LookUpByTcp, Serving, queryVars
<1>7. OwnTransport'
  BY <1>1, <1>2, <1>4, <1>5, <1>6 DEF Selected, OwnTransport
<1> QED
  BY <1>3, <1>7 DEF Selected

LEMMA StepsSelect == Selected /\ [Next]_vars => Selected'
<1> SUFFICES ASSUME Selected, [Next]_vars
             PROVE  Selected'
  OBVIOUS
<1>1. CASE Refuse \/ MakeBackend \/ CannotConnect \/ CannotBind \/ Listen
  BY <1>1, StartupSelects
<1>2. CASE LookUpByNats \/ LookUpByHttp \/ LookUpDirectly \/ LookUpByTcp
  BY <1>2, LookupsKeepToTheirMode
<1>3. CASE UNCHANGED vars
  BY <1>3 DEF Selected, Accepted, OwnTransport, Mode, AuthAccepted, TargetAccepted,
              vars, callVars, natsVars, httpVars, queryVars
<1> QED
  BY <1>1, <1>2, <1>3 DEF Next

(* The mode is the configured one, and "unset" stands for http.            *)
LEMMA SelectedIsConfigured == Selected => NoFallback
<1> SUFFICES ASSUME Selected, NEW l \in Lookups
             PROVE  /\ phase[l] # "idle" =>
                          /\ stage = "serving"
                          /\ settings.auth \notin {"missing", "cleartext"}
                          /\ settings.mode = "tcp" => settings.mesh \/ settings.target = "local"
                    /\ message[l] # "none" => settings.mode = "nats"
                    /\ get[l] # "none" =>
                          /\ settings.mode \in {"unset", "http"}
                          /\ settings.target \notin RemoteCleartext \union {"missing", "malformed"}
                    /\ l \in busy => settings.mode = "direct_read"
  BY DEF NoFallback
<1>1. /\ Mode = "nats" => settings.mode = "nats"
      /\ Mode = "http" => settings.mode \in {"unset", "http"}
      /\ Mode = "direct_read" => settings.mode = "direct_read"
      /\ settings.mode = "tcp" => Mode = "tcp"
  BY DEF Mode
<1>2. stage = "serving" =>
         /\ settings.auth \notin {"missing", "cleartext"}
         /\ Mode = "http" => settings.target \in {"https", "loopback"}
         /\ Mode = "tcp" => settings.mesh \/ settings.target = "local"
  BY DEF Selected, Accepted, AuthAccepted, TargetAccepted, HttpBackendAccepts,
         ForbidsRemoteCleartext, StartsWithHttp, StartsLikeLoopback
<1>3. phase[l] # "idle" => stage = "serving"
  BY DEF Selected, Accepted
<1>4. /\ message[l] # "none" => Mode = "nats"
      /\ get[l] # "none" => stage = "serving" /\ Mode = "http"
      /\ l \in busy => Mode = "direct_read"
  BY DEF Selected, OwnTransport
<1> QED
  BY <1>1, <1>2, <1>3, <1>4 DEF RemoteCleartext

-----------------------------------------------------------------------------
(* main of ftnl-control-web: no lookup leaves the program over a transport *)
(* that was not configured, or before every check at startup was passed;   *)
(* none goes to the API over unencrypted HTTP to another host, however the *)
(* URL is written, and none over TCP to another host without the mesh.     *)
THEOREM NeverFallsBack == Spec => []NoFallback
<1>1. Spec => []Selected
  BY Initially, StepsSelect, PTL DEF Spec
<1> QED
  BY <1>1, SelectedIsConfigured, PTL

-----------------------------------------------------------------------------
(* The direct_read mode.                                                   *)

(* What the database says of a query, and what a lookup makes of it, fits  *)
(* the view.                                                               *)
VerdictFits(l) ==
    /\ verdict[l] \in {Undecided, "ok", "other", "not_found"}
    /\ verdict[l] = "ok" => query[l] \in view
    /\ verdict[l] = "not_found" => query[l] \notin view

ResultFits(l) ==
    /\ result[l] = "ok" => query[l] \in view
    /\ result[l] = "not_found" => query[l] \notin view

RowsFit ==
    /\ verdict \in [Lookups -> Verdicts \union {Undecided}]
    /\ result \in [Lookups -> Results \union {NoResult}]
    /\ view \in SUBSET DirectRead!Queries
    /\ \A l \in Lookups : VerdictFits(l) /\ ResultFits(l)

DirectReadFits == Mode = "direct_read" => RowsFit

(* The mode and the program share one vocabulary.                          *)
LEMMA SameOutcomes ==
    /\ DirectRead!Undecided = Undecided
    /\ DirectRead!NoResult = NoResult
    /\ DirectRead!ResultOf = ResultOf
BY DEF DirectRead!Undecided, Undecided, DirectRead!NoResult, NoResult, DirectRead!ResultOf,
       ResultOf, DirectRead!Verdicts, Verdicts

(* What one verdict of the three becomes.                                  *)
LEMMA DirectReadResults ==
    /\ ResultOf["ok"] = "ok" /\ ResultOf["not_found"] = "not_found"
    /\ ResultOf["other"] = "unavailable"
    /\ {"ok", "not_found", "unavailable"} \subseteq Results
BY DEF ResultOf, Verdicts, Results, BackendErrors

LEMMA InitFits == Init => DirectReadFits
BY SameOutcomes DEF Init, InitWith, DirectRead!Init, DirectReadFits, RowsFit, VerdictFits, ResultFits,
       Undecided, NoResult

(* A lookup's own steps change its result alone: to what its verdict says, *)
(* or to "unavailable".                                                    *)
LEMMA LookupFits ==
    ASSUME RowsFit, NEW l \in Lookups, DirectRead!Lookup(l)
    PROVE  RowsFit'
<1>1. UNCHANGED <<query, view, verdict>>
  BY DEF DirectRead!Lookup, DirectRead!Progress, DirectRead!Ask, DirectRead!Acquire,
         DirectRead!AcquireFails, DirectRead!ReadRow, DirectRead!QueryFails,
         DirectRead!Cancel, DirectRead!Return
<1>2. CASE DirectRead!ReadRow(l)
  <2>1. verdict[l] # Undecided /\ result' = [result EXCEPT ![l] = ResultOf[verdict[l]]]
    BY <1>2, SameOutcomes DEF DirectRead!ReadRow, DirectRead!Return
  <2>2. verdict[l] \in {"ok", "other", "not_found"}
    BY <2>1 DEF RowsFit, VerdictFits
  <2> QED BY <1>1, <2>1, <2>2, DirectReadResults DEF RowsFit, VerdictFits, ResultFits
<1>3. CASE DirectRead!AcquireFails(l) \/ DirectRead!QueryFails(l)
  <2>1. result' = [result EXCEPT ![l] = "unavailable"]
    BY <1>3 DEF DirectRead!AcquireFails, DirectRead!QueryFails, DirectRead!Return
  <2> QED BY <1>1, <2>1, DirectReadResults DEF RowsFit, VerdictFits, ResultFits
<1>4. CASE UNCHANGED result
  BY <1>1, <1>4 DEF RowsFit, VerdictFits, ResultFits
<1> QED BY <1>2, <1>3, <1>4
        DEF DirectRead!Lookup, DirectRead!Progress, DirectRead!Ask, DirectRead!Acquire,
            DirectRead!Cancel

(* The database answers a query by the rows of its tunnel and its actor.   *)
LEMMA DatabaseFits ==
    ASSUME RowsFit, NEW l \in Lookups, DirectRead!Database(l)
    PROVE  RowsFit'
<1>1. UNCHANGED <<query, view, result>>
  BY DEF DirectRead!Database, DirectRead!Execute, DirectRead!Release
<1>2. CASE DirectRead!Execute(l)
  <2>1. DirectRead!Rows(query[l]) = {} <=> query[l] \notin view
    BY DEF DirectRead!Rows
  <2>2. PICK v \in {"ok", "other", "not_found"} :
           /\ verdict' = [verdict EXCEPT ![l] = v]
           /\ v = "ok" => query[l] \in view
           /\ v = "not_found" => query[l] \notin view
    BY <1>2, <2>1 DEF DirectRead!Execute
  <2>3. v \in Verdicts
    BY DEF Verdicts
  <2> QED BY <1>1, <2>2, <2>3 DEF RowsFit, VerdictFits, ResultFits
<1>3. CASE UNCHANGED verdict
  BY <1>1, <1>3 DEF RowsFit, VerdictFits, ResultFits
<1> QED BY <1>2, <1>3 DEF DirectRead!Database, DirectRead!Release

LEMMA StepsFit == DirectReadFits /\ [Next]_vars => DirectReadFits'
<1> SUFFICES ASSUME DirectReadFits, [Next]_vars, Mode' = "direct_read"
             PROVE  RowsFit'
  BY DEF DirectReadFits
<1>1. Mode = "direct_read" /\ RowsFit
  BY DEF DirectReadFits, Mode, Next, vars, Refuse, MakeBackend, CannotConnect, CannotBind,
         Listen, Move, LookUpByNats, LookUpByHttp, LookUpDirectly, LookUpByTcp, Serving
<1>2. CASE LookUpDirectly
  <2>1. CASE UNCHANGED DirectRead!vars
    BY <1>1, <2>1 DEF DirectRead!vars, RowsFit, VerdictFits, ResultFits
  <2> QED BY <1>1, <1>2, <2>1, LookupFits, DatabaseFits
          DEF LookUpDirectly, DirectRead!Next, DirectRead!Finished
<1>3. CASE UNCHANGED <<callVars, queryVars>>
  BY <1>1, <1>3 DEF callVars, queryVars, RowsFit, VerdictFits, ResultFits
<1> QED BY <1>1, <1>2, <1>3
        DEF Next, vars, Refuse, MakeBackend, CannotConnect, CannotBind, Listen, Move,
            LookUpByNats, LookUpByHttp, LookUpByTcp, Serving

(* DirectReadBackend::lookup: a tunnel is found exactly if the verified    *)
(* actor owns it, however many lookups share the pool.                     *)
THEOREM OwnRowsOnly == Spec => []OnlyTheActorsRows
<1>1. Spec => []DirectReadFits
  BY InitFits, StepsFit, PTL DEF Spec
<1>2. DirectReadFits => OnlyTheActorsRows
  BY DEF DirectReadFits, RowsFit, ResultFits, OnlyTheActorsRows, DirectRead!OnlyTheActorsRows
<1> QED BY <1>1, <1>2, PTL

-----------------------------------------------------------------------------
(* What is proved of the nats and of the http backend holds of them in     *)
(* this program: NatsLemmas and Nats, HttpLemmas and Http are two names    *)
(* for one module over the same variables.                                 *)

LEMMA NatsStep ==
    /\ Nats!Init => Nats!IInv
    /\ Nats!IInv /\ [Nats!Next]_(Nats!vars) => Nats!IInv'
    /\ Nats!IInv /\ [Nats!Next]_(Nats!vars) => [Tcp!Next]_(Tcp!vars)
<1>1. /\ NatsLemmas!Init <=> Nats!Init
      /\ NatsLemmas!IInv <=> Nats!IInv
      /\ NatsLemmas!Next <=> Nats!Next
  BY DEF NatsLemmas!Verdicts, Nats!Verdicts, NatsLemmas!Undecided, Nats!Undecided,
         NatsLemmas!Results, Nats!Results, NatsLemmas!BackendErrors,
         Nats!BackendErrors, NatsLemmas!NoResult, Nats!NoResult,
         NatsLemmas!ResultOf, Nats!ResultOf, NatsLemmas!Replies,
         Nats!Replies, NatsLemmas!NoReply, Nats!NoReply, NatsLemmas!TypeOK,
         Nats!TypeOK, NatsLemmas!Init, Nats!Init, NatsLemmas!Ask, Nats!Ask,
         NatsLemmas!Refuse, Nats!Refuse, NatsLemmas!Return, Nats!Return,
         NatsLemmas!ReadReply, Nats!ReadReply, NatsLemmas!RequestFails,
         Nats!RequestFails, NatsLemmas!Cancel, Nats!Cancel,
         NatsLemmas!Decide, Nats!Decide, NatsLemmas!AnswerBadly,
         Nats!AnswerBadly, NatsLemmas!Lose, Nats!Lose, NatsLemmas!Progress,
         Nats!Progress, NatsLemmas!End, Nats!End, NatsLemmas!Lookup,
         Nats!Lookup, NatsLemmas!Responder, Nats!Responder,
         NatsLemmas!Finished, Nats!Finished, NatsLemmas!Next, Nats!Next,
         NatsLemmas!InboxIsTruthful, Nats!InboxIsTruthful,
         NatsLemmas!ServedAfterAsked, Nats!ServedAfterAsked,
         NatsLemmas!IInv, Nats!IInv, NatsLemmas!vars, Nats!vars
<1>2. NatsLemmas!IInv' <=> Nats!IInv'
  BY DEF NatsLemmas!Verdicts, Nats!Verdicts, NatsLemmas!Undecided, Nats!Undecided,
         NatsLemmas!Results, Nats!Results, NatsLemmas!BackendErrors,
         Nats!BackendErrors, NatsLemmas!NoResult, Nats!NoResult,
         NatsLemmas!ResultOf, Nats!ResultOf, NatsLemmas!Replies,
         Nats!Replies, NatsLemmas!NoReply, Nats!NoReply, NatsLemmas!TypeOK,
         Nats!TypeOK, NatsLemmas!InboxIsTruthful, Nats!InboxIsTruthful,
         NatsLemmas!ServedAfterAsked, Nats!ServedAfterAsked,
         NatsLemmas!IInv, Nats!IInv
<1>3. NatsLemmas!Contract!Next <=> Tcp!Next
  BY DEF NatsLemmas!Contract!Undecided, Tcp!Undecided, NatsLemmas!Contract!Verdicts,
         Tcp!Verdicts, NatsLemmas!Contract!ResultOf, Tcp!ResultOf,
         NatsLemmas!Contract!NoResult, Tcp!NoResult,
         NatsLemmas!Contract!Ask, Tcp!Ask, NatsLemmas!Contract!Refuse,
         Tcp!Refuse, NatsLemmas!Contract!Decide, Tcp!Decide,
         NatsLemmas!Contract!Answer, Tcp!Answer, NatsLemmas!Contract!Fail,
         Tcp!Fail, NatsLemmas!Contract!Abandon, Tcp!Abandon,
         NatsLemmas!Contract!End, Tcp!End, NatsLemmas!Contract!Next,
         Tcp!Next, NatsLemmas!Contract!vars, Tcp!vars
<1>4. /\ NatsLemmas!vars = Nats!vars /\ NatsLemmas!vars' = Nats!vars'
      /\ NatsLemmas!Contract!vars = Tcp!vars /\ NatsLemmas!Contract!vars' = Tcp!vars'
  BY DEF NatsLemmas!vars, Nats!vars, NatsLemmas!Contract!vars, Tcp!vars
<1>5. Nats!Init => Nats!IInv
  BY <1>1, NatsLemmas!InitEstablishes
<1>6. Nats!IInv /\ [Nats!Next]_(Nats!vars) => Nats!IInv'
  BY <1>1, <1>2, <1>4, NatsLemmas!NextKeeps
<1>7. Nats!IInv /\ [Nats!Next]_(Nats!vars) => [Tcp!Next]_(Tcp!vars)
  BY <1>1, <1>3, <1>4, NatsLemmas!NextImplements
<1> QED BY <1>5, <1>6, <1>7

(* The contract of the http backend, whose open calls await a head or a    *)
(* body.                                                                   *)
LEMMA HttpStep ==
    /\ Http!Init => Http!IInv
    /\ Http!IInv /\ [Http!Next]_(Http!vars) => Http!IInv'
    /\ Http!IInv /\ [Http!Next]_(Http!vars) => [Http!Contract!Next]_(Http!Contract!vars)
<1>1. /\ HttpLemmas!Init <=> Http!Init
      /\ HttpLemmas!IInv <=> Http!IInv
      /\ HttpLemmas!Next <=> Http!Next
  BY DEF HttpLemmas!Verdicts, Http!Verdicts, HttpLemmas!Undecided, Http!Undecided,
         HttpLemmas!Results, Http!Results, HttpLemmas!BackendErrors,
         Http!BackendErrors, HttpLemmas!NoResult, Http!NoResult,
         HttpLemmas!ResultOf, Http!ResultOf, HttpLemmas!Statuses,
         Http!Statuses, HttpLemmas!Responses, Http!Responses,
         HttpLemmas!NoResponse, Http!NoResponse, HttpLemmas!Awaiting,
         Http!Awaiting, HttpLemmas!TypeOK, Http!TypeOK, HttpLemmas!Init,
         Http!Init, HttpLemmas!Ask, Http!Ask, HttpLemmas!Refuse,
         Http!Refuse, HttpLemmas!Return, Http!Return,
         HttpLemmas!StatusResult, Http!StatusResult, HttpLemmas!ReadHead,
         Http!ReadHead, HttpLemmas!ReadBody, Http!ReadBody,
         HttpLemmas!TimesOut, Http!TimesOut, HttpLemmas!Cancel, Http!Cancel,
         HttpLemmas!StatusOf, Http!StatusOf, HttpLemmas!Answered,
         Http!Answered, HttpLemmas!Decide, Http!Decide,
         HttpLemmas!Intercept, Http!Intercept, HttpLemmas!Complete,
         Http!Complete, HttpLemmas!Progress, Http!Progress,
         HttpLemmas!Lookup, Http!Lookup, HttpLemmas!Server, Http!Server,
         HttpLemmas!Finished, Http!Finished, HttpLemmas!Next, Http!Next,
         HttpLemmas!vars, Http!vars, HttpLemmas!AnsweredAfterAsked,
         Http!AnsweredAfterAsked, HttpLemmas!ResponsesAreTruthful,
         Http!ResponsesAreTruthful, HttpLemmas!IInv, Http!IInv
<1>2. HttpLemmas!IInv' <=> Http!IInv'
  BY DEF HttpLemmas!Verdicts, Http!Verdicts, HttpLemmas!Undecided, Http!Undecided,
         HttpLemmas!Results, Http!Results, HttpLemmas!BackendErrors,
         Http!BackendErrors, HttpLemmas!NoResult, Http!NoResult,
         HttpLemmas!ResultOf, Http!ResultOf, HttpLemmas!Statuses,
         Http!Statuses, HttpLemmas!Responses, Http!Responses,
         HttpLemmas!NoResponse, Http!NoResponse, HttpLemmas!Awaiting,
         Http!Awaiting, HttpLemmas!TypeOK, Http!TypeOK,
         HttpLemmas!AnsweredAfterAsked, Http!AnsweredAfterAsked,
         HttpLemmas!ResponsesAreTruthful, Http!ResponsesAreTruthful,
         HttpLemmas!IInv, Http!IInv
<1>3. HttpLemmas!Contract!Next <=> Http!Contract!Next
  BY DEF HttpLemmas!Contract!Undecided, Http!Contract!Undecided,
         HttpLemmas!Contract!Verdicts, Http!Contract!Verdicts,
         HttpLemmas!Contract!ResultOf, Http!Contract!ResultOf,
         HttpLemmas!Contract!NoResult, Http!Contract!NoResult,
         HttpLemmas!Contract!Ask, Http!Contract!Ask,
         HttpLemmas!Contract!Refuse, Http!Contract!Refuse,
         HttpLemmas!Contract!Decide, Http!Contract!Decide,
         HttpLemmas!Contract!Answer, Http!Contract!Answer,
         HttpLemmas!Contract!Fail, Http!Contract!Fail,
         HttpLemmas!Contract!Abandon, Http!Contract!Abandon,
         HttpLemmas!Contract!End, Http!Contract!End,
         HttpLemmas!Contract!Next, Http!Contract!Next,
         HttpLemmas!Phase, Http!Phase, HttpLemmas!Awaiting, Http!Awaiting
<1>4. /\ HttpLemmas!vars = Http!vars /\ HttpLemmas!vars' = Http!vars'
      /\ HttpLemmas!Contract!vars = Http!Contract!vars
      /\ HttpLemmas!Contract!vars' = Http!Contract!vars'
  BY DEF HttpLemmas!vars, Http!vars, HttpLemmas!Contract!vars, Http!Contract!vars,
         HttpLemmas!Phase, Http!Phase, HttpLemmas!Awaiting, Http!Awaiting
<1>5. Http!Init => Http!IInv
  BY <1>1, HttpLemmas!InitEstablishes
<1>6. Http!IInv /\ [Http!Next]_(Http!vars) => Http!IInv'
  BY <1>1, <1>2, <1>4, HttpLemmas!NextKeeps
<1>7. Http!IInv /\ [Http!Next]_(Http!vars) => [Http!Contract!Next]_(Http!Contract!vars)
  BY <1>1, <1>3, <1>4, HttpLemmas!NextImplements
<1> QED BY <1>5, <1>6, <1>7

-----------------------------------------------------------------------------
(* The direct_read backend.                                                *)

(* A connection is occupied for a call that awaits its query or is gone.   *)
DirectReadInv ==
    /\ DirectRead!TypeOK
    /\ \A l \in busy : phase[l] \in {"querying", "gone"}

LEMMA DirectReadKeeps ==
    ASSUME DirectReadInv, NEW l \in Lookups, DirectRead!Lookup(l) \/ DirectRead!Database(l)
    PROVE  DirectReadInv'
<1> USE SameOutcomes DEF DirectReadInv, DirectRead!TypeOK, DirectRead!Awaiting
<1>1. CASE DirectRead!Ask(l)
  BY <1>1 DEF DirectRead!Ask
<1>2. ASSUME NEW r \in DirectRead!Results, DirectRead!Return(l, r)
      PROVE  DirectReadInv'
  BY <1>2 DEF DirectRead!Return
<1>3. CASE DirectRead!Acquire(l)
  BY <1>3 DEF DirectRead!Acquire
<1>4. CASE DirectRead!AcquireFails(l) \/ DirectRead!QueryFails(l)
  BY <1>2, <1>4 DEF DirectRead!AcquireFails, DirectRead!QueryFails, DirectRead!Results,
                    DirectRead!BackendErrors
<1>5. CASE DirectRead!ReadRow(l)
  <2>1. DirectRead!ResultOf[verdict[l]] \in DirectRead!Results
    BY <1>5 DEF DirectRead!ReadRow, DirectRead!ResultOf, DirectRead!Verdicts,
                DirectRead!Results, DirectRead!BackendErrors
  <2> QED BY <1>2, <1>5, <2>1 DEF DirectRead!ReadRow
<1>6. CASE DirectRead!Cancel(l)
  BY <1>6 DEF DirectRead!Cancel
<1>7. CASE DirectRead!Execute(l)
  <2>1. PICK v \in {"ok", "other", "not_found"} : verdict' = [verdict EXCEPT ![l] = v]
    BY <1>7 DEF DirectRead!Execute
  <2>2. v \in DirectRead!Verdicts
    BY DEF DirectRead!Verdicts
  <2> QED BY <1>7, <2>1, <2>2 DEF DirectRead!Execute
<1>8. CASE DirectRead!Release(l)
  BY <1>8 DEF DirectRead!Release
<1> QED BY <1>1, <1>3, <1>4, <1>5, <1>6, <1>7, <1>8
        DEF DirectRead!Lookup, DirectRead!Progress, DirectRead!Database

(* How the phases of a call look to the contract.                          *)
LEMMA DirectPhase ==
    ASSUME DirectReadInv, NEW l \in Lookups
    PROVE  /\ phase[l] \in {"acquiring", "querying"} => DirectRead!Phase[l] = "open"
           /\ phase[l] \notin {"acquiring", "querying"} => DirectRead!Phase[l] = phase[l]
           /\ \A p \in {"done", "gone"} : phase' = [phase EXCEPT ![l] = p]
                 => DirectRead!Phase' = [DirectRead!Phase EXCEPT ![l] = p]
           /\ \A p \in {"acquiring", "querying"} : phase' = [phase EXCEPT ![l] = p]
                 => DirectRead!Phase' = [DirectRead!Phase EXCEPT ![l] = "open"]
BY DEF DirectReadInv, DirectRead!TypeOK, DirectRead!Phase, DirectRead!Awaiting

LEMMA DirectReadImplements ==
    ASSUME DirectReadInv, NEW l \in Lookups, DirectRead!Lookup(l) \/ DirectRead!Database(l)
    PROVE  [DirectRead!Contract!Next]_(DirectRead!Contract!vars)
<1> USE DirectPhase
<1>1. CASE DirectRead!Ask(l)
  <2>1. DirectRead!Contract!Ask(l)
    BY <1>1 DEF DirectRead!Ask, DirectRead!Contract!Ask
  <2> QED BY <2>1 DEF DirectRead!Contract!Next
<1>2. CASE DirectRead!Acquire(l)
  <2>1. DirectRead!Phase' = DirectRead!Phase
    <3>1. phase[l] = "acquiring" /\ phase' = [phase EXCEPT ![l] = "querying"]
      BY <1>2 DEF DirectRead!Acquire
    <3> QED BY <3>1 DEF DirectReadInv, DirectRead!TypeOK, DirectRead!Phase, DirectRead!Awaiting
  <2> QED BY <1>2, <2>1 DEF DirectRead!Acquire, DirectRead!Contract!vars
<1>3. CASE DirectRead!AcquireFails(l) \/ DirectRead!QueryFails(l)
  <2>1. DirectRead!Contract!Fail(l)
    BY <1>3 DEF DirectRead!AcquireFails, DirectRead!QueryFails, DirectRead!Return,
                DirectRead!Contract!Fail
  <2> QED BY <2>1 DEF DirectRead!Contract!Next, DirectRead!Contract!End
<1>4. CASE DirectRead!ReadRow(l)
  <2>1. DirectRead!Contract!Undecided = DirectRead!Undecided
        /\ DirectRead!Contract!ResultOf = DirectRead!ResultOf
    BY DEF DirectRead!Contract!Undecided, DirectRead!Undecided, DirectRead!Contract!ResultOf,
           DirectRead!ResultOf, DirectRead!Contract!Verdicts, DirectRead!Verdicts
  <2>2. DirectRead!Contract!Answer(l)
    BY <1>4, <2>1 DEF DirectRead!ReadRow, DirectRead!Return, DirectRead!Contract!Answer
  <2> QED BY <2>2 DEF DirectRead!Contract!Next, DirectRead!Contract!End
<1>5. CASE DirectRead!Cancel(l)
  <2>1. DirectRead!Contract!Abandon(l)
    BY <1>5 DEF DirectRead!Cancel, DirectRead!Awaiting, DirectRead!Contract!Abandon
  <2> QED BY <2>1 DEF DirectRead!Contract!Next, DirectRead!Contract!End
<1>6. CASE DirectRead!Execute(l)
  <2>1. PICK v \in {"ok", "other", "not_found"} : verdict' = [verdict EXCEPT ![l] = v]
    BY <1>6 DEF DirectRead!Execute
  <2>2. v \in DirectRead!Contract!Verdicts
        /\ DirectRead!Contract!Undecided = DirectRead!Undecided
    BY DEF DirectRead!Contract!Verdicts, DirectRead!Contract!Undecided, DirectRead!Undecided
  <2>3. phase[l] \in {"querying", "gone"} /\ UNCHANGED <<phase, result>>
        /\ verdict[l] = DirectRead!Undecided
    BY <1>6 DEF DirectRead!Execute, DirectReadInv
  <2>4. DirectRead!Phase' = DirectRead!Phase
    BY <2>3 DEF DirectRead!Phase
  <2>5. DirectRead!Contract!Decide(l, v)
    BY <2>1, <2>2, <2>3, <2>4 DEF DirectRead!Contract!Decide
  <2> QED BY <2>2, <2>5 DEF DirectRead!Contract!Next
<1>7. CASE DirectRead!Release(l)
  BY <1>7 DEF DirectRead!Release, DirectRead!Contract!vars, DirectRead!Phase
<1> QED BY <1>1, <1>2, <1>3, <1>4, <1>5, <1>6, <1>7
        DEF DirectRead!Lookup, DirectRead!Progress, DirectRead!Database
-----------------------------------------------------------------------------
(* The program, in every mode.                                             *)

ModeInv ==
    /\ stage \in {"starting", "binding", "serving", "exited"}
    /\ settings \in Settings
    /\ Mode = "nats" => Nats!IInv
    /\ Mode = "http" => Http!IInv
    /\ Mode = "direct_read" => DirectReadInv
    /\ Mode = "tcp" => phase \in [Lookups -> Tcp!Phases]

LEMMA InitServes == Init => ModeInv
<1> SUFFICES ASSUME Init
             PROVE  ModeInv
  OBVIOUS
<1>1. stage = "starting" /\ settings \in Settings
  BY DEF Init, InitWith
<1>2. Nats!IInv
  BY NatsStep DEF Init, InitWith
<1>3. Http!IInv
  BY HttpStep DEF Init, InitWith
<1>4. DirectReadInv
  BY DEF Init, InitWith, DirectRead!Init, DirectReadInv, DirectRead!TypeOK
<1>5. phase \in [Lookups -> Tcp!Phases]
  BY DEF Init, InitWith, DirectRead!Init, Tcp!Phases
<1> QED BY <1>1, <1>2, <1>3, <1>4, <1>5 DEF ModeInv

(* The mode never changes, and a step is one of the mode's backend or      *)
(* leaves the lookups alone.                                               *)
LEMMA StepsOfTheMode ==
    ASSUME [Next]_vars
    PROVE  /\ UNCHANGED settings /\ Mode' = Mode
           /\ \/ LookUpByNats \/ LookUpByHttp \/ LookUpDirectly \/ LookUpByTcp
              \/ UNCHANGED <<callVars, natsVars, httpVars, queryVars>>
<1>1. UNCHANGED settings
  BY DEF Next, vars, Refuse, MakeBackend, CannotConnect, CannotBind, Listen, Move,
         LookUpByNats, LookUpByHttp, LookUpDirectly, LookUpByTcp, Serving
<1> QED BY <1>1 DEF Mode, Next, vars, Refuse, MakeBackend, CannotConnect, CannotBind, Listen, Move

LEMMA StagesStay ==
    ASSUME ModeInv, [Next]_vars
    PROVE  stage' \in {"starting", "binding", "serving", "exited"}
BY DEF ModeInv, Next, vars, Refuse, MakeBackend, CannotConnect, CannotBind, Listen, Move,
       LookUpByNats, LookUpByHttp, LookUpDirectly, LookUpByTcp, Serving

LEMMA StepsServe == ModeInv /\ [Next]_vars => ModeInv'
<1> SUFFICES ASSUME ModeInv, [Next]_vars
             PROVE  ModeInv'
  OBVIOUS
<1>1. stage' \in {"starting", "binding", "serving", "exited"} /\ settings' \in Settings
      /\ Mode' = Mode
  BY StepsOfTheMode, StagesStay DEF ModeInv, Settings
<1>2. CASE LookUpByNats
  BY <1>1, <1>2, NatsStep DEF LookUpByNats, Serving, ModeInv
<1>3. CASE LookUpByHttp
  BY <1>1, <1>3, HttpStep DEF LookUpByHttp, Serving, ModeInv
<1>4. CASE LookUpDirectly
  <2>1. CASE UNCHANGED DirectRead!vars
    BY <1>1, <1>4, <2>1 DEF LookUpDirectly, Serving, ModeInv, DirectRead!vars, DirectReadInv,
                            DirectRead!TypeOK
  <2> QED BY <1>1, <1>4, <2>1, DirectReadKeeps
          DEF LookUpDirectly, Serving, ModeInv, DirectRead!Next, DirectRead!Finished
<1>5. CASE LookUpByTcp
  <2>1. Mode = "tcp" /\ phase \in [Lookups -> Tcp!Phases] /\ Tcp!Next
    BY <1>5 DEF LookUpByTcp, Serving, ModeInv
  <2>2. phase' \in [Lookups -> Tcp!Phases]
    BY <2>1 DEF Tcp!Next, Tcp!Ask, Tcp!Refuse, Tcp!End, Tcp!Answer, Tcp!Fail, Tcp!Abandon,
                Tcp!Decide, Tcp!Phases
  <2> QED BY <1>1, <2>1, <2>2 DEF ModeInv
<1>6. CASE UNCHANGED <<callVars, natsVars, httpVars, queryVars>>
  <2>1. /\ UNCHANGED Nats!vars /\ UNCHANGED Http!vars
    BY <1>6 DEF callVars, natsVars, httpVars, queryVars, Nats!vars, Http!vars
  <2>2. /\ Nats!IInv => Nats!IInv'
        /\ Http!IInv => Http!IInv'
    BY <2>1, NatsStep, HttpStep
  <2>3. DirectReadInv => DirectReadInv'
    BY <1>6 DEF callVars, queryVars, DirectReadInv, DirectRead!TypeOK
  <2> QED BY <1>1, <1>6, <2>2, <2>3 DEF ModeInv, callVars
<1> QED BY <1>2, <1>3, <1>4, <1>5, <1>6, StepsOfTheMode

(* src/bin/ftnl-control-web.rs, main: whichever mode was selected, the     *)
(* invariant of its backend holds of the running program.                  *)
THEOREM ModeInvariance == Spec => []IInv
<1>1. Spec => []ModeInv
  BY InitServes, StepsServe, PTL DEF Spec
<1>2. ModeInv => IInv
  BY DEF ModeInv, IInv, DirectReadInv
<1> QED BY <1>1, <1>2, PTL

(* A phase is hidden from the contract only if it is one of the selected   *)
(* backend's own.                                                          *)
PhaseFits ==
    /\ Mode \in {"nats", "tcp"} => Phase = phase
    /\ Mode = "http" => Phase = Http!Phase
    /\ Mode = "direct_read" => Phase = DirectRead!Phase

LEMMA PhaseOfTheMode == ModeInv => PhaseFits
<1> SUFFICES ASSUME ModeInv
             PROVE  PhaseFits
  OBVIOUS
<1> USE DEF ModeInv, PhaseFits, Phase, Http!Awaiting, DirectRead!Awaiting
<1>1. CASE Mode = "nats"
  BY <1>1 DEF Nats!IInv, Nats!TypeOK
<1>2. CASE Mode = "tcp"
  BY <1>2 DEF Tcp!Phases
<1>3. CASE Mode = "http"
  BY <1>3 DEF Http!IInv, Http!TypeOK, Http!Phase
<1>4. CASE Mode = "direct_read"
  BY <1>4 DEF DirectReadInv, DirectRead!TypeOK, DirectRead!Phase
<1> QED BY <1>1, <1>2, <1>3, <1>4

LEMMA StepsImplement == ModeInv /\ [Next]_vars => [Contract!Next]_(Contract!vars)
<1> SUFFICES ASSUME ModeInv, [Next]_vars
             PROVE  [Contract!Next]_(Contract!vars)
  OBVIOUS
<1>1. Mode' = Mode /\ ModeInv'
  BY StepsOfTheMode, StepsServe
<1>2. /\ Mode \in {"nats", "tcp"} => Phase = phase /\ Phase' = phase'
      /\ Mode = "http" => Phase = Http!Phase /\ Phase' = Http!Phase'
      /\ Mode = "direct_read" => Phase = DirectRead!Phase /\ Phase' = DirectRead!Phase'
  <2>1. PhaseFits /\ PhaseFits'
    BY <1>1, PhaseOfTheMode, PTL
  <2> QED BY <1>1, <2>1 DEF PhaseFits
<1>3. ASSUME [Tcp!Next]_(Tcp!vars), Mode \in {"nats", "tcp"}
      PROVE  [Contract!Next]_(Contract!vars)
  BY <1>2, <1>3 DEF Tcp!Next, Contract!Next, Tcp!vars, Contract!vars, Tcp!Ask, Contract!Ask,
     Tcp!Refuse, Contract!Refuse, Tcp!End, Contract!End, Tcp!Answer, Contract!Answer,
     Tcp!Fail, Contract!Fail, Tcp!Abandon, Contract!Abandon, Tcp!Decide, Contract!Decide,
     Tcp!Undecided, Contract!Undecided, Tcp!ResultOf, Contract!ResultOf, Tcp!Verdicts,
     Contract!Verdicts
<1>4. ASSUME [Http!Contract!Next]_(Http!Contract!vars), Mode = "http"
      PROVE  [Contract!Next]_(Contract!vars)
  BY <1>2, <1>4 DEF Http!Contract!Next, Contract!Next, Http!Contract!vars, Contract!vars,
     Http!Contract!Ask, Contract!Ask, Http!Contract!Refuse, Contract!Refuse,
     Http!Contract!End, Contract!End, Http!Contract!Answer, Contract!Answer,
     Http!Contract!Fail, Contract!Fail, Http!Contract!Abandon, Contract!Abandon,
     Http!Contract!Decide, Contract!Decide, Http!Contract!Undecided, Contract!Undecided,
     Http!Contract!ResultOf, Contract!ResultOf, Http!Contract!Verdicts, Contract!Verdicts
<1>5. ASSUME [DirectRead!Contract!Next]_(DirectRead!Contract!vars), Mode = "direct_read"
      PROVE  [Contract!Next]_(Contract!vars)
  BY <1>2, <1>5 DEF DirectRead!Contract!Next, Contract!Next, DirectRead!Contract!vars,
     Contract!vars, DirectRead!Contract!Ask, Contract!Ask, DirectRead!Contract!Refuse,
     Contract!Refuse, DirectRead!Contract!End, Contract!End, DirectRead!Contract!Answer,
     Contract!Answer, DirectRead!Contract!Fail, Contract!Fail, DirectRead!Contract!Abandon,
     Contract!Abandon, DirectRead!Contract!Decide, Contract!Decide,
     DirectRead!Contract!Undecided, Contract!Undecided, DirectRead!Contract!ResultOf,
     Contract!ResultOf, DirectRead!Contract!Verdicts, Contract!Verdicts
<1>6. CASE LookUpByNats
  BY <1>3, <1>6, NatsStep DEF LookUpByNats, Serving, ModeInv
<1>7. CASE LookUpByHttp
  BY <1>4, <1>7, HttpStep DEF LookUpByHttp, Serving, ModeInv
<1>8. CASE LookUpDirectly
  <2>1. CASE UNCHANGED DirectRead!vars
    BY <2>1 DEF DirectRead!vars, Contract!vars, Phase
  <2> QED BY <1>5, <1>8, <2>1, DirectReadImplements
          DEF LookUpDirectly, Serving, ModeInv, DirectRead!Next, DirectRead!Finished
<1>9. CASE LookUpByTcp
  BY <1>3, <1>9 DEF LookUpByTcp, Serving
<1>10. CASE UNCHANGED <<callVars, natsVars, httpVars, queryVars>>
  BY <1>10 DEF callVars, Contract!vars, Phase
<1> QED BY <1>6, <1>7, <1>8, <1>9, <1>10, StepsOfTheMode

(* src/control.rs, TunnelBackend: with whichever backend the settings      *)
(* select, the program answers a lookup with its own verdict or            *)
(* "unavailable", once.                                                    *)
THEOREM ProgramImplementsContract == Spec => Contract!Safety
<1>1. Init => Contract!Init
  BY SameOutcomes DEF Init, InitWith, DirectRead!Init, Contract!Init, Phase, Http!Awaiting,
     DirectRead!Awaiting, Contract!Undecided, Contract!NoResult, DirectRead!Undecided,
     DirectRead!NoResult
<1>2. Spec => []ModeInv
  BY InitServes, StepsServe, PTL DEF Spec
<1> QED BY <1>1, <1>2, StepsImplement, PTL DEF Spec, Contract!Safety

-----------------------------------------------------------------------------
(* What the contract itself implies, and the program therefore keeps.      *)

(* A verdict becomes a result.                                             *)
LEMMA VerdictsBecomeResults ==
    /\ \A v \in Contract!Verdicts :
          v # Contract!Undecided /\ Contract!ResultOf[v] \in Contract!Results
    /\ \A r \in Contract!Results : r # Contract!NoResult
    /\ {"rejected", "unavailable"} \subseteq Contract!Results
BY DEF Contract!Verdicts, Contract!Undecided, Contract!ResultOf, Contract!Results,
       Contract!BackendErrors, Contract!NoResult

(* The inductive invariant of the contract.                                *)
ContractInv == Contract!TypeOK /\ Contract!ResultIsOwn

(* No call has a result before it began.                                   *)
LEMMA ContractInit == Contract!Init => ContractInv
BY DEF Contract!Init, ContractInv, Contract!TypeOK, Contract!ResultIsOwn, Contract!Phases

(* A call of the contract ends once, with its own verdict or without.      *)
LEMMA ContractStep ==
    ContractInv /\ [Contract!Next]_(Contract!vars) => ContractInv'
<1> SUFFICES ASSUME ContractInv, [Contract!Next]_(Contract!vars) PROVE ContractInv'
  OBVIOUS
<1> USE VerdictsBecomeResults
    DEF ContractInv, Contract!TypeOK, Contract!ResultIsOwn, Contract!Phases
<1>1. ASSUME NEW l \in Lookups, Contract!Ask(l) PROVE ContractInv'
  BY <1>1 DEF Contract!Ask
<1>2. ASSUME NEW l \in Lookups, Contract!Refuse(l) PROVE ContractInv'
  BY <1>2 DEF Contract!Refuse
<1>3. ASSUME NEW l \in Lookups, Contract!End(l) PROVE ContractInv'
  BY <1>3 DEF Contract!End, Contract!Answer, Contract!Fail, Contract!Abandon
<1>4. ASSUME NEW l \in Lookups, NEW v \in Contract!Verdicts, Contract!Decide(l, v)
      PROVE  ContractInv'
  BY <1>4 DEF Contract!Decide
<1>5. CASE UNCHANGED Contract!vars
  BY <1>5 DEF Contract!vars
<1> QED BY <1>1, <1>2, <1>3, <1>4, <1>5 DEF Contract!Next

(* With any backend, what a lookup returns to its handler is the verdict   *)
(* about it, "unavailable", or the refusal of a call that no authority     *)
(* ever saw.                                                               *)
THEOREM ProgramReturnsOwnResults == Spec => []Contract!ResultIsOwn
<1>1. Contract!Safety => []ContractInv
  BY ContractInit, ContractStep, PTL DEF Contract!Safety
<1>2. ContractInv => Contract!ResultIsOwn
  BY DEF ContractInv
<1> QED BY <1>1, <1>2, ProgramImplementsContract, PTL

(* And it returns once: no retry, late reply or release of a connection    *)
(* changes what was returned or decided, or revives a call that ended.     *)
THEOREM ProgramTakesNothingBack == Spec => Contract!NothingIsTakenBack
<1> DEFINE Kept == \A l \in Lookups :
          /\ verdict[l] # Contract!Undecided => verdict'[l] = verdict[l]
          /\ result[l] # Contract!NoResult => result'[l] = result[l]
          /\ Phase[l] \in {"refused", "done", "gone"} => Phase'[l] = Phase[l]
<1>1. Contract!Safety => []ContractInv
  BY ContractInit, ContractStep, PTL DEF Contract!Safety
<1>2. ContractInv /\ [Contract!Next]_(Contract!vars) => [Kept]_(Contract!vars)
  <2> SUFFICES ASSUME ContractInv, Contract!Next PROVE Kept
    OBVIOUS
  <2> USE DEF ContractInv, Contract!TypeOK, Contract!ResultIsOwn
  <2>1. ASSUME NEW l \in Lookups, Contract!Ask(l) \/ Contract!Refuse(l) \/ Contract!End(l)
        PROVE  Kept
    BY <2>1 DEF Contract!Ask, Contract!Refuse, Contract!End, Contract!Answer, Contract!Fail,
                Contract!Abandon
  <2>2. ASSUME NEW l \in Lookups, NEW v \in Contract!Verdicts, Contract!Decide(l, v)
        PROVE  Kept
    BY <2>2 DEF Contract!Decide
  <2> QED BY <2>1, <2>2 DEF Contract!Next
<1> QED BY <1>1, <1>2, ProgramImplementsContract, PTL
        DEF Contract!Safety, Contract!NothingIsTakenBack
=============================================================================
