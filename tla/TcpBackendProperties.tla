------------------------ MODULE TcpBackendProperties ------------------------
(***************************************************************************)
(* What must hold of the shared connection of TcpBackend, and the abstract *)
(* specification it implements.                                            *)
(***************************************************************************)
EXTENDS TcpBackend, Integers

(* The lock is held by exactly the calls that are between lock().await and *)
(* the drop of the guard: never by two, never by one that has returned or  *)
(* was dropped; and exactly the suspended calls are queued, each once, so  *)
(* the permit is never handed to a call that is no longer there.           *)
LockDiscipline ==
    /\ \A l \in Lookups : pc[l] \in Holding <=> owner = l
    /\ \A l \in Lookups : pc[l] = "waiting" <=> l \in ToSet(waiters)
    /\ IsInjective(waiters)

(* Whose lines are on the connection: to be written, at the API, answered. *)
Named(lines) == {lines[i].id : i \in DOMAIN lines} \ {NoOne}
Unwritten    == ToSet(wbuf)
AnswersFor   == Named(inbound)
OnConnection == Unwritten \union atServer \union AnswersFor

OnceEach(lines) ==
    \A i, j \in DOMAIN lines : lines[i].id = lines[j].id /\ lines[i].id # NoOne => i = j

(* A lookup puts one line on the connection in its life: whatever a        *)
(* deadline interrupts, no call sends its line again, so the API is asked  *)
(* at most once and no answer arrives twice.                               *)
OneLinePerLookup ==
    /\ IsInjective(wbuf)
    /\ OnceEach(inbound)
    /\ Unwritten \intersect atServer = {}
    /\ (Unwritten \union atServer) \intersect AnswersFor = {}
    /\ \A l \in Unwritten \union atServer : verdict[l] = Undecided

(* A call returns what the API decided about its own request, or           *)
(* "unavailable": never the answer of the request before it on the         *)
(* connection, however late that answer comes.                             *)
OnlyOwnVerdict ==
    \A l \in Lookups :
        \/ result[l] \in {NoResult, "unavailable"}
        \/ result[l] = "rejected" /\ pc[l] = "refused"
        \/ pc[l] = "done" /\ verdict[l] # Undecided /\ result[l] = ResultOf[verdict[l]]

(* What the connection holds for anyone but the call using it was left     *)
(* behind by calls that failed: dropped with their handler, or returned    *)
(* with "unavailable".  A call that is still waiting for the lock or was   *)
(* refused has nothing on the wire, and one that returned an answer has    *)
(* nothing there that could still come.                                    *)
LeftoversAreOfFailedCalls ==
    \A l \in OnConnection :
        l = owner \/ pc[l] = "gone" \/ (pc[l] = "done" /\ result[l] = "unavailable")

(* A call that has not fed its line into Framed is unknown to the API: the *)
(* authority decides nothing for a request that was refused, that still    *)
(* waits for the lock, or whose client left before its turn came.          *)
Unsent == {"idle", "refused", "waiting", "feeding"}
UnsentIsUnknown ==
    \A l \in Lookups :
        pc[l] \in Unsent => l \notin OnConnection /\ verdict[l] = Undecided

(* The answers under way say what the API decided.                         *)
AnswersAreTruthful ==
    \A i \in DOMAIN inbound :
        inbound[i].id # NoOne => inbound[i].verdict = verdict[inbound[i].id]

(* The inductive invariant the properties above follow from.               *)
IInv ==
    /\ TypeOK
    /\ LockDiscipline
    /\ OneLinePerLookup
    /\ UnsentIsUnknown
    /\ AnswersAreTruthful
    /\ OnlyOwnVerdict

(* The lines on the connection beyond the one its present user put there.  *)
Users   == {l \in Lookups : pc[l] \in {"flushing", "receiving"}}
Backlog == Len(wbuf) + Cardinality(atServer) + Len(inbound) - Cardinality(Users)

(* A call takes at most one line off the connection for the one it put on, *)
(* so the backlog never shrinks unless the API loses or drops a line: once *)
(* a call gave up on an answer that still comes, the connection stays one  *)
(* line behind for good.                                                   *)
BacklogNeverDrains ==
    [][\/ Backlog' >= Backlog
       \/ \E l \in Lookups : Lose(l)
       \/ peer' = "closed"]_vars

(* A call that was admitted returns or is dropped: the queue for the lock  *)
(* always moves, whatever the API and the callers do.                      *)
EveryLookupEnds ==
    \A l \in Lookups : pc[l] = "waiting" ~> pc[l] \in Ended

-----------------------------------------------------------------------------
(* Two statements the program or its documentation makes, and the code     *)
(* does not keep.                                                          *)

(* "The authority required to decide this request is unavailable"          *)
(* (src/control.rs, ControlError): a call that read a line and returns     *)
(* "unavailable" has no answer of its own waiting on the connection.       *)
UnavailableMeansUnanswered ==
    [][\A l \in Lookups :
          pc[l] = "receiving" /\ pc'[l] = "done" /\ result'[l] = "unavailable"
              => l \notin AnswersFor \/ verdict[l] = "other"]_vars

(* "one reused 16 KiB newline-framed connection" (docs/control-web.md):    *)
(* every line written fits in MAX_FRAME_BYTES.                             *)
LinesFitTheConnection ==
    \A l \in Unwritten \union atServer : LineBytes(bytes[l]) <= MAX_FRAME_BYTES

-----------------------------------------------------------------------------
(* The trait's contract: the four phases of an admitted call are one.      *)
Contract ==
    INSTANCE TunnelBackend WITH
        phase <- [l \in Lookups |-> IF pc[l] \in Awaiting THEN "open" ELSE pc[l]]

(* The tcp backend is a TunnelBackend.                                     *)
ImplementsTunnelBackend == Contract!Spec
=============================================================================
