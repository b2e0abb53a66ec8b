-------------------------- MODULE DirectReadBackend --------------------------
(***************************************************************************)
(* The direct_read mode of ftnl-control-web (src/control.rs,               *)
(* DirectReadBackend): a lookup is one SELECT of the row that has the      *)
(* requested tunnel and the verified actor, over a pool of connections.    *)
(* The authorization header plays no part, and the query has no deadline.  *)
(*                                                                         *)
(* External: the pool, which gives up acquiring after a while and keeps a  *)
(* connection busy until the query on it has ended, whoever still waits    *)
(* for that; and the database, whose view does not change here.            *)
(***************************************************************************)
EXTENDS LookupOutcomes, FiniteSets, Naturals

CONSTANTS
    Lookups,        \* the calls of lookup
    Tunnels, Actors,
    PoolSize        \* connections the pool may open

VARIABLES
    phase,      \* where each call of lookup is
    query,      \* the tunnel and the actor it asks for
    verdict,    \* what the database answered
    result,     \* what it returned
    busy,       \* the calls whose query occupies a connection
    view        \* account_tunnel_summaries: who owns which tunnel

vars == <<phase, query, verdict, result, busy, view>>

Queries == [tunnel : Tunnels, actor : Actors]

Awaiting == {"acquiring", "querying"}

TypeOK ==
    /\ phase \in [Lookups -> {"idle", "done", "gone"} \union Awaiting]
    /\ query \in [Lookups -> Queries]
    /\ verdict \in [Lookups -> Verdicts \union {Undecided}]
    /\ result \in [Lookups -> Results \union {NoResult}]
    /\ busy \in SUBSET Lookups
    /\ view \in SUBSET Queries

Init ==
    /\ phase = [l \in Lookups |-> "idle"]
    /\ query \in [Lookups -> Queries]
    /\ verdict = [l \in Lookups |-> Undecided]
    /\ result = [l \in Lookups |-> NoResult]
    /\ busy = {}
    /\ view \in SUBSET Queries

-----------------------------------------------------------------------------
Ask(l) ==
    /\ phase[l] = "idle"
    /\ phase' = [phase EXCEPT ![l] = "acquiring"]
    /\ UNCHANGED <<query, verdict, result, busy, view>>

Return(l, r) ==
    /\ phase' = [phase EXCEPT ![l] = "done"]
    /\ result' = [result EXCEPT ![l] = r]
    /\ busy' = busy \ {l}
    /\ UNCHANGED <<query, verdict, view>>

Acquire(l) ==
    /\ phase[l] = "acquiring"
    /\ Cardinality(busy) < PoolSize
    /\ busy' = busy \union {l}
    /\ phase' = [phase EXCEPT ![l] = "querying"]
    /\ UNCHANGED <<query, verdict, result, view>>

(* Wrong on purpose: a pool that only fails to open connections.           *)
AcquireFailsToConnect(l) ==
    /\ phase[l] = "acquiring"
    /\ Cardinality(busy) < PoolSize
    /\ Return(l, "unavailable")

(* The pool's own deadline for acquiring, or a connection it cannot open.  *)
AcquireFails(l) ==
    /\ phase[l] = "acquiring"
    /\ Return(l, "unavailable")

(* query_one: a row with a status of the six, no row, or a row that cannot *)
(* be read.                                                                *)
ReadRow(l) ==
    /\ phase[l] = "querying"
    /\ verdict[l] # Undecided
    /\ Return(l, ResultOf[verdict[l]])

(* The database refuses the query or the connection breaks.                *)
QueryFails(l) ==
    /\ phase[l] = "querying"
    /\ Return(l, "unavailable")

(* The handler is dropped with its client's connection; what it queries    *)
(* goes on.                                                                *)
Cancel(l) ==
    /\ phase[l] \in Awaiting
    /\ phase' = [phase EXCEPT ![l] = "gone"]
    /\ UNCHANGED <<query, verdict, result, busy, view>>

-----------------------------------------------------------------------------
(* The database, and the pool behind a call that was dropped (external).   *)

(* Wrong on purpose: a projection that is not filtered by its owner.       *)
RowsOfAnyone(q) == {row \in view : row.tunnel = q.tunnel}

(* WHERE tunnel_id = ... AND shared_user_id = ...                          *)
Rows(q) == {row \in view : row = q}

Execute(l) ==
    /\ l \in busy
    /\ verdict[l] = Undecided
    /\ \E v \in IF Rows(query[l]) = {} THEN {"not_found"} ELSE {"ok", "other"} :
          verdict' = [verdict EXCEPT ![l] = v]
    /\ UNCHANGED <<phase, query, result, busy, view>>

Release(l) ==
    /\ phase[l] = "gone"
    /\ l \in busy
    /\ verdict[l] # Undecided
    /\ busy' = busy \ {l}
    /\ UNCHANGED <<phase, query, verdict, result, view>>

-----------------------------------------------------------------------------
Progress(l) == Acquire(l) \/ AcquireFails(l) \/ ReadRow(l)

Lookup(l) == Ask(l) \/ Progress(l) \/ QueryFails(l) \/ Cancel(l)

Database(l) == Execute(l) \/ Release(l)

(* Every request was served and nothing is left to do.                     *)
Finished ==
    /\ \A l \in Lookups : phase[l] \in {"done", "gone"}
    /\ UNCHANGED vars

Next == (\E l \in Lookups : Lookup(l) \/ Database(l)) \/ Finished

(* tokio polls what is ready, and the pool fires its deadline.             *)
Fairness == \A l \in Lookups : WF_vars(Progress(l))

(* The database executes every query, and the pool takes back what nobody  *)
(* waits for.                                                              *)
DatabaseAnswers == \A l \in Lookups : WF_vars(Database(l))

Spec == Init /\ [][Next]_vars /\ Fairness

-----------------------------------------------------------------------------
(* A lookup finds a tunnel exactly if the verified actor owns it: it never *)
(* returns the row of someone else's tunnel, nor misses the actor's own.   *)
OnlyTheActorsRows ==
    \A l \in Lookups :
        /\ result[l] = "ok" => query[l] \in view
        /\ result[l] = "not_found" => query[l] \notin view

(* However many queries hang, a lookup does not wait for a connection for  *)
(* ever.                                                                   *)
WaitersGiveUp ==
    \A l \in Lookups : phase[l] = "acquiring" ~> phase[l] # "acquiring"

(* The direct_read backend is a TunnelBackend, but for one thing: its      *)
(* lookups end only if the database answers.                               *)
Phase == [l \in Lookups |-> IF phase[l] \in Awaiting THEN "open" ELSE phase[l]]
Contract == INSTANCE TunnelBackend WITH phase <- Phase
ImplementsTunnelBackend == Contract!Safety /\ (DatabaseAnswers => Contract!Fairness)
=============================================================================
