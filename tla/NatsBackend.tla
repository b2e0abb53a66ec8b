----------------------------- MODULE NatsBackend -----------------------------
(***************************************************************************)
(* The nats mode of ftnl-control-web (src/control.rs, NatsBackend): a      *)
(* lookup is one core NATS request with three seconds for its reply, and   *)
(* the reply is believed only if it names the request.                     *)
(*                                                                         *)
(* External: the client and the broker.  A request goes to at most one     *)
(* responder, at any time after it was made; a reply reaches the request   *)
(* whose inbox it was sent to, or nobody when that has ended; both may be  *)
(* lost.  The responder may answer with what no request asked for.         *)
(***************************************************************************)
EXTENDS LookupOutcomes

CONSTANT Lookups        \* the calls of lookup

VARIABLES
    phase,      \* where each call of lookup is
    verdict,    \* what the API decided about it
    result,     \* what it returned
    request,    \* its message: "none", under way ("sent"), or at its end
    reply       \* the reply on its way to its inbox

vars == <<phase, verdict, result, request, reply>>

(* Whether a reply names the request it answers, and not another or none.  *)
(* One that is larger than MAX_RESPONSE_BYTES, not UTF-8 or no WireReply   *)
(* is not usable.                                                          *)
Replies == [own : BOOLEAN, verdict : Verdicts, usable : BOOLEAN]
NoReply == [own |-> FALSE, verdict |-> "other", usable |-> FALSE]

TypeOK ==
    /\ phase \in [Lookups -> {"idle", "refused", "open", "done", "gone"}]
    /\ verdict \in [Lookups -> Verdicts \union {Undecided}]
    /\ result \in [Lookups -> Results \union {NoResult}]
    /\ request \in [Lookups -> {"none", "sent", "served"}]
    /\ reply \in [Lookups -> Replies]

Init ==
    /\ phase = [l \in Lookups |-> "idle"]
    /\ verdict = [l \in Lookups |-> Undecided]
    /\ result = [l \in Lookups |-> NoResult]
    /\ request = [l \in Lookups |-> "none"]
    /\ reply = [l \in Lookups |-> NoReply]

-----------------------------------------------------------------------------
(* valid is what validate_authorization says of the header.                *)
Ask(l, valid) ==
    /\ phase[l] = "idle"
    /\ valid
    /\ phase' = [phase EXCEPT ![l] = "open"]
    /\ request' = [request EXCEPT ![l] = "sent"]
    /\ UNCHANGED <<verdict, result, reply>>

Refuse(l, valid) ==
    /\ phase[l] = "idle"
    /\ ~valid
    /\ phase' = [phase EXCEPT ![l] = "refused"]
    /\ result' = [result EXCEPT ![l] = "rejected"]
    /\ UNCHANGED <<verdict, request, reply>>

Return(l, r) ==
    /\ phase[l] = "open"
    /\ phase' = [phase EXCEPT ![l] = "done"]
    /\ result' = [result EXCEPT ![l] = r]
    /\ UNCHANGED <<verdict, request>>

(* Wrong on purpose: the reply in one's inbox is taken for one's own.      *)
ReadReplyTrusting(l) ==
    /\ reply[l] # NoReply
    /\ Return(l, IF reply[l].usable THEN ResultOf[reply[l].verdict] ELSE "unavailable")
    /\ reply' = [reply EXCEPT ![l] = NoReply]

(* The reply arrives in time: size, UTF-8, decode_reply.                   *)
ReadReply(l) ==
    /\ reply[l] # NoReply
    /\ Return(l, IF reply[l].usable /\ reply[l].own
                 THEN ResultOf[reply[l].verdict]
                 ELSE "unavailable")
    /\ reply' = [reply EXCEPT ![l] = NoReply]

(* The deadline passes; the broker knows no responder; the client cannot   *)
(* send.                                                                   *)
RequestFails(l) ==
    /\ Return(l, "unavailable")
    /\ UNCHANGED reply

(* The handler is dropped with its client's connection.                    *)
Cancel(l) ==
    /\ phase[l] = "open"
    /\ phase' = [phase EXCEPT ![l] = "gone"]
    /\ UNCHANGED <<verdict, result, request, reply>>

-----------------------------------------------------------------------------
(* The responder takes the request, even when nobody waits any more, and   *)
(* decides; or it answers without deciding: an error without request_id,   *)
(* someone else's request_id, something unusable.                          *)
Decide(l, v) ==
    /\ request[l] = "sent"
    /\ request' = [request EXCEPT ![l] = "served"]
    /\ verdict' = [verdict EXCEPT ![l] = v]
    /\ reply' = [reply EXCEPT ![l] = [own |-> TRUE, verdict |-> v, usable |-> TRUE]]
    /\ UNCHANGED <<phase, result>>

AnswerBadly(l, bad) ==
    /\ request[l] = "sent"
    /\ bad # NoReply /\ ~bad.own
    /\ request' = [request EXCEPT ![l] = "served"]
    /\ reply' = [reply EXCEPT ![l] = bad]
    /\ UNCHANGED <<phase, verdict, result>>

Lose(l) ==
    /\ \/ request[l] = "sent"
       \/ reply[l] # NoReply
    /\ request' = [request EXCEPT ![l] = "served"]
    /\ reply' = [reply EXCEPT ![l] = NoReply]
    /\ UNCHANGED <<phase, verdict, result>>

-----------------------------------------------------------------------------
Progress(l) == ReadReply(l) \/ RequestFails(l)

End(l) == Progress(l) \/ Cancel(l)

Lookup(l) ==
    \/ \E valid \in BOOLEAN : Ask(l, valid) \/ Refuse(l, valid)
    \/ End(l)

Responder(l) ==
    \/ \E v \in Verdicts : Decide(l, v)
    \/ \E bad \in Replies : AnswerBadly(l, bad)
    \/ Lose(l)

(* Every request was served and nothing is left to do.                     *)
Finished ==
    /\ \A l \in Lookups : phase[l] \in {"done", "gone", "refused"}
    /\ UNCHANGED vars

Next == (\E l \in Lookups : Lookup(l) \/ Responder(l)) \/ Finished

(* tokio fires the deadline; the broker and the responder owe nothing.     *)
Fairness == \A l \in Lookups : WF_vars(Progress(l))

Spec == Init /\ [][Next]_vars /\ Fairness

-----------------------------------------------------------------------------
(* Late, lost, misdirected and garbled replies included, the nats backend  *)
(* is a TunnelBackend: its calls return their own verdict or               *)
(* "unavailable", and they end.                                            *)
Contract == INSTANCE TunnelBackend
ImplementsTunnelBackend == Contract!Spec

(* A reply that comes late is still the answer to its own request: what is *)
(* in an inbox and names its request is what the API decided of it.        *)
InboxIsTruthful ==
    \A l \in Lookups : reply[l].own => reply[l].verdict = verdict[l]

(* The invariant behind the refinement: a message is there only after the  *)
(* call, and a verdict or a reply only after the message was served.       *)
ServedAfterAsked ==
    \A l \in Lookups :
        /\ phase[l] \in {"idle", "refused"} => request[l] = "none"
        /\ request[l] # "served" => verdict[l] = Undecided /\ reply[l] = NoReply

IInv == TypeOK /\ InboxIsTruthful /\ ServedAfterAsked
=============================================================================
