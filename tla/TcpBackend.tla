----------------------------- MODULE TcpBackend -----------------------------
(***************************************************************************)
(* The tcp mode of ftnl-control-web (src/control.rs, TcpBackend): every    *)
(* lookup of every request shares one connection to the File Tunnel API, a *)
(* tokio Mutex<Framed<TcpStream, LinesCodec>>.  A lookup takes the lock,   *)
(* writes one line, reads one line, and decides from that line; each of    *)
(* the two exchanges has three seconds.  The connection is never replaced  *)
(* and nothing on it is ever thrown away, so what a lookup leaves behind   *)
(* (a line not yet written, an answer not yet read) is met by the next.    *)
(*                                                                         *)
(* Modelled from the code: the lock and its queue, the send, the receive,  *)
(* their deadlines, the dropping of a handler whose client went away, and  *)
(* the decoding of the line.  External: the API at the other end, the      *)
(* TCP stream, and what Framed and the tokio Mutex do when used that way.  *)
(* A tunnel id, the JSON and the request id are abstracted to the lookup   *)
(* itself: request ids are fresh per lookup.                               *)
(***************************************************************************)
EXTENDS LookupOutcomes, Naturals, SequencesExt, FiniteSets

CONSTANTS
    Lookups,                \* the calls of lookup, one per request
    NoOne,                  \* not a lookup
    HeaderBytes,            \* the sizes of Authorization header to try
    Escaped,                \* how many of its characters JSON may escape
    ServerVerdicts,         \* the verdicts the API may reach
    MAX_AUTHORIZATION_BYTES,
    MAX_FRAME_BYTES,
    BackpressureFrames      \* lines Framed buffers before it insists on
                            \* writing them (its 8 KiB boundary)

ASSUME LookupsAssumption == NoOne \notin Lookups
ASSUME SizesAssumption ==
    /\ HeaderBytes \subseteq Nat
    /\ Escaped \subseteq Nat
    /\ MAX_AUTHORIZATION_BYTES \in Nat
    /\ MAX_FRAME_BYTES \in Nat
    /\ BackpressureFrames \in Nat \ {0}
ASSUME VerdictsAssumption == ServerVerdicts \subseteq Verdicts

VARIABLES
    pc,         \* where each call of lookup is
    bytes,      \* the size of its authorization, as JSON
    owner,      \* who holds the MutexGuard, or NoOne
    waiters,    \* the calls suspended in lock().await, first come first
    wbuf,       \* lines encoded into Framed's write buffer, not all written
    atServer,   \* lookups whose line the API has read and not answered
    verdict,    \* what the API decided about each lookup
    inbound,    \* reply lines the API sent that no lookup has read
    stream,     \* Framed's read state
    peer,       \* the API's end of the connection
    result      \* what each call returned

callVars   == <<pc, bytes, result>>
lockVars   == <<owner, waiters>>
serverVars == <<atServer, verdict, peer>>
vars == <<callVars, lockVars, wbuf, serverVars, inbound, stream>>

(***************************************************************************)
(* "feeding" awaits room in the write buffer, "flushing" the write of all  *)
(* of it, "receiving" a line; the last three are ends: returned, rejected  *)
(* by validate_authorization, dropped with its handler.                    *)
(***************************************************************************)
Holding  == {"feeding", "flushing", "receiving"}
Awaiting == {"waiting"} \union Holding
Ended    == {"done", "gone"}
Phases   == {"idle", "refused"} \union Awaiting \union Ended

(* A reply line.  id is the request it names, or NoOne when it names none  *)
(* (an error without request_id, malformed JSON); a line that is longer    *)
(* than 16 KiB or not UTF-8 is unreadable.                                 *)
Replies == [id : Lookups \union {NoOne}, verdict : Verdicts, readable : BOOLEAN]

Reply(l, v)  == [id |-> l,     verdict |-> v,       readable |-> TRUE]
AnonymousReply == [id |-> NoOne, verdict |-> "other", readable |-> TRUE]
UnreadableReply == [id |-> NoOne, verdict |-> "other", readable |-> FALSE]

(* Wrong on purpose: a client that trusts the order of the lines, and one  *)
(* that hands on the API's word as it is.                                  *)
DecodeReplyInOrder(frame, l) == ResultOf[frame.verdict]
DecodeReplyVerbatim(frame, l) == IF frame.id = l THEN frame.verdict ELSE "unavailable"

(* decode_reply: only the line that names this request is believed.        *)
DecodeReply(frame, l) ==
    IF frame.id = l THEN ResultOf[frame.verdict] ELSE "unavailable"

(* validate_authorization                                                  *)
ValidAuthorization(n, bearer) == n <= MAX_AUTHORIZATION_BYTES /\ bearer

(* The JSON of ReadEnvelope.  Quotes, backslashes and tabs, all of them    *)
(* let through by to_str and validate_authorization, take two bytes each;  *)
(* around the authorization are the three keys, a request id of 32         *)
(* hexadecimal digits and a tunnel id of 36 characters.                    *)
JsonBytes(n, escaped) == n + escaped
LineBytes(json) == json + 119

TypeOK ==
    /\ pc \in [Lookups -> Phases]
    /\ bytes \in [Lookups -> Nat]
    /\ owner \in Lookups \union {NoOne}
    /\ waiters \in Seq(Lookups)
    /\ wbuf \in Seq(Lookups)
    /\ atServer \in SUBSET Lookups
    /\ verdict \in [Lookups -> Verdicts \union {Undecided}]
    /\ inbound \in Seq(Replies)
    /\ stream \in {"clean", "errored", "paused"}
    /\ peer \in {"open", "closed"}
    /\ result \in [Lookups -> Results \union {NoResult}]

(* TcpBackend::connect succeeded: the program does not start otherwise.    *)
Init ==
    /\ pc = [l \in Lookups |-> "idle"]
    /\ bytes = [l \in Lookups |-> 0]
    /\ owner = NoOne
    /\ waiters = <<>>
    /\ wbuf = <<>>
    /\ atServer = {}
    /\ verdict = [l \in Lookups |-> Undecided]
    /\ inbound = <<>>
    /\ stream = "clean"
    /\ peer = "open"
    /\ result = [l \in Lookups |-> NoResult]

-----------------------------------------------------------------------------
(* The call, up to the lock.                                               *)

Ask(l, n, bearer) ==
    /\ pc[l] = "idle"
    /\ ValidAuthorization(n, bearer)
    /\ pc' = [pc EXCEPT ![l] = "waiting"]
    /\ \E escaped \in Escaped :
          /\ escaped + 7 <= n          \* "Bearer " has nothing to escape
          /\ bytes' = [bytes EXCEPT ![l] = JsonBytes(n, escaped)]
    /\ waiters' = Append(waiters, l)
    /\ UNCHANGED <<owner, wbuf, serverVars, inbound, stream, result>>

Refuse(l, n, bearer) ==
    /\ pc[l] = "idle"
    /\ ~ValidAuthorization(n, bearer)
    /\ pc' = [pc EXCEPT ![l] = "refused"]
    /\ result' = [result EXCEPT ![l] = "rejected"]
    /\ UNCHANGED <<bytes, lockVars, wbuf, serverVars, inbound, stream>>

(* tokio's Mutex hands the permit to the longest waiter.                   *)
Acquire(l) ==
    /\ owner = NoOne
    /\ waiters # <<>>
    /\ Head(waiters) = l
    /\ owner' = l
    /\ waiters' = Tail(waiters)
    /\ pc' = [pc EXCEPT ![l] = "feeding"]
    /\ UNCHANGED <<bytes, wbuf, serverVars, inbound, stream, result>>

(* The end of a call that holds the lock: the guard is dropped with it.    *)
Return(l, r) ==
    /\ pc' = [pc EXCEPT ![l] = "done"]
    /\ result' = [result EXCEPT ![l] = r]
    /\ owner' = NoOne
    /\ UNCHANGED <<bytes, waiters>>

-----------------------------------------------------------------------------
(* timeout(3 s, framed.send(payload)): poll_ready, start_send, poll_flush. *)

BackPressured == Len(wbuf) >= BackpressureFrames

Feed(l) ==
    /\ pc[l] = "feeding"
    /\ ~BackPressured
    /\ wbuf' = Append(wbuf, l)
    /\ pc' = [pc EXCEPT ![l] = "flushing"]
    /\ UNCHANGED <<bytes, lockVars, serverVars, inbound, stream, result>>

(* Framed writes only while some call polls it: to make room, or to flush. *)
Writing(l) ==
    \/ pc[l] = "flushing"
    \/ pc[l] = "feeding" /\ BackPressured

(* One more line is written out.  To a closed peer it is written in vain.  *)
Flush(l) ==
    /\ Writing(l)
    /\ wbuf # <<>>
    /\ wbuf' = Tail(wbuf)
    /\ atServer' = IF peer = "open" THEN atServer \union {Head(wbuf)} ELSE atServer
    /\ UNCHANGED <<callVars, lockVars, verdict, peer, inbound, stream>>

(* Wrong on purpose: a guard that is dropped once the line is out.         *)
SentUnlocks(l) ==
    /\ pc[l] = "flushing"
    /\ wbuf = <<>>
    /\ pc' = [pc EXCEPT ![l] = "receiving"]
    /\ owner' = NoOne
    /\ UNCHANGED <<bytes, result, waiters, wbuf, serverVars, inbound, stream>>

Sent(l) ==
    /\ pc[l] = "flushing"
    /\ wbuf = <<>>
    /\ pc' = [pc EXCEPT ![l] = "receiving"]
    /\ UNCHANGED <<bytes, result, lockVars, wbuf, serverVars, inbound, stream>>

(* Wrong on purpose: a send that is tried again when its deadline passes.  *)
SendFailsRetries(l) ==
    /\ Writing(l)
    /\ wbuf # <<>>
    /\ pc' = [pc EXCEPT ![l] = "feeding"]
    /\ UNCHANGED <<bytes, result, lockVars, wbuf, serverVars, inbound, stream>>

(* The deadline passes, or the write fails, before all of it is written:   *)
(* the line stays in the buffer.                                           *)
SendFails(l) ==
    /\ Writing(l)
    /\ wbuf # <<>>
    /\ Return(l, "unavailable")
    /\ UNCHANGED <<wbuf, serverVars, inbound, stream>>

-----------------------------------------------------------------------------
(* timeout(3 s, framed.next()), and decode_reply.                          *)

(* Wrong on purpose: a reader that throws away what else has arrived.      *)
ReadReplyDrains(l) ==
    /\ pc[l] = "receiving"
    /\ stream \in {"clean", "paused"}
    /\ inbound # <<>>
    /\ Head(inbound).readable
    /\ Return(l, DecodeReply(Head(inbound), l))
    /\ inbound' = <<>>
    /\ stream' = "clean"
    /\ UNCHANGED <<wbuf, serverVars>>

(* The next line, whoever it answers, ends the call.                       *)
ReadReply(l) ==
    /\ pc[l] = "receiving"
    /\ stream \in {"clean", "paused"}
    /\ inbound # <<>>
    /\ Head(inbound).readable
    /\ Return(l, DecodeReply(Head(inbound), l))
    /\ inbound' = Tail(inbound)
    /\ stream' = "clean"
    /\ UNCHANGED <<wbuf, serverVars>>

(* LinesCodec refuses the line: Some(Err).                                 *)
ReadUnreadable(l) ==
    /\ pc[l] = "receiving"
    /\ stream \in {"clean", "paused"}
    /\ inbound # <<>>
    /\ ~Head(inbound).readable
    /\ Return(l, "unavailable")
    /\ inbound' = Tail(inbound)
    /\ stream' = "errored"
    /\ UNCHANGED <<wbuf, serverVars>>

(* After an error Framed answers None once, and then decodes what it has   *)
(* buffered only when more bytes arrive ("paused").                        *)
ReadAfterError(l) ==
    /\ pc[l] = "receiving"
    /\ stream = "errored"
    /\ Return(l, "unavailable")
    /\ stream' = "paused"
    /\ UNCHANGED <<wbuf, serverVars, inbound>>

(* Wrong on purpose: no deadline, only the end of the stream.              *)
ReadNothingAtEof(l) ==
    /\ pc[l] = "receiving"
    /\ peer = "closed"
    /\ inbound = <<>>
    /\ Return(l, "unavailable")
    /\ UNCHANGED <<wbuf, serverVars, inbound, stream>>

(* No line to be read: the deadline passes, or the peer is gone.  A line   *)
(* that has arrived wins over the deadline: timeout polls its future first.*)
ReadNothing(l) ==
    /\ pc[l] = "receiving"
    /\ \/ stream = "clean" /\ inbound = <<>>
       \/ stream = "paused"
    /\ Return(l, "unavailable")
    /\ UNCHANGED <<wbuf, serverVars, inbound, stream>>

-----------------------------------------------------------------------------
(* The client of the request went away: axum drops the handler's future at *)
(* whichever await it is suspended.                                        *)

CancelWaiting(l) ==
    /\ pc[l] = "waiting"
    /\ \E i \in DOMAIN waiters :
          /\ waiters[i] = l
          /\ waiters' = RemoveAt(waiters, i)
    /\ pc' = [pc EXCEPT ![l] = "gone"]
    /\ UNCHANGED <<bytes, result, owner, wbuf, serverVars, inbound, stream>>

CancelHolding(l) ==
    /\ pc[l] \in Holding
    /\ pc' = [pc EXCEPT ![l] = "gone"]
    /\ owner' = NoOne
    /\ UNCHANGED <<bytes, result, waiters, wbuf, serverVars, inbound, stream>>

-----------------------------------------------------------------------------
(* The File Tunnel API (external).  It answers the lines it read in any    *)
(* order, each at most once, and may lose one or hang up.                  *)

Answered(l, reply) ==
    /\ l \in atServer
    /\ atServer' = atServer \ {l}
    /\ inbound' = Append(inbound, reply)
    /\ UNCHANGED <<callVars, lockVars, wbuf, peer, stream>>

Decide(l, v) ==
    /\ Answered(l, Reply(l, v))
    /\ verdict' = [verdict EXCEPT ![l] = v]

AnswerBadly(l, reply) ==
    /\ Answered(l, reply)
    /\ UNCHANGED verdict

Lose(l) ==
    /\ l \in atServer
    /\ atServer' = atServer \ {l}
    /\ UNCHANGED <<callVars, lockVars, wbuf, verdict, peer, inbound, stream>>

(* What it had already sent may or may not still reach the reader.         *)
Close ==
    /\ peer = "open"
    /\ peer' = "closed"
    /\ atServer' = {}
    /\ inbound' \in {inbound, <<>>}
    /\ UNCHANGED <<callVars, lockVars, wbuf, verdict, stream>>

Server ==
    \/ \E l \in Lookups :
          \/ \E v \in ServerVerdicts : Decide(l, v)
          \/ \E reply \in {AnonymousReply, UnreadableReply} : AnswerBadly(l, reply)
          \/ Lose(l)
    \/ Close

-----------------------------------------------------------------------------
Send(l)    == Feed(l) \/ Flush(l) \/ Sent(l) \/ SendFails(l)
Receive(l) == ReadReply(l) \/ ReadUnreadable(l) \/ ReadAfterError(l) \/ ReadNothing(l)
Cancel(l)  == CancelWaiting(l) \/ CancelHolding(l)

Lookup(l) ==
    \/ \E n \in HeaderBytes, bearer \in BOOLEAN : Ask(l, n, bearer) \/ Refuse(l, n, bearer)
    \/ Acquire(l)
    \/ Send(l)
    \/ Receive(l)
    \/ Cancel(l)

(* Every request was served and nothing is left to do.                     *)
Finished ==
    /\ \A l \in Lookups : pc[l] \in Ended \union {"refused"}
    /\ UNCHANGED vars

Next == (\E l \in Lookups : Lookup(l)) \/ Server \/ Finished

Safety == Init /\ [][Next]_vars

(* The runtime polls a task that can go on and fires the deadlines; it     *)
(* obliges neither a client to ask or leave nor the API to answer.         *)
Fairness ==
    \A l \in Lookups :
        WF_vars(Acquire(l)) /\ WF_vars(Send(l)) /\ WF_vars(Receive(l))

Spec == Safety /\ Fairness
=============================================================================
