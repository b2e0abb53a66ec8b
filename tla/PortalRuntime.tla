---------------------------- MODULE PortalRuntime ----------------------------
(***************************************************************************)
(* One life of the process ftnl-web-server (src/runtime.rs, run): flags,   *)
(* tracing, telemetry, configuration, listener, serving, graceful          *)
(* shutdown, against the signals that may arrive at any moment of it.      *)
(*                                                                         *)
(* External: the kernel (connections wait in the listener's backlog until  *)
(* accept; a signal without a handler kills, unless the process is PID 1,  *)
(* which it passes by), axum::serve, and the clients.  Requests are        *)
(* answered by handlers without state.                                     *)
(***************************************************************************)
EXTENDS Sequences

CONSTANT Requests       \* connections with one request each

VARIABLES
    stage,
    exit,               \* what run() returned
    telemetry,          \* the logger
    events,             \* the lifecycle events it was sent
    handler,            \* tokio's SIGINT handler is installed
    signaled,           \* the future of shutdown() has completed
    request,
    pid1,               \* the process is the container's first
    terminated          \* SIGTERM was sent

process  == <<stage, exit, telemetry, events>>
signals  == <<handler, signaled, pid1, terminated>>
vars     == <<process, signals, request>>

Over  == {"exited", "killed"}
Alive == stage \notin Over

(* What a life of the process may have logged.                             *)
Lifecycles ==
    {<<>>, <<"starting">>, <<"starting", "bind_failed">>,
     <<"starting", "listening">>, <<"starting", "listening", "stopped">>}

(* The log of a process is a prefix of one of its lives, each event once.  *)
TypeOK ==
    /\ stage \in {"starting", "config", "binding", "serving", "draining"} \union Over
    /\ exit \in {"none", "ok", "error"}
    /\ telemetry \in {"none", "open", "closed"}
    /\ events \in Lifecycles
    /\ {handler, signaled, pid1, terminated} \subseteq BOOLEAN
    /\ request \in [Requests -> {"none", "queued", "active", "answered", "left", "cut"}]

Init ==
    /\ stage = "starting"
    /\ exit = "none"
    /\ telemetry = "none"
    /\ events = <<>>
    /\ handler = FALSE
    /\ signaled = FALSE
    /\ request = [r \in Requests |-> "none"]
    /\ pid1 \in BOOLEAN
    /\ terminated = FALSE

Active == {r \in Requests : request[r] = "active"}

(* What becomes of the requests in states S when the process lets go.      *)
Cutting(S) == [r \in Requests |-> IF request[r] \in S THEN "cut" ELSE request[r]]

(* observability::event(...).send() and failure(...).send()                *)
Log(event) == events' = Append(events, event)

Exit(code) ==
    /\ stage' = "exited"
    /\ exit' = code

-----------------------------------------------------------------------------
(* Up to the listener.                                                     *)

(* --help and --version; a contract, an option or a log filter that is     *)
(* invalid.                                                                *)
ExitEarly ==
    /\ stage = "starting"
    /\ \E code \in {"ok", "error"} : Exit(code)
    /\ UNCHANGED <<telemetry, events, signals, request>>

OpenTelemetry ==
    /\ stage = "starting"
    /\ stage' = "config"
    /\ telemetry' = "open"
    /\ Log("starting")
    /\ UNCHANGED <<exit, signals, request>>

(* RuntimeConfig::from_flags()?                                            *)
ConfigInvalid ==
    /\ stage = "config"
    /\ Exit("error")
    /\ UNCHANGED <<telemetry, events, signals, request>>

ConfigValid ==
    /\ stage = "config"
    /\ stage' = "binding"
    /\ UNCHANGED <<exit, telemetry, events, signals, request>>

(* Wrong on purpose: a bind that is tried again.                           *)
BindFailsRetrying ==
    /\ stage = "binding"
    /\ Log("bind_failed")
    /\ UNCHANGED <<stage, exit, telemetry, signals, request>>

BindFails ==
    /\ stage = "binding"
    /\ Log("bind_failed")
    /\ telemetry' = "closed"
    /\ Exit("error")
    /\ UNCHANGED <<signals, request>>

Bind ==
    /\ stage = "binding"
    /\ Log("listening")
    /\ stage' = "serving"
    /\ UNCHANGED <<exit, telemetry, signals, request>>

-----------------------------------------------------------------------------
(* axum::serve(...).with_graceful_shutdown(shutdown())                     *)

(* shutdown() is polled for the first time, in a task of its own.          *)
InstallHandler ==
    /\ stage = "serving"
    /\ ~handler /\ ~signaled
    /\ handler' = TRUE
    /\ UNCHANGED <<process, signaled, pid1, terminated, request>>

(* expect("failed to install Ctrl+C handler"): the task panics, and what   *)
(* it drops tells the server to shut down.                                 *)
InstallFails ==
    /\ stage = "serving"
    /\ ~handler /\ ~signaled
    /\ signaled' = TRUE
    /\ UNCHANGED <<process, handler, pid1, terminated, request>>

Connect(r) ==
    /\ stage = "serving"
    /\ request[r] = "none"
    /\ request' = [request EXCEPT ![r] = "queued"]
    /\ UNCHANGED <<process, signals>>

(* Until the loop sees the signal it may accept a connection instead.      *)
Accept(r) ==
    /\ stage = "serving"
    /\ request[r] = "queued"
    /\ request' = [request EXCEPT ![r] = "active"]
    /\ UNCHANGED <<process, signals>>

Finish(r, how) ==
    /\ stage \in {"serving", "draining"}
    /\ request[r] = "active"
    /\ request' = [request EXCEPT ![r] = how]
    /\ UNCHANGED <<process, signals>>

Answer(r) == Finish(r, "answered")
Leave(r)  == Finish(r, "left")

(* Wrong on purpose: a listener that stays open while the server drains,   *)
(* and a server that hangs up on everyone.                                 *)
BeginDrainListening ==
    /\ stage = "serving"
    /\ signaled
    /\ stage' = "draining"
    /\ UNCHANGED <<exit, telemetry, events, signals, request>>

BeginDrainCutting ==
    /\ stage = "serving"
    /\ signaled
    /\ stage' = "draining"
    /\ request' = Cutting({"queued", "active"})
    /\ UNCHANGED <<exit, telemetry, events, signals>>

(* The listener is closed, its backlog with it.                            *)
BeginDrain ==
    /\ stage = "serving"
    /\ signaled
    /\ stage' = "draining"
    /\ request' = Cutting({"queued"})
    /\ UNCHANGED <<exit, telemetry, events, signals>>

(* Wrong on purpose: a shutdown that does not wait, and one that waits for *)
(* clients who have left.                                                  *)
DrainedAtOnce ==
    /\ stage = "draining"
    /\ Log("stopped")
    /\ telemetry' = "closed"
    /\ Exit("ok")
    /\ UNCHANGED <<signals, request>>

DrainedByAnswers ==
    /\ stage = "draining"
    /\ \A r \in Requests : request[r] \in {"none", "answered", "cut"}
    /\ Log("stopped")
    /\ telemetry' = "closed"
    /\ Exit("ok")
    /\ UNCHANGED <<signals, request>>

Drained ==
    /\ stage = "draining"
    /\ Active = {}
    /\ Log("stopped")
    /\ telemetry' = "closed"
    /\ Exit("ok")
    /\ UNCHANGED <<signals, request>>

-----------------------------------------------------------------------------
(* Signals.                                                                *)

Die ==
    /\ stage' = "killed"
    /\ request' = Cutting({"queued", "active"})
    /\ UNCHANGED <<exit, telemetry, events>>

(* SIGINT.  Another one while the server drains changes nothing.           *)
Interrupt ==
    /\ Alive
    /\ \/ handler /\ signaled' = TRUE /\ UNCHANGED <<process, request>>
       \/ ~handler /\ ~pid1 /\ Die /\ UNCHANGED signaled
    /\ UNCHANGED <<handler, pid1, terminated>>

(* SIGTERM: run() waits for ctrl_c() only.                                 *)
Terminate ==
    /\ Alive
    /\ terminated' = TRUE
    /\ IF pid1 THEN UNCHANGED <<process, request>> ELSE Die
    /\ UNCHANGED <<handler, signaled, pid1>>

(* SIGKILL, when the orchestrator's patience after SIGTERM ends.           *)
Kill ==
    /\ Alive
    /\ terminated
    /\ Die
    /\ UNCHANGED signals

-----------------------------------------------------------------------------
Start == ExitEarly \/ OpenTelemetry \/ ConfigInvalid \/ ConfigValid \/ BindFails \/ Bind

Serve ==
    \/ InstallHandler
    \/ InstallFails
    \/ \E r \in Requests : Connect(r) \/ Accept(r) \/ Answer(r) \/ Leave(r)
    \/ BeginDrain
    \/ Drained

Signal == Interrupt \/ Terminate \/ Kill

Next == Start \/ Serve \/ Signal

Safety == Init /\ [][Next]_vars

(* The runtime goes on, SIGKILL comes, and a client that was accepted gets *)
(* its answer or leaves.  Nobody is obliged to signal.                     *)
Fairness ==
    /\ WF_vars(Start) /\ WF_vars(InstallHandler \/ InstallFails)
    /\ WF_vars(BeginDrain) /\ WF_vars(Drained)
    /\ \A r \in Requests : WF_vars(Accept(r)) /\ WF_vars(Answer(r) \/ Leave(r))
    /\ WF_vars(Kill)

Spec == Safety /\ Fairness

-----------------------------------------------------------------------------
Sent(event) == \E i \in DOMAIN events : events[i] = event

(* A process that listened exits by itself only when every accepted        *)
(* request is settled; it says so last, and closes its telemetry with      *)
(* nothing more to say.  (A bind address that is invalid returns before    *)
(* anything closes the logger.)                                            *)
ExitLeavesNothing ==
    /\ telemetry = "closed" => stage = "exited"
    /\ stage = "exited" =>
          /\ Active = {}
          /\ Sent("listening") => Sent("stopped") /\ telemetry = "closed"

(* An accepted request ends by an answer or its client's leaving; only the *)
(* death of the process cuts it.                                           *)
AcceptedAreServed ==
    [][\A r \in Requests :
          request[r] = "active" /\ request'[r] = "cut" => stage' = "killed"]_vars

(* A shut down server leaves no connection waiting in its backlog.         *)
NobodyWaitsForTheDead ==
    stage \in {"draining", "exited", "killed"} =>
        \A r \in Requests : request[r] # "queued"

(* A shutdown that has begun ends, whatever arrives meanwhile.             *)
ShutdownEnds == signaled ~> stage \in Over

(* "Application becomes PID 1 so docker stop / k8s SIGTERM reach it        *)
(* directly" (scripts/sops-entrypoint.sh:56) and "graceful shutdown"       *)
(* (RUNTIME.md:10): a server that is told to stop by SIGTERM drains.       *)
SigtermDrains == (terminated /\ stage = "serving") ~> stage \in {"draining", "exited"}
=============================================================================
