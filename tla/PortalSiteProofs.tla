-------------------------- MODULE PortalSiteProofs --------------------------
(***************************************************************************)
(* Proofs, for any number of restarts and page loads, of the safety        *)
(* properties of the portal's process and of what its page gets from it,   *)
(* and, for every value of FTNL_API_ORIGIN, of the way it is encoded.      *)
(***************************************************************************)
EXTENDS PortalSite, SequenceTheorems, WellFoundedInduction, Integers, TLAPS

(* What the process has logged, and whether its logger is open, at each    *)
(* point of a life.                                                        *)
LogFollowsStage ==
    /\ stage = "starting" => telemetry = "none" /\ events = <<>>
    /\ stage \in {"config", "binding"} => telemetry = "open" /\ events = <<"starting">>
    /\ stage \in {"serving", "draining"} =>
          telemetry = "open" /\ events = <<"starting", "listening">>
    /\ stage = "exited" =>
          \/ telemetry # "closed" /\ events \in {<<>>, <<"starting">>}
          \/ /\ telemetry = "closed"
             /\ events \in {<<"starting", "bind_failed">>, <<"starting", "listening", "stopped">>}
    /\ stage = "killed" => telemetry # "closed"

(* A connection waits only for a listener, and is served only by a process *)
(* that listened.                                                          *)
RequestsFollowStage ==
    \A r \in Requests :
        /\ request[r] = "queued" => stage = "serving"
        /\ request[r] = "active" => stage \in {"serving", "draining"}

(* The configuration of a load is no older than the load, because no cache *)
(* has one.                                                                *)
ConfigIsFresh ==
    /\ cached["config"] = 0
    /\ got["config"] = 0 \/ since <= got["config"]

Life == TypeOK /\ LogFollowsStage /\ RequestsFollowStage

SiteInvariant == SiteTypeOK /\ Life /\ ConfigIsFresh

-----------------------------------------------------------------------------
(* Each step of the process keeps its log, its telemetry and its requests  *)
(* in accord with the stage it is in.                                      *)

(* Log, spelled out for each event that has a predecessor.                 *)
LEMMA Logs ==
    /\ Append(<<"starting">>, "bind_failed") = <<"starting", "bind_failed">>
    /\ Append(<<"starting">>, "listening") = <<"starting", "listening">>
    /\ Append(<<"starting", "listening">>, "stopped") = <<"starting", "listening", "stopped">>
<1>1. ASSUME NEW a, NEW b, NEW c
      PROVE  /\ Append(<<a>>, b) = <<a, b>>
             /\ Append(<<a, b>>, c) = <<a, b, c>>
  <2> DEFINE S == {a, b, c}
  <2>1. <<a>> \in Seq(S) /\ <<a, b>> \in Seq(S) /\ <<a, b, c>> \in Seq(S)
    OBVIOUS
  <2>2. Append(<<a>>, b) = <<a, b>>
    <3>1. /\ Append(<<a>>, b) \in Seq(S) /\ Len(Append(<<a>>, b)) = 2
          /\ \A i \in 1 .. 2 : Append(<<a>>, b)[i] = <<a, b>>[i]
      BY <2>1
    <3> QED BY <2>1, <3>1, SeqEqual
  <2>3. Append(<<a, b>>, c) = <<a, b, c>>
    <3>1. /\ Append(<<a, b>>, c) \in Seq(S) /\ Len(Append(<<a, b>>, c)) = 3
          /\ \A i \in 1 .. 3 : Append(<<a, b>>, c)[i] = <<a, b, c>>[i]
      BY <2>1
    <3> QED BY <2>1, <3>1, SeqEqual
  <2> QED BY <2>2, <2>3
<1> QED BY <1>1

LEMMA InitIsLife == Init => Life
BY DEF Init, Life, TypeOK, Over, Lifecycles, LogFollowsStage, RequestsFollowStage

LEMMA StartKeepsLife ==
    ASSUME Life, Start
    PROVE  Life'
<1>1. CASE ExitEarly
  BY <1>1 DEF ExitEarly, Exit, signals, Life, TypeOK, Over, Lifecycles,
              LogFollowsStage, RequestsFollowStage
<1>2. CASE OpenTelemetry
  BY <1>2 DEF OpenTelemetry, Log, signals, Life, TypeOK, Over, Lifecycles,
              LogFollowsStage, RequestsFollowStage
<1>3. CASE ConfigInvalid
  BY <1>3 DEF ConfigInvalid, Exit, signals, Life, TypeOK, Over, Lifecycles,
              LogFollowsStage, RequestsFollowStage
<1>4. CASE ConfigValid
  BY <1>4 DEF ConfigValid, signals, Life, TypeOK, Over, Lifecycles,
              LogFollowsStage, RequestsFollowStage
<1>5. CASE BindFails
  BY <1>5, Logs DEF BindFails, Log, Exit, signals, Life, TypeOK, Over, Lifecycles,
              LogFollowsStage, RequestsFollowStage
<1>6. CASE Bind
  BY <1>6, Logs DEF Bind, Log, signals, Life, TypeOK, Over, Lifecycles,
              LogFollowsStage, RequestsFollowStage
<1> QED BY <1>1, <1>2, <1>3, <1>4, <1>5, <1>6 DEF Start

(* What one request does leaves the others and the process alone.          *)
LEMMA RequestKeepsLife ==
    ASSUME Life, NEW r \in Requests, Connect(r) \/ Accept(r) \/ Answer(r) \/ Leave(r)
    PROVE  Life'
<1>1. /\ UNCHANGED <<process, signals>>
      /\ \/ request' = [request EXCEPT ![r] = "queued"] /\ stage = "serving"
         \/ request' = [request EXCEPT ![r] = "active"] /\ stage = "serving"
         \/ request' = [request EXCEPT ![r] = "answered"]
         \/ request' = [request EXCEPT ![r] = "left"]
  BY DEF Connect, Accept, Answer, Leave, Finish
<1>2. TypeOK'
  BY <1>1 DEF Life, TypeOK, process, signals
<1>3. LogFollowsStage'
  BY <1>1 DEF Life, LogFollowsStage, process
<1>4. RequestsFollowStage'
  BY <1>1 DEF Life, TypeOK, RequestsFollowStage, process
<1> QED BY <1>2, <1>3, <1>4 DEF Life

LEMMA ServingKeepsLife ==
    ASSUME Life, InstallHandler \/ InstallFails \/ BeginDrain \/ Drained
    PROVE  Life'
<1>1. CASE InstallHandler \/ InstallFails
  BY <1>1 DEF InstallHandler, InstallFails, process, Life, TypeOK,
              LogFollowsStage, RequestsFollowStage
<1>2. CASE BeginDrain
  BY <1>2 DEF BeginDrain, Cutting, signals, Life, TypeOK, Over,
              LogFollowsStage, RequestsFollowStage
<1>3. CASE Drained
  <2>1. /\ stage = "draining" /\ stage' = "exited" /\ exit' = "ok" /\ telemetry' = "closed"
        /\ events' = Append(events, "stopped") /\ UNCHANGED <<signals, request>>
        /\ \A r \in Requests : request[r] # "active"
    BY <1>3 DEF Drained, Log, Exit, Active
  <2>2. events' = <<"starting", "listening", "stopped">>
    BY <2>1, Logs DEF Life, LogFollowsStage
  <2>3. TypeOK'
    BY <2>1, <2>2 DEF signals, Life, TypeOK, Over, Lifecycles
  <2>4. LogFollowsStage'
    BY <2>1, <2>2 DEF LogFollowsStage
  <2>5. RequestsFollowStage'
    BY <2>1 DEF Life, RequestsFollowStage
  <2> QED BY <2>3, <2>4, <2>5 DEF Life
<1> QED BY <1>1, <1>2, <1>3

LEMMA DyingKeepsLife ==
    ASSUME Life, Alive, Die, handler' = handler, pid1' = pid1,
           signaled' = signaled, terminated' \in BOOLEAN
    PROVE  Life'
BY DEF Alive, Die, Cutting, Life, TypeOK, Over, LogFollowsStage, RequestsFollowStage

LEMMA SignalKeepsLife ==
    ASSUME Life, Signal
    PROVE  Life'
<1>1. CASE UNCHANGED <<process, request>>
  <2>1. {handler', signaled', pid1', terminated'} \subseteq BOOLEAN
    BY DEF Life, TypeOK, Signal, Interrupt, Terminate, Kill, signals
  <2> QED BY <1>1, <2>1 DEF process, Life, TypeOK, LogFollowsStage, RequestsFollowStage
<1>2. CASE ~UNCHANGED <<process, request>>
  <2>1. Alive /\ Die /\ handler' = handler /\ pid1' = pid1 /\ signaled' = signaled
        /\ terminated' \in BOOLEAN
    BY <1>2 DEF Life, TypeOK, Signal, Interrupt, Terminate, Kill, signals
  <2> QED BY <2>1, DyingKeepsLife
<1> QED BY <1>1, <1>2

LEMMA RestartKeepsLife ==
    ASSUME Life, Restart
    PROVE  Life'
BY DEF Restart, Over, Life, TypeOK, Lifecycles, LogFollowsStage, RequestsFollowStage

LEMMA NavigateKeepsLife ==
    ASSUME Life, Navigate
    PROVE  Life'
BY DEF Navigate, process, signals, Life, TypeOK, LogFollowsStage, RequestsFollowStage

-----------------------------------------------------------------------------
(* What the browser has.                                                   *)

Browser ==
    /\ release \in 1 .. MaxReleases
    /\ origin \in [1 .. MaxReleases -> Origins]
    /\ loads \in 0 .. MaxLoads
    /\ since \in 0 .. release
    /\ settled \in SUBSET Requests
    /\ got \in [Requests -> 0 .. release]
    /\ cached \in [Requests -> 0 .. release]
    /\ ConfigIsFresh

LEMMA InvariantParts == SiteInvariant <=> Life /\ Browser
BY DEF SiteInvariant, Life, Browser, SiteTypeOK

LEMMA RestartKeepsBrowser ==
    ASSUME Browser, Restart
    PROVE  Browser'
<1>1. release' = release + 1 /\ release < MaxReleases /\ UNCHANGED <<origin, load, cached>>
  BY DEF Restart
<1>2. 0 .. release \subseteq 0 .. release'
  BY <1>1, BoundsAssumption DEF Browser
<1>3. release' \in 1 .. MaxReleases
  BY <1>1, BoundsAssumption DEF Browser
<1>4. got' \in [Requests -> 0 .. release'] /\ cached' \in [Requests -> 0 .. release']
      /\ since' \in 0 .. release'
  BY <1>1, <1>2 DEF Browser, load
<1> QED BY <1>1, <1>3, <1>4 DEF Browser, load, ConfigIsFresh

LEMMA NavigateKeepsBrowser ==
    ASSUME Browser, Navigate
    PROVE  Browser'
BY RequestsAssumption, BoundsAssumption DEF Navigate, None, server, Browser, ConfigIsFresh

(* A resource of the latest load: from this release, or from the cache,    *)
(* which has no configuration.                                             *)
LEMMA BrowsingKeepsBrowser ==
    ASSUME Browser, NEW r \in Requests, Browse(r) \/ Deliver(r) \/ Expire(r)
    PROVE  Browser'
<1>1. CASE Fetch(r)
  BY <1>1 DEF Fetch, server, load, Browser, ConfigIsFresh
<1>2. CASE FetchFromCache(r)
  <2>1. r # "config"
    BY <1>2 DEF FetchFromCache, Browser, ConfigIsFresh
  <2>2. cached[r] \in 0 .. release
    BY DEF Browser
  <2> QED BY <1>2, <2>1, <2>2, RequestsAssumption
          DEF FetchFromCache, Get, server, Browser, ConfigIsFresh
<1>3. CASE Deliver(r)
  <2>1. release \in 0 .. release /\ since <= release
    BY BoundsAssumption DEF Browser
  <2>2. cached' \in [Requests -> 0 .. release] /\ cached'["config"] = 0
    BY <1>3, <2>1, RequestsAssumption DEF Deliver, Cacheable, Browser, ConfigIsFresh
  <2> QED BY <1>3, <2>1, <2>2, RequestsAssumption
          DEF Deliver, Get, server, Browser, ConfigIsFresh
<1>4. CASE FetchFails(r)
  BY <1>4 DEF FetchFails, Miss, server, Browser, ConfigIsFresh
<1>5. CASE Expire(r)
  <2>1. 0 \in 0 .. release
    BY BoundsAssumption DEF Browser
  <2> QED BY <1>5, <2>1, RequestsAssumption DEF Expire, server, load, Browser, ConfigIsFresh
<1> QED BY <1>1, <1>2, <1>3, <1>4, <1>5 DEF Browse

-----------------------------------------------------------------------------
(* The invariant, and what follows from it.                                *)

LEMMA StepKeepsInvariant == SiteInvariant /\ [SiteNext]_siteVars => SiteInvariant'
<1> SUFFICES ASSUME Life, Browser, [SiteNext]_siteVars
             PROVE  Life' /\ Browser'
  BY InvariantParts DEF SiteInvariant, Life, Browser, SiteTypeOK
<1>1. CASE UNCHANGED siteVars
  BY <1>1 DEF siteVars, vars, process, signals, server, load, Life, Browser, TypeOK,
              LogFollowsStage, RequestsFollowStage, ConfigIsFresh
<1>2. CASE Running
  <2>1. Life'
    BY <1>2, StartKeepsLife, ServingKeepsLife, SignalKeepsLife, RequestKeepsLife
    DEF Running
  <2>2. Browser'
    BY <1>2 DEF Running, server, load, Browser, ConfigIsFresh
  <2> QED BY <2>1, <2>2
<1>3. CASE Restart
  BY <1>3, RestartKeepsLife, RestartKeepsBrowser
<1>4. CASE Navigate
  BY <1>4, NavigateKeepsLife, NavigateKeepsBrowser
<1>5. ASSUME NEW r \in Requests, Browse(r) \/ Deliver(r) \/ Expire(r)
      PROVE  Life' /\ Browser'
  <2>1. Browser'
    BY <1>5, BrowsingKeepsBrowser
  <2>2. CASE Connect(r) \/ Answer(r)
    BY <2>1, <2>2, RequestKeepsLife
  <2>3. CASE UNCHANGED vars
    BY <2>1, <2>3 DEF vars, process, signals, Life, TypeOK,
                      LogFollowsStage, RequestsFollowStage
  <2> QED BY <1>5, <2>2, <2>3
          DEF Browse, Fetch, FetchFromCache, FetchFails, Deliver, Expire
<1> QED BY <1>1, <1>2, <1>3, <1>4, <1>5 DEF SiteNext

(* The state of process and browser is as LogFollowsStage,                 *)
(* RequestsFollowStage and ConfigIsFresh say, through any restarts.        *)
THEOREM SiteInvariance == SiteSafety => []SiteInvariant
<1>1. SiteInit => SiteInvariant
  <2> SUFFICES ASSUME SiteInit PROVE Life /\ Browser
    BY InvariantParts
  <2>1. Life
    BY InitIsLife DEF SiteInit
  <2>2. Browser
    BY RequestsAssumption, BoundsAssumption DEF SiteInit, None, Browser, ConfigIsFresh
  <2> QED BY <2>1, <2>2
<1> QED BY <1>1, StepKeepsInvariant, PTL DEF SiteSafety

(* The log is a prefix of one life, each event once, and every resource of *)
(* a load was made by a server that has been started.                      *)
THEOREM SiteTypeCorrectness == SiteSafety => []SiteTypeOK
BY SiteInvariance, PTL DEF SiteInvariant

(* A process that listened exits by itself only with its requests settled, *)
(* "stopped" logged and its telemetry closed.                              *)
THEOREM NothingIsLeft == SiteSafety => []ExitLeavesNothing
<1>1. SiteInvariant => ExitLeavesNothing
  <2> SUFFICES ASSUME SiteInvariant PROVE ExitLeavesNothing
    OBVIOUS
  <2>1. telemetry = "closed" => stage = "exited"
    BY DEF SiteInvariant, Life, TypeOK, Over, LogFollowsStage
  <2>2. ASSUME stage = "exited" PROVE Active = {}
    BY <2>2 DEF SiteInvariant, Life, RequestsFollowStage, Active
  <2>3. ASSUME stage = "exited", Sent("listening")
        PROVE  Sent("stopped") /\ telemetry = "closed"
    <3>1. CASE events = <<"starting", "listening", "stopped">> /\ telemetry = "closed"
      BY <3>1 DEF Sent
    <3>2. CASE events \in {<<>>, <<"starting">>, <<"starting", "bind_failed">>}
      BY <2>3, <3>2 DEF Sent
    <3> QED BY <2>3, <3>1, <3>2 DEF SiteInvariant, Life, LogFollowsStage
  <2> QED BY <2>1, <2>2, <2>3 DEF ExitLeavesNothing
<1> QED BY <1>1, SiteInvariance, PTL

(* No connection waits for a server that has closed its listener.          *)
THEOREM NobodyIsLeftWaiting == SiteSafety => []NobodyWaitsForTheDead
<1>1. SiteInvariant => NobodyWaitsForTheDead
  BY DEF SiteInvariant, Life, RequestsFollowStage, NobodyWaitsForTheDead
<1> QED BY <1>1, SiteInvariance, PTL

(* An accepted request is cut only by the death of the process, whatever   *)
(* arrives while it drains.                                                *)
THEOREM OnlyDeathCuts == SiteSafety => AcceptedAreServed
<1> DEFINE Served == \A r \in Requests :
                        request[r] = "active" /\ request'[r] = "cut" => stage' = "killed"
<1>1. ASSUME SiteInvariant, [SiteNext]_siteVars PROVE [Served]_vars
  <2>1. request \in [Requests -> {"none", "queued", "active", "answered", "left", "cut"}]
    BY <1>1 DEF SiteInvariant, SiteTypeOK, TypeOK
  <2>2. ASSUME NEW r \in Requests, request[r] = "active", request'[r] = "cut"
        PROVE  stage' = "killed"
    <3>1. CASE UNCHANGED request
      BY <2>2, <3>1
    <3>2. CASE BeginDrain
      BY <2>2, <3>2 DEF BeginDrain, Cutting
    <3>3. CASE Die
      BY <3>3 DEF Die
    <3>4. CASE Navigate
      BY <2>2, <3>4 DEF Navigate
    <3>5. ASSUME NEW s \in Requests, Connect(s) \/ Accept(s) \/ Answer(s) \/ Leave(s)
          PROVE  FALSE
      BY <2>1, <2>2, <3>5 DEF Connect, Accept, Answer, Leave, Finish
    <3>6. CASE Running
      <4>1. CASE Start \/ InstallHandler \/ InstallFails \/ Drained
        BY <3>1, <4>1 DEF Start, ExitEarly, OpenTelemetry, ConfigInvalid, ConfigValid,
                          BindFails, Bind, InstallHandler, InstallFails, Drained
      <4>2. CASE Signal
        BY <3>1, <3>3, <4>2 DEF Signal, Interrupt, Terminate, Kill
      <4> QED BY <3>2, <3>5, <3>6, <4>1, <4>2 DEF Running
    <3>7. CASE \E s \in Requests : Browse(s) \/ Deliver(s) \/ Expire(s)
      BY <3>1, <3>5, <3>7 DEF Browse, Fetch, FetchFromCache, FetchFails, Deliver, Expire, vars
    <3> QED BY <1>1, <3>1, <3>4, <3>6, <3>7 DEF SiteNext, Restart, siteVars, vars
  <2> QED BY <2>2
<1> QED BY <1>1, SiteInvariance, PTL DEF SiteSafety, AcceptedAreServed

-----------------------------------------------------------------------------
(* The encoding of the setting.                                            *)

(* A set of naturals has a least element.                                  *)
LEMMA Least ==
  ASSUME NEW T, T \subseteq Nat, T # {}
  PROVE  \E n \in T : \A m \in T : n <= m
<1>1. IsWellFoundedOn(OpToRel(<, Nat), Nat)
  BY NatLessThanWellFounded
<1>2. PICK n \in T : \A m \in T : ~ (<<m, n>> \in OpToRel(<, Nat))
  BY <1>1, WFMin, Zenon
<1>3. \A m \in T : <<m, n>> \in OpToRel(<, Nat) <=> m < n
  BY DEF OpToRel
<1>4. \A m \in T : ~(m < n)
  BY <1>2, <1>3, Zenon
<1> QED BY <1>4

(* Induction, over a set instead of a predicate: what a recursive          *)
(* definition computes for every input is proved with it below.            *)
LEMMA Induction ==
  ASSUME NEW T, 0 \in T, \A n \in Nat : n \in T => n + 1 \in T
  PROVE  Nat \subseteq T
<1> SUFFICES ASSUME Nat \ T # {} PROVE FALSE
  OBVIOUS
<1>1. PICK n \in Nat \ T : \A m \in Nat \ T : n <= m
  BY Least
<1>2. n # 0 /\ n - 1 \in Nat /\ n - 1 \in T
  BY <1>1
<1> QED BY <1>1, <1>2

(* FiniteSetsExt's Max is the maximum.                                     *)
LEMMA MaxExists ==
  ASSUME NEW n \in Nat, NEW S \in SUBSET (0 .. n), S # {}
  PROVE  Max(S) \in S /\ \A y \in S : Max(S) >= y
<1> DEFINE Bounds == {m \in Nat : \A y \in S : y <= m}
<1>0. PICK e \in S : e \in Nat
  <2>1. PICK e \in S : TRUE
    OBVIOUS
  <2>2. e \in 0 .. n
    BY <2>1
  <2>3. e \in Nat
    BY <2>2
  <2> QED BY <2>1, <2>3
<1>1. n \in Bounds
  OBVIOUS
<1>2. PICK m \in Bounds : \A b \in Bounds : m <= b
  BY <1>1, Least
<1>3. m \in S
  <2> SUFFICES ASSUME m \notin S PROVE FALSE
    OBVIOUS
  <2>1. \A y \in S : y <= m - 1
    BY <1>2
  <2>2. m - 1 \in Nat
    BY <1>0, <2>1
  <2> QED BY <1>2, <2>1, <2>2
<1>4. \E x \in S : \A y \in S : x >= y
  BY <1>2, <1>3
<1> QED BY <1>4 DEF Max

-----------------------------------------------------------------------------
(* What the evaluation of a literal has seen after s: FoldLeft folds over  *)
(* sets of indices, by their maximum.                                      *)
Begun == [at |-> "start", text |-> <<>>]
Seen(s) == FoldLeft(Evaluation, Begun, s)

Folds(g, s, n) ==
    g = [S \in SUBSET (1 .. n) |->
            IF S = {} THEN Begun ELSE Evaluation(g[S \ {Max(S)}], s[Max(S)])]
Folding(s, n) == CHOOSE g : Folds(g, s, n)

(* The recursive function within FoldLeft exists.                          *)
LEMMA FoldExists == ASSUME NEW s, NEW n \in Nat PROVE Folds(Folding(s, n), s, n)
<1> DEFINE T == {k \in Nat : \E g : Folds(g, s, k)}
<1>1. 0 \in T
  <2>1. Folds([S \in SUBSET (1 .. 0) |-> Begun], s, 0)
    BY DEF Folds
  <2> QED BY <2>1
<1>2. ASSUME NEW k \in Nat, k \in T PROVE k + 1 \in T
  <2>1. PICK g : Folds(g, s, k)
    BY <1>2
  <2> DEFINE Below(S) == IF S \subseteq 1 .. k THEN g[S]
                         ELSE Evaluation(g[S \ {k + 1}], s[k + 1])
             h == [S \in SUBSET (1 .. k + 1) |-> Below(S)]
  <2>2. \A R \in SUBSET (1 .. k) : R # {} => g[R] = Evaluation(g[R \ {Max(R)}], s[Max(R)])
    BY <2>1, Zenon DEF Folds
  <2>3. ASSUME NEW S \in SUBSET (1 .. k + 1)
        PROVE  h[S] = IF S = {} THEN Begun ELSE Evaluation(h[S \ {Max(S)}], s[Max(S)])
    <3>1. CASE S = {}
      BY <2>1, <3>1 DEF Folds
    <3>2. CASE S # {} /\ S \subseteq 1 .. k
      <4>1. h[S] = g[S] /\ h[S \ {Max(S)}] = g[S \ {Max(S)}]
        BY <3>2
      <4>2. g[S] = Evaluation(g[S \ {Max(S)}], s[Max(S)])
        BY <2>2, <3>2
      <4> QED BY <3>2, <4>1, <4>2
    <3>3. CASE ~(S \subseteq 1 .. k)
      <4>1. S # {} /\ k + 1 \in S
        BY <3>3
      <4>2. Max(S) = k + 1
        <5>1. S \in SUBSET (0 .. k + 1) /\ k + 1 \in Nat
          OBVIOUS
        <5>2. Max(S) \in S /\ Max(S) >= k + 1
          BY <4>1, <5>1, MaxExists
        <5>3. Max(S) \in 1 .. k + 1
          BY <5>2
        <5> QED BY <5>2, <5>3
      <4>3. S \ {k + 1} \subseteq 1 .. k
        OBVIOUS
      <4>4. h[S \ {k + 1}] = g[S \ {k + 1}]
        BY <4>3
      <4>5. h[S] = Evaluation(g[S \ {k + 1}], s[k + 1])
        BY <3>3
      <4> QED BY <4>1, <4>2, <4>4, <4>5
    <3> QED BY <3>1, <3>2, <3>3
  <2>4. Folds(h, s, k + 1)
    BY <2>3 DEF Folds
  <2> QED BY <2>4
<1>3. n \in T
  <2> HIDE DEF T
  <2> QED BY <1>1, <1>2, Induction
<1> QED BY <1>3 DEF Folding

(* One more character is one more step of it.                              *)
LEMMA FoldStep ==
  ASSUME NEW s, NEW n \in Nat, NEW k \in 0 .. n - 1
  PROVE  /\ Folding(s, n)[1 .. 0] = Begun
         /\ Folding(s, n)[1 .. k + 1] = Evaluation(Folding(s, n)[1 .. k], s[k + 1])
<1>1. Folds(Folding(s, n), s, n)
  BY FoldExists
<1>2. Folding(s, n)[1 .. 0] = Begun
  BY <1>1, 1 .. 0 = {} DEF Folds
<1>3. Max(1 .. k + 1) = k + 1
  <2>1. 1 .. k + 1 \in SUBSET (0 .. k + 1) /\ k + 1 \in Nat /\ k + 1 \in 1 .. k + 1
    OBVIOUS
  <2>2. Max(1 .. k + 1) \in 1 .. k + 1 /\ Max(1 .. k + 1) >= k + 1
    BY <2>1, MaxExists
  <2> QED BY <2>2
<1>4. (1 .. k + 1) \ {k + 1} = 1 .. k
  OBVIOUS
<1>5. 1 .. k + 1 \in SUBSET (1 .. n) /\ 1 .. k + 1 # {}
  OBVIOUS
<1>6. Folding(s, n)[1 .. k + 1]
        = Evaluation(Folding(s, n)[(1 .. k + 1) \ {Max(1 .. k + 1)}], s[Max(1 .. k + 1)])
  BY <1>1, <1>5, Zenon DEF Folds
<1> QED BY <1>2, <1>3, <1>4, <1>6

(* What it has after n characters depends on no later one.                 *)
LEMMA FoldPrefix ==
  ASSUME NEW s, NEW t, NEW n \in Nat, NEW m \in Nat, n <= m,
         \A i \in 1 .. n : s[i] = t[i]
  PROVE  Folding(s, n)[1 .. n] = Folding(t, m)[1 .. n]
<1> DEFINE T == {k \in Nat : k <= n => Folding(s, n)[1 .. k] = Folding(t, m)[1 .. k]}
<1>1. 0 \in T
  <2>1. CASE n = 0
    <3>1. 1 .. 0 = {}
      OBVIOUS
    <3>2. Folding(s, n)[{}] = Begun /\ Folding(t, m)[{}] = Begun
      BY FoldExists, Zenon DEF Folds
    <3> QED BY <3>1, <3>2
  <2>2. CASE n # 0
    BY <2>2, FoldStep
  <2> QED BY <2>1, <2>2
<1>2. ASSUME NEW k \in Nat, k \in T PROVE k + 1 \in T
  BY <1>2, FoldStep
<1>3. n \in T
  <2> HIDE DEF T
  <2> QED BY <1>1, <1>2, Induction
<1> QED BY <1>3

(* FoldLeft is that function, over all of the sequence.                    *)
LEMMA SeenIsFolding ==
  ASSUME NEW s, NEW n \in Nat, DOMAIN s = 1 .. n
  PROVE  Seen(s) = Folding(s, n)[1 .. n]
BY DEF Seen, FoldLeft, MapThenFoldSet, Folding, Folds

(* Nothing is seen at first.                                               *)
LEMMA SeenOfNothing == Seen(<<>>) = Begun
<1>1. Seen(<<>>) = Folding(<<>>, 0)[1 .. 0]
  <2>1. DOMAIN <<>> = 1 .. 0
    OBVIOUS
  <2> QED BY <2>1, SeenIsFolding
<1>2. 1 .. 0 = {}
  OBVIOUS
<1>3. Folding(<<>>, 0)[{}] = Begun
  <2>1. 0 \in Nat
    OBVIOUS
  <2>2. Folds(Folding(<<>>, 0), <<>>, 0)
    BY <2>1, FoldExists
  <2> QED BY <2>2 DEF Folds
<1> QED BY <1>1, <1>2, <1>3

(* The last character of a literal is the last step of its evaluation.     *)
LEMMA SeenAppend ==
  ASSUME NEW C, NEW s \in Seq(C), NEW c \in C
  PROVE  Seen(Append(s, c)) = Evaluation(Seen(s), c)
<1> DEFINE t == Append(s, c)
           n == Len(s)
<1>1. /\ n \in Nat /\ DOMAIN s = 1 .. n
      /\ DOMAIN t = 1 .. n + 1
      /\ t[n + 1] = c
      /\ \A i \in 1 .. n : s[i] = t[i]
  BY AppendProperties, LenProperties
<1> HIDE DEF t, n
<1>2. Seen(s) = Folding(s, n)[1 .. n] /\ Seen(t) = Folding(t, n + 1)[1 .. n + 1]
  BY <1>1, SeenIsFolding
<1>3. Folding(t, n + 1)[1 .. n + 1] = Evaluation(Folding(t, n + 1)[1 .. n], c)
  <2>1. PICK m \in Nat : m = n + 1
    BY <1>1
  <2>2. n \in 0 .. m - 1
    BY <1>1, <2>1
  <2>3. Folding(t, m)[1 .. n + 1] = Evaluation(Folding(t, m)[1 .. n], t[n + 1])
    BY <2>2, FoldStep
  <2> QED BY <1>1, <2>1, <2>3
<1>4. Folding(s, n)[1 .. n] = Folding(t, n + 1)[1 .. n]
  BY <1>1, FoldPrefix
<1> QED BY <1>2, <1>3, <1>4 DEF t

-----------------------------------------------------------------------------
(* The recursive function within FlattenSeq.                               *)
Flattens(g, ss, n) ==
    g = [i \in 1 .. n |-> IF i = 1 THEN ss[i] ELSE g[i - 1] \o ss[i]]
Flattening(ss, n) == CHOOSE g : Flattens(g, ss, n)

(* It exists.                                                              *)
LEMMA FlattenExists ==
  ASSUME NEW ss, NEW n \in Nat
  PROVE  Flattens(Flattening(ss, n), ss, n)
<1> DEFINE T == {k \in Nat : \E g : Flattens(g, ss, k)}
<1>1. 0 \in T
  <2>1. Flattens([i \in 1 .. 0 |-> ss[i]], ss, 0)
    BY DEF Flattens
  <2> QED BY <2>1
<1>2. ASSUME NEW k \in Nat, k \in T PROVE k + 1 \in T
  <2>1. PICK g : Flattens(g, ss, k)
    BY <1>2
  <2> DEFINE h == [i \in 1 .. k + 1 |->
                     IF i <= k THEN g[i] ELSE IF i = 1 THEN ss[i] ELSE g[i - 1] \o ss[i]]
  <2>2. \A i \in 1 .. k : g[i] = IF i = 1 THEN ss[i] ELSE g[i - 1] \o ss[i]
    BY <2>1, Zenon DEF Flattens
  <2>3. ASSUME NEW i \in 1 .. k + 1
        PROVE  h[i] = IF i = 1 THEN ss[i] ELSE h[i - 1] \o ss[i]
    <3>1. CASE i = 1 /\ k = 0
      BY <3>1
    <3>2. CASE i = 1 /\ k # 0
      BY <2>2, <3>2
    <3>3. CASE i # 1
      <4>1. i - 1 \in 1 .. k /\ i - 1 \in 1 .. k + 1
        BY <3>3
      <4>2. h[i - 1] = g[i - 1]
        BY <4>1
      <4>3. h[i] = g[i - 1] \o ss[i]
        <5>1. CASE i <= k
          <6>1. i \in 1 .. k
            BY <5>1
          <6>2. g[i] = g[i - 1] \o ss[i]
            BY <2>2, <3>3, <6>1
          <6> QED BY <5>1, <6>2
        <5>2. CASE ~(i <= k)
          BY <3>3, <5>2
        <5> QED BY <5>1, <5>2
      <4> QED BY <3>3, <4>2, <4>3
    <3> QED BY <3>1, <3>2, <3>3
  <2>4. Flattens(h, ss, k + 1)
    BY <2>3 DEF Flattens
  <2> QED BY <2>4
<1>3. n \in T
  <2> HIDE DEF T
  <2> QED BY <1>1, <1>2, Induction
<1> QED BY <1>3 DEF Flattening

(* One more sequence is one more concatenation.                            *)
LEMMA FlattenStep ==
  ASSUME NEW ss, NEW n \in Nat, NEW k \in 1 .. n
  PROVE  Flattening(ss, n)[k]
           = IF k = 1 THEN ss[1] ELSE Flattening(ss, n)[k - 1] \o ss[k]
<1>1. Flattens(Flattening(ss, n), ss, n)
  BY FlattenExists
<1>2. Flattening(ss, n)[k]
           = IF k = 1 THEN ss[k] ELSE Flattening(ss, n)[k - 1] \o ss[k]
  BY <1>1, Zenon DEF Flattens
<1> QED BY <1>2

(* What it has after n sequences depends on no later one.                  *)
LEMMA FlattenPrefix ==
  ASSUME NEW ss, NEW tt, NEW n \in Nat, NEW m \in Nat, n <= m,
         \A i \in 1 .. n : ss[i] = tt[i]
  PROVE  \A k \in 1 .. n : Flattening(ss, n)[k] = Flattening(tt, m)[k]
<1> DEFINE T == {k \in Nat : k \in 1 .. n => Flattening(ss, n)[k] = Flattening(tt, m)[k]}
<1>1. 0 \in T
  OBVIOUS
<1>2. ASSUME NEW k \in Nat, k \in T PROVE k + 1 \in T
  <2> SUFFICES ASSUME k + 1 \in 1 .. n
               PROVE  Flattening(ss, n)[k + 1] = Flattening(tt, m)[k + 1]
    OBVIOUS
  <2>1. k + 1 \in 1 .. m /\ ss[k + 1] = tt[k + 1]
    OBVIOUS
  <2>2. Flattening(ss, n)[k + 1]
           = IF k + 1 = 1 THEN ss[1] ELSE Flattening(ss, n)[(k + 1) - 1] \o ss[k + 1]
    BY FlattenStep
  <2>3. Flattening(tt, m)[k + 1]
           = IF k + 1 = 1 THEN tt[1] ELSE Flattening(tt, m)[(k + 1) - 1] \o tt[k + 1]
    BY <2>1, FlattenStep
  <2>4. (k + 1) - 1 = k
    OBVIOUS
  <2>5. CASE k = 0
    BY <2>1, <2>2, <2>3, <2>5
  <2>6. CASE k # 0
    <3>1. Flattening(ss, n)[k] = Flattening(tt, m)[k]
      BY <1>2, <2>6
    <3>2. k + 1 # 1
      BY <2>6
    <3> QED BY <3>1, <3>2, <2>1, <2>2, <2>3, <2>4, Zenon
  <2> QED BY <2>5, <2>6
<1>3. Nat \subseteq T
  <2> HIDE DEF T
  <2> QED BY <1>1, <1>2, Induction
<1> QED BY <1>3

(* FlattenSeq is that function at the last sequence.                       *)
LEMMA FlattenIs ==
  ASSUME NEW ss, NEW n \in Nat, DOMAIN ss = 1 .. n, Len(ss) = n, n # 0
  PROVE  FlattenSeq(ss) = Flattening(ss, n)[n]
BY DEF FlattenSeq, Flattening, Flattens

(* FlattenSeq concatenates the last sequence to those before it.           *)
LEMMA FlattenSeqAppend ==
  ASSUME NEW C, NEW ss \in Seq(Seq(C)), NEW t \in Seq(C)
  PROVE  FlattenSeq(Append(ss, t)) = FlattenSeq(ss) \o t
<1> DEFINE tt == Append(ss, t)
           n == Len(ss)
<1>1. /\ n \in Nat /\ DOMAIN ss = 1 .. n
      /\ DOMAIN tt = 1 .. n + 1 /\ Len(tt) = n + 1
      /\ tt[n + 1] = t
      /\ \A i \in 1 .. n : ss[i] = tt[i]
  BY AppendProperties, LenProperties
<1>2. n = 0 => ss = <<>>
  BY EmptySeq
<1> HIDE DEF tt, n
<1>3. FlattenSeq(tt) = Flattening(tt, n + 1)[n + 1]
  BY <1>1, FlattenIs
<1>4. Flattening(tt, n + 1)[n + 1]
        = IF n + 1 = 1 THEN tt[1] ELSE Flattening(tt, n + 1)[(n + 1) - 1] \o tt[n + 1]
  BY <1>1, FlattenStep
<1>5. CASE n = 0
  <2>1. FlattenSeq(ss) = <<>>
    BY <1>2, <1>5 DEF FlattenSeq, n
  <2>2. <<>> \o t = t
    BY ConcatEmptySeq
  <2> QED BY <1>1, <1>3, <1>4, <1>5, <2>1, <2>2 DEF tt
<1>6. CASE n # 0
  <2>1. FlattenSeq(ss) = Flattening(ss, n)[n]
    BY <1>1, <1>6, FlattenIs
  <2>2. Flattening(ss, n)[n] = Flattening(tt, n + 1)[n]
    <3>1. n \in 1 .. n
      BY <1>1, <1>6
    <3>2. PICK m \in Nat : m = n + 1
      BY <1>1
    <3>3. n <= m
      BY <1>1, <3>2
    <3>4. n \in Nat /\ \A i \in 1 .. n : ss[i] = tt[i]
      BY <1>1
    <3>5. \A k \in 1 .. n : Flattening(ss, n)[k] = Flattening(tt, m)[k]
      BY <3>3, <3>4, FlattenPrefix
    <3> QED BY <3>1, <3>2, <3>5
  <2>3. (n + 1) - 1 = n /\ n + 1 # 1
    BY <1>1, <1>6
  <2> QED BY <1>1, <1>3, <1>4, <2>1, <2>2, <2>3 DEF tt
<1> QED BY <1>5, <1>6

-----------------------------------------------------------------------------
(* The characters an encoding adds, and its two passes.                    *)
Syntax == {"quote", "\\", "u003c", "u2028", "u2029"}

Escapes(text)  == FlattenSeq([i \in DOMAIN text |-> Escaped(text[i])])
Replaced(json) == FlattenSeq([i \in DOMAIN json |-> Replacement(json[i])])

(* Both turn a character into text.                                        *)
LEMMA PiecesAreText ==
  ASSUME NEW Chars, Syntax \subseteq Chars, NEW c \in Chars
  PROVE  Escaped(c) \in Seq(Chars) /\ Replacement(c) \in Seq(Chars)
<1>1. \A a, b \in Chars : <<a>> \in Seq(Chars) /\ <<a, b>> \in Seq(Chars)
  OBVIOUS
<1> QED BY <1>1 DEF Syntax, Escaped, Replacement

(* A sequence mapped element by element, when one is appended.             *)
LEMMA MapAppend ==
  ASSUME NEW S, NEW s \in Seq(S), NEW c \in S, NEW R, NEW piece \in [S -> R]
  PROVE  /\ [i \in DOMAIN s |-> piece[s[i]]] \in Seq(R)
         /\ [i \in DOMAIN Append(s, c) |-> piece[Append(s, c)[i]]]
              = Append([i \in DOMAIN s |-> piece[s[i]]], piece[c])
<1> DEFINE t == Append(s, c)
           n == Len(s)
           u == [i \in DOMAIN s |-> piece[s[i]]]
           w == [i \in DOMAIN t |-> piece[t[i]]]
<1>1. /\ n \in Nat /\ DOMAIN s = 1 .. n /\ t \in Seq(S)
      /\ DOMAIN t = 1 .. n + 1
      /\ t[n + 1] = c
      /\ \A i \in 1 .. n : t[i] = s[i]
  BY AppendProperties, LenProperties
<1>2. \A i \in 1 .. n : s[i] \in S
  BY <1>1, ElementOfSeq
<1>3. u \in [1 .. n -> R]
  BY <1>1, <1>2
<1>4. u \in Seq(R) /\ Len(u) = n /\ DOMAIN u = 1 .. n
  BY <1>1, <1>3, IsASeq, LenProperties
<1>5. piece[c] \in R
  OBVIOUS
<1>6. w \in [1 .. n + 1 -> R]
  BY <1>1, <1>2, <1>5
<1>7. w \in Seq(R) /\ Len(w) = n + 1
  BY <1>1, <1>6, IsASeq, LenProperties
<1>8. /\ Append(u, piece[c]) \in Seq(R) /\ Len(Append(u, piece[c])) = n + 1
      /\ Append(u, piece[c])[n + 1] = piece[c]
      /\ \A i \in 1 .. n : Append(u, piece[c])[i] = u[i]
  <2> HIDE DEF u
  <2> QED BY <1>4, <1>5, AppendProperties
<1>9. \A i \in 1 .. n + 1 : w[i] = Append(u, piece[c])[i]
  <2>1. \A i \in 1 .. n : w[i] = u[i]
    BY <1>1
  <2>2. w[n + 1] = piece[c]
    BY <1>1
  <2>3. \A i \in 1 .. n + 1 : i \in 1 .. n \/ i = n + 1
    BY <1>1
  <2> HIDE DEF u, w
  <2> QED BY <1>8, <2>1, <2>2, <2>3
<1>10. w = Append(u, piece[c])
  <2> HIDE DEF u, w
  <2> QED BY <1>7, <1>8, <1>9, SeqEqual
<1> QED BY <1>4, <1>10

(* Pieces of text flatten to text.                                         *)
LEMMA FlattenTyped ==
  ASSUME NEW C, NEW ss \in Seq(Seq(C))
  PROVE  FlattenSeq(ss) \in Seq(C)
<1> DEFINE T == {n \in Nat : \A s \in Seq(Seq(C)) : Len(s) = n => FlattenSeq(s) \in Seq(C)}
<1>1. FlattenSeq(<<>>) = <<>>
  BY DEF FlattenSeq
<1>2. 0 \in T
  BY <1>1, EmptySeq
<1>3. ASSUME NEW n \in Nat, n \in T PROVE n + 1 \in T
  <2> SUFFICES ASSUME NEW s \in Seq(Seq(C)), Len(s) = n + 1
               PROVE  FlattenSeq(s) \in Seq(C)
    OBVIOUS
  <2>1. s # <<>>
    BY EmptySeq
  <2>2. PICK r \in Seq(Seq(C)), t \in Seq(C) : s = Append(r, t)
    BY <2>1, SequenceEmptyOrAppend
  <2>3. Len(r) = n
    BY <2>2, AppendProperties, LenProperties
  <2>4. FlattenSeq(r) \in Seq(C)
    BY <1>3, <2>3
  <2>5. FlattenSeq(s) = FlattenSeq(r) \o t
    BY <2>2, FlattenSeqAppend
  <2> QED BY <2>4, <2>5, ConcatProperties
<1>4. Nat \subseteq T
  <2> HIDE DEF T
  <2> QED BY <1>2, <1>3, Induction
<1>5. Len(ss) \in Nat
  BY LenProperties
<1> QED BY <1>4, <1>5

(* The passes go character by character: first serde_json's,               *)
LEMMA EscapesAppend ==
  ASSUME NEW Chars, Syntax \subseteq Chars, NEW s \in Seq(Chars), NEW c \in Chars
  PROVE  /\ Escapes(s) \in Seq(Chars)
         /\ Escapes(Append(s, c)) = Escapes(s) \o Escaped(c)
<1> DEFINE piece == [a \in Chars |-> Escaped(a)]
<1>1. piece \in [Chars -> Seq(Chars)]
  BY PiecesAreText
<1>2. ASSUME NEW t \in Seq(Chars)
      PROVE  [i \in DOMAIN t |-> piece[t[i]]] = [i \in DOMAIN t |-> Escaped(t[i])]
  BY LenProperties, ElementOfSeq
<1>3. /\ [i \in DOMAIN s |-> piece[s[i]]] \in Seq(Seq(Chars))
      /\ [i \in DOMAIN Append(s, c) |-> piece[Append(s, c)[i]]]
              = Append([i \in DOMAIN s |-> piece[s[i]]], piece[c])
  <2> DEFINE R == Seq(Chars)
  <2>1. piece \in [Chars -> R]
    BY <1>1
  <2> HIDE DEF piece, R
  <2>2. /\ [i \in DOMAIN s |-> piece[s[i]]] \in Seq(R)
        /\ [i \in DOMAIN Append(s, c) |-> piece[Append(s, c)[i]]]
              = Append([i \in DOMAIN s |-> piece[s[i]]], piece[c])
    BY <2>1, MapAppend
  <2> QED BY <2>2 DEF R
<1>4. piece[c] = Escaped(c) /\ piece[c] \in Seq(Chars) /\ Append(s, c) \in Seq(Chars)
  BY PiecesAreText, AppendProperties
<1> DEFINE ss == [i \in DOMAIN s |-> piece[s[i]]]
<1>5. Escapes(s) = FlattenSeq(ss) /\ Escapes(Append(s, c)) = FlattenSeq(Append(ss, piece[c]))
  BY <1>2, <1>3, <1>4 DEF Escapes
<1>6. ss \in Seq(Seq(Chars))
  BY <1>3
<1> HIDE DEF ss, piece
<1> QED BY <1>4, <1>5, <1>6, FlattenTyped, FlattenSeqAppend

(* then encode_runtime_config_string's own.                                *)
LEMMA ReplacedAppend ==
  ASSUME NEW Chars, Syntax \subseteq Chars, NEW s \in Seq(Chars), NEW c \in Chars
  PROVE  /\ Replaced(s) \in Seq(Chars)
         /\ Replaced(Append(s, c)) = Replaced(s) \o Replacement(c)
<1> DEFINE piece == [a \in Chars |-> Replacement(a)]
<1>1. piece \in [Chars -> Seq(Chars)]
  BY PiecesAreText
<1>2. ASSUME NEW t \in Seq(Chars)
      PROVE  [i \in DOMAIN t |-> piece[t[i]]] = [i \in DOMAIN t |-> Replacement(t[i])]
  BY LenProperties, ElementOfSeq
<1>3. /\ [i \in DOMAIN s |-> piece[s[i]]] \in Seq(Seq(Chars))
      /\ [i \in DOMAIN Append(s, c) |-> piece[Append(s, c)[i]]]
              = Append([i \in DOMAIN s |-> piece[s[i]]], piece[c])
  <2> DEFINE R == Seq(Chars)
  <2>1. piece \in [Chars -> R]
    BY <1>1
  <2> HIDE DEF piece, R
  <2>2. /\ [i \in DOMAIN s |-> piece[s[i]]] \in Seq(R)
        /\ [i \in DOMAIN Append(s, c) |-> piece[Append(s, c)[i]]]
              = Append([i \in DOMAIN s |-> piece[s[i]]], piece[c])
    BY <2>1, MapAppend
  <2> QED BY <2>2 DEF R
<1>4. piece[c] = Replacement(c) /\ piece[c] \in Seq(Chars) /\ Append(s, c) \in Seq(Chars)
  BY PiecesAreText, AppendProperties
<1> DEFINE ss == [i \in DOMAIN s |-> piece[s[i]]]
<1>5. Replaced(s) = FlattenSeq(ss) /\ Replaced(Append(s, c)) = FlattenSeq(Append(ss, piece[c]))
  BY <1>2, <1>3, <1>4 DEF Replaced
<1>6. ss \in Seq(Seq(Chars))
  BY <1>3
<1> HIDE DEF ss, piece
<1> QED BY <1>4, <1>5, <1>6, FlattenTyped, FlattenSeqAppend

(* A piece is one character or two.                                        *)
LEMMA AppendTwice ==
  ASSUME NEW S, NEW s \in Seq(S), NEW a \in S, NEW b \in S
  PROVE  s \o <<a>> = Append(s, a) /\ s \o <<a, b>> = Append(Append(s, a), b)
OBVIOUS

(* What one more character of the JSON adds to what is seen.               *)
LEMMA SeenReplaced ==
  ASSUME NEW Chars, Syntax \subseteq Chars, NEW s \in Seq(Chars), NEW a \in Chars
  PROVE  /\ Replacement(a) = <<a>> =>
              Seen(Replaced(Append(s, a))) = Evaluation(Seen(Replaced(s)), a)
         /\ \A b \in Chars : Replacement(a) = <<"\\", b>> =>
              Seen(Replaced(Append(s, a)))
                = Evaluation(Evaluation(Seen(Replaced(s)), "\\"), b)
<1>1. Replaced(s) \in Seq(Chars) /\ Replaced(Append(s, a)) = Replaced(s) \o Replacement(a)
  BY ReplacedAppend
<1>2. "\\" \in Chars
  BY DEF Syntax
<1>3. ASSUME Replacement(a) = <<a>>
      PROVE  Seen(Replaced(Append(s, a))) = Evaluation(Seen(Replaced(s)), a)
  <2>1. Replaced(Append(s, a)) = Append(Replaced(s), a)
    BY <1>1, <1>3, AppendTwice
  <2> QED BY <1>1, <2>1, SeenAppend
<1>4. ASSUME NEW b \in Chars, Replacement(a) = <<"\\", b>>
      PROVE  Seen(Replaced(Append(s, a)))
               = Evaluation(Evaluation(Seen(Replaced(s)), "\\"), b)
  <2>1. Replaced(Append(s, a)) = Append(Append(Replaced(s), "\\"), b)
    BY <1>1, <1>2, <1>4, AppendTwice
  <2>2. Append(Replaced(s), "\\") \in Seq(Chars)
    BY <1>1, <1>2, AppendProperties
  <2>3. Seen(Append(Append(Replaced(s), "\\"), b)) = Evaluation(Seen(Append(Replaced(s), "\\")), b)
    BY <2>2, SeenAppend
  <2>4. Seen(Append(Replaced(s), "\\")) = Evaluation(Seen(Replaced(s)), "\\")
    BY <1>1, <1>2, SeenAppend
  <2> QED BY <2>1, <2>3, <2>4
<1> QED BY <1>3, <1>4

(* The JSON string up to its closing quote; and being within the literal,  *)
(* with the text.                                                          *)
Opened(text) == <<"quote">> \o Escapes(text)
Reading(text) == [at |-> "text", text |-> text]

(* No piece, no text.                                                      *)
LEMMA NothingFlattened ==
  ASSUME NEW f, f = <<>>
  PROVE  FlattenSeq(f) = <<>>
BY DEF FlattenSeq

(* The opening quote begins the text.                                      *)
LEMMA EmptyOpened ==
  ASSUME NEW Chars, Syntax \subseteq Chars
  PROVE  Opened(<<>>) = <<"quote">> /\ Seen(Replaced(<<"quote">>)) = Reading(<<>>)
<1>1. "quote" \in Chars /\ <<>> \in Seq(Chars)
  BY DEF Syntax
<1>2. Escapes(<<>>) = <<>> /\ Replaced(<<>>) = <<>>
  <2>1. /\ [i \in DOMAIN <<>> |-> Escaped(<<>>[i])] = <<>>
        /\ [i \in DOMAIN <<>> |-> Replacement(<<>>[i])] = <<>>
    OBVIOUS
  <2> QED BY <2>1, NothingFlattened DEF Escapes, Replaced
<1>3. Opened(<<>>) = <<"quote">>
  <2>1. <<"quote">> \in Seq(Chars)
    BY <1>1
  <2> QED BY <1>2, <2>1, ConcatEmptySeq DEF Opened
<1>4. Append(<<>>, "quote") = <<"quote">>
  OBVIOUS
<1>5. Replacement("quote") = <<"quote">>
  BY DEF Replacement
<1>6. Seen(Replaced(<<"quote">>)) = Evaluation(Seen(Replaced(<<>>)), "quote")
  BY <1>1, <1>4, <1>5, SeenReplaced
<1>7. Seen(Replaced(<<>>)) = Begun
  BY <1>2, SeenOfNothing
<1>8. Evaluation(Begun, "quote") = Reading(<<>>)
  BY DEF Evaluation, Begun, Reading
<1> QED BY <1>3, <1>6, <1>7, <1>8

(* One more character, escaped or not.                                     *)
LEMMA OpenedAppend ==
  ASSUME NEW Chars, Syntax \subseteq Chars, NEW t \in Seq(Chars), NEW c \in Chars
  PROVE  /\ Opened(t) \in Seq(Chars)
         /\ Opened(Append(t, c)) = IF c \in {"quote", "\\"} THEN Append(Append(Opened(t), "\\"), c)
                                   ELSE Append(Opened(t), c)
<1>1. Escapes(t) \in Seq(Chars) /\ Escapes(Append(t, c)) = Escapes(t) \o Escaped(c)
  BY EscapesAppend
<1>2. "\\" \in Chars /\ <<"quote">> \in Seq(Chars)
  BY DEF Syntax
<1>3. Opened(t) \in Seq(Chars)
  BY <1>1, <1>2, ConcatProperties DEF Opened
<1>4. Escaped(c) \in Seq(Chars)
  BY PiecesAreText
<1>5. Opened(Append(t, c)) = Opened(t) \o Escaped(c)
  BY <1>1, <1>2, <1>4, ConcatAssociative DEF Opened
<1> QED BY <1>2, <1>3, <1>5, AppendTwice DEF Escaped

(* Each character survives both passes and the evaluation.                 *)
LEMMA CharEvaluates ==
  ASSUME NEW Chars, Syntax \subseteq Chars, NEW t \in Seq(Chars), NEW c \in Chars,
         Seen(Replaced(Opened(t))) = Reading(t)
  PROVE  Seen(Replaced(Opened(Append(t, c)))) = Reading(Append(t, c))
<1>0. Syntax \subseteq Chars /\ Opened(t) \in Seq(Chars)
  BY OpenedAppend
<1>1. CASE c \in {"quote", "\\"}
  <2>1. /\ Opened(Append(t, c)) = Append(Append(Opened(t), "\\"), c)
        /\ Append(Opened(t), "\\") \in Seq(Chars)
    BY <1>0, <1>1, OpenedAppend, AppendProperties DEF Syntax
  <2>2. Replacement("\\") = <<"\\">> /\ Replacement(c) = <<c>>
    BY <1>1 DEF Replacement
  <2>3. Seen(Replaced(Append(Opened(t), "\\"))) = Evaluation(Reading(t), "\\")
    BY <1>0, <2>2, SeenReplaced DEF Syntax
  <2>4. Seen(Replaced(Opened(Append(t, c)))) = Evaluation(Evaluation(Reading(t), "\\"), c)
    <3> DEFINE s == Append(Opened(t), "\\")
    <3>1. s \in Seq(Chars) /\ Seen(Replaced(s)) = Evaluation(Reading(t), "\\")
      BY <2>1, <2>3
    <3> HIDE DEF s
    <3>2. Seen(Replaced(Append(s, c))) = Evaluation(Seen(Replaced(s)), c)
      BY <1>0, <2>2, <3>1, SeenReplaced
    <3> QED BY <2>1, <3>1, <3>2 DEF s
  <2>5. Evaluation(Reading(t), "\\") = [at |-> "escape", text |-> t]
    BY DEF Evaluation, Reading
  <2>6. Evaluation([at |-> "escape", text |-> t], c) = Reading(Append(t, c))
    BY <1>1 DEF Evaluation, Reading, Meaning
  <2> QED BY <2>4, <2>5, <2>6
<1>2. CASE c \notin {"quote", "\\"}
  <2>1. Opened(Append(t, c)) = Append(Opened(t), c)
    BY <1>2, OpenedAppend
  <2>2. CASE c \notin {"<", "LS", "PS"}
    <3>1. Replacement(c) = <<c>>
      BY <2>2 DEF Replacement
    <3>2. Evaluation(Reading(t), c) = Reading(Append(t, c))
      BY <1>2 DEF Evaluation, Reading
    <3> QED BY <1>0, <2>1, <3>1, <3>2, SeenReplaced
  <2>3. CASE c \in {"<", "LS", "PS"}
    <3>1. PICK b \in {"u003c", "u2028", "u2029"} :
             Replacement(c) = <<"\\", b>> /\ Meaning(b) = c
      BY <2>3 DEF Replacement, Meaning
    <3>2. Seen(Replaced(Append(Opened(t), c))) = Evaluation(Evaluation(Reading(t), "\\"), b)
      BY <1>0, <3>1, SeenReplaced DEF Syntax
    <3>3. Evaluation(Reading(t), "\\") = [at |-> "escape", text |-> t]
      BY DEF Evaluation, Reading
    <3>4. Evaluation([at |-> "escape", text |-> t], b) = Reading(Append(t, c))
      BY <3>1 DEF Evaluation, Reading
    <3> QED BY <2>1, <3>2, <3>3, <3>4
  <2> QED BY <2>2, <2>3
<1> QED BY <1>1, <1>2

(* So does every text, by induction on its length.                         *)
LEMMA TextEvaluates ==
  ASSUME NEW Chars, Syntax \subseteq Chars, NEW text \in Seq(Chars)
  PROVE  Seen(Replaced(Opened(text))) = Reading(text)
<1> DEFINE T == {n \in Nat : \A t \in Seq(Chars) : Len(t) = n => Seen(Replaced(Opened(t))) = Reading(t)}
<1>1. 0 \in T
  BY EmptyOpened, EmptySeq
<1>2. ASSUME NEW n \in Nat, n \in T PROVE n + 1 \in T
  <2> SUFFICES ASSUME NEW t \in Seq(Chars), Len(t) = n + 1
               PROVE  Seen(Replaced(Opened(t))) = Reading(t)
    OBVIOUS
  <2>1. t # <<>>
    BY EmptySeq
  <2>2. PICK r \in Seq(Chars), c \in Chars : t = Append(r, c)
    BY <2>1, SequenceEmptyOrAppend
  <2>3. Len(r) = n
    BY <2>2, AppendProperties, LenProperties
  <2> QED BY <1>2, <2>2, <2>3, CharEvaluates
<1>3. Nat \subseteq T
  <2> HIDE DEF T
  <2> QED BY <1>1, <1>2, Induction
<1>4. Len(text) \in Nat
  BY LenProperties
<1> QED BY <1>3, <1>4

(* Whatever FTNL_API_ORIGIN is, with quotes, backslashes, escapes and the  *)
(* characters that end a script or a line in it, the literal that          *)
(* encode_runtime_config_string writes parses and evaluates to it.         *)
THEOREM EncodingIsLossless ==
  ASSUME NEW S, NEW text \in Seq(S)
  PROVE  Evaluated(Encoded(text)) = text
<1> DEFINE Chars == S \union Syntax
<1>1. Syntax \subseteq Chars /\ text \in Seq(Chars) /\ "quote" \in Chars
  BY SeqMonotonic DEF Syntax
<1> HIDE DEF Chars
<1>2. Opened(text) \in Seq(Chars)
  BY <1>1, EscapesAppend, ConcatProperties DEF Opened
<1>3. Json(text) = Append(Opened(text), "quote")
  <2>1. Json(text) = Opened(text) \o <<"quote">>
    BY DEF Json, Opened, Escapes
  <2> QED BY <1>1, <1>2, <2>1, AppendTwice
<1>4. Encoded(text) = Replaced(Append(Opened(text), "quote"))
  BY <1>3 DEF Encoded, Replaced
<1>5. Replacement("quote") = <<"quote">>
  BY DEF Replacement
<1>6. Seen(Encoded(text)) = Evaluation(Reading(text), "quote")
  BY <1>1, <1>2, <1>4, <1>5, SeenReplaced, TextEvaluates
<1>7. Evaluation(Reading(text), "quote") = [at |-> "end", text |-> text]
  BY DEF Evaluation, Reading
<1>8. Seen(Encoded(text)) = [at |-> "end", text |-> text]
  BY <1>6, <1>7
<1> QED BY <1>8 DEF Evaluated, Seen, Begun

(* What could end the script element or the line.                          *)
Breaking == {"<", "LS", "PS"}

(* No such character is left in the literal.                               *)
THEOREM EncodingIsInert ==
  ASSUME NEW S, NEW text \in Seq(S)
  PROVE  \A i \in DOMAIN Encoded(text) : Encoded(text)[i] \notin Breaking
<1> DEFINE Chars == S \union Syntax
           Inert == Chars \ Breaking
<1>1. Syntax \subseteq Chars /\ text \in Seq(Chars) /\ "quote" \in Chars
  BY SeqMonotonic DEF Syntax
<1>2. Syntax \subseteq Inert
  BY DEF Syntax, Breaking
<1>3. ASSUME NEW c \in Chars PROVE Replacement(c) \in Seq(Inert)
  <2>1. \A a, b \in Inert : <<a>> \in Seq(Inert) /\ <<a, b>> \in Seq(Inert)
    OBVIOUS
  <2>2. CASE c \in Breaking
    BY <1>2, <2>1, <2>2 DEF Replacement, Breaking, Syntax
  <2>3. CASE c \notin Breaking
    <3>1. c \in Inert /\ Replacement(c) = <<c>>
      BY <2>3 DEF Replacement, Breaking
    <3> QED BY <2>1, <3>1
  <2> QED BY <2>2, <2>3
<1> HIDE DEF Chars, Inert
<1>4. Json(text) \in Seq(Chars)
  <2>1. Escapes(text) \in Seq(Chars) /\ <<"quote">> \in Seq(Chars)
    BY <1>1, EscapesAppend
  <2>2. Json(text) = <<"quote">> \o Escapes(text) \o <<"quote">>
    BY DEF Json, Escapes
  <2> QED BY <2>1, <2>2, ConcatProperties
<1>5. Encoded(text) \in Seq(Inert)
  <2> DEFINE json == Json(text)
             pieces == [i \in DOMAIN json |-> Replacement(json[i])]
  <2>1. Len(json) \in Nat /\ DOMAIN json = 1 .. Len(json) /\ \A i \in DOMAIN json : json[i] \in Chars
    BY <1>4, LenProperties, ElementOfSeq
  <2>2. pieces \in [1 .. Len(json) -> Seq(Inert)]
    BY <1>3, <2>1
  <2>3. pieces \in Seq(Seq(Inert))
    BY <2>1, <2>2, IsASeq
  <2>4. Encoded(text) = FlattenSeq(pieces)
    BY DEF Encoded
  <2> HIDE DEF pieces
  <2> QED BY <2>3, <2>4, FlattenTyped
<1>6. \A i \in DOMAIN Encoded(text) : Encoded(text)[i] \in Inert
  BY <1>5, LenProperties, ElementOfSeq
<1> QED BY <1>6 DEF Inert

(* What trim_end_matches keeps, by its length.                             *)
LEMMA TrimmedParts ==
  ASSUME NEW S, NEW text \in Seq(S)
  PROVE  \E k \in 0 .. Len(text) :
            /\ Trimmed(text) = SubSeq(text, 1, k)
            /\ Trimmed(text) \in Seq(S) /\ Len(Trimmed(text)) = k
            /\ \A i \in 1 .. k : Trimmed(text)[i] = text[i]
            /\ k # 0 => text[k] # "/"
            /\ \A i \in k + 1 .. Len(text) : text[i] = "/"
<1> DEFINE n == Len(text)
           Kept == {0} \union {i \in DOMAIN text : text[i] # "/"}
           k == Max(Kept)
<1>1. n \in Nat /\ DOMAIN text = 1 .. n
  BY LenProperties
<1>2. Kept \in SUBSET (0 .. n) /\ Kept # {}
  BY <1>1
<1>3. k \in Kept /\ \A y \in Kept : k >= y
  <2> HIDE DEF Kept, n
  <2> QED BY <1>1, <1>2, MaxExists
<1>4. k \in 0 .. n /\ (k # 0 => text[k] # "/")
  <2>1. k \in 0 .. n
    BY <1>2, <1>3
  <2>2. k = 0 \/ text[k] # "/"
    BY <1>3
  <2> QED BY <2>1, <2>2
<1>5. ASSUME NEW i \in k + 1 .. n PROVE text[i] = "/"
  <2>1. i \in 1 .. n /\ ~(k >= i)
    BY <1>1, <1>4, <1>5
  <2>2. i \notin Kept
    BY <1>3, <2>1
  <2> QED BY <1>1, <2>1, <2>2
<1>6. Trimmed(text) = SubSeq(text, 1, k)
  BY DEF Trimmed
<1> HIDE DEF k
<1>7. /\ SubSeq(text, 1, k) \in Seq(S) /\ Len(SubSeq(text, 1, k)) = k
      /\ \A i \in 1 .. k : SubSeq(text, 1, k)[i] = text[i]
  BY <1>1, <1>4
<1> QED BY <1>4, <1>5, <1>6, <1>7

(* AppState::new takes all slashes at the end and nothing else; to do it   *)
(* twice changes nothing.                                                  *)
THEOREM TrimmingTakesTheSlashes ==
  ASSUME NEW S, NEW text \in Seq(S)
  PROVE  /\ \E slashes \in Seq({"/"}) : text = Trimmed(text) \o slashes
         /\ Trimmed(text) # <<>> => Trimmed(text)[Len(Trimmed(text))] # "/"
         /\ Trimmed(Trimmed(text)) = Trimmed(text)
<1> DEFINE n == Len(text)
           Parts(t, k) ==
              /\ Trimmed(t) = SubSeq(t, 1, k)
              /\ Trimmed(t) \in Seq(S) /\ Len(Trimmed(t)) = k
              /\ \A i \in 1 .. k : Trimmed(t)[i] = t[i]
              /\ k # 0 => t[k] # "/"
              /\ \A i \in k + 1 .. Len(t) : t[i] = "/"
<1>1. n \in Nat /\ text \in [1 .. n -> S]
  BY LenProperties
<1>2. PICK k \in 0 .. n : Parts(text, k)
  BY TrimmedParts
<1>3. \E slashes \in Seq({"/"}) : text = Trimmed(text) \o slashes
  <2> DEFINE slashes == [i \in 1 .. n - k |-> "/"]
             C == S \union {"/"}
  <2>1. slashes \in Seq({"/"}) /\ Len(slashes) = n - k
    BY <1>1, IsASeq
  <2>2. slashes \in Seq(C) /\ text \in Seq(C) /\ Trimmed(text) \in Seq(C)
    <3> HIDE DEF slashes
    <3> QED BY <1>2, <2>1, SeqMonotonic
  <2>3. \A i \in 1 .. n - k : slashes[i] = "/"
    OBVIOUS
  <2> HIDE DEF slashes, C
  <2>4. /\ Trimmed(text) \o slashes \in Seq(C) /\ Len(Trimmed(text) \o slashes) = n
        /\ \A i \in 1 .. n : (Trimmed(text) \o slashes)[i]
                = IF i <= k THEN Trimmed(text)[i] ELSE slashes[i - k]
    <3> DEFINE t == Trimmed(text)
    <3>1. t \in Seq(C) /\ Len(t) = k
      BY <1>2, <2>2
    <3> HIDE DEF t, n
    <3>2. Len(t) + Len(slashes) = n
      BY <1>1, <2>1, <3>1
    <3>3. /\ t \o slashes \in Seq(C) /\ Len(t \o slashes) = n
          /\ \A i \in 1 .. n : (t \o slashes)[i] = IF i <= k THEN t[i] ELSE slashes[i - k]
      BY <2>2, <3>1, <3>2, ConcatProperties
    <3> QED BY <3>3 DEF t
  <2>5. ASSUME NEW i \in 1 .. n PROVE text[i] = (Trimmed(text) \o slashes)[i]
    <3>1. CASE i <= k
      BY <1>2, <2>4, <3>1
    <3>2. CASE ~(i <= k)
      <4>1. i - k \in 1 .. n - k /\ i \in k + 1 .. n
        BY <1>1, <3>2
      <4> QED BY <1>2, <2>3, <2>4, <3>2, <4>1
    <3> QED BY <3>1, <3>2
  <2>6. text = Trimmed(text) \o slashes
    BY <2>2, <2>4, <2>5, SeqEqual
  <2> QED BY <2>1, <2>6
<1>4. Trimmed(text) # <<>> => Trimmed(text)[Len(Trimmed(text))] # "/"
  <2>1. k = 0 => Trimmed(text) = <<>>
    BY <1>2, EmptySeq
  <2> QED BY <1>2, <2>1
<1>5. Trimmed(Trimmed(text)) = Trimmed(text)
  <2> DEFINE t == Trimmed(text)
  <2>1. t \in Seq(S) /\ Len(t) = k
    BY <1>2
  <2>2. k # 0 => t[k] # "/"
    BY <1>2
  <2> HIDE DEF t
  <2>3. PICK j \in 0 .. k : Parts(t, j)
    BY <2>1, TrimmedParts
  <2>4. j = k
    BY <2>1, <2>2, <2>3
  <2>5. Trimmed(t) = t
    BY <2>1, <2>3, <2>4, SeqEqual
  <2> QED BY <2>5 DEF t
<1> QED BY <1>3, <1>4, <1>5

-----------------------------------------------------------------------------
(* A page that runs has the origin of a server that ran during its load,   *)
(* whatever characters that is of.                                         *)
THEOREM PagesHaveTheirOrigin == SiteSafety => []OriginIsCurrent
<1>1. SiteInvariant => OriginIsCurrent
  <2> SUFFICES ASSUME SiteInvariant, got["config"] # 0
               PROVE  \E k \in since .. release : ApiOrigin = Trimmed(origin[k])
    BY DEF OriginIsCurrent
  <2>1. got["config"] \in since .. release /\ got["config"] \in 1 .. MaxReleases
    BY RequestsAssumption, BoundsAssumption DEF SiteInvariant, SiteTypeOK, ConfigIsFresh
  <2>2. origin[got["config"]] \in Seq(STRING)
    BY <2>1, OriginsAssumption DEF SiteInvariant, SiteTypeOK
  <2>3. Trimmed(origin[got["config"]]) \in Seq(STRING)
    BY <2>2, TrimmedParts
  <2>4. ApiOrigin = Trimmed(origin[got["config"]])
    BY <2>3, EncodingIsLossless DEF ApiOrigin
  <2> QED BY <2>1, <2>4
<1> QED BY <1>1, SiteInvariance, PTL
=============================================================================
