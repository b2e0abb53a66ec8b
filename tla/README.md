# Verification of ftnl-web-server

TLA+ models of the File Tunnel web surfaces, the TLC runs that check them on
small instances, and TLAPS proofs of their safety properties for instances of
any size. File and line numbers refer to the repository (`src/control.rs` is the
file under `src/src/` in a checkout that keeps the repository in `src/`).

## The system

The repository builds two programs and one web page:

* `ftnl-web-server` serves the anonymous upload portal: one HTML page and its
  script. All transfer state lives in the page (`web/app.js`) and in the File
  Tunnel API it calls; the server itself keeps none.
* `ftnl-control-web` serves account-authenticated status pages. A request is
  authenticated, then answered by one of four interchangeable backends behind
  the `TunnelBackend` trait.

| component | state | operations | what is hard | what makes it correct |
| --- | --- | --- | --- | --- |
| `TunnelBackend` (control.rs 109-129) | none; one call per request | `lookup` | four transports, one promise | a call returns its own verdict or "unavailable", once; it ends |
| tcp backend (251-319, 368-403) | one `Mutex<Framed<TcpStream>>` for the life of the program | `lookup`: lock, send, receive, decode | deadlines and dropped handlers leave lines on a shared connection | exclusive use, no line twice, no mixed-up answer, no lost lock |
| nats backend (321-366) | one client; the broker correlates by inbox | `lookup` | answers after the deadline, no responders | as the contract |
| http backend (189-249) | connection pool of reqwest | `lookup` | deadline over headers and body, status mapping, body limit | as the contract |
| direct_read backend (131-187) | database pool | `lookup` | pool exhaustion, no deadline of its own | reads only the actor's own row |
| control handlers (72-107, 405-530) | none | three routes, `load_tunnel`, error mapping | degraded authority fails closed | no backend call without an actor; status follows the outcome |
| control startup (bin/ftnl-control-web.rs) | settings | mode selection, transport checks | exactly one mode, no fallback | never starts with a forbidden transport |
| runtime lifecycle (runtime.rs) | listener, telemetry handle | run, shutdown | early returns, drain order | telemetry is closed once it has listened or failed to; drains before exit |
| configuration flags (flags.rs) | resolved map in a `OnceLock` | `resolve_from`, `process_control`, `var` | five sources that override one another, one merged by a script before the program starts; values that are typed or refused | each setting is what its strongest source says; nothing weaker can stop the program |
| portal web server (lib.rs) | the API's origin | page, `/config.js`, `/assets/app.js` and their cache directives | encoding of a setting into a script; restarts and shutdowns between the requests of one page load | a page that runs has the origin of a server of its time, unaltered; a load ends |
| upload page (web/app.js) | capability, counters, rows, sessionStorage | load, pairing, pick, upload, Done | concurrent uploads, lost answers, reloads, missing scripts, failing storage | counters exact, "Sent" true, Done final, page stays usable, a reload continues it |
| observability (observability.rs) | the logger | lifecycle events | exits at any point | one life in order, closed with nothing more to say |
| secrets entrypoint (scripts/sops-entrypoint.sh) | environment | decrypt and exec | partial failure, precedence | the orchestrator's values win |

Calls: page → File Tunnel API (HTTP); control handler → authenticator → backend
→ API, broker or database. Shared state: the tcp connection between all requests
of the control program; the page's variables between all its uploads; the shell's
variables between the entry point, the bundle and the environment it hands on. The
rest is per request.

Not modelled: `web_api_plane.rs` (constant policy tables for another crate, without
input, state or branch), lint, CI, container and Nix files.

## Modules

* `LookupOutcomes` — verdicts, results, and which becomes which (`decode_reply`).
* `TunnelBackend` — the trait's contract: an admitted call is *open* until it
  returns its own verdict (`Answer`), returns "unavailable" (`Fail`) or is dropped
  (`Abandon`). `Spec` adds that an open call ends.
* `TcpBackend` — the tcp mode, one action per step of `lookup` between two awaits.
  `bytes` is the size of the authorization in JSON, where `JsonBytes` adds a byte for every
  quote, backslash or tab.
  `pc` is where a call is: *waiting* in `lock().await`, *feeding* and *flushing*
  inside `framed.send`, *receiving* inside `framed.next`. `wbuf` is Framed's write
  buffer, `inbound` the lines the API sent and nobody read, `stream` Framed's
  error state (after a decoding error it yields `None` once and then pauses).
  Dropping a handler (`CancelWaiting`, `CancelHolding`) is possible at every await.
  The API answers what it read in any order, each line at most once, with the
  request id, with none, unreadably, or not at all; it may hang up.
* `TcpBackendProperties`, `MCTcpBackend`, `TcpBackendProofs` — properties and the
  refinement mapping, the TLC instance, the proofs. (A component without an `MC`
  module is instantiated by its cfg alone.)
* `Transfer` — what the page promises whoever holds the link: a session that is
  unpaired, open or complete; files that are under way, then sent or failed; what the
  other side holds. A file is called sent only if it is held; what was begun ends.
* `UploadPortal` — the page in one tab. `Load` starts a document: everything but
  sessionStorage is reset and the script runs to its first await, with an API origin
  to talk to (`configured`) or, if `/config.js` did not load, without; `LoadInert` is a
  document whose `app.js` did not load or could not read its storage;
  `ClaimNotStored` is a `setItem` that throws. `wire[u]` is
  the request an upload awaits; requests may fail before or after the API
  handled them, and those of a document that is gone may still be handled.
  `Settle` is the `finally` block of `upload`.
* `UploadPortalProperties`, `MCUploadPortal`, `UploadPortalProofs` — likewise; `Promise` is
  the refinement mapping to `Transfer`.
* `NatsBackend` — one request per lookup with one deadline. `request[l]` is its
  message, `reply[l]` what is in its inbox; the responder may serve it after the
  call ended, the broker may lose either, and an answer may name another request
  or be unusable. `HttpBackend` — one GET; a call awaits its *head*, then its *body*,
  under one deadline; something on the way may answer instead of the API.
  `DirectReadBackend` — one SELECT; a call is *acquiring* a pooled connection, then
  *querying*; `busy` are the calls whose query occupies a connection, dropped calls
  included. Each defines `Contract == INSTANCE TunnelBackend WITH ...`.
* `ControlWeb` — the handlers over the contract itself: the lookups' variables are
  `TunnelBackend`'s, whose `Answer`, `Fail` and `Decide` are the backend's and the
  authority's steps; `Call` and the dropping of a lookup in `Leave` are the handlers' and
  do not look at the lookup. `mode` is *direct_read*, where the header is not looked at and
  nothing bounds a query, or *forwarding* (http, tcp, nats). `Nobody`, `Degraded` and `LookUp` are
  the arms of `load_tunnel`, `Loaded` its return, `StatusOf` the status; `Interrupt`
  and `Stop` are the graceful shutdown of `main`.
* `PortalRuntime` — one life of `ftnl-web-server`: the early returns of `run`, the
  installation of the SIGINT handler (in a task of axum's, so a signal may come
  before it), connections in the backlog, and the signals themselves. `Log` is
  `observability.rs`; `telemetry` is its logger.
* `ConfigScript` — text as a sequence of the characters that matter: `Trimmed` and
  `Encoded` are `AppState::new` and `encode_runtime_config_string`, `Evaluated` is what a
  browser makes of the literal. Pure operators, folds over the text.
* `PortalSite` — `PortalRuntime` as a browser meets it. Its three requests are the page,
  `/config.js` and `/assets/app.js`; `Deliver` is an answer of a handler of `lib.rs`, kept by
  the browser's cache if `Cacheable`; `Navigate` starts a load, `Restart` a new process with
  another setting, so a load can meet two releases, one of them only in the cache.
  `MCPortalSite` is its instance, `PortalSiteProofs` its proofs.
* `ControlProgram` — `main` of `ftnl-control-web`: `Settings` are the kinds of settings
  its checks tell apart; of a URL (`Urls`) that is where it leads and how it is written,
  because `ForbidsRemoteCleartext` compares the beginning of the text and
  `HttpBackendAccepts` the parsed host; `Refuse`, `CannotConnect` and `CannotBind` are its early
  returns; once it listens, the lookups are those of the mode it selected, taken from
  `INSTANCE`s of the three modules above and, for tcp, of the contract. `MCControlProgram`
  leaves out settings that no mode tells apart.
* `SopsEntrypoint` — the entry point script line by line. `var` is the shell's one
  space of variables, which holds the environment, the names of the bundle and the
  script's own `key`, `value` and `secrets`; `exported` are those a command gets.
* `Flags` — `resolve_from` as operators on layers: `Raw` lays dotenv, environment, dotenv
  overrides and flags over one another, `Typed` is the contract's typing and defaults,
  `Resolvable` when it succeeds, `Resolved` what `var` returns from then on.
* `Launch` — a container from its start to a program that knows its settings: the steps
  of `SopsEntrypoint`, then `ResolveFails`, `AnswerControl` (help, version) or `Serve` on the
  environment that the script handed over.
* `NatsBackendProofs`, `HttpBackendProofs`, `ControlProgramProofs`, `ControlWebProofs`,
  `LaunchProofs` (of `SopsEntrypoint` and `Launch`), `MCLaunch` — proofs and the instance of
  these.

How they compose: `ControlWeb` instantiates `TunnelBackend`; the backends implement
`TunnelBackend`; `ControlProgram` selects among them and implements it in every mode;
all share `LookupOutcomes`. `Launch` extends `SopsEntrypoint` and applies `Flags` to what it
hands over; `PortalSite` extends `PortalRuntime` and `ConfigScript`, which it applies to the setting;
`UploadPortal` implements `Transfer`. Where `Launch` ends (`Serve`), `PortalRuntime` is past
`ExitEarly`; what `PortalSite` delivers or fails to deliver is what `Load` and `LoadInert` of
`UploadPortal` start with.

Operators introduced by "Wrong on purpose" are the mistakes the properties are
there to catch; nothing uses them, and replacing the definition they vary by one
of them makes TLC report the property named in `PROJECT.json`.

What the models leave out: in `TcpBackend`, the failures of `serde_json::to_string`
and of `validate_request_id` on a fresh request id, which cannot occur; partial
lines (a line is written when its last byte is); the summary a verdict carries.
In `ControlProgram`, the optional
`SHARED_AUTH_JWKS_URL`, which `main` hands on unchecked. In `UploadPortal`, file metadata, progress and wording; a second tab at the same time and
the expiry of a capability are, to this tab, an API that refuses, which it may do at
any time. In `HttpBackend` a 401
or a 404 is taken for the API's own, as the code takes it. In `DirectReadBackend` the
view does not change, and rows are told apart by whether they can be read. In
`ControlWeb` a request's guard outcome is chosen freely, markup is left out, and the
window before the SIGINT handler is installed is `PortalRuntime`'s. In
`PortalRuntime` handlers have no state, as `lib.rs` has none. In `PortalSite`, one browser, the
stylesheet, the manifest, the health route and the constant headers are left out, and the
cached script has no content of its own. In `Flags` a value is well or ill typed, only
booleans have several spellings, and the help is not laid out; the typing covers what the
contract declares, because an undeclared name comes back from it as nothing. In `SopsEntrypoint` a
value is known by how its '=' signs lie, and the variables the script only reads
(`SOPS_*`) and shell-internal ones are not names of a bundle.

## Runs

| run | instance | shows |
| --- | --- | --- |
| `tcp` | 3 lookups, 2 header sizes, 2 verdicts, 2 buffered lines | type, lock, one line per call, no mixed-up answers, leftovers, backlog; every admitted call ends; refinement of `TunnelBackend!Spec` |
| `control_program` | 2 lookups, 2 actors, 1 tunnel, 1 pooled connection, all modes, 7 kinds of URL | only the configured transport, and no plain HTTP to a remote API; owners' rows only; waiting for a connection ends; refinement of `TunnelBackend!Spec` in every mode, with a database that answers |
| `control_web` | 2 requests, both modes | justified statuses, no lookup without an actor; graceful shutdown ends, in the direct_read mode with a database that answers |
| `site` | 3 resources, 2 releases, 2 loads, 2 origins | order of lifecycle events, nothing left behind, only death cuts a request, a shutdown that began ends; a load ends, with an API origin of its time |
| `launch` | 6 names, bundles of up to 2 lines, every combination of sources of one name | precedence, all or nothing, failures to decrypt are fatal; settings follow their strongest source, outcomes are justified |
| `portal` | 3 files, 3 loads | counters, "Sent", Done, usability, pairing, reloads; uploads and pairing end when requests are answered; refinement of `Transfer!Spec` |

Three lookups let one hold the connection while one queues behind another that is
dropped, or behind a line that was left; with two buffered lines the write buffer
fills up by two failed sends. Header sizes are 200 and 16385 bytes, one on each
side of the limit; in `tcp_line_size` also 16384, and 8200 with 8184 escaped characters.
The seven kinds of URL cover what either check accepts and all ways to write a remote
cleartext one; capitals in the own host's name, which `main` refuses needlessly, are left out. In `tcp` two verdicts are enough to
mix answers up; `control_program` uses all five. Three files let one upload run, one
fail and one be picked while Done is shown; three loads let a reload meet a pairing
that is in flight and one that is stored. The lookups of nats and http share nothing
but the broker or the API, so two show every way one's answer could reach the other;
two lookups compete for the one connection of the pool, and two actors for one tunnel
are an owner and a stranger. Two requests let one be served while another holds the
shutdown up, three let one more be in the backlog; two lines let a bundle repeat a name.
Two releases and two loads let a load begin before a restart and end after it, and let a
later load meet what an earlier one left in the cache; of the two origins one is as
documented with slashes to trim, the other has every character that JSON, HTML or a
script treats in a way of its own, next to others and at both ends. `MCLaunch` varies all
sources of one name at a time, because names meet only in the script, whose own instance
varies all names together. Bounds that are not sets: `BackpressureFrames` (write buffer),
`PoolSize`, `MaxLoads` (documents of a tab, loads of a browser), `MaxReleases` (starts of the
server) and `MaxLines` (lines of a bundle). Everything else is finite by itself.

Runs that are expected to find a violation, each a disagreement between the code
and what it or its documentation says:

* `tcp_late_answer` — a lookup that timed out or was dropped leaves its answer on
  the connection; the next lookup reads that, finds a foreign request id and
  reports "The authority required to decide this request is unavailable"
  (control.rs:518) while its own answer lies behind it. `BacklogNeverDrains`,
  proved for every instance, says that no later lookup makes it good.
* `tcp_line_size` — the authorization may fill 16 KiB by itself, and the encoder
  does not enforce a maximum, so a line can exceed the "16 KiB newline-framed
  connection" of docs/control-web.md:23: by the 119 bytes of the envelope, and by one
  more for every character of the header that JSON escapes.
* `control_cleartext` — "Remote Shared Auth and API HTTP endpoints require TLS"
  (docs/control-web.md:31). `main` looks only at how the text of `SHARED_AUTH_BASE_URL`
  begins, so a plain-HTTP URL with its scheme in capitals, or with a remote host whose
  name begins like a loopback one, passes. `NoFallback` says that the API's URL, which
  `HttpBackend::new` parses, is not concerned.
* `portal_lifetime` — docs/web-api-data-access.md:45-47 says that clients bound the
  total lifetime of an upload; without an answer one of the page's never ends.
* `runtime_sigterm` — scripts/sops-entrypoint.sh:56 makes the program PID 1 "so
  docker stop / k8s SIGTERM reach it directly"; `shutdown` listens to SIGINT only, so
  SIGTERM is ignored there until SIGKILL, and kills at once elsewhere.
* `sops_intact` — `read` with `IFS='='` takes a single '=' at the end of a line for a
  separator: `A=abc=` exports `abc`, against "so URLs, base64 and JWTs stay intact"
  (line 41). `abc==` and `a=b=` are not changed.

Also seen while modelling, with no run of its own: Done says "Your files are available on
the other device" (app.js:175) with failed uploads in the queue too
(`OnlyFailuresAreUndelivered`); the page starts every picked file at
once although docs/web-api-data-access.md:45-47 asks for a bound on concurrent uploads
(`Pick` has none); the pool bounds acquiring (`WaitersGiveUp`) but nothing bounds the
query of `direct_read`, against the "bounded pool/query timeout" of
docs/web-api-data-access.md:29-32, so its lookups, and a shutdown that waits for one, end
only with a database that answers;
`HttpBackend::new` lists `::1` (control.rs:199) but a parsed IPv6 host has brackets, so
`http://[::1]` is refused for the API while `main` accepts it for Shared Auth;
the constant policy of lib.rs:122 lets the page connect over plain HTTP to
`http://127.0.0.1:8080` only, so any other `http:` value of `FTNL_API_ORIGIN` reaches the page
(`OriginIsCurrent`) and is then blocked by it; `app.js` may be up to 300 seconds older than the
page and its configuration (lib.rs:84), which is harmless as long as the two agree on
`__FTNL_CONFIG__`; a bind address that does not parse returns with the logger still open
(runtime.rs:62), so "starting" is the last event; and
container variables named `key`, `value` or `secrets` do not survive the entry point
(`OwnNames`), against "Orchestrator-set variables win".

## Fairness

`TcpBackend!Fairness`: the tokio runtime polls a task that can go on and fires
its timers, so acquiring a free lock at the head of the (fair) queue, the steps
of a send and the steps of a receive are weakly fair. Nothing is assumed of the
clients or the API: the deadlines alone end a call. `UploadPortal!Spec`: the
browser runs the handler of an event that has happened. `AnsweredSpec` adds that
the network answers every request somehow; this is an assumption about the
environment, not something the code ensures, and `portal_lifetime` shows what
happens without it. No user action is fair.

`NatsBackend`, `HttpBackend` and `DirectReadBackend` assume only that tokio polls what is
ready and fires the deadline (for the last, the pool's acquire timeout, which sqlx has by
default); `ControlProgram` assumes the same of the mode it is in. `DatabaseAnswers` is an
assumption about the database, and stands on the left of an implication:
`ImplementsTunnelBackend` asks for the contract's fairness in the direct_read mode only
where it holds. `ControlWeb` takes from the guard its
deadlines (bin/ftnl-control-web.rs:49,53) and from the backends that forward theirs; of a
query of the direct_read mode nothing is assumed, and `DrainEnds` says that a shutdown ends
there if the database answers (`DatabaseAnswers`, on the left of its implication). `PortalRuntime!Spec` assumes that the runtime polls its tasks, that accepted
requests are answered or left by their clients, and that an orchestrator that sent
SIGTERM sends SIGKILL in the end; the last matters only to the finding. `PortalSite!SiteSpec`
adds that a browser goes on with a load it has begun; nobody is obliged to start one, or
to restart the server. `Transfer!Spec` asks that a file that was begun ends, which the page
keeps under `AnsweredSpec`.

## Proofs

`TcpBackendProofs` assumes of its constants that `NoOne` is not a lookup, that the
sizes are natural numbers with room for one buffered line, and that the API's
verdicts are `Verdicts`; the set of lookups may be infinite. `IInv` is inductive:
besides the properties themselves it needs that a call which has not fed its line
is unknown to the API (`UnsentIsUnknown`; otherwise feeding could duplicate a
line) and that the answers under way carry the API's verdict
(`AnswersAreTruthful`; otherwise reading one could return something else). From it
follow `TypeOK`, `LockDiscipline`, `OneLinePerLookup`, `OnlyOwnVerdict`,
`LeftoversAreOfFailedCalls` (with the extra invariant that a call which has returned
anything but "unavailable" has taken its line off the connection), the action property
`BacklogNeverDrains` (with the finiteness of what the API holds) and
`Safety => Contract!Safety`, step by step.

Three statements that the code does not keep have a theorem that says how far it is from
them, so that a change of the code that widens the gap breaks a proof:

* `OnlyABehindConnectionMisleads` (`tcp_late_answer`) — a call whose own answer has arrived
  returns "unavailable" only on a connection that earlier calls left lines on, or one whose
  framing has failed. `UnavailableMeansUnanswered` without those two is the code's.
* `OnlyLonePadsAreLost` (`sops_intact`) — a bundle none of whose values has its only '=' at its
  end stays intact; `LossIsBounded`: any other name loses that one '=' and nothing else.
* `OnlyFailuresAreUndelivered` (app.js:175) — the last screen is true of every queue
  without a failed row; `CompletionIsAccountedFor`: no file is lost without such a row.

`UploadPortalProofs` assumes finitely many files. `IInv` adds to the properties
`PageFollowsPairing`: what is enabled, queued or offered follows from how far
pairing got. `SettleCounts` is the heart of it: one row fewer runs, one fewer is
counted, and the last one offers Done. `PageImplementsTransfer` proves
`Safety => Promise!Safety`, action by action: that a Done offered and clicked with
nothing under way is `Finish` needs the counter to be exact (`BusyCountsRunningUploads`).
`CompleteStaysComplete` and `RowsAreFinal` are action properties that follow from the same
invariant: after "Transfer complete" there is no picker, no Done, no open claim and no
running row, so no event or late answer has a handler that could change the page.

`NatsBackendProofs` and `HttpBackendProofs` prove `Spec => Contract!Safety`. Their
`IInv` says in which order call, message, verdict and reply come to be
(`ServedAfterAsked`, `AnsweredAfterAsked`: otherwise the API could decide twice, or
about a call that was refused) and that what is on its way back is true
(`InboxIsTruthful`, `ResponsesAreTruthful`). They assume nothing.

`ControlProgramProofs` proves `NoFallback` without looking into the backends: `Selected`
says that what startup accepted stays accepted, that nothing is looked up before the
program serves, and that each mode leaves the others' variables as they were. That no GET
goes to a remote API over plain HTTP relates where a URL leads (`RemoteCleartext`) to what
`HttpBackend::new` accepts; of Shared Auth it says only that a URL is set and not plainly
remote cleartext, which is all `main` makes sure of.
`OwnRowsOnly` does look into one: in the direct_read mode verdicts and results fit the
view (`RowsFit`), for any view, any pool and any number of lookups.
`ModeInvariance` and `ProgramImplementsContract` carry what is proved of the backends into
the program: `ModeInv` is the invariant of the backend the mode selects; the lemmas
`NatsStep` and `HttpStep` take theirs from `NatsBackendProofs` and `HttpBackendProofs`, and
`DirectReadKeeps` and `DirectReadImplements` prove those of the third, where a connection
is occupied only for a call that awaits its query or is gone. `PhaseOfTheMode` says that
each mode hides its own phases from the contract and no other's. What the contract itself
implies is proved of it once (`ContractStep`) and holds of the program in every mode:
`ProgramReturnsOwnResults` and, as an action property, `ProgramTakesNothingBack`.

`ControlWebProofs` assumes nothing. `CallsFollowRequests` ties a lookup's phase to the
stage of its request and its result to its verdict; that `StatusOf` and `ResultOf`
undo each other as far as needed is the lemma `Outcomes`. `HandlersKeepTheContract` is the
other half of the contract: the handlers' steps are, for the lookups, steps of
`TunnelBackend`. `Call` and `Leave` have no guard on the lookup, so this rests on the
invariant: a request that is still being authorized has no lookup yet, and only a request
that is loading has an open one. A second lookup of a request, or one after its answer,
would be a step the contract does not have. `ResponsesAreFinal`
and `StoppedStaysStopped` are action properties: a request is decided and answered once, and
after the shutdown nothing moves but an authority that decides for nobody.

`LaunchProofs` assumes that the script's own names are names outside the contract, that an
unset variable is not a value, and that typing spells values as values. The script's
`IInv` says that after k lines the environment is what the first k lines and the
orchestrator make it (`Merges`); reading one more line either skips or exports, which are
the lemmas `SkipMerges` and `ExportMerges`. `LaunchInvariant` carries that through the
resolution (`LaunchKeepsTheEntrypoint`: the launch implements the entry point), where
`Resolved` is unfolded source by source against the priority that `FirstSet` states.

`PortalSiteProofs` assumes the three resources and that a server is started at least once.
`SiteInvariant` says what is logged at each stage (`LogFollowsStage`), that connections wait
only for a listener and are served only by a process that listened
(`RequestsFollowStage`), and that the cache has no configuration (`ConfigIsFresh`), through
any restarts. `PagesHaveTheirOrigin` holds for every setting: `EncodingIsLossless` proves
that what a browser evaluates the literal to is the text that was encoded, for texts of any
length over the characters the model tells apart, and `EncodingIsInert` that the encoding
leaves no `<` and no line separator. The only assumption (`OriginsAssumption`) is that an
origin is a text. `FoldLeft` and `FlattenSeq` of the community modules unfold to recursive
functions on the naturals, whose values the section "The encoding of the setting" derives
from the existence of a function for every length; the induction over the length is a least
counterexample (`Least`), since the library's induction theorems take an operator that
the provers cannot instantiate. The heart is `TextEvaluates`: the escapes are produced and
consumed one character at a time, so neither a backslash before a `<` nor a quote next to
another is read as part of its neighbour.

Only model-checked: the liveness properties and the liveness parts of the refinements
(fairness and ENABLED), which the prover cannot treat. Every safety property of a passing run
is stated by a theorem.

## Plan

1. Done: `TunnelBackend`, `TcpBackend`, `UploadPortal`, their runs and proofs.
2. Done: `NatsBackend`, `HttpBackend`, `DirectReadBackend`, each refining
   `TunnelBackend`; `ControlProgram`, which selects among them; `ControlWeb` over the
   contract; `PortalRuntime`; `SopsEntrypoint`; their proofs.
3. Done: `Flags` and `Launch` over `SopsEntrypoint`; `ConfigScript` and `PortalSite` over
   `PortalRuntime`; loading and storage failures in `UploadPortal`, and `Transfer`, which it
   implements; proofs of these and of `OnlyTheActorsRows`.
4. Done: `DirectReadBackend` and, from the three backends, `ControlProgram` proved to
   implement `TunnelBackend` (safety) in every mode.
5. Done: the encoding of the setting proved lossless for every text; the boundaries of three
   statements the code does not keep; what the backends' contract implies for the program; the handlers' side of
   the contract and the finality of responses; what a completed page and a settled row
   may no longer do.
6. To do: what the contract implies for the tcp connection, as an action property; the
   program as one composition, `ControlWeb` over `ControlProgram`
   instead of over the contract, if a property turns up that the contract hides.
