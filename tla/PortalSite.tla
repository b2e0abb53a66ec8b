----------------------------- MODULE PortalSite -----------------------------
(***************************************************************************)
(* The portal as a browser meets it (src/lib.rs): a page, /config.js and   *)
(* /assets/app.js from a server that is stopped and started again, perhaps *)
(* with another FTNL_API_ORIGIN, through a cache that keeps what it may.   *)
(*                                                                         *)
(* Each resource is one connection of PortalRuntime.  External: the        *)
(* browser, which fetches the two scripts once it has the page and runs    *)
(* them in their order (web/index.html), and who starts the server.        *)
(***************************************************************************)
EXTENDS PortalRuntime, ConfigScript, Naturals

CONSTANTS
    Origins,        \* values of FTNL_API_ORIGIN
    MaxReleases,    \* bound on how often the server is started
    MaxLoads        \* bound on how often the page is loaded

ASSUME RequestsAssumption == Requests = {"page", "config", "script"}
ASSUME OriginsAssumption == \A o \in Origins : o \in Seq(STRING)
ASSUME BoundsAssumption == MaxReleases \in Nat \ {0} /\ MaxLoads \in Nat

VARIABLES
    release,        \* which start of the server this is
    origin,         \* the setting of each
    loads,
    since,          \* the release when the latest load began
    settled,        \* resources this load has, or will not get
    got,            \* the release that made each of them, 0 for none
    cached          \* likewise for the browser's cache

server   == <<release, origin>>
load     == <<loads, since, settled, got>>
siteVars == <<vars, server, load, cached>>

None == [r \in Requests |-> 0]

SiteTypeOK ==
    /\ TypeOK
    /\ release \in 1 .. MaxReleases
    /\ origin \in [1 .. MaxReleases -> Origins]
    /\ loads \in 0 .. MaxLoads
    /\ since \in 0 .. release
    /\ settled \in SUBSET Requests
    /\ got \in [Requests -> 0 .. release]
    /\ cached \in [Requests -> 0 .. release]

SiteInit ==
    /\ Init
    /\ release = 1
    /\ origin \in [1 .. MaxReleases -> Origins]
    /\ loads = 0
    /\ since = 0
    /\ settled = Requests
    /\ got = None
    /\ cached = None

-----------------------------------------------------------------------------
(* The server.                                                             *)

Running ==
    /\ \/ Start \/ InstallHandler \/ InstallFails \/ BeginDrain \/ Drained \/ Signal
       \/ \E r \in Requests : Accept(r) \/ Leave(r)
    /\ UNCHANGED <<server, load, cached>>

(* A new process.                                                          *)
Restart ==
    /\ stage \in Over
    /\ release < MaxReleases
    /\ release' = release + 1
    /\ stage' = "starting" /\ exit' = "none" /\ telemetry' = "none" /\ events' = <<>>
    /\ handler' = FALSE /\ signaled' = FALSE /\ terminated' = FALSE
    /\ UNCHANGED <<pid1, request, origin, load, cached>>

(* Wrong on purpose: the configuration is sent like any other asset.       *)
CacheableAssets == {"config", "script"}

(* Which responses are not "no-store".                                     *)
Cacheable == {"script"}

-----------------------------------------------------------------------------
(* The browser.                                                            *)

(* It closes what the last load had open.                                  *)
Navigate ==
    /\ loads < MaxLoads
    /\ loads' = loads + 1
    /\ since' = release
    /\ settled' = {}
    /\ got' = None
    /\ request' = [r \in Requests |-> "none"]
    /\ UNCHANGED <<process, signals, server, cached>>

Wanted(r) == r \notin settled /\ (r = "page" \/ got["page"] # 0)

Get(r, made) ==
    /\ settled' = settled \union {r}
    /\ got' = [got EXCEPT ![r] = made]
    /\ UNCHANGED <<loads, since>>

(* Without the page there is nothing else to get.                          *)
Miss(r) ==
    /\ settled' = IF r = "page" THEN Requests ELSE settled \union {r}
    /\ UNCHANGED <<loads, since, got>>

Fetch(r) ==
    /\ Wanted(r)
    /\ Connect(r)
    /\ UNCHANGED <<server, load, cached>>

FetchFromCache(r) ==
    /\ Wanted(r)
    /\ request[r] = "none"
    /\ cached[r] # 0
    /\ Get(r, cached[r])
    /\ UNCHANGED <<vars, server, cached>>

Deliver(r) ==
    /\ Wanted(r)
    /\ Answer(r)
    /\ Get(r, release)
    /\ cached' = IF r \in Cacheable THEN [cached EXCEPT ![r] = release] ELSE cached
    /\ UNCHANGED server

(* Nobody listens, or the connection breaks.                               *)
FetchFails(r) ==
    /\ Wanted(r)
    /\ \/ request[r] = "none" /\ stage # "serving"
       \/ request[r] \in {"left", "cut"}
    /\ Miss(r)
    /\ UNCHANGED <<vars, server, cached>>

(* max-age=300 passes.                                                     *)
Expire(r) ==
    /\ cached[r] # 0
    /\ cached' = [cached EXCEPT ![r] = 0]
    /\ UNCHANGED <<vars, server, load>>

-----------------------------------------------------------------------------
Browse(r) == Fetch(r) \/ FetchFromCache(r) \/ FetchFails(r)

SiteNext ==
    \/ Running \/ Restart \/ Navigate
    \/ \E r \in Requests : Browse(r) \/ Deliver(r) \/ Expire(r)

SiteSafety == SiteInit /\ [][SiteNext]_siteVars

(* The server as in PortalRuntime; the browser goes on with a load.        *)
SiteSpec ==
    /\ SiteSafety
    /\ Fairness
    /\ \A r \in Requests : WF_siteVars(Browse(r))

-----------------------------------------------------------------------------
(* app.js runs, after config.js if there was one.                          *)
AppRuns == settled = Requests /\ got["script"] # 0

ApiOrigin ==
    IF got["config"] = 0 THEN NoConfig
    ELSE Evaluated(Encoded(Trimmed(origin[got["config"]])))

(* A page that runs talks to the API the server was configured with when   *)
(* the load began or later, or to none: no cache brings an old one back,   *)
(* however the server is restarted meanwhile, and no character of it is    *)
(* lost on the way into the script.                                        *)
OriginIsCurrent ==
    AppRuns /\ got["config"] # 0 =>
        \E k \in since .. release : ApiOrigin = Trimmed(origin[k])

(* A load ends, with what it got by then, though the server may shut down, *)
(* die or be away at any moment of it.                                     *)
LoadEnds == settled # Requests ~> settled = Requests
=============================================================================
