--------------------------- MODULE ControlProgram ---------------------------
(***************************************************************************)
(* main of ftnl-control-web (src/bin/ftnl-control-web.rs): the settings    *)
(* select one mode at startup, its backend is made, and serves every       *)
(* lookup from then on.  The backends are those of NatsBackend,            *)
(* HttpBackend and DirectReadBackend; that of the tcp mode is left to its  *)
(* contract here, which TcpBackend implements.  The handlers between the   *)
(* listener and the backend are in ControlWeb.                             *)
(*                                                                         *)
(* External: whether a server can be connected to and an address bound.    *)
(***************************************************************************)
EXTENDS LookupOutcomes

CONSTANTS Lookups, Tunnels, Actors, PoolSize

VARIABLES
    stage,                      \* of the process
    settings,                   \* what it was started with: never changes
    phase, verdict, result,     \* of each lookup
    message, reply,             \* of the nats mode
    get, response,              \* of the http mode
    query, busy, view           \* of the direct_read mode

callVars  == <<phase, verdict, result>>
natsVars  == <<message, reply>>
httpVars  == <<get, response>>
queryVars == <<query, busy, view>>
vars      == <<stage, settings, callVars, natsVars, httpVars, queryVars>>

Nats       == INSTANCE NatsBackend WITH request <- message
Http       == INSTANCE HttpBackend WITH request <- get
DirectRead == INSTANCE DirectReadBackend
Tcp        == INSTANCE TunnelBackend

(* What a URL leads to and how it is written: plain HTTP to the own host,  *)
(* by name or IPv4 ("loopback") or IPv6; to another host, written so       *)
(* ("cleartext"), with a host that begins like a loopback one              *)
(* ("lookalike"), or with a scheme in capitals ("respelled").              *)
Urls == {"malformed", "https", "loopback", "loopback_v6",
         "cleartext", "lookalike", "respelled"}
RemoteCleartext == {"cleartext", "lookalike", "respelled"}

(* auth is SHARED_AUTH_BASE_URL with its issuer and audience, target the   *)
(* address the mode requires: of the http mode a URL, of the others the    *)
(* "local" or a "remote" host.                                             *)
Settings ==
    [options : {"help", "invalid", "valid"},
     auth    : {"missing"} \union Urls,
     mode    : {"unset", "direct_read", "http", "tcp", "nats", "unknown"},
     target  : {"missing", "local", "remote"} \union Urls,
     mesh    : BOOLEAN,
     bind    : {"malformed", "valid"}]

(* Wrong on purpose: a mode that is unknown is taken for the default.      *)
ModeFallingBack == IF settings.mode \in {"unset", "unknown"} THEN "http" ELSE settings.mode

Mode == IF settings.mode = "unset" THEN "http" ELSE settings.mode

InitWith(all) ==
    /\ stage = "starting"
    /\ settings \in all
    /\ Nats!Init
    /\ Http!Init
    /\ DirectRead!Init

Init == InitWith(Settings)

-----------------------------------------------------------------------------
(* Startup.                                                                *)

Move(to) ==
    /\ stage' = to
    /\ UNCHANGED <<settings, callVars, natsVars, httpVars, queryVars>>

(* forbids_remote_cleartext compares how the text of a URL begins.         *)
StartsWithHttp     == {"loopback", "loopback_v6", "cleartext", "lookalike"}
StartsLikeLoopback == {"loopback", "loopback_v6", "lookalike"}
ForbidsRemoteCleartext(url) == url \in StartsWithHttp \ StartsLikeLoopback

AuthAccepted ==
    /\ settings.options = "valid"
    /\ settings.auth # "missing"
    /\ ~ForbidsRemoteCleartext(settings.auth)

(* Wrong on purpose: the test of the text for the API as well.             *)
HttpBackendAcceptsByPrefix(url) ==
    url \notin {"missing", "malformed"} /\ ~ForbidsRemoteCleartext(url)

(* HttpBackend::new parses the URL and compares its whole host; that of a  *)
(* loopback_v6 has brackets around it, and is not "::1".                   *)
HttpBackendAccepts(url) == url \in {"https", "loopback"}

(* The arms of main's match.                                               *)
TargetAccepted ==
    CASE Mode = "http" -> HttpBackendAccepts(settings.target)
      [] Mode = "tcp"  -> settings.target = "local" \/ (settings.target = "remote" /\ settings.mesh)
      [] Mode \in {"direct_read", "nats"} -> settings.target \notin {"missing", "malformed"}
      [] OTHER -> FALSE

(* Help and version, or an option, a setting or a transport that is not    *)
(* accepted.                                                               *)
Refuse ==
    /\ stage = "starting"
    /\ ~(AuthAccepted /\ TargetAccepted)
    /\ Move("exited")

(* The http mode connects to nothing yet.                                  *)
MakeBackend ==
    /\ stage = "starting"
    /\ AuthAccepted /\ TargetAccepted
    /\ Move("binding")

CannotConnect ==
    /\ stage = "starting"
    /\ AuthAccepted /\ TargetAccepted
    /\ Mode # "http"
    /\ Move("exited")

CannotBind ==
    /\ stage = "binding"
    /\ Move("exited")

Listen ==
    /\ stage = "binding"
    /\ settings.bind = "valid"
    /\ Move("serving")

-----------------------------------------------------------------------------
(* Lookups.                                                                *)

Serving(mode) == stage = "serving" /\ Mode = mode /\ UNCHANGED <<stage, settings>>

LookUpByNats ==
    /\ Serving("nats")
    /\ Nats!Next
    /\ UNCHANGED <<httpVars, queryVars>>

LookUpByHttp ==
    /\ Serving("http")
    /\ Http!Next
    /\ UNCHANGED <<natsVars, queryVars>>

LookUpDirectly ==
    /\ Serving("direct_read")
    /\ DirectRead!Next
    /\ UNCHANGED <<natsVars, httpVars>>

LookUpByTcp ==
    /\ Serving("tcp")
    /\ Tcp!Next
    /\ UNCHANGED <<natsVars, httpVars, queryVars>>

Next ==
    \/ Refuse \/ MakeBackend \/ CannotConnect \/ CannotBind \/ Listen
    \/ LookUpByNats \/ LookUpByHttp \/ LookUpDirectly \/ LookUpByTcp

(* Each backend goes on as its own module says.                            *)
Progress(l) ==
    \/ Serving("nats") /\ Nats!Progress(l) /\ UNCHANGED <<httpVars, queryVars>>
    \/ Serving("http") /\ Http!Progress(l) /\ UNCHANGED <<natsVars, queryVars>>
    \/ Serving("direct_read") /\ DirectRead!Progress(l) /\ UNCHANGED <<natsVars, httpVars>>
    \/ Serving("tcp") /\ Tcp!End(l) /\ UNCHANGED <<natsVars, httpVars, queryVars>>

Fairness == \A l \in Lookups : WF_vars(Progress(l))

Spec == Init /\ [][Next]_vars /\ Fairness

-----------------------------------------------------------------------------
(* What holds of the mode that was selected.                               *)
IInv ==
    /\ stage \in {"starting", "binding", "serving", "exited"}
    /\ settings \in Settings
    /\ Mode = "nats" => Nats!IInv
    /\ Mode = "http" => Http!IInv
    /\ Mode = "direct_read" => DirectRead!TypeOK

(* "Selection occurs at startup and there is no automatic fallback",       *)
(* "Remote ... API HTTP endpoints require TLS" and "TCP is loopback-only   *)
(* unless ..." (docs/control-web.md:16-17, 31-32): whatever leaves the     *)
(* program does so over the transport it was configured for, after every   *)
(* check was passed.  Of Shared Auth only that it is configured, and not   *)
(* as plainly written cleartext: see RemoteSharedAuthRequiresTls.          *)
NoFallback ==
    \A l \in Lookups :
        /\ phase[l] # "idle" =>
              /\ stage = "serving"
              /\ settings.auth \notin {"missing", "cleartext"}
              /\ settings.mode = "tcp" => settings.mesh \/ settings.target = "local"
        /\ message[l] # "none" => settings.mode = "nats"
        /\ get[l] # "none" =>
              /\ settings.mode \in {"unset", "http"}
              /\ settings.target \notin RemoteCleartext \union {"missing", "malformed"}
        /\ l \in busy => settings.mode = "direct_read"

(* "Remote Shared Auth ... endpoints require TLS" (docs/control-web.md:31) *)
(* of the program that serves: the code looks at the text of the URL, and  *)
(* does not keep it.                                                       *)
RemoteSharedAuthRequiresTls ==
    stage = "serving" => settings.auth \notin RemoteCleartext

(* However the view is filled, the direct_read mode finds a tunnel exactly *)
(* if the verified actor owns it.                                          *)
OnlyTheActorsRows == Mode = "direct_read" => DirectRead!OnlyTheActorsRows

(* However many queries hang, a lookup does not wait for a connection for  *)
(* ever.                                                                   *)
WaitersGiveUp == DirectRead!WaitersGiveUp

(* Whatever mode it is in, and whatever becomes of requests and replies on *)
(* the way, the program's backend is a TunnelBackend: a lookup returns its *)
(* own verdict or "unavailable", and it ends; in the direct_read mode it   *)
(* takes a database that answers for it to end.                            *)
Phase ==
    [l \in Lookups |->
        IF phase[l] \in Http!Awaiting \union DirectRead!Awaiting THEN "open" ELSE phase[l]]
Contract == INSTANCE TunnelBackend WITH phase <- Phase
ImplementsTunnelBackend ==
    /\ Contract!Safety
    /\ (Mode = "direct_read" => DirectRead!DatabaseAnswers) => Contract!Fairness
=============================================================================
