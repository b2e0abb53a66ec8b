---------------------------- MODULE UploadPortal ----------------------------
(***************************************************************************)
(* The install-free upload page (src/web/app.js) of one tunnel, in one     *)
(* browser tab: pairing, the picker, any number of uploads at a time, the  *)
(* Done button, and reloading at any moment.  Each upload is two requests  *)
(* to the File Tunnel API, a POST that describes the file and a PUT of its *)
(* bytes; pairing is one POST.                                             *)
(*                                                                         *)
(* External: the API, the network between, which may fail a request before *)
(* or after the API handled it, and the user.  The URL's secret is a       *)
(* Boolean, a capability too; file contents, names, progress percentages   *)
(* and the wording of errors are left out.                                 *)
(***************************************************************************)
EXTENDS Naturals, FiniteSets

CONSTANTS
    Uploads,        \* the files the user may pick
    MaxLoads        \* bound on how often the page is loaded

ASSUME UploadsAssumption == IsFiniteSet(Uploads)
ASSUME LoadsAssumption == MaxLoads \in Nat

VARIABLES
    loads,          \* how often the page was loaded
    configured,     \* config.js has set __FTNL_CONFIG__
    claim,          \* claim(): not begun, its request, settled
    capability,     \* let capability: non-null
    stored,         \* sessionStorage holds the capability
    enabled,        \* ~filesInput.disabled
    picker,         \* ~picker.hidden
    error,          \* ~error.hidden
    done,           \* ~done.hidden
    connection,     \* the text of #connection
    activeUploads,
    busy,           \* the picker's aria-busy
    row,            \* the row of each upload in the queue
    wire,           \* the request each upload awaits
    claimed,        \* API: the one-time secret has been exchanged
    described,      \* API: uploads it issued a descriptor for
    content         \* API: uploads whose bytes it holds

pairing == <<loads, configured, claim, capability, stored, enabled>>
screen  == <<picker, error, done, connection>>
counts  == <<activeUploads, busy>>
api     == <<claimed, described, content>>
vars    == <<pairing, screen, counts, row, wire, api>>

(* A request is sent, then answered well ("ok") or not ("failed"): a       *)
(* refusal by the API, or a network failure on either way.                 *)
Requests  == {"post", "post_ok", "post_failed", "put", "put_ok", "put_failed"}
InFlight  == {"preparing", "sending"}
Rows      == {"none", "sent", "failed", "gone"} \union InFlight

(* The children of #queue; those of an earlier load are gone with it.      *)
Queue == {u \in Uploads : row[u] \in InFlight \union {"sent", "failed"}}

TypeOK ==
    /\ loads \in 0 .. MaxLoads
    /\ claim \in {"unloaded", "sent", "ok", "failed", "settled"}
    /\ configured \in BOOLEAN
    /\ capability \in BOOLEAN /\ stored \in BOOLEAN /\ enabled \in BOOLEAN
    /\ picker \in BOOLEAN /\ error \in BOOLEAN /\ done \in BOOLEAN
    /\ busy \in BOOLEAN /\ claimed \in BOOLEAN
    /\ connection \in {"secure", "connected", "unavailable", "complete"}
    /\ activeUploads \in 0 .. Cardinality(Uploads)
    /\ row \in [Uploads -> Rows]
    /\ wire \in [Uploads -> Requests \union {"none"}]
    /\ described \in SUBSET Uploads
    /\ content \in SUBSET Uploads

Init ==
    /\ loads = 0
    /\ configured = FALSE
    /\ claim = "unloaded"
    /\ capability = FALSE
    /\ stored = FALSE
    /\ enabled = FALSE
    /\ picker = TRUE
    /\ error = FALSE
    /\ done = FALSE
    /\ connection = "secure"
    /\ activeUploads = 0
    /\ busy = FALSE
    /\ row = [u \in Uploads |-> "none"]
    /\ wire = [u \in Uploads |-> "none"]
    /\ claimed = FALSE
    /\ described = {}
    /\ content = {}

-----------------------------------------------------------------------------
(* Loading, and pairing.                                                   *)

(* Wrong on purpose: a link with a secret taken for a pairing.             *)
ClaimOutcomeTrusting(kept, link, config) ==
    IF kept \/ link THEN "ok" ELSE "failed"

(* How claim() starts: a capability this tab has kept, a link that names a *)
(* tunnel and still has its secret, and the API's origin decide it.        *)
ClaimOutcome(kept, link, config) ==
    IF kept THEN "ok" ELSE IF link /\ config THEN "sent" ELSE "failed"

(* A new document: everything but sessionStorage starts over.  What the    *)
(* old one had sent may still reach the API: its uploads stay on the wire, *)
(* its claim may yet be exchanged.                                         *)
NewDocument(outcome, kept, sameTab) ==
    /\ loads < MaxLoads
    /\ loads' = loads + 1
    /\ capability' = kept
    /\ stored' = (stored /\ sameTab)
    /\ enabled' = (outcome = "ok")
    /\ claim' = CASE outcome = "inert" -> "unloaded"
                  [] outcome = "sent"  -> "sent"
                  [] OTHER             -> "settled"
    /\ picker' = (outcome # "failed")
    /\ error' = (outcome = "failed")
    /\ done' = FALSE
    /\ connection' = CASE outcome = "ok"     -> "connected"
                       [] outcome = "failed" -> "unavailable"
                       [] OTHER              -> "secure"
    /\ activeUploads' = 0
    /\ busy' = FALSE
    /\ row' = [u \in Uploads |-> IF row[u] = "none" THEN "none" ELSE "gone"]
    /\ claimed' \in {claimed, claimed \/ claim = "sent"}
    /\ UNCHANGED <<wire, described, content>>

(* The script runs up to its first await.  Opening the link in a new tab   *)
(* has no storage; reloading has no secret, the first run took it off the  *)
(* URL; config.js may have failed to load.                                 *)
Load(valid, secret, sameTab, config) ==
    LET kept == valid /\ stored /\ sameTab
    IN  /\ configured' = config
        /\ NewDocument(ClaimOutcome(kept, valid /\ secret, config), kept, sameTab)

(* app.js fails to load, or getItem throws before it has done anything.    *)
LoadInert(sameTab) ==
    /\ configured' = FALSE
    /\ NewDocument("inert", FALSE, sameTab)

(* showError *)
ShowError ==
    /\ error' = TRUE
    /\ connection' = "unavailable"

(* Wrong on purpose: a pairing that is tried again.                        *)
ClaimFailsRetries ==
    /\ claim = "failed"
    /\ claim' = "sent"
    /\ UNCHANGED <<loads, configured, capability, stored, enabled, screen, counts, row, wire, api>>

(* Wrong on purpose: a pairing the tab does not remember.                  *)
ClaimedForNow ==
    /\ claim = "ok"
    /\ claim' = "settled"
    /\ capability' = TRUE
    /\ enabled' = TRUE
    /\ connection' = "connected"
    /\ UNCHANGED <<loads, configured, stored, picker, error, done, counts, row, wire, api>>

Claimed ==
    /\ claim = "ok"
    /\ claim' = "settled"
    /\ capability' = TRUE
    /\ stored' = TRUE
    /\ enabled' = TRUE
    /\ connection' = "connected"
    /\ UNCHANGED <<loads, configured, picker, error, done, counts, row, wire, api>>

(* setItem throws, with the secret spent and the capability in hand.       *)
ClaimNotStored ==
    /\ claim = "ok"
    /\ claim' = "settled"
    /\ capability' = TRUE
    /\ ShowError
    /\ picker' = FALSE
    /\ UNCHANGED <<loads, configured, stored, enabled, done, counts, row, wire, api>>

ClaimFails ==
    /\ claim = "failed"
    /\ claim' = "settled"
    /\ ShowError
    /\ picker' = FALSE
    /\ UNCHANGED <<loads, configured, capability, stored, enabled, done, counts, row, wire, api>>

-----------------------------------------------------------------------------
(* Uploading.                                                              *)

(* The change event of #files: an upload starts for every file picked, and *)
(* fails before its request if it does not know the API's origin.          *)
Pick(files) ==
    /\ enabled /\ picker
    /\ files # {}
    /\ \A u \in files : row[u] = "none"
    /\ error' = FALSE
    /\ row' = [u \in Uploads |-> IF u \in files THEN "preparing" ELSE row[u]]
    /\ wire' = [u \in Uploads |-> IF u \notin files THEN wire[u]
                                 ELSE IF configured THEN "post" ELSE "post_failed"]
    /\ activeUploads' = activeUploads + Cardinality(files)
    /\ busy' = TRUE
    /\ UNCHANGED <<pairing, picker, done, connection, api>>

(* The descriptor arrives: putBytes.                                       *)
Describe(u) ==
    /\ row[u] = "preparing"
    /\ wire[u] = "post_ok"
    /\ row' = [row EXCEPT ![u] = "sending"]
    /\ wire' = [wire EXCEPT ![u] = "put"]
    /\ UNCHANGED <<pairing, screen, counts, api>>

(* Wrong on purpose: Done is offered only when the last upload succeeds.   *)
SettleOnSuccess(u, outcome) ==
    /\ row' = [row EXCEPT ![u] = outcome]
    /\ wire' = [wire EXCEPT ![u] = "none"]
    /\ activeUploads' = activeUploads - 1
    /\ IF activeUploads' = 0
       THEN busy' = FALSE /\ done' = (outcome = "sent")
       ELSE UNCHANGED <<busy, done>>

(* Wrong on purpose: a failure counted by the catch and the finally block. *)
SettleTwice(u, outcome) ==
    /\ row' = [row EXCEPT ![u] = outcome]
    /\ wire' = [wire EXCEPT ![u] = "none"]
    /\ activeUploads' = activeUploads - (IF outcome = "failed" THEN 2 ELSE 1)
    /\ IF activeUploads' = 0
       THEN busy' = FALSE /\ done' = (Queue # {})
       ELSE UNCHANGED <<busy, done>>

(* upload's finally block: the last upload to settle offers Done.          *)
Settle(u, outcome) ==
    /\ row' = [row EXCEPT ![u] = outcome]
    /\ wire' = [wire EXCEPT ![u] = "none"]
    /\ activeUploads' = activeUploads - 1
    /\ IF activeUploads' = 0
       THEN busy' = FALSE /\ done' = (Queue # {})
       ELSE UNCHANGED <<busy, done>>

(* Wrong on purpose: any answer to the PUT is taken for success.           *)
CompleteUnchecked(u) ==
    /\ row[u] = "sending"
    /\ wire[u] \in {"put_ok", "put_failed"}
    /\ Settle(u, "sent")
    /\ UNCHANGED <<pairing, picker, error, connection, api>>

Complete(u) ==
    /\ row[u] = "sending"
    /\ wire[u] = "put_ok"
    /\ Settle(u, "sent")
    /\ UNCHANGED <<pairing, picker, error, connection, api>>

(* Wrong on purpose: a failure that skips the finally block, one that      *)
(* leaves the picker hidden, and a PUT that is retried for ever.           *)
FailSkipsFinally(u) ==
    /\ \/ row[u] = "preparing" /\ wire[u] = "post_failed"
       \/ row[u] = "sending" /\ wire[u] = "put_failed"
    /\ row' = [row EXCEPT ![u] = "failed"]
    /\ wire' = [wire EXCEPT ![u] = "none"]
    /\ ShowError
    /\ picker' = TRUE
    /\ UNCHANGED <<pairing, done, counts, api>>

FailHidesPicker(u) ==
    /\ \/ row[u] = "preparing" /\ wire[u] = "post_failed"
       \/ row[u] = "sending" /\ wire[u] = "put_failed"
    /\ Settle(u, "failed")
    /\ ShowError
    /\ picker' = FALSE
    /\ UNCHANGED <<pairing, api>>

FailRetriesPut(u) ==
    \/ /\ row[u] = "preparing" /\ wire[u] = "post_failed"
       /\ Settle(u, "failed")
       /\ ShowError
       /\ picker' = TRUE
       /\ UNCHANGED <<pairing, api>>
    \/ /\ row[u] = "sending" /\ wire[u] = "put_failed"
       /\ wire' = [wire EXCEPT ![u] = "put"]
       /\ UNCHANGED <<pairing, screen, counts, row, api>>

(* showError hides the picker and the handler shows it again.              *)
Fail(u) ==
    /\ \/ row[u] = "preparing" /\ wire[u] = "post_failed"
       \/ row[u] = "sending" /\ wire[u] = "put_failed"
    /\ Settle(u, "failed")
    /\ ShowError
    /\ picker' = TRUE
    /\ UNCHANGED <<pairing, api>>

(* Wrong on purpose: Done in the middle of an upload.                      *)
ClickDoneAtOnce ==
    /\ done
    /\ stored' = FALSE
    /\ picker' = FALSE
    /\ done' = FALSE
    /\ connection' = "complete"
    /\ UNCHANGED <<loads, configured, claim, capability, enabled, error, counts, row, wire, api>>

(* The click handler of Done, which does nothing while an upload runs.     *)
ClickDone ==
    /\ done
    /\ activeUploads = 0
    /\ stored' = FALSE
    /\ picker' = FALSE
    /\ done' = FALSE
    /\ connection' = "complete"
    /\ UNCHANGED <<loads, configured, claim, capability, enabled, error, counts, row, wire, api>>

-----------------------------------------------------------------------------
(* The API and the network (external).                                     *)

(* The API exchanges the secret once; its answer may be lost.              *)
AnswerClaim ==
    /\ claim = "sent"
    /\ \/ ~claimed /\ claimed' = TRUE /\ claim' \in {"ok", "failed"}
       \/ UNCHANGED claimed /\ claim' = "failed"
    /\ UNCHANGED <<loads, configured, capability, stored, enabled, screen, counts, row, wire,
                   described, content>>

AnswerPost(u) ==
    /\ wire[u] = "post"
    /\ \/ /\ described' = described \union {u}
          /\ \E answer \in {"post_ok", "post_failed"} : wire' = [wire EXCEPT ![u] = answer]
       \/ /\ UNCHANGED described
          /\ wire' = [wire EXCEPT ![u] = "post_failed"]
    /\ UNCHANGED <<pairing, screen, counts, row, claimed, content>>

AnswerPut(u) ==
    /\ wire[u] = "put"
    /\ \/ /\ u \in described
          /\ content' = content \union {u}
          /\ \E answer \in {"put_ok", "put_failed"} : wire' = [wire EXCEPT ![u] = answer]
       \/ /\ UNCHANGED content
          /\ wire' = [wire EXCEPT ![u] = "put_failed"]
    /\ UNCHANGED <<pairing, screen, counts, row, claimed, described>>

-----------------------------------------------------------------------------
User ==
    \/ \E valid, secret, sameTab, config \in BOOLEAN : Load(valid, secret, sameTab, config)
    \/ \E sameTab \in BOOLEAN : LoadInert(sameTab)
    \/ \E files \in SUBSET Uploads : Pick(files)
    \/ ClickDone

Handlers ==
    \/ Claimed \/ ClaimNotStored
    \/ ClaimFails
    \/ \E u \in Uploads : Describe(u) \/ Complete(u) \/ Fail(u)

Answers == AnswerClaim \/ \E u \in Uploads : AnswerPost(u) \/ AnswerPut(u)

(* The user is content, or has run out of files and loads.                 *)
Rest ==
    /\ claim \in {"unloaded", "settled"}
    /\ activeUploads = 0
    /\ UNCHANGED vars

Next == User \/ Handlers \/ Answers \/ Rest

Safety == Init /\ [][Next]_vars

(* The browser runs the handler of every event that has occurred.          *)
HandlerFairness ==
    /\ WF_vars(Claimed \/ ClaimNotStored) /\ WF_vars(ClaimFails)
    /\ \A u \in Uploads : WF_vars(Describe(u) \/ Complete(u) \/ Fail(u))

Spec == Safety /\ HandlerFairness

(* ... and, when the network does, every request comes to an answer.       *)
AnsweredSpec ==
    /\ Spec
    /\ WF_vars(AnswerClaim)
    /\ \A u \in Uploads : WF_vars(AnswerPost(u) \/ AnswerPut(u))
=============================================================================
