----------------------- MODULE UploadPortalProperties -----------------------
(***************************************************************************)
(* What must hold of the upload page, and what its documentation and its   *)
(* own words say that it does not keep.                                    *)
(***************************************************************************)
EXTENDS UploadPortal

Running == {u \in Uploads : row[u] \in InFlight}

(* However uploads overlap, fail and end, the counter counts the rows that *)
(* are running, and the page is marked busy exactly while there are any:   *)
(* Done would otherwise never come, or come too early.                     *)
BusyCountsRunningUploads ==
    /\ activeUploads = Cardinality(Running)
    /\ busy <=> Running # {}

(* A row says "Sent" only of a file whose bytes the API holds.             *)
SentMeansStored == \A u \in Uploads : row[u] = "sent" => u \in content

(* Once the page says "Transfer complete" nothing is under way, nothing    *)
(* can be picked and the tab has forgotten the capability; no late answer  *)
(* brings the page back to life.                                           *)
CompleteIsFinal ==
    connection = "complete" => Running = {} /\ ~picker /\ ~done /\ ~stored

(* A paired page never takes the picker away before the user is done: the  *)
(* failure of one upload leaves the rest of the session usable.            *)
PickerStaysUsable == enabled /\ connection # "complete" => picker

(* A page at rest with something in its queue offers Done, whether its     *)
(* last upload succeeded or not.                                           *)
RestOffersDone ==
    Queue # {} /\ Running = {} /\ connection # "complete" => done

(* The page accepts files only with a capability, and has one only if the  *)
(* API exchanged the secret for it, in this load or an earlier one of the  *)
(* tab.                                                                    *)
EnabledMeansPaired ==
    /\ enabled => capability
    /\ capability \/ stored => claimed

(* Pairing survives a reload: a page in use can always be continued in its *)
(* tab, because what the secret was exchanged for is kept until Done.      *)
PairingSurvivesReload == enabled /\ connection # "complete" => stored

(* A row that is not under way awaits nothing, and a good answer to a PUT  *)
(* is the API's.                                                           *)
WiresFollowRows ==
    \A u \in Uploads :
        /\ wire[u] = "put_ok" => u \in content
        /\ row[u] \in {"none", "sent", "failed"} => wire[u] = "none"

(* What the page shows follows from how far pairing went: only a settled   *)
(* claim enables the picker, files are queued only on an enabled page,     *)
(* Done is offered only for a queue, and the answers on their way are the  *)
(* API's.                                                                  *)
PageFollowsPairing ==
    /\ claim \in {"sent", "ok", "failed"} => picker /\ connection = "secure"
    /\ claim = "ok" => claimed
    /\ enabled => claim = "settled"
    /\ Queue # {} \/ connection = "complete" => enabled
    /\ done => Queue # {}
    /\ WiresFollowRows

(* The inductive invariant the properties above are part of.               *)
IInv ==
    /\ TypeOK
    /\ BusyCountsRunningUploads
    /\ SentMeansStored
    /\ CompleteIsFinal
    /\ PickerStaysUsable
    /\ RestOffersDone
    /\ EnabledMeansPaired
    /\ PairingSurvivesReload
    /\ PageFollowsPairing

(* When every request is answered somehow, every upload ends, and pairing  *)
(* succeeds or fails, unless the user reloads into a page that never runs; *)
(* no failure leaves the page waiting for ever.                            *)
EveryUploadEnds == \A u \in Uploads : row[u] \in InFlight ~> row[u] \notin InFlight
PairingEnds == claim = "sent" ~> claim \in {"settled", "unloaded"}

-----------------------------------------------------------------------------
(* The page as its user sees it.                                           *)
Promise == INSTANCE Transfer WITH
    Files   <- Uploads,
    session <- IF connection = "complete" THEN "complete"
               ELSE IF enabled THEN "open" ELSE "unpaired",
    kept    <- stored,
    file    <- [u \in Uploads |-> IF row[u] \in InFlight THEN "underway" ELSE row[u]],
    held    <- content

(* Whatever fails, is reloaded or answered late, what the page does is     *)
(* what Transfer promises; when every request is answered, so are its      *)
(* files.                                                                  *)
ImplementsTransfer == Promise!Spec

-----------------------------------------------------------------------------
(* "Your files are available on the other device." (src/web/app.js, shown  *)
(* by Done): the API holds every file in the queue.  True of a queue       *)
(* without a failed row: see UploadPortalProofs.                           *)
CompleteMeansDelivered ==
    connection = "complete" => Queue \subseteq content

(* "Clients bound ... connect/idle/total lifetime"                         *)
(* (docs/web-api-data-access.md): an upload ends whether or not the API    *)
(* answers it.                                                             *)
UploadsHaveALifetime == EveryUploadEnds
=============================================================================
