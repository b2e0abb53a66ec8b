------------------------- MODULE UploadPortalProofs -------------------------
(***************************************************************************)
(* Proofs, for any number of files and of loads, of the safety properties  *)
(* of UploadPortal.                                                        *)
(***************************************************************************)
EXTENDS UploadPortalProperties, FiniteSetTheorems, TLAPS

(* The running uploads are finitely many, no more than there are files.    *)
LEMMA RunningIsFinite ==
    /\ IsFiniteSet(Running)
    /\ Cardinality(Running) \in 0 .. Cardinality(Uploads)
    /\ Cardinality(Running) = 0 <=> Running = {}
    /\ \A u \in Running : /\ Cardinality(Running \ {u}) = Cardinality(Running) - 1
                          /\ Cardinality(Running) # 0
<1>1. Running \in SUBSET Uploads
  BY DEF Running
<1>2. IsFiniteSet(Running) /\ Cardinality(Running) <= Cardinality(Uploads)
  BY <1>1, UploadsAssumption, FS_Subset
<1>3. Cardinality(Running) \in Nat /\ Cardinality(Uploads) \in Nat
  BY <1>2, UploadsAssumption, FS_CardinalityType
<1>4. Cardinality(Running) = 0 <=> Running = {}
  BY <1>2, FS_EmptySet
<1>5. \A u \in Running : Cardinality(Running \ {u}) = Cardinality(Running) - 1
  BY <1>2, FS_RemoveElement
<1> QED BY <1>2, <1>3, <1>4, <1>5

(* Before the page is loaded there is nothing to count or to show.         *)
LEMMA InitEstablishes == Init => IInv
<1> SUFFICES ASSUME Init PROVE IInv
  OBVIOUS
<1>1. Running = {} /\ Queue = {}
  BY DEF Init, Running, Queue, InFlight
<1>2. TypeOK
  <2>1. 0 \in 0 .. MaxLoads /\ 0 \in 0 .. Cardinality(Uploads)
    BY LoadsAssumption, UploadsAssumption, FS_CardinalityType
  <2> QED BY <2>1 DEF Init, TypeOK, Rows
<1>3. BusyCountsRunningUploads
  BY <1>1, FS_EmptySet DEF Init, BusyCountsRunningUploads
<1>4. SentMeansStored /\ CompleteIsFinal /\ PickerStaysUsable /\ RestOffersDone
  BY <1>1 DEF Init, SentMeansStored, CompleteIsFinal, PickerStaysUsable, RestOffersDone
<1>5. EnabledMeansPaired /\ PageFollowsPairing
  BY <1>1 DEF Init, EnabledMeansPaired, PageFollowsPairing, WiresFollowRows
<1>6. PairingSurvivesReload
  BY DEF Init, PairingSurvivesReload
<1> QED BY <1>2, <1>3, <1>4, <1>5, <1>6 DEF IInv

(* A new document has an empty queue and no more pairing than the tab.     *)
LEMMA NewDocumentKeeps ==
    ASSUME IInv, configured' \in BOOLEAN,
           NEW outcome \in {"ok", "failed", "sent", "inert"}, NEW kept \in BOOLEAN,
           NEW sameTab \in BOOLEAN, kept => stored /\ sameTab, outcome = "ok" => kept,
           NewDocument(outcome, kept, sameTab)
    PROVE  IInv'
<1> USE DEF IInv
<1>2. /\ loads < MaxLoads /\ loads' = loads + 1
      /\ capability' = kept
      /\ stored' = (stored /\ sameTab)
      /\ enabled' = (outcome = "ok")
      /\ picker' = (outcome # "failed")
      /\ error' = (outcome = "failed")
      /\ done' = FALSE
      /\ activeUploads' = 0
      /\ busy' = FALSE
      /\ row' = [u \in Uploads |-> IF row[u] = "none" THEN "none" ELSE "gone"]
      /\ claimed' \in {claimed, claimed \/ claim = "sent"}
      /\ UNCHANGED <<wire, described, content>>
  BY DEF NewDocument
<1>1. /\ claim' = IF outcome = "inert" THEN "unloaded"
                  ELSE IF outcome = "sent" THEN "sent" ELSE "settled"
      /\ connection' = IF outcome = "ok" THEN "connected"
                       ELSE IF outcome = "failed" THEN "unavailable" ELSE "secure"
  BY DEF NewDocument
<1>3. Running' = {} /\ Queue' = {}
  BY <1>2 DEF Running, Queue, InFlight
<1>4. claimed' \in BOOLEAN /\ (claimed => claimed')
  BY <1>2 DEF TypeOK
<1>5. TypeOK'
  <2>1. loads' \in 0 .. MaxLoads
    BY <1>2, LoadsAssumption DEF TypeOK
  <2>2. activeUploads' \in 0 .. Cardinality(Uploads)
    BY <1>2, UploadsAssumption, FS_CardinalityType
  <2>3. /\ capability' \in BOOLEAN /\ stored' \in BOOLEAN /\ enabled' \in BOOLEAN
        /\ picker' \in BOOLEAN /\ error' \in BOOLEAN /\ done' \in BOOLEAN /\ busy' \in BOOLEAN
    BY <1>2 DEF TypeOK
  <2>4. /\ claim' \in {"unloaded", "sent", "settled"}
        /\ connection' \in {"connected", "unavailable", "secure"}
    BY <1>1, <1>2
  <2> QED BY <1>2, <1>4, <2>1, <2>2, <2>3, <2>4 DEF TypeOK, Rows
<1>6. BusyCountsRunningUploads'
  BY <1>2, <1>3, FS_EmptySet DEF BusyCountsRunningUploads
<1>7. connection' # "complete"
  BY <1>1, <1>2
<1>8. SentMeansStored' /\ CompleteIsFinal' /\ PickerStaysUsable' /\ RestOffersDone'
  BY <1>2, <1>3, <1>7 DEF SentMeansStored, CompleteIsFinal, PickerStaysUsable, RestOffersDone
<1>9. EnabledMeansPaired'
  <2>1. stored => claimed
    BY DEF EnabledMeansPaired
  <2> QED BY <1>1, <1>2, <1>4, <2>1 DEF EnabledMeansPaired
<1>10. PairingSurvivesReload'
  BY <1>2 DEF PairingSurvivesReload
<1>11. WiresFollowRows'
  BY <1>2 DEF PageFollowsPairing, WiresFollowRows
<1>12. PageFollowsPairing'
  BY <1>1, <1>2, <1>3, <1>7, <1>11 DEF PageFollowsPairing
<1> QED BY <1>5, <1>6, <1>8, <1>9, <1>10, <1>12

(* A document that pairs at once has kept its capability.                  *)
LEMMA LoadKeeps ==
    ASSUME IInv, NEW valid \in BOOLEAN, NEW secret \in BOOLEAN, NEW sameTab \in BOOLEAN,
           NEW config \in BOOLEAN, Load(valid, secret, sameTab, config)
    PROVE  IInv'
<1> DEFINE kept == valid /\ stored /\ sameTab
           outcome == ClaimOutcome(kept, valid /\ secret, config)
<1>1. /\ outcome \in {"ok", "failed", "sent", "inert"}
      /\ outcome = "ok" => kept
      /\ kept \in BOOLEAN /\ (kept => stored /\ sameTab)
  BY DEF ClaimOutcome
<1>2. configured' \in BOOLEAN /\ NewDocument(outcome, kept, sameTab)
  BY DEF Load
<1> HIDE DEF outcome, kept
<1> QED BY <1>1, <1>2, NewDocumentKeeps

LEMMA LoadInertKeeps ==
    ASSUME IInv, NEW sameTab \in BOOLEAN, LoadInert(sameTab)
    PROVE  IInv'
<1>1. configured' \in BOOLEAN /\ NewDocument("inert", FALSE, sameTab)
  BY DEF LoadInert
<1> QED BY <1>1, NewDocumentKeeps

(* Pairing settles before anything was queued.                             *)
LEMMA ClaimSettlesKeeps ==
    ASSUME IInv, Claimed \/ ClaimNotStored \/ ClaimFails
    PROVE  IInv'
<1> USE DEF IInv, screen, counts, api, ShowError
<1>1. claim \in {"ok", "failed"} /\ claim' = "settled" /\ UNCHANGED <<row, counts, wire, api, loads, configured, done>>
  BY DEF Claimed, ClaimNotStored, ClaimFails
<1>2. ~enabled /\ picker /\ Queue = {} /\ Running = {} /\ ~done
  BY <1>1 DEF PageFollowsPairing, Queue, Running
<1>3. Running' = Running /\ Queue' = Queue
  BY <1>1 DEF Running, Queue
<1>4. TypeOK'
  BY <1>1 DEF TypeOK, Claimed, ClaimNotStored, ClaimFails
<1>5. BusyCountsRunningUploads' /\ SentMeansStored'
  BY <1>1, <1>3 DEF BusyCountsRunningUploads, SentMeansStored
<1>6. connection' # "complete"
  BY DEF Claimed, ClaimNotStored, ClaimFails
<1>7. CompleteIsFinal' /\ RestOffersDone'
  BY <1>2, <1>3, <1>6 DEF CompleteIsFinal, RestOffersDone
<1>a. PickerStaysUsable'
  <2>1. CASE Claimed
    <3>1. picker' = picker
      BY <2>1 DEF Claimed
    <3> QED BY <1>2, <3>1 DEF PickerStaysUsable
  <2>2. CASE ClaimNotStored \/ ClaimFails
    <3>1. enabled' = enabled
      BY <2>2 DEF ClaimNotStored, ClaimFails
    <3> QED BY <1>2, <3>1 DEF PickerStaysUsable
  <2> QED BY <2>1, <2>2
<1>8. EnabledMeansPaired'
  BY <1>1 DEF EnabledMeansPaired, PageFollowsPairing, Claimed, ClaimNotStored, ClaimFails
<1>9. PageFollowsPairing'
  BY <1>1, <1>2, <1>3, <1>6 DEF PageFollowsPairing, WiresFollowRows
<1>b. PairingSurvivesReload'
  BY <1>2 DEF PairingSurvivesReload, Claimed, ClaimNotStored, ClaimFails
<1> QED BY <1>4, <1>5, <1>7, <1>8, <1>9, <1>a, <1>b

(* Every file picked adds one running row and one to the count.            *)
LEMMA PickKeeps ==
    ASSUME IInv, NEW files \in SUBSET Uploads, Pick(files)
    PROVE  IInv'
<1> USE DEF IInv, pairing, api
<1>1. /\ enabled /\ picker /\ files # {}
      /\ row' = [u \in Uploads |-> IF u \in files THEN "preparing" ELSE row[u]]
      /\ wire' = [u \in Uploads |-> IF u \notin files THEN wire[u]
                                    ELSE IF configured THEN "post" ELSE "post_failed"]
      /\ activeUploads' = activeUploads + Cardinality(files)
      /\ busy' = TRUE /\ error' = FALSE
      /\ UNCHANGED <<pairing, picker, done, connection, api>>
  BY DEF Pick
<1>2. \A u \in files : row[u] = "none"
  BY DEF Pick
<1>3. /\ Running' = Running \union files
      /\ Queue' = Queue \union files
  BY <1>1 DEF Running, Queue, InFlight
<1>4. connection # "complete"
  BY <1>1 DEF CompleteIsFinal
<1>5. BusyCountsRunningUploads'
  <2>1. IsFiniteSet(files) /\ IsFiniteSet(Running)
    BY UploadsAssumption, FS_Subset, RunningIsFinite
  <2>2. Running \intersect files = {}
    BY <1>2 DEF Running, InFlight
  <2>3. Cardinality(Running \union files) = Cardinality(Running) + Cardinality(files)
    <3>1. /\ Cardinality(Running) \in Nat /\ Cardinality(files) \in Nat
          /\ Cardinality(Running \intersect files) = 0
      BY <2>1, <2>2, FS_CardinalityType, FS_EmptySet
    <3>2. Cardinality(Running \union files)
              = Cardinality(Running) + Cardinality(files) - Cardinality(Running \intersect files)
      BY <2>1, FS_Union
    <3> QED BY <3>1, <3>2
  <2>4. activeUploads' = Cardinality(Running')
    BY <1>1, <1>3, <2>3 DEF BusyCountsRunningUploads
  <2>5. busy' /\ Running' # {}
    BY <1>1, <1>3
  <2> QED BY <2>4, <2>5 DEF BusyCountsRunningUploads
<1>6. TypeOK'
  <2>1. Running' \in SUBSET Uploads
    BY DEF Running
  <2>2. Cardinality(Running') \in 0 .. Cardinality(Uploads)
    <3>1. IsFiniteSet(Running') /\ Cardinality(Running') <= Cardinality(Uploads)
      BY <2>1, UploadsAssumption, FS_Subset
    <3> QED BY <3>1, UploadsAssumption, FS_CardinalityType
  <2>3. activeUploads' \in 0 .. Cardinality(Uploads)
    BY <1>5, <2>2 DEF BusyCountsRunningUploads
  <2>4. row' \in [Uploads -> Rows] /\ wire' \in [Uploads -> Requests \union {"none"}]
    BY <1>1 DEF TypeOK, Rows, InFlight, Requests
  <2> QED BY <1>1, <2>3, <2>4 DEF TypeOK
<1>7. SentMeansStored' /\ CompleteIsFinal' /\ RestOffersDone'
  BY <1>1, <1>3, <1>4 DEF SentMeansStored, CompleteIsFinal, RestOffersDone
<1>8. PickerStaysUsable' /\ EnabledMeansPaired' /\ PairingSurvivesReload'
  BY <1>1 DEF PickerStaysUsable, EnabledMeansPaired, PairingSurvivesReload
<1>9. PageFollowsPairing'
  <2>1. WiresFollowRows'
    BY <1>1 DEF PageFollowsPairing, WiresFollowRows
  <2> QED BY <1>1, <1>3, <2>1 DEF PageFollowsPairing
<1> QED BY <1>5, <1>6, <1>7, <1>8, <1>9

(* A running upload stays running while it waits for its second answer.    *)
LEMMA DescribeKeeps ==
    ASSUME IInv, NEW u \in Uploads, Describe(u)
    PROVE  IInv'
<1> USE DEF IInv, pairing, screen, counts, api
<1>1. /\ row[u] = "preparing"
      /\ row' = [row EXCEPT ![u] = "sending"]
      /\ wire' = [wire EXCEPT ![u] = "put"]
      /\ UNCHANGED <<pairing, screen, counts, api>>
  BY DEF Describe
<1>2. Running' = Running /\ Queue' = Queue
  BY <1>1 DEF TypeOK, Running, Queue, InFlight
<1>3. TypeOK'
  BY <1>1 DEF TypeOK, Rows, InFlight, Requests
<1>4. BusyCountsRunningUploads' /\ CompleteIsFinal' /\ PickerStaysUsable' /\ RestOffersDone' /\ EnabledMeansPaired'
         /\ PairingSurvivesReload'
  BY <1>1, <1>2 DEF BusyCountsRunningUploads, CompleteIsFinal, PickerStaysUsable, RestOffersDone,
                    EnabledMeansPaired, PairingSurvivesReload
<1>5. SentMeansStored'
  BY <1>1 DEF TypeOK, SentMeansStored
<1>6. PageFollowsPairing'
  <2>1. WiresFollowRows'
    BY <1>1 DEF TypeOK, PageFollowsPairing, WiresFollowRows
  <2> QED BY <1>1, <1>2, <2>1 DEF PageFollowsPairing
<1> QED BY <1>3, <1>4, <1>5, <1>6

(* An upload that settles leaves one fewer running and one fewer counted;  *)
(* the last one offers Done.                                               *)
LEMMA SettleCounts ==
    ASSUME IInv, NEW u \in Uploads, row[u] \in InFlight,
           NEW outcome \in {"sent", "failed"}, Settle(u, outcome)
    PROVE  /\ Running' = Running \ {u} /\ Queue' = Queue
           /\ Queue # {} /\ connection # "complete"
           /\ BusyCountsRunningUploads'
           /\ activeUploads' \in 0 .. Cardinality(Uploads)
           /\ busy' \in BOOLEAN /\ done' \in BOOLEAN
           /\ Running' = {} => done'
<1> USE DEF IInv
<1>1. /\ row' = [row EXCEPT ![u] = outcome]
      /\ activeUploads' = activeUploads - 1
      /\ activeUploads' = 0 => ~busy' /\ done' = (Queue # {})
      /\ activeUploads' # 0 => UNCHANGED <<busy, done>>
  BY DEF Settle
<1>2. u \in Running /\ u \in Queue
  BY DEF Running, Queue
<1>3. Running' = Running \ {u} /\ Queue' = Queue
  BY <1>1, <1>2 DEF TypeOK, Running, Queue, InFlight
<1>4. connection # "complete"
  BY <1>2 DEF CompleteIsFinal
<1>5. /\ Cardinality(Running') = Cardinality(Running) - 1
      /\ Cardinality(Running) \in 0 .. Cardinality(Uploads)
      /\ Cardinality(Running) # 0
  BY <1>2, <1>3, RunningIsFinite
<1>6. activeUploads' = Cardinality(Running')
  BY <1>1, <1>5 DEF BusyCountsRunningUploads
<1>7. Cardinality(Running') = 0 <=> Running' = {}
  BY <1>3, RunningIsFinite, FS_RemoveElement, FS_EmptySet
<1>8. busy' <=> Running' # {}
  <2>1. CASE Running' = {}
    BY <1>1, <1>6, <1>7, <2>1
  <2>2. CASE Running' # {}
    <3>1. busy' = busy
      BY <1>1, <1>6, <1>7, <2>2
    <3> QED BY <1>2, <2>2, <3>1 DEF BusyCountsRunningUploads
  <2> QED BY <2>1, <2>2
<1>9. activeUploads' \in 0 .. Cardinality(Uploads)
  <2>1. Cardinality(Uploads) \in Nat
    BY UploadsAssumption, FS_CardinalityType
  <2> QED BY <1>5, <1>6, <2>1
<1>10. busy' \in BOOLEAN /\ done' \in BOOLEAN
  BY <1>1 DEF TypeOK, Settle
<1>11. Running' = {} => done'
  BY <1>1, <1>2, <1>6, <1>7
<1> QED BY <1>2, <1>3, <1>4, <1>6, <1>8, <1>9, <1>10, <1>11 DEF BusyCountsRunningUploads

(* "Sent" is said of what the API answered well, and so holds.             *)
LEMMA CompleteKeeps ==
    ASSUME IInv, NEW u \in Uploads, Complete(u)
    PROVE  IInv'
<1> USE DEF IInv, pairing, api
<1>1. /\ row[u] \in InFlight /\ wire[u] = "put_ok" /\ Settle(u, "sent")
      /\ row' = [row EXCEPT ![u] = "sent"]
      /\ wire' = [wire EXCEPT ![u] = "none"]
      /\ UNCHANGED <<pairing, picker, error, connection, api>>
  BY DEF Complete, Settle, InFlight
<1>2. /\ Running' = Running \ {u} /\ Queue' = Queue
      /\ Queue # {} /\ connection # "complete"
      /\ BusyCountsRunningUploads'
      /\ activeUploads' \in 0 .. Cardinality(Uploads)
      /\ busy' \in BOOLEAN /\ done' \in BOOLEAN
      /\ Running' = {} => done'
  BY <1>1, SettleCounts
<1>3. TypeOK'
  BY <1>1, <1>2 DEF TypeOK, Rows
<1>4. SentMeansStored'
  <2>1. u \in content
    BY <1>1 DEF PageFollowsPairing, WiresFollowRows
  <2> QED BY <1>1, <2>1 DEF TypeOK, SentMeansStored
<1>5. CompleteIsFinal' /\ PickerStaysUsable' /\ EnabledMeansPaired' /\ PairingSurvivesReload'
  BY <1>1, <1>2 DEF CompleteIsFinal, PickerStaysUsable, EnabledMeansPaired,
                         PairingSurvivesReload
<1>6. RestOffersDone'
  BY <1>2 DEF RestOffersDone
<1>7. PageFollowsPairing'
  <2>1. WiresFollowRows'
    BY <1>1 DEF TypeOK, PageFollowsPairing, WiresFollowRows
  <2> QED BY <1>1, <1>2, <2>1 DEF PageFollowsPairing
<1> QED BY <1>2, <1>3, <1>4, <1>5, <1>6, <1>7

(* A failure leaves the picker in reach.                                   *)
LEMMA FailKeeps ==
    ASSUME IInv, NEW u \in Uploads, Fail(u)
    PROVE  IInv'
<1> USE DEF IInv, pairing, api
<1>1. /\ row[u] \in InFlight /\ Settle(u, "failed")
      /\ row' = [row EXCEPT ![u] = "failed"]
      /\ wire' = [wire EXCEPT ![u] = "none"]
      /\ error' = TRUE /\ connection' = "unavailable" /\ picker' = TRUE
      /\ UNCHANGED <<pairing, api>>
  BY DEF Fail, Settle, InFlight, ShowError
<1>2. /\ Running' = Running \ {u} /\ Queue' = Queue
      /\ Queue # {} /\ connection # "complete"
      /\ BusyCountsRunningUploads'
      /\ activeUploads' \in 0 .. Cardinality(Uploads)
      /\ busy' \in BOOLEAN /\ done' \in BOOLEAN
      /\ Running' = {} => done'
  BY <1>1, SettleCounts
<1>3. TypeOK'
  BY <1>1, <1>2 DEF TypeOK, Rows
<1>4. SentMeansStored'
  BY <1>1 DEF TypeOK, SentMeansStored
<1>5. CompleteIsFinal' /\ PickerStaysUsable' /\ EnabledMeansPaired' /\ PairingSurvivesReload'
  BY <1>1, <1>2 DEF CompleteIsFinal, PickerStaysUsable, EnabledMeansPaired,
                         PairingSurvivesReload
<1>6. RestOffersDone'
  BY <1>2 DEF RestOffersDone
<1>7. PageFollowsPairing'
  <2>1. WiresFollowRows'
    BY <1>1 DEF TypeOK, PageFollowsPairing, WiresFollowRows
  <2>2. claim = "settled" /\ enabled
    BY <1>2 DEF PageFollowsPairing
  <2> QED BY <1>1, <1>2, <2>1, <2>2 DEF PageFollowsPairing
<1> QED BY <1>2, <1>3, <1>4, <1>5, <1>6, <1>7

(* Done waits for the last upload.                                         *)
LEMMA ClickDoneKeeps ==
    ASSUME IInv, ClickDone
    PROVE  IInv'
<1> USE DEF IInv, counts, api
<1>1. /\ done /\ activeUploads = 0
      /\ stored' = FALSE /\ picker' = FALSE /\ done' = FALSE /\ connection' = "complete"
      /\ UNCHANGED <<loads, configured, claim, capability, enabled, error, counts, row, wire, api>>
  BY DEF ClickDone
<1>2. Running' = Running /\ Queue' = Queue /\ Running = {}
  BY <1>1, RunningIsFinite DEF Running, Queue, BusyCountsRunningUploads
<1>3. Queue # {} /\ enabled
  BY <1>1 DEF PageFollowsPairing
<1>4. TypeOK'
  BY <1>1 DEF TypeOK
<1>5. BusyCountsRunningUploads' /\ SentMeansStored'
  BY <1>1, <1>2 DEF BusyCountsRunningUploads, SentMeansStored
<1>6. CompleteIsFinal' /\ PickerStaysUsable' /\ RestOffersDone' /\ EnabledMeansPaired'
         /\ PairingSurvivesReload'
  BY <1>1, <1>2 DEF CompleteIsFinal, PickerStaysUsable, RestOffersDone, EnabledMeansPaired,
                    PairingSurvivesReload
<1>7. PageFollowsPairing'
  BY <1>1, <1>2, <1>3 DEF PageFollowsPairing, WiresFollowRows
<1> QED BY <1>4, <1>5, <1>6, <1>7

(* What the API does shows on the page only through the answers.           *)
LEMMA AnswersKeep ==
    ASSUME IInv, Answers
    PROVE  IInv'
<1> USE DEF IInv, pairing, screen, counts
<1>1. /\ UNCHANGED <<loads, configured, capability, stored, enabled, screen, counts, row>>
      /\ Running' = Running /\ Queue' = Queue
  BY DEF Answers, AnswerClaim, AnswerPost, AnswerPut, Running, Queue
<1>2. TypeOK' /\ SentMeansStored' /\ (claimed => claimed') /\ claimed' \in BOOLEAN
      /\ WiresFollowRows'
  <2>1. CASE AnswerClaim
    BY <2>1 DEF AnswerClaim, TypeOK, SentMeansStored, PageFollowsPairing, WiresFollowRows
  <2>2. ASSUME NEW u \in Uploads, AnswerPost(u)
        PROVE  TypeOK' /\ SentMeansStored' /\ (claimed => claimed') /\ claimed' \in BOOLEAN
               /\ WiresFollowRows'
    BY <2>2 DEF AnswerPost, TypeOK, Requests, SentMeansStored, PageFollowsPairing, WiresFollowRows
  <2>3. ASSUME NEW u \in Uploads, AnswerPut(u)
        PROVE  TypeOK' /\ SentMeansStored' /\ (claimed => claimed') /\ claimed' \in BOOLEAN
               /\ WiresFollowRows'
    BY <2>3 DEF AnswerPut, TypeOK, Requests, SentMeansStored, PageFollowsPairing, WiresFollowRows
  <2> QED BY <2>1, <2>2, <2>3 DEF Answers
<1>3. BusyCountsRunningUploads' /\ CompleteIsFinal' /\ PickerStaysUsable' /\ RestOffersDone'
         /\ PairingSurvivesReload'
  BY <1>1 DEF BusyCountsRunningUploads, CompleteIsFinal, PickerStaysUsable, RestOffersDone,
              PairingSurvivesReload
<1>4. EnabledMeansPaired'
  BY <1>1, <1>2 DEF EnabledMeansPaired
<1>5. PageFollowsPairing'
  <2>1. CASE AnswerClaim
    <3>1. claim = "sent" /\ claim' \in {"ok", "failed"} /\ (claim' = "ok" => claimed')
      BY <2>1 DEF AnswerClaim
    <3> QED BY <1>1, <1>2, <3>1 DEF PageFollowsPairing
  <2>2. CASE \E u \in Uploads : AnswerPost(u) \/ AnswerPut(u)
    <3>1. claim' = claim
      BY <2>2 DEF AnswerPost, AnswerPut
    <3> QED BY <1>1, <1>2, <3>1 DEF PageFollowsPairing
  <2> QED BY <2>1, <2>2 DEF Answers
<1> QED BY <1>2, <1>3, <1>4, <1>5

(* Every step of the page, its user, the network and the API keeps it.     *)
LEMMA NextKeeps == IInv /\ [Next]_vars => IInv'
<1> SUFFICES ASSUME IInv, [Next]_vars PROVE IInv'
  OBVIOUS
<1>1. CASE UNCHANGED vars
  BY <1>1 DEF vars, pairing, screen, counts, api, IInv, TypeOK, BusyCountsRunningUploads,
              SentMeansStored, CompleteIsFinal, PickerStaysUsable, RestOffersDone,
              EnabledMeansPaired, PairingSurvivesReload, PageFollowsPairing, WiresFollowRows,
              Running, Queue
<1>2. CASE User
  BY <1>2, LoadKeeps, LoadInertKeeps, PickKeeps, ClickDoneKeeps DEF User
<1>3. CASE Handlers
  BY <1>3, ClaimSettlesKeeps, DescribeKeeps, CompleteKeeps, FailKeeps DEF Handlers
<1>4. CASE Answers
  BY <1>4, AnswersKeep
<1>5. CASE Rest
  BY <1>1, <1>5 DEF Rest
<1> QED BY <1>1, <1>2, <1>3, <1>4, <1>5 DEF Next

(* IInv holds in every state the page can reach.                           *)
THEOREM Invariance == Safety => []IInv
BY InitEstablishes, NextKeeps, PTL DEF Safety

(* The page's state is always well typed; in particular the counter of     *)
(* uploads never goes below zero or beyond the files there are.            *)
THEOREM TypeCorrectness == Safety => []TypeOK
BY Invariance, PTL DEF IInv

(* The counter and the busy mark are those of the rows that run.           *)
THEOREM CounterIsExact == Safety => []BusyCountsRunningUploads
BY Invariance, PTL DEF IInv

(* No row says "Sent" of a file the API does not hold.                     *)
THEOREM SentIsTrue == Safety => []SentMeansStored
BY Invariance, PTL DEF IInv

(* After "Transfer complete" nothing is under way or can begin.            *)
THEOREM CompleteIsTheEnd == Safety => []CompleteIsFinal
BY Invariance, PTL DEF IInv

(* Until then a paired page can always take more files...                  *)
THEOREM FailuresLeaveThePicker == Safety => []PickerStaysUsable
BY Invariance, PTL DEF IInv

(* ... and at rest offers Done, however its uploads ended.                 *)
THEOREM DoneIsOffered == Safety => []RestOffersDone
BY Invariance, PTL DEF IInv

(* A page in use can be continued by a reload of its tab.                  *)
THEOREM ReloadsContinue == Safety => []PairingSurvivesReload
BY Invariance, PTL DEF IInv

(* Files are accepted only by a page whose secret the API exchanged.       *)
THEOREM PairingIsGenuine == Safety => []EnabledMeansPaired
BY Invariance, PTL DEF IInv

-----------------------------------------------------------------------------
(* The boundary of what the last screen says wrongly.                      *)

(* "Transfer complete" accounts for every file of the queue: the API holds *)
(* it, or its row says that it failed.                                     *)
CompleteAccounts ==
    connection = "complete" =>
        \A u \in Queue : \/ row[u] = "sent" /\ u \in content
                        \/ row[u] = "failed"

LEMMA CompleteIsAccountedFor == IInv => CompleteAccounts
<1> SUFFICES ASSUME IInv, connection = "complete", NEW u \in Queue
             PROVE  \/ row[u] = "sent" /\ u \in content
                    \/ row[u] = "failed"
  BY DEF CompleteAccounts
<1>1. u \in Uploads /\ row[u] \in InFlight \union {"sent", "failed"}
  BY DEF Queue
<1>2. row[u] \notin InFlight
  BY <1>1 DEF IInv, CompleteIsFinal, Running
<1> QED BY <1>1, <1>2 DEF IInv, SentMeansStored

(* No file is lost without a row that says so...                           *)
THEOREM CompletionIsAccountedFor == Safety => []CompleteAccounts
BY Invariance, CompleteIsAccountedFor, PTL

(* ... so the words of the last screen are true of every queue that has no *)
(* failed row, however its uploads overlapped.                             *)
THEOREM OnlyFailuresAreUndelivered ==
    Safety => []((\A u \in Queue : row[u] # "failed") => CompleteMeansDelivered)
<1>1. IInv /\ (\A u \in Queue : row[u] # "failed") => CompleteMeansDelivered
  BY CompleteIsAccountedFor DEF CompleteAccounts, CompleteMeansDelivered
<1> QED BY Invariance, <1>1, PTL

-----------------------------------------------------------------------------
(* What a step may never do.                                               *)

(* In the document that says "Transfer complete" nothing changes any more. *)
Frozen ==
    connection = "complete" /\ loads' = loads =>
        UNCHANGED <<pairing, screen, counts, row>>

(* A row that says "Sent" or "Failed" says so until its document is gone,  *)
(* and an upload of an earlier document never returns.                     *)
Settled(u) ==
    /\ row[u] \in {"sent", "failed"} =>
          row'[u] = row[u] \/ (row'[u] = "gone" /\ loads' = loads + 1)
    /\ row[u] = "gone" => row'[u] = "gone"

(* A new document comes of the user only, and takes all rows with it.      *)
LEMMA LoadingSettles ==
    ASSUME IInv, NEW outcome, NEW kept, NEW sameTab, NewDocument(outcome, kept, sameTab)
    PROVE  Frozen /\ \A u \in Uploads : Settled(u)
<1>1. /\ loads' = loads + 1 /\ loads \in Nat
      /\ row' = [u \in Uploads |-> IF row[u] = "none" THEN "none" ELSE "gone"]
  BY LoadsAssumption DEF NewDocument, IInv, TypeOK
<1> QED BY <1>1 DEF Frozen, Settled

(* Every other step of the page needs the picker, Done, a request that is  *)
(* awaited or a pairing that is not settled.                               *)
LEMMA StepSettles ==
    ASSUME IInv, [Next]_vars
    PROVE  Frozen /\ \A u \in Uploads : Settled(u)
<1> USE DEF IInv, pairing, screen, counts
<1>1. connection = "complete" =>
         /\ Running = {} /\ ~picker /\ ~done /\ claim = "settled"
  BY DEF CompleteIsFinal, PageFollowsPairing
<1>2. row \in [Uploads -> Rows]
  BY DEF TypeOK
<1>3. ASSUME NEW valid \in BOOLEAN, NEW secret \in BOOLEAN, NEW sameTab \in BOOLEAN,
             NEW config \in BOOLEAN, Load(valid, secret, sameTab, config) \/ LoadInert(sameTab)
      PROVE  Frozen /\ \A u \in Uploads : Settled(u)
  BY <1>3, LoadingSettles DEF Load, LoadInert
<1>4. ASSUME NEW files \in SUBSET Uploads, Pick(files)
      PROVE  Frozen /\ \A u \in Uploads : Settled(u)
  BY <1>1, <1>2, <1>4 DEF Pick, Frozen, Settled
<1>5. CASE Claimed \/ ClaimNotStored \/ ClaimFails
  BY <1>1, <1>5 DEF Claimed, ClaimNotStored, ClaimFails, Frozen, Settled
<1>6. ASSUME NEW u \in Uploads, Describe(u) \/ Complete(u) \/ Fail(u)
      PROVE  Frozen /\ \A v \in Uploads : Settled(v)
  <2>1. row[u] \in InFlight
    BY <1>6 DEF Describe, Complete, Fail, InFlight
  <2>2. connection # "complete"
    BY <1>1, <2>1 DEF Running
  <2>3. \A v \in Uploads : v # u => row'[v] = row[v]
    BY <1>2, <1>6 DEF Describe, Complete, Fail, Settle
  <2> QED BY <2>1, <2>2, <2>3 DEF Frozen, Settled, InFlight
<1>7. CASE ClickDone
  BY <1>1, <1>7 DEF ClickDone, Frozen, Settled
<1>8. CASE Answers
  <2>1. UNCHANGED <<loads, configured, capability, stored, enabled, screen, counts, row>>
    BY <1>8 DEF Answers, AnswerClaim, AnswerPost, AnswerPut
  <2>2. connection = "complete" => claim' = claim
    BY <1>1, <1>8 DEF Answers, AnswerClaim, AnswerPost, AnswerPut
  <2> QED BY <2>1, <2>2 DEF Frozen, Settled
<1>9. CASE Rest \/ UNCHANGED vars
  BY <1>9 DEF Rest, vars, Frozen, Settled
<1> QED BY <1>3, <1>4, <1>5, <1>6, <1>7, <1>8, <1>9 DEF Next, User, Handlers

(* No late answer brings a completed page back to life: only a reload      *)
(* changes what it shows or knows.                                         *)
THEOREM CompleteStaysComplete == Safety => [][Frozen]_vars
<1>1. IInv /\ [Next]_vars => [Frozen]_vars
  BY StepSettles
<1> QED BY <1>1, Invariance, PTL DEF Safety

(* What a row tells of its upload is its last word, in whatever order the  *)
(* answers of the other uploads come.                                      *)
THEOREM RowsAreFinal == Safety => [][\A u \in Uploads : Settled(u)]_vars
<1>1. IInv /\ [Next]_vars => [\A u \in Uploads : Settled(u)]_vars
  BY StepSettles
<1> QED BY <1>1, Invariance, PTL DEF Safety

-----------------------------------------------------------------------------
(* The page implements Transfer.                                           *)

LEMMA InitImplements == Init => Promise!Init
BY DEF Init, Promise!Init, InFlight

LEMMA NewDocumentImplements ==
    ASSUME IInv, NEW outcome \in {"ok", "failed", "sent", "inert"}, NEW kept \in BOOLEAN,
           NEW sameTab \in BOOLEAN, kept => stored /\ sameTab, outcome = "ok" => kept,
           NewDocument(outcome, kept, sameTab)
    PROVE  Promise!Reload
<1>1. /\ enabled' = (outcome = "ok")
      /\ stored' = (stored /\ sameTab)
      /\ row' = [u \in Uploads |-> IF row[u] = "none" THEN "none" ELSE "gone"]
      /\ content' = content
  BY DEF NewDocument
<1>2. connection' # "complete"
  BY DEF NewDocument
<1>3. stored' \in {stored, FALSE} /\ (enabled' => stored')
  BY <1>1 DEF IInv, TypeOK
<1>4. [u \in Uploads |-> IF row'[u] \in InFlight THEN "underway" ELSE row'[u]] =
      [u \in Uploads |-> IF [v \in Uploads |-> IF row[v] \in InFlight THEN "underway" ELSE row[v]][u] = "none"
                         THEN "none" ELSE "gone"]
  BY <1>1 DEF InFlight
<1> QED BY <1>1, <1>2, <1>3, <1>4 DEF Promise!Reload

LEMMA PairingImplements ==
    ASSUME IInv, Claimed \/ ClaimNotStored \/ ClaimFails
    PROVE  [Promise!Next]_(Promise!vars)
<1>1. ~enabled /\ connection = "secure" /\ UNCHANGED <<row, content>>
  BY DEF IInv, PageFollowsPairing, Claimed, ClaimNotStored, ClaimFails, counts, api
<1>2. CASE Claimed
  <2>1. Promise!Open
    BY <1>1, <1>2 DEF Claimed, Promise!Open
  <2> QED BY <2>1 DEF Promise!Next
<1>3. CASE ClaimNotStored \/ ClaimFails
  <2>1. UNCHANGED <<enabled, stored>> /\ connection' = "unavailable"
    BY <1>3 DEF ClaimNotStored, ClaimFails, ShowError
  <2> QED BY <1>1, <2>1 DEF Promise!vars
<1> QED BY <1>2, <1>3

LEMMA PickImplements ==
    ASSUME IInv, NEW files \in SUBSET Uploads, Pick(files)
    PROVE  Promise!Next
<1>1. /\ enabled /\ picker /\ \A u \in files : row[u] = "none"
      /\ row' = [u \in Uploads |-> IF u \in files THEN "preparing" ELSE row[u]]
      /\ UNCHANGED <<enabled, stored, connection, content>>
  BY DEF Pick, pairing, api
<1>2. connection # "complete"
  BY <1>1 DEF IInv, CompleteIsFinal
<1>3. Promise!Begin(files)
  BY <1>1, <1>2 DEF Promise!Begin, InFlight
<1> QED BY <1>3 DEF Promise!Next

LEMMA UploadImplements ==
    ASSUME IInv, NEW u \in Uploads, Describe(u) \/ Complete(u) \/ Fail(u)
    PROVE  [Promise!Next]_(Promise!vars)
<1> DEFINE file == [v \in Uploads |-> IF row[v] \in InFlight THEN "underway" ELSE row[v]]
<1>1. row \in [Uploads -> Rows]
  BY DEF IInv, TypeOK
<1>2. row[u] \in InFlight /\ UNCHANGED <<enabled, stored, content>>
  BY DEF Describe, Complete, Fail, InFlight, pairing, api
<1>3. CASE Describe(u)
  <2>1. file' = file /\ connection' = connection
    BY <1>1, <1>3 DEF Describe, InFlight, screen
  <2> QED BY <1>2, <2>1 DEF Promise!vars
<1>4. connection # "complete" /\ enabled
  BY <1>2 DEF IInv, CompleteIsFinal, Running, PageFollowsPairing, Queue
<1>5. CASE Complete(u)
  <2>1. u \in content /\ row' = [row EXCEPT ![u] = "sent"] /\ connection' = connection
    BY <1>5 DEF Complete, Settle, IInv, PageFollowsPairing, WiresFollowRows
  <2>2. file' = [file EXCEPT ![u] = "sent"] /\ file[u] = "underway"
    BY <1>1, <1>2, <2>1 DEF InFlight
  <2>3. Promise!End(u)
    BY <1>2, <2>1, <2>2 DEF Promise!End
  <2> QED BY <2>3 DEF Promise!Next
<1>6. CASE Fail(u)
  <2>1. row' = [row EXCEPT ![u] = "failed"] /\ connection' = "unavailable"
    BY <1>6 DEF Fail, Settle, ShowError
  <2>2. file' = [file EXCEPT ![u] = "failed"] /\ file[u] = "underway"
    BY <1>1, <1>2, <2>1 DEF InFlight
  <2>3. Promise!End(u)
    BY <1>2, <1>4, <2>1, <2>2 DEF Promise!End
  <2> QED BY <2>3 DEF Promise!Next
<1> QED BY <1>3, <1>5, <1>6

LEMMA ClickDoneImplements ==
    ASSUME IInv, ClickDone
    PROVE  Promise!Next
<1>1. /\ done /\ activeUploads = 0 /\ stored' = FALSE /\ connection' = "complete"
      /\ UNCHANGED <<enabled, row, content>>
  BY DEF ClickDone, api
<1>2. Running = {} /\ Queue # {} /\ enabled /\ connection # "complete"
  BY <1>1, RunningIsFinite
  DEF IInv, BusyCountsRunningUploads, PageFollowsPairing, CompleteIsFinal
<1>3. \A u \in Uploads : row[u] \notin InFlight
  BY <1>2 DEF Running
<1>4. PICK u \in Uploads : row[u] \in {"sent", "failed"}
  BY <1>2, <1>3 DEF Queue
<1> DEFINE file == [v \in Uploads |-> IF row[v] \in InFlight THEN "underway" ELSE row[v]]
<1>5. file = [v \in Uploads |-> row[v]]
  BY <1>3
<1>6. \A v \in Uploads : file[v] # "underway"
  <2>1. \A v \in Uploads : row[v] # "underway"
    BY DEF IInv, TypeOK, Rows, InFlight
  <2> QED BY <1>5, <2>1
<1>7. file[u] \in {"sent", "failed"}
  BY <1>4, <1>5
<1>8. file' = file
  BY <1>1
<1> HIDE DEF file
<1>9. Promise!Finish
  <2>1. \E v \in Uploads : file[v] \in {"sent", "failed"}
    BY <1>7
  <2> QED BY <1>1, <1>2, <1>6, <1>8, <2>1 DEF Promise!Finish, file
<1> QED BY <1>9 DEF Promise!Next

LEMMA AnswersImplement ==
    ASSUME IInv, Answers
    PROVE  [Promise!Next]_(Promise!vars)
<1>1. UNCHANGED <<enabled, stored, connection, row>>
  BY DEF Answers, AnswerClaim, AnswerPost, AnswerPut, pairing, screen
<1>2. CASE content' = content
  BY <1>1, <1>2 DEF Promise!vars
<1>3. ASSUME NEW u \in Uploads, AnswerPut(u), content' # content
      PROVE  Promise!Next
  <2>1. wire[u] = "put" /\ content' = content \union {u}
    BY <1>3 DEF AnswerPut
  <2>2. row[u] \in InFlight \union {"gone"}
    BY <2>1 DEF IInv, PageFollowsPairing, WiresFollowRows, TypeOK, Rows
  <2>3. Promise!Store(u)
    BY <1>1, <2>1, <2>2 DEF Promise!Store, InFlight
  <2> QED BY <2>3 DEF Promise!Next
<1>4. content' = content \/ \E u \in Uploads : AnswerPut(u)
  BY DEF Answers, AnswerClaim, AnswerPost
<1> QED BY <1>2, <1>3, <1>4

LEMMA NextImplements == IInv /\ [Next]_vars => [Promise!Next]_(Promise!vars)
<1> SUFFICES ASSUME IInv, [Next]_vars PROVE [Promise!Next]_(Promise!vars)
  OBVIOUS
<1>1. CASE UNCHANGED vars
  BY <1>1 DEF vars, pairing, screen, api, Promise!vars
<1>2. ASSUME NEW valid \in BOOLEAN, NEW secret \in BOOLEAN, NEW sameTab \in BOOLEAN,
             NEW config \in BOOLEAN, Load(valid, secret, sameTab, config)
      PROVE  Promise!Next
  <2> DEFINE kept == valid /\ stored /\ sameTab
             outcome == ClaimOutcome(kept, valid /\ secret, config)
  <2>1. /\ outcome \in {"ok", "failed", "sent", "inert"} /\ (outcome = "ok" => kept)
        /\ kept \in BOOLEAN /\ (kept => stored /\ sameTab)
    BY DEF ClaimOutcome
  <2>2. NewDocument(outcome, kept, sameTab)
    BY <1>2 DEF Load
  <2> HIDE DEF outcome, kept
  <2>3. Promise!Reload
    BY <2>1, <2>2, NewDocumentImplements
  <2> QED BY <2>3 DEF Promise!Next
<1>3. ASSUME NEW sameTab \in BOOLEAN, LoadInert(sameTab)
      PROVE  Promise!Next
  <2>1. NewDocument("inert", FALSE, sameTab)
    BY <1>3 DEF LoadInert
  <2>2. Promise!Reload
    BY <2>1, NewDocumentImplements
  <2> QED BY <2>2 DEF Promise!Next
<1>4. CASE User
  BY <1>2, <1>3, <1>4, PickImplements, ClickDoneImplements DEF User
<1>5. CASE Handlers
  BY <1>5, PairingImplements, UploadImplements DEF Handlers
<1>6. CASE Answers
  BY <1>6, AnswersImplement
<1>7. CASE Rest
  BY <1>1, <1>7 DEF Rest
<1> QED BY <1>1, <1>4, <1>5, <1>6, <1>7 DEF Next

(* Every run of the page is one that Transfer allows.                      *)
THEOREM PageImplementsTransfer == Safety => Promise!Safety
BY InitImplements, NextImplements, Invariance, PTL DEF Safety, Promise!Safety
=============================================================================
