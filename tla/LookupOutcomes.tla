--------------------------- MODULE LookupOutcomes ---------------------------
(***************************************************************************)
(* The vocabulary every backend of ftnl-control-web shares: what the       *)
(* authority behind a backend may decide about one tunnel lookup, and what *)
(* the lookup returns to the request handler.  (src/control.rs: the        *)
(* BackendError enum, the WireReply enum and decode_reply.)                *)
(***************************************************************************)

(* What an authority can say of a lookup.  "ok" carries a TunnelSummary    *)
(* and "other" is every error string decode_reply does not name; the       *)
(* summary and the strings are abstracted to the verdict itself.           *)
Verdicts == {"ok", "unauthorized", "not_found", "invalid_request", "other"}

Undecided == "undecided"

(* What TunnelBackend::lookup returns: a summary, or one of the four       *)
(* BackendErrors.                                                          *)
BackendErrors == {"invalid_request", "rejected", "unavailable", "not_found"}
Results == {"ok"} \union BackendErrors

NoResult == "none"

(* The result an authority's verdict turns into on the way back.           *)
ResultOf ==
    [v \in Verdicts |->
        CASE v = "ok"              -> "ok"
          [] v = "unauthorized"    -> "rejected"
          [] v = "not_found"       -> "not_found"
          [] v = "invalid_request" -> "invalid_request"
          [] v = "other"           -> "unavailable"]
=============================================================================
