---------------------------- MODULE ConfigScript ----------------------------
(***************************************************************************)
(* How the portal's setting reaches its page: config writes FTNL_API_ORIGIN*)
(* into /config.js as a string literal (src/lib.rs), and the browser       *)
(* (external) evaluates that.                                              *)
(*                                                                         *)
(* Text is a sequence of characters, of which only a few matter; an escape *)
(* such as \u003c is the two characters "\\" and "u003c".                  *)
(***************************************************************************)
EXTENDS FiniteSetsExt, SequencesExt

(* AppState::new: trim_end_matches('/')                                    *)
Trimmed(text) ==
    SubSeq(text, 1, Max({0} \union {i \in DOMAIN text : text[i] # "/"}))

(* serde_json::to_string                                                   *)
Escaped(c) == IF c \in {"quote", "\\"} THEN <<"\\", c>> ELSE <<c>>
Json(text) ==
    <<"quote">> \o FlattenSeq([i \in DOMAIN text |-> Escaped(text[i])]) \o <<"quote">>

Replacement(c) ==
    CASE c = "<"  -> <<"\\", "u003c">>
      [] c = "LS" -> <<"\\", "u2028">>
      [] c = "PS" -> <<"\\", "u2029">>
      [] OTHER    -> <<c>>

(* encode_runtime_config_string                                            *)
Encoded(text) ==
    LET json == Json(text)
    IN  FlattenSeq([i \in DOMAIN json |-> Replacement(json[i])])

(* What a literal evaluates to: where the evaluation is, and what it has.  *)
Meaning(c) ==
    CASE c = "u003c" -> "<" [] c = "u2028" -> "LS" [] c = "u2029" -> "PS" [] OTHER -> c

Evaluation(seen, c) ==
    CASE seen.at = "start" /\ c = "quote"  -> [seen EXCEPT !.at = "text"]
      [] seen.at = "text" /\ c = "quote"   -> [seen EXCEPT !.at = "end"]
      [] seen.at = "text" /\ c = "\\"      -> [seen EXCEPT !.at = "escape"]
      [] seen.at = "text" /\ c \notin {"quote", "\\"}
                                           -> [seen EXCEPT !.text = Append(@, c)]
      [] seen.at = "escape"                -> [at |-> "text", text |-> Append(seen.text, Meaning(c))]
      [] OTHER                             -> [seen EXCEPT !.at = "error"]

(* The setting as the page has it; none if the script does not parse.      *)
NoConfig == <<"undefined">>
Evaluated(literal) ==
    LET seen == FoldLeft(Evaluation, [at |-> "start", text |-> <<>>], literal)
    IN  IF seen.at = "end" THEN seen.text ELSE NoConfig
=============================================================================
