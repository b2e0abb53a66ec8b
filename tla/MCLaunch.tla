------------------------------ MODULE MCLaunch ------------------------------
(***************************************************************************)
(* Launch on small instances: every bundle of up to MaxLines lines against *)
(* every environment with no other source, and every combination of        *)
(* sources for one name at a time.                                         *)
(***************************************************************************)
EXTENDS Launch

CONSTANT MaxLines       \* bound on the length of a bundle

Plain(text) == [text |-> text, inner |-> FALSE, pad |-> 0]

MCTruths     == {Plain("true"), Plain("1")}
MCFalsehoods == {Plain("false")}
MCTrue       == Plain("true")
MCFalse      == Plain("false")
MCDefault ==
    [n \in Names |-> CASE n = "HELP" -> Plain("false")
                       [] n = "A"    -> Plain("default")
                       [] OTHER      -> Unset]

NoLayer == [n \in Names |-> Unset]
NoArgs  == [dotenv |-> NoLayer, overrides |-> NoLayer, flags |-> NoLayer,
            problems |-> {}, writable |-> TRUE]

-----------------------------------------------------------------------------
(* The script: plain values, base64 with one '=' at its end, and that      *)
(* behind another '='.                                                     *)
Secrets == [text : {"secret"}, inner : {FALSE}, pad : {0, 1}]
             \union [text : {"secret"}, inner : {TRUE}, pad : {1}]
Scripted  == {"A", "B"} \union OwnNames
MCBundles ==
    UNION {[1 .. k -> [key : Scripted \union {NoName}, value : Secrets]] : k \in 0 .. MaxLines}
MCEnvs == {e \in [Names -> {Plain("started"), Unset}] : e["HELP"] = Unset}

Containers(envs, bundles) ==
    [env : envs, bundle : bundles, file : {TRUE}, ageKey : {TRUE},
     requireKey : {FALSE}, sops : {TRUE}, decrypts : {TRUE}]

Failing ==
    [env : MCEnvs, bundle : {<<>>}, file : BOOLEAN, ageKey : BOOLEAN,
     requireKey : BOOLEAN, sops : BOOLEAN, decrypts : BOOLEAN]

-----------------------------------------------------------------------------
(* The flags: each source has a value of its own for a text; for a boolean *)
(* every source has a true, a false or an ill-typed one.                   *)
Says(n, source) ==
    IF n \in Booleans THEN {Plain("1"), Plain("false"), Plain("junk")} ELSE {Plain(source)}
LayersOf(n, source) == {[NoLayer EXCEPT ![n] = v] : v \in {Unset} \union Says(n, source)}
BundlesOf(n) == {<<>>} \union {<<[key |-> n, value |-> v]>> : v \in Says(n, "secret")}

(* argv can give a value to declared names only.                           *)
ArgsOf(n) ==
    [dotenv : LayersOf(n, "dotenv"), overrides : LayersOf(n, "override"),
     flags : IF n \in Contract THEN LayersOf(n, "flag") ELSE {NoLayer},
     problems : {{}}, writable : {TRUE}]
Unsound == [dotenv : {NoLayer}, overrides : {NoLayer}, flags : {NoLayer},
            problems : SUBSET Problems, writable : BOOLEAN]

MCInit ==
    \/ LaunchInitWith(Containers(MCEnvs, MCBundles) \union Failing, {NoArgs})
    \/ LaunchInitWith(Containers({NoLayer}, {<<>>}), Unsound)
    \/ \E n \in {"A", "B", "HELP"} :
          LaunchInitWith(Containers(LayersOf(n, "started"), BundlesOf(n)), ArgsOf(n))

MCSpec == MCInit /\ [][LaunchNext]_launchVars
=============================================================================
