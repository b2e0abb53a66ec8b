--------------------------- MODULE SopsEntrypoint ---------------------------
(***************************************************************************)
(* scripts/sops-entrypoint.sh: the image's entry point decrypts a bundle   *)
(* of NAME=value lines into the environment and becomes the program.       *)
(*                                                                         *)
(* The script works in the shell's one space of variables: a line is       *)
(* exported if no variable of its name is set, and the script's own        *)
(* variables are set while it looks.  A value is abstracted to what the    *)
(* splitting of its line can change: how many '=' it ends with and whether *)
(* it has one before those.  External: sops, and the shell's read.         *)
(***************************************************************************)
EXTENDS Naturals, Sequences

CONSTANTS
    Names,          \* the variable names that occur
    Texts,          \* what distinguishes values otherwise
    NoName,         \* stands for a key the loop skips
    Unset,          \* the variable does not exist
    Held,           \* whatever the script has in a variable of its own
    Empty           \* the empty string

(* The variables the script itself assigns.                                *)
OwnNames == {"key", "value", "secrets"}

Values == [text : Texts, inner : BOOLEAN, pad : 0 .. 2]

ASSUME NamesAssumption == OwnNames \subseteq Names /\ NoName \notin Names
ASSUME UnsetAssumption == Unset \notin Values \union {Held, Empty}

(* A blank line, a comment, sops_* metadata and an invalid name are alike: *)
(* the loop continues with the next line.                                  *)
Lines == [key : Names \union {NoName}, value : Values]

VARIABLES
    given,      \* what the container was started with: never changes
    var,        \* the shell's variables
    exported,   \* those that are in the environment of a command
    decrypted,  \* secrets holds the bundle
    line,       \* how many of its lines were read
    stage

vars == <<given, var, exported, decrypted, line, stage>>

Givens ==
    [env : [Names -> Values \union {Unset}], bundle : Seq(Lines),
     file : BOOLEAN, ageKey : BOOLEAN, requireKey : BOOLEAN,
     sops : BOOLEAN, decrypts : BOOLEAN]

TypeOK ==
    /\ given \in Givens
    /\ var \in [Names -> Values \union {Unset, Held, Empty}]
    /\ exported \in SUBSET Names
    /\ decrypted \in BOOLEAN
    /\ line \in Nat
    /\ stage \in {"starting", "reading", "running", "failed"}

InitWith(givens) ==
    /\ given \in givens
    /\ var = given.env
    /\ exported = {n \in Names : given.env[n] # Unset}
    /\ decrypted = FALSE
    /\ line = 0
    /\ stage = "starting"

Init == InitWith(Givens)

-----------------------------------------------------------------------------
(* exec "$@" without a bundle, or without the key to it.                   *)
RunAsIs ==
    /\ stage = "starting"
    /\ \/ ~given.file
       \/ ~given.ageKey /\ ~given.requireKey
    /\ stage' = "running"
    /\ UNCHANGED <<given, var, exported, decrypted, line>>

(* exit 1: SOPS_REQUIRE_KEY=1 without a key, or no sops in the image.      *)
Refuse ==
    /\ stage = "starting"
    /\ given.file
    /\ \/ ~given.ageKey /\ given.requireKey
       \/ given.ageKey /\ ~given.sops
    /\ stage' = "failed"
    /\ UNCHANGED <<given, var, exported, decrypted, line>>

Decryptable == stage = "starting" /\ given.file /\ given.ageKey /\ given.sops

(* Wrong on purpose: a failed decryption that is only reported.            *)
DecryptFailsOpen ==
    /\ Decryptable
    /\ ~given.decrypts
    /\ stage' = "running"
    /\ UNCHANGED <<given, var, exported, decrypted, line>>

DecryptFails ==
    /\ Decryptable
    /\ ~given.decrypts
    /\ stage' = "failed"
    /\ UNCHANGED <<given, var, exported, decrypted, line>>

Decrypt ==
    /\ Decryptable
    /\ given.decrypts
    /\ stage' = "reading"
    /\ decrypted' = TRUE
    /\ var' = [var EXCEPT !["secrets"] = Held]
    /\ UNCHANGED <<given, exported, line>>

-----------------------------------------------------------------------------
(* while IFS='=' read -r key value                                         *)

(* What read puts into value: the rest of the line after its first '=',    *)
(* except that one '=' at the end of a rest without any other '=' ends the *)
(* field instead of belonging to it.                                       *)
ReadValue(v) == IF v.pad = 1 /\ ~v.inner THEN [v EXCEPT !.pad = 0] ELSE v

Key(i)   == given.bundle[i].key
Value(i) == ReadValue(given.bundle[i].value)
More     == stage = "reading" /\ line < Len(given.bundle)

(* The variables once read has assigned those two.                         *)
WhileReading(i) == [var EXCEPT !["key"] = Held, !["value"] = Value(i)]

(* Wrong on purpose: a line that is not for us ends the loop.              *)
SkipStops ==
    LET i == line + 1 IN
    /\ More
    /\ \/ Key(i) = NoName
       \/ Key(i) # NoName /\ WhileReading(i)[Key(i)] # Unset
    /\ line' = Len(given.bundle)
    /\ var' = WhileReading(i)
    /\ UNCHANGED <<given, exported, decrypted, stage>>

(* continue, or a variable of that name that is set already.               *)
Skip ==
    LET i == line + 1 IN
    /\ More
    /\ \/ Key(i) = NoName
       \/ Key(i) # NoName /\ WhileReading(i)[Key(i)] # Unset
    /\ line' = i
    /\ var' = WhileReading(i)
    /\ UNCHANGED <<given, exported, decrypted, stage>>

(* Wrong on purpose: the test for a variable that is set is missing.       *)
ExportAnyway ==
    LET i == line + 1 IN
    /\ More
    /\ Key(i) # NoName
    /\ line' = i
    /\ var' = [WhileReading(i) EXCEPT ![Key(i)] = Value(i)]
    /\ exported' = exported \union {Key(i)}
    /\ UNCHANGED <<given, decrypted, stage>>

Export ==
    LET i == line + 1 IN
    /\ More
    /\ Key(i) # NoName
    /\ WhileReading(i)[Key(i)] = Unset
    /\ line' = i
    /\ var' = [WhileReading(i) EXCEPT ![Key(i)] = Value(i)]
    /\ exported' = exported \union {Key(i)}
    /\ UNCHANGED <<given, decrypted, stage>>

(* The read that finds no line empties both; unset secrets; exec "$@".     *)
HandOff ==
    /\ stage = "reading"
    /\ line = Len(given.bundle)
    /\ var' = [var EXCEPT !["key"] = Empty, !["value"] = Empty, !["secrets"] = Unset]
    /\ exported' = exported \ {"secrets"}
    /\ stage' = "running"
    /\ UNCHANGED <<given, decrypted, line>>

Next == RunAsIs \/ Refuse \/ DecryptFails \/ Decrypt \/ Skip \/ Export \/ HandOff

Spec == Init /\ [][Next]_vars

-----------------------------------------------------------------------------
(* What the program finds in its environment.                              *)
Environment == [n \in Names |-> IF n \in exported THEN var[n] ELSE Unset]

(* Orchestrator-set variables win: no line of the bundle, however often it *)
(* repeats a name, changes a variable the container was started with.      *)
(* (Variables named like the script's own are overwritten.)                *)
OrchestratorWins ==
    \A n \in Names \ OwnNames :
        given.env[n] # Unset => Environment[n] = given.env[n]

(* v is what n should be after the first k lines: the first of them that   *)
(* names it counts, unless the container was started with it.              *)
Naming(n, k) == {i \in 1 .. k : Key(i) = n}
Merges(n, k, v) ==
    \/ given.env[n] # Unset /\ v = given.env[n]
    \/ given.env[n] = Unset /\ Naming(n, k) = {} /\ v = Unset
    \/ /\ given.env[n] = Unset
       /\ \E i \in Naming(n, k) :
             v = Value(i) /\ \A j \in Naming(n, k) : i <= j

(* The program starts with the whole bundle merged in or with none of it:  *)
(* skipped lines and repeated names lose no other line.                    *)
AllOrNothing ==
    stage = "running" =>
        \A n \in Names \ OwnNames :
            IF decrypted
            THEN Merges(n, Len(given.bundle), Environment[n])
            ELSE Environment[n] = given.env[n]

(* A container that has a bundle and either the key to it or the duty to   *)
(* have one never runs the program without it: all failures are fatal.     *)
SecretsOrFailure ==
    stage = "running" /\ given.file /\ (given.ageKey \/ given.requireKey) => decrypted

(* The inductive invariant: the loop has merged the lines it read.         *)
IInv ==
    /\ TypeOK
    /\ stage = "reading" => decrypted
    /\ stage = "starting" => ~decrypted
    /\ line <= Len(given.bundle)
    /\ ~decrypted => line = 0
    /\ stage = "running" /\ decrypted => line = Len(given.bundle)
    /\ \A n \in Names \ OwnNames :
          /\ Merges(n, line, Environment[n])
          /\ n \notin exported => var[n] = Unset
    /\ SecretsOrFailure

-----------------------------------------------------------------------------
(* What a comment of the script says and the shell does not do.            *)

(* "Split on the first '=' only so URLs, base64 and JWTs stay intact"      *)
(* (scripts/sops-entrypoint.sh:41): what a line adds to the environment is *)
(* the value that line has.                                                *)
ValuesStayIntact ==
    stage = "running" =>
        \A n \in Names \ OwnNames :
            \/ Environment[n] = given.env[n]
            \/ \E i \in DOMAIN given.bundle :
                  Key(i) = n /\ Environment[n] = given.bundle[i].value
=============================================================================
