------------------------------- MODULE Launch -------------------------------
(***************************************************************************)
(* From the start of a container to a program that knows its settings: the *)
(* entry point (SopsEntrypoint) merges the bundle into the environment and *)
(* becomes the program, which resolves its flags (Flags) before anything   *)
(* else and then fails, prints its help or version, or serves.             *)
(***************************************************************************)
EXTENDS SopsEntrypoint

CONSTANTS Contract, Booleans, Controls, Default, True, False, Truths, Falsehoods

INSTANCE Flags

ASSUME ContractAssumption ==
    /\ Contract \subseteq Names \ OwnNames
    /\ Controls \subseteq Booleans
    /\ Booleans \subseteq Contract

ASSUME SpellingAssumption ==
    {True, False} \union Truths \union Falsehoods \subseteq Values
ASSUME DefaultAssumption == Default \in [Names -> Values \union {Unset}]

VARIABLES
    args,       \* the layers flags-2-env reads, and what is wrong with argv
    program,
    settings    \* RESOLVED

launchVars == <<vars, args, program, settings>>

Layers == [Names -> Values \union {Unset}]
Problems == {"unknown", "invalid", "positional"}

Args == [dotenv : Layers, overrides : Layers, flags : Layers,
         problems : SUBSET Problems, writable : BOOLEAN]

LaunchInitWith(givens, someArgs) ==
    /\ InitWith(givens)
    /\ args \in someArgs
    /\ program = "waiting"
    /\ settings = [n \in Names |-> Unset]

LaunchInit == LaunchInitWith(Givens, Args)

-----------------------------------------------------------------------------
Entrypoint ==
    /\ Next
    /\ UNCHANGED <<args, program, settings>>

Launched == stage = "running" /\ program = "waiting"

(* process_control()? fails: main returns the error.                       *)
ResolveFails ==
    /\ Launched
    /\ ~Resolvable(args, Environment)
    /\ program' = "failed"
    /\ UNCHANGED <<vars, args, settings>>

Resolve(outcome) ==
    /\ Launched
    /\ Resolvable(args, Environment)
    /\ settings' = Resolved(args, Environment)
    /\ program' = outcome
    /\ UNCHANGED <<vars, args>>

(* Some(output) is printed and the process ends well.                      *)
AnswerControl == Resolve("answered") /\ ControlAsked(settings')

Serve == Resolve("serving") /\ ~ControlAsked(settings')

LaunchNext == Entrypoint \/ ResolveFails \/ AnswerControl \/ Serve

LaunchSpec == LaunchInit /\ [][LaunchNext]_launchVars

-----------------------------------------------------------------------------
(* The first source that has a value for n: v is what it says.             *)
FirstSet(sources, v) ==
    \/ \E i \in DOMAIN sources :
          /\ v = sources[i] /\ v # Unset
          /\ \A j \in 1 .. i - 1 : sources[j] = Unset
    \/ v = Unset /\ \A i \in DOMAIN sources : sources[i] = Unset

(* What the bundle says of n: the first of its lines that names it.        *)
Bundled(n) ==
    LET lines == IF decrypted THEN Naming(n, Len(given.bundle)) ELSE {}
    IN  IF lines = {} THEN Unset
        ELSE Value(CHOOSE i \in lines : \A j \in lines : i <= j)

(* All that may give a name its value, strongest first.                    *)
Container(n) == <<given.env[n], Bundled(n)>>
Sources(n) == <<args.flags[n], args.overrides[n], given.env[n], Bundled(n), args.dotenv[n]>>

(* A setting is what the strongest of its sources says, from the command   *)
(* line down through the orchestrator and the bundle to the defaults, and  *)
(* spelled by its type; a name the contract does not declare, such as      *)
(* FTNL_NATS_URL, comes from the orchestrator or the bundle only.          *)
SettingsFollowPriority ==
    program \in {"answered", "serving"} =>
        /\ \A n \in Names \ (Contract \union OwnNames) :
              FirstSet(Container(n), settings[n])
        /\ \A n \in Contract :
              \/ FirstSet(Sources(n), Unset) /\ settings[n] = Default[n]
              \/ \E v \in Values :
                    FirstSet(Sources(n), v) /\ settings[n] = Spelled(n, v)

(* Only what counts stops the program: it fails exactly for a problem with *)
(* argv or the file system, or for a value of the wrong type that nothing  *)
(* stronger overrides; and nothing asks a program that serves to print.    *)
OutcomeIsJustified ==
    program # "waiting" =>
        /\ program = "failed" <=>
              \/ ~args.writable
              \/ args.problems # {}
              \/ \E n \in Booleans, v \in Values :
                    FirstSet(Sources(n), v) /\ v \notin Truths \union Falsehoods
        /\ program = "serving" =>
              \A n \in Controls, v \in Truths : ~FirstSet(Sources(n), v)
=============================================================================
