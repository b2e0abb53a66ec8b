------------------------------- MODULE Flags -------------------------------
(***************************************************************************)
(* How a program of this repository resolves its settings (src/flags.rs):  *)
(* layers are laid over one another, what the contract (.cli-flags.toml)   *)
(* declares is typed, and the result is laid over the environment.         *)
(*                                                                         *)
(* A layer is a function that is Unset where it has no value.  External:   *)
(* flags-2-env, which reads the layers and does the typing.  Of types only *)
(* boolean tells values apart; FLAGS2ENV_COMMAND, which is taken out of    *)
(* the layers, is not in the contract, and so drops out by itself.         *)
(***************************************************************************)
CONSTANTS
    Names,
    Unset,
    Contract,       \* the names .cli-flags.toml declares
    Booleans,       \* those of type boolean
    Controls,       \* CLI_HELP_REQUESTED, CLI_VERSION_REQUESTED
    Default,        \* the defaults it declares, or Unset
    True, False,    \* how a boolean is spelled once it is typed
    Truths,         \* what is accepted for it before
    Falsehoods

(* map.extend                                                              *)
Over(low, high) == [n \in Names |-> IF high[n] # Unset THEN high[n] ELSE low[n]]

(* Wrong on purpose: the environment laid over both kinds of dotenv.       *)
RawEnvironmentLast(args, env) == Over(Over(Over(args.dotenv, args.overrides), env), args.flags)

Raw(args, env) == Over(Over(Over(args.dotenv, env), args.overrides), args.flags)

WellTyped(layer) == \A n \in Booleans : layer[n] \in Truths \union Falsehoods \union {Unset}

(* scalar_string of a typed value                                          *)
Spelled(n, value) ==
    IF n \notin Booleans THEN value ELSE IF value \in Truths THEN True ELSE False

(* parser.coerce: names outside the contract are not its business.         *)
Typed(raw) ==
    [n \in Names |-> IF n \notin Contract THEN Unset
                     ELSE IF raw[n] = Unset THEN Default[n] ELSE Spelled(n, raw[n])]

(* Wrong on purpose: every layer is typed before it is laid over others.   *)
ResolvableLayerwise(args, env) ==
    /\ args.writable
    /\ args.problems = {}
    /\ \A layer \in {args.dotenv, env, args.overrides, args.flags} : WellTyped(layer)

(* The contract can be written to a file, nothing is wrong with argv, and  *)
(* what counts in the end is well typed.                                   *)
Resolvable(args, env) ==
    /\ args.writable
    /\ args.problems = {}
    /\ WellTyped(Raw(args, env))

(* What var() returns for the rest of the process: RESOLVED is set once.   *)
Resolved(args, env) == Over(env, Typed(Raw(args, env)))

(* process_control: some output is asked for instead of a server.          *)
ControlAsked(settings) == \E n \in Controls : settings[n] = True
=============================================================================
