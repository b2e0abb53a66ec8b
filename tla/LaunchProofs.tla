---------------------------- MODULE LaunchProofs ----------------------------
(***************************************************************************)
(* The entry point keeps its promises for bundles of any length and any    *)
(* names and values, and the program behind it resolves its settings in    *)
(* the order of their sources, whatever the contract declares.             *)
(***************************************************************************)
EXTENDS Launch, TLAPS

(* What read assigns is a value, never an unset variable.                  *)
LEMMA ReadValueType == \A v \in Values : ReadValue(v) \in Values
  BY SMT DEF ReadValue, Values

LEMMA LineType ==
  ASSUME TypeOK, NEW i \in 1 .. Len(given.bundle)
  PROVE  /\ Key(i) \in Names \union {NoName}
         /\ Value(i) \in Values
         /\ Value(i) # Unset
  <1>1. given.bundle[i] \in Lines
    BY DEF TypeOK, Givens
  <1>2. given.bundle[i].key \in Names \union {NoName} /\ given.bundle[i].value \in Values
    BY <1>1 DEF Lines
  <1>3. Value(i) \in Values
    BY <1>2, ReadValueType DEF Value
  <1> QED
    BY <1>2, <1>3, UnsetAssumption DEF Key

(* A line that is skipped changes nothing a name already stands for: it    *)
(* does not name it, or an earlier line did.                               *)
LEMMA SkipMerges ==
  ASSUME NEW n, NEW k \in Nat, NEW v,
         Merges(n, k, v), Key(k + 1) # n \/ v # Unset
  PROVE  Merges(n, k + 1, v)
  <1>1. \A j \in Naming(n, k + 1) : j \in Naming(n, k) \/ (j = k + 1 /\ Key(k + 1) = n)
    BY SMT DEF Naming
  <1>2. Naming(n, k) \subseteq Naming(n, k + 1)
    BY SMT DEF Naming
  <1>3. \A j \in Naming(n, k) : j \in 1 .. k
    BY DEF Naming
  <1>4. CASE given.env[n] # Unset
    BY <1>4 DEF Merges
  <1>5. CASE given.env[n] = Unset /\ Naming(n, k) = {} /\ v = Unset
    BY <1>1, <1>5 DEF Merges
  <1>6. CASE given.env[n] = Unset /\ \E i \in Naming(n, k) :
                v = Value(i) /\ \A j \in Naming(n, k) : i <= j
    <2>1. PICK i \in Naming(n, k) : v = Value(i) /\ \A j \in Naming(n, k) : i <= j
      BY <1>6
    <2>2. i <= k + 1
      BY <1>3
    <2>3. \A j \in Naming(n, k + 1) : i <= j
      BY <1>1, <2>1, <2>2
    <2> QED
      BY <1>2, <1>6, <2>1, <2>3 DEF Merges
  <1> QED
    BY <1>4, <1>5, <1>6 DEF Merges

(* The first line to name an unset name is the one that counts.            *)
LEMMA ExportMerges ==
  ASSUME TypeOK, NEW n, NEW k \in Nat, k < Len(given.bundle),
         Merges(n, k, Unset), Key(k + 1) = n
  PROVE  Merges(n, k + 1, Value(k + 1))
  <1>1. \A i \in Naming(n, k) : Value(i) # Unset
    <2>1. Len(given.bundle) \in Nat
      BY DEF TypeOK, Givens
    <2>2. \A i \in Naming(n, k) : i \in 1 .. Len(given.bundle)
      BY <2>1 DEF Naming
    <2> QED
      BY <2>2, LineType
  <1>2. given.env[n] = Unset /\ Naming(n, k) = {}
    BY <1>1 DEF Merges
  <1>3. Naming(n, k + 1) = {k + 1}
    <2>1. k + 1 \in Naming(n, k + 1)
      BY SMT DEF Naming
    <2>2. \A j \in Naming(n, k + 1) : j \in Naming(n, k) \/ j = k + 1
      BY SMT DEF Naming
    <2> QED
      BY <1>2, <2>1, <2>2
  <1>4. k + 1 <= k + 1
    OBVIOUS
  <1> QED
    BY <1>2, <1>3, <1>4 DEF Merges

-----------------------------------------------------------------------------

LEMMA InitInvariant == Init => IInv
  <1> SUFFICES ASSUME Init PROVE IInv
    OBVIOUS
  <1> USE DEF Init, InitWith
  <1>1. TypeOK
    BY DEF TypeOK, Givens
  <1>2. Len(given.bundle) \in Nat
    BY <1>1 DEF TypeOK, Givens
  <1>3. \A n \in Names \ OwnNames :
           Merges(n, line, Environment[n]) /\ (n \notin exported => var[n] = Unset)
    <2> SUFFICES ASSUME NEW n \in Names \ OwnNames
                 PROVE  Merges(n, 0, Environment[n]) /\ (n \notin exported => var[n] = Unset)
      OBVIOUS
    <2>1. Naming(n, 0) = {}
      BY SMT DEF Naming
    <2>2. Environment[n] = given.env[n]
      BY DEF Environment
    <2> QED
      BY <2>1, <2>2 DEF Merges
  <1> QED
    BY <1>1, <1>2, <1>3 DEF IInv, SecretsOrFailure

(* Everything but the names: where the script is.                          *)
LEMMA Progress ==
  ASSUME IInv, [Next]_vars
  PROVE  /\ TypeOK'
         /\ (stage = "reading" => decrypted)'
         /\ (stage = "starting" => ~decrypted)'
         /\ (line <= Len(given.bundle))'
         /\ (~decrypted => line = 0)'
         /\ (stage = "running" /\ decrypted => line = Len(given.bundle))'
         /\ SecretsOrFailure'
  <1> USE DEF IInv, TypeOK, SecretsOrFailure
  <1>0. Len(given.bundle) \in Nat
    BY DEF Givens
  <1>1. OwnNames \subseteq Names /\ "key" \in Names /\ "value" \in Names /\ "secrets" \in Names
    BY NamesAssumption DEF OwnNames
  <1>2. CASE RunAsIs
    BY <1>2, <1>0 DEF RunAsIs
  <1>3. CASE Refuse
    BY <1>3, <1>0 DEF Refuse
  <1>4. CASE DecryptFails
    BY <1>4, <1>0 DEF DecryptFails, Decryptable
  <1>5. CASE Decrypt
    BY <1>5, <1>0, <1>1 DEF Decrypt, Decryptable
  <1>6. ASSUME More
        PROVE  /\ line + 1 \in 1 .. Len(given.bundle)
               /\ Key(line + 1) \in Names \union {NoName}
               /\ Value(line + 1) \in Values
               /\ WhileReading(line + 1) \in [Names -> Values \union {Unset, Held, Empty}]
    <2>1. line + 1 \in 1 .. Len(given.bundle)
      BY <1>0, <1>6 DEF More
    <2> QED
      BY <1>1, <2>1, LineType DEF WhileReading
  <1>7. CASE Skip
    BY <1>0, <1>6, <1>7 DEF Skip, More
  <1>8. CASE Export
    BY <1>0, <1>6, <1>8 DEF Export, More
  <1>9. CASE HandOff
    BY <1>0, <1>1, <1>9 DEF HandOff
  <1>10. CASE UNCHANGED vars
    BY <1>0, <1>10 DEF vars
  <1> QED
    BY <1>2, <1>3, <1>4, <1>5, <1>7, <1>8, <1>9, <1>10 DEF Next

(* The names: what the lines read so far make of each.                     *)
LEMMA Merging ==
  ASSUME IInv, [Next]_vars, NEW n \in Names \ OwnNames
  PROVE  Merges(n, line, Environment[n])' /\ (n \notin exported => var[n] = Unset)'
  <1> USE DEF IInv
  <1>0. given' = given
    BY DEF Next, RunAsIs, Refuse, DecryptFails, Decrypt, Skip, Export, HandOff, vars
  <1>1. \A k, v : Merges(n, k, v)' <=> Merges(n, k, v)
    BY <1>0 DEF Merges, Naming, Key, Value, ReadValue
  <1>2. n \in Names /\ n # "key" /\ n # "value" /\ n # "secrets"
    BY DEF OwnNames
  <1>3. line \in Nat /\ Len(given.bundle) \in Nat /\ DOMAIN var = Names
    BY DEF TypeOK, Givens
  <1>4. ASSUME var'[n] = var[n], (n \in exported') <=> (n \in exported)
        PROVE  Environment'[n] = Environment[n]
    BY <1>2, <1>4 DEF Environment
  <1>5. CASE RunAsIs \/ Refuse \/ DecryptFails \/ UNCHANGED vars
    BY <1>1, <1>4, <1>5 DEF RunAsIs, Refuse, DecryptFails, vars
  <1>6. CASE Decrypt
    <2>1. var'[n] = var[n]
      BY <1>2, <1>3, <1>6 DEF Decrypt
    <2> QED
      BY <1>1, <1>4, <1>6, <2>1 DEF Decrypt
  <1>7. CASE HandOff
    <2>1. var'[n] = var[n]
      BY <1>2, <1>3, <1>7 DEF HandOff
    <2>2. n \in exported' <=> n \in exported
      BY <1>2, <1>7 DEF HandOff
    <2> QED
      BY <1>1, <1>4, <1>7, <2>1, <2>2 DEF HandOff
  <1>8. ~(n \in exported) => Environment[n] = Unset
    BY <1>2 DEF Environment
  <1>9. WhileReading(line + 1)[n] = var[n]
    BY <1>2, <1>3 DEF WhileReading
  <1>10. CASE Skip
    <2>1. var'[n] = var[n] /\ exported' = exported /\ line' = line + 1
      BY <1>9, <1>10 DEF Skip
    <2>2. Key(line + 1) # n \/ Environment[n] # Unset
      <3>1. CASE Key(line + 1) = NoName
        BY <1>2, <3>1, NamesAssumption
      <3>2. CASE Key(line + 1) = n /\ var[n] # Unset
        BY <1>2, <3>2 DEF Environment
      <3> QED
        BY <1>9, <1>10, <3>1, <3>2 DEF Skip
    <2>3. Merges(n, line + 1, Environment[n])
      BY <1>3, <2>2, SkipMerges
    <2> QED
      BY <1>1, <1>4, <2>1, <2>3
  <1>11. CASE Export /\ Key(line + 1) # n
    <2>1. var'[n] = var[n]
      BY <1>3, <1>9, <1>11, <1>2 DEF Export, WhileReading
    <2>2. (n \in exported' <=> n \in exported) /\ line' = line + 1
      BY <1>11 DEF Export
    <2>3. Merges(n, line + 1, Environment[n])
      BY <1>3, <1>11, SkipMerges
    <2> QED
      BY <1>1, <1>4, <2>1, <2>2, <2>3
  <1>12. CASE Export /\ Key(line + 1) = n
    <2>1. var[n] = Unset /\ line' = line + 1 /\ line < Len(given.bundle)
      BY <1>9, <1>12 DEF Export, More
    <2>2. Environment[n] = Unset
      BY <1>2, <2>1 DEF Environment
    <2>3. Merges(n, line + 1, Value(line + 1))
      BY <1>3, <1>12, <2>1, <2>2, ExportMerges
    <2>4. var'[n] = Value(line + 1) /\ n \in exported'
      BY <1>2, <1>3, <1>12 DEF Export, WhileReading
    <2>5. Environment'[n] = Value(line + 1)
      BY <1>2, <2>4 DEF Environment
    <2> QED
      BY <1>1, <2>1, <2>3, <2>4, <2>5
  <1> QED
    BY <1>5, <1>6, <1>7, <1>10, <1>11, <1>12 DEF Next

(* IInv is inductive.                                                      *)
THEOREM Invariance == Spec => []IInv
  <1>1. IInv /\ [Next]_vars => IInv'
    <2> SUFFICES ASSUME IInv, [Next]_vars PROVE IInv'
      OBVIOUS
    <2> QED
      BY Progress, Merging DEF IInv
  <1> QED
    BY InitInvariant, <1>1, PTL DEF Spec

(* No bundle changes a variable the orchestrator set, unless it has one of *)
(* the script's own names.                                                 *)
THEOREM OrchestratorVariablesWin == Spec => []OrchestratorWins
  <1>1. IInv => OrchestratorWins
    BY DEF IInv, OrchestratorWins, Merges
  <1> QED
    BY Invariance, <1>1, PTL

(* The program runs with the whole bundle merged in, or with none of it;   *)
(* names like the script's own excepted.                                   *)
THEOREM BundlesAreAtomic == Spec => []AllOrNothing
  <1>1. IInv => AllOrNothing
    <2> SUFFICES ASSUME IInv, stage = "running", NEW n \in Names \ OwnNames
                 PROVE  IF decrypted
                        THEN Merges(n, Len(given.bundle), Environment[n])
                        ELSE Environment[n] = given.env[n]
      BY DEF AllOrNothing
    <2>1. CASE decrypted
      BY <2>1 DEF IInv
    <2>2. CASE ~decrypted
      <3>1. Naming(n, 0) = {}
        BY SMT DEF Naming
      <3>2. Merges(n, 0, Environment[n])
        BY <2>2 DEF IInv
      <3> QED
        BY <2>2, <3>1, <3>2 DEF Merges
    <2> QED
      BY <2>1, <2>2
  <1> QED
    BY Invariance, <1>1, PTL

(* With a key, or the duty to have one, there is no start without the      *)
(* secrets.                                                                *)
THEOREM NoStartWithoutSecrets == Spec => []SecretsOrFailure
  <1>1. IInv => SecretsOrFailure
    BY DEF IInv
  <1> QED
    BY Invariance, <1>1, PTL

-----------------------------------------------------------------------------
(* The boundary of what the splitting of a line loses.                     *)

(* A value that ends with one '=' and has no other.                        *)
LonePad(v) == v.pad = 1 /\ ~v.inner

(* A name of the program stands for what the orchestrator set, or for the  *)
(* value of a line that names it: whole, or a lone '=' short of it.        *)
AtMostALonePadIsLost ==
    stage = "running" =>
        \A n \in Names \ OwnNames :
            \/ Environment[n] = given.env[n]
            \/ \E i \in DOMAIN given.bundle :
                  LET v == given.bundle[i].value IN
                  /\ Key(i) = n
                  /\ \/ Environment[n] = v
                     \/ LonePad(v) /\ Environment[n] = [v EXCEPT !.pad = 0]

LEMMA LossIsALonePad == IInv => AtMostALonePadIsLost
  <1> SUFFICES ASSUME IInv, stage = "running", NEW n \in Names \ OwnNames,
                      Environment[n] # given.env[n]
               PROVE  \E i \in DOMAIN given.bundle :
                        /\ Key(i) = n
                        /\ \/ Environment[n] = given.bundle[i].value
                           \/ /\ LonePad(given.bundle[i].value)
                              /\ Environment[n] = [given.bundle[i].value EXCEPT !.pad = 0]
    BY DEF AtMostALonePadIsLost
  <1>1. Len(given.bundle) \in Nat /\ DOMAIN given.bundle = 1 .. Len(given.bundle)
    BY DEF IInv, TypeOK, Givens
  <1>2. line \in Nat /\ line <= Len(given.bundle)
    BY DEF IInv, TypeOK
  <1>3. Merges(n, line, Environment[n])
    BY DEF IInv
  <1>4. PICK i \in Naming(n, line) : Environment[n] = Value(i)
    BY <1>3 DEF Merges
  <1>5. i \in DOMAIN given.bundle /\ Key(i) = n
    BY <1>1, <1>2, <1>4 DEF Naming
  <1>6. Value(i) = IF LonePad(given.bundle[i].value)
                   THEN [given.bundle[i].value EXCEPT !.pad = 0] ELSE given.bundle[i].value
    BY DEF Value, ReadValue, LonePad
  <1> QED
    BY <1>4, <1>5, <1>6

(* Nothing but a lone '=' at the end of a value is ever lost...            *)
THEOREM LossIsBounded == Spec => []AtMostALonePadIsLost
  BY Invariance, LossIsALonePad, PTL

(* ... so a bundle without such values stays intact, whatever else its     *)
(* values contain: URLs with queries, JWTs, base64 that ends with "==".    *)
THEOREM OnlyLonePadsAreLost ==
    Spec => []((\A i \in DOMAIN given.bundle : ~LonePad(given.bundle[i].value))
                  => ValuesStayIntact)
  <1>1. IInv /\ (\A i \in DOMAIN given.bundle : ~LonePad(given.bundle[i].value))
          => ValuesStayIntact
    BY LossIsALonePad DEF AtMostALonePadIsLost, ValuesStayIntact
  <1> QED
    BY Invariance, <1>1, PTL

-----------------------------------------------------------------------------
(* The program.                                                            *)

(* The environment of the program is the orchestrator's value of a name or *)
(* else the bundle's.                                                      *)
LEMMA EnvironmentIsMerged ==
  ASSUME IInv, stage = "running", NEW n \in Names \ OwnNames
  PROVE  Environment[n] = IF given.env[n] # Unset THEN given.env[n] ELSE Bundled(n)
  <1> DEFINE k == IF decrypted THEN Len(given.bundle) ELSE 0
             lines == Naming(n, k)
  <1>1. line = k /\ Merges(n, k, Environment[n])
    BY DEF IInv
  <1>2. Naming(n, 0) = {}
    BY SMT DEF Naming
  <1>3. Bundled(n) = IF lines = {} THEN Unset
                     ELSE Value(CHOOSE i \in lines : \A j \in lines : i <= j)
    <2>1. CASE decrypted
      BY <2>1 DEF Bundled
    <2>2. CASE ~decrypted
      BY <1>2, <2>2 DEF Bundled
    <2> QED
      BY <2>1, <2>2
  <1>4. CASE given.env[n] # Unset \/ lines = {}
    BY <1>1, <1>3, <1>4 DEF Merges
  <1>5. CASE given.env[n] = Unset /\ lines # {}
    <2>1. PICK i \in lines : Environment[n] = Value(i) /\ \A j \in lines : i <= j
      BY <1>1, <1>5 DEF Merges
    <2> DEFINE c == CHOOSE m \in lines : \A j \in lines : m <= j
    <2>2. c \in lines /\ \A j \in lines : c <= j
      BY <2>1
    <2> HIDE DEF c
    <2>3. i \in Nat /\ c \in Nat
      BY <2>2, SMT DEF Naming
    <2>4. i = c
      BY <2>1, <2>2, <2>3
    <2> QED
      BY <1>3, <1>5, <2>1, <2>4 DEF c
  <1> QED
    BY <1>4, <1>5

LEMMA FirstOfTwo ==
  ASSUME NEW a, NEW b, NEW v
  PROVE  FirstSet(<<a, b>>, v) <=> v = IF a # Unset THEN a ELSE b
  <1> DEFINE s == <<a, b>>
  <1>1. DOMAIN s = 1 .. 2 /\ s[1] = a /\ s[2] = b
    OBVIOUS
  <1> HIDE DEF s
  <1>2. FirstSet(s, v) <=> v = IF a # Unset THEN a ELSE b
    BY <1>1, SMT DEF FirstSet
  <1> QED
    BY <1>2 DEF s

LEMMA FirstOfFive ==
  ASSUME NEW a, NEW b, NEW c, NEW d, NEW e, NEW v
  PROVE  FirstSet(<<a, b, c, d, e>>, v) <=>
           v = IF a # Unset THEN a ELSE IF b # Unset THEN b
               ELSE IF c # Unset THEN c ELSE IF d # Unset THEN d ELSE e
  <1> DEFINE s == <<a, b, c, d, e>>
             first == IF a # Unset THEN a ELSE IF b # Unset THEN b
                      ELSE IF c # Unset THEN c ELSE IF d # Unset THEN d ELSE e
  <1>1. DOMAIN s = 1 .. 5 /\ s[1] = a /\ s[2] = b /\ s[3] = c /\ s[4] = d /\ s[5] = e
    OBVIOUS
  <1> HIDE DEF s
  <1>2. FirstSet(s, v) => v = first
    BY <1>1, SMT DEF FirstSet
  <1>3. v = first => FirstSet(s, v)
    BY <1>1, SMT DEF FirstSet
  <1> QED
    BY <1>2, <1>3 DEF s

(* What is laid over one another comes out as the first of the sources.    *)
LEMMA RawIsFirst ==
  ASSUME IInv, stage = "running", NEW n \in Contract, NEW v
  PROVE  FirstSet(Sources(n), v) <=> v = Raw(args, Environment)[n]
  <1>1. n \in Names \ OwnNames
    BY ContractAssumption
  <1>2. Environment[n] = IF given.env[n] # Unset THEN given.env[n] ELSE Bundled(n)
    BY <1>1, EnvironmentIsMerged
  <1>3. Raw(args, Environment)[n] =
          IF args.flags[n] # Unset THEN args.flags[n]
          ELSE IF args.overrides[n] # Unset THEN args.overrides[n]
          ELSE IF Environment[n] # Unset THEN Environment[n] ELSE args.dotenv[n]
    BY <1>1 DEF Raw, Over
  <1> QED
    BY <1>2, <1>3, FirstOfFive DEF Sources

LEMMA RawType ==
  ASSUME IInv, stage = "running", args \in Args, NEW n \in Contract
  PROVE  Raw(args, Environment)[n] \in Values \union {Unset}
  <1>1. n \in Names \ OwnNames
    BY ContractAssumption
  <1>2. Environment[n] \in Values \union {Unset}
    <2>1. Len(given.bundle) \in Nat /\ line \in Nat /\ line <= Len(given.bundle)
      BY DEF IInv, TypeOK, Givens
    <2>2. \A i \in Naming(n, line) : i \in 1 .. Len(given.bundle)
      BY <2>1 DEF Naming
    <2>3. given.env[n] \in Values \union {Unset}
      BY <1>1 DEF IInv, TypeOK, Givens
    <2>4. TypeOK /\ Merges(n, line, Environment[n])
      BY <1>1 DEF IInv
    <2> QED
      BY <2>2, <2>3, <2>4, LineType DEF Merges
  <1> QED
    BY <1>1, <1>2 DEF Raw, Over, Args, Layers

(* What the program has found, and only once the script is done.           *)
LaunchInvariant ==
  /\ IInv
  /\ args \in Args
  /\ program \in {"waiting", "failed", "answered", "serving"}
  /\ program # "waiting" => stage = "running"
  /\ SettingsFollowPriority
  /\ OutcomeIsJustified

(* The settings of a resolution.                                           *)
LEMMA Resolving ==
  ASSUME LaunchInvariant, NEW outcome, Resolve(outcome)
  PROVE  SettingsFollowPriority'
  <1>1. stage = "running" /\ IInv /\ args \in Args
    BY DEF LaunchInvariant, Resolve, Launched
  <1>2. UNCHANGED <<vars, args>> /\ settings' = Over(Environment, Typed(Raw(args, Environment)))
    BY DEF Resolve, Resolved
  <1>3. \A n \in Names : Container(n)' = Container(n) /\ Sources(n)' = Sources(n)
    BY <1>2 DEF vars, Container, Sources, Bundled, Naming, Key, Value
  <1>4. ASSUME NEW n \in Names \ (Contract \union OwnNames)
        PROVE  FirstSet(Container(n)', settings'[n])
    <2>1. settings'[n] = Environment[n]
      BY <1>2, <1>4 DEF Over, Typed
    <2>2. Environment[n] = IF given.env[n] # Unset THEN given.env[n] ELSE Bundled(n)
      BY <1>1, <1>4, EnvironmentIsMerged
    <2> QED
      BY <1>3, <2>1, <2>2, FirstOfTwo DEF Container
  <1>5. ASSUME NEW n \in Contract
        PROVE  \/ FirstSet(Sources(n)', Unset) /\ settings'[n] = Default[n]
               \/ \E v \in Values : FirstSet(Sources(n)', v) /\ settings'[n] = Spelled(n, v)
    <2> DEFINE r == Raw(args, Environment)[n]
    <2>1. n \in Names \ OwnNames
      BY ContractAssumption
    <2>2. FirstSet(Sources(n)', r)
      BY <1>1, <1>3, <2>1, RawIsFirst
    <2>3. r \in Values \union {Unset}
      BY <1>1, RawType
    <2>4. settings'[n] = IF Typed(Raw(args, Environment))[n] # Unset
                         THEN Typed(Raw(args, Environment))[n] ELSE Environment[n]
      BY <1>2, <2>1 DEF Over
    <2>5. Typed(Raw(args, Environment))[n] = IF r = Unset THEN Default[n] ELSE Spelled(n, r)
      BY <2>1 DEF Typed
    <2>6. CASE r # Unset
      <3>1. Spelled(n, r) # Unset
        BY <2>3, <2>6, SpellingAssumption, UnsetAssumption DEF Spelled
      <3> QED
        BY <2>2, <2>3, <2>4, <2>5, <2>6, <3>1
    <2>7. CASE r = Unset
      <3>1. Environment[n] = Unset
        BY <2>1, <2>7 DEF Raw, Over
      <3> QED
        BY <2>2, <2>4, <2>5, <2>7, <3>1
    <2> QED
      BY <2>6, <2>7
  <1> QED
    BY <1>4, <1>5 DEF SettingsFollowPriority

(* Whatever the program decides, it decides for a cause.                   *)
LEMMA Deciding ==
  ASSUME LaunchInvariant, ResolveFails \/ AnswerControl \/ Serve
  PROVE  OutcomeIsJustified'
  <1>1. stage = "running" /\ IInv /\ args \in Args
    BY DEF LaunchInvariant, ResolveFails, AnswerControl, Serve, Resolve, Launched
  <1>2. UNCHANGED <<vars, args>>
    BY DEF ResolveFails, AnswerControl, Serve, Resolve
  <1>3. \A n \in Names : Sources(n)' = Sources(n)
    BY <1>2 DEF vars, Sources, Bundled, Naming, Key, Value
  <1>4. \A n \in Contract, v \in Values \union {Unset} :
           FirstSet(Sources(n)', v) <=> v = Raw(args, Environment)[n]
    BY <1>1, <1>3, RawIsFirst, ContractAssumption
  <1>5. \A n \in Contract : Raw(args, Environment)[n] \in Values \union {Unset}
    BY <1>1, RawType
  <1>6. Booleans \subseteq Contract /\ Controls \subseteq Contract /\ Controls \subseteq Booleans
    BY ContractAssumption
  <1>7. WellTyped(Raw(args, Environment)) <=>
          ~ \E n \in Booleans, v \in Values :
              FirstSet(Sources(n)', v) /\ v \notin Truths \union Falsehoods
    BY <1>4, <1>5, <1>6, UnsetAssumption DEF WellTyped
  <1>8. program' = "failed" <=> ~Resolvable(args, Environment)
    BY DEF ResolveFails, AnswerControl, Serve, Resolve
  <1>9. ASSUME program' = "serving", NEW n \in Controls, NEW v \in Values, v \in Truths
        PROVE  ~FirstSet(Sources(n)', v)
    <2>1. Serve
      BY <1>9 DEF ResolveFails, AnswerControl, Resolve
    <2>2. settings'[n] # True /\ settings' = Over(Environment, Typed(Raw(args, Environment)))
      BY <2>1 DEF Serve, Resolve, Resolved, ControlAsked
    <2>3. n \in Names /\ n \in Contract /\ n \in Booleans
      BY <1>6, ContractAssumption
    <2>4. SUFFICES ASSUME v = Raw(args, Environment)[n] PROVE FALSE
      BY <1>4, <2>3
    <2>5. Typed(Raw(args, Environment))[n] = True
      BY <1>9, <2>3, <2>4, UnsetAssumption DEF Typed, Spelled
    <2>6. settings'[n] = True
      BY <2>2, <2>3, <2>5, SpellingAssumption, UnsetAssumption DEF Over
    <2> QED
      BY <2>2, <2>6
  <1> QED
    BY <1>2, <1>7, <1>8, <1>9, SpellingAssumption DEF OutcomeIsJustified, Resolvable

LEMMA LaunchStep == LaunchInvariant /\ [LaunchNext]_launchVars => LaunchInvariant'
  <1> SUFFICES ASSUME LaunchInvariant, [LaunchNext]_launchVars PROVE LaunchInvariant'
    OBVIOUS
  <1>1. [Next]_vars
    BY DEF LaunchNext, Entrypoint, ResolveFails, AnswerControl, Serve, Resolve, launchVars
  <1>2. IInv'
    BY <1>1, Progress, Merging DEF IInv, LaunchInvariant
  <1>3. args' = args
    BY DEF LaunchNext, Entrypoint, ResolveFails, AnswerControl, Serve, Resolve, launchVars
  <1>4. CASE Entrypoint
    <2>1. program = "waiting" /\ program' = "waiting"
      <3>1. stage # "running"
        BY <1>4 DEF Entrypoint, Next, RunAsIs, Refuse, DecryptFails, Decrypt, Decryptable,
                    Skip, Export, More, HandOff
      <3> QED
        BY <1>4, <3>1 DEF Entrypoint, LaunchInvariant
    <2> QED
      BY <1>2, <1>3, <2>1 DEF LaunchInvariant, SettingsFollowPriority, OutcomeIsJustified
  <1>5. CASE ResolveFails
    BY <1>2, <1>3, <1>5, Deciding
    DEF LaunchInvariant, ResolveFails, Launched, vars, SettingsFollowPriority
  <1>6. ASSUME NEW outcome \in {"answered", "serving"}, Resolve(outcome),
               AnswerControl \/ Serve
        PROVE  LaunchInvariant'
    <2>1. program' = outcome /\ stage' = "running"
      BY <1>6 DEF Resolve, Launched, vars
    <2> QED
      BY <1>2, <1>3, <1>6, <2>1, Resolving, Deciding DEF LaunchInvariant
  <1>7. CASE AnswerControl \/ Serve
    BY <1>6, <1>7 DEF AnswerControl, Serve
  <1>8. CASE UNCHANGED launchVars
    <2>1. \A n \in Names : Container(n)' = Container(n) /\ Sources(n)' = Sources(n)
      BY <1>8 DEF launchVars, vars, Container, Sources, Bundled, Naming, Key, Value
    <2> QED
      BY <1>2, <1>8, <2>1, ContractAssumption
      DEF launchVars, vars, LaunchInvariant, SettingsFollowPriority, OutcomeIsJustified
  <1> QED
    BY <1>4, <1>5, <1>7, <1>8 DEF LaunchNext

(* The script's invariant holds through the resolution of the flags, and   *)
(* both properties of the launch with it.                                  *)
THEOREM LaunchInvariance == LaunchSpec => []LaunchInvariant
  <1>1. LaunchInit => LaunchInvariant
    <2> SUFFICES ASSUME LaunchInit PROVE LaunchInvariant
      OBVIOUS
    <2>1. Init
      BY DEF LaunchInit, LaunchInitWith, Init
    <2> QED
      BY <2>1, InitInvariant
      DEF LaunchInit, LaunchInitWith, LaunchInvariant, SettingsFollowPriority, OutcomeIsJustified
  <1> QED
    BY <1>1, LaunchStep, PTL DEF LaunchSpec

(* Every setting comes from the strongest source that has it.              *)
THEOREM SettingsComeFromTheStrongest == LaunchSpec => []SettingsFollowPriority
  BY LaunchInvariance, PTL DEF LaunchInvariant

(* Only what counts stops the program.                                     *)
THEOREM OutcomesAreJustified == LaunchSpec => []OutcomeIsJustified
  BY LaunchInvariance, PTL DEF LaunchInvariant

(* What the entry point promises it keeps with the program behind it.      *)
THEOREM LaunchKeepsTheEntrypoint == LaunchSpec => Spec
  <1>1. LaunchInit => Init
    BY DEF LaunchInit, LaunchInitWith, Init
  <1>2. [LaunchNext]_launchVars => [Next]_vars
    BY DEF LaunchNext, Entrypoint, ResolveFails, AnswerControl, Serve, Resolve, launchVars
  <1> QED
    BY <1>1, <1>2, PTL DEF LaunchSpec, Spec
=============================================================================
