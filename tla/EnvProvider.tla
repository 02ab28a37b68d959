----------------------------- MODULE EnvProvider -----------------------------
(***************************************************************************)
(* EnvProvider of env_provider.go: with every variable that Load reads     *)
(* (EnvCache) it layers a nested map of the variable into its result.      *)
(*                                                                         *)
(* The names DB_HOST and db_host have one key.                             *)
(***************************************************************************)
EXTENDS EnvCache, Trees

CONSTANTS Atoi,             \* for each text strconv.Atoi reads, the number
          ParseFloat        \* the same for strconv.ParseFloat

VARIABLE result             \* what this Load, or the last, has built

loadVars == <<vars, result>>

LoadInit == Init /\ result = EmptyMap

\* The first conversion that fits; a number is printed without the text's own
\* leading and trailing zeros.
castEnvValue(value) ==
    CASE value \in {"true", "false"} -> Leaf(<<value>>, "bool")
      [] value \in DOMAIN Atoi -> Leaf(<<Atoi[value]>>, "int")
      [] value \in DOMAIN ParseFloat \ DOMAIN Atoi ->
            Leaf(<<ParseFloat[value]>>, "float64")
      [] OTHER -> Leaf(<<value>>, "string")

\* A map for each word of the key but the last.
envToMap(key, value) ==
    LET Around(word, inner) == Map([w \in {word} |-> inner]) IN
    FoldRight(Around, key, castEnvValue(value))

StartBuild == LoadCall /\ result' = EmptyMap

LayerVariable ==
    /\ ReadVariable
    /\ result' = mergeMaps(result, envToMap(environ[pos].key, environ[pos].value))

LoadNext ==
    \/ StartBuild \/ LayerVariable
    \/ (Environ \/ SkipVariable \/ WriteToNil \/ LoadReturn \/ Stop) /\ UNCHANGED result

LoadSpec == LoadInit /\ [][LoadNext]_loadVars

-----------------------------------------------------------------------------
(* Properties.                                                             *)

\* Two variables meet when one's key is a part of the other's, or the same.
Meets(key, k) == IsPrefix(key, k) \/ IsPrefix(k, key)
LastAt(key) ==
    CHOOSE i \in Read : /\ Meets(key, environ[i].key)
                        /\ \A j \in Read : Meets(key, environ[j].key) => j <= i

\* At each variable's key the result shows what the last variable that meets
\* it leaves there: its value, a map when its key is longer, nothing when it is
\* shorter.  Variables that do not meet never disturb each other, in whatever
\* order the environment has them.
LastVariableWins ==
    pc = "read" =>
        \A key \in {environ[i].key : i \in Read} :
            LET last == environ[LastAt(key)]
                v == getNestedValue(result, key)
            IN CASE last.key = key -> v = castEnvValue(last.value)
                 [] IsStrictPrefix(key, last.key) -> IsMap(v)
                 [] IsStrictPrefix(last.key, key) -> v = Nil

\* The variables with a key are layers of one priority.
Layers == INSTANCE PriorityLayers WITH
    layers <- [i \in {i \in DOMAIN environ : environ[i].key # <<>>} |->
                  Leveled(envToMap(environ[i].key, environ[i].value))],
    priority <- [i \in DOMAIN environ |-> 0],
    strategy <- "replace",
    taken <- Read,
    shown <- Leveled(result)

\* mergeMaps, called for one variable after the other, implements PriorityLayers:
\* each variable's nested map is laid over those of the variables before it, at every
\* depth, and a Load begins with nothing (env_provider.go:109).
VariablesAreLayered == Layers!Spec
=============================================================================
