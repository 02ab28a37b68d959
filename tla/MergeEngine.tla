----------------------------- MODULE MergeEngine -----------------------------
(***************************************************************************)
(* How ConfigLoader.Load makes the settings of what its providers return:  *)
(* sort the providers, merge their maps one after the other (merge.go),    *)
(* and what Get reads of the result (loader.go).  The lock and the failing *)
(* providers are in ConfigLoader.                                          *)
(*                                                                         *)
(* A provider is its priority and the map its Load returns; providers is   *)
(* in the order of registration.                                           *)
(***************************************************************************)
EXTENDS Trees, FiniteSets

CONSTANTS Registrations,    \* the sequences of providers New is given
          Paths             \* the keys asked for, split at their dots

VARIABLES providers,        \* cl.providers
          strategy,         \* cl.mergeOpts.SliceStrategy
          list,             \* the providers' data that is still to be merged
          result,           \* the merge so far; cl.settings in the end
          phase             \* sort, load, merge, ready

vars == <<providers, strategy, list, result, phase>>

Init ==
    /\ providers \in Registrations
    /\ strategy \in {"replace", "merge"}
    /\ list = <<>>
    /\ result = EmptyMap
    /\ phase = "sort"

SortProviders ==
    /\ phase = "sort"
    /\ list' = sortByPriority(providers)
    /\ phase' = "load"
    /\ UNCHANGED <<providers, strategy, result>>

\* Load sorts what the providers returned, and applyPriorities sorts it again.
ApplyPriorities ==
    /\ phase = "load"
    /\ list' = sortByPriority(sortByPriority(list))
    /\ phase' = "merge"
    /\ UNCHANGED <<providers, strategy, result>>

MergeNext ==
    /\ phase = "merge"
    /\ list # <<>>
    /\ result' = deepMerge(result, Head(list).data, strategy)
    /\ list' = Tail(list)
    /\ phase' = IF Len(list) = 1 THEN "ready" ELSE "merge"
    /\ UNCHANGED <<providers, strategy>>

Next == SortProviders \/ ApplyPriorities \/ MergeNext

Spec == Init /\ [][Next]_vars

-----------------------------------------------------------------------------
(* The reference: which provider's value a key shows, with no sort and no  *)
(* merge.                                                                  *)

Said(i, path) == getNestedValue(providers[i].data, path)

\* A provider decides a key that it defines, be it as nil, or whose prefix it
\* makes anything but a map.
Defines(i, path) ==
    LET above == IF Len(path) = 1 THEN providers[i].data ELSE Said(i, Front(path)) IN
    Child(above, Last(path)) # Absent
Decides(i, path) ==
    \E n \in 1..Len(path) :
        /\ Defines(i, SubSeq(path, 1, n))
        /\ n = Len(path) \/ ~IsMap(Said(i, SubSeq(path, 1, n)))

\* Higher priority overrides lower, and of equals the one registered last.
Below(i, j) ==
    \/ providers[i].priority < providers[j].priority
    \/ providers[i].priority = providers[j].priority /\ i < j

Merged ==
    LET left == IF phase \in {"merge", "ready"} THEN Len(list) ELSE Len(providers) IN
    {i \in DOMAIN providers :
        Cardinality({j \in DOMAIN providers : Below(i, j)}) >= left}

Deciders(path) == {i \in Merged : Decides(i, path)}
Winner(path) == CHOOSE i \in Deciders(path) : \A j \in Deciders(path) \ {i} : Below(j, i)

\* The slices that end up in one under MergeStrategyMerge: the winner's and
\* those below it, down to the first provider that decides otherwise.
Contributors(path) ==
    {i \in Deciders(path) :
        \A j \in Deciders(path) : ~Below(j, i) => Said(j, path).kind = "slice"}

-----------------------------------------------------------------------------
(* Properties.                                                             *)

\* Every key shows the value of the highest provider that decides it, at each
\* point of the merge: three sorts, the order of registration among equals
\* and the recursion over maps, leaves and slices included (README.md:115).
\* A slice is the winner's, or under MergeStrategyMerge all the contributors'
\* texts, none of them twice.
SettingsFollowPriority ==
    \A path \in Paths :
        LET v == getNestedValue(result, path) IN
        IF Deciders(path) = {} THEN v = Nil
        ELSE LET w == Said(Winner(path), path) IN
             /\ v.kind = w.kind
             /\ v.kind = "leaf" => v = w
             /\ v.kind = "slice" /\ strategy = "replace" => v = w
             /\ v.kind = "slice" /\ strategy = "merge" =>
                    /\ Texts(v.items) = UNION {Texts(Said(i, path).items) :
                                                i \in Contributors(path)}
                    /\ Cardinality(Texts(v.items)) = Len(v.items)

Layers == INSTANCE PriorityLayers WITH
    layers <- [i \in DOMAIN providers |-> Leveled(providers[i].data)],
    priority <- [i \in DOMAIN providers |-> providers[i].priority],
    taken <- Merged,
    shown <- Leveled(result)

\* The sorts and the recursive merge implement PriorityLayers: each map is laid
\* over the ones before it, the lowest priority first, and of equals the one
\* registered first, down to every nested key (merge.go:116, provider.go:21).
MergesByPriority == Layers!Spec
=============================================================================
