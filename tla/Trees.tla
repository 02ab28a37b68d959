-------------------------------- MODULE Trees --------------------------------
(***************************************************************************)
(* The configuration trees, map[string]any in the code, and what the code  *)
(* does with them: deepMerge and mergeSlices of merge.go, mergeMaps of     *)
(* file_provider.go, getNestedValue of loader.go, and the insertion sort   *)
(* of provider.go and merge.go.                                            *)
(*                                                                         *)
(* A value is a leaf, a slice of values, a map or nil.  A leaf is its Go   *)
(* type and the text "%v" prints for it, in pieces that nothing splits.    *)
(***************************************************************************)
EXTENDS Integers, Sequences, SequencesExt

Value(kind, text, type, items, at) ==
    [kind |-> kind, text |-> text, type |-> type, items |-> items, at |-> at]
Leaf(text, type) == Value("leaf", text, type, <<>>, <<>>)
Slice(items) == Value("slice", <<>>, "", items, <<>>)
Map(f) == Value("map", <<>>, "", <<>>, f)
Nil == Value("nil", <<>>, "", <<>>, <<>>)
Absent == Value("absent", <<>>, "", <<>>, <<>>)
EmptyMap == Map(<<>>)

IsMap(t) == t.kind = "map"
Child(map, key) == IF key \in DOMAIN map.at THEN map.at[key] ELSE Absent

\* A node of a tree is the steps that lead to it, by keys and by positions.
Step(key, index) == [key |-> key, index |-> index]
Steps(t) == {Step(k, 0) : k \in DOMAIN t.at} \union {Step("", i) : i \in DOMAIN t.items}
Walk(t, s) == IF s.index = 0 THEN t.at[s.key] ELSE t.items[s.index]
NodeAt(t, node) == FoldLeft(Walk, t, node)

RECURSIVE Nodes(_)
Nodes(t) ==
    {<<>>} \union UNION {{<<s>> \o node : node \in Nodes(Walk(t, s))} : s \in Steps(t)}

\* What "%v" prints shows no types.
RECURSIVE Printed(_)
Printed(t) ==
    [t EXCEPT !.type = "",
              !.items = [i \in DOMAIN t.items |-> Printed(t.items[i])],
              !.at = [k \in DOMAIN t.at |-> Printed(t.at[k])]]

containsAny(slice, target) == \E i \in DOMAIN slice : Printed(slice[i]) = Printed(target)

AppendNew(merged, v) == IF containsAny(merged, v) THEN merged ELSE Append(merged, v)

mergeSlices(base, override, strategy) ==
    IF strategy = "merge" THEN FoldLeft(AppendNew, base, override) ELSE override

RECURSIVE deepMerge(_, _, _)

MergeValue_BaseWins(base, override, strategy) ==    \* mutant: the wrong side wins
    IF base.kind = "absent" THEN override ELSE base
MergeValue(base, override, strategy) ==
    CASE override = Absent -> base
      [] IsMap(base) /\ IsMap(override) -> deepMerge(base, override, strategy)
      [] base.kind = "slice" /\ override.kind = "slice" ->
             Slice(mergeSlices(base.items, override.items, strategy))
      [] OTHER -> override

deepMerge(base, override, strategy) ==
    Map([key \in DOMAIN base.at \union DOMAIN override.at |->
            MergeValue(Child(base, key), Child(override, key), strategy)])

\* mergeMaps of the file and env providers: slices replace each other.
RECURSIVE mergeMaps(_, _)

LayerValue_Shallow(dst, src) == IF src = Absent THEN dst ELSE src   \* mutant
LayerValue(dst, src) ==
    CASE src = Absent -> dst
      [] IsMap(dst) /\ IsMap(src) -> mergeMaps(dst, src)
      [] OTHER -> src

mergeMaps(dst, src) ==
    Map([key \in DOMAIN dst.at \union DOMAIN src.at |->
            LayerValue(Child(dst, key), Child(src, key))])

\* nil for an empty key, for a key that is not there and below anything that is
\* no map.
RECURSIVE getNestedValue(_, _)
getNestedValue(data, parts) ==
    LET next == Child(data, Head(parts)) IN
    IF parts = <<>> \/ next = Absent THEN Nil
    ELSE IF Len(parts) = 1 THEN next ELSE getNestedValue(next, Tail(parts))

\* The insertion sort: an element moves left past every larger priority, and
\* stays right of its equals.
Larger_OrEqual(p, q) == p.priority >= q.priority    \* mutant: <= for < in the loop
Larger(p, q) == p.priority > q.priority

Insert(sorted, p) ==
    SelectSeq(sorted, LAMBDA q : ~Larger(q, p)) \o <<p>>
        \o SelectSeq(sorted, LAMBDA q : Larger(q, p))

sortByPriority(data) == FoldLeft(Insert, <<>>, data)
-----------------------------------------------------------------------------
\* A tree as PriorityLayers has it: the paths of its keys and what they say.
Texts(slice) == {Printed(slice[n]) : n \in DOMAIN slice}

Brief(v) ==
    [kind |-> v.kind,
     said |-> CASE v.kind = "slice" -> Texts(v.items)
                [] IsMap(v) -> {}
                [] OTHER -> {v}]
RECURSIVE KeyPaths(_)
KeyPaths(t) ==
    {<<>>} \union UNION {{<<key>> \o path : path \in KeyPaths(t.at[key])} : key \in DOMAIN t.at}
Leveled(t) ==
    [path \in KeyPaths(t) |-> Brief(IF path = <<>> THEN t ELSE getNestedValue(t, path))]
=============================================================================
