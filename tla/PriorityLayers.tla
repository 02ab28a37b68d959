---------------------------- MODULE PriorityLayers ----------------------------
(***************************************************************************)
(* What a ConfigLoader promises of the settings it makes of its providers' *)
(* maps, with no sort and no recursion: each map is laid over those of     *)
(* lower priority, and of equal priority over those registered earlier.    *)
(*                                                                         *)
(* A map is a function from the paths of its keys, the empty path among    *)
(* them, to values.  A value is its kind and what it says: a slice says a  *)
(* set, the texts of its elements, and a map nothing but its keys.         *)
(***************************************************************************)
EXTENDS Integers, Sequences

VARIABLES layers,       \* the providers' maps, in the order of registration
          priority,     \* the providers' priorities
          strategy,     \* what becomes of slices: replace or merge
          taken,        \* the layers laid so far
          shown         \* the settings they make

vars == <<layers, priority, strategy, taken, shown>>

Path == Seq(STRING)
Above(p) == {SubSeq(p, 1, n) : n \in 0..(Len(p) - 1)}

Branch == [kind |-> "map", said |-> {}]
Bare == [p \in {<<>>} |-> Branch]

IsTree(c) ==
    /\ <<>> \in DOMAIN c /\ c[<<>>] = Branch
    /\ \A p \in DOMAIN c :
          p \in Path /\ \A q \in Above(p) : q \in DOMAIN c /\ c[q] = Branch

Registered ==
    /\ DOMAIN layers \subseteq Nat
    /\ \A i \in DOMAIN layers : priority[i] \in Int /\ IsTree(layers[i])

Init ==
    /\ Registered
    /\ strategy \in {"replace", "merge"}
    /\ taken = {}
    /\ shown = Bare

\* A Load makes the settings anew, of what the providers return to it.
Begin ==
    /\ taken' = {} /\ shown' = Bare
    /\ Registered'
    /\ UNCHANGED strategy

Below(i, j) ==
    \/ priority[i] < priority[j]
    \/ priority[i] = priority[j] /\ i < j

IsSlice(v) == v.kind = "slice"
Join(base, override) ==
    IF strategy = "merge" /\ IsSlice(base) /\ IsSlice(override)
    THEN [kind |-> "slice", said |-> base.said \union override.said]
    ELSE override

\* What is no map in c hides all that was below it.
Hides(c, p) == \E q \in Above(p) : q \in DOMAIN c /\ c[q] # Branch

LaidOver(base, c) ==
    LET kept == {p \in DOMAIN base : ~Hides(c, p)} IN
    [p \in kept \union DOMAIN c |->
        IF p \notin DOMAIN c THEN base[p]
        ELSE IF p \notin kept THEN c[p] ELSE Join(base[p], c[p])]

Lay(i) ==
    /\ i \notin taken
    /\ \A j \in DOMAIN layers \ (taken \union {i}) : Below(i, j)
    /\ taken' = taken \union {i}
    /\ shown' = LaidOver(shown, layers[i])
    /\ UNCHANGED <<layers, priority, strategy>>

Next == Begin \/ \E i \in DOMAIN layers : Lay(i)

Spec == Init /\ [][Next]_vars

-----------------------------------------------------------------------------
(* What follows for every key.                                             *)

\* A layer decides a key that it defines, or whose prefix it makes anything but
\* a map.
Decides(i, p) == p \in DOMAIN layers[i] \/ Hides(layers[i], p)
Deciders(p) == {i \in taken : Decides(i, p)}

\* The slices that end up in one: the decider's and those below it, down to the
\* first that decides otherwise.
SaysSlice(i, p) == p \in DOMAIN layers[i] /\ IsSlice(layers[i][p])
Contributors(p) ==
    {i \in Deciders(p) : \A j \in Deciders(p) : ~Below(j, i) => SaysSlice(j, p)}

Shows(i, p) ==
    LET said == layers[i][p] IN
    IF p \notin DOMAIN layers[i] THEN p \notin DOMAIN shown
    ELSE /\ p \in DOMAIN shown
         /\ shown[p].kind = said.kind
         /\ IF strategy = "merge" /\ IsSlice(said)
            THEN shown[p].said = UNION {layers[j][p].said : j \in Contributors(p)}
            ELSE shown[p] = said

\* Every key shows what the topmost of the layers that decide it says: its value,
\* or nothing where that layer has no map to look into.  No layer below it can
\* be seen, but for the slices that are merged into its own, and no layer that
\* says nothing of the key changes it (merge.go:116, README.md:115).
TopmostDecides ==
    \A p \in Path :
        IF Deciders(p) = {} THEN p = <<>> \/ p \notin DOMAIN shown
        ELSE \E i \in Deciders(p) :
                /\ \A j \in Deciders(p) \ {i} : Below(j, i)
                /\ Shows(i, p)

\* The inductive invariant: the layers are laid from the lowest on, and the
\* settings are a map of maps all the way down to each key.
LayersInv ==
    /\ Registered
    /\ strategy \in {"replace", "merge"}
    /\ taken \subseteq DOMAIN layers
    /\ \A i \in taken, j \in DOMAIN layers \ taken : Below(i, j)
    /\ IsTree(shown)
    /\ TopmostDecides
=============================================================================
