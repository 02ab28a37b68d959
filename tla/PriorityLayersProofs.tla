-------------------------- MODULE PriorityLayersProofs --------------------------
(***************************************************************************)
(* Proofs about PriorityLayers, for any number of maps of any depth and    *)
(* any priorities: every key shows what the topmost layer that decides it  *)
(* says.                                                                   *)
(***************************************************************************)
EXTENDS PriorityLayers, TLAPS

\* What lies above a path is a path, and above the same paths.
LEMMA AbovePaths ==
    ASSUME NEW p \in Path, NEW q \in Above(p)
    PROVE  /\ q \in Path /\ q # p
           /\ Above(q) \subseteq Above(p)
<1>1. PICK n \in 0..(Len(p) - 1) : q = SubSeq(p, 1, n)
  BY DEF Above
<1>2. Len(p) \in Nat /\ n \in Nat /\ n < Len(p) /\ p \in Seq(STRING)
  BY <1>1 DEF Path
<1>3. q \in Seq(STRING) /\ Len(q) = n /\ \A k \in 1..n : q[k] = p[k]
  BY <1>1, <1>2
<1>4. ASSUME NEW r \in Above(q) PROVE r \in Above(p)
  <2>1. PICK m \in 0..(n - 1) : r = SubSeq(q, 1, m)
    BY <1>3, <1>4 DEF Above
  <2>2. SubSeq(q, 1, m) = SubSeq(p, 1, m)
    BY <1>1, <1>2, <1>3, <2>1
  <2>3. m \in 0..(Len(p) - 1) /\ r = SubSeq(p, 1, m)
    BY <1>2, <2>1, <2>2
  <2> QED
    BY <2>3 DEF Above
<1> QED
  BY <1>2, <1>3, <1>4 DEF Path

\* The layers are in one order.
LEMMA BelowOrders ==
    ASSUME Registered, NEW i \in DOMAIN layers, NEW j \in DOMAIN layers
    PROVE  /\ ~(Below(i, j) /\ Below(j, i))
           /\ ~Below(i, i)
BY DEF Registered, Below

\* A tree hides nothing that is in it.
LEMMA TreeHidesNothing ==
    ASSUME NEW c, IsTree(c), NEW p \in DOMAIN c
    PROVE  p \in Path /\ ~Hides(c, p)
BY DEF IsTree, Hides

\* One tree laid over another is a tree.
LEMMA LaidOverIsTree ==
    ASSUME NEW base, IsTree(base), NEW c, IsTree(c)
    PROVE  IsTree(LaidOver(base, c))
<1> DEFINE kept == {p \in DOMAIN base : ~Hides(c, p)}
           laid == LaidOver(base, c)
<1>1. /\ DOMAIN laid = kept \union DOMAIN c
      /\ \A p \in DOMAIN laid : laid[p] =
            IF p \notin DOMAIN c THEN base[p]
            ELSE IF p \notin kept THEN c[p] ELSE Join(base[p], c[p])
  BY DEF LaidOver
<1>2. ASSUME NEW x PROVE Join(x, Branch) = Branch
  BY DEF Join, IsSlice, Branch
<1>3. ASSUME NEW p \in DOMAIN c, c[p] = Branch
      PROVE  p \in DOMAIN laid /\ laid[p] = Branch
  BY <1>1, <1>2, <1>3
<1>4. ASSUME NEW p \in DOMAIN laid, NEW q \in Above(p)
      PROVE  q \in DOMAIN laid /\ laid[q] = Branch
  <2>1. CASE p \in DOMAIN c
    BY <1>3, <1>4, <2>1 DEF IsTree
  <2>2. CASE p \in kept
    <3>1. q \in DOMAIN base /\ base[q] = Branch /\ p \in Path
      BY <1>4, <2>2 DEF IsTree
    <3>2. q \in DOMAIN c => c[q] = Branch
      BY <1>4, <2>2 DEF Hides
    <3>3. ~Hides(c, q)
      BY <1>4, <2>2, <3>1, AbovePaths DEF Hides
    <3>4. CASE q \in DOMAIN c
      BY <1>3, <3>2, <3>4
    <3>5. CASE q \notin DOMAIN c
      BY <1>1, <3>1, <3>3, <3>5
    <3> QED
      BY <3>4, <3>5
  <2> QED
    BY <1>1, <1>4, <2>1, <2>2
<1>5. \A p \in DOMAIN laid : p \in Path
  BY <1>1 DEF IsTree
<1>6. <<>> \in DOMAIN laid /\ laid[<<>>] = Branch
  BY <1>3 DEF IsTree
<1> QED
  BY <1>4, <1>5, <1>6 DEF IsTree

LEMMA BareIsTree == IsTree(Bare)
<1>1. DOMAIN Bare = {<<>>} /\ Bare[<<>>] = Branch
  BY DEF Bare
<1>2. <<>> \in Path /\ Len(<<>>) = 0
  BY DEF Path
<1>3. Above(<<>>) = {}
  BY <1>2 DEF Above
<1> QED
  BY <1>1, <1>2, <1>3 DEF IsTree

LEMMA LayersInit == Init => LayersInv
<1> SUFFICES ASSUME Init PROVE LayersInv
  OBVIOUS
<1>1. taken = {} /\ shown = Bare /\ Registered /\ strategy \in {"replace", "merge"}
  BY DEF Init
<1>2. IsTree(shown)
  BY <1>1, BareIsTree
<1>3. TopmostDecides
  <2> SUFFICES ASSUME NEW p \in Path PROVE p = <<>> \/ p \notin DOMAIN shown
    BY <1>1 DEF TopmostDecides, Deciders
  <2> QED
    BY <1>1 DEF Bare
<1> QED
  BY <1>1, <1>2, <1>3 DEF LayersInv

\* What a layer says and whether it decides a key stays, and so does its rank.
LEMMA LayersStay ==
    ASSUME UNCHANGED <<layers, priority, strategy>>
    PROVE  /\ \A i, p : Decides(i, p)' <=> Decides(i, p)
           /\ \A i, j : Below(i, j)' <=> Below(i, j)
           /\ \A i, p : SaysSlice(i, p)' <=> SaysSlice(i, p)
BY DEF Decides, Hides, Below, SaysSlice, IsSlice

\* A key that the new layer decides.
LEMMA DecidedByTheNew ==
    ASSUME LayersInv, NEW i \in DOMAIN layers, Lay(i), NEW p \in Path, Decides(i, p)
    PROVE  /\ i \in Deciders(p)'
           /\ \A j \in Deciders(p)' \ {i} : Below(j, i)'
           /\ Shows(i, p)'
<1> DEFINE said == layers[i][p]
           kept == {q \in DOMAIN shown : ~Hides(layers[i], q)}
<1>1. /\ UNCHANGED <<layers, priority, strategy>>
      /\ taken' = taken \union {i} /\ i \notin taken
      /\ shown' = LaidOver(shown, layers[i])
  BY DEF Lay
<1>2. Deciders(p)' = Deciders(p) \union {i}
  BY <1>1, LayersStay DEF Deciders
<1>3. \A j \in taken : Below(j, i)
  BY <1>1 DEF LayersInv
<1>4. \A j \in Deciders(p)' \ {i} : Below(j, i)'
  BY <1>1, <1>2, <1>3, LayersStay DEF Deciders
<1>5. /\ DOMAIN shown' = kept \union DOMAIN layers[i]
      /\ \A q \in DOMAIN shown' : shown'[q] =
            IF q \notin DOMAIN layers[i] THEN shown[q]
            ELSE IF q \notin kept THEN layers[i][q] ELSE Join(shown[q], layers[i][q])
  BY <1>1 DEF LaidOver
<1>6. CASE p \notin DOMAIN layers[i]
  <2>1. Hides(layers[i], p)
    BY <1>6 DEF Decides
  <2> QED
    BY <1>1, <1>2, <1>4, <1>5, <1>6, <2>1 DEF Shows
<1>7. CASE p \in DOMAIN layers[i]
  <2>1. ~Hides(layers[i], p)
    BY <1>7, TreeHidesNothing DEF LayersInv, Registered
  <2>2. shown'[p] = IF p \in DOMAIN shown THEN Join(shown[p], said) ELSE said
    BY <1>5, <1>7, <2>1
  <2>3. shown'[p].kind = said.kind
    BY <2>2 DEF Join, IsSlice
  <2>4. ASSUME ~(strategy = "merge" /\ IsSlice(said))
        PROVE  shown'[p] = said
    BY <2>2, <2>4 DEF Join
  <2>5. ASSUME strategy = "merge", IsSlice(said)
        PROVE  shown'[p].said = UNION {layers[j][p].said : j \in Contributors(p)'}
    <3>1. SaysSlice(i, p)
      BY <1>7, <2>5 DEF SaysSlice
    <3>2. \A j \in Deciders(p)' : SaysSlice(j, p)' <=> SaysSlice(j, p)
      BY <1>1, LayersStay
    <3>3. i \in Contributors(p)'
      BY <1>1, <1>2, <1>4, <3>1, LayersStay DEF Contributors
    <3>4. \A j \in Deciders(p) : Below(j, i) /\ ~Below(i, j) /\ j # i /\ j \in DOMAIN layers
      BY <1>1, <1>3, BelowOrders DEF Deciders, LayersInv
    <3>5. \A j \in Deciders(p) : j \in Contributors(p)' <=> j \in Contributors(p)
      BY <1>1, <1>2, <3>1, <3>4, LayersStay DEF Contributors
    <3>6. Contributors(p)' = Contributors(p) \union {i}
      BY <1>2, <3>3, <3>5 DEF Contributors
    <3>7. CASE p \in DOMAIN shown /\ IsSlice(shown[p])
      <4>1. shown'[p].said = shown[p].said \union said.said
        BY <2>2, <2>5, <3>7 DEF Join
      <4>2. Deciders(p) # {}
        <5>1. p # <<>>
          BY <3>7 DEF LayersInv, IsTree, IsSlice, Branch
        <5> QED
          BY <3>7, <5>1 DEF LayersInv, TopmostDecides
      <4>3. PICK w \in Deciders(p) : Shows(w, p)
        BY <4>2 DEF LayersInv, TopmostDecides
      <4>4. shown[p].said = UNION {layers[j][p].said : j \in Contributors(p)}
        BY <2>5, <3>7, <4>3 DEF Shows, IsSlice
      <4> QED
        BY <1>1, <3>6, <4>1, <4>4
    <3>8. CASE ~(p \in DOMAIN shown /\ IsSlice(shown[p]))
      <4>1. shown'[p].said = said.said
        BY <2>2, <3>8 DEF Join
      <4>2. Contributors(p) = {}
        <5> SUFFICES ASSUME NEW j \in Contributors(p) PROVE FALSE
          OBVIOUS
        <5>1. PICK w \in Deciders(p) :
                  /\ \A k \in Deciders(p) \ {w} : Below(k, w)
                  /\ Shows(w, p)
          BY DEF Contributors, LayersInv, TopmostDecides
        <5>2. ~Below(w, j)
          BY <3>4, <5>1, BelowOrders DEF Contributors, LayersInv
        <5>3. SaysSlice(w, p)
          BY <5>1, <5>2 DEF Contributors
        <5> QED
          BY <3>8, <5>1, <5>3 DEF Shows, SaysSlice, IsSlice
      <4> QED
        BY <1>1, <3>6, <4>1, <4>2
    <3> QED
      BY <3>7, <3>8
  <2>6. Shows(i, p)'
    BY <1>1, <1>5, <1>7, <2>3, <2>4, <2>5 DEF Shows, IsSlice
  <2> QED
    BY <1>2, <1>4, <2>6
<1> QED
  BY <1>6, <1>7

\* A key of which the new layer says nothing.
LEMMA DecidedByTheOld ==
    ASSUME LayersInv, NEW i \in DOMAIN layers, Lay(i), NEW p \in Path, ~Decides(i, p)
    PROVE  /\ Deciders(p)' = Deciders(p)
           /\ \A j : Shows(j, p) => Shows(j, p)'
           /\ p \in DOMAIN shown' <=> p \in DOMAIN shown
<1>1. /\ UNCHANGED <<layers, priority, strategy>>
      /\ taken' = taken \union {i} /\ i \notin taken
      /\ shown' = LaidOver(shown, layers[i])
  BY DEF Lay
<1>2. Deciders(p)' = Deciders(p)
  BY <1>1, LayersStay DEF Deciders
<1>3. Contributors(p)' = Contributors(p)
  BY <1>1, <1>2, LayersStay DEF Contributors
<1>4. /\ p \in DOMAIN shown' <=> p \in DOMAIN shown
      /\ p \in DOMAIN shown => shown'[p] = shown[p]
  BY <1>1 DEF LaidOver, Decides
<1> QED
  BY <1>1, <1>2, <1>3, <1>4 DEF Shows, IsSlice

LEMMA LayStep ==
    ASSUME LayersInv, NEW i \in DOMAIN layers, Lay(i)
    PROVE  LayersInv'
<1>1. /\ UNCHANGED <<layers, priority, strategy>>
      /\ taken' = taken \union {i} /\ i \notin taken
      /\ \A j \in DOMAIN layers \ (taken \union {i}) : Below(i, j)
      /\ shown' = LaidOver(shown, layers[i])
  BY DEF Lay
<1>2. Registered'
  BY <1>1 DEF LayersInv, Registered, IsTree, Branch
<1>3. \A k \in taken', j \in (DOMAIN layers \ taken)' : Below(k, j)'
  BY <1>1, LayersStay DEF LayersInv
<1>4. IsTree(shown)'
  <2>1. IsTree(LaidOver(shown, layers[i]))
    BY LaidOverIsTree DEF LayersInv, Registered
  <2> QED
    BY <1>1, <2>1 DEF IsTree
<1>5. TopmostDecides'
  <2> SUFFICES ASSUME NEW p \in Path
               PROVE  IF Deciders(p)' = {} THEN p = <<>> \/ p \notin DOMAIN shown'
                      ELSE \E j \in Deciders(p)' :
                              /\ \A k \in Deciders(p)' \ {j} : Below(k, j)'
                              /\ Shows(j, p)'
    BY DEF TopmostDecides
  <2>1. CASE Decides(i, p)
    BY <2>1, DecidedByTheNew
  <2>2. CASE ~Decides(i, p)
    <3>1. IF Deciders(p) = {} THEN p = <<>> \/ p \notin DOMAIN shown
          ELSE \E j \in Deciders(p) :
                  /\ \A k \in Deciders(p) \ {j} : Below(k, j)
                  /\ Shows(j, p)
      BY DEF LayersInv, TopmostDecides
    <3>2. /\ Deciders(p)' = Deciders(p)
          /\ \A j : Shows(j, p) => Shows(j, p)'
          /\ p \in DOMAIN shown' <=> p \in DOMAIN shown
      BY <2>2, DecidedByTheOld
    <3>3. \A k, j : Below(k, j)' <=> Below(k, j)
      BY <1>1, LayersStay
    <3> QED
      BY <3>1, <3>2, <3>3
  <2> QED
    BY <2>1, <2>2
<1> QED
  BY <1>1, <1>2, <1>3, <1>4, <1>5 DEF LayersInv

LEMMA BeginStep ==
    ASSUME LayersInv, Begin
    PROVE  LayersInv'
<1>1. taken' = {} /\ shown' = Bare /\ strategy' = strategy /\ Registered'
  BY DEF Begin
<1>2. \A p : Deciders(p)' = {}
  BY <1>1 DEF Deciders
<1>3. TopmostDecides'
  <2> SUFFICES ASSUME NEW p \in Path PROVE p = <<>> \/ p \notin DOMAIN shown'
    BY <1>2 DEF TopmostDecides
  <2> QED
    BY <1>1 DEF Bare
<1>4. IsTree(shown)'
  <2>1. IsTree(Bare)
    BY BareIsTree
  <2> QED
    BY <1>1, <2>1 DEF IsTree
<1> QED
  BY <1>1, <1>3, <1>4 DEF LayersInv

LEMMA LayersStep == LayersInv /\ [Next]_vars => LayersInv'
<1> SUFFICES ASSUME LayersInv, [Next]_vars PROVE LayersInv'
  OBVIOUS
<1>1. CASE Next
  BY <1>1, LayStep, BeginStep DEF Next
<1>2. CASE UNCHANGED vars
  <2>1. UNCHANGED <<layers, priority, strategy, taken, shown>>
    BY <1>2 DEF vars
  <2>2. \A p : Deciders(p)' = Deciders(p)
    BY <2>1, LayersStay DEF Deciders
  <2>3. \A p : Contributors(p)' = Contributors(p)
    BY <2>1, <2>2, LayersStay DEF Contributors
  <2>4. \A i, p : Shows(i, p)' <=> Shows(i, p)
    BY <2>1, <2>3 DEF Shows, IsSlice
  <2>5. TopmostDecides'
    BY <2>1, <2>2, <2>4, LayersStay DEF LayersInv, TopmostDecides
  <2>6. Registered' /\ IsTree(shown)'
    BY <2>1 DEF LayersInv, Registered, IsTree, Branch
  <2> QED
    BY <2>1, <2>5, <2>6, LayersStay DEF LayersInv
<1> QED
  BY <1>1, <1>2

\* LayersInv holds in every state.
THEOREM LayersInvariant == Spec => []LayersInv
BY LayersInit, LayersStep, PTL DEF Spec

\* Every key of the settings shows what the topmost of the layers that decide it
\* says, however many there are and however deep the key.
THEOREM TheTopmostDecides == Spec => []TopmostDecides
<1>1. LayersInv => TopmostDecides
  BY DEF LayersInv
<1> QED
  BY <1>1, LayersInvariant, PTL
=============================================================================
