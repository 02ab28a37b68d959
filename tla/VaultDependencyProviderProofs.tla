-------------------- MODULE VaultDependencyProviderProofs --------------------
(***************************************************************************)
(* Proofs about VaultDependencyProvider, for any number of dependencies,   *)
(* of versions and of secrets that poll can see.  DepInv is inductive.     *)
(***************************************************************************)
EXTENDS VaultDependencyProvider, TLAPS

USE NAssumption, MirroredAssumption, OutagesAssumption, MaxVersionAssumption
USE DEF CachedDependency, LoadData, SameData, AfterPollStore

\* What Load and poll may keep of a dependency.
Kept == [form : {"none", "inner", "response"}, ver : 0..MaxVersion]

LEMMA KeptForms ==
    /\ Nothing \in [Deps -> Kept]
    /\ \A v \in 0..MaxVersion : Inner(v) \in Kept /\ Response(v) \in Kept
    /\ \A v : Inner(v).form = "inner" /\ Inner(v).ver = v /\ Inner(v) # None
    /\ \A v : Response(v).form = "response"
    /\ None \in Kept /\ None.form = "none"
    /\ \A d \in Deps : Nothing[d] = None
BY DEF Nothing, None, Inner, Response, Kept

\* TypeOK variable by variable.
TypeParts ==
    /\ secret \in [Deps -> 0..MaxVersion] /\ outages \in BOOLEAN
    /\ cached \in [Deps -> Kept] /\ result \in [Deps -> Kept]
    /\ loaded \in [Deps -> Kept] /\ newData \in [Deps -> Kept]
    /\ told \in [Deps -> Kept]
    /\ pc \in {"idle", "list", "read"} /\ dep \in 1..(N + 1)
    /\ keys \subseteq Deps /\ fresh \subseteq Deps
    /\ since \in [Deps -> 0..MaxVersion]
    /\ answer \in {"none", "data", "empty", "error"}
    /\ poll \in {"select", "read", "store", "emit", "done"}
    /\ pollDep \in 1..(N + 1)
    /\ asked \in BOOLEAN

LEMMA Typed ==
    /\ TypeOK <=> TypeParts /\ outages \in Outages
    /\ TypeOK' <=> TypeParts' /\ outages' \in Outages
BY DEF TypeOK, TypeParts, Kept

LEMMA DepInit == Init => DepInv
<1> SUFFICES ASSUME Init PROVE DepInv
  OBVIOUS
<1> HIDE MaxVersionAssumption
<1>0. [Deps -> {0, 1}] \subseteq [Deps -> 0..MaxVersion]
  BY MaxVersionAssumption
<1>1. TypeParts
  <2>1. 1 \in 1..(N + 1)
    BY NAssumption
  <2>2. outages \in BOOLEAN
    BY OutagesAssumption DEF Init
  <2>3. secret \in [Deps -> 0..MaxVersion] /\ since = secret
    BY <1>0 DEF Init
  <2> HIDE NAssumption, OutagesAssumption, MirroredAssumption
  <2> QED
    BY <2>1, <2>2, <2>3, KeptForms DEF Init, TypeParts
<1>2. TypeOK
  BY <1>1, Typed DEF Init
<1> QED
  BY <1>1, <1>2, KeptForms DEF Init, DepInv, Collected, FreshDependencies,
     NothingStoredSilently, FallbackIsCollected, TypeParts

\* Only LoadStore ends a Load that has read, and what a step of the polls may
\* change of what a Load relies on.
LEMMA Frame ==
    ASSUME [Next]_vars
    PROVE  /\ UNCHANGED outages
           /\ \/ UNCHANGED secret
              \/ \E d \in Deps : WriteSecret(d)
           /\ \/ UNCHANGED loadVars
              \/ /\ UNCHANGED <<vaultVars, pollVars>>
                 /\ LoadCall \/ LoadStep
           /\ UNCHANGED cached \/ LoadStore \/ PollStore
           /\ \/ UNCHANGED newData
              \/ \E d \in Deps : PollRead(d)
              \/ PollCompare \/ PollStore
<1>1. CASE UNCHANGED vars
  BY <1>1 DEF vars, vaultVars, loadVars, pollVars
<1>2. CASE Next
  BY <1>2 DEF Next, WriteSecret, LoadStep, LoadCall, ListFails, ListWithoutKeys,
     List, ReadDependency, SkipDependency, LoadStore, PollTick, PollRead,
     PollMisses, PollCompare, PollStore, PollEmit, PollExit,
     vaultVars, loadVars, pollVars
<1> QED
  BY <1>1, <1>2

\* Every step keeps the types.
LEMMA TypeStep ==
    ASSUME TypeOK, [Next]_vars
    PROVE  TypeOK'
<1> USE KeptForms DEF TypeParts, Deps, vaultVars, loadVars, pollVars
<1>0. TypeParts /\ outages \in Outages
  BY Typed
<1>1. ASSUME UNCHANGED vars PROVE TypeParts'
  BY <1>0, <1>1 DEF vars
<1>2. ASSUME NEW d \in Deps, WriteSecret(d) PROVE TypeParts'
  BY <1>0, <1>2 DEF WriteSecret
<1>3. ASSUME LoadCall PROVE TypeParts'
  BY <1>0, <1>3 DEF LoadCall
<1>4. ASSUME ListFails PROVE TypeParts'
  BY <1>0, <1>4 DEF ListFails
<1>5. ASSUME ListWithoutKeys PROVE TypeParts'
  BY <1>0, <1>5 DEF ListWithoutKeys
<1>6. ASSUME List PROVE TypeParts'
  BY <1>0, <1>6 DEF List
<1>7. ASSUME NEW d \in Deps, ReadDependency(d) PROVE TypeParts'
  BY <1>0, <1>7 DEF ReadDependency, Collect
<1>8. ASSUME NEW d \in Deps, SkipDependency(d) PROVE TypeParts'
  <2>1. None \in Kept
    BY DEF None
  <2> QED
    BY <1>0, <1>8, <2>1 DEF SkipDependency, Collect
<1>9. ASSUME LoadStore PROVE TypeParts'
  BY <1>0, <1>9 DEF LoadStore
<1>10. ASSUME NEW d \in Deps, PollRead(d) PROVE TypeParts'
  BY <1>0, <1>10 DEF PollRead
<1>11. ASSUME NEW d \in Deps, PollMisses(d) PROVE TypeParts'
  BY <1>0, <1>11 DEF PollMisses
<1>12. ASSUME PollTick PROVE TypeParts'
  BY <1>0, <1>12 DEF PollTick
<1>13. ASSUME PollCompare PROVE TypeParts'
  BY <1>0, <1>13 DEF PollCompare
<1>14. ASSUME PollStore PROVE TypeParts'
  BY <1>0, <1>14 DEF PollStore
<1>15. ASSUME PollEmit PROVE TypeParts'
  BY <1>0, <1>15 DEF PollEmit
<1>16. ASSUME PollExit PROVE TypeParts'
  BY <1>0, <1>16 DEF PollExit
<1> QED
  BY Typed, Frame, <1>0, <1>1, <1>2, <1>3, <1>4, <1>5, <1>6, <1>7, <1>8, <1>9, <1>10, <1>11,
     <1>12, <1>13, <1>14, <1>15, <1>16 DEF Next

-----------------------------------------------------------------------------
(* The rest of DepInv.                                                     *)

LEMMA CollectedStep ==
    ASSUME TypeOK, Collected, [Next]_vars
    PROVE  Collected'
<1> USE KeptForms DEF Collected, TypeParts, Deps, vaultVars, loadVars, pollVars
<1>0. TypeParts /\ TypeParts'
  BY Typed, TypeStep
<1>1. CASE UNCHANGED loadVars
  <2>1. \A d \in Deps : secret[d] <= secret'[d]
    <3>1. CASE UNCHANGED secret
      BY <1>0, <3>1
    <3>2. ASSUME NEW e \in Deps, WriteSecret(e)
          PROVE  \A d \in Deps : secret[d] <= secret'[d]
      BY <1>0, <3>2 DEF WriteSecret
    <3> QED
      BY <3>1, <3>2, Frame
  <2> QED
    BY <1>0, <1>1, <2>1
<1>2. CASE UNCHANGED vaultVars /\ LoadCall
  BY <1>0, <1>2 DEF LoadCall
<1>3. CASE UNCHANGED vaultVars /\ LoadStep
  <2>1. CASE ListFails \/ ListWithoutKeys \/ List \/ LoadStore
    BY <1>0, <1>3, <2>1 DEF ListFails, ListWithoutKeys, List, LoadStore
  <2>2. ASSUME NEW d \in Deps, ReadDependency(d) PROVE Collected'
    BY <1>0, <1>3, <2>2 DEF ReadDependency, Collect
  <2>3. ASSUME NEW d \in Deps, SkipDependency(d) PROVE Collected'
    BY <1>0, <1>3, <2>3 DEF SkipDependency, Collect
  <2> QED
    BY <1>3, <2>1, <2>2, <2>3 DEF LoadStep
<1> QED
  BY <1>1, <1>2, <1>3, Frame

LEMMA FreshStep ==
    ASSUME TypeOK, Collected, FreshDependencies, [Next]_vars
    PROVE  FreshDependencies'
<1> USE DEF FreshDependencies, vaultVars, loadVars, pollVars
<1>1. CASE UNCHANGED loadVars
  BY <1>1
<1>2. CASE LoadCall
  BY <1>2 DEF LoadCall
<1>3. CASE LoadStep
  <2>1. CASE ListFails \/ ListWithoutKeys \/ List
    BY <2>1 DEF ListFails, ListWithoutKeys, List
  <2>2. CASE LoadStore
    BY <2>2 DEF LoadStore, Collected
  <2>3. ASSUME NEW d \in Deps, ReadDependency(d) \/ SkipDependency(d)
        PROVE  FreshDependencies'
    BY <2>3 DEF ReadDependency, SkipDependency, Collect
  <2> QED
    BY <1>3, <2>1, <2>2, <2>3 DEF LoadStep
<1> QED
  BY <1>1, <1>2, <1>3, Frame

LEMMA SilentStep ==
    ASSUME NothingStoredSilently, [Next]_vars
    PROVE  NothingStoredSilently'
<1> USE DEF NothingStoredSilently, vaultVars, loadVars, pollVars
<1>1. CASE UNCHANGED vars
  BY <1>1 DEF vars
<1>2. CASE Next
  BY <1>2 DEF Next, WriteSecret, LoadCall, ListFails, ListWithoutKeys, List,
     ReadDependency, SkipDependency, LoadStore, PollTick, PollRead, PollMisses,
     PollCompare, PollStore, PollEmit, PollExit
<1> QED
  BY <1>1, <1>2

LEMMA FallbackStep ==
    ASSUME TypeOK, FallbackIsCollected, [Next]_vars
    PROVE  FallbackIsCollected'
<1> USE KeptForms DEF FallbackIsCollected, TypeParts, Deps, vaultVars, loadVars,
        pollVars
<1>0. TypeParts /\ TypeParts'
  BY Typed, TypeStep
<1>1. \A d \in Deps : newData'[d].form # "inner"
  <2>1. CASE UNCHANGED newData
    BY <2>1
  <2>2. ASSUME NEW d \in Deps, PollRead(d)
        PROVE  \A e \in Deps : newData'[e].form # "inner"
    BY <1>0, <2>2 DEF PollRead
  <2>3. CASE PollCompare \/ PollStore
    BY <2>3 DEF PollCompare, PollStore
  <2> QED
    BY <2>1, <2>2, <2>3, Frame
<1>2. ASSUME UNCHANGED loadVars, NEW d \in keys, pc = "read", d < dep,
             cached'[d].form = "inner"
      PROVE  result[d] # None
  <2>1. ~LoadStore
    BY <1>2 DEF LoadStore
  <2>2. ~PollStore
    BY <1>0, <1>2 DEF PollStore
  <2>3. cached'[d] = cached[d]
    BY <2>1, <2>2, Frame
  <2> QED
    BY <1>2, <2>3
<1>3. CASE LoadCall \/ ListFails \/ ListWithoutKeys \/ LoadStore
  BY <1>0, <1>1, <1>3 DEF LoadCall, ListFails, ListWithoutKeys, LoadStore
<1>4. CASE List
  BY <1>0, <1>1, <1>4 DEF List
<1>5. ASSUME NEW d \in Deps, ReadDependency(d) PROVE FallbackIsCollected'
  BY <1>0, <1>1, <1>5 DEF ReadDependency, Collect
<1>6. ASSUME NEW d \in Deps, SkipDependency(d) PROVE FallbackIsCollected'
  BY <1>0, <1>1, <1>6 DEF SkipDependency, Collect
<1> QED
  BY <1>1, <1>2, <1>3, <1>4, <1>5, <1>6, Frame DEF LoadStep

-----------------------------------------------------------------------------
(* What holds in every behaviour.                                          *)

\* DepInv holds in every state: what a Load has collected is as recent as its
\* call, and the polls beside it store nothing silently.
THEOREM DepInvariant == Spec => []DepInv
<1>1. DepInv /\ [Next]_vars => DepInv'
  BY TypeStep, CollectedStep, FreshStep, SilentStep, FallbackStep DEF DepInv
<1> QED
  BY <1>1, DepInit, PTL DEF Spec

\* What a Load has read it returns as it read it, whatever the reads of the
\* other dependencies and the polls in between did.
THEOREM DependenciesAreFresh == Spec => []FreshDependencies
<1>1. DepInv => FreshDependencies
  BY DEF DepInv
<1> QED
  BY <1>1, DepInvariant, PTL

\* As long as no poll replaces the cache, a failing read takes no dependency
\* away that an earlier Load returned.
THEOREM FailuresFallBack == Spec => FailedReadsFallBack
<1>1. ASSUME DepInv, [Next]_vars, NEW d \in Deps, pc = "read", pc' = "idle",
             d \in keys, loaded[d].form = "inner", cached[d] = loaded[d]
      PROVE  loaded'[d] # None
  <2>1. LoadStore
    BY <1>1, Frame DEF loadVars, LoadCall, LoadStep, ListFails, ListWithoutKeys,
       List, ReadDependency, SkipDependency
  <2>2. d < dep
    BY <2>1 DEF LoadStore, Deps
  <2>3. result[d] # None
    BY <1>1, <2>2 DEF DepInv, FallbackIsCollected
  <2> QED
    BY <2>1, <2>3 DEF LoadStore
<1>2. DepInv /\ [Next]_vars =>
        [\A d \in Deps :
            pc = "read" /\ pc' = "idle" /\ d \in keys
            /\ loaded[d].form = "inner" /\ cached[d] = loaded[d]
               => loaded'[d] # None]_vars
  BY <1>1
<1> QED
  BY <1>2, DepInvariant, PTL DEF Spec, FailedReadsFallBack
=============================================================================
