------------------------- MODULE ConfigLoaderProofs -------------------------
(***************************************************************************)
(* Proofs about ConfigLoader, for any number of goroutines, providers,     *)
(* callbacks and source changes.  IInv of ConfigLoader is inductive; the   *)
(* invariants, the action property and the refinement follow from it.      *)
(***************************************************************************)
EXTENDS ConfigLoader, TLAPS

USE NAssumption, FallbackAssumption, MaxVersionAssumption
USE DEF MayAsk, Abort, Complete, CallbacksToRun

\* Direct providers are providers.
LEMMA DirectProviders == Direct \subseteq Providers
BY DEF Direct, Providers

\* A sequence of N versions is a version for each provider.
LEMMA FullListIsFunction ==
    ASSUME NEW s \in Seq(Nat), Len(s) = N
    PROVE  s \in [Providers -> Nat]
BY DEF Providers

-----------------------------------------------------------------------------
(* Type correctness.                                                       *)

LEMMA TypeInit == Init => TypeOK
BY DEF Init, TypeOK, Providers, Phases, Calls

LEMMA TypeStep == TypeOK /\ [Next]_vars => TypeOK'
<1> SUFFICES ASSUME TypeOK, [Next]_vars PROVE TypeOK'
  OBVIOUS
<1> USE DEF TypeOK, Phases, Calls, Goto
<1>1. CASE UNCHANGED vars
  BY <1>1 DEF vars
<1>2. ASSUME NEW p \in Providers, SourceChange(p) PROVE TypeOK'
  BY <1>2 DEF SourceChange
<1>3. ASSUME NEW p \in Providers, PollStore(p) PROVE TypeOK'
  BY <1>3 DEF PollStore
<1>4. ASSUME NEW t \in Threads, ThreadStep(t) PROVE TypeOK'
  <2>1. ASSUME NEW call \in Calls, Call(t, call) PROVE TypeOK'
    BY <2>1 DEF Call
  <2>2. CASE Announce(t)
    BY <2>2 DEF Announce
  <2>3. CASE Drain(t)
    BY <2>3 DEF Drain
  <2>4. CASE LoadFresh(t)
    BY <2>4 DEF LoadFresh, NextProvider
  <2>5. CASE LoadCached(t)
    <3>1. cache[NextProvider(t)] \in Nat
      BY <2>5 DEF LoadCached, Providers
    <3> QED
      BY <2>5, <3>1 DEF LoadCached
  <2>6. CASE LoadFail(t)
    BY <2>6 DEF LoadFail
  <2>7. CASE Publish(t)
    BY <2>7, FullListIsFunction DEF Publish
  <2>8. CASE Snapshot(t)
    BY <2>8 DEF Snapshot
  <2>9. CASE RunCallback(t)
    BY <2>9 DEF RunCallback
  <2>10. CASE Return(t)
    BY <2>10 DEF Return
  <2>11. CASE AppendCallback(t)
    BY <2>11 DEF AppendCallback
  <2>12. CASE RLock(t)
    BY <2>12 DEF RLock
  <2>13. CASE RUnlock(t)
    BY <2>13 DEF RUnlock
  <2> QED
    BY <1>4, <2>1, <2>2, <2>3, <2>4, <2>5, <2>6, <2>7, <2>8, <2>9, <2>10,
       <2>11, <2>12, <2>13 DEF ThreadStep
<1> QED
  BY <1>1, <1>2, <1>3, <1>4 DEF Next

\* Every variable of the loader keeps its type.
THEOREM TypeCorrect == Spec => []TypeOK
BY TypeInit, TypeStep, PTL DEF Spec
-----------------------------------------------------------------------------
(* The lock: at most one writer, no reader beside one that has drained.    *)

\* The lock discipline is inductive on its own.
LEMMA LockStep ==
    ASSUME TypeOK, OneWriter, WriterAlone, OpMatchesPhase, [Next]_vars
    PROVE  (OneWriter /\ WriterAlone /\ OpMatchesPhase)'
<1> USE DEF TypeOK, OneWriter, WriterAlone, OpMatchesPhase, Writers, Readers,
           CanLock, CanRLock, Goto, Phases, Calls, Loads
<1>1. CASE UNCHANGED vars
  BY <1>1 DEF vars
<1>2. ASSUME NEW p \in Providers, SourceChange(p) PROVE (OneWriter /\ WriterAlone /\ OpMatchesPhase)'
  BY <1>2 DEF SourceChange
<1>3. ASSUME NEW p \in Providers, PollStore(p) PROVE (OneWriter /\ WriterAlone /\ OpMatchesPhase)'
  BY <1>3 DEF PollStore
<1>4. ASSUME NEW t \in Threads, ThreadStep(t) PROVE (OneWriter /\ WriterAlone /\ OpMatchesPhase)'
  <2>1. ASSUME NEW call \in Calls, Call(t, call) PROVE (OneWriter /\ WriterAlone /\ OpMatchesPhase)'
    BY <2>1 DEF Call
  <2>2. CASE Announce(t)
    BY <2>2 DEF Announce
  <2>3. CASE Drain(t)
    BY <2>3 DEF Drain
  <2>4. CASE LoadFresh(t)
    BY <2>4 DEF LoadFresh
  <2>5. CASE LoadCached(t)
    BY <2>5 DEF LoadCached
  <2>6. CASE LoadFail(t)
    BY <2>6 DEF LoadFail
  <2>7. CASE Publish(t)
    BY <2>7 DEF Publish
  <2>8. CASE Snapshot(t)
    BY <2>8 DEF Snapshot
  <2>9. CASE RunCallback(t)
    BY <2>9 DEF RunCallback
  <2>10. CASE Return(t)
    BY <2>10 DEF Return
  <2>11. CASE AppendCallback(t)
    BY <2>11 DEF AppendCallback
  <2>12. CASE RLock(t)
    BY <2>12 DEF RLock
  <2>13. CASE RUnlock(t)
    BY <2>13 DEF RUnlock
  <2> QED
    BY <1>4, <2>1, <2>2, <2>3, <2>4, <2>5, <2>6, <2>7, <2>8, <2>9, <2>10,
       <2>11, <2>12, <2>13 DEF ThreadStep
<1> QED
  BY <1>1, <1>2, <1>3, <1>4 DEF Next

-----------------------------------------------------------------------------
(* Which step changes what.                                                *)

\* Only four kinds of step touch the data the invariant relates.
LEMMA Frame ==
    ASSUME [Next]_vars
    PROVE  /\ UNCHANGED source \/ \E p \in Providers : SourceChange(p)
           /\ UNCHANGED settings \/ \E t \in Threads : Publish(t)
           /\ \/ UNCHANGED cache
              \/ \E p \in Providers : PollStore(p)
              \/ \E t \in Threads : LoadFresh(t)
           /\ \/ UNCHANGED floor
              \/ \E t \in Threads, call \in Calls : Call(t, call)
           /\ \/ UNCHANGED got
              \/ \E t \in Threads : LoadStep(t) \/ Publish(t)
<1>1. CASE UNCHANGED vars
  BY <1>1 DEF vars
<1>2. ASSUME NEW p \in Providers, SourceChange(p) \/ PollStore(p)
      PROVE  /\ SourceChange(p) \/ UNCHANGED source
             /\ PollStore(p) \/ UNCHANGED cache
             /\ UNCHANGED <<settings, floor, got>>
  BY <1>2 DEF SourceChange, PollStore
<1>3. ASSUME NEW t \in Threads, ThreadStep(t)
      PROVE  /\ UNCHANGED source
             /\ Publish(t) \/ UNCHANGED settings
             /\ LoadFresh(t) \/ UNCHANGED cache
             /\ (\E call \in Calls : Call(t, call)) \/ UNCHANGED floor
             /\ LoadStep(t) \/ Publish(t) \/ UNCHANGED got
  <2>1. CASE \E call \in Calls : Call(t, call)
    BY <2>1 DEF Call
  <2>2. CASE LoadStep(t)
    BY <2>2 DEF LoadStep, LoadFresh, LoadCached, LoadFail
  <2>3. CASE Publish(t)
    BY <2>3 DEF Publish
  <2>4. CASE \/ Announce(t) \/ Drain(t) \/ Snapshot(t) \/ RunCallback(t)
             \/ Return(t) \/ AppendCallback(t) \/ RLock(t) \/ RUnlock(t)
    BY <2>4 DEF Announce, Drain, Snapshot, RunCallback, Return,
                AppendCallback, RLock, RUnlock
  <2> QED
    BY <1>3, <2>1, <2>2, <2>3, <2>4 DEF ThreadStep, LoadStep
<1> QED
  BY <1>1, <1>2, <1>3 DEF Next

\* Sources only move forward.
LEMMA SourceGrows ==
    ASSUME TypeOK, [Next]_vars
    PROVE  \A p \in Providers : source[p] <= source'[p]
<1> SUFFICES ASSUME NEW p \in Providers PROVE source[p] <= source'[p]
  OBVIOUS
<1>1. source[p] \in Nat
  BY DEF TypeOK
<1>2. ASSUME NEW q \in Providers, SourceChange(q) PROVE source[p] <= source'[p]
  BY <1>1, <1>2 DEF SourceChange, TypeOK
<1> QED
  BY <1>1, <1>2, Frame

\* A goroutine enters the second half of Reload by publishing, and nothing
\* moves its floor while it is inside the loader.
LEMMA ThreadFrame ==
    ASSUME TypeOK, [Next]_vars, NEW u \in Threads
    PROVE  /\ pc[u] # "idle" => floor'[u] = floor[u]
           /\ pc'[u] \in {"snap", "run"} => pc[u] \in {"snap", "run"} \/ Publish(u)
           /\ pc[u] = "load" =>
                \/ LoadStep(u) \/ Publish(u)
                \/ pc'[u] = "load" /\ got'[u] = got[u]
           /\ pc[u] # "load" => got'[u] = got[u]
<1>1. pc[u] # "idle" => floor'[u] = floor[u]
  BY Frame DEF TypeOK, Call
<1> DEFINE Moves == /\ pc'[u] \in {"snap", "run"} =>
                         pc[u] \in {"snap", "run"} \/ Publish(u)
                    /\ pc[u] = "load" =>
                         LoadStep(u) \/ Publish(u) \/ pc'[u] = "load"
<1>2. ASSUME UNCHANGED pc PROVE Moves
  BY <1>2
<1>3. ASSUME NEW t \in Threads, ThreadStep(t) PROVE Moves
  <2> USE DEF TypeOK, Goto, Phases
  <2>1. CASE \E call \in Calls : Call(t, call)
    BY <2>1 DEF Call
  <2>2. CASE Announce(t) \/ Drain(t) \/ Snapshot(t) \/ Return(t)
    BY <2>2 DEF Announce, Drain, Snapshot, Return
  <2>3. CASE AppendCallback(t) \/ RLock(t) \/ RUnlock(t)
    BY <2>3 DEF AppendCallback, RLock, RUnlock
  <2>4. CASE LoadFresh(t) \/ LoadCached(t) \/ RunCallback(t)
    BY <2>4, <1>2 DEF LoadFresh, LoadCached, RunCallback
  <2>5. CASE LoadFail(t) \/ Publish(t)
    <3>1. CASE t = u
      <4>1. pc[u] = "load"
        BY <2>5, <3>1 DEF LoadFail, Publish
      <4>2. LoadFail(u) => pc'[u] = "idle"
        BY DEF LoadFail
      <4> QED
        BY <2>5, <3>1, <4>1, <4>2 DEF LoadStep
    <3>2. CASE t # u
      BY <2>5, <3>2 DEF LoadFail, Publish
    <3> QED
      BY <3>1, <3>2
  <2> QED
    BY <1>3, <2>1, <2>2, <2>3, <2>4, <2>5 DEF ThreadStep
<1>4. Moves
  BY <1>2, <1>3 DEF Next, vars, SourceChange, PollStore
<1>5. LoadStep(u) \/ Publish(u) \/ got'[u] = got[u]
  <2>1. CASE UNCHANGED got
    BY <2>1
  <2>2. ASSUME NEW t \in Threads, LoadStep(t) \/ Publish(t)
        PROVE  LoadStep(u) \/ Publish(u) \/ got'[u] = got[u]
    <3>1. CASE t = u
      BY <2>2, <3>1
    <3>2. CASE t # u
      BY <2>2, <3>2 DEF TypeOK, LoadStep, LoadFresh, LoadCached, LoadFail, Publish
    <3> QED
      BY <3>1, <3>2
  <2> QED
    BY <2>1, <2>2, Frame
<1>6. LoadStep(u) \/ Publish(u) => pc[u] = "load"
  BY DEF LoadStep, LoadFresh, LoadCached, LoadFail, Publish
<1> QED
  BY <1>1, <1>4, <1>5, <1>6

-----------------------------------------------------------------------------
(* Versions.                                                               *)

\* No version in the loader runs ahead of its source.
LEMMA SourceStep ==
    ASSUME TypeOK, NothingAheadOfSource, \A t \in Threads : Collected(t),
           [Next]_vars
    PROVE  NothingAheadOfSource'
<1> SUFFICES ASSUME NEW p \in Providers
             PROVE  /\ settings'[p] <= source'[p]
                    /\ cache'[p] <= source'[p]
                    /\ \A t \in Threads : floor'[t][p] <= source'[p]
  BY DEF NothingAheadOfSource
<1>1. TypeOK' /\ source[p] <= source'[p]
  BY TypeStep, SourceGrows
<1>2. settings'[p] <= source[p]
  <2>1. CASE UNCHANGED settings
    BY <2>1 DEF NothingAheadOfSource
  <2>2. ASSUME NEW t \in Threads, Publish(t) PROVE settings'[p] <= source[p]
    BY <2>2 DEF Publish, Collected, Providers
  <2> QED
    BY <2>1, <2>2, Frame
<1>3. cache'[p] <= source[p]
  <2>1. CASE UNCHANGED cache
    BY <2>1 DEF NothingAheadOfSource
  <2>2. ASSUME NEW q \in Providers, PollStore(q) PROVE cache'[p] <= source[p]
    <3> PICK v \in 1..source[q] : cache' = [cache EXCEPT ![q] = v]
      BY <2>2 DEF PollStore
    <3> QED
      BY DEF NothingAheadOfSource, TypeOK
  <2>3. ASSUME NEW t \in Threads, LoadFresh(t) PROVE cache'[p] <= source[p]
    BY <2>3 DEF LoadFresh, NothingAheadOfSource, TypeOK
  <2> QED
    BY <2>1, <2>2, <2>3, Frame
<1>4. ASSUME NEW t \in Threads PROVE floor'[t][p] <= source[p]
  <2>1. CASE UNCHANGED floor
    BY <2>1 DEF NothingAheadOfSource
  <2>2. ASSUME NEW u \in Threads, NEW call \in Calls, Call(u, call)
        PROVE  floor'[t][p] <= source[p]
    BY <2>2 DEF Call, NothingAheadOfSource, TypeOK
  <2> QED
    BY <2>1, <2>2, Frame
<1>5. /\ source[p] \in Nat /\ source'[p] \in Nat /\ settings'[p] \in Nat /\ cache'[p] \in Nat
      /\ \A t \in Threads : floor'[t][p] \in Nat
  BY <1>1 DEF TypeOK
<1> QED
  BY <1>1, <1>2, <1>3, <1>4, <1>5

\* What a Load has collected stays between its call and the sources.
LEMMA CollectedStep ==
    ASSUME IInv, [Next]_vars, NEW u \in Threads
    PROVE  Collected(u)'
<1>1. TypeOK /\ TypeOK' /\ Collected(u)
  BY TypeStep DEF IInv
<1>2. ASSUME got'[u] = <<>> PROVE Collected(u)'
  <2>1. Len(got'[u]) = 0 /\ 1..Len(got'[u]) = {}
    BY <1>2
  <2> QED
    BY <1>2, <2>1 DEF Collected
<1>3. CASE pc[u] # "load"
  BY <1>1, <1>2, <1>3, ThreadFrame DEF Collected
<1>4. ASSUME pc[u] = "load", pc'[u] = "load", got'[u] = got[u],
             ~Publish(u)
      PROVE  Collected(u)'
  <2>1. floor'[u] = floor[u]
    BY <1>1, <1>4, ThreadFrame
  <2>2. settings' = settings
    BY <1>1, <1>4, Frame DEF IInv, OneWriter, Writers, Publish
  <2>3. \A p \in 1..Len(got[u]) : got'[u][p] <= source'[p]
    <3> SUFFICES ASSUME NEW p \in 1..Len(got[u])
                 PROVE  got[u][p] <= source'[p]
      BY <1>4
    <3>1. got[u] \in Seq(Nat) /\ Len(got[u]) \in Nat /\ Len(got[u]) <= N
      BY <1>1 DEF Collected, TypeOK
    <3>2. p \in Providers /\ got[u][p] \in Nat
      BY <3>1 DEF Providers
    <3>3. got[u][p] <= source[p]
      BY <1>1 DEF Collected
    <3>4. source[p] <= source'[p] /\ source[p] \in Nat /\ source'[p] \in Nat
      BY <1>1, <3>2, SourceGrows DEF TypeOK
    <3> QED
      BY <3>2, <3>3, <3>4
  <2> QED
    BY <1>1, <1>4, <2>1, <2>2, <2>3 DEF Collected
<1>5. ASSUME NEW v \in Nat, pc[u] = "load",
             NextProvider(u) \in Providers,
             v <= source[NextProvider(u)],
             NextProvider(u) \in Direct => v = source[NextProvider(u)],
             got' = [got EXCEPT ![u] = Append(@, v)],
             UNCHANGED <<source, settings, pc, floor>>
      PROVE  Collected(u)'
  <2> DEFINE q == NextProvider(u)
  <2>1. Len(got'[u]) = q /\ Len(got'[u]) <= N
    BY <1>1, <1>5 DEF NextProvider, Providers, TypeOK
  <2>2. got'[u][q] = v /\ \A p \in 1..Len(got[u]) : got'[u][p] = got[u][p]
    BY <1>1, <1>5 DEF NextProvider, TypeOK
  <2>3. q \in Direct => v >= floor[u][q] /\ v >= settings[q]
    BY <1>1, <1>5 DEF IInv, NothingAheadOfSource, TypeOK
  <2>4. \A p \in 1..Len(got'[u]) : p = q \/ p \in 1..Len(got[u])
    BY <1>1, <2>1 DEF NextProvider, TypeOK
  <2> QED
    BY <1>1, <1>5, <2>1, <2>2, <2>3, <2>4 DEF Collected
<1>6. CASE LoadFresh(u)
  <2>1. NextProvider(u) \in Providers /\ source[NextProvider(u)] \in Nat
    BY <1>1, <1>6 DEF LoadFresh, TypeOK
  <2> QED
    <3>1. /\ got' = [got EXCEPT ![u] = Append(@, source[NextProvider(u)])]
          /\ UNCHANGED <<source, settings, pc, floor>>
          /\ pc[u] = "load"
          /\ source[NextProvider(u)] <= source[NextProvider(u)]
      BY <1>6, <2>1 DEF LoadFresh
    <3> QED
      BY <1>5, <2>1, <3>1
<1>7. CASE LoadCached(u)
  <2>1. /\ NextProvider(u) \in Providers
        /\ NextProvider(u) \notin Direct
        /\ cache[NextProvider(u)] \in Nat
        /\ cache[NextProvider(u)] <= source[NextProvider(u)]
    BY <1>1, <1>7 DEF LoadCached, IInv, NothingAheadOfSource, TypeOK, Direct,
                      Providers
  <2> QED
    BY <1>5, <1>7, <2>1 DEF LoadCached
<1>8. CASE LoadFail(u) \/ Publish(u)
  BY <1>1, <1>2, <1>8 DEF LoadFail, Publish, TypeOK
<1> QED
  BY <1>1, <1>3, <1>4, <1>6, <1>7, <1>8, ThreadFrame DEF LoadStep

\* Later publications only add to what a reload published.
LEMMA FreshStep ==
    ASSUME IInv, [Next]_vars
    PROVE  CallbacksReadFreshSettings'
<1> SUFFICES ASSUME NEW u \in Threads, pc'[u] \in {"snap", "run"},
                    NEW p \in Direct
             PROVE  settings'[p] >= floor'[u][p]
  BY DEF CallbacksReadFreshSettings
<1>1. TypeOK /\ p \in Providers
  BY DirectProviders DEF IInv
<1>2. CASE Publish(u)
  <2>1. floor'[u] = floor[u]
    BY <1>2 DEF Publish
  <2>2. settings'[p] = got[u][p] /\ got[u][p] >= floor[u][p]
    BY <1>1, <1>2 DEF Publish, IInv, Collected, Providers
  <2> QED
    BY <2>1, <2>2
<1>3. CASE pc[u] \in {"snap", "run"}
  <2>1. floor'[u] = floor[u] /\ settings[p] >= floor[u][p]
    BY <1>1, <1>3, ThreadFrame DEF IInv, CallbacksReadFreshSettings
  <2>2. ASSUME NEW t \in Threads, Publish(t) PROVE settings'[p] >= settings[p]
    BY <1>1, <2>2 DEF Publish, IInv, Collected, Providers
  <2>3. settings' = settings \/ settings'[p] >= settings[p]
    BY <2>2, Frame
  <2> QED
    BY <1>1, <2>1, <2>3, TypeStep DEF TypeOK
<1> QED
  BY <1>1, <1>2, <1>3, ThreadFrame

-----------------------------------------------------------------------------
(* The inductive invariant and what follows from it.                       *)

LEMMA InvInit == Init => IInv
<1> SUFFICES ASSUME Init PROVE IInv
  OBVIOUS
<1>1. TypeOK
  BY TypeInit
<1> QED
  BY <1>1 DEF Init, IInv, NothingAheadOfSource, OneWriter, WriterAlone,
              OpMatchesPhase, Collected, CallbacksReadFreshSettings, Writers,
              Readers

LEMMA InvStep == IInv /\ [Next]_vars => IInv'
BY TypeStep, LockStep, SourceStep, CollectedStep, FreshStep DEF IInv

\* IInv holds in every state.
THEOREM Invariant == Spec => []IInv
BY InvInit, InvStep, PTL DEF Spec

\* A writer inside its critical section is alone in the loader.
THEOREM WriterIsAlone == Spec => []WriterExcludesAll
<1>1. IInv => WriterExcludesAll
  BY DEF IInv, WriterExcludesAll, OneWriter, WriterAlone, Writers
<1> QED
  BY <1>1, Invariant, PTL

\* A reload callback reads nothing older than its Reload's call.
THEOREM CallbacksAreFresh == Spec => []CallbacksReadFreshSettings
<1>1. IInv => CallbacksReadFreshSettings
  BY DEF IInv
<1> QED
  BY <1>1, Invariant, PTL

\* The settings of a provider without a cache never go back.
THEOREM NeverGoBack == Spec => SettingsNeverGoBack
<1>1. ASSUME IInv, [Next]_vars
      PROVE  \A p \in Direct : settings'[p] >= settings[p]
  <2> SUFFICES ASSUME NEW p \in Direct PROVE settings'[p] >= settings[p]
    OBVIOUS
  <2>1. ASSUME NEW t \in Threads, Publish(t) PROVE settings'[p] >= settings[p]
    BY <1>1, <2>1, DirectProviders DEF Publish, IInv, Collected, Providers
  <2> QED
    BY <1>1, <2>1, Frame, DirectProviders DEF IInv, TypeOK
<1> QED
  BY <1>1, Invariant, PTL DEF Spec, SettingsNeverGoBack

-----------------------------------------------------------------------------
(* The loader implements AtomicReload.                                     *)

LEMMA RangeOfAppend ==
    ASSUME NEW S, NEW s \in Seq(S), NEW e \in S
    PROVE  Range(Append(s, e)) = Range(s) \union {e}
<1>1. /\ DOMAIN s = 1..Len(s)
      /\ DOMAIN Append(s, e) = 1..(Len(s) + 1)
      /\ Len(s) \in Nat
  OBVIOUS
<1>2. \A i \in 1..Len(s) : Append(s, e)[i] = s[i]
  OBVIOUS
<1>3. Append(s, e)[Len(s) + 1] = e
  OBVIOUS
<1>4. 1..(Len(s) + 1) = 1..Len(s) \union {Len(s) + 1}
  BY <1>1
<1> QED
  BY <1>1, <1>2, <1>3, <1>4 DEF Range

LEMMA RangeOfTail ==
    ASSUME NEW S, NEW s \in Seq(S), s # <<>>
    PROVE  Head(s) \in S /\ Range(s) = {Head(s)} \union Range(Tail(s))
<1>1. /\ Len(s) \in Nat \ {0}
      /\ DOMAIN s = 1..Len(s)
      /\ DOMAIN Tail(s) = 1..(Len(s) - 1)
      /\ Head(s) = s[1]
  OBVIOUS
<1>2. \A i \in 1..(Len(s) - 1) : Tail(s)[i] = s[i + 1]
  OBVIOUS
<1>3. \A i \in 1..Len(s) : i = 1 \/ (i - 1 \in 1..(Len(s) - 1) /\ (i - 1) + 1 = i)
  BY <1>1
<1>4. \A i \in 1..(Len(s) - 1) : i + 1 \in 1..Len(s)
  BY <1>1
<1>5. Range(s) \subseteq {Head(s)} \union Range(Tail(s))
  <2> SUFFICES ASSUME NEW i \in 1..Len(s)
               PROVE  s[i] = Head(s) \/ s[i] \in Range(Tail(s))
    BY <1>1 DEF Range
  <2>1. CASE i = 1
    BY <1>1, <2>1
  <2>2. CASE i - 1 \in 1..(Len(s) - 1) /\ (i - 1) + 1 = i
    <3>1. Tail(s)[i - 1] = s[i]
      BY <1>2, <2>2
    <3> QED
      BY <1>1, <2>2, <3>1 DEF Range
  <2> QED
    BY <1>3, <2>1, <2>2
<1>6. {Head(s)} \union Range(Tail(s)) \subseteq Range(s)
  BY <1>1, <1>2, <1>4 DEF Range
<1> QED
  BY <1>1, <1>5, <1>6

LEMMA RangeOfEmpty == ASSUME NEW s, s = <<>> PROVE Range(s) = {}
BY DEF Range

\* A step that leaves what AtomicReload sees alone is a stuttering step.
LEMMA Unseen ==
    ASSUME UNCHANGED <<source, settings, floor, onReload, heard>>,
           \A u \in Threads : Request(u)' = Request(u) /\ Owed(u)' = Owed(u)
    PROVE  UNCHANGED Atomic!vars
BY DEF Atomic!vars

LEMMA RefinementInit == Init => Atomic!Init
BY RangeOfEmpty DEF Init, Atomic!Init, Request, Owed, Providers

LEMMA RefinementStep ==
    ASSUME IInv, IInv', [Next]_vars
    PROVE  Atomic!Next \/ UNCHANGED Atomic!vars
<1> USE DEF Goto
<1>0. TypeOK /\ OpMatchesPhase
  BY DEF IInv
<1>1. CASE UNCHANGED vars
  BY <1>1 DEF vars, Atomic!vars, Request, Owed
<1>2. ASSUME NEW p \in Providers, SourceChange(p) PROVE Atomic!Next
  <2>1. Atomic!Change(p)
    BY <1>2 DEF SourceChange, Atomic!Change, Request, Owed
  <2> QED
    BY <2>1 DEF Atomic!Next
<1>3. ASSUME NEW p \in Providers, PollStore(p) PROVE UNCHANGED Atomic!vars
  BY <1>3, Unseen DEF PollStore, Request, Owed
<1>4. ASSUME NEW t \in Threads, ThreadStep(t)
      PROVE  Atomic!Next \/ UNCHANGED Atomic!vars
  <2>1. ASSUME NEW call \in Loads, Call(t, call) PROVE Atomic!Ask(t)
    BY <1>0, <2>1 DEF Call, Atomic!Ask, Request, Owed, TypeOK, Loads
  <2>2. ASSUME NEW call \in Calls \ Loads, Call(t, call)
        PROVE  UNCHANGED Atomic!vars
    BY <1>0, <2>2, Unseen DEF Call, Request, Owed, TypeOK
  <2>3. CASE Announce(t) \/ Drain(t) \/ RLock(t) \/ RUnlock(t)
    BY <1>0, <2>3, Unseen DEF Announce, Drain, RLock, RUnlock, Request, Owed,
                              TypeOK, OpMatchesPhase, Calls, Loads
  <2>4. CASE LoadFresh(t) \/ LoadCached(t)
    BY <2>4, Unseen DEF LoadFresh, LoadCached, Request, Owed
  <2>5. CASE LoadFail(t)
    <3>1. Atomic!Refuse(t)
      BY <1>0, <2>5 DEF LoadFail, Atomic!Refuse, Request, Owed, TypeOK,
                        OpMatchesPhase
    <3> QED
      BY <3>1 DEF Atomic!Next
  <2>6. CASE Publish(t)
    <3>1. Atomic!Publish(t)
      BY <1>0, <2>6 DEF IInv, TypeOK, Publish, Collected, Atomic!Publish,
                        Atomic!Direct, Direct, Providers
    <3>2. op[t] \in Loads
      BY <2>6 DEF Publish, IInv, OpMatchesPhase
    <3>3. CASE op[t] = "reload"
      <4>1. Atomic!ServeReload(t)
        BY <1>0, <2>6, <3>1, <3>3 DEF Publish, Atomic!ServeReload, Request, Owed,
                                 TypeOK, Loads
      <4> QED
        BY <4>1 DEF Atomic!Next
    <3>4. CASE op[t] # "reload"
      <4>1. Atomic!ServeLoad(t)
        BY <1>0, <2>6, <3>1, <3>2, <3>4 DEF Publish, Atomic!ServeLoad, Request,
                                 Owed, TypeOK, Loads
      <4> QED
        BY <4>1 DEF Atomic!Next
    <3> QED
      BY <3>3, <3>4
  <2>7. CASE Snapshot(t)
    BY <1>0, <2>7, Unseen DEF Snapshot, Request, Owed, TypeOK
  <2>8. CASE RunCallback(t)
    <3>1. /\ Head(todo[t]) \in Callbacks
          /\ Range(todo[t]) = {Head(todo[t])} \union Range(todo'[t])
      BY <1>0, <2>8, RangeOfTail DEF RunCallback, TypeOK
    <3>2. \A u \in Threads : Request(u)' = Request(u)
      BY <2>8 DEF RunCallback, Request
    <3>3. \A u \in Threads \ {t} : Owed(u)' = Owed(u)
      BY <1>0, <2>8 DEF RunCallback, Owed, TypeOK
    <3>4. Owed(t) = Range(todo[t]) /\ Owed(t)' = Range(todo'[t])
      BY <2>8 DEF RunCallback, Owed
    <3>5. Head(todo[t]) \in Owed(t) /\ Request(t) = "served"
      BY <2>8, <3>1, <3>4 DEF RunCallback, Request
    <3>6. \/ Owed(t)' = Owed(t)
          \/ Owed(t)' = Owed(t) \ {Head(todo[t])}
      BY <3>1, <3>4
    <3>7. Atomic!Notify(t, Head(todo[t]))
      <4> DEFINE owed == [u \in Threads |-> Owed(u)]
                 owedNext == [u \in Threads |-> Owed(u)']
      <4>1. owedNext \in {owed, [owed EXCEPT ![t] = @ \ {Head(todo[t])}]}
        BY <3>3, <3>6
      <4> QED
        BY <2>8, <3>2, <3>5, <4>1 DEF RunCallback, Atomic!Notify
    <3> QED
      BY <3>1, <3>7 DEF Atomic!Next
  <2>9. CASE Return(t)
    <3>1. Atomic!Return(t)
      BY <1>0, <2>9, RangeOfEmpty DEF Return, Atomic!Return, Request, Owed, TypeOK
    <3> QED
      BY <3>1 DEF Atomic!Next
  <2>10. CASE AppendCallback(t)
    <3>1. PICK cb \in Callbacks : onReload' = Append(onReload, cb)
      BY <2>10 DEF AppendCallback
    <3>2. Range(onReload)' = Range(onReload) \union {cb}
      BY <1>0, <3>1, RangeOfAppend DEF TypeOK
    <3> DEFINE joined == {u \in Threads : pc[u] = "snap"}
    <3>3. \A u \in Threads : Request(u)' = Request(u)
      BY <1>0, <2>10 DEF AppendCallback, Request, TypeOK, OpMatchesPhase, Loads
    <3>4. \A u \in Threads : Owed(u)' = IF u \in joined THEN Owed(u) \union {cb}
                                        ELSE Owed(u)
      BY <1>0, <2>10, <3>2 DEF AppendCallback, Owed, TypeOK
    <3>5. joined \in SUBSET {u \in Threads : Request(u) = "served"}
      BY DEF Request
    <3>6. Atomic!Register(cb)
      BY <2>10, <3>2, <3>3, <3>4, <3>5 DEF AppendCallback, Atomic!Register
    <3> QED
      BY <3>6 DEF Atomic!Next
  <2> QED
    BY <1>4, <2>1, <2>2, <2>3, <2>4, <2>5, <2>6, <2>7, <2>8, <2>9, <2>10
    DEF ThreadStep, Atomic!Next
<1> QED
  BY <1>1, <1>2, <1>3, <1>4 DEF Next

\* The ConfigLoader implements AtomicReload: every load takes effect at one
\* instant inside its call, and a reload returns only after every callback
\* registered when it published has run.
THEOREM Refinement == Spec => ImplementsAtomicReload
<1>1. IInv /\ IInv' /\ [Next]_vars => [Atomic!Next]_(Atomic!vars)
  BY RefinementStep
<1> QED
  BY <1>1, RefinementInit, Invariant, PTL
  DEF Spec, ImplementsAtomicReload, Atomic!Spec
=============================================================================
