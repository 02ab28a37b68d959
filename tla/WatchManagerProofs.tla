------------------------- MODULE WatchManagerProofs -------------------------
(***************************************************************************)
(* Proofs about WatchManager, for any number of providers and callbacks,   *)
(* any size of the channel and any number of changes.  WatchInv is         *)
(* inductive under Spec, UndisturbedInv under UndisturbedSpec.             *)
(***************************************************************************)
EXTENDS WatchManager, SequenceTheorems, TLAPS

USE NAssumption, CachingAssumption, CapacityAssumption, MaxVersionAssumption
USE DEF Alive, Enqueue, ToldToEnd, Handled, AfterFailedReload, Tell, Leave, Cancel

\* The values of an event, and of the providers' numbers.
LEMMA EventFacts ==
    /\ ZeroEvent \in Event
    /\ \A p \in Providers, t \in Types, v \in Versions :
          [from |-> p, type |-> t, ver |-> v] \in Event
    /\ \A e \in Event : /\ e.from \in Providers \union {NoProvider}
                        /\ e.type \in Types /\ e.ver \in Versions
    /\ ZeroEvent.from = NoProvider /\ NoProvider \notin Providers
    /\ Nothing \in [Providers -> Versions] /\ \A p \in Providers : Nothing[p] = 0
    /\ 0 \in Versions /\ 1 \in Versions /\ Versions \subseteq Nat
    /\ 1 \in 1..(N + 1) /\ Caching \subseteq Providers /\ Providers \subseteq 1..(N + 1)
    /\ "changed" \in Types /\ "error" \in Types
BY DEF Event, ZeroEvent, Types, Versions, Providers, NoProvider, Nothing

\* What a goroutine holds of its source is a report.
LEMMA ChangeFacts ==
    ASSUME TypeOK, NEW p \in Providers
    PROVE  Change(p) \in Event /\ IsReport(Change(p), p) /\ Change(p).ver = source[p]
BY EventFacts DEF TypeOK, Change, IsReport

LEMMA WatchTypeInit == Init => TypeOK
<1> SUFFICES ASSUME Init PROVE TypeOK
  OBVIOUS
<1>1. events \in Seq(Event) /\ Len(events) <= Capacity
  BY EmptySeq DEF Init
<1> QED
  BY <1>1, EventFacts DEF Init, TypeOK

\* What Append, Head and Tail make of the channel.
LEMMA ChannelFacts ==
    ASSUME TypeOK
    PROVE  /\ Len(events) \in Nat /\ DOMAIN events = 1..Len(events)
           /\ \A i \in DOMAIN events : events[i] \in Event
           /\ \A e \in Event :
                 /\ Append(events, e) \in Seq(Event)
                 /\ Len(Append(events, e)) = Len(events) + 1
                 /\ DOMAIN Append(events, e) = 1..(Len(events) + 1)
                 /\ Append(events, e)[Len(events) + 1] = e
                 /\ \A i \in DOMAIN events : Append(events, e)[i] = events[i]
           /\ events # <<>> =>
                 /\ 1 \in DOMAIN events /\ Head(events) = events[1]
                 /\ Tail(events) \in Seq(Event)
                 /\ Len(Tail(events)) = Len(events) - 1
                 /\ DOMAIN Tail(events) = 1..(Len(events) - 1)
                 /\ \A i \in DOMAIN Tail(events) : i + 1 \in DOMAIN events
                                                  /\ Tail(events)[i] = events[i + 1]
<1>1. events \in Seq(Event)
  BY DEF TypeOK
<1>2. Len(events) \in Nat /\ DOMAIN events = 1..Len(events)
      /\ \A i \in DOMAIN events : events[i] \in Event
  BY <1>1, LenProperties, ElementOfSeq
<1>3. ASSUME NEW e \in Event
      PROVE  /\ Append(events, e) \in Seq(Event)
             /\ Len(Append(events, e)) = Len(events) + 1
             /\ DOMAIN Append(events, e) = 1..(Len(events) + 1)
             /\ Append(events, e)[Len(events) + 1] = e
             /\ \A i \in DOMAIN events : Append(events, e)[i] = events[i]
  BY <1>1, <1>2, AppendProperties, LenProperties
<1>4. ASSUME events # <<>>
      PROVE  /\ 1 \in DOMAIN events /\ Head(events) = events[1]
             /\ Tail(events) \in Seq(Event)
             /\ Len(Tail(events)) = Len(events) - 1
             /\ DOMAIN Tail(events) = 1..(Len(events) - 1)
             /\ \A i \in DOMAIN Tail(events) : i + 1 \in DOMAIN events
                                              /\ Tail(events)[i] = events[i + 1]
  <2>1. Len(events) > 0 /\ Head(events) = events[1]
    BY <1>1, <1>2, <1>4, EmptySeq
  <2>2. /\ Tail(events) \in Seq(Event) /\ Len(Tail(events)) = Len(events) - 1
        /\ \A i \in 1..Len(Tail(events)) : Tail(events)[i] = events[i + 1]
    BY <1>1, <1>4, HeadTailProperties
  <2>3. DOMAIN Tail(events) = 1..(Len(events) - 1)
    BY <2>2, LenProperties
  <2> QED
    BY <1>2, <2>1, <2>2, <2>3
<1> QED
  BY <1>2, <1>3, <1>4

-----------------------------------------------------------------------------
(* Type correctness.                                                       *)

\* Every step keeps the types.
LEMMA WatchTypeStep ==
    ASSUME TypeOK, [Next]_vars
    PROVE  TypeOK'
<1> USE EventFacts DEF TypeOK, sourceVars, watchVars, chanVars, stopVars, mainVars, procVars,
                       loadVars, settingsVars, callbackVars
<1>1. CASE UNCHANGED vars
  BY <1>1 DEF vars
<1>2. CASE StartCall
  BY <1>2 DEF StartCall
<1>3. CASE WatchProvider
  <2>1. next + 1 \in 1..(N + 1)
    BY <1>3 DEF WatchProvider, Providers
  <2> QED
    BY SMTT(40), <1>3, <2>1 DEF WatchProvider
<1>4. CASE WatchFails
  <2>1. next + 1 \in 1..(N + 1)
    BY <1>4 DEF WatchFails, Providers
  <2> QED
    BY SMTT(40), <1>4, <2>1 DEF WatchFails
<1>5. CASE StartReturn
  BY <1>5 DEF StartReturn
<1>6. ASSUME NEW cb \in Callbacks, OnChange(cb) PROVE TypeOK'
  BY <1>6 DEF OnChange
<1>7. ASSUME NEW p \in Providers, SourceChange(p) PROVE TypeOK'
  <2>1. source' \in [Providers -> Versions]
    BY <1>7 DEF SourceChange, Versions
  <2>2. queued' \in [Providers -> Nat]
    BY SMTT(40), <1>7 DEF SourceChange, Noted
  <2> QED
    BY SMTT(40), <1>7, <2>1, <2>2 DEF SourceChange
<1>8. ASSUME NEW p \in Providers, TakeEvent(p) PROVE TypeOK'
  <2>1. queued' \in [Providers -> Nat]
    BY <1>8 DEF TakeEvent
  <2>2. out' \in [Providers -> Event]
    BY <1>8, ChangeFacts DEF TakeEvent, Hold
  <2> QED
    BY SMTT(40), <1>8, <2>1, <2>2 DEF TakeEvent, Hold
<1>9. ASSUME NEW p \in Providers, PollRead(p) PROVE TypeOK'
  <2>1. out' \in [Providers -> Event]
    BY <1>9, ChangeFacts DEF PollRead, Hold
  <2> QED
    BY ZenonT(60), <1>9, <2>1 DEF PollRead, Hold
<1>10. ASSUME NEW p \in Providers, PollCompare(p) PROVE TypeOK'
  <2>1. out' \in [Providers -> Event] /\ gor' \in [Providers -> {"none", "select", "compare", "store", "send", "done"}]
    BY <1>10 DEF PollCompare, Hold
  <2> QED
    BY SMTT(40), <1>10, <2>1 DEF PollCompare, Hold
<1>11. ASSUME NEW p \in Providers, PollStore(p) PROVE TypeOK'
  BY SMTT(40), <1>11 DEF PollStore, Hold
<1>12. ASSUME NEW p \in Providers, WatchError(p) PROVE TypeOK'
  <2>1. out' \in [Providers -> Event]
    BY <1>12 DEF WatchError, Hold
  <2> QED
    BY SMTT(40), <1>12, <2>1 DEF WatchError, Hold
<1>13. ASSUME NEW p \in Providers, Send(p) PROVE TypeOK'
  <2>1. events' \in Seq(Event) /\ Len(events') <= Capacity
    BY <1>13, ChannelFacts DEF Send
  <2>2. out' \in [Providers -> Event]
    BY <1>13 DEF Send, Hold
  <2> QED
    BY SMTT(40), <1>13, <2>1, <2>2 DEF Send, Hold
<1>14. ASSUME NEW p \in Providers, SendPanics(p) PROVE TypeOK'
  BY <1>14 DEF SendPanics
<1>15. ASSUME NEW p \in Providers, WatchExit(p) PROVE TypeOK'
  BY SMTT(40), <1>15 DEF WatchExit
<1>16. CASE Receive
  <2>1. events' \in Seq(Event) /\ Len(events') <= Capacity /\ cur' \in Event
    BY <1>16, ChannelFacts DEF Receive, Handle
  <2> QED
    BY <1>16, <2>1 DEF Receive, Handle
<1>17. CASE ReceiveZero
  BY <1>17 DEF ReceiveZero, Handle
<1>18. CASE HandleError
  BY <1>18 DEF HandleError
<1>19. CASE Dispatch
  BY <1>19 DEF Dispatch
<1>20. ASSUME NEW cb \in Callbacks, RunCallback(cb) PROVE TypeOK'
  BY <1>20 DEF RunCallback
<1>21. CASE CallbacksDone
  BY <1>21 DEF CallbacksDone
<1>22. CASE ProcessExit
  BY <1>22 DEF ProcessExit
<1>23. CASE TakeLock
  BY <1>23 DEF TakeLock
<1>24. CASE OtherReload
  BY <1>24 DEF OtherReload
<1>25. CASE LoadRead
  <2>1. turn + 1 \in 1..(N + 1)
    BY <1>25 DEF LoadRead, LoadAt, Providers
  <2> QED
    BY ZenonT(60), <1>25, <2>1 DEF LoadRead, LoadAt, Answer
<1>26. CASE LoadStore
  <2>1. turn + 1 \in 1..(N + 1)
    BY <1>26 DEF LoadStore, LoadAt, Providers
  <2> QED
    BY SMTT(40), <1>26, <2>1 DEF LoadStore, LoadAt
<1>27. CASE LoadFallback
  <2>1. turn + 1 \in 1..(N + 1)
    BY <1>27 DEF LoadFallback, LoadAt, Providers
  <2> QED
    BY <1>27, <2>1 DEF LoadFallback, LoadAt, Answer
<1>28. CASE ReloadFails
  BY <1>28 DEF ReloadFails, LoadEnds
<1>29. CASE LoadDone
  BY <1>29 DEF LoadDone, LoadEnds
<1>30. CASE CancelParent
  BY <1>30 DEF CancelParent
<1>31. CASE StopCall
  BY ZenonT(60), <1>31 DEF StopCall
<1>32. CASE StopProvider
  <2>1. next + 1 \in 1..(N + 1)
    BY <1>32 DEF StopProvider, Providers
  <2> QED
    BY <1>32, <2>1 DEF StopProvider
<1>33. CASE StopClose
  BY <1>33 DEF StopClose
<1> QED
  BY <1>1, <1>2, <1>3, <1>4, <1>5, <1>6, <1>7, <1>8, <1>9, <1>10, <1>11, <1>12, <1>13, <1>14, <1>15, <1>16, <1>17, <1>18, <1>19, <1>20, <1>21, <1>22, <1>23, <1>24, <1>25, <1>26, <1>27, <1>28, <1>29, <1>30, <1>31, <1>32, <1>33 DEF Next, Progress, Failure

\* Every variable of the watch manager, its channel, its providers and the Load
\* under way keeps its type; the channel never holds more than its capacity.
THEOREM WatchTypeCorrect == Spec => []TypeOK
BY WatchTypeInit, WatchTypeStep, PTL DEF Spec
-----------------------------------------------------------------------------
(* Which step changes what.                                                *)

ProcStep ==
    \/ StartReturn \/ Receive \/ ReceiveZero \/ HandleError \/ ProcessExit
    \/ Dispatch \/ CallbacksDone \/ \E cb \in Callbacks : RunCallback(cb)

LoaderStep ==
    \/ TakeLock \/ OtherReload
    \/ LoadRead \/ LoadStore \/ LoadFallback \/ ReloadFails \/ LoadDone

LEMMA WatchFrame ==
    ASSUME [Next]_vars
    PROVE  /\ UNCHANGED <<main, stopOnce, closed>>
              \/ StartCall \/ StartReturn \/ StopCall \/ StopClose
           /\ UNCHANGED panicked \/ \E p \in Providers : SendPanics(p)
           /\ UNCHANGED events \/ Receive \/ \E p \in Providers : Send(p)
           /\ UNCHANGED <<proc, cur, todo>> \/ ProcStep \/ ReloadFails \/ LoadDone
           /\ UNCHANGED loadVars \/ LoaderStep
           /\ UNCHANGED settingsVars \/ LoadDone
           /\ UNCHANGED cache \/ LoadStore \/ \E p \in Providers : PollStore(p)
           /\ UNCHANGED <<gor, out>> \/ WatchProvider
              \/ \E p \in Providers : TakeEvent(p) \/ PollRead(p) \/ PollCompare(p)
                    \/ PollStore(p) \/ WatchError(p) \/ Send(p) \/ WatchExit(p)
           /\ UNCHANGED source \/ \E p \in Providers : SourceChange(p)
<1> USE DEF sourceVars, watchVars, chanVars, stopVars, mainVars, procVars, loadVars,
            settingsVars, callbackVars, ProcStep, LoaderStep
<1>1. CASE UNCHANGED vars
  BY <1>1 DEF vars
<1>2. CASE StartCall \/ WatchProvider \/ WatchFails \/ StartReturn
  BY <1>2 DEF StartCall, WatchProvider, WatchFails, StartReturn
<1>3. ASSUME NEW p \in Providers, SourceChange(p) \/ TakeEvent(p) \/ PollRead(p) \/ PollCompare(p)
      PROVE  /\ UNCHANGED <<main, stopOnce, closed, panicked, events, proc, cur, todo, loadVars,
                            settingsVars, cache>>
             /\ UNCHANGED <<gor, out>> \/ TakeEvent(p) \/ PollRead(p) \/ PollCompare(p)
             /\ UNCHANGED source \/ SourceChange(p)
  BY <1>3 DEF SourceChange, TakeEvent, PollRead, PollCompare
<1>4. ASSUME NEW p \in Providers, PollStore(p) \/ WatchError(p) \/ Send(p)
      PROVE  /\ UNCHANGED <<main, stopOnce, closed, panicked, proc, cur, todo, loadVars,
                            settingsVars, source>>
             /\ UNCHANGED events \/ Send(p)
             /\ UNCHANGED cache \/ PollStore(p)
  BY <1>4 DEF PollStore, WatchError, Send
<1>5. ASSUME NEW p \in Providers, SendPanics(p) \/ WatchExit(p)
      PROVE  /\ UNCHANGED <<main, stopOnce, closed, events, proc, cur, todo, loadVars,
                            settingsVars, source, cache>>
             /\ UNCHANGED panicked \/ SendPanics(p)
             /\ UNCHANGED <<gor, out>> \/ WatchExit(p)
  BY <1>5 DEF SendPanics, WatchExit
<1>6. ASSUME NEW cb \in Callbacks, OnChange(cb) \/ RunCallback(cb)
      PROVE  /\ UNCHANGED <<sourceVars, cache, watchVars, chanVars, stopVars, mainVars, loadVars,
                            settingsVars, panicked>>
             /\ UNCHANGED <<proc, cur, todo>> \/ RunCallback(cb)
  BY <1>6 DEF OnChange, RunCallback
<1>7. CASE Receive \/ ReceiveZero \/ HandleError \/ Dispatch \/ CallbacksDone \/ ProcessExit
  BY <1>7 DEF Receive, ReceiveZero, HandleError, Dispatch, CallbacksDone, ProcessExit
<1>8. CASE TakeLock \/ OtherReload \/ LoadRead \/ LoadStore
  BY <1>8 DEF TakeLock, OtherReload, LoadRead, LoadStore
<1>9. CASE LoadFallback \/ ReloadFails \/ LoadDone
  BY <1>9 DEF LoadFallback, ReloadFails, LoadDone
<1>10. CASE CancelParent \/ StopCall \/ StopProvider \/ StopClose
  BY <1>10 DEF CancelParent, StopCall, StopProvider, StopClose
<1> HIDE DEF ProcStep, LoaderStep
<1>11. /\ StartReturn \/ Receive \/ ReceiveZero \/ HandleError \/ Dispatch \/ CallbacksDone
             \/ ProcessExit \/ (\E cb \in Callbacks : RunCallback(cb)) => ProcStep
       /\ TakeLock \/ OtherReload \/ LoadRead \/ LoadStore \/ LoadFallback \/ ReloadFails
             \/ LoadDone => LoaderStep
  BY DEF ProcStep, LoaderStep
<1> QED
  BY <1>1, <1>2, <1>3, <1>4, <1>5, <1>6, <1>7, <1>8, <1>9, <1>10, <1>11
     DEF Next, Progress, Failure

\* What a step makes of one provider's goroutine and of what it has in hand.
LEMMA GoroutineFrame ==
    ASSUME TypeOK, [Next]_vars, NEW p \in Providers
    PROVE  \/ gor'[p] = gor[p] /\ out'[p] = out[p]
           \/ WatchProvider /\ next = p /\ gor'[p] = "select" /\ out'[p] = out[p]
           \/ TakeEvent(p) /\ gor[p] = "select" /\ gor'[p] = "send" /\ out'[p] = Change(p)
           \/ PollRead(p) /\ gor[p] = "select" /\ gor'[p] = "compare" /\ out'[p] = Change(p)
           \/ PollCompare(p) /\ gor[p] = "compare" /\ gor'[p] = "select" /\ out'[p] = ZeroEvent
           \/ PollCompare(p) /\ gor[p] = "compare" /\ gor'[p] = "store" /\ out'[p] = out[p]
           \/ PollStore(p) /\ gor[p] = "store" /\ gor'[p] = "send" /\ out'[p] = out[p]
           \/ WatchError(p) /\ gor[p] = "select" /\ gor'[p] = "send"
                 /\ out'[p] = [from |-> p, type |-> "error", ver |-> 0]
           \/ Send(p) /\ gor[p] = "send" /\ gor'[p] = "select" /\ out'[p] = ZeroEvent
           \/ WatchExit(p) /\ gor[p] = "select" /\ gor'[p] = "done" /\ out'[p] = out[p]
<1> DEFINE Kept == gor'[p] = gor[p] /\ out'[p] = out[p]
<1>0. /\ gor \in [Providers -> {"none", "select", "compare", "store", "send", "done"}]
      /\ out \in [Providers -> Event]
  BY DEF TypeOK
<1>1. ASSUME NEW q \in Providers, q # p,
             TakeEvent(q) \/ PollRead(q) \/ PollCompare(q) \/ PollStore(q)
             \/ WatchError(q) \/ Send(q) \/ WatchExit(q)
      PROVE  Kept
  <2>1. CASE WatchExit(q)
    BY <1>0, <1>1, <2>1 DEF WatchExit
  <2>2. CASE TakeEvent(q) \/ PollRead(q) \/ PollCompare(q) \/ PollStore(q) \/ WatchError(q)
             \/ Send(q)
    <3>1. \E where, event : Hold(q, where, event)
      BY <2>2 DEF TakeEvent, PollRead, PollCompare, PollStore, WatchError, Send
    <3>2. PICK where, event : gor' = [gor EXCEPT ![q] = where] /\ out' = [out EXCEPT ![q] = event]
      BY <3>1 DEF Hold
    <3> QED
      BY <1>0, <1>1, <3>2
  <2> QED
    BY <1>1, <2>1, <2>2
<1>2. WatchProvider => \/ Kept
                       \/ next = p /\ gor'[p] = "select" /\ out'[p] = out[p]
  BY <1>0 DEF WatchProvider
<1>3. /\ TakeEvent(p) => gor[p] = "select" /\ gor'[p] = "send" /\ out'[p] = Change(p)
      /\ PollRead(p) => gor[p] = "select" /\ gor'[p] = "compare" /\ out'[p] = Change(p)
      /\ PollStore(p) => gor[p] = "store" /\ gor'[p] = "send" /\ out'[p] = out[p]
      /\ Send(p) => gor[p] = "send" /\ gor'[p] = "select" /\ out'[p] = ZeroEvent
      /\ WatchExit(p) => gor[p] = "select" /\ gor'[p] = "done" /\ out'[p] = out[p]
  BY <1>0 DEF TakeEvent, PollRead, PollStore, Send, WatchExit, Hold, watchVars
<1>4. PollCompare(p) => /\ gor[p] = "compare"
                        /\ \/ gor'[p] = "select" /\ out'[p] = ZeroEvent
                           \/ gor'[p] = "store" /\ out'[p] = out[p]
  BY <1>0 DEF PollCompare, Hold
<1>5. WatchError(p) => /\ gor[p] = "select" /\ gor'[p] = "send"
                       /\ out'[p] = [from |-> p, type |-> "error", ver |-> 0]
  BY <1>0 DEF WatchError, Hold
<1>6. CASE UNCHANGED <<gor, out>>
  BY <1>6
<1> QED
  BY <1>1, <1>2, <1>3, <1>4, <1>5, <1>6, WatchFrame

\* What a step makes of processEvents and of the event it handles.
LEMMA ProcessFrame ==
    ASSUME [Next]_vars
    PROVE  \/ UNCHANGED <<proc, cur, todo>>
           \/ StartReturn /\ proc' = "select" /\ UNCHANGED <<cur, todo>>
           \/ Receive /\ proc = "select" /\ proc' = "handle" /\ cur' = Head(events) /\ todo' = todo
           \/ ReceiveZero /\ proc = "select" /\ proc' = "handle" /\ closed /\ cur' = ZeroEvent
                 /\ todo' = todo
           \/ HandleError /\ proc = "handle" /\ cur.type = "error" /\ proc' = "select"
                 /\ cur' = ZeroEvent /\ todo' = todo
           \/ Dispatch /\ proc = "dispatch" /\ proc' = "run" /\ cur' = cur
           \/ proc = "run" /\ proc' = "run" /\ cur' = cur
                 /\ lock = "free" /\ \E cb \in Callbacks : RunCallback(cb)
           \/ CallbacksDone /\ proc = "run" /\ proc' = "select" /\ cur' = ZeroEvent
                 /\ todo = {} /\ todo' = {}
           \/ ProcessExit /\ proc = "select" /\ proc' = "done" /\ UNCHANGED <<cur, todo>>
           \/ ReloadFails /\ lock = "events" /\ lock' = "free" /\ proc' = "select"
                 /\ cur' = ZeroEvent /\ todo' = todo
           \/ LoadDone /\ lock = "events" /\ lock' = "free" /\ proc' = "dispatch"
                 /\ UNCHANGED <<cur, todo>>
<1>1. CASE ProcStep
  BY <1>1 DEF ProcStep, StartReturn, Receive, ReceiveZero, HandleError, ProcessExit, Dispatch,
     CallbacksDone, RunCallback, Handle, chanVars
<1>2. CASE ReloadFails
  BY <1>2 DEF ReloadFails, LoadEnds
<1>3. CASE LoadDone
  BY <1>3 DEF LoadDone, LoadEnds
<1> QED
  BY <1>1, <1>2, <1>3, WatchFrame

\* What a step makes of the Load under way and of the settings.
LEMMA LoadFrame ==
    ASSUME [Next]_vars
    PROVE  \/ UNCHANGED <<loadVars, settingsVars>>
           \/ /\ TakeLock \/ OtherReload
              /\ lock = "free" /\ lock' = (IF TakeLock THEN "events" ELSE "other")
              /\ TakeLock => proc = "handle" /\ cur.type = "changed"
              /\ UNCHANGED <<turn, phase, got, missed, settingsVars, cache, source, proc, cur, todo>>
           \/ /\ LoadRead /\ LoadAt("read")
              /\ got' = [got EXCEPT ![turn] = source[turn]]
              /\ \/ turn \in Caching /\ phase' = "store" /\ turn' = turn
                 \/ turn \notin Caching /\ phase' = "read" /\ turn' = turn + 1
              /\ UNCHANGED <<lock, missed, settingsVars, cache, source, proc, cur, todo>>
           \/ /\ LoadStore /\ LoadAt("store")
              /\ phase' = "read" /\ turn' = turn + 1
              /\ cache' = [cache EXCEPT ![turn] = got[turn]]
              /\ UNCHANGED <<lock, got, missed, settingsVars, source, proc, cur, todo>>
           \/ /\ LoadFallback /\ LoadAt("read") /\ turn \in Caching
              /\ phase' = "read" /\ turn' = turn + 1
              /\ got' = [got EXCEPT ![turn] = cache[turn]] /\ missed' = missed \union {turn}
              /\ UNCHANGED <<lock, settingsVars, cache, source, proc, cur, todo>>
           \/ /\ ReloadFails /\ LoadAt("read") /\ turn \notin Caching
              /\ LoadEnds /\ UNCHANGED <<settingsVars, cache, source>>
           \/ /\ LoadDone /\ lock # "free" /\ turn = N + 1
              /\ LoadEnds /\ loaded' = got /\ stale' = missed
              /\ UNCHANGED <<cache, source>>
<1>1. CASE LoaderStep
  <2> USE DEF sourceVars, procVars, settingsVars
  <2>1. CASE TakeLock \/ OtherReload
    BY <2>1 DEF TakeLock, OtherReload
  <2>2. CASE LoadRead
    BY <2>2 DEF LoadRead, LoadAt, Answer
  <2>3. CASE LoadStore
    BY <2>3 DEF LoadStore, LoadAt
  <2>4. CASE LoadFallback
    BY <2>4 DEF LoadFallback, LoadAt, Answer
  <2>5. CASE ReloadFails
    BY <2>5 DEF ReloadFails
  <2>6. CASE LoadDone
    BY <2>6 DEF LoadDone
  <2> QED
    BY <1>1, <2>1, <2>2, <2>3, <2>4, <2>5, <2>6 DEF LoaderStep
<1> QED
  BY <1>1, WatchFrame DEF LoaderStep

-----------------------------------------------------------------------------
(* The end of the channel.                                                 *)

\* Start and Stop: the channel closes once, at the end of the one Stop.
LEMMA CloseStep ==
    ASSUME OnlyStopCloses, [Next]_vars
    PROVE  /\ main' = "stopping" => stopOnce'
           /\ closed' => stopOnce' /\ main' # "stopping"
           /\ closed => closed'
           /\ panicked' => closed'
<1> USE DEF OnlyStopCloses, chanVars, stopVars, mainVars, Started
<1>1. CASE UNCHANGED <<main, stopOnce, closed>>
  <2>1. panicked' => closed
    BY WatchFrame DEF SendPanics
  <2> QED
    BY <1>1, <2>1
<1>2. CASE StartCall \/ StartReturn \/ StopCall \/ StopClose
  BY <1>2 DEF StartCall, StartReturn, StopCall, StopClose
<1> QED
  BY <1>1, <1>2, WatchFrame

\* A goroutine starts once and never stands before its start again.
LEMMA NoneBefore ==
    ASSUME TypeOK, [Next]_vars, NEW p \in Providers
    PROVE  /\ gor'[p] = "none" => gor[p] = "none" /\ (WatchProvider => p # next)
           /\ gor[p] = "none" => gor'[p] = "none" \/ (WatchProvider /\ p = next)
           /\ gor[p] = "none" => out'[p] = out[p]
<1>1. WatchProvider => (p = next => gor'[p] = "select")
  BY DEF WatchProvider, TypeOK
<1> QED
  BY <1>1, GoroutineFrame

\* What a goroutine has in hand is its provider's.
LEMMA HoldingStep ==
    ASSUME TypeOK, OnlyStopCloses, WatchedOnce, [Next]_vars, NEW p \in Providers
    PROVE  /\ IF gor'[p] \in Holding THEN out'[p].from = p ELSE out'[p] = ZeroEvent
           /\ gor'[p] \in {"compare", "store"} => p \in Caching /\ IsReport(out'[p], p)
<1> USE DEF Holding
<1>1. /\ IF gor[p] \in Holding THEN out[p].from = p ELSE out[p] = ZeroEvent
      /\ gor[p] \in {"compare", "store"} => p \in Caching /\ IsReport(out[p], p)
      /\ IsReport(Change(p), p) /\ Change(p).from = p
  BY ChangeFacts DEF OnlyStopCloses, IsReport
<1>2. WatchProvider /\ next = p => out[p] = ZeroEvent
  <2>1. WatchProvider /\ next = p => gor[p] = "none"
    BY DEF WatchProvider, WatchedOnce, Providers
  <2> QED
    BY <1>1, <2>1
<1>3. PollRead(p) => p \in Caching
  BY DEF PollRead
<1>4. /\ gor[p] \in Holding => out[p].from = p
      /\ gor[p] \notin Holding => out[p] = ZeroEvent
  BY <1>1
<1>5. /\ gor'[p] \in Holding => out'[p].from = p
      /\ gor'[p] \notin Holding => out'[p] = ZeroEvent
  <2>1. CASE gor'[p] \notin Holding
    BY <1>2, <1>4, <2>1, GoroutineFrame
  <2>2. CASE gor'[p] \in Holding
    <3>1. \/ gor[p] \in Holding /\ out'[p] = out[p]
          \/ out'[p] \in {Change(p), [from |-> p, type |-> "error", ver |-> 0]}
      BY <2>2, GoroutineFrame
    <3> QED
      BY <1>1, <1>4, <2>2, <3>1
  <2> QED
    BY <2>1, <2>2
<1>6. gor'[p] \in {"compare", "store"} => p \in Caching /\ IsReport(out'[p], p)
  BY <1>1, <1>3, GoroutineFrame
<1> QED
  BY <1>5, <1>6

\* Every event is a provider's.
LEMMA FromStep ==
    ASSUME TypeOK, OnlyStopCloses, WatchedOnce, LoadsAreFresh, [Next]_vars
    PROVE  /\ \A i \in DOMAIN events' : events'[i].from # NoProvider
           /\ proc' \in {"handle", "dispatch", "run"} /\ cur'.from = NoProvider =>
                 closed' /\ cur' = ZeroEvent
<1> USE EventFacts DEF OnlyStopCloses
<1>1. \A i \in DOMAIN events' : events'[i].from # NoProvider
  <2>1. CASE Receive
    BY <2>1, ChannelFacts DEF Receive
  <2>2. ASSUME NEW p \in Providers, Send(p)
        PROVE  \A i \in DOMAIN events' : events'[i].from # NoProvider
    <3>1. events' = Append(events, out[p]) /\ out[p] \in Event /\ out[p].from # NoProvider
      BY ZenonT(60), <2>2 DEF Send, TypeOK, Holding
    <3>2. \A i \in DOMAIN events' : i = Len(events) + 1 \/ i \in DOMAIN events
      BY <3>1, ChannelFacts
    <3> QED
      BY <3>1, <3>2, ChannelFacts
  <2> QED
    BY <2>1, <2>2, WatchFrame
<1>2. proc' \in {"handle", "dispatch", "run"} /\ cur'.from = NoProvider =>
         closed' /\ cur' = ZeroEvent
  <2>1. Receive => cur'.from # NoProvider
    BY ChannelFacts DEF Receive, Handle
  <2>2. LoadDone /\ lock = "events" => proc = "handle"
    BY DEF LoadDone, LoadsAreFresh
  <2>3. closed => closed'
    BY CloseStep
  <2> QED
    BY <2>1, <2>2, <2>3, ProcessFrame
<1> QED
  BY <1>1, <1>2

LEMMA OnlyStopStep ==
    ASSUME TypeOK, OnlyStopCloses, WatchedOnce, LoadsAreFresh, [Next]_vars
    PROVE  OnlyStopCloses' /\ OnlyStopDoesHarm'
<1>1. OnlyStopCloses'
  BY CloseStep, FromStep, HoldingStep DEF OnlyStopCloses, IsReport
<1> QED
  BY <1>1 DEF OnlyStopCloses, OnlyStopDoesHarm

-----------------------------------------------------------------------------
(* The versions.                                                           *)

\* A source only advances.
LEMMA SourceGrows ==
    ASSUME TypeOK, [Next]_vars, NEW p \in Providers
    PROVE  source[p] \in Nat /\ source'[p] \in Nat /\ source[p] <= source'[p]
<1>0. source \in [Providers -> Versions] /\ source' \in [Providers -> Versions]
  BY WatchTypeStep DEF TypeOK
<1>1. source'[p] \in {source[p], source[p] + 1}
  BY <1>0, WatchFrame DEF SourceChange
<1>2. source[p] \in Nat /\ source'[p] \in Nat
  BY <1>0, EventFacts
<1> QED
  BY <1>1, <1>2

\* So what is known stays known.
LEMMA KnownStaysKnown ==
    ASSUME TypeOK, [Next]_vars, NEW e \in Event, Known(e)
    PROVE  Known(e)'
<1>1. e.ver \in Nat /\ e.from \in Providers \union {NoProvider}
  BY EventFacts
<1>2. CASE e.from \in Providers
  <2>1. /\ source[e.from] \in Nat /\ source'[e.from] \in Nat
        /\ source[e.from] <= source'[e.from]
    BY <1>2, SourceGrows
  <2> QED
    BY <1>1, <1>2, <2>1, EventFacts DEF Known
<1> QED
  BY <1>1, <1>2 DEF Known

LEMMA InventedStep ==
    ASSUME TypeOK, OnlyStopCloses, NothingInvented, [Next]_vars
    PROVE  NothingInvented'
<1> USE DEF NothingInvented
<1>0. /\ out \in [Providers -> Event] /\ cur \in Event
      /\ source \in [Providers -> Nat] /\ cache \in [Providers -> Nat]
      /\ got \in [Providers -> Nat] /\ loaded \in [Providers -> Nat]
  BY EventFacts DEF TypeOK
<1>1. \A e \in Event : Known(e) => Known(e)'
  BY KnownStaysKnown
<1>2. Known(ZeroEvent)'
  BY EventFacts DEF Known
<1>3. ASSUME NEW p \in Providers PROVE Known(out[p])'
  <2>1. \A q : q \in Providers => source[q] \in Nat /\ source'[q] \in Nat /\ source[q] <= source'[q]
    BY SourceGrows
  <2>2. Known(Change(p))
    BY <2>1, ChangeFacts DEF Known, Change
  <2>3. out'[p] \in {out[p], ZeroEvent, Change(p), [from |-> p, type |-> "error", ver |-> 0]}
    BY GoroutineFrame
  <2>4. CASE out'[p] = [from |-> p, type |-> "error", ver |-> 0]
    BY <2>1, <2>4 DEF Known
  <2>5. CASE out'[p] \in {out[p], Change(p)}
    BY <1>0, <1>1, <2>2, <2>5, ChangeFacts DEF Known
  <2>6. CASE out'[p] = ZeroEvent
    BY <1>2, <2>6 DEF Known
  <2> QED
    BY <2>3, <2>4, <2>5, <2>6
<1>4. ASSUME NEW i \in DOMAIN events' PROVE Known(events[i])'
  <2>1. CASE UNCHANGED events
    BY <1>1, <1>4, <2>1, ChannelFacts DEF Known
  <2>2. CASE Receive
    <3>1. i + 1 \in DOMAIN events /\ events'[i] = events[i + 1] /\ events[i + 1] \in Event
      BY <1>4, <2>2, ChannelFacts DEF Receive
    <3> QED
      BY <1>1, <3>1 DEF Known
  <2>3. ASSUME NEW p \in Providers, Send(p) PROVE Known(events[i])'
    <3>1. events' = Append(events, out[p]) /\ out[p] \in Event
      BY <1>0, <2>3 DEF Send
    <3>2. i = Len(events) + 1 \/ i \in DOMAIN events
      BY <1>4, <3>1, ChannelFacts
    <3> QED
      BY <1>1, <3>1, <3>2, ChannelFacts DEF Known
  <2> QED
    BY <2>1, <2>2, <2>3, WatchFrame
<1>5. Known(cur)'
  <2>1. Receive => cur' \in Event /\ Known(cur')
    BY ChannelFacts DEF Receive, Handle
  <2>2. cur' \in {cur, ZeroEvent} \/ Receive
    BY ProcessFrame
  <2> QED
    BY <1>0, <1>1, <1>2, <2>1, <2>2 DEF Known
<1>6. ASSUME NEW p \in Providers
      PROVE  cache'[p] <= source'[p] /\ got'[p] <= source'[p] /\ loaded'[p] <= source'[p]
  <2>1. source[p] \in Nat /\ source'[p] \in Nat /\ source[p] <= source'[p]
    BY SourceGrows
  <2>2. cache[p] <= source[p] /\ got[p] <= source[p] /\ loaded[p] <= source[p]
    OBVIOUS
  <2>3. cache'[p] \in {cache[p], got[p]} \/ (PollStore(p) /\ cache'[p] = out[p].ver)
    BY <1>0, WatchFrame DEF LoadStore, PollStore
  <2>4. PollStore(p) => out[p].ver <= source[p] /\ out[p].ver \in Nat
    <3>1. PollStore(p) => out[p].from = p
      BY DEF PollStore, OnlyStopCloses, Holding
    <3> QED
      BY <1>0, <3>1, EventFacts DEF Known
  <2>5. got'[p] \in {got[p], source[p], cache[p], 0}
    BY <1>0, LoadFrame, EventFacts DEF LoadEnds, loadVars
  <2>6. loaded'[p] \in {loaded[p], got[p]}
    BY LoadFrame DEF settingsVars
  <2>7. \A v \in Nat : v <= source[p] => v <= source'[p]
    BY <2>1
  <2>8. cache[p] \in Nat /\ got[p] \in Nat /\ loaded[p] \in Nat
    BY <1>0
  <2> QED
    BY <2>1, <2>2, <2>3, <2>4, <2>5, <2>6, <2>7, <2>8
<1> QED
  BY <1>3, <1>4, <1>5, <1>6

-----------------------------------------------------------------------------
(* The one Start.                                                          *)

LEMMA WatchedOnceStep ==
    ASSUME TypeOK, LoadsAreFresh, WatchedOnce, [Next]_vars
    PROVE  WatchedOnce'
<1> USE DEF WatchedOnce
<1>0. next \in 1..(N + 1) /\ N \in Nat
  BY DEF TypeOK
<1>1. ASSUME NEW p \in Providers, gor[p] = "none"
      PROVE  gor'[p] = "none" \/ (WatchProvider /\ p = next)
  BY <1>1, NoneBefore
\* Where Start and Stop stand.
<1>2. /\ main' \in {"new", "starting"} => proc' = "none"
      /\ main' = "new" => next' = 1
      /\ proc' = "none" /\ main' # "starting" => proc = "none" /\ main # "starting"
      /\ main' = "starting" => \/ main = "new" /\ ~WatchProvider
                               \/ main = "starting" /\ UNCHANGED next /\ ~WatchProvider
                               \/ main = "starting" /\ next' = next + 1
  <2>1. CASE UNCHANGED <<main, next, proc>>
    BY <2>1 DEF WatchProvider, TypeOK
  <2>2. CASE StartCall \/ WatchProvider \/ WatchFails \/ StartReturn
    BY <2>2 DEF StartCall, WatchProvider, WatchFails, StartReturn, procVars
  <2>3. CASE StopCall \/ StopProvider \/ StopClose
    BY <2>3 DEF StopCall, StopProvider, StopClose, procVars, Started
  <2>4. CASE Receive \/ ReceiveZero \/ HandleError \/ Dispatch \/ CallbacksDone
             \/ ProcessExit
    BY <2>4 DEF Receive, ReceiveZero, HandleError, Dispatch, CallbacksDone, ProcessExit,
       mainVars, WatchProvider, Handle
  <2>5. UNCHANGED vars \/ CancelParent => UNCHANGED <<main, next, proc>>
    BY DEF vars, CancelParent, mainVars, procVars
  <2>6. ASSUME NEW p \in Providers,
               SourceChange(p) \/ TakeEvent(p) \/ PollRead(p) \/ PollCompare(p) \/ PollStore(p)
               \/ WatchError(p) \/ Send(p) \/ SendPanics(p) \/ WatchExit(p)
        PROVE  UNCHANGED <<main, next, proc>>
    BY <2>6 DEF SourceChange, TakeEvent, PollRead, PollCompare, PollStore, WatchError, Send,
       SendPanics, WatchExit, mainVars, procVars
  <2>7. ASSUME NEW cb \in Callbacks, OnChange(cb) \/ RunCallback(cb)
        PROVE  UNCHANGED <<main, next, proc>>
    BY <2>7 DEF OnChange, RunCallback, mainVars, procVars
  <2>8. CASE TakeLock \/ OtherReload \/ LoadRead \/ LoadStore \/ LoadFallback
    BY <2>1, <2>8 DEF TakeLock, OtherReload, LoadRead, LoadStore, LoadFallback, mainVars, procVars
  <2>9. CASE ReloadFails \/ LoadDone
    <3>1. UNCHANGED <<main, next>>
      BY <2>9 DEF ReloadFails, LoadDone, mainVars
    <3>2. ~WatchProvider \/ next' = next + 1
      BY DEF WatchProvider
    <3>3. proc' = proc \/ lock = "events"
      BY <2>9 DEF ReloadFails, LoadDone
    <3>4. proc' = proc \/ (proc # "none" /\ proc' # "none")
      <4>1. lock = "events" => proc = "handle"
        BY DEF LoadsAreFresh
      <4>2. lock = "events" => proc' \in {"select", "dispatch"}
        BY <2>9 DEF ReloadFails, LoadDone
      <4> QED
        BY <3>3, <4>1, <4>2
    <3> QED
      BY <1>0, <3>1, <3>2, <3>4
  <2> QED
    BY <2>1, <2>2, <2>3, <2>4, <2>5, <2>6, <2>7, <2>8, <2>9 DEF Next, Progress, Failure
<1>3. proc' = "none" /\ main' # "starting" => \A p \in Providers : gor'[p] = "none"
  BY <1>1, <1>2 DEF WatchProvider
<1>4. ASSUME main' = "starting", NEW p \in Providers, p >= next' PROVE gor'[p] = "none"
  <2>1. CASE main = "new"
    BY <1>1, <1>2, <1>4, <2>1 DEF WatchProvider
  <2>2. CASE main = "starting"
    <3>1. p \in Nat /\ next \in Nat
      BY <1>0 DEF Providers
    <3>2. p >= next /\ (WatchProvider => p # next)
      BY <1>2, <1>4, <2>2, <3>1 DEF WatchProvider
    <3> QED
      BY <1>1, <2>2, <3>2
  <2> QED
    BY <1>2, <1>4, <2>1, <2>2
<1> QED
  BY <1>2, <1>3, <1>4 DEF WatchedOnce

-----------------------------------------------------------------------------
(* The Load under way.                                                     *)

LEMMA FreshStep ==
    ASSUME TypeOK, NothingInvented, WatchedOnce, LoadsAreFresh, [Next]_vars
    PROVE  LoadsAreFresh'
<1> USE DEF LoadsAreFresh
<1>0. /\ turn \in 1..(N + 1) /\ N \in Nat \ {0} /\ Providers = 1..N
      /\ source \in [Providers -> Nat] /\ cache \in [Providers -> Nat]
      /\ got \in [Providers -> Nat] /\ loaded \in [Providers -> Nat] /\ cur.ver \in Nat
  BY EventFacts DEF TypeOK, Providers
<1>a. StartReturn => proc = "none"
  BY DEF StartReturn, WatchedOnce
<1>1. lock' = "events" => proc' = "handle" /\ cur'.type = "changed"
  <2>1. lock' = "events" => \/ lock = "events" /\ ~ReloadFails /\ ~LoadDone
                            \/ proc = "handle" /\ cur.type = "changed" /\ UNCHANGED <<proc, cur>>
    BY LoadFrame DEF LoadEnds, loadVars, ReloadFails, LoadDone
  <2> QED
    BY <1>a, <2>1, ProcessFrame
<1>2. lock' = "free" => turn' = 1 /\ phase' = "read"
  BY LoadFrame DEF LoadEnds, LoadAt, loadVars
<1>3. turn' = N + 1 => phase' = "read"
  BY <1>0, LoadFrame DEF LoadEnds, LoadAt, loadVars
<1>4. phase' = "store" => turn' \in Caching
  BY LoadFrame DEF LoadEnds, loadVars
<1>5. proc' \in {"dispatch", "run"} => cur'.type = "changed"
  BY ProcessFrame
<1>6. proc' # "run" => todo' = {}
  <2>1. ~(proc # "run" /\ proc' # "run") \/ todo' = todo
    BY ProcessFrame
  <2> QED
    BY <1>a, <2>1, ProcessFrame
<1>7. ASSUME NEW p \in Providers, lock' # "free", Done(p)', p \notin missed'
      PROVE  got'[p] >= loaded'[p] /\ (Asked(p)' => got'[p] >= cur'.ver)
  <2>0. /\ loaded[p] <= source[p] /\ (cur.from = p => cur.ver <= source[p])
        /\ p \in 1..N /\ p # NoProvider
    BY <1>0, EventFacts DEF NothingInvented, Known
  <2>1. ASSUME lock # "free", Done(p), p \notin missed, got'[p] = got[p], loaded'[p] = loaded[p],
               ~ReloadFails, ~LoadDone
        PROVE  got'[p] >= loaded'[p] /\ (Asked(p)' => got'[p] >= cur'.ver)
    <3>1. got[p] >= loaded[p] /\ (Asked(p) => got[p] >= cur.ver)
      BY <2>1
    <3>2. ASSUME Asked(p)' PROVE Asked(p) /\ cur' = cur
      <4>1. lock' = lock
        BY <1>7, <2>1, LoadFrame DEF loadVars
      <4>2. (lock' = "events" \/ proc' \in {"dispatch", "run"}) /\ cur'.from = p
            /\ cur'.type = "changed"
        BY <3>2 DEF Asked
      <4>3. CASE lock' = "events"
        <5>1. cur' = cur
          BY <2>1, <4>1, <4>3, ProcessFrame
        <5> QED
          BY <4>1, <4>2, <4>3, <5>1 DEF Asked
      <4>4. CASE proc' \in {"dispatch", "run"}
        <5>1. cur' = cur /\ proc \in {"dispatch", "run"}
          BY <2>1, <4>4, ProcessFrame
        <5> QED
          BY <4>2, <5>1 DEF Asked
      <4> QED
        BY <4>2, <4>3, <4>4
    <3> QED
      BY <2>1, <3>1, <3>2
  <2>2. CASE UNCHANGED <<loadVars, settingsVars>>
    <3>1. ~ReloadFails /\ ~LoadDone
      BY <1>7, <2>2 DEF loadVars, ReloadFails, LoadDone, LoadEnds
    <3> QED
      BY <1>7, <2>1, <2>2, <3>1 DEF loadVars, settingsVars, Done
  <2>3. CASE TakeLock \/ OtherReload
    BY <1>0, <1>7, <2>0, <2>3 DEF TakeLock, OtherReload, Done
  <2>4. CASE LoadRead /\ LoadAt("read")
    <3>1. /\ got' = [got EXCEPT ![turn] = source[turn]]
          /\ \/ turn \in Caching /\ phase' = "store" /\ turn' = turn
             \/ turn \notin Caching /\ phase' = "read" /\ turn' = turn + 1
          /\ UNCHANGED <<lock, missed, loaded, proc, cur>>
      BY <2>4 DEF LoadRead, LoadAt, Answer, settingsVars, procVars
    <3>2. CASE p = turn
      <4>1. got'[p] = source[p] /\ loaded'[p] = loaded[p] /\ cur' = cur
        BY <1>0, <3>1, <3>2
      <4> QED
        BY <1>0, <2>0, <4>1 DEF Asked
    <3>3. CASE p # turn
      <4>1. Done(p) /\ got'[p] = got[p] /\ lock # "free" /\ p \notin missed
        <5>1. got'[p] = got[p] /\ lock # "free" /\ p \notin missed
          BY <1>0, <1>7, <3>1, <3>3
        <5>2. p < turn' \/ (p = turn' /\ phase' = "store")
          BY <1>7 DEF Done
        <5>3. p < turn
          <6>1. turn' = turn \/ (turn' = turn + 1 /\ phase' # "store")
            BY <3>1
          <6>2. p \in Int /\ turn \in Int
            BY <1>0, <2>0
          <6> QED
            BY <3>3, <5>2, <6>1, <6>2
        <5> QED
          BY <5>1, <5>3 DEF Done
      <4>2. ~ReloadFails /\ ~LoadDone
        BY <1>7, <3>1, <4>1 DEF ReloadFails, LoadDone, LoadEnds
      <4> QED
        BY <2>1, <3>1, <4>1, <4>2
    <3> QED
      BY <3>2, <3>3
  <2>5. CASE LoadStore /\ LoadAt("store")
    <3>1. /\ phase = "store" /\ turn' = turn + 1 /\ phase' = "read"
          /\ UNCHANGED <<lock, got, missed, loaded>>
      BY <2>5 DEF LoadStore, LoadAt, settingsVars
    <3>2. Done(p)
      BY <1>0, <1>7, <2>0, <3>1 DEF Done
    <3>3. ~ReloadFails /\ ~LoadDone
      BY <1>7, <3>1 DEF ReloadFails, LoadDone, LoadEnds
    <3> QED
      BY <1>7, <2>1, <3>1, <3>2, <3>3
  <2>6. CASE LoadFallback /\ LoadAt("read")
    <3>1. /\ phase' = "read" /\ turn' = turn + 1 /\ missed' = missed \union {turn}
          /\ got' = [got EXCEPT ![turn] = cache[turn]]
          /\ UNCHANGED <<lock, loaded>>
      BY <2>6 DEF LoadFallback, LoadAt, Answer, settingsVars
    <3>2. p # turn /\ p \notin missed
      BY <1>7, <3>1
    <3>3. Done(p) /\ got'[p] = got[p]
      BY <1>0, <1>7, <2>0, <3>1, <3>2 DEF Done
    <3>4. ~ReloadFails /\ ~LoadDone
      BY <1>7, <3>1 DEF ReloadFails, LoadDone, LoadEnds
    <3> QED
      BY <1>7, <2>1, <3>1, <3>2, <3>3, <3>4
  <2>7. ~ReloadFails /\ ~LoadDone
    BY <1>7 DEF ReloadFails, LoadDone, LoadEnds
  <2> QED
    BY <2>2, <2>3, <2>4, <2>5, <2>6, <2>7, LoadFrame
<1> QED
  BY <1>1, <1>2, <1>3, <1>4, <1>5, <1>6, <1>7 DEF Done, Asked

\* What LoadDone publishes holds the report it is for, or those whose callbacks
\* run meanwhile, but for the providers that answered from their caches.
LEMMA CallbacksStep ==
    ASSUME TypeOK, LoadsAreFresh, CallbacksSeeTheChange, [Next]_vars
    PROVE  CallbacksSeeTheChange'
<1> USE DEF CallbacksSeeTheChange
<1>1. CASE UNCHANGED settingsVars /\ ~LoadDone
  BY <1>1, ProcessFrame DEF settingsVars
<1>2. CASE LoadDone
  <2>1. /\ loaded' = got /\ stale' = missed /\ lock # "free" /\ turn = N + 1 /\ cur' = cur
        /\ proc' = IF lock = "events" THEN "dispatch" ELSE proc
    BY <1>2 DEF LoadDone
  <2>2. ASSUME proc' \in {"dispatch", "run"}, cur'.from # NoProvider, cur.from \notin missed
        PROVE  got[cur.from] >= cur.ver
    <3>1. cur.from \in Providers
      BY <2>1, <2>2, EventFacts DEF TypeOK
    <3>2. Done(cur.from) /\ Asked(cur.from)
      BY <2>1, <2>2, <3>1 DEF Done, Asked, LoadsAreFresh, Providers
    <3> QED
      BY <2>1, <2>2, <3>1, <3>2 DEF LoadsAreFresh
  <2> QED
    BY <2>1, <2>2
<1> QED
  BY <1>1, <1>2, WatchFrame

-----------------------------------------------------------------------------
(* The reports on their way.                                               *)

\* What is known is no later than what the source holds.
LEMMA ReportsKnown ==
    ASSUME TypeOK, NothingInvented
    PROVE  \A p \in Providers, e \in Event :
              /\ e.ver \in Nat /\ source[p] \in Nat
              /\ IsReport(e, p) /\ Known(e) => e.ver <= source[p]
BY EventFacts DEF IsReport, Known, TypeOK

LEMMA ReportsStep ==
    ASSUME TypeOK, OnlyStopCloses, NothingInvented, ReportsInOrder, [Next]_vars
    PROVE  ReportsInOrder'
<1>0. /\ out \in [Providers -> Event] /\ cur \in Event
      /\ \A i \in DOMAIN events : events[i] \in Event /\ Known(events[i])
      /\ Known(cur)
  BY ChannelFacts DEF TypeOK, NothingInvented
<1>2. \A p \in Providers : \A e : Precedes(ZeroEvent, e, p) /\ Precedes(e, ZeroEvent, p)
  BY EventFacts DEF Precedes, IsReport
<1> SUFFICES ASSUME NEW p \in Providers
             PROVE  /\ \A i, j \in DOMAIN events' : i < j => Precedes(events'[i], events'[j], p)
                    /\ \A i \in DOMAIN events' : Precedes(events'[i], out'[p], p)
                    /\ proc' = "handle" =>
                          /\ \A i \in DOMAIN events' : Precedes(cur', events'[i], p)
                          /\ Precedes(cur', out'[p], p)
  BY DEF ReportsInOrder, Precedes, IsReport
<1>3. /\ \A i, j \in DOMAIN events : i < j => Precedes(events[i], events[j], p)
      /\ \A i \in DOMAIN events : Precedes(events[i], out[p], p)
      /\ proc = "handle" =>
            /\ \A i \in DOMAIN events : Precedes(cur, events[i], p)
            /\ Precedes(cur, out[p], p)
  BY DEF ReportsInOrder
<1>4. CASE Receive
  <2>1. /\ events # <<>> /\ events' = Tail(events) /\ cur' = events[1] /\ out' = out
        /\ 1 \in DOMAIN events
    BY <1>4, ChannelFacts DEF Receive, Handle, watchVars
  <2>2. \A i \in DOMAIN events' :
           i \in Nat /\ i >= 1 /\ i + 1 \in DOMAIN events /\ events'[i] = events[i + 1]
    BY <2>1, ChannelFacts
  <2>3. \A i, j \in DOMAIN events' : i < j => i + 1 < j + 1
    BY <2>2
  <2>4. \A i \in DOMAIN events' : 1 < i + 1
    BY <2>2
  <2> QED
    BY <1>3, <2>1, <2>2, <2>3, <2>4
<1>5. ASSUME NEW q \in Providers, Send(q)
      PROVE  /\ \A i, j \in DOMAIN events' : i < j => Precedes(events'[i], events'[j], p)
             /\ \A i \in DOMAIN events' : Precedes(events'[i], out'[p], p)
             /\ proc' = "handle" =>
                   /\ \A i \in DOMAIN events' : Precedes(cur', events'[i], p)
                   /\ Precedes(cur', out'[p], p)
  <2>1. /\ events' = Append(events, out[q]) /\ out' = [out EXCEPT ![q] = ZeroEvent]
        /\ proc' = proc /\ cur' = cur
    BY <1>5 DEF Send, procVars, Hold
  <2> DEFINE n == Len(events) + 1
  <2>2. /\ DOMAIN events' = 1..n /\ DOMAIN events = 1..(n - 1) /\ n \in Nat
        /\ events'[n] = out[q] /\ \A i \in DOMAIN events : events'[i] = events[i]
    BY <1>0, <2>1, ChannelFacts
  <2>3. \A i \in DOMAIN events' : i = n \/ i \in DOMAIN events
    BY <2>2
  <2>4. \A i, j \in DOMAIN events' : i < j => i \in DOMAIN events
    BY <2>2
  <2>5. out'[p] \in {out[p], ZeroEvent} /\ (p = q => out'[p] = ZeroEvent)
    BY <1>0, <2>1
  <2>6. p = q \/ ~IsReport(out[q], p)
    BY <1>5, EventFacts DEF Send, IsReport, OnlyStopCloses, Holding
  <2>7. \A e : Precedes(e, out[p], p) => Precedes(e, out[q], p) /\ Precedes(e, out'[p], p)
    BY <1>2, <2>5, <2>6 DEF Precedes
  <2>8. Precedes(out[q], out'[p], p)
    BY <1>2, <2>5, <2>6 DEF Precedes
  <2> QED
    BY <1>3, <2>1, <2>2, <2>3, <2>4, <2>7, <2>8
<1>6. ASSUME UNCHANGED events, proc' = "handle" => UNCHANGED <<proc, cur>>
      PROVE  /\ \A i, j \in DOMAIN events' : i < j => Precedes(events'[i], events'[j], p)
             /\ \A i \in DOMAIN events' : Precedes(events'[i], out'[p], p)
             /\ proc' = "handle" =>
                   /\ \A i \in DOMAIN events' : Precedes(cur', events'[i], p)
                   /\ Precedes(cur', out'[p], p)
  <2>1. \A e \in Event : Known(e) /\ Precedes(e, out[p], p) => Precedes(e, out'[p], p)
    <3>1. out'[p] \in {out[p], ZeroEvent, Change(p), [from |-> p, type |-> "error", ver |-> 0]}
      BY GoroutineFrame
    <3>2. CASE out'[p] = Change(p)
      BY <3>2, ChangeFacts, ReportsKnown DEF Precedes
    <3>3. CASE out'[p] = [from |-> p, type |-> "error", ver |-> 0]
      BY <3>3 DEF Precedes, IsReport
    <3> QED
      BY <1>2, <3>1, <3>2, <3>3
  <2> QED
    BY <1>0, <1>3, <1>6, <2>1
<1>7. CASE ReceiveZero
  <2>1. UNCHANGED <<events, out>> /\ cur' = ZeroEvent
    BY <1>7 DEF ReceiveZero, Handle, chanVars, watchVars
  <2> QED
    BY <1>2, <1>3, <2>1
<1>8. UNCHANGED events \/ Receive \/ \E q \in Providers : Send(q)
  BY WatchFrame
<1>9. (proc' = "handle" => UNCHANGED <<proc, cur>>) \/ Receive \/ ReceiveZero
  BY ProcessFrame
<1> QED
  BY <1>4, <1>5, <1>6, <1>7, <1>8, <1>9

-----------------------------------------------------------------------------
(* What holds in every behaviour.                                          *)

LEMMA WatchInvInit == Init => WatchInv
<1> SUFFICES ASSUME Init PROVE WatchInv
  OBVIOUS
<1>1. TypeOK
  BY WatchTypeInit
<1>2. OnlyStopCloses /\ OnlyStopDoesHarm
  BY EmptySeq DEF Init, OnlyStopCloses, OnlyStopDoesHarm, Holding
<1>3. NothingInvented /\ CallbacksSeeTheChange
  BY EventFacts, EmptySeq DEF Init, NothingInvented, Known, CallbacksSeeTheChange
<1>4. WatchedOnce /\ ReportsInOrder
  BY EmptySeq DEF Init, WatchedOnce, ReportsInOrder
<1>5. LoadsAreFresh
  BY DEF Init, LoadsAreFresh
<1> QED
  BY <1>1, <1>2, <1>3, <1>4, <1>5 DEF WatchInv

LEMMA WatchInvStep == WatchInv /\ [Next]_vars => WatchInv'
BY WatchTypeStep, OnlyStopStep, InventedStep, CallbacksStep, WatchedOnceStep,
   ReportsStep, FreshStep DEF WatchInv

\* WatchInv holds in every state: versions are not invented, reports keep their
\* order, and what a Load has read at a source holds the report it was asked for,
\* though polls and Loads overwrite each other's answers in the cache.
THEOREM WatchInvariant == Spec => []WatchInv
BY WatchInvInit, WatchInvStep, PTL DEF Spec

\* OnChange callbacks read settings that hold the change their event reports, or
\* an answer that the provider gave from its cache because it could not read.
THEOREM CallbacksAreInformed == Spec => []CallbacksSeeTheChange
<1>1. WatchInv => CallbacksSeeTheChange
  BY DEF WatchInv
<1> QED
  BY <1>1, WatchInvariant, PTL

\* No send panics and no empty event is handled unless a Stop has ended.
THEOREM HarmNeedsAStop == Spec => []OnlyStopDoesHarm
<1>1. WatchInv => OnlyStopDoesHarm
  BY DEF WatchInv
<1> QED
  BY <1>1, WatchInvariant, PTL

-----------------------------------------------------------------------------
(* The refinement of ChangeDelivery.                                       *)

\* What an event reports, and what a goroutine is about to report.
Reports(e, p, v) == e.from = p /\ e.type = "changed" /\ e.ver = v
Hand(p, v) == gor[p] = "send" /\ Reports(out[p], p, v)

LEMMA UndeliveredFacts ==
    ASSUME NEW p \in Providers, NEW v
    PROVE  /\ v \in Undelivered(p) <=>
                 \/ Hand(p, v) \/ (proc = "handle" /\ Reports(cur, p, v))
                 \/ \E i \in DOMAIN events : Reports(events[i], p, v)
           /\ v \in Undelivered(p)' <=>
                 \/ Hand(p, v)' \/ (proc' = "handle" /\ Reports(cur', p, v))
                 \/ \E i \in DOMAIN events' : Reports(events'[i], p, v)
BY DEF Undelivered, InHand, Reports, Hand, IsReport

LEMMA PendingKept ==
    ASSUME \A p \in Providers : \A v : v \in Undelivered(p)' <=> v \in Undelivered(p)
    PROVE  [p \in Providers |-> Undelivered(p)]' = [p \in Providers |-> Undelivered(p)]
<1>1. \A p \in Providers : Undelivered(p)' = Undelivered(p)
  OBVIOUS
<1> QED
  BY <1>1

LEMMA PendingAdded ==
    ASSUME NEW q \in Providers, NEW w,
           \A p \in Providers : \A v :
               v \in Undelivered(p)' <=> v \in Undelivered(p) \/ (p = q /\ v = w)
    PROVE  [p \in Providers |-> Undelivered(p)]' =
              [[p \in Providers |-> Undelivered(p)] EXCEPT ![q] = @ \union {w}]
<1>1. \A p \in Providers :
         Undelivered(p)' = IF p = q THEN Undelivered(p) \union {w} ELSE Undelivered(p)
  OBVIOUS
<1> QED
  BY <1>1

LEMMA PendingTaken ==
    ASSUME NEW q \in Providers, NEW w,
           \A p \in Providers : \A v :
               v \in Undelivered(p)' <=> v \in Undelivered(p) /\ ~(p = q /\ v = w)
    PROVE  Delivery!Taken(q, w)
<1>1. \A p \in Providers :
         Undelivered(p)' = IF p = q THEN Undelivered(p) \ {w} ELSE Undelivered(p)
  OBVIOUS
<1> QED
  BY <1>1 DEF Delivery!Taken

LEMMA DeliveryInit == Init => Delivery!Init
<1> SUFFICES ASSUME Init PROVE Delivery!Init
  OBVIOUS
<1>1. \A p \in Providers : Undelivered(p) = {}
  <2>1. \A p \in Providers : gor[p] # "send"
    BY DEF Init
  <2>2. DOMAIN events = {} /\ proc # "handle"
    BY EmptySeq DEF Init
  <2> QED
    BY <2>1, <2>2, UndeliveredFacts DEF Hand
<1>2. [p \in Providers |-> Undelivered(p)] = [p \in Providers |-> {}]
  BY <1>1
<1> QED
  BY <1>2 DEF Init, Delivery!Init, Delivery!None, Nothing

\* What a goroutine has in hand becomes a report when an event of fsnotify is
\* taken or a poll has stored, and stays one until it is sent.
LEMMA HandStep ==
    ASSUME TypeOK, WatchedOnce, [Next]_vars, NEW p \in Providers,
           ~TakeEvent(p), ~PollStore(p), ~Send(p)
    PROVE  \A v : Hand(p, v)' <=> Hand(p, v)
<1>1. WatchProvider /\ next = p => gor[p] = "none"
  BY DEF WatchProvider, WatchedOnce, Providers
<1>2. CASE gor'[p] = gor[p] /\ out'[p] = out[p]
  BY <1>2 DEF Hand
<1>3. CASE gor[p] # "send" /\ gor'[p] # "send"
  BY <1>3 DEF Hand
<1>4. CASE gor[p] # "send" /\ out'[p] = [from |-> p, type |-> "error", ver |-> 0]
  BY <1>4 DEF Hand, Reports
<1> QED
  BY <1>1, <1>2, <1>3, <1>4, GoroutineFrame

\* A step that leaves the channel and the event in hand alone.
LEMMA UndeliveredKept ==
    ASSUME TypeOK, WatchedOnce, [Next]_vars, UNCHANGED events,
           \A p \in Providers : ~TakeEvent(p) /\ ~PollStore(p) /\ ~Send(p),
           \A p \in Providers : \A v :
              (proc' = "handle" /\ Reports(cur', p, v)) <=> (proc = "handle" /\ Reports(cur, p, v))
    PROVE  [p \in Providers |-> Undelivered(p)]' = [p \in Providers |-> Undelivered(p)]
<1>1. \A p \in Providers : \A v : v \in Undelivered(p)' <=> v \in Undelivered(p)
  BY HandStep, UndeliveredFacts
<1> QED
  BY <1>1, PendingKept

\* Every report on its way is of a version that the source has had.
LEMMA UndeliveredKnown ==
    ASSUME WatchInv, NEW p \in Providers, NEW v \in Undelivered(p)
    PROVE  v \in Nat /\ v <= source[p]
<1>1. /\ cur \in Event /\ Known(cur) /\ out[p] \in Event /\ Known(out[p])
      /\ \A i \in DOMAIN events : events[i] \in Event /\ Known(events[i])
  BY ChannelFacts DEF WatchInv, TypeOK, NothingInvented
<1>2. \A e \in Event : Known(e) /\ Reports(e, p, v) => v \in Nat /\ v <= source[p]
  BY EventFacts DEF Known, Reports
<1> QED
  BY <1>1, <1>2, UndeliveredFacts DEF Hand

\* What processEvents has in hand is the provider's first report.
LEMMA InHandIsFirst ==
    ASSUME WatchInv, proc = "handle", NEW p \in Providers, IsReport(cur, p)
    PROVE  /\ Delivery!First(p, cur.ver)
           /\ cur.ver <= source[p] /\ cur.ver \in Nat
<1>1. /\ \A i \in DOMAIN events : Precedes(cur, events[i], p) /\ events[i] \in Event
      /\ Precedes(cur, out[p], p) /\ out[p] \in Event /\ cur \in Event
  BY ChannelFacts DEF WatchInv, ReportsInOrder, TypeOK
<1>2. cur.ver \in Undelivered(p)
  BY UndeliveredFacts DEF Reports, IsReport
<1>3. \A e \in Event : \A v : Precedes(cur, e, p) /\ Reports(e, p, v) => cur.ver <= v
  BY EventFacts DEF Precedes, Reports, IsReport
<1>4. ASSUME NEW v \in Undelivered(p) PROVE cur.ver <= v
  <2>1. Reports(cur, p, v) => cur.ver <= v
    BY <1>1, EventFacts DEF Reports, Versions
  <2> QED
    BY <1>1, <1>3, <1>4, <2>1, UndeliveredFacts DEF Hand
<1> QED
  BY <1>2, <1>4, UndeliveredKnown DEF Delivery!First

\* Once processEvents leaves it, that report is delivered, or one more like it is
\* still on its way.
LEMMA HandleTakes ==
    ASSUME proc = "handle", NEW p \in Providers, IsReport(cur, p),
           UNCHANGED <<events, gor, out>>, proc' # "handle"
    PROVE  Delivery!Taken(p, cur.ver)
<1> DEFINE Again == Hand(p, cur.ver) \/ \E i \in DOMAIN events : Reports(events[i], p, cur.ver)
<1>1. \A q \in Providers : \A v : Reports(cur, q, v) <=> q = p /\ v = cur.ver
  BY DEF Reports, IsReport
<1>2. \A q \in Providers : \A v : Hand(q, v)' <=> Hand(q, v)
  BY DEF Hand
<1>3. CASE Again
  <2>1. \A q \in Providers : \A v : v \in Undelivered(q)' <=> v \in Undelivered(q)
    BY <1>1, <1>2, <1>3, UndeliveredFacts
  <2> QED
    BY <2>1, PendingKept DEF Delivery!Taken
<1>4. CASE ~Again
  <2>1. \A q \in Providers : \A v :
           v \in Undelivered(q)' <=> v \in Undelivered(q) /\ ~(q = p /\ v = cur.ver)
    BY <1>1, <1>2, <1>4, UndeliveredFacts
  <2> QED
    BY <2>1, PendingTaken
<1> QED
  BY <1>3, <1>4

\* A Load that ends makes the settings anew, and they hold the report it was for
\* or whose callbacks run meanwhile.
LEMMA LoadRenews ==
    ASSUME WatchInv, LoadDone
    PROVE  /\ Delivery!Renew
           /\ \A p \in Providers : Asked(p) => loaded'[p] >= cur.ver \/ p \in stale'
<1>1. loaded' = got /\ stale' = missed /\ lock # "free" /\ turn = N + 1
  BY DEF LoadDone
<1>2. \A p \in Providers : Done(p)
  BY <1>1 DEF Done, Providers
<1>3. got \in [Providers -> Nat] /\ loaded \in [Providers -> Nat] /\ missed \subseteq Caching
  BY EventFacts DEF WatchInv, TypeOK
<1>4. ASSUME NEW p \in Providers
      PROVE  /\ got[p] <= source[p]
             /\ p \notin missed => loaded[p] <= got[p] /\ (Asked(p) => got[p] >= cur.ver)
  BY <1>1, <1>2, <1>3 DEF WatchInv, NothingInvented, LoadsAreFresh
<1> QED
  BY <1>1, <1>3, <1>4 DEF Delivery!Renew

\* What ChangeDelivery knows of processEvents.
LEMMA CallKept ==
    ASSUME UNCHANGED todo,
           UNCHANGED <<proc, cur>> \/ (proc \notin {"dispatch", "run"} /\ proc' \notin {"dispatch", "run"})
    PROVE  UNCHANGED Delivery!callVars
<1>1. (proc = "run")' = (proc = "run")
  BY Zenon
<1>2. UNCHANGED (IF proc \in {"dispatch", "run"} THEN <<cur.from, cur.ver>> ELSE <<>>)
  OBVIOUS
<1> QED
  BY <1>1, <1>2, Zenon DEF Delivery!callVars

\* What a goroutine does with its provider's events.
LEMMA GoroutineDelivers ==
    ASSUME WatchInv, [Next]_vars, NEW q \in Providers, TakeEvent(q) \/ PollStore(q) \/ Send(q)
    PROVE  Delivery!Next \/ UNCHANGED Delivery!vars
<1> USE DEF stopVars, procVars, settingsVars, callbackVars
<1>0. /\ TypeOK /\ WatchedOnce /\ OnlyStopCloses /\ ReportsInOrder /\ NothingInvented
      /\ out \in [Providers -> Event] /\ gor \in [Providers -> {"none", "select", "compare", "store", "send", "done"}]
  BY DEF WatchInv, TypeOK
\* A report is made.
<1>1. ASSUME NEW e \in Event, IsReport(e, q), e.ver <= source[q], gor[q] # "send",
             \A w \in Undelivered(q) : w <= e.ver,
             gor' = [gor EXCEPT ![q] = "send"], out' = [out EXCEPT ![q] = e],
             UNCHANGED <<events, proc, cur, todo, source, settingsVars, callbackVars, closed>>,
             ~panicked, UNCHANGED panicked
      PROVE  Delivery!Next
  <2>1. \A p \in Providers : \A v :
           Hand(p, v)' <=> Hand(p, v) \/ (p = q /\ v = e.ver)
    BY <1>0, <1>1 DEF Hand, Reports, IsReport
  <2>2. \A p \in Providers : \A v :
           v \in Undelivered(p)' <=> v \in Undelivered(p) \/ (p = q /\ v = e.ver)
    BY <1>1, <2>1, UndeliveredFacts
  <2>3. e.ver \in 0..source[q]
    <3>1. e.ver \in Nat /\ source[q] \in Nat
      BY <1>0, EventFacts DEF TypeOK
    <3> QED
      BY <1>1, <3>1
  <2>4. Delivery!Report(q, e.ver)
    <3>1. \A w \in [p \in Providers |-> Undelivered(p)][q] : w <= e.ver
      BY <1>1
    <3>2. [p \in Providers |-> Undelivered(p)]' =
             [[p \in Providers |-> Undelivered(p)] EXCEPT ![q] = @ \union {e.ver}]
      BY <2>2, PendingAdded
    <3>3. UNCHANGED <<source, Delivery!reloadVars, callbacks, heard, Delivery!endVars>>
      BY <1>1 DEF Delivery!reloadVars, Delivery!endVars
    <3>4. UNCHANGED Delivery!callVars
      BY <1>1, CallKept
    <3>5. UNCHANGED <<source, Delivery!reloadVars, Delivery!callVars, callbacks, heard, Delivery!endVars>>
      BY <3>3, <3>4
    <3> QED
      BY <1>1, <3>1, <3>2, <3>5 DEF Delivery!Report
  <2> QED
    BY <1>1, <2>3, <2>4 DEF Delivery!Next
<1>2. CASE TakeEvent(q)
  <2>1. /\ Change(q) \in Event /\ IsReport(Change(q), q) /\ Change(q).ver = source[q]
        /\ source[q] \in Nat /\ \A w \in Undelivered(q) : w <= source[q]
    BY <1>0, ChangeFacts, UndeliveredKnown, EventFacts DEF TypeOK
  <2>2. source[q] <= source[q]
    BY <2>1
  <2> HIDE DEF Change
  <2> QED
    BY <1>1, <1>2, <2>1, <2>2 DEF TakeEvent, Hold, chanVars
<1>3. CASE PollStore(q)
  <2>1. gor[q] = "store" /\ IsReport(out[q], q) /\ out[q] \in Event /\ Known(out[q])
    BY <1>0, <1>3 DEF PollStore, OnlyStopCloses, NothingInvented
  <2>2. out[q].ver <= source[q] /\ out[q].ver \in Nat
    BY <1>0, <2>1, ReportsKnown
  <2>3. ASSUME NEW w \in Undelivered(q) PROVE w <= out[q].ver
    <3>1. /\ \A i \in DOMAIN events : Precedes(events[i], out[q], q)
          /\ proc = "handle" => Precedes(cur, out[q], q)
      BY <1>0 DEF ReportsInOrder
    <3> QED
      BY <2>1, <2>3, <3>1, UndeliveredFacts DEF Precedes, Reports, Hand, IsReport
  <2>4. out' = [out EXCEPT ![q] = out[q]] /\ gor' = [gor EXCEPT ![q] = "send"]
    BY <1>3 DEF PollStore, Hold
  <2>5. /\ UNCHANGED <<events, proc, cur, todo, source, settingsVars, callbackVars, closed>>
        /\ ~panicked /\ UNCHANGED panicked
    BY <1>3 DEF PollStore, chanVars, sourceVars
  <2>6. gor[q] # "send"
    BY <2>1
  <2> HIDE DEF settingsVars, callbackVars
  <2> QED
    BY <1>1, <2>1, <2>2, <2>3, <2>4, <2>5, <2>6
<1>4. CASE Send(q)
  <2>1. /\ events' = Append(events, out[q]) /\ gor[q] = "send"
        /\ gor' = [gor EXCEPT ![q] = "select"] /\ out' = [out EXCEPT ![q] = ZeroEvent]
        /\ UNCHANGED <<proc, cur>>
    BY <1>0, <1>4 DEF Send, Hold
  <2>2. \A p \in Providers : \A v :
           (\E i \in DOMAIN events' : Reports(events'[i], p, v))
              <=> Reports(out[q], p, v) \/ \E i \in DOMAIN events : Reports(events[i], p, v)
    <3> DEFINE n == Len(events) + 1
    <3>1. /\ DOMAIN events' = 1..n /\ DOMAIN events = 1..(n - 1) /\ n \in Nat \ {0}
          /\ events'[n] = out[q] /\ \A i \in DOMAIN events : events'[i] = events[i]
      BY <1>0, <2>1, ChannelFacts
    <3>2. n \in DOMAIN events' /\ \A i \in DOMAIN events : i \in DOMAIN events'
      BY <3>1
    <3>3. \A i \in DOMAIN events' : i = n \/ i \in DOMAIN events
      BY <3>1
    <3> QED
      BY <3>1, <3>2, <3>3
  <2>3. out[q].from = q
    BY <1>0, <2>1 DEF OnlyStopCloses, Holding
  <2>4. \A p \in Providers : \A v : Hand(p, v) <=> Hand(p, v)' \/ Reports(out[q], p, v)
    <3>1. \A p \in Providers : \A v : p # q =>
             (Hand(p, v)' <=> Hand(p, v)) /\ ~Reports(out[q], p, v)
      BY <1>0, <2>1, <2>3 DEF Hand, Reports
    <3>2. \A v : ~Hand(q, v)' /\ (Hand(q, v) <=> Reports(out[q], q, v))
      BY <1>0, <2>1 DEF Hand
    <3> QED
      BY <3>1, <3>2
  <2>5. \A p \in Providers : \A v : v \in Undelivered(p)' <=> v \in Undelivered(p)
    BY <2>1, <2>2, <2>4, UndeliveredFacts
  <2> QED
    BY <1>4, <2>5, PendingKept DEF Send, Delivery!vars, sourceVars
<1> QED
  BY <1>2, <1>3, <1>4

\* The steps of processEvents.
LEMMA ProcessDelivers ==
    ASSUME WatchInv, [Next]_vars,
           Receive \/ ReceiveZero \/ HandleError \/ Dispatch \/ CallbacksDone \/ ProcessExit
    PROVE  Delivery!Next \/ UNCHANGED Delivery!vars
<1> USE DEF sourceVars, watchVars, chanVars, stopVars, settingsVars, callbackVars,
            Delivery!reloadVars, Delivery!callVars, Delivery!endVars
<1>0. TypeOK /\ WatchedOnce /\ OnlyStopCloses /\ LoadsAreFresh
  BY DEF WatchInv
<1>1. CASE Receive
  <2>1. /\ events # <<>> /\ events' = Tail(events) /\ cur' = events[1]
        /\ proc = "select" /\ proc' = "handle" /\ gor' = gor /\ out' = out
    BY <1>0, <1>1, ChannelFacts DEF Receive, Handle
  <2>2. \A p \in Providers : \A v :
           (\E i \in DOMAIN events : Reports(events[i], p, v))
              <=> Reports(cur', p, v) \/ \E i \in DOMAIN events' : Reports(events'[i], p, v)
    <3>1. /\ 1 \in DOMAIN events
          /\ \A i \in DOMAIN events' : i + 1 \in DOMAIN events /\ events'[i] = events[i + 1]
      BY <1>0, <2>1, ChannelFacts
    <3>2. \A i \in DOMAIN events : i = 1 \/ i - 1 \in DOMAIN events'
      BY <1>0, <2>1, ChannelFacts
    <3>3. \A i \in DOMAIN events : i = 1 \/ events[i] = events'[i - 1]
      <4>1. \A i \in DOMAIN events : (i - 1) + 1 = i
        BY <1>0, ChannelFacts
      <4> QED
        BY <3>1, <3>2, <4>1
    <3> QED
      BY <2>1, <3>1, <3>2, <3>3
  <2>3. \A p \in Providers : \A v : Hand(p, v)' <=> Hand(p, v)
    BY <2>1 DEF Hand
  <2>4. \A p \in Providers : \A v : v \in Undelivered(p)' <=> v \in Undelivered(p)
    BY <2>1, <2>2, <2>3, UndeliveredFacts
  <2> QED
    BY <1>1, <2>1, <2>4, PendingKept DEF Receive, Handle, Delivery!vars
<1>2. \A p \in Providers : \A v : ~Reports(ZeroEvent, p, v)
  BY EventFacts DEF Reports
<1>3. ASSUME ~Receive
      PROVE  /\ UNCHANGED events
             /\ \A p \in Providers : ~TakeEvent(p) /\ ~PollStore(p) /\ ~Send(p)
  <2>1. UNCHANGED events /\ proc' # proc
    BY <1>3 DEF ReceiveZero, HandleError, Dispatch, CallbacksDone, ProcessExit, Handle
  <2> QED
    BY <2>1 DEF TakeEvent, PollStore, Send, procVars
<1>4. CASE ReceiveZero
  <2>1. ~Receive
    BY <1>4 DEF Receive, ReceiveZero
  <2>2. [p \in Providers |-> Undelivered(p)]' = [p \in Providers |-> Undelivered(p)]
    BY <1>0, <1>2, <1>3, <1>4, <2>1, UndeliveredKept DEF ReceiveZero, Handle
  <2> QED
    BY <1>4, <2>2 DEF ReceiveZero, Handle, Delivery!vars
<1>5. CASE HandleError
  <2>1. ~Receive /\ \A p \in Providers : \A v : ~Reports(cur, p, v)
    BY <1>5 DEF HandleError, Receive, Reports
  <2>2. [p \in Providers |-> Undelivered(p)]' = [p \in Providers |-> Undelivered(p)]
    BY <1>0, <1>3, <1>5, <2>1, UndeliveredKept DEF HandleError
  <2> QED
    BY <1>5, <2>2 DEF HandleError, Delivery!vars
<1>6. CASE Dispatch
  <2>1. ~Receive /\ todo = {}
    BY <1>0, <1>6 DEF Dispatch, Receive, LoadsAreFresh
  <2>2. [p \in Providers |-> Undelivered(p)]' = [p \in Providers |-> Undelivered(p)]
    BY <1>0, <1>3, <1>6, <2>1, UndeliveredKept DEF Dispatch
  <2>3. Delivery!Call
    BY <1>6, <2>2 DEF Dispatch, Delivery!Call, Delivery!None
  <2> QED
    BY <1>6, <2>3 DEF Dispatch, Delivery!Next
<1>7. CASE CallbacksDone
  <2>1. ~Receive
    BY <1>7 DEF CallbacksDone, Receive
  <2>2. [p \in Providers |-> Undelivered(p)]' = [p \in Providers |-> Undelivered(p)]
    BY <1>0, <1>3, <1>7, <2>1, UndeliveredKept DEF CallbacksDone
  <2>3. Delivery!Return
    BY <1>7, <2>2 DEF CallbacksDone, Delivery!Return, Delivery!None
  <2> QED
    BY <1>7, <2>3 DEF CallbacksDone, Delivery!Next
<1>8. CASE ProcessExit
  <2>1. ~Receive \/ proc' = "handle"
    BY DEF Receive, Handle
  <2>2. ~Receive
    BY <1>8, <2>1 DEF ProcessExit
  <2>3. [p \in Providers |-> Undelivered(p)]' = [p \in Providers |-> Undelivered(p)]
    BY <1>0, <1>3, <1>8, <2>2, UndeliveredKept DEF ProcessExit
  <2> QED
    BY <1>8, <2>3 DEF ProcessExit, Delivery!vars
<1> QED
  BY <1>1, <1>4, <1>5, <1>6, <1>7, <1>8

\* The end of a Load.
LEMMA LoadDelivers ==
    ASSUME WatchInv, [Next]_vars, LoadDone \/ ReloadFails
    PROVE  Delivery!Next \/ UNCHANGED Delivery!vars
<1> USE DEF sourceVars, watchVars, chanVars, stopVars, settingsVars, callbackVars,
            Delivery!reloadVars, Delivery!endVars
<1>0. /\ TypeOK /\ WatchedOnce /\ OnlyStopCloses /\ LoadsAreFresh /\ cur \in Event
      /\ UNCHANGED <<events, gor, out, source, callbacks, heard, closed, todo>>
      /\ ~panicked /\ UNCHANGED panicked
      /\ \A p \in Providers : ~TakeEvent(p) /\ ~PollStore(p) /\ ~Send(p)
  <2>1. UNCHANGED <<events, gor, out, source, callbacks, heard, closed, todo>>
        /\ ~panicked /\ UNCHANGED panicked /\ lock # "free" /\ lock' = "free"
    BY DEF LoadDone, ReloadFails, LoadEnds, LoadAt
  <2>2. \A p \in Providers : ~TakeEvent(p) /\ ~PollStore(p) /\ ~Send(p)
    BY <2>1 DEF TakeEvent, PollStore, Send, loadVars
  <2> QED
    BY <2>1, <2>2 DEF WatchInv, TypeOK
\* Another's Load, or one for an event that is nobody's, takes no report.
<1>1. ASSUME lock = "other" \/ cur.from \notin Providers, proc' \in {proc, "select", "dispatch"},
             lock = "other" => UNCHANGED <<proc, cur>>
      PROVE  [p \in Providers |-> Undelivered(p)]' = [p \in Providers |-> Undelivered(p)]
  <2>1. CASE lock = "other"
    BY <1>0, <1>1, <2>1, UndeliveredKept
  <2>2. CASE cur.from \notin Providers /\ lock # "other"
    <3>1. \A p \in Providers : \A v : ~Reports(cur, p, v)
      BY <2>2 DEF Reports
    <3>2. lock = "events"
      BY <2>2 DEF LoadDone, ReloadFails, LoadAt, WatchInv, TypeOK
    <3>3. proc' # "handle"
      BY <1>0, <3>2 DEF LoadDone, ReloadFails
    <3> QED
      BY <1>0, <3>1, <3>3, UndeliveredKept
  <2> QED
    BY <1>1, <2>1, <2>2
<1>2. lock \in {"events", "other"}
  BY <1>0 DEF LoadDone, ReloadFails, LoadAt, TypeOK
<1>3. CASE lock = "events" /\ cur.from \in Providers
  <2> DEFINE p == cur.from
             v == cur.ver
  <2>1. IsReport(cur, p) /\ proc = "handle" /\ proc' \in {"select", "dispatch"}
    BY <1>0, <1>3 DEF LoadDone, ReloadFails, IsReport, LoadsAreFresh
  <2>2. Delivery!First(p, v) /\ Delivery!Taken(p, v)
    BY <1>0, <1>3, <2>1, InHandIsFirst, HandleTakes
  <2>3. v \in [q \in Providers |-> Undelivered(q)][p]
    BY <2>2 DEF Delivery!First
  <2>4. CASE LoadDone
    <3>1. Asked(p) /\ proc' = "dispatch" /\ cur' = cur
      BY <1>3, <2>1, <2>4 DEF LoadDone, Asked, IsReport
    <3>2. Delivery!Renew /\ (loaded'[p] >= v \/ p \in stale')
      BY <1>3, <2>4, <3>1, LoadRenews
    <3>3. <<p, v>>[1] = p /\ <<p, v>>[2] = v
      OBVIOUS
    <3>4. (proc = "run")' = (proc = "run")
      BY <2>1, <3>1
    <3>5. Delivery!Deliver(p, v)
      BY <1>0, <2>1, <2>2, <3>1, <3>2, <3>3, <3>4
         DEF Delivery!Deliver, Delivery!None, Delivery!Holds
    <3> QED
      BY <1>0, <1>3, <2>3, <3>5 DEF Delivery!Next
  <2>5. CASE ReloadFails
    <3>1. proc' = "select" /\ UNCHANGED settingsVars
      BY <1>3, <2>5 DEF ReloadFails
    <3>2. Caching # Providers
      BY <2>5 DEF ReloadFails, LoadAt
    <3>3. Delivery!GiveUp(p, v)
      BY <1>0, <2>1, <2>2, <3>1, <3>2, CallKept DEF Delivery!GiveUp, Delivery!None
    <3> QED
      BY <1>0, <1>3, <2>3, <3>3 DEF Delivery!Next
  <2> QED
    BY <2>4, <2>5
<1>4. CASE LoadDone /\ lock = "events" /\ cur.from \notin Providers
  <2>1. proc = "handle" /\ proc' = "dispatch" /\ cur' = cur
    BY <1>0, <1>4 DEF LoadDone, LoadsAreFresh
  <2>2. closed /\ cur = ZeroEvent
    BY <1>0, <1>4, <2>1, EventFacts DEF OnlyStopCloses
  <2>3. (proc = "run")' = (proc = "run")
    BY <2>1
  <2>4. <<cur'.from, cur'.ver>> = <<0, 0>>
    BY <2>1, <2>2 DEF ZeroEvent, NoProvider
  <2>5. [p \in Providers |-> Undelivered(p)]' = [p \in Providers |-> Undelivered(p)]
    BY <1>1, <1>4, <2>1
  <2>6. Delivery!DeliverStray
    BY <1>0, <1>4, <2>1, <2>2, <2>3, <2>4, <2>5, LoadRenews
       DEF Delivery!DeliverStray, Delivery!None, Delivery!Stray
  <2> QED
    BY <1>0, <2>6 DEF Delivery!Next
<1>5. CASE LoadDone /\ lock = "other"
  <2>1. proc' = proc /\ cur' = cur
    BY <1>5 DEF LoadDone
  <2> DEFINE report == IF proc \in {"dispatch", "run"} THEN <<cur.from, cur.ver>> ELSE <<>>
  <2>2. report \in {Delivery!None, Delivery!Stray} \/ Delivery!Holds(report)
    <3>1. CASE proc \notin {"dispatch", "run"}
      BY <3>1 DEF Delivery!None
    <3>2. CASE proc \in {"dispatch", "run"} /\ cur.from \notin Providers
      <4>1. cur = ZeroEvent
        BY <1>0, <3>2, EventFacts DEF OnlyStopCloses
      <4> QED
        BY <3>2, <4>1 DEF Delivery!Stray, ZeroEvent, NoProvider
    <3>3. CASE proc \in {"dispatch", "run"} /\ cur.from \in Providers
      <4>1. Asked(cur.from)
        BY <1>0, <3>3 DEF Asked, LoadsAreFresh
      <4> QED
        BY <1>5, <3>3, <4>1, LoadRenews DEF Delivery!Holds
    <3> QED
      BY <3>1, <3>2, <3>3
  <2>3. Delivery!Refresh
    BY <1>0, <1>1, <1>5, <2>1, <2>2, LoadRenews, CallKept DEF Delivery!Refresh
  <2> QED
    BY <1>0, <2>3 DEF Delivery!Next
<1>6. CASE ReloadFails /\ (lock = "other" \/ cur.from \notin Providers)
  <2>1. /\ UNCHANGED settingsVars
        /\ IF lock = "events" THEN proc = "handle" /\ proc' = "select" ELSE UNCHANGED <<proc, cur>>
    BY <1>0, <1>6 DEF ReloadFails, LoadsAreFresh
  <2>2. [p \in Providers |-> Undelivered(p)]' = [p \in Providers |-> Undelivered(p)]
    BY <1>1, <1>6, <2>1
  <2>3. UNCHANGED Delivery!callVars
    BY <1>0, <2>1, CallKept
  <2> QED
    BY <1>0, <2>1, <2>2, <2>3 DEF Delivery!vars, Delivery!callVars
<1> QED
  BY <1>2, <1>3, <1>4, <1>5, <1>6

\* What the other steps are to ChangeDelivery.
LEMMA OthersDeliver ==
    ASSUME WatchInv, [Next]_vars
    PROVE  \/ Delivery!Next \/ UNCHANGED Delivery!vars
           \/ \E q \in Providers : TakeEvent(q) \/ PollStore(q) \/ Send(q)
           \/ Receive \/ ReceiveZero \/ HandleError \/ Dispatch \/ CallbacksDone \/ ProcessExit
           \/ LoadDone \/ ReloadFails
<1> DEFINE Quiet == /\ UNCHANGED <<source, settingsVars, callbacks, heard, closed, panicked>>
                    /\ UNCHANGED <<events, todo>>
                    /\ UNCHANGED <<proc, cur>> \/ StartReturn
                    /\ \A p \in Providers : ~TakeEvent(p) /\ ~PollStore(p) /\ ~Send(p)
<1>0. TypeOK /\ WatchedOnce
  BY DEF WatchInv
<1> USE DEF sourceVars, watchVars, chanVars, stopVars, mainVars, procVars, loadVars,
            callbackVars, Delivery!reloadVars, Delivery!endVars
\* Steps that leave the events, and what processEvents handles, alone.
<1>1. ASSUME UNCHANGED <<events, todo>>, UNCHANGED <<proc, cur>> \/ StartReturn,
             \A p \in Providers : ~TakeEvent(p) /\ ~PollStore(p) /\ ~Send(p)
      PROVE  /\ [p \in Providers |-> Undelivered(p)]' = [p \in Providers |-> Undelivered(p)]
             /\ UNCHANGED Delivery!callVars
  <2>1. StartReturn => proc = "none" /\ proc' = "select"
    BY <1>0 DEF StartReturn, WatchedOnce
  <2>2. \A p \in Providers : \A v :
           (proc' = "handle" /\ Reports(cur', p, v)) <=> (proc = "handle" /\ Reports(cur, p, v))
    BY <1>1, <2>1
  <2>3. [p \in Providers |-> Undelivered(p)]' = [p \in Providers |-> Undelivered(p)]
    BY <1>0, <1>1, <2>2, UndeliveredKept
  <2> QED
    BY <1>1, <2>1, <2>3, CallKept
<1>2. ASSUME Quiet PROVE UNCHANGED Delivery!vars
  BY <1>1, <1>2 DEF Delivery!vars, Delivery!callVars, settingsVars
<1>4. \/ \E q \in Providers : TakeEvent(q) \/ PollStore(q) \/ Send(q)
      \/ \A p \in Providers : ~TakeEvent(p) /\ ~PollStore(p) /\ ~Send(p)
  OBVIOUS
<1> SUFFICES ASSUME \A p \in Providers : ~TakeEvent(p) /\ ~PollStore(p) /\ ~Send(p)
             PROVE  \/ Delivery!Next \/ UNCHANGED Delivery!vars
                    \/ Receive \/ ReceiveZero \/ HandleError \/ Dispatch \/ CallbacksDone
                    \/ ProcessExit \/ LoadDone \/ ReloadFails
  BY <1>4
<1>5. CASE UNCHANGED vars
  <2>1. Quiet
    BY <1>5 DEF vars
  <2> QED
    BY <1>2, <2>1
<1>6. CASE StartCall \/ WatchProvider \/ WatchFails \/ StartReturn
  <2>1. Quiet
    BY <1>6 DEF StartCall, WatchProvider, WatchFails, StartReturn
  <2> QED
    BY <1>2, <2>1
<1>7. CASE \E p \in Providers : PollRead(p) \/ PollCompare(p) \/ WatchError(p) \/ WatchExit(p)
  <2>1. Quiet
    BY <1>7 DEF PollRead, PollCompare, WatchError, WatchExit
  <2> QED
    BY <1>2, <2>1
<1>8. CASE TakeLock \/ OtherReload \/ LoadRead \/ LoadStore \/ LoadFallback
  <2>1. Quiet
    BY <1>8 DEF TakeLock, OtherReload, LoadRead, LoadStore, LoadFallback
  <2> QED
    BY <1>2, <2>1
<1>9. CASE CancelParent \/ StopCall \/ StopProvider
  <2>1. Quiet
    BY <1>9 DEF CancelParent, StopCall, StopProvider
  <2> QED
    BY <1>2, <2>1
<1> USE DEF settingsVars
<1>10. ASSUME NEW p \in Providers, SourceChange(p) PROVE Delivery!Next
  <2>1. UNCHANGED <<events, todo, proc, cur>>
    BY <1>10 DEF SourceChange
  <2>2. Delivery!Change(p)
    BY <1>1, <1>10, <2>1 DEF SourceChange, Delivery!Change
  <2> QED
    BY <1>10, <2>2 DEF SourceChange, Delivery!Next
<1>11. ASSUME NEW cb \in Callbacks, OnChange(cb) PROVE Delivery!Next
  <2>1. UNCHANGED <<events, todo, proc, cur>>
    BY <1>11 DEF OnChange
  <2>2. Delivery!Register(cb)
    BY <1>1, <1>11, <2>1 DEF OnChange, Delivery!Register
  <2> QED
    BY <1>11, <2>2 DEF OnChange, Delivery!Next
<1>12. ASSUME NEW cb \in Callbacks, RunCallback(cb) PROVE Delivery!Next
  <2>1. UNCHANGED <<events, proc, cur>> /\ proc = "run" /\ cb \in todo
    BY <1>12 DEF RunCallback
  <2>2. [p \in Providers |-> Undelivered(p)]' = [p \in Providers |-> Undelivered(p)]
    BY <1>0, <2>1, UndeliveredKept
  <2>3. (proc = "run")' = (proc = "run")
    BY <2>1, Zenon
  <2>4. Delivery!Tell(cb)
    BY <1>12, <2>1, <2>2, <2>3 DEF RunCallback, Delivery!Tell
  <2> QED
    BY <1>12, <2>4 DEF RunCallback, Delivery!Next
<1>13. ASSUME NEW p \in Providers, SendPanics(p) PROVE Delivery!Next
  <2>1. UNCHANGED <<events, todo, proc, cur>>
    BY <1>13 DEF SendPanics
  <2>2. Delivery!Die
    BY <1>1, <1>13, <2>1 DEF SendPanics, Delivery!Die
  <2> QED
    BY <1>13, <2>2 DEF SendPanics, Delivery!Next
<1>14. CASE StopClose
  <2>1. UNCHANGED <<events, todo, proc, cur>>
    BY <1>14 DEF StopClose
  <2>2. Delivery!Close
    BY <1>1, <1>14, <2>1 DEF StopClose, Delivery!Close
  <2> QED
    BY <1>14, <2>2 DEF StopClose, Delivery!Next
<1> QED
  BY <1>5, <1>6, <1>7, <1>8, <1>9, <1>10, <1>11, <1>12, <1>13, <1>14 DEF Next, Progress, Failure

\* WatchManager implements what ChangeDelivery promises to the callbacks: every
\* report is delivered in its provider's order by a reload that holds it, or given
\* up, however polls, Loads, sends and Stop interleave.
THEOREM DeliversChanges == Spec => ImplementsChangeDelivery
<1>1. WatchInv /\ [Next]_vars => [Delivery!Next]_(Delivery!vars)
  BY GoroutineDelivers, ProcessDelivers, LoadDelivers, OthersDeliver
<1> QED
  BY <1>1, DeliveryInit, WatchInvariant, PTL
     DEF Spec, ImplementsChangeDelivery, Delivery!Spec

-----------------------------------------------------------------------------
(* No change is lost while nobody cancels or stops and all can be read.    *)

\* What the undisturbed steps are: until a cancel every Load can read.
LEMMA Undisturbed ==
    ASSUME [UndisturbedNext]_vars
    PROVE  /\ [Next]_vars
           /\ ~ctxDone => ~LoadFallback /\ ~ReloadFails
           /\ \A p \in Providers : source'[p] # source[p] => gor[p] # "none"
<1>1. [Next]_vars
  BY DEF UndisturbedNext, Next
<1>2. \A p \in Providers : source'[p] # source[p] => gor[p] # "none"
  BY DEF UndisturbedNext, ChangesAfterWatch, vars, sourceVars
<1>3. ASSUME ~ctxDone
      PROVE  UNCHANGED loadVars \/ TakeLock \/ OtherReload \/ LoadRead \/ LoadStore \/ LoadDone
  <2>1. CASE UNCHANGED vars
    BY <2>1 DEF vars
  <2>2. CASE StartCall \/ WatchProvider \/ WatchFails \/ StartReturn
    BY <2>2 DEF StartCall, WatchProvider, WatchFails, StartReturn
  <2>3. ASSUME NEW p \in Providers,
               SourceChange(p) \/ TakeEvent(p) \/ PollRead(p) \/ PollCompare(p) \/ PollStore(p)
               \/ Send(p) \/ SendPanics(p) \/ WatchExit(p)
        PROVE  UNCHANGED loadVars
    BY <2>3 DEF SourceChange, TakeEvent, PollRead, PollCompare, PollStore, Send, SendPanics,
       WatchExit
  <2>4. CASE Receive \/ ReceiveZero \/ HandleError \/ ProcessExit \/ Dispatch \/ CallbacksDone
    BY <2>4 DEF Receive, ReceiveZero, HandleError, ProcessExit, Dispatch, CallbacksDone
  <2>5. ASSUME NEW cb \in Callbacks, OnChange(cb) \/ RunCallback(cb) PROVE UNCHANGED loadVars
    BY <2>5 DEF OnChange, RunCallback
  <2>6. CASE CancelParent \/ StopCall \/ StopProvider \/ StopClose
    BY <2>6 DEF CancelParent, StopCall, StopProvider, StopClose
  <2> QED
    BY <1>3, <2>1, <2>2, <2>3, <2>4, <2>5, <2>6 DEF UndisturbedNext, Progress
<1>4. ASSUME ~ctxDone, LoadFallback \/ ReloadFails PROVE FALSE
  <2>1. turn \in Providers /\ phase = "read" /\ lock # "free"
    BY <1>4 DEF LoadFallback, ReloadFails, LoadAt
  <2>2. turn' = turn + 1 \/ lock' = "free"
    BY <1>4 DEF LoadFallback, ReloadFails, LoadEnds, Answer
  <2>3. LoadFallback => turn \in Caching /\ turn' # turn /\ lock' # "free"
    BY <2>1 DEF LoadFallback, Answer, Providers
  <2>4. ReloadFails => lock' = "free"
    BY DEF ReloadFails, LoadEnds
  <2>5. /\ ~LoadDone /\ ~LoadStore /\ ~TakeLock /\ ~OtherReload
        /\ ~UNCHANGED loadVars
        /\ LoadRead => lock' = lock /\ (turn \in Caching => turn' = turn)
    BY <1>4, <2>1, <2>3, <2>4 DEF LoadDone, LoadStore, LoadAt, TakeLock, OtherReload, LoadRead,
       loadVars, Providers, Answer
  <2> QED
    BY <1>3, <1>4, <2>1, <2>3, <2>4, <2>5
<1> QED
  BY <1>1, <1>2, <1>4

\* A cancel and a Stop are for good, and only a Stop halts a provider.
LEMMA EndsAreForGood ==
    ASSUME OnlyStopCloses, [Next]_vars
    PROVE  /\ ctxDone => ctxDone'
           /\ stopOnce => stopOnce'
           /\ ~stopOnce => UNCHANGED halted
<1> USE DEF stopVars, chanVars
<1>1. CASE UNCHANGED vars
  BY <1>1 DEF vars
<1>2. CASE StartCall \/ WatchProvider \/ WatchFails \/ StartReturn
  BY <1>2 DEF StartCall, WatchProvider, WatchFails, StartReturn
<1>3. ASSUME NEW p \in Providers,
             SourceChange(p) \/ TakeEvent(p) \/ PollRead(p) \/ PollCompare(p) \/ PollStore(p)
             \/ Send(p) \/ SendPanics(p) \/ WatchExit(p) \/ WatchError(p)
      PROVE  UNCHANGED stopVars
  BY <1>3 DEF SourceChange, TakeEvent, PollRead, PollCompare, PollStore, Send, SendPanics,
     WatchExit, WatchError
<1>4. CASE Receive \/ ReceiveZero \/ HandleError \/ ProcessExit \/ Dispatch \/ CallbacksDone
  BY <1>4 DEF Receive, ReceiveZero, HandleError, ProcessExit, Dispatch, CallbacksDone
<1>5. ASSUME NEW cb \in Callbacks, OnChange(cb) \/ RunCallback(cb) PROVE UNCHANGED stopVars
  BY <1>5 DEF OnChange, RunCallback
<1>6. CASE CancelParent \/ StopCall
  BY <1>6 DEF CancelParent, StopCall
<1>7. CASE StopProvider \/ StopClose
  BY <1>7 DEF StopProvider, StopClose, OnlyStopCloses
<1>8. CASE TakeLock \/ OtherReload \/ LoadRead \/ LoadStore
  BY <1>8 DEF TakeLock, OtherReload, LoadRead, LoadStore
<1>9. CASE LoadFallback \/ ReloadFails \/ LoadDone
  BY <1>9 DEF LoadFallback, ReloadFails, LoadDone
<1> QED
  BY <1>1, <1>2, <1>3, <1>4, <1>5, <1>6, <1>7, <1>8, <1>9 DEF Next, Progress, Failure

\* What the Load under way has read of a source that has not changed since.
LEMMA ReadStep ==
    ASSUME TypeOK, LoadsAreFresh, [Next]_vars, ~LoadFallback, ~ReloadFails,
           NEW p \in Providers, source'[p] = source[p],
           lock # "free" /\ Done(p) => got[p] = source[p]
    PROVE  /\ lock' # "free" /\ Done(p)' => got'[p] = source'[p]
           /\ lock # "free" => LoadDone \/ lock' # "free"
<1>0. /\ turn \in 1..(N + 1) /\ N \in Nat /\ p \in 1..N
      /\ got \in [Providers -> Versions]
      /\ lock = "free" => turn = 1 /\ phase = "read"
  BY DEF TypeOK, Providers, LoadsAreFresh
<1>1. CASE UNCHANGED <<loadVars, settingsVars>>
  BY <1>1 DEF loadVars, Done
<1>2. CASE (TakeLock \/ OtherReload) /\ UNCHANGED <<turn, phase>> /\ lock = "free"
           /\ lock' # "free"
  BY <1>0, <1>2 DEF Done
<1>3. CASE LoadRead
  <2>1. /\ got' = [got EXCEPT ![turn] = source[turn]] /\ lock' = lock
        /\ \/ phase' = "store" /\ turn' = turn
           \/ phase' = "read" /\ turn' = turn + 1
    BY <1>3 DEF LoadRead, LoadAt, Answer
  <2>2. CASE p = turn
    BY <1>0, <2>1, <2>2
  <2>3. CASE p # turn
    <3>1. Done(p)' => p < turn
      BY <1>0, <2>1, <2>3 DEF Done
    <3>2. got'[p] = got[p]
      BY <1>0, <2>1, <2>3
    <3> QED
      BY <2>1, <3>1, <3>2 DEF Done
  <2> QED
    BY <2>2, <2>3
<1>4. CASE LoadStore
  <2>1. phase = "store" /\ turn' = turn + 1 /\ phase' = "read" /\ UNCHANGED <<got, lock>>
    BY <1>4 DEF LoadStore, LoadAt
  <2>2. Done(p)' => Done(p)
    BY <1>0, <2>1 DEF Done
  <2> QED
    BY <2>1, <2>2
<1>5. CASE LoadDone
  BY <1>5 DEF LoadDone, LoadEnds
<1>6. TakeLock \/ OtherReload =>
         UNCHANGED <<turn, phase>> /\ lock = "free" /\ lock' # "free"
  BY DEF TakeLock, OtherReload
<1> QED
  BY <1>1, <1>2, <1>3, <1>4, <1>5, <1>6, LoadFrame

LEMMA SettledStep ==
    ASSUME WatchInv, SettledUntilWatched, [UndisturbedNext]_vars
    PROVE  SettledUntilWatched'
<1>0. TypeOK /\ LoadsAreFresh /\ OnlyStopCloses /\ [Next]_vars
  BY Undisturbed DEF WatchInv
<1>1. ASSUME NEW p \in Providers, gor'[p] = "none", ~ctxDone'
      PROVE  /\ loaded'[p] = source'[p]
             /\ lock' # "free" /\ Done(p)' => got'[p] = source'[p]
  <2>1. gor[p] = "none" /\ ~ctxDone /\ source'[p] = source[p]
    BY <1>0, <1>1, NoneBefore, EndsAreForGood, Undisturbed
  <2>2. /\ loaded[p] = source[p] /\ ~LoadFallback /\ ~ReloadFails
        /\ lock # "free" /\ Done(p) => got[p] = source[p]
    BY <2>1, Undisturbed DEF SettledUntilWatched
  <2>3. loaded'[p] = source[p]
    <3>1. LoadDone => loaded' = got /\ lock # "free" /\ Done(p)
      BY DEF LoadDone, Done, Providers
    <3> QED
      BY <1>0, <2>2, <3>1, WatchFrame DEF settingsVars
  <2> QED
    BY <1>0, <2>1, <2>2, <2>3, ReadStep
<1> QED
  BY <1>1 DEF SettledUntilWatched

LEMMA NobodyEndedStep ==
    ASSUME WatchInv, NobodyEnded, [UndisturbedNext]_vars
    PROVE  NobodyEnded'
<1>0. TypeOK /\ OnlyStopCloses /\ [Next]_vars
  BY Undisturbed DEF WatchInv
<1>1. ASSUME ~ctxDone' PROVE missed' = {}
  <2>1. ~ctxDone /\ missed = {} /\ ~LoadFallback
    BY <1>0, <1>1, EndsAreForGood, Undisturbed DEF NobodyEnded
  <2> QED
    BY <1>0, <2>1, LoadFrame DEF loadVars, LoadEnds
<1>2. ASSUME ~ctxDone', ~stopOnce'
      PROVE  halted' = {} /\ \A p \in Providers : gor'[p] # "done"
  <2>1. ~ctxDone /\ ~stopOnce /\ halted = {} /\ halted' = halted
        /\ \A p \in Providers : gor[p] # "done"
    BY <1>0, <1>2, EndsAreForGood DEF NobodyEnded
  <2>2. \A p \in Providers : ~WatchExit(p)
    BY <2>1 DEF WatchExit
  <2> QED
    BY <1>0, <2>1, <2>2, GoroutineFrame
<1> QED
  BY <1>1, <1>2 DEF NobodyEnded

\* Only watchLoop takes events from the queue of fsnotify.
LEMMA QueueFrame ==
    ASSUME TypeOK, [Next]_vars, NEW p \in Providers
    PROVE  queued'[p] >= queued[p] \/ TakeEvent(p)
<1> USE DEF sourceVars
<1>0. queued \in [Providers -> Nat]
  BY DEF TypeOK
<1>1. ASSUME UNCHANGED queued PROVE queued'[p] >= queued[p]
  BY <1>0, <1>1
<1>2. CASE UNCHANGED vars
  BY <1>1, <1>2 DEF vars
<1>3. CASE StartCall \/ WatchProvider \/ WatchFails \/ StartReturn
  BY <1>1, <1>3 DEF StartCall, WatchProvider, WatchFails, StartReturn
<1>4. ASSUME NEW q \in Providers, SourceChange(q) PROVE queued'[p] >= queued[p]
  BY <1>0, <1>1, <1>4 DEF SourceChange, Noted
<1>5. ASSUME NEW q \in Providers, TakeEvent(q), q # p PROVE queued'[p] >= queued[p]
  BY <1>0, <1>5 DEF TakeEvent
<1>6. ASSUME NEW q \in Providers,
             PollRead(q) \/ PollCompare(q) \/ PollStore(q) \/ Send(q) \/ SendPanics(q)
             \/ WatchExit(q) \/ WatchError(q)
      PROVE  UNCHANGED queued
  BY <1>6 DEF PollRead, PollCompare, PollStore, Send, SendPanics, WatchExit, WatchError
<1>7. CASE Receive \/ ReceiveZero \/ HandleError \/ ProcessExit \/ Dispatch \/ CallbacksDone
  BY <1>1, <1>7 DEF Receive, ReceiveZero, HandleError, ProcessExit, Dispatch, CallbacksDone
<1>8. ASSUME NEW cb \in Callbacks, OnChange(cb) \/ RunCallback(cb) PROVE UNCHANGED queued
  BY <1>8 DEF OnChange, RunCallback
<1>9. CASE CancelParent \/ StopCall \/ StopProvider \/ StopClose
  BY <1>1, <1>9 DEF CancelParent, StopCall, StopProvider, StopClose
<1>10. CASE TakeLock \/ OtherReload \/ LoadRead \/ LoadStore
  BY <1>1, <1>10 DEF TakeLock, OtherReload, LoadRead, LoadStore
<1>11. CASE LoadFallback \/ ReloadFails \/ LoadDone
  BY <1>1, <1>11 DEF LoadFallback, ReloadFails, LoadDone
<1> QED
  BY <1>1, <1>2, <1>3, <1>4, <1>5, <1>6, <1>7, <1>8, <1>9, <1>10, <1>11 DEF Next, Progress, Failure

\* A report waits until a Load that is made for it has begun.
LEMMA WaitingStep ==
    ASSUME WatchInv, [Next]_vars, NEW p \in Providers, Waiting(p)
    PROVE  Waiting(p)' \/ TakeLock
<1>0. TypeOK /\ LoadsAreFresh /\ WatchedOnce /\ out \in [Providers -> Event]
  BY DEF WatchInv, TypeOK
<1>1. ASSUME gor[p] = "send", IsReport(out[p], p) PROVE Waiting(p)'
  <2>1. CASE gor'[p] = gor[p] /\ out'[p] = out[p]
    BY <1>1, <2>1 DEF Waiting, IsReport
  <2>2. CASE Send(p)
    <3>1. events' = Append(events, out[p])
      BY <2>2 DEF Send
    <3>2. Len(events) + 1 \in DOMAIN events' /\ events'[Len(events) + 1] = out[p]
      BY <1>0, <3>1, ChannelFacts
    <3> QED
      BY <1>1, <3>2 DEF Waiting, IsReport
  <2>3. ~(WatchProvider /\ next = p)
    BY <1>0, <1>1 DEF WatchedOnce, WatchProvider, Providers
  <2> QED
    BY <1>0, <1>1, <2>1, <2>2, <2>3, GoroutineFrame
<1>2. ASSUME NEW i \in DOMAIN events, IsReport(events[i], p) PROVE Waiting(p)'
  <2>1. CASE UNCHANGED events
    BY <1>2, <2>1 DEF Waiting, IsReport
  <2>2. CASE Receive
    <3>1. CASE i = 1
      <4>1. proc' = "handle" /\ cur' = events[i] /\ lock' = lock /\ lock # "events"
        BY <1>0, <2>2, <3>1, ChannelFacts DEF Receive, Handle, loadVars, LoadsAreFresh
      <4> QED
        BY <1>2, <4>1 DEF Waiting, IsReport
    <3>2. CASE i # 1
      <4>1. i - 1 \in DOMAIN events' /\ events'[i - 1] = events[i]
        BY <1>0, <2>2, <3>2, ChannelFacts DEF Receive
      <4> QED
        BY <1>2, <4>1 DEF Waiting, IsReport
    <3> QED
      BY <3>1, <3>2
  <2>3. ASSUME NEW q \in Providers, Send(q) PROVE Waiting(p)'
    <3>1. events' = Append(events, out[q]) /\ out[q] \in Event
      BY <1>0, <2>3 DEF Send
    <3>2. i \in DOMAIN events' /\ events'[i] = events[i]
      BY <1>0, <3>1, ChannelFacts
    <3> QED
      BY <1>2, <3>2 DEF Waiting, IsReport
  <2> QED
    BY <2>1, <2>2, <2>3, WatchFrame
<1>3. ASSUME proc = "handle", lock # "events", IsReport(cur, p), ~TakeLock PROVE Waiting(p)'
  <2>1. UNCHANGED <<proc, cur>>
    <3>1. ~StartReturn
      BY <1>0, <1>3 DEF WatchedOnce, StartReturn
    <3> QED
      BY <1>3, <3>1, ProcessFrame DEF IsReport
  <2>2. lock' # "events"
    BY <1>3, LoadFrame DEF LoadEnds, loadVars
  <2> QED
    BY <1>3, <2>1, <2>2 DEF Waiting, IsReport
<1> QED
  BY <1>1, <1>2, <1>3 DEF Waiting

\* What can be noticed stays so until it is in a goroutine's hands, or a Load has
\* read it.
LEMMA NoticeableStep ==
    ASSUME WatchInv, [Next]_vars, NEW p \in Providers, source'[p] = source[p], Noticeable(p)
    PROVE  Noticeable(p)' \/ Waiting(p)' \/ Coming(p)'
<1>0. /\ TypeOK /\ OnlyStopCloses /\ p \in 1..N /\ turn \in 1..(N + 1)
      /\ cache \in [Providers -> Versions] /\ queued \in [Providers -> Nat]
      /\ out \in [Providers -> Event]
      /\ gor \in [Providers -> {"none", "select", "compare", "store", "send", "done"}]
  BY DEF WatchInv, TypeOK, Providers
<1>1. CASE p \in Caching
  <2>1. CASE cache'[p] = cache[p]
    BY <1>1, <2>1 DEF Noticeable
  <2>2. CASE PollStore(p)
    <3>1. gor'[p] = "send" /\ out'[p] = out[p] /\ IsReport(out[p], p)
      BY <1>0, <2>2 DEF PollStore, Hold, OnlyStopCloses
    <3> QED
      BY <3>1 DEF Waiting, IsReport
  <2>3. CASE LoadStore /\ turn = p
    <3>1. /\ cache'[p] = got[p] /\ turn' = p + 1 /\ lock' # "free" /\ got' = got
      BY <1>0, <2>3 DEF LoadStore, LoadAt
    <3>2. got[p] = source[p] => Coming(p)'
      BY <3>1 DEF Coming
    <3> QED
      BY <1>1, <3>1, <3>2 DEF Noticeable
  <2>4. \A q \in Providers : PollStore(q) /\ q # p => cache'[p] = cache[p]
    BY <1>0 DEF PollStore
  <2>5. LoadStore /\ turn # p => cache'[p] = cache[p]
    BY <1>0 DEF LoadStore
  <2> QED
    BY <2>1, <2>2, <2>3, <2>4, <2>5, WatchFrame
<1>2. CASE p \notin Caching
  <2>1. CASE TakeEvent(p)
    <3>1. gor'[p] = "send" /\ out'[p] = Change(p) /\ IsReport(Change(p), p)
      BY <1>0, <2>1, ChangeFacts DEF TakeEvent, Hold
    <3> QED
      BY <3>1 DEF Waiting, IsReport
  <2>2. CASE queued'[p] >= queued[p]
    <3>1. queued[p] > 0 /\ queued[p] \in Nat
      BY <1>0, <1>2 DEF Noticeable
    <3>2. queued' \in [Providers -> Nat]
      BY <1>0, WatchTypeStep DEF TypeOK
    <3>3. queued'[p] > 0
      BY <2>2, <3>1, <3>2
    <3> QED
      BY <1>2, <3>3 DEF Noticeable
  <2>3. queued'[p] >= queued[p] \/ TakeEvent(p)
    BY <1>0, QueueFrame
  <2> QED
    BY <2>1, <2>2, <2>3
<1> QED
  BY <1>1, <1>2

LEMMA NoLossStep ==
    ASSUME UndisturbedInv, [UndisturbedNext]_vars
    PROVE  NoChangeIsLost'
<1>0. /\ WatchInv /\ TypeOK /\ NothingInvented /\ LoadsAreFresh /\ OnlyStopCloses /\ [Next]_vars
      /\ \A p \in Providers : source[p] \in Nat /\ loaded[p] \in Nat /\ got[p] \in Nat
  BY Undisturbed, EventFacts DEF UndisturbedInv, WatchInv, TypeOK
<1> SUFFICES ASSUME ~ctxDone', ~stopOnce', NEW p \in Providers, gor'[p] # "none",
                    loaded'[p] < source'[p]
             PROVE  Noticeable(p)' \/ Waiting(p)' \/ Coming(p)'
  BY DEF NoChangeIsLost
<1>1. /\ ~ctxDone /\ ~stopOnce /\ missed = {} /\ halted = {} /\ gor[p] # "done"
      /\ ~LoadFallback /\ ~ReloadFails
  BY <1>0, EndsAreForGood, Undisturbed DEF UndisturbedInv, NobodyEnded
<1>2. gor[p] # "none"
  <2>1. ASSUME gor[p] = "none" PROVE FALSE
    <3>1. WatchProvider
      BY <1>0, <2>1, NoneBefore
    <3>2. loaded[p] = source[p]
      BY <1>1, <2>1 DEF UndisturbedInv, SettledUntilWatched
    <3> QED
      BY <1>0, <3>1, <3>2 DEF WatchProvider, settingsVars, sourceVars
  <2> QED
    BY <2>1
\* What has changed now can be noticed.
<1>3. CASE source'[p] # source[p]
  <2>1. source \in [Providers -> Versions]
    BY <1>0 DEF TypeOK
  <2>2. SourceChange(p)
    <3>1. \A q \in Providers : SourceChange(q) => q = p
      BY <1>3, <2>1 DEF SourceChange
    <3>2. \E q \in Providers : SourceChange(q)
      BY <1>0, <1>3, WatchFrame
    <3> QED
      BY <3>1, <3>2
  <2>3. CASE p \in Caching
    <3>1. cache'[p] = cache[p] /\ cache[p] <= source[p] /\ source'[p] = source[p] + 1
      BY <1>0, <2>1, <2>2 DEF SourceChange, NothingInvented
    <3>2. cache[p] \in Nat
      BY <1>0, EventFacts DEF TypeOK
    <3>3. cache'[p] # source'[p]
      BY <1>0, <3>1, <3>2
    <3> QED
      BY <2>3, <3>3 DEF Noticeable
  <2>4. CASE p \notin Caching
    <3>1. PICK n \in 1..2 : queued' = [queued EXCEPT ![p] = @ + n]
      BY <1>1, <1>2, <2>2, <2>4 DEF SourceChange, Noted
    <3>2. queued \in [Providers -> Nat]
      BY <1>0 DEF TypeOK
    <3>3. queued'[p] > 0
      BY <3>1, <3>2
    <3> QED
      BY <2>4, <3>3 DEF Noticeable
  <2> QED
    BY <2>3, <2>4
<1>4. CASE source'[p] = source[p]
  <2>1. loaded[p] < source[p] /\ (LoadDone => ~Coming(p))
    <3>1. CASE LoadDone
      <4>1. loaded'[p] = got[p] /\ lock # "free" /\ Done(p)
        BY <3>1 DEF LoadDone, Done, Providers
      <4>2. got[p] >= loaded[p]
        BY <1>0, <1>1, <4>1 DEF LoadsAreFresh
      <4> QED
        BY <1>0, <1>4, <4>1, <4>2 DEF Coming
    <3>2. CASE ~LoadDone
      BY <1>0, <1>4, <3>2, WatchFrame DEF settingsVars
    <3> QED
      BY <3>1, <3>2
  <2>2. Noticeable(p) \/ Waiting(p) \/ Coming(p)
    BY <1>1, <1>2, <2>1 DEF UndisturbedInv, NoChangeIsLost
  <2>3. CASE Noticeable(p)
    BY <1>0, <1>4, <2>3, NoticeableStep
  <2>4. CASE Waiting(p)
    <3>1. TakeLock => Coming(p)'
      <4>1. TakeLock => turn' = 1 /\ phase' = "read" /\ lock' # "free"
        BY <1>0 DEF TakeLock, LoadsAreFresh
      <4> QED
        BY <4>1 DEF Coming, Done, Providers
    <3> QED
      BY <1>0, <2>4, <3>1, WaitingStep
  <2>5. CASE Coming(p)
    <3>1. ~LoadDone /\ lock # "free" /\ (Done(p) => got[p] = source[p])
      BY <2>1, <2>5 DEF Coming
    <3> QED
      BY <1>0, <1>1, <1>4, <3>1, ReadStep DEF Coming
  <2> QED
    BY <2>2, <2>3, <2>4, <2>5
<1> QED
  BY <1>3, <1>4

\* UndisturbedInv holds in every state while the sources can be read.
THEOREM UndisturbedInvariant == UndisturbedSpec => []UndisturbedInv
<1>1. Init => UndisturbedInv
  <2> SUFFICES ASSUME Init PROVE UndisturbedInv
    OBVIOUS
  <2>1. SettledUntilWatched /\ NobodyEnded
    BY DEF Init, SettledUntilWatched, NobodyEnded
  <2>2. NoChangeIsLost
    BY DEF Init, NoChangeIsLost
  <2> QED
    BY <2>1, <2>2, WatchInvInit DEF UndisturbedInv
<1>2. UndisturbedInv /\ [UndisturbedNext]_vars => UndisturbedInv'
  <2> SUFFICES ASSUME UndisturbedInv, [UndisturbedNext]_vars PROVE UndisturbedInv'
    OBVIOUS
  <2>1. WatchInv /\ SettledUntilWatched /\ NobodyEnded /\ [Next]_vars
    BY Undisturbed DEF UndisturbedInv
  <2> QED
    BY <2>1, WatchInvStep, SettledStep, NobodyEndedStep, NoLossStep DEF UndisturbedInv
<1> QED
  BY <1>1, <1>2, PTL DEF UndisturbedSpec

\* A change that the settings lack can be noticed, is reported or is being loaded,
\* though polls and the Loads of several callers overwrite each other's answers.
THEOREM NoNoticedChangeIsLost == UndisturbedSpec => []NoChangeIsLost
<1>1. UndisturbedInv => NoChangeIsLost
  BY DEF UndisturbedInv
<1> QED
  BY <1>1, UndisturbedInvariant, PTL
=============================================================================
