---------------------------- MODULE WatchManager ----------------------------
(***************************************************************************)
(* WatchManager of watch.go: the goroutines its providers start, the       *)
(* bounded event channel, the goroutine that processes the events, Start   *)
(* and Stop, beside a caller that reloads the same loader on its own       *)
(* account, as ListenForReload and the application do.                     *)
(*                                                                         *)
(* A provider with a cache is a VaultProvider: its poll and the Load of a  *)
(* reload each read the source and store what they have read later, so     *)
(* that an older answer can overwrite a newer one.  A provider without one *)
(* is a FileProvider: fsnotify queues its events, of which one change may  *)
(* cause several.  Each goroutine selects between its stop signals and     *)
(* news; with an event in hand it blocks while the channel is full.  A     *)
(* send on the closed channel, or one that is blocked when it is closed,   *)
(* panics and ends the process.  A receive from the closed and empty       *)
(* channel returns the zero WatchEvent: no source, and type EventChanged,  *)
(* which is 0 (types.go:10).  select takes any branch that is ready.       *)
(*                                                                         *)
(* A source's content is its version.  Any read may fail.                  *)
(***************************************************************************)
EXTENDS Integers, Sequences, FiniteSets

CONSTANTS N,            \* number of providers, loaded and watched in order 1..N
          Caching,      \* those whose Load answers from a cache when it fails
          Capacity,     \* size of the event channel, 100 in the code
          Callbacks,    \* functions given to OnChange
          MaxVersion,   \* bound: the last version of a source
          MaxChanges    \* bound: how often the sources change altogether

ASSUME NAssumption == N \in Nat \ {0}
ASSUME CachingAssumption == Caching \subseteq 1..N
ASSUME CapacityAssumption == Capacity \in Nat \ {0}
ASSUME MaxVersionAssumption == MaxVersion \in Nat \ {0}

VARIABLES source,       \* the current version of each provider's source
          queued,       \* how many events fsnotify has for each provider
          cache,        \* cachedData of each Caching provider
          gor,          \* where each provider's goroutine stands
          out,          \* the event it is making or sending
          events,       \* wm.events
          closed,       \* wm.events is closed
          ctxDone,      \* watchCtx is cancelled
          halted,       \* providers whose Stop has been called
          stopOnce,     \* wm.stopOnce is used up
          main,         \* where Start and Stop stand
          next,         \* the provider Start or Stop comes to next
          proc,         \* where processEvents stands
          cur,          \* the event it handles
          todo,         \* the callbacks it has still to run
          lock,         \* who holds the loader's lock for a Load
          turn,         \* the provider this Load comes to
          phase,        \* what it is about to do there
          got,          \* what it has collected
          missed,       \* the providers that answered it from their caches
          loaded,       \* the versions the loader's settings hold
          stale,        \* the providers that gave them from their caches
          callbacks,    \* wm.callbacks
          heard,        \* the settings when each callback last ran
          panicked      \* the process has died in a send

sourceVars == <<source, queued>>
watchVars == <<gor, out>>
chanVars == <<events, closed>>
stopVars == <<ctxDone, halted, stopOnce>>
mainVars == <<main, next>>
procVars == <<proc, cur, todo>>
loadVars == <<lock, turn, phase, got, missed>>
settingsVars == <<loaded, stale>>
callbackVars == <<callbacks, heard>>
vars == <<sourceVars, cache, watchVars, chanVars, stopVars, mainVars, procVars,
          loadVars, settingsVars, callbackVars, panicked>>

Providers == 1..N
NoProvider == 0
Versions == 0..MaxVersion
Types == {"changed", "error"}
Event == [from : Providers \union {NoProvider}, type : Types, ver : Versions]
ZeroEvent == [from |-> NoProvider, type |-> "changed", ver |-> 0]
Nothing == [p \in Providers |-> 0]

TypeOK ==
    /\ source \in [Providers -> Versions] /\ queued \in [Providers -> Nat]
    /\ cache \in [Providers -> Versions]
    /\ gor \in [Providers -> {"none", "select", "compare", "store", "send", "done"}]
    /\ out \in [Providers -> Event]
    /\ events \in Seq(Event) /\ Len(events) <= Capacity
    /\ closed \in BOOLEAN /\ ctxDone \in BOOLEAN /\ panicked \in BOOLEAN
    /\ stopOnce \in BOOLEAN
    /\ halted \subseteq Providers
    /\ main \in {"new", "starting", "running", "stopping", "stopped"}
    /\ next \in 1..(N + 1)
    /\ proc \in {"none", "select", "handle", "dispatch", "run", "done"}
    /\ cur \in Event /\ todo \subseteq Callbacks
    /\ lock \in {"free", "events", "other"}
    /\ turn \in 1..(N + 1) /\ phase \in {"read", "store"}
    /\ got \in [Providers -> Versions] /\ missed \subseteq Caching
    /\ loaded \in [Providers -> Versions] /\ stale \subseteq Caching
    /\ callbacks \subseteq Callbacks
    /\ heard \in [Callbacks -> [Providers -> Versions]]

\* The loader has been loaded before the watch starts.
Init ==
    /\ source = [p \in Providers |-> 1] /\ queued = [p \in Providers |-> 0]
    /\ cache = source
    /\ gor = [p \in Providers |-> "none"]
    /\ out = [p \in Providers |-> ZeroEvent]
    /\ events = <<>> /\ closed = FALSE
    /\ ctxDone = FALSE /\ halted = {} /\ stopOnce = FALSE
    /\ main = "new" /\ next = 1
    /\ proc = "none" /\ cur = ZeroEvent /\ todo = {}
    /\ lock = "free" /\ turn = 1 /\ phase = "read" /\ got = Nothing /\ missed = {}
    /\ loaded = source /\ stale = {}
    /\ callbacks = {}
    /\ heard = [cb \in Callbacks |-> Nothing]
    /\ panicked = FALSE

\* A step of a process that has not died.
Alive == ~panicked /\ UNCHANGED panicked

-----------------------------------------------------------------------------
(* The sources.                                                            *)

\* A file that is created and written makes two events.
Noted(p) ==
    IF p \in Caching \/ gor[p] \in {"none", "done"} \/ p \in halted
    THEN UNCHANGED queued
    ELSE \E n \in 1..2 : queued' = [queued EXCEPT ![p] = @ + n]

Changes == UNION {{p} \X (2..source[p]) : p \in Providers}

SourceChange(p) ==
    /\ Alive
    /\ source[p] < MaxVersion /\ Cardinality(Changes) < MaxChanges
    /\ source' = [source EXCEPT ![p] = @ + 1]
    /\ Noted(p)
    /\ UNCHANGED <<cache, watchVars, chanVars, stopVars, mainVars, procVars, loadVars,
                   settingsVars, callbackVars>>

-----------------------------------------------------------------------------
(* Start: watch the providers in turn, then start processEvents.           *)

\* Start gives the loader its watchCtx under the loader's lock.
StartCall ==
    /\ Alive
    /\ main = "new"
    /\ lock = "free"
    /\ main' = "starting"
    /\ UNCHANGED <<sourceVars, cache, watchVars, chanVars, stopVars, next, procVars,
                   loadVars, settingsVars, callbackVars>>

WatchProvider ==
    /\ Alive
    /\ main = "starting"
    /\ next \in Providers
    /\ gor' = [gor EXCEPT ![next] = "select"]
    /\ next' = next + 1
    /\ UNCHANGED <<sourceVars, cache, out, chanVars, stopVars, main, procVars, loadVars,
                   settingsVars, callbackVars>>

\* A Watch that fails is logged; Start goes on with the others.
WatchFails ==
    /\ Alive
    /\ main = "starting"
    /\ next \in Providers
    /\ next' = next + 1
    /\ UNCHANGED <<sourceVars, cache, watchVars, chanVars, stopVars, main, procVars,
                   loadVars, settingsVars, callbackVars>>

StartReturn ==
    /\ Alive
    /\ main = "starting"
    /\ next = N + 1
    /\ main' = "running"
    /\ next' = 1
    /\ proc' = "select"
    /\ UNCHANGED <<sourceVars, cache, watchVars, chanVars, stopVars, cur, todo, loadVars,
                   settingsVars, callbackVars>>

\* handleEvent holds wm.mu while it runs the callbacks.
OnChange(cb) ==
    /\ Alive
    /\ proc # "run"
    /\ callbacks' = callbacks \union {cb}
    /\ UNCHANGED <<sourceVars, cache, watchVars, chanVars, stopVars, mainVars, procVars,
                   loadVars, settingsVars, heard>>

-----------------------------------------------------------------------------
(* A provider's goroutine.                                                 *)

Hold(p, where, event) ==
    /\ gor' = [gor EXCEPT ![p] = where]
    /\ out' = [out EXCEPT ![p] = event]

Change(p) == [from |-> p, type |-> "changed", ver |-> source[p]]

\* watchLoop: an event of fsnotify, whatever the file holds by now.
TakeEvent(p) ==
    /\ Alive
    /\ p \notin Caching
    /\ gor[p] = "select"
    /\ queued[p] > 0
    /\ queued' = [queued EXCEPT ![p] = @ - 1]
    /\ Hold(p, "send", Change(p))
    /\ UNCHANGED <<source, cache, chanVars, stopVars, mainVars, procVars, loadVars,
                   settingsVars, callbackVars>>

\* poll: the Vault client reads nothing once the context is cancelled.
PollRead(p) ==
    /\ Alive
    /\ p \in Caching
    /\ gor[p] = "select"
    /\ ~ctxDone
    /\ Hold(p, "compare", Change(p))
    /\ UNCHANGED <<sourceVars, cache, chanVars, stopVars, mainVars, procVars, loadVars,
                   settingsVars, callbackVars>>

PollCompare(p) ==
    /\ Alive
    /\ gor[p] = "compare"
    /\ IF cache[p] = out[p].ver THEN Hold(p, "select", ZeroEvent) ELSE Hold(p, "store", out[p])
    /\ UNCHANGED <<sourceVars, cache, chanVars, stopVars, mainVars, procVars, loadVars,
                   settingsVars, callbackVars>>

PollStore_Silent(p) ==          \* mutant: what is stored is not reported
    /\ Alive
    /\ gor[p] = "store"
    /\ cache' = [cache EXCEPT ![p] = out[p].ver]
    /\ Hold(p, "select", ZeroEvent)
    /\ UNCHANGED <<sourceVars, chanVars, stopVars, mainVars, procVars, loadVars,
                   settingsVars, callbackVars>>
PollStore(p) ==
    /\ Alive
    /\ gor[p] = "store"
    /\ cache' = [cache EXCEPT ![p] = out[p].ver]
    /\ Hold(p, "send", out[p])
    /\ UNCHANGED <<sourceVars, chanVars, stopVars, mainVars, procVars, loadVars,
                   settingsVars, callbackVars>>

\* A poll that cannot read, an error of fsnotify.
WatchError(p) ==
    /\ Alive
    /\ gor[p] = "select"
    /\ Hold(p, "send", [from |-> p, type |-> "error", ver |-> 0])
    /\ UNCHANGED <<sourceVars, cache, chanVars, stopVars, mainVars, procVars, loadVars,
                   settingsVars, callbackVars>>

Enqueue_Drops(event) ==         \* mutant: a full channel drops the event
    events' = IF Len(events) < Capacity THEN Append(events, event) ELSE events
Enqueue_Unbounded(event) ==     \* mutant: the channel has no bound
    events' = Append(events, event)
Enqueue(event) ==
    /\ ~closed /\ Len(events) < Capacity
    /\ events' = Append(events, event)

Send(p) ==
    /\ Alive
    /\ gor[p] = "send"
    /\ Enqueue(out[p])
    /\ Hold(p, "select", ZeroEvent)
    /\ UNCHANGED <<sourceVars, cache, closed, stopVars, mainVars, procVars, loadVars,
                   settingsVars, callbackVars>>

SendPanics(p) ==
    /\ gor[p] = "send"
    /\ closed
    /\ ~panicked
    /\ panicked' = TRUE
    /\ UNCHANGED <<sourceVars, cache, watchVars, chanVars, stopVars, mainVars, procVars,
                   loadVars, settingsVars, callbackVars>>

ToldToEnd_ByStopOnly(p) == p \in halted        \* mutant: ctx.Done is forgotten
ToldToEnd(p) == ctxDone \/ p \in halted

WatchExit(p) ==
    /\ Alive
    /\ gor[p] = "select"
    /\ ToldToEnd(p)
    /\ gor' = [gor EXCEPT ![p] = "done"]
    /\ UNCHANGED <<sourceVars, cache, out, chanVars, stopVars, mainVars, procVars, loadVars,
                   settingsVars, callbackVars>>


-----------------------------------------------------------------------------
(* processEvents and handleEvent.                                          *)

Handle(event) ==
    /\ proc' = "handle"
    /\ cur' = event
    /\ UNCHANGED todo

Receive ==
    /\ Alive
    /\ proc = "select"
    /\ events # <<>>
    /\ Handle(Head(events))
    /\ events' = Tail(events)
    /\ UNCHANGED <<sourceVars, cache, watchVars, closed, stopVars, mainVars, loadVars,
                   settingsVars, callbackVars>>

ReceiveZero ==
    /\ Alive
    /\ proc = "select"
    /\ closed /\ events = <<>>
    /\ Handle(ZeroEvent)
    /\ UNCHANGED <<sourceVars, cache, watchVars, chanVars, stopVars, mainVars, loadVars,
                   settingsVars, callbackVars>>

Handled == proc' = "select" /\ cur' = ZeroEvent

HandleError ==
    /\ Alive
    /\ proc = "handle"
    /\ cur.type = "error"
    /\ Handled
    /\ UNCHANGED <<sourceVars, cache, watchVars, chanVars, stopVars, mainVars, todo,
                   loadVars, settingsVars, callbackVars>>

\* The callbacks run with wm.mu held, and each reads the loader's settings.
Dispatch ==
    /\ Alive
    /\ proc = "dispatch"
    /\ proc' = "run"
    /\ todo' = callbacks
    /\ UNCHANGED <<sourceVars, cache, watchVars, chanVars, stopVars, mainVars, cur,
                   loadVars, settingsVars, callbackVars>>

Tell_Forgotten(cb) == UNCHANGED heard       \* mutant
Tell(cb) == heard' = [heard EXCEPT ![cb] = loaded]

RunCallback(cb) ==
    /\ Alive
    /\ proc = "run" /\ cb \in todo
    /\ lock = "free"
    /\ Tell(cb)
    /\ todo' = todo \ {cb}
    /\ UNCHANGED <<sourceVars, cache, watchVars, chanVars, stopVars, mainVars, proc, cur,
                   loadVars, settingsVars, callbacks>>

CallbacksDone ==
    /\ Alive
    /\ proc = "run" /\ todo = {}
    /\ Handled
    /\ UNCHANGED <<sourceVars, cache, watchVars, chanVars, stopVars, mainVars, todo,
                   loadVars, settingsVars, callbackVars>>

Leave_Closing == proc' = "done" /\ closed' = TRUE  \* mutant: the receiver closes
Leave == proc' = "done" /\ UNCHANGED closed

ProcessExit ==
    /\ Alive
    /\ proc = "select"
    /\ ctxDone
    /\ Leave
    /\ UNCHANGED <<sourceVars, cache, watchVars, events, stopVars, mainVars, cur, todo,
                   loadVars, settingsVars, callbackVars>>

-----------------------------------------------------------------------------
(* The loader's Load, for processEvents or for somebody else.              *)

\* handleEvent reloads.
TakeLock ==
    /\ Alive
    /\ proc = "handle" /\ cur.type = "changed"
    /\ lock = "free" /\ lock' = "events"
    /\ UNCHANGED <<sourceVars, cache, watchVars, chanVars, stopVars, mainVars, procVars,
                   turn, phase, got, missed, settingsVars, callbackVars>>

\* ListenForReload or the application reloads, with a context of its own.
OtherReload ==
    /\ Alive
    /\ lock = "free" /\ lock' = "other"
    /\ UNCHANGED <<sourceVars, cache, watchVars, chanVars, stopVars, mainVars, procVars,
                   turn, phase, got, missed, settingsVars, callbackVars>>

\* The Load is at this point.
LoadAt(where) == lock # "free" /\ turn \in Providers /\ phase = where

Answer(version) ==
    /\ got' = [got EXCEPT ![turn] = version]
    /\ turn' = turn + 1

\* watchCtx is the context handleEvent reloads with; the Vault client reads
\* nothing once it is cancelled.
LoadRead ==
    /\ Alive
    /\ LoadAt("read")
    /\ lock = "events" /\ turn \in Caching => ~ctxDone
    /\ IF turn \in Caching
       THEN phase' = "store" /\ got' = [got EXCEPT ![turn] = source[turn]] /\ UNCHANGED turn
       ELSE Answer(source[turn]) /\ UNCHANGED phase
    /\ UNCHANGED <<sourceVars, cache, watchVars, chanVars, stopVars, mainVars, procVars,
                   lock, missed, settingsVars, callbackVars>>

LoadStore ==
    /\ Alive
    /\ LoadAt("store")
    /\ cache' = [cache EXCEPT ![turn] = got[turn]]
    /\ turn' = turn + 1 /\ phase' = "read"
    /\ UNCHANGED <<sourceVars, watchVars, chanVars, stopVars, mainVars, procVars, lock, got,
                   missed, settingsVars, callbackVars>>

\* The read fails; there is a cache since the first Load.
LoadFallback ==
    /\ Alive
    /\ LoadAt("read")
    /\ turn \in Caching
    /\ Answer(cache[turn])
    /\ missed' = missed \union {turn}
    /\ UNCHANGED <<sourceVars, cache, watchVars, chanVars, stopVars, mainVars, procVars, lock,
                   phase, settingsVars, callbackVars>>

LoadEnds == lock' = "free" /\ turn' = 1 /\ phase' = "read" /\ got' = Nothing /\ missed' = {}

\* Mutant: the return after a failed reload is missing.
AfterFailedReload_GoesOn == proc' = "dispatch" /\ UNCHANGED cur
AfterFailedReload == Handled

\* A provider without a cache fails: the settings stay as they were.
ReloadFails ==
    /\ Alive
    /\ LoadAt("read")
    /\ turn \notin Caching
    /\ LoadEnds
    /\ IF lock = "events" THEN AfterFailedReload ELSE UNCHANGED <<proc, cur>>
    /\ UNCHANGED <<sourceVars, cache, watchVars, chanVars, stopVars, mainVars, todo,
                   settingsVars, callbackVars>>

LoadDone ==
    /\ Alive
    /\ lock # "free" /\ turn = N + 1
    /\ loaded' = got /\ stale' = missed
    /\ LoadEnds
    /\ proc' = IF lock = "events" THEN "dispatch" ELSE proc
    /\ UNCHANGED <<sourceVars, cache, watchVars, chanVars, stopVars, mainVars, cur, todo,
                   callbackVars>>

-----------------------------------------------------------------------------
(* The end: the caller's context is cancelled, or Stop is called.          *)

Started == main = "starting" \/ proc # "none"

CancelParent ==
    /\ Alive
    /\ Started
    /\ ~ctxDone
    /\ ctxDone' = TRUE
    /\ UNCHANGED <<sourceVars, cache, watchVars, chanVars, halted, stopOnce, mainVars,
                   procVars, loadVars, settingsVars, callbackVars>>

Cancel_Forgotten == UNCHANGED ctxDone           \* mutant
Cancel == ctxDone' = TRUE

\* Stop before Start has no context to cancel, and uses up stopOnce.  Start and
\* Stop do not overlap.
StopCall ==
    /\ Alive
    /\ main \in {"new", "running"}
    /\ ~stopOnce /\ stopOnce' = TRUE
    /\ main' = "stopping"
    /\ IF main = "running" THEN Cancel ELSE UNCHANGED ctxDone
    /\ UNCHANGED <<sourceVars, cache, watchVars, chanVars, halted, next, procVars, loadVars,
                   settingsVars, callbackVars>>

\* A provider without a cache has nothing to stop before its Watch.
StopProvider ==
    /\ Alive
    /\ main = "stopping"
    /\ next \in Providers
    /\ halted' = IF next \in Caching \/ gor[next] # "none"
                 THEN halted \union {next} ELSE halted
    /\ next' = next + 1
    /\ UNCHANGED <<sourceVars, cache, watchVars, chanVars, ctxDone, stopOnce, main, procVars,
                   loadVars, settingsVars, callbackVars>>

StopClose ==
    /\ Alive
    /\ main = "stopping"
    /\ next = N + 1
    /\ closed' = TRUE
    /\ main' = IF Started THEN "stopped" ELSE "new"
    /\ next' = 1
    /\ UNCHANGED <<sourceVars, cache, watchVars, events, stopVars, procVars, loadVars,
                   settingsVars, callbackVars>>

-----------------------------------------------------------------------------
MainStep == WatchProvider \/ WatchFails \/ StartReturn \/ StopProvider \/ StopClose
WatchStep(p) == TakeEvent(p) \/ PollRead(p) \/ PollCompare(p) \/ PollStore(p) \/ SendPanics(p)
HandleStep == Receive \/ ReceiveZero \/ HandleError \/ Dispatch \/ CallbacksDone
LockStep == TakeLock \/ \E cb \in Callbacks : RunCallback(cb)
LoadStep == LoadRead \/ LoadStore \/ LoadFallback \/ ReloadFails \/ LoadDone

\* What the sources' failures cause.
Failure == LoadFallback \/ ReloadFails \/ \E p \in Providers : WatchError(p)

Progress ==
    \/ StartCall \/ WatchProvider \/ WatchFails \/ StartReturn
    \/ \E p \in Providers :
          \/ SourceChange(p) \/ TakeEvent(p)
          \/ PollRead(p) \/ PollCompare(p) \/ PollStore(p)
          \/ Send(p) \/ SendPanics(p) \/ WatchExit(p)
    \/ Receive \/ ReceiveZero \/ HandleError \/ ProcessExit
    \/ Dispatch \/ CallbacksDone
    \/ \E cb \in Callbacks : OnChange(cb) \/ RunCallback(cb)
    \/ TakeLock \/ OtherReload
    \/ LoadRead \/ LoadStore \/ LoadDone
    \/ CancelParent \/ StopCall \/ StopProvider \/ StopClose

Next == Progress \/ Failure

Spec == Init /\ [][Next]_vars

(* Goroutines run, and get a lock they wait for.  A select that meets a    *)
(* ready branch again and again takes it at last, since Go picks among the *)
(* ready branches at random; blocked senders of a channel are served in    *)
(* turn.                                                                   *)
Fairness ==
    /\ WF_vars(MainStep) /\ WF_vars(HandleStep) /\ WF_vars(LoadStep)
    /\ SF_vars(LockStep) /\ SF_vars(ProcessExit)
    /\ \A p \in Providers :
          WF_vars(WatchStep(p)) /\ SF_vars(Send(p)) /\ SF_vars(WatchExit(p))

(* Spec while the sources can be read, and a source changes only after its *)
(* Watch: a file that changes between Load and Watch is not reported.  A   *)
(* cancelled context makes the Vault client fail.                          *)
ChangesAfterWatch ==
    \A p \in Providers : source'[p] # source[p] => gor[p] # "none"
UndisturbedNext == (Progress \/ (ctxDone /\ Failure)) /\ ChangesAfterWatch
UndisturbedSpec == Init /\ [][UndisturbedNext]_vars /\ Fairness

-----------------------------------------------------------------------------
(* Properties.                                                             *)

\* While OnChange callbacks run for a provider's event, the settings hold the
\* change that event reports, though the event waited in the channel while the
\* source went on changing and others reload meanwhile, unless the reload could
\* not read the source and took the provider's answer from its cache, which
\* another Load may have put back since the report.
CallbacksSeeTheChange ==
    proc \in {"dispatch", "run"} /\ cur.from # NoProvider =>
        loaded[cur.from] >= cur.ver \/ cur.from \in stale

\* Only Stop's close of the channel makes a send panic and processEvents handle
\* an event that no provider sent, be it the Stop after Start or one before it: a
\* cancelled context alone, a full channel or a failed Watch never does, nor a
\* Stop that is still stopping the providers.
OnlyStopDoesHarm ==
    panicked \/ (proc \in {"handle", "dispatch", "run"} /\ cur.from = NoProvider) =>
        stopOnce /\ main # "stopping"

IsReport(event, p) == event.from = p /\ event.type = "changed"
InHand(p) ==
    (IF gor[p] = "send" THEN {out[p]} ELSE {}) \union (IF proc = "handle" THEN {cur} ELSE {})

\* The versions of p reported and not loaded for.
Undelivered(p) ==
    {e.ver : e \in {e \in InHand(p) \union {events[i] : i \in DOMAIN events} : IsReport(e, p)}}

\* The Load under way has read p.
Done(p) == p < turn \/ (p = turn /\ phase = "store")

\* Under UndisturbedSpec no change of a watched source is lost while nobody
\* cancels or stops: what the settings lack can still be noticed, or a report of
\* the provider waits for its reload, or a Load under way will bring it.  Polls,
\* Loads of processEvents and Loads of others may overwrite each other's answers
\* in the cache in any order.
Noticeable(p) == IF p \in Caching THEN cache[p] # source[p] ELSE queued[p] > 0
Waiting(p) ==
    \/ gor[p] = "send" /\ IsReport(out[p], p)
    \/ \E i \in DOMAIN events : IsReport(events[i], p)
    \/ proc = "handle" /\ lock # "events" /\ IsReport(cur, p)
Coming(p) == lock # "free" /\ (Done(p) => got[p] = source[p])

NoChangeIsLost ==
    ~ctxDone /\ ~stopOnce =>
        \A p \in Providers : gor[p] # "none" /\ loaded[p] < source[p] =>
            Noticeable(p) \/ Waiting(p) \/ Coming(p)

-----------------------------------------------------------------------------
(* What CallbacksSeeTheChange, OnlyStopDoesHarm and NoChangeIsLost rest on. *)

Holding == {"compare", "store", "send"}

\* The channel is closed by the end of a Stop only, and every event in it and
\* before it is a provider's.
OnlyStopCloses ==
    /\ main = "stopping" => stopOnce
    /\ closed => stopOnce /\ main # "stopping"
    /\ panicked => closed
    /\ \A p \in Providers :
          IF gor[p] \in Holding THEN out[p].from = p ELSE out[p] = ZeroEvent
    /\ \A p \in Providers :
          gor[p] \in {"compare", "store"} => p \in Caching /\ IsReport(out[p], p)
    /\ \A i \in DOMAIN events : events[i].from # NoProvider
    /\ proc \in {"handle", "dispatch", "run"} /\ cur.from = NoProvider =>
          closed /\ cur = ZeroEvent

\* Nothing is newer than its source.
Known(event) == event.from # NoProvider => event.ver <= source[event.from]
NothingInvented ==
    /\ \A p \in Providers :
          Known(out[p]) /\ cache[p] <= source[p] /\ got[p] <= source[p] /\ loaded[p] <= source[p]
    /\ \A i \in DOMAIN events : Known(events[i])
    /\ Known(cur)

\* One provider's reports are on their way in the order they were made in: what
\* is handled, what is in the channel, what its goroutine has in hand.
Precedes(e, f, p) == IsReport(e, p) /\ IsReport(f, p) => e.ver <= f.ver
ReportsInOrder ==
    \A p \in Providers :
        /\ \A i, j \in DOMAIN events : i < j => Precedes(events[i], events[j], p)
        /\ \A i \in DOMAIN events : Precedes(events[i], out[p], p)
        /\ proc = "handle" =>
              /\ \A i \in DOMAIN events : Precedes(cur, events[i], p)
              /\ Precedes(cur, out[p], p)

\* A provider is watched once, by the one Start.
WatchedOnce ==
    /\ main \in {"new", "starting"} => proc = "none"
    /\ main = "new" => next = 1
    /\ proc = "none" /\ main # "starting" => \A p \in Providers : gor[p] = "none"
    /\ main = "starting" => \A p \in Providers : p >= next => gor[p] = "none"

\* What a Load has read holds the settings before it, and the report it is for
\* or whose callbacks run meanwhile.
Asked(p) ==
    /\ cur.from = p /\ cur.type = "changed"
    /\ lock = "events" \/ proc \in {"dispatch", "run"}
LoadsAreFresh ==
    /\ lock = "events" => proc = "handle" /\ cur.type = "changed"
    /\ lock = "free" => turn = 1 /\ phase = "read"
    /\ turn = N + 1 => phase = "read"
    /\ phase = "store" => turn \in Caching
    /\ proc \in {"dispatch", "run"} => cur.type = "changed"
    /\ proc # "run" => todo = {}
    /\ \A p \in Providers :
          lock # "free" /\ Done(p) /\ p \notin missed =>
              got[p] >= loaded[p] /\ (Asked(p) => got[p] >= cur.ver)

\* The inductive invariant of Spec.
WatchInv ==
    /\ TypeOK
    /\ OnlyStopCloses /\ OnlyStopDoesHarm
    /\ NothingInvented /\ ReportsInOrder
    /\ WatchedOnce /\ LoadsAreFresh /\ CallbacksSeeTheChange

\* Until its Watch a provider's source is what the settings hold.
SettledUntilWatched ==
    ~ctxDone => \A p \in Providers : gor[p] = "none" =>
        /\ loaded[p] = source[p]
        /\ lock # "free" /\ Done(p) => got[p] = source[p]

\* Until a cancel no Load answers from a cache, nor does a goroutine end before
\* a cancel or Stop.
NobodyEnded ==
    /\ ~ctxDone => missed = {}
    /\ ~ctxDone /\ ~stopOnce => halted = {} /\ \A p \in Providers : gor[p] # "done"

\* The inductive invariant of UndisturbedSpec.
UndisturbedInv ==
    WatchInv /\ SettledUntilWatched /\ NobodyEnded /\ NoChangeIsLost

-----------------------------------------------------------------------------
(* What a watch delivers.                                                  *)

Delivery == INSTANCE ChangeDelivery WITH
    settings <- loaded,
    pending <- [p \in Providers |-> Undelivered(p)],
    due <- IF proc \in {"dispatch", "run"} THEN <<cur.from, cur.ver>> ELSE <<>>,
    calling <- proc = "run",
    owed <- todo,
    dead <- panicked

\* WatchManager implements ChangeDelivery: whatever the goroutines, the channel,
\* the caches, other reloads and Stop do between a change and its callbacks, what
\* is reported is delivered in the provider's order, by a reload that holds the
\* report as far as it could read the sources, and then each callback once, or is
\* given up because a source cannot be read.
ImplementsChangeDelivery == Delivery!Spec

-----------------------------------------------------------------------------
(* Liveness.                                                               *)

\* Under UndisturbedSpec every change that happens after OnChange is followed
\* by a run of that callback with settings that hold the change, however full
\* the channel is, unless the watch is cancelled or stopped first, or somebody
\* else's reload reads the change of a provider with a cache while no report of
\* it is under way: once that reload has stored it the poll finds no difference,
\* and OnChange may never run for it.
TakenByAnother(p, v) ==
    p \in Caching /\ lock = "other" /\ got[p] >= v /\ v \notin Undelivered(p)

ChangesAreDelivered ==
    \A p \in Providers, v \in 2..MaxVersion, cb \in Callbacks :
        gor[p] \notin {"none", "done"} /\ loaded[p] < v /\ source[p] = v /\ cb \in callbacks
            ~> heard[cb][p] >= v \/ ctxDone \/ closed \/ TakenByAnother(p, v)

Ended(p) == gor[p] \in {"none", "done"}

\* Stop leaves no goroutine behind: each ends, or one of them panics.  A Stop
\* before Start finds none.
StopEndsEverything ==
    main = "stopping" ~>
        panicked \/ (proc \in {"none", "done"} /\ \A p \in Providers : Ended(p))

\* Cancelling the context ends every goroutine, but for those that wait for
\* room in a channel that nobody empties any more.
CancelEndsWatching ==
    ctxDone ~>
        \/ panicked
        \/ /\ proc = "done"
           /\ \A p \in Providers :
                 Ended(p) \/ (gor[p] = "send" /\ Len(events) = Capacity)

-----------------------------------------------------------------------------
(* What the comments of the code say, and the code does not do.            *)

\* Stop "cancels watching and stops all providers" (watch.go:109): it does
\* not end the process.
StopNeverPanics == main = "stopped" => ~panicked
=============================================================================
