------------------------------ MODULE HotReload ------------------------------
(***************************************************************************)
(* The two goroutines that reload the loader: processEvents of watch.go,   *)
(* for the events of a FileProvider, and the goroutine of ListenForReload, *)
(* for SIGHUP.  Both take the loader's write lock and load the files one   *)
(* after the other, while the files change.                                *)
(***************************************************************************)
EXTENDS FileProvider

VARIABLES sig,          \* sigs, which has room for one signal, holds one
          pc,           \* where each goroutine stands
          holder,       \* who holds cl.mu
          settings,     \* cl.settings: the content it has of each file
          ctxDone,      \* the program's context is cancelled
          asked         \* history: the files whose last change was followed
                        \* by what asks each goroutine for a reload, all files
                        \* being readable since

Nobody == "nobody"
Callers == {"events", "signals"}
reloadVars == <<sig, pc, holder, settings, ctxDone>>
vars == <<fileVars, reloadVars, asked>>

ASSUME ReadersAssumption == Readers = Callers

TypeOK ==
    /\ FileTypeOK
    /\ sig \in BOOLEAN /\ ctxDone \in BOOLEAN
    /\ pc \in [Callers -> {"none", "select", "lock", "load", "done"}]
    /\ holder \in Callers \union {Nobody}
    /\ settings \in [Files -> Contents]
    /\ asked \in [Callers -> SUBSET Files]

\* After the first Load and ListenForReload.
HotInit ==
    /\ FileInit
    /\ sig = FALSE /\ ctxDone = FALSE
    /\ pc = [c \in Callers |-> IF c = "signals" THEN "select" ELSE "none"]
    /\ holder = Nobody
    /\ settings = disk
    /\ asked = [c \in Callers |-> {}]

Goto(c, where) == pc' = [pc EXCEPT ![c] = where]

-----------------------------------------------------------------------------
(* The files change; a SIGHUP arrives.                                     *)

Readable == \A f \in Files : ~ParseMayFail(f)

\* fsnotify queues an event for this change that should lead to a reload.
Announces(f, op) ==
    /\ Watched
    /\ Len(fs) < QueueBound
    /\ op # "remove" /\ paths[f].asGiven

Write(f, op) == Truncate(f, op) \/ Finish(f, op) \/ RenameOver(f, op)

\* Bound: once the context is cancelled the files no longer change.
FileChange(f, op) ==
    /\ ~ctxDone
    /\ Write(f, op) \/ Remove(f, op)
    /\ asked' = [c \in Callers |->
                    IF ~Readable' THEN {}
                    ELSE IF c = "events" /\ Announces(f, op) THEN Files
                    ELSE asked[c] \ {f}]
    /\ UNCHANGED reloadVars

\* The runtime does not wait for room: a second signal is dropped.
Notify_Unbuffered == sig' = (sig \/ pc["signals"] = "select")       \* mutant
Notify == sig' = TRUE

Sighup ==
    /\ pc["signals"] # "done"
    /\ Notify
    /\ asked' = IF Readable /\ ~ctxDone
                THEN [asked EXCEPT !["signals"] = Files] ELSE asked
    /\ UNCHANGED <<fileVars, pc, holder, settings, ctxDone>>

-----------------------------------------------------------------------------
(* Start of a WatchManager with this provider, and the three goroutines.    *)

Start ==
    /\ Watch \/ WatchFails
    /\ Goto("events", "select")
    /\ UNCHANGED <<sig, holder, settings, ctxDone, asked>>

WatchLoop ==
    /\ TakeEvent \/ SkipEvent \/ TakeError \/ Send \/ LoopExit(ctxDone)
    /\ UNCHANGED <<reloadVars, asked>>

\* An event for which handleEvent reloads, and one it only logs.
ReceiveChange ==
    /\ pc["events"] = "select"
    /\ events # <<>> /\ Head(events) = "changed"
    /\ events' = Tail(events)
    /\ Goto("events", "lock")
    /\ UNCHANGED <<diskVars, fs, overflow, loop, out, stopped, read, sig,
                   holder, settings, ctxDone, asked>>

ReceiveError ==
    /\ pc["events"] = "select"
    /\ events # <<>> /\ Head(events) = "error"
    /\ events' = Tail(events)
    /\ UNCHANGED <<diskVars, fs, overflow, loop, out, stopped, read,
                   reloadVars, asked>>

ReceiveSignal ==
    /\ pc["signals"] = "select"
    /\ sig
    /\ sig' = FALSE
    /\ Goto("signals", "lock")
    /\ UNCHANGED <<fileVars, holder, settings, ctxDone, asked>>

MayExit_EventsOnly(c) == ctxDone /\ c = "events"    \* mutant
MayExit(c) == ctxDone

Exit(c) ==
    /\ pc[c] = "select"
    /\ MayExit(c)
    /\ Goto(c, "done")
    /\ UNCHANGED <<fileVars, sig, holder, settings, ctxDone, asked>>

-----------------------------------------------------------------------------
(* Reload.  A failed one leaves the settings as they are.                  *)

CanLock_Shared == TRUE          \* mutant: Load takes the read lock
CanLock == holder = Nobody

Lock(c) ==
    /\ pc[c] = "lock"
    /\ CanLock
    /\ holder' = c
    /\ LoadCall(c)
    /\ Goto(c, "load")
    /\ UNCHANGED <<diskVars, watchVars, sig, settings, ctxDone, asked>>

LoadNext(c) ==
    /\ pc[c] = "load"
    /\ LoadFile(c)
    /\ UNCHANGED <<diskVars, watchVars, reloadVars, asked>>

Unlock(c) ==
    /\ holder' = Nobody
    /\ Goto(c, "select")
    /\ read' = [read EXCEPT ![c] = <<>>]

ReloadFails(c) ==
    /\ pc[c] = "load"
    /\ LoadFails(c)
    /\ Unlock(c)
    /\ UNCHANGED <<diskVars, watchVars, sig, settings, ctxDone, asked>>

Reload(c) ==
    /\ pc[c] = "load"
    /\ Loaded(c)
    /\ settings' = read[c]
    /\ Unlock(c)
    /\ UNCHANGED <<diskVars, watchVars, sig, ctxDone, asked>>

-----------------------------------------------------------------------------
(* The end.                                                                *)

\* Bound: a program stops the provider or cancels the context, not both.
StopProvider ==
    /\ Stop /\ ~ctxDone
    /\ asked' = [asked EXCEPT !["events"] = {}]
    /\ UNCHANGED reloadVars

Cancel ==
    /\ ~ctxDone /\ ~stopped
    /\ ctxDone' = TRUE
    /\ asked' = [c \in Callers |-> {}]
    /\ UNCHANGED <<fileVars, sig, pc, holder, settings>>

ReloadStep(c) == LoadNext(c) \/ ReloadFails(c) \/ Reload(c)
Receive == ReceiveChange \/ ReceiveError

Next ==
    \/ \E f \in Files, op \in Ops : FileChange(f, op)
    \/ Sighup \/ Start \/ WatchLoop
    \/ ReceiveChange \/ ReceiveError \/ ReceiveSignal
    \/ \E c \in Callers :
          Exit(c) \/ Lock(c) \/ LoadNext(c) \/ ReloadFails(c) \/ Reload(c)
    \/ StopProvider \/ Cancel

(* Goroutines run.  Signals may never end, events do: against the signals  *)
(* the other caller relies on sync.Mutex, which starves nobody, and the    *)
(* exit on select, which takes at last a branch that is ready again and    *)
(* again.  Nothing makes a file change or a signal arrive.                 *)
Fairness ==
    /\ WF_vars(WatchLoop)
    /\ WF_vars(Receive) /\ WF_vars(ReceiveSignal)
    /\ \A c \in Callers : WF_vars(ReloadStep(c))
    /\ WF_vars(Lock("signals")) /\ SF_vars(Lock("events"))
    /\ WF_vars(Exit("events")) /\ SF_vars(Exit("signals"))

HotSpec == HotInit /\ [][Next]_vars /\ Fairness

-----------------------------------------------------------------------------
(* Properties.                                                             *)

ReloadIsComing(c) ==
    \/ pc[c] = "lock"
    \/ c = "signals" /\ sig
    \/ /\ c = "events"
       /\ \/ \E i \in DOMAIN fs : fs[i].op # "remove" /\ paths[fs[i].file].asGiven
          \/ loop = "send" /\ out = "changed"
          \/ \E i \in DOMAIN events : events[i] = "changed"

WillLoad(c, f) ==
    pc[c] = "load" /\ (f \in DOMAIN read[c] => read[c][f] = disk[f])

\* No request to reload is used up by a reload that began too early, or that
\* met a file half written: while the files can be read, a file that differs
\* from the settings after a SIGHUP or an event that came with or after its
\* last change has a reload before it that will still read it, though the
\* signals share one slot and the lock is taken by the other goroutine.
RequestsAreHonoured ==
    \A c \in Callers : \A f \in asked[c] :
        settings[f] = disk[f] \/ ReloadIsComing(c) \/ WillLoad(c, f)

\* Two reloads at the same time never put back what a file was before: not an
\* older version, and not one that has been removed.
FilesNeverGoBack ==
    [][\A f \in Files : settings'[f].at >= settings[f].at]_vars

-----------------------------------------------------------------------------
(* What RequestsAreHonoured and FilesNeverGoBack rest on.                  *)

\* The goroutine that is loading is the one that holds the lock, and there is
\* none for the events before Start.
LockInv ==
    /\ \A c \in Callers : pc[c] = "load" <=> holder = c
    /\ loop = "unstarted" => pc["events"] = "none"

\* Content that is as old as the file's is the file's, unless it was read while
\* the file was being written.
UpToDate(content, f) ==
    /\ content.at <= disk[f].at
    /\ content.at = disk[f].at /\ disk[f].is # "torn" => content = disk[f]

\* What a reload has read lies between what the settings hold and the file.
ReadInv ==
    /\ \A f \in Files : disk[f].at <= clock /\ UpToDate(settings[f], f)
    /\ \A c \in Callers : pc[c] = "load" =>
          /\ Len(read[c]) <= Len(paths)
          /\ \A f \in DOMAIN read[c] :
                settings[f].at <= read[c][f].at /\ UpToDate(read[c][f], f)

\* Nothing is asked for while a file cannot be read, or of who has been ended.
AskedInv ==
    /\ \A c \in Callers : asked[c] # {} => Readable /\ ~ctxDone
    /\ stopped => asked["events"] = {}

\* The inductive invariant.
HotInv == TypeOK /\ LockInv /\ ReadInv /\ AskedInv /\ RequestsAreHonoured

-----------------------------------------------------------------------------
(* Liveness.                                                               *)

\* A file that is asked for and left alone is loaded at last and stays loaded.
FilesCatchUp ==
    \A f \in 1..2 :
        <>[](\E c \in Callers : f \in asked[c]) => <>[](settings[f] = disk[f])

\* Cancelling the context ends both goroutines, a storm of signals or not.
CancelEndsReloading ==
    ctxDone ~> \A c \in Callers : pc[c] \in {"none", "done"}
=============================================================================
