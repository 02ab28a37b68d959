---------------------------- MODULE ConfigLoader ----------------------------
(***************************************************************************)
(* ConfigLoader of loader.go: goroutines that load, reload, read and       *)
(* register callbacks under the loader's sync.RWMutex.                     *)
(*                                                                         *)
(* The providers are numbered 1..N in the ascending priority that Load     *)
(* sorts them into (provider.go, sortProvidersByPriority).  What a         *)
(* provider's source contains is its version, so the merged configuration  *)
(* is the version each provider contributed; 0 is the empty map New makes. *)
(* A provider of Fallback keeps what it last read and answers a failed     *)
(* read from it, as VaultProvider does.                                    *)
(*                                                                         *)
(* pc[t] is where a goroutine stands:                                      *)
(*   idle    outside the loader                                            *)
(*   lock    waits in mu.Lock for another writer to leave                  *)
(*   drain   has announced itself, waits for the active readers            *)
(*   load    holds the write lock, in Load's loop over the providers       *)
(*   append  holds the write lock, in OnReload                             *)
(*   snap    after Load's Unlock, about to copy the callbacks              *)
(*   run     runs the copied callbacks, no lock held                       *)
(*   rlock   waits in mu.RLock                                             *)
(*   read    holds the read lock: Get, Unmarshal, AllSettings, ...         *)
(***************************************************************************)
EXTENDS Integers, Sequences, FiniteSets, Functions

CONSTANTS Threads,      \* goroutines that share the loader
          N,            \* number of providers
          Fallback,     \* the providers that answer from a cache when down
          Callbacks,    \* the functions the program gives to OnReload
          MaxVersion,   \* bound: the last version a source reaches
          MaxCallbacks  \* bound: how many registrations a run makes

ASSUME NAssumption == N \in Nat \ {0}
ASSUME FallbackAssumption == Fallback \subseteq 1..N
ASSUME MaxVersionAssumption == MaxVersion \in Nat \ {0}

VARIABLES source,       \* the current version of each provider's source
          cache,        \* what a Fallback provider last stored; 0 is nil
          settings,     \* cl.settings
          onReload,     \* cl.onReload
          pc,           \* where each goroutine stands
          op,           \* the call it is in
          floor,        \* the source versions when it made the call
          got,          \* providerDataList: what Load has collected
          todo,         \* the copied callbacks Reload has still to run
          heard         \* the settings each callback read when it last ran

vars == <<source, cache, settings, onReload, pc, op, floor, got, todo, heard>>

Providers == 1..N
Direct == Providers \ Fallback
Loads == {"load", "reload"}
Calls == {"load", "reload", "register", "get"}
Phases == {"idle", "lock", "drain", "load", "append", "snap", "run", "rlock",
           "read"}

\* sync.RWMutex: a writer that has announced itself keeps new readers out
\* while it waits for the active ones, and keeps other writers out.
Writers == {t \in Threads : pc[t] \in {"drain", "load", "append"}}
\* Mutant: Reload keeps the read lock while it runs the callbacks.
Readers_InCallbacks == {t \in Threads : pc[t] \in {"read", "run"}}
Readers == {t \in Threads : pc[t] = "read"}
CanLock == Writers = {}
CanRLock_Always == TRUE         \* mutant: readers take no lock
CanRLock == Writers = {}

Goto(t, phase) == pc' = [pc EXCEPT ![t] = phase]

TypeOK ==
    /\ source \in [Providers -> Nat]
    /\ cache \in [Providers -> Nat]
    /\ settings \in [Providers -> Nat]
    /\ onReload \in Seq(Callbacks)
    /\ pc \in [Threads -> Phases]
    /\ op \in [Threads -> Calls]
    /\ floor \in [Threads -> [Providers -> Nat]]
    /\ got \in [Threads -> Seq(Nat)]
    /\ todo \in [Threads -> Seq(Callbacks)]
    /\ heard \in [Callbacks -> [Providers -> Nat]]

Init ==
    /\ source = [p \in Providers |-> 1]
    /\ cache = [p \in Providers |-> 0]
    /\ settings = [p \in Providers |-> 0]
    /\ onReload = <<>>
    /\ pc = [t \in Threads |-> "idle"]
    /\ op = [t \in Threads |-> "load"]
    /\ floor = [t \in Threads |-> source]
    /\ got = [t \in Threads |-> <<>>]
    /\ todo = [t \in Threads |-> <<>>]
    /\ heard = [cb \in Callbacks |-> settings]

-----------------------------------------------------------------------------
(* The environment: sources change, and a poll loop refreshes a cache with *)
(* an answer that may be as old as the poll.                               *)

SourceChange(p) ==
    /\ source[p] < MaxVersion
    /\ source' = [source EXCEPT ![p] = @ + 1]
    /\ UNCHANGED <<cache, settings, onReload, pc, op, floor, got, todo, heard>>

PollStore(p) ==
    /\ p \in Fallback
    /\ \E v \in 1..source[p] : cache' = [cache EXCEPT ![p] = v]
    /\ UNCHANGED <<source, settings, onReload, pc, op, floor, got, todo, heard>>

-----------------------------------------------------------------------------
(* Entering the loader and its lock.                                       *)

Registering == {t \in Threads : pc[t] # "idle" /\ op[t] = "register"}

Call(t, call) ==
    /\ pc[t] = "idle"
    /\ call = "register" =>
           Len(onReload) + Cardinality(Registering) < MaxCallbacks
    /\ op' = [op EXCEPT ![t] = call]
    /\ Goto(t, IF call = "get" THEN "rlock" ELSE "lock")
    /\ floor' = IF call \in Loads THEN [floor EXCEPT ![t] = source] ELSE floor
    /\ UNCHANGED <<source, cache, settings, onReload, got, todo, heard>>

Announce(t) ==
    /\ pc[t] = "lock"
    /\ CanLock
    /\ Goto(t, "drain")
    /\ UNCHANGED <<source, cache, settings, onReload, op, floor, got, todo, heard>>

Drain(t) ==
    /\ pc[t] = "drain"
    /\ Readers = {}
    /\ Goto(t, IF op[t] = "register" THEN "append" ELSE "load")
    /\ UNCHANGED <<source, cache, settings, onReload, op, floor, got, todo, heard>>

-----------------------------------------------------------------------------
(* Load: one provider after the other, all under the write lock.           *)

NextProvider(t) == Len(got[t]) + 1

\* Mutant: Load asks the providers before it has the lock.
MayAsk_BeforeLock(t) == pc[t] \in {"lock", "load"} /\ op[t] \in Loads
MayAsk(t) == pc[t] = "load"

\* Mutant: a provider that fails keeps what it contributed last.
Abort_KeepsOld(t) ==
    got' = [got EXCEPT ![t] = Append(@, settings[NextProvider(t)])] /\ UNCHANGED pc
Abort(t) == got' = [got EXCEPT ![t] = <<>>] /\ Goto(t, "idle")

Complete_OffByOne(t) == Len(got[t]) = N - 1     \* mutant
Complete(t) == Len(got[t]) = N

LoadFresh(t) ==
    LET p == NextProvider(t) IN
    /\ MayAsk(t)
    /\ p \in Providers
    /\ got' = [got EXCEPT ![t] = Append(@, source[p])]
    /\ cache' = [cache EXCEPT ![p] = IF p \in Fallback THEN source[p] ELSE @]
    /\ UNCHANGED <<source, settings, onReload, pc, op, floor, todo, heard>>

\* The read failed: a Fallback provider answers from what it has stored.
LoadCached(t) ==
    LET p == NextProvider(t) IN
    /\ pc[t] = "load"
    /\ p \in Fallback
    /\ cache[p] # 0
    /\ got' = [got EXCEPT ![t] = Append(@, cache[p])]
    /\ UNCHANGED <<source, cache, settings, onReload, pc, op, floor, todo, heard>>

\* The first provider error ends Load with the settings as they were.
LoadFail(t) ==
    LET p == NextProvider(t) IN
    /\ pc[t] = "load"
    /\ p \in Providers
    /\ p \in Fallback => cache[p] = 0
    /\ Abort(t)
    /\ UNCHANGED <<source, cache, settings, onReload, op, floor, todo, heard>>

Publish(t) ==
    /\ pc[t] = "load"
    /\ Complete(t)
    /\ settings' = got[t]
    /\ got' = [got EXCEPT ![t] = <<>>]
    /\ Goto(t, IF op[t] = "reload" THEN "snap" ELSE "idle")
    /\ UNCHANGED <<source, cache, onReload, op, floor, todo, heard>>

-----------------------------------------------------------------------------
(* Reload after its Load: copy the callbacks, then run them unlocked.      *)

CallbacksToRun_OffByOne == SubSeq(onReload, 1, Len(onReload) - 1)   \* mutant
CallbacksToRun == onReload

Snapshot(t) ==
    /\ pc[t] = "snap"
    /\ CanRLock
    /\ todo' = [todo EXCEPT ![t] = CallbacksToRun]
    /\ Goto(t, "run")
    /\ UNCHANGED <<source, cache, settings, onReload, op, floor, got, heard>>

\* A callback reads the configuration, which takes and releases the read lock.
RunCallback(t) ==
    /\ pc[t] = "run"
    /\ todo[t] # <<>>
    /\ CanRLock
    /\ heard' = [heard EXCEPT ![Head(todo[t])] = settings]
    /\ todo' = [todo EXCEPT ![t] = Tail(@)]
    /\ UNCHANGED <<source, cache, settings, onReload, pc, op, floor, got>>

Return(t) ==
    /\ pc[t] = "run"
    /\ todo[t] = <<>>
    /\ Goto(t, "idle")
    /\ UNCHANGED <<source, cache, settings, onReload, op, floor, got, todo, heard>>

-----------------------------------------------------------------------------
(* OnReload and the readers.                                               *)

AppendCallback(t) ==
    /\ pc[t] = "append"
    /\ \E cb \in Callbacks : onReload' = Append(onReload, cb)
    /\ Goto(t, "idle")
    /\ UNCHANGED <<source, cache, settings, op, floor, got, todo, heard>>

RLock(t) ==
    /\ pc[t] = "rlock"
    /\ CanRLock
    /\ Goto(t, "read")
    /\ UNCHANGED <<source, cache, settings, onReload, op, floor, got, todo, heard>>

RUnlock(t) ==
    /\ pc[t] = "read"
    /\ Goto(t, "idle")
    /\ UNCHANGED <<source, cache, settings, onReload, op, floor, got, todo, heard>>

-----------------------------------------------------------------------------
LoadStep(t) == LoadFresh(t) \/ LoadCached(t) \/ LoadFail(t)

ThreadStep(t) ==
    \/ \E call \in Calls : Call(t, call)
    \/ Announce(t) \/ Drain(t)
    \/ LoadFresh(t) \/ LoadCached(t) \/ LoadFail(t) \/ Publish(t)
    \/ Snapshot(t) \/ RunCallback(t) \/ Return(t)
    \/ AppendCallback(t)
    \/ RLock(t) \/ RUnlock(t)

Next ==
    \/ \E p \in Providers : SourceChange(p) \/ PollStore(p)
    \/ \E t \in Threads : ThreadStep(t)

Spec == Init /\ [][Next]_vars

(* Scheduling.  A goroutine that can run does.  Waiting for the lock needs *)
(* strong fairness: sync.Mutex hands itself to a waiter that has waited    *)
(* 1ms, and RWMutex.Unlock lets the waiting readers in before the next     *)
(* writer.  A provider's Load and a callback are assumed to return.        *)
Fairness ==
    \A t \in Threads :
        /\ SF_vars(Announce(t)) /\ WF_vars(Drain(t))
        /\ WF_vars(LoadStep(t)) /\ WF_vars(Publish(t))
        /\ SF_vars(Snapshot(t)) /\ SF_vars(RunCallback(t)) /\ WF_vars(Return(t))
        /\ WF_vars(AppendCallback(t))
        /\ SF_vars(RLock(t)) /\ WF_vars(RUnlock(t))

FairSpec == Spec /\ Fairness

-----------------------------------------------------------------------------
(* Properties.                                                             *)

\* While a writer changes the loader nobody reads it and nobody else writes
\* it: Load and OnReload hold mu for their whole body, the network reads of
\* the providers included.
WriterExcludesAll ==
    \A t \in Threads : pc[t] \in {"load", "append"} =>
        Writers = {t} /\ Readers = {}

\* A configuration published by one call is never replaced by an older one
\* of another, however slowly the providers answer: the call that waits for
\* mu has read nothing yet.  Only a provider that answers from its cache may
\* go back.
SettingsNeverGoBack ==
    [][\A p \in Direct : settings'[p] >= settings[p]]_vars

\* What a reload callback reads is at least as recent as the moment its
\* Reload was called, though no lock is held between the publication
\* (loader.go:78) and the callback (loader.go:247) and other calls publish
\* in between.
CallbacksReadFreshSettings ==
    \A t \in Threads : pc[t] \in {"snap", "run"} =>
        \A p \in Direct : settings[p] >= floor[t][p]

\* Why they hold: the inductive invariant.  What Load has collected so far
\* lies between what the call found and what the sources hold now, and the
\* settings cannot overtake it because mu is held.
Collected(t) ==
    /\ Len(got[t]) <= N
    /\ pc[t] # "load" => got[t] = <<>>
    /\ \A p \in 1..Len(got[t]) : got[t][p] <= source[p]
    /\ \A p \in 1..Len(got[t]) : p \in Direct =>
           got[t][p] >= floor[t][p] /\ got[t][p] >= settings[p]

NothingAheadOfSource ==
    \A p \in Providers :
        /\ settings[p] <= source[p]
        /\ cache[p] <= source[p]
        /\ \A t \in Threads : floor[t][p] <= source[p]

OneWriter == \A t, u \in Writers : t = u

WriterAlone == \A t \in Threads : pc[t] \in {"load", "append"} => Readers = {}

OpMatchesPhase ==
    \A t \in Threads :
        /\ pc[t] \in {"lock", "drain"} => op[t] # "get"
        /\ pc[t] = "load" => op[t] \in Loads
        /\ pc[t] = "append" => op[t] = "register"

IInv ==
    /\ TypeOK
    /\ NothingAheadOfSource
    /\ OneWriter
    /\ WriterAlone
    /\ OpMatchesPhase
    /\ \A t \in Threads : Collected(t)
    /\ CallbacksReadFreshSettings

\* The refinement mapping: where a load or reload stands, and which callbacks
\* a reload that has published has still to run.
Request(t) ==
    CASE pc[t] \in {"lock", "drain", "load"} /\ op[t] \in Loads -> "asked"
      [] pc[t] \in {"snap", "run"} -> "served"
      [] OTHER -> "idle"

Owed(t) ==
    CASE pc[t] = "snap" -> Range(onReload)
      [] pc[t] = "run" -> Range(todo[t])
      [] OTHER -> {}

Atomic == INSTANCE AtomicReload WITH
    req <- [t \in Threads |-> Request(t)],
    registered <- Range(onReload),
    owed <- [t \in Threads |-> Owed(t)]

\* The loader implements AtomicReload: a load takes effect at one instant
\* between call and return, and a reload returns only after every callback
\* that was registered when it published has run.
ImplementsAtomicReload == Atomic!Spec

\* Every call on the loader returns: the readers' and writers' waits for
\* each other, and a callback that reads while a writer waits, never close
\* into a cycle.
EveryCallReturns ==
    \A t \in Threads : pc[t] # "idle" ~> pc[t] = "idle"
=============================================================================
