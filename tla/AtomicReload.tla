---------------------------- MODULE AtomicReload ----------------------------
(***************************************************************************)
(* What a ConfigLoader (loader.go) promises, with no lock and no provider  *)
(* loop: a Load or Reload call takes effect at one instant between its     *)
(* call and its return, and a reload owes every callback registered at     *)
(* that instant one run before it returns.                                 *)
(*                                                                         *)
(* The content of a configuration source is its version.  settings[p] is   *)
(* the version of provider p that the merged configuration was made from;  *)
(* 0 is the empty map the loader starts with.                              *)
(***************************************************************************)
EXTENDS Integers

CONSTANTS Threads,      \* goroutines that call the loader
          Providers,    \* the loader's configuration sources
          Fallback,     \* those that may answer from a cache
          Callbacks     \* functions given to OnReload

VARIABLES source,       \* the current version of each provider's source
          settings,     \* the versions the published configuration holds
          req,          \* where each thread's load or reload stands
          floor,        \* the source versions when the request was made
          registered,   \* the callbacks OnReload has registered
          owed,         \* the callbacks a published reload has still to run
          heard         \* the settings each callback read when it last ran

vars == <<source, settings, req, floor, registered, owed, heard>>

Direct == Providers \ Fallback

Init ==
    /\ source = [p \in Providers |-> 1]
    /\ settings = [p \in Providers |-> 0]
    /\ req = [t \in Threads |-> "idle"]
    /\ floor = [t \in Threads |-> source]
    /\ registered = {}
    /\ owed = [t \in Threads |-> {}]
    /\ heard = [cb \in Callbacks |-> settings]

\* The content behind a provider changes.
Change(p) ==
    /\ source' = [source EXCEPT ![p] = @ + 1]
    /\ UNCHANGED <<settings, req, floor, registered, owed, heard>>

\* A thread asks for a load or a reload.
Ask(t) ==
    /\ req[t] = "idle"
    /\ req' = [req EXCEPT ![t] = "asked"]
    /\ floor' = [floor EXCEPT ![t] = source]
    /\ UNCHANGED <<source, settings, registered, owed, heard>>

\* What a request publishes: no provider is ahead of its source, and one
\* without a cache is at least as recent as the request and as what was
\* published before.
Publish(t) ==
    /\ settings' \in [Providers -> Nat]
    /\ \A p \in Providers : settings'[p] <= source[p]
    /\ \A p \in Direct : settings'[p] >= floor[t][p]
                        /\ settings'[p] >= settings[p]

\* A plain load publishes and returns.
ServeLoad(t) ==
    /\ req[t] = "asked"
    /\ Publish(t)
    /\ req' = [req EXCEPT ![t] = "idle"]
    /\ UNCHANGED <<source, floor, registered, owed, heard>>

\* A reload publishes and owes every registered callback a run.
ServeReload(t) ==
    /\ req[t] = "asked"
    /\ Publish(t)
    /\ req' = [req EXCEPT ![t] = "served"]
    /\ owed' = [owed EXCEPT ![t] = registered]
    /\ UNCHANGED <<source, floor, registered, heard>>

\* A request fails and changes nothing.
Refuse(t) ==
    /\ req[t] = "asked"
    /\ req' = [req EXCEPT ![t] = "idle"]
    /\ UNCHANGED <<source, settings, floor, registered, owed, heard>>

\* A reload runs a callback it owes, which reads the settings.  One that was
\* registered twice runs twice.
Notify(t, cb) ==
    /\ req[t] = "served"
    /\ cb \in owed[t]
    /\ heard' = [heard EXCEPT ![cb] = settings]
    /\ owed' \in {owed, [owed EXCEPT ![t] = @ \ {cb}]}
    /\ UNCHANGED <<source, settings, req, floor, registered>>

\* A reload returns, owing nothing.
Return(t) ==
    /\ req[t] = "served"
    /\ owed[t] = {}
    /\ req' = [req EXCEPT ![t] = "idle"]
    /\ UNCHANGED <<source, settings, floor, registered, owed, heard>>

\* A callback registered while reloads are under way may join some of them.
Register(cb) ==
    /\ registered' = registered \union {cb}
    /\ \E joined \in SUBSET {t \in Threads : req[t] = "served"} :
          owed' = [t \in Threads |-> IF t \in joined
                                     THEN owed[t] \union {cb} ELSE owed[t]]
    /\ UNCHANGED <<source, settings, req, floor, heard>>

Next ==
    \/ \E p \in Providers : Change(p)
    \/ \E t \in Threads :
          \/ Ask(t) \/ ServeLoad(t) \/ ServeReload(t) \/ Refuse(t) \/ Return(t)
          \/ \E cb \in Callbacks : Notify(t, cb)
    \/ \E cb \in Callbacks : Register(cb)

Spec == Init /\ [][Next]_vars
=============================================================================
