---------------------------- MODULE ChangeDelivery ----------------------------
(***************************************************************************)
(* What a WatchManager (watch.go) promises to the callbacks, with no       *)
(* goroutine, no channel, no lock and no Stop in several steps: a          *)
(* provider's reports are delivered in the order they were made in, and    *)
(* each is delivered by one reload and then one call of every callback, or *)
(* is given up with a reload that fails.  What a reload has read at the    *)
(* sources holds the report and is no older than the settings before; a    *)
(* provider whose source could not be read may have answered from its      *)
(* cache instead, and then the settings hold something older.              *)
(*                                                                         *)
(* The content of a source is its version.  A provider may report one      *)
(* version more than once.                                                 *)
(***************************************************************************)
EXTENDS Integers

CONSTANTS Providers,    \* the loader's providers
          Caching,      \* those that may answer from a cache
          Callbacks     \* functions given to OnChange

VARIABLES source,       \* the current version of each provider's source
          settings,     \* the versions the loader's settings hold
          stale,        \* the providers that gave it from their caches
          pending,      \* for each provider the versions reported and not delivered
          due,          \* the report the callbacks are about to hear of
          calling,      \* they are being called
          owed,         \* those that have not been called yet
          callbacks,    \* those that are registered
          heard,        \* the settings when each callback last ran
          closed,       \* the end of a Stop
          dead          \* the process has died

vars == <<source, settings, stale, pending, due, calling, owed, callbacks, heard,
          closed, dead>>
reloadVars == <<settings, stale>>
callVars == <<due, calling, owed>>
endVars == <<closed, dead>>

None == <<>>
Stray == <<0, 0>>       \* a reload that no report asked for

Init ==
    /\ source = [p \in Providers |-> 1]
    /\ settings = source /\ stale = {}
    /\ pending = [p \in Providers |-> {}]
    /\ due = None /\ calling = FALSE /\ owed = {}
    /\ callbacks = {}
    /\ heard = [cb \in Callbacks |-> [p \in Providers |-> 0]]
    /\ closed = FALSE /\ dead = FALSE

Change(p) ==
    /\ source' = [source EXCEPT ![p] = @ + 1]
    /\ UNCHANGED <<reloadVars, pending, callVars, callbacks, heard, endVars>>

\* Nobody registers while the callbacks are called.
Register(cb) ==
    /\ ~calling
    /\ callbacks' = callbacks \union {cb}
    /\ UNCHANGED <<source, reloadVars, pending, callVars, heard, endVars>>

\* No version is reported after a later one.
Report(p, v) ==
    /\ v <= source[p] /\ \A w \in pending[p] : w <= v
    /\ pending' = [pending EXCEPT ![p] = @ \union {v}]
    /\ UNCHANGED <<source, reloadVars, callVars, callbacks, heard, endVars>>

\* A report that was made twice may have to be delivered once more.
First(p, v) == v \in pending[p] /\ \A w \in pending[p] : v <= w
Taken(p, v) ==
    \/ pending' = [pending EXCEPT ![p] = @ \ {v}]
    \/ UNCHANGED pending

\* The settings are made anew.
Renew ==
    /\ settings' \in [Providers -> Nat] /\ stale' \subseteq Caching
    /\ \A p \in Providers :
          /\ settings'[p] <= source[p]
          /\ p \notin stale' => settings[p] <= settings'[p]
Holds(report) == settings'[report[1]] >= report[2] \/ report[1] \in stale'

Deliver(p, v) ==
    /\ due = None /\ First(p, v)
    /\ Renew /\ due' = <<p, v>> /\ Holds(due')
    /\ Taken(p, v)
    /\ UNCHANGED <<source, calling, owed, callbacks, heard, endVars>>

\* A provider without a cache has failed: the settings stay as they are, and no
\* callback hears of the report.
GiveUp(p, v) ==
    /\ due = None /\ First(p, v)
    /\ Caching # Providers
    /\ Taken(p, v)
    /\ UNCHANGED <<source, reloadVars, callVars, callbacks, heard, endVars>>

\* After a Stop only.
DeliverStray ==
    /\ closed /\ due = None
    /\ Renew /\ due' = Stray
    /\ UNCHANGED <<source, pending, calling, owed, callbacks, heard, endVars>>

\* Somebody else reloads.
Refresh ==
    /\ Renew
    /\ due \in {None, Stray} \/ Holds(due)
    /\ UNCHANGED <<source, pending, callVars, callbacks, heard, endVars>>

\* Every registered callback is called once, and reads the settings.
Call ==
    /\ due # None /\ ~calling
    /\ calling' = TRUE /\ owed' = callbacks
    /\ UNCHANGED <<source, reloadVars, pending, due, callbacks, heard, endVars>>

Tell(cb) ==
    /\ calling /\ cb \in owed
    /\ heard' = [heard EXCEPT ![cb] = settings]
    /\ owed' = owed \ {cb}
    /\ UNCHANGED <<source, reloadVars, pending, due, calling, callbacks, endVars>>

Return ==
    /\ calling /\ owed = {}
    /\ due' = None /\ calling' = FALSE
    /\ UNCHANGED <<source, reloadVars, pending, owed, callbacks, heard, endVars>>

Close ==
    /\ closed' = TRUE
    /\ UNCHANGED <<source, reloadVars, pending, callVars, callbacks, heard, dead>>

\* A report that meets a closed channel.
Die ==
    /\ closed /\ dead' = TRUE
    /\ UNCHANGED <<source, reloadVars, pending, callVars, callbacks, heard, closed>>

Next ==
    /\ ~dead
    /\ \/ Refresh \/ DeliverStray \/ Call \/ Return \/ Close \/ Die
       \/ \E cb \in Callbacks : Register(cb) \/ Tell(cb)
       \/ \E p \in Providers :
             \/ Change(p)
             \/ \E v \in pending[p] : Deliver(p, v) \/ GiveUp(p, v)
             \/ \E v \in 0..source[p] : Report(p, v)

Spec == Init /\ [][Next]_vars
=============================================================================
