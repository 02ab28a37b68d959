---------------------------- MODULE FileProvider ----------------------------
(***************************************************************************)
(* FileProvider of file_provider.go: the files it layers, Load, which      *)
(* reads them one after the other, and the watch that fsnotify feeds.      *)
(*                                                                         *)
(* The content of a file is its state and the moment of its last change.   *)
(* It is gone when there is no file, and torn between the truncation and   *)
(* the end of a write in place.  fsnotify queues an event for every change *)
(* of a watched directory; when its queue is full the event is lost and an *)
(* error takes its place.  It spells a file's name in its own way, which   *)
(* is the path the provider was given for some paths                       *)
(* ("/etc/app/config.yaml") and not for others ("config.yaml", reported as *)
(* "./config.yaml").                                                       *)
(***************************************************************************)
EXTENDS Integers, Sequences

CONSTANTS Layouts,      \* the sequences of paths NewFileProvider may be given
          Readers,      \* the callers of Load
          MaxClock,     \* bound: how often the files change
          QueueBound,   \* size of fsnotify's queue
          Capacity      \* size of the event channel, 100 in the code

Formats == {"yaml", "json", "toml"}
Supported == {"yaml", "json"}

ASSUME LayoutsAssumption == Layouts \subseteq Seq([format : Formats, asGiven : BOOLEAN])
ASSUME MaxClockAssumption == MaxClock \in Nat \ {0}
ASSUME QueueAssumption == QueueBound \in Nat \ {0}
ASSUME CapacityAssumption == Capacity \in Nat \ {0}

VARIABLES paths,        \* fp.paths: each path's format and whether fsnotify
                        \* spells it as it was given
          disk,         \* the content of each file
          clock,        \* the moment of the last change of a file
          fs,           \* fp.watcher.Events: what fsnotify has queued
          overflow,     \* fp.watcher.Errors holds a queue overflow
          loop,         \* where watchLoop stands
          out,          \* the event it is sending
          events,       \* the channel it sends to
          stopped,      \* Stop has ended the watch
          read          \* what each caller's Load has read so far

diskVars == <<paths, disk, clock>>
watchVars == <<fs, overflow, loop, out, events, stopped>>
fileVars == <<diskVars, watchVars, read>>

Files == DOMAIN paths
Contents == [is : {"whole", "torn", "gone"}, at : 1..MaxClock]
Ops == {"create", "write", "remove"}

FileTypeOK ==
    /\ paths \in Layouts
    /\ disk \in [Files -> Contents] /\ clock \in 1..MaxClock
    /\ fs \in Seq([file : Files, op : Ops]) /\ Len(fs) <= QueueBound
    /\ overflow \in BOOLEAN /\ stopped \in BOOLEAN
    /\ loop \in {"unstarted", "select", "send", "done"}
    /\ out \in {"changed", "error"}
    /\ events \in Seq({"changed", "error"}) /\ Len(events) <= Capacity
    /\ read \in [Readers -> Seq(Contents)]

\* The first Load has succeeded, so no file of an unsupported format is there.
\* Bound: the others are.
FileInit ==
    /\ paths \in Layouts
    /\ disk = [f \in Files |->
                  [is |-> IF paths[f].format \in Supported THEN "whole" ELSE "gone",
                   at |-> 1]]
    /\ clock = 1
    /\ fs = <<>> /\ overflow = FALSE
    /\ loop = "unstarted" /\ out = "changed" /\ events = <<>>
    /\ stopped = FALSE
    /\ read = [r \in Readers |-> <<>>]

-----------------------------------------------------------------------------
(* The files, and the events fsnotify queues for them.                     *)

Watched == loop \in {"select", "send"} /\ ~stopped

Queue(f, op) ==
    IF ~Watched
    THEN UNCHANGED <<fs, overflow>>
    ELSE IF Len(fs) = QueueBound
    THEN overflow' = TRUE /\ UNCHANGED fs
    ELSE fs' = Append(fs, [file |-> f, op |-> op]) /\ UNCHANGED overflow

Change(f, is, op) ==
    /\ clock < MaxClock
    /\ clock' = clock + 1
    /\ disk' = [disk EXCEPT ![f] = [is |-> is, at |-> clock + 1]]
    /\ Queue(f, op)
    /\ UNCHANGED <<paths, loop, out, events, stopped, read>>

Truncate(f, op) ==
    /\ disk[f].is # "torn"
    /\ op = IF disk[f].is = "gone" THEN "create" ELSE "write"
    /\ Change(f, "torn", op)

Finish(f, op) ==
    /\ disk[f].is = "torn"
    /\ op = "write"
    /\ Change(f, "whole", op)

RenameOver(f, op) ==
    /\ op = "create"
    /\ Change(f, "whole", op)

Remove(f, op) ==
    /\ disk[f].is # "gone"
    /\ op = "remove"
    /\ Change(f, "gone", op)

-----------------------------------------------------------------------------
(* Load.  Part of a YAML file is often a YAML file, and nothing is one     *)
(* too; part of a JSON file is not a JSON file, nor is nothing.  An empty  *)
(* YAML file adds as much to the settings as a file that is not there.     *)

Nothing(f) == [disk[f] EXCEPT !.is = "gone"]

ReadOutcomes(f) ==
    CASE disk[f].is = "gone" -> {Nothing(f)}
      [] disk[f].is = "torn" ->
             IF paths[f].format = "yaml" THEN {Nothing(f), disk[f]} ELSE {}
      [] OTHER -> IF paths[f].format \in Supported THEN {disk[f]} ELSE {}

ParseMayFail(f) ==
    disk[f].is = "torn" \/ (disk[f].is = "whole" /\ paths[f].format \notin Supported)

LoadCall(r) == read' = [read EXCEPT ![r] = <<>>]

LoadFile(r) ==
    /\ Len(read[r]) < Len(paths)
    /\ \E content \in ReadOutcomes(Len(read[r]) + 1) :
          read' = [read EXCEPT ![r] = Append(@, content)]

LoadFails(r) ==
    /\ Len(read[r]) < Len(paths)
    /\ ParseMayFail(Len(read[r]) + 1)

Loaded(r) == Len(read[r]) = Len(paths)

-----------------------------------------------------------------------------
(* Watch, watchLoop and Stop.                                              *)

Watch ==
    /\ loop = "unstarted"
    /\ loop' = "select"
    /\ UNCHANGED <<diskVars, fs, overflow, out, events, stopped, read>>

\* A directory cannot be watched: the watcher is closed again.
WatchFails ==
    /\ loop = "unstarted"
    /\ loop' = "done"
    /\ UNCHANGED <<diskVars, fs, overflow, out, events, stopped, read>>

\* Mutant: an editor that saves by renaming is not noticed.
isRelevantEvent_WritesOnly(event) == event.op = "write" /\ paths[event.file].asGiven
isRelevantEvent(event) ==
    event.op \in {"write", "create"} /\ paths[event.file].asGiven

Hold(type) == loop' = "send" /\ out' = type

TakeEvent ==
    /\ loop = "select"
    /\ fs # <<>>
    /\ fs' = Tail(fs)
    /\ isRelevantEvent(Head(fs))
    /\ Hold("changed")
    /\ UNCHANGED <<diskVars, overflow, events, stopped, read>>

SkipEvent ==
    /\ loop = "select"
    /\ fs # <<>>
    /\ fs' = Tail(fs)
    /\ ~isRelevantEvent(Head(fs))
    /\ UNCHANGED <<diskVars, overflow, loop, out, events, stopped, read>>

TakeError ==
    /\ loop = "select"
    /\ overflow
    /\ overflow' = FALSE
    /\ Hold("error")
    /\ UNCHANGED <<diskVars, fs, events, stopped, read>>

HasRoom == Len(events) < Capacity

Send ==
    /\ loop = "send"
    /\ HasRoom
    /\ events' = Append(events, out)
    /\ loop' = "select" /\ out' = "changed"
    /\ UNCHANGED <<diskVars, fs, overflow, stopped, read>>

LoopExit(cancelled) ==
    /\ loop = "select"
    /\ cancelled \/ stopped
    /\ loop' = "done"
    /\ UNCHANGED <<diskVars, fs, overflow, out, events, stopped, read>>

\* A Stop before Watch uses up stopOnce and finds nothing to close; no other
\* Stop closes the watcher either.
Stop ==
    /\ loop # "unstarted"
    /\ ~stopped
    /\ stopped' = TRUE
    /\ UNCHANGED <<diskVars, fs, overflow, loop, out, events, read>>
=============================================================================
