--------------------------- MODULE HotReloadProofs ---------------------------
(***************************************************************************)
(* Proofs about HotReload, for any files, any size of fsnotify's queue and *)
(* of the event channel, and any number of changes.  HotInv is inductive.  *)
(***************************************************************************)
EXTENDS HotReload, SequenceTheorems, TLAPS

USE LayoutsAssumption, MaxClockAssumption, QueueAssumption, CapacityAssumption,
    ReadersAssumption
USE DEF isRelevantEvent, HasRoom, Notify, MayExit, CanLock

FsEvent == [file : Files, op : Ops]
Outgoing == {"changed", "error"}

\* The files are numbered, and a file's content has a state and a moment.
LEMMA FileFacts ==
    ASSUME TypeOK
    PROVE  /\ Len(paths) \in Nat /\ Files = 1..Len(paths)
           /\ \A f \in Files : paths[f].format \in Formats /\ paths[f].asGiven \in BOOLEAN
           /\ \A f \in Files : disk[f] \in Contents /\ settings[f] \in Contents
           /\ \A f \in Files : disk[f].is \in {"whole", "torn", "gone"}
                              /\ disk[f].at \in 1..MaxClock
           /\ \A k \in Contents : k.is \in {"whole", "torn", "gone"} /\ k.at \in Nat
<1> DEFINE Path == [format : Formats, asGiven : BOOLEAN]
<1>1. paths \in Seq(Path)
  BY DEF TypeOK, FileTypeOK
<1>2. Len(paths) \in Nat /\ Files = 1..Len(paths)
  BY <1>1, LenProperties DEF Files
<1>3. \A f \in Files : paths[f] \in Path
  BY <1>1, <1>2, ElementOfSeq
<1>4. \A k \in Contents : k.is \in {"whole", "torn", "gone"} /\ k.at \in 1..MaxClock
  BY DEF Contents
<1>5. \A f \in Files : disk[f] \in Contents /\ settings[f] \in Contents
  BY DEF TypeOK, FileTypeOK
<1> QED
  BY <1>2, <1>3, <1>4, <1>5

\* Reading a file gives what it is, or nothing as of its last change.
LEMMA OutcomesAreContents ==
    ASSUME TypeOK, NEW f \in Files
    PROVE  ReadOutcomes(f) \subseteq Contents
<1>1. disk[f] \in Contents
  BY FileFacts
<1>2. Nothing(f) \in Contents
  BY <1>1 DEF Nothing, Contents
<1> QED
  BY <1>1, <1>2 DEF ReadOutcomes

\* What is left of the two queues when their first element is taken.
LEMMA QueueTails ==
    ASSUME TypeOK
    PROVE  /\ fs # <<>> => /\ Tail(fs) \in Seq(FsEvent)
                            /\ Len(Tail(fs)) = Len(fs) - 1 /\ Head(fs) \in FsEvent
                            /\ \A i \in DOMAIN fs :
                                  i = 1 \/ (i - 1 \in DOMAIN Tail(fs) /\ Tail(fs)[i - 1] = fs[i])
           /\ events # <<>> => /\ Tail(events) \in Seq(Outgoing)
                               /\ Len(Tail(events)) = Len(events) - 1
                               /\ \A i \in DOMAIN events :
                                     i = 1 \/ (i - 1 \in DOMAIN Tail(events)
                                               /\ Tail(events)[i - 1] = events[i])
<1>1. fs \in Seq(FsEvent) /\ events \in Seq(Outgoing)
  BY DEF TypeOK, FileTypeOK, FsEvent, Outgoing
<1>2. /\ Len(fs) \in Nat /\ DOMAIN fs = 1..Len(fs)
      /\ Len(events) \in Nat /\ DOMAIN events = 1..Len(events)
  BY <1>1, LenProperties
<1>3. ASSUME fs # <<>>
      PROVE  /\ Tail(fs) \in Seq(FsEvent)
             /\ Len(Tail(fs)) = Len(fs) - 1 /\ Head(fs) \in FsEvent
             /\ \A i \in 1..Len(Tail(fs)) : Tail(fs)[i] = fs[i + 1]
  BY <1>1, <1>3, HeadTailProperties
<1>4. ASSUME events # <<>>
      PROVE  /\ Tail(events) \in Seq(Outgoing)
             /\ Len(Tail(events)) = Len(events) - 1
             /\ \A i \in 1..Len(Tail(events)) : Tail(events)[i] = events[i + 1]
  BY <1>1, <1>4, HeadTailProperties
<1>5. fs # <<>> => DOMAIN Tail(fs) = 1..Len(Tail(fs))
  BY <1>3, LenProperties
<1>6. events # <<>> => DOMAIN Tail(events) = 1..Len(Tail(events))
  BY <1>4, LenProperties
<1>7. ASSUME fs # <<>>, NEW i \in DOMAIN fs, i # 1
      PROVE  i - 1 \in DOMAIN Tail(fs) /\ Tail(fs)[i - 1] = fs[i]
  <2>1. i - 1 \in 1..Len(Tail(fs))
    BY <1>2, <1>3, <1>7
  <2> QED
    BY <1>3, <1>5, <1>7, <2>1
<1>8. ASSUME events # <<>>, NEW i \in DOMAIN events, i # 1
      PROVE  i - 1 \in DOMAIN Tail(events) /\ Tail(events)[i - 1] = events[i]
  <2>1. i - 1 \in 1..Len(Tail(events))
    BY <1>2, <1>4, <1>8
  <2> QED
    BY <1>4, <1>6, <1>8, <2>1
<1> QED
  BY <1>3, <1>4, <1>7, <1>8

\* Taking the first element keeps the queues' types and bounds.
LEMMA TakeKeepsType ==
    ASSUME TypeOK
    PROVE  /\ fs # <<>> /\ fs' = Tail(fs) =>
                 fs' \in Seq([file : Files, op : Ops]) /\ Len(fs') <= QueueBound
           /\ events # <<>> /\ events' = Tail(events) =>
                 events' \in Seq({"changed", "error"}) /\ Len(events') <= Capacity
<1>1. /\ Len(fs) \in Nat /\ Len(fs) <= QueueBound
      /\ Len(events) \in Nat /\ Len(events) <= Capacity
  BY DEF TypeOK, FileTypeOK
<1>2. ASSUME fs # <<>>, fs' = Tail(fs)
      PROVE  fs' \in Seq([file : Files, op : Ops]) /\ Len(fs') <= QueueBound
  BY <1>1, <1>2, QueueTails DEF FsEvent
<1>3. ASSUME events # <<>>, events' = Tail(events)
      PROVE  events' \in Seq({"changed", "error"}) /\ Len(events') <= Capacity
  BY <1>1, <1>3, QueueTails DEF Outgoing
<1> QED
  BY <1>2, <1>3

LEMMA TypeInit == HotInit => TypeOK
<1> SUFFICES ASSUME HotInit PROVE TypeOK
  OBVIOUS
<1>1. 1 \in 1..MaxClock
  OBVIOUS
<1>2. disk \in [Files -> Contents]
  BY <1>1 DEF HotInit, FileInit, Contents
<1>3. fs \in Seq([file : Files, op : Ops]) /\ events \in Seq({"changed", "error"})
      /\ Len(fs) <= QueueBound /\ Len(events) <= Capacity
  <2>1. Len(<<>>) = 0 /\ 0 <= QueueBound /\ 0 <= Capacity
    BY EmptySeq
  <2> QED
    BY <2>1, EmptySeq DEF HotInit, FileInit
<1>4. read \in [Readers -> Seq(Contents)]
  BY EmptySeq DEF HotInit, FileInit
<1>5. /\ paths \in Layouts /\ clock \in 1..MaxClock
      /\ overflow \in BOOLEAN /\ stopped \in BOOLEAN
      /\ loop = "unstarted" /\ out = "changed"
  BY <1>1 DEF HotInit, FileInit
<1>6. FileTypeOK
  BY <1>2, <1>3, <1>4, <1>5 DEF FileTypeOK
<1> QED
  BY <1>2, <1>6 DEF HotInit, TypeOK, Callers

-----------------------------------------------------------------------------
(* What changes the files.                                                 *)

\* A change of a file is a new content, and maybe an event for fsnotify.
LEMMA FileChangeIsChange ==
    ASSUME NEW f \in Files, NEW op \in Ops, FileChange(f, op)
    PROVE  \E is \in {"whole", "torn", "gone"} : Change(f, is, op)
BY DEF FileChange, Write, Truncate, Finish, RenameOver, Remove

LEMMA ChangeType ==
    ASSUME TypeOK, NEW f \in Files, NEW op \in Ops,
           NEW is \in {"whole", "torn", "gone"}, Change(f, is, op)
    PROVE  FileTypeOK'
<1>1. clock + 1 \in 1..MaxClock
  BY DEF TypeOK, FileTypeOK, Change
<1>2. [is |-> is, at |-> clock + 1] \in Contents
  BY <1>1 DEF Contents
<1>3. fs' \in Seq(FsEvent) /\ Len(fs') <= QueueBound /\ overflow' \in BOOLEAN
  <2>1. CASE UNCHANGED fs /\ overflow' \in BOOLEAN
    BY <2>1 DEF TypeOK, FileTypeOK, FsEvent
  <2>2. CASE /\ Len(fs) # QueueBound /\ UNCHANGED overflow
             /\ fs' = Append(fs, [file |-> f, op |-> op])
    BY <2>2, AppendProperties DEF TypeOK, FileTypeOK, FsEvent
  <2> QED
    BY <2>1, <2>2 DEF Change, Queue, TypeOK, FileTypeOK
<1> QED
  BY <1>1, <1>2, <1>3 DEF TypeOK, FileTypeOK, Change, Files, FsEvent

-----------------------------------------------------------------------------
(* Type correctness.                                                       *)

LEMMA FileChangeType ==
    ASSUME TypeOK, NEW f \in Files, NEW op \in Ops, FileChange(f, op)
    PROVE  FileTypeOK' /\ paths' = paths
BY FileChangeIsChange, ChangeType DEF Change

LEMMA WatchLoopType ==
    ASSUME TypeOK, WatchLoop
    PROVE  FileTypeOK'
<1> USE DEF TypeOK, FileTypeOK, Files, diskVars, Hold
<1>1. CASE TakeEvent \/ SkipEvent
  <2>1. fs' \in Seq([file : Files, op : Ops]) /\ Len(fs') <= QueueBound
    BY <1>1, TakeKeepsType DEF TakeEvent, SkipEvent
  <2> QED
    BY <1>1, <2>1 DEF TakeEvent, SkipEvent
<1>2. CASE TakeError
  BY <1>2 DEF TakeError
<1>3. CASE Send
  <2>1. events' \in Seq(Outgoing) /\ Len(events') <= Capacity
    BY <1>3, AppendProperties DEF Send, Outgoing
  <2> QED
    BY <1>3, <2>1 DEF Send, Outgoing
<1>4. CASE LoopExit(ctxDone)
  BY <1>4 DEF LoopExit
<1> QED
  BY <1>1, <1>2, <1>3, <1>4 DEF WatchLoop

\* Every step keeps the types.
LEMMA TypeStep ==
    ASSUME TypeOK, [Next]_vars
    PROVE  TypeOK'
<1> USE DEF TypeOK, FileTypeOK, Files, Callers, Goto, diskVars, watchVars,
        fileVars, reloadVars
<1>1. CASE UNCHANGED vars
  BY <1>1 DEF vars
<1>2. ASSUME NEW f \in Files, NEW op \in Ops, FileChange(f, op) PROVE TypeOK'
  <2>1. FileTypeOK' /\ paths' = paths
    BY <1>2, FileChangeType
  <2>2. UNCHANGED reloadVars
    BY <1>2 DEF FileChange
  <2>3. asked' \in [Callers -> SUBSET Files]
    BY <1>2 DEF FileChange
  <2> QED
    BY <2>1, <2>2, <2>3
<1>3. CASE Sighup
  BY <1>3 DEF Sighup
<1>4. CASE Start
  BY <1>4 DEF Start, Watch, WatchFails
<1>5. CASE WatchLoop
  <2>1. FileTypeOK'
    BY <1>5, WatchLoopType
  <2>2. UNCHANGED <<paths, reloadVars, asked>>
    BY <1>5 DEF WatchLoop, TakeEvent, SkipEvent, TakeError, Send, LoopExit
  <2> QED
    BY <2>1, <2>2
<1>6. CASE ReceiveChange \/ ReceiveError
  <2>1. events' \in Seq({"changed", "error"}) /\ Len(events') <= Capacity
    BY <1>6, TakeKeepsType DEF ReceiveChange, ReceiveError
  <2>2. CASE ReceiveChange
    BY <2>1, <2>2 DEF ReceiveChange
  <2>3. CASE ReceiveError
    BY <2>1, <2>3 DEF ReceiveError
  <2> QED
    BY <1>6, <2>2, <2>3
<1>7. CASE ReceiveSignal
  BY <1>7 DEF ReceiveSignal
<1>8. ASSUME NEW c \in Callers, Exit(c) PROVE TypeOK'
  BY <1>8 DEF Exit
<1>9. ASSUME NEW c \in Callers, Lock(c) PROVE TypeOK'
  BY <1>9 DEF Lock, LoadCall
<1>10. ASSUME NEW c \in Callers, LoadNext(c) PROVE TypeOK'
  <2>1. PICK content \in ReadOutcomes(Len(read[c]) + 1) :
           read' = [read EXCEPT ![c] = Append(@, content)]
    BY <1>10 DEF LoadNext, LoadFile
  <2>2. Len(read[c]) + 1 \in Files
    BY <1>10, FileFacts DEF LoadNext, LoadFile
  <2>3. content \in Contents
    BY <2>1, <2>2, OutcomesAreContents
  <2>4. Append(read[c], content) \in Seq(Contents)
    BY <2>3, AppendProperties
  <2> QED
    BY <1>10, <2>1, <2>4 DEF LoadNext
<1>11. ASSUME NEW c \in Callers, ReloadFails(c) PROVE TypeOK'
  BY <1>11 DEF ReloadFails, Unlock
<1>12. ASSUME NEW c \in Callers, Reload(c) PROVE TypeOK'
  <2>1. read[c] \in [Files -> Contents]
    BY <1>12, FileFacts DEF Reload, Loaded
  <2> QED
    BY <1>12, <2>1 DEF Reload, Unlock
<1>13. CASE StopProvider
  BY <1>13 DEF StopProvider, Stop
<1>14. CASE Cancel
  BY <1>14 DEF Cancel
<1> QED
  BY <1>1, <1>2, <1>3, <1>4, <1>5, <1>6, <1>7, <1>8, <1>9, <1>10, <1>11, <1>12,
     <1>13, <1>14 DEF Next

\* Every variable of the two goroutines, the files and the queues keeps its type.
THEOREM HotTypeCorrect == HotSpec => []TypeOK
BY TypeInit, TypeStep, PTL DEF HotSpec

-----------------------------------------------------------------------------
(* The lock, and what the reloads read.                                    *)

\* Which steps touch the files, the settings and what is being read.
LEMMA ReloadFrame ==
    ASSUME TypeOK, LockInv, [Next]_vars
    PROVE  \/ \E f \in Files, op \in Ops : FileChange(f, op)
           \/ \E c \in Callers : Lock(c) \/ LoadNext(c) \/ ReloadFails(c) \/ Reload(c)
           \/ /\ UNCHANGED <<diskVars, read, settings, holder>>
              /\ \A c \in Callers : pc'[c] = "load" <=> pc[c] = "load"
<1> USE DEF Goto, diskVars, watchVars, fileVars, reloadVars, Callers
<1>0. pc \in [Callers -> {"none", "select", "lock", "load", "done"}]
  BY DEF TypeOK
<1>1. CASE UNCHANGED vars \/ Sighup \/ WatchLoop \/ ReceiveError \/ StopProvider \/ Cancel
  BY <1>1 DEF vars, Sighup, WatchLoop, TakeEvent, SkipEvent, TakeError, Send, LoopExit,
     ReceiveError, StopProvider, Stop, Cancel
<1>2. CASE Start \/ ReceiveChange \/ ReceiveSignal
  BY <1>0, <1>2 DEF Start, Watch, WatchFails, ReceiveChange, ReceiveSignal, LockInv
<1>3. ASSUME NEW c \in Callers, Exit(c)
      PROVE  /\ UNCHANGED <<diskVars, read, settings, holder>>
             /\ \A d \in Callers : pc'[d] = "load" <=> pc[d] = "load"
  BY <1>0, <1>3 DEF Exit
<1> QED
  BY <1>1, <1>2, <1>3 DEF Next

\* Start is the first step of the events' goroutine.
LEMMA StartStep ==
    ASSUME TypeOK, LockInv, [Next]_vars, loop' = "unstarted"
    PROVE  pc'["events"] = "none"
<1> USE DEF LockInv, TypeOK, Callers, Goto, diskVars, watchVars, fileVars, reloadVars
<1>1. CASE UNCHANGED vars \/ Sighup \/ WatchLoop \/ StopProvider \/ Cancel \/ ReceiveSignal
  BY <1>1 DEF vars, Sighup, WatchLoop, TakeEvent, SkipEvent, TakeError, Send, LoopExit, Hold,
     StopProvider, Stop, Cancel, ReceiveSignal
<1>2. ASSUME NEW f \in Files, NEW op \in Ops, FileChange(f, op) PROVE pc'["events"] = "none"
  <2>1. UNCHANGED <<loop, pc>>
    BY <1>2, FileChangeIsChange DEF FileChange, Change
  <2> QED
    BY <2>1
<1>3. CASE Start \/ ReceiveChange \/ ReceiveError
  BY <1>3 DEF Start, Watch, WatchFails, ReceiveChange, ReceiveError
<1>4. ASSUME NEW c \in Callers,
             Exit(c) \/ Lock(c) \/ LoadNext(c) \/ ReloadFails(c) \/ Reload(c)
      PROVE  pc'["events"] = "none"
  BY <1>4 DEF Exit, Lock, LoadNext, ReloadFails, Reload, Unlock
<1> QED
  BY <1>1, <1>2, <1>3, <1>4 DEF Next

LEMMA LockStep ==
    ASSUME TypeOK, LockInv, [Next]_vars
    PROVE  LockInv'
<1> DEFINE Held == \A c \in Callers : pc[c] = "load" <=> holder = c
<1> USE DEF LockInv, TypeOK, Callers, Nobody
<1>1. ASSUME NEW f \in Files, NEW op \in Ops, FileChange(f, op) PROVE Held'
  BY <1>1 DEF FileChange, reloadVars
<1>2. ASSUME NEW c \in Callers, Lock(c) PROVE Held'
  BY <1>2 DEF Lock, Goto
<1>3. ASSUME NEW c \in Callers, LoadNext(c) PROVE Held'
  BY <1>3 DEF LoadNext, reloadVars
<1>4. ASSUME NEW c \in Callers, ReloadFails(c) \/ Reload(c) PROVE Held'
  BY <1>4 DEF ReloadFails, Reload, Unlock, Goto
<1>5. ASSUME /\ UNCHANGED <<diskVars, read, settings, holder>>
             /\ \A c \in Callers : pc'[c] = "load" <=> pc[c] = "load"
      PROVE  Held'
  BY <1>5
<1>6. Held'
  BY <1>1, <1>2, <1>3, <1>4, <1>5, ReloadFrame
<1> QED
  BY <1>6, StartStep

\* What a Load can read of a file has the moment of the file's last change.
LEMMA OutcomesAreUpToDate ==
    ASSUME TypeOK, NEW f \in Files, NEW content \in ReadOutcomes(f)
    PROVE  /\ content.at = disk[f].at /\ UpToDate(content, f)
           /\ Readable => content = disk[f]
<1>1. disk[f] \in Contents
  BY FileFacts
<1>2. disk[f].is = "gone" => Nothing(f) = disk[f]
  BY <1>1 DEF Nothing, Contents
<1>3. Nothing(f).at = disk[f].at
  BY <1>1 DEF Nothing, Contents
<1>4. disk[f].at \in Nat
  BY FileFacts
<1> QED
  BY <1>2, <1>3, <1>4 DEF ReadOutcomes, UpToDate, Readable, ParseMayFail

\* The files' moments only grow, and a change makes all other content old.
LEMMA ChangeIsLater ==
    ASSUME TypeOK, ReadInv, NEW f \in Files, NEW op \in Ops, FileChange(f, op)
    PROVE  /\ clock' = clock + 1 /\ disk'[f].at = clock'
           /\ \A g \in Files : g # f => disk'[g] = disk[g]
           /\ \A g \in Files, k \in Contents : UpToDate(k, g) => UpToDate(k, g)'
           /\ UNCHANGED <<paths, read>> /\ UNCHANGED reloadVars
<1>1. PICK is \in {"whole", "torn", "gone"} : Change(f, is, op)
  BY FileChangeIsChange
<1>2. /\ clock' = clock + 1
      /\ disk' = [disk EXCEPT ![f] = [is |-> is, at |-> clock + 1]]
      /\ UNCHANGED <<paths, read>>
  BY <1>1 DEF Change
<1>3. disk \in [Files -> Contents] /\ clock \in Nat
  BY DEF TypeOK, FileTypeOK
<1>4. disk'[f] = [is |-> is, at |-> clock + 1] /\ \A g \in Files : g # f => disk'[g] = disk[g]
  BY <1>2, <1>3
<1>5. ASSUME NEW g \in Files, NEW k \in Contents, UpToDate(k, g)
      PROVE  UpToDate(k, g)'
  <2>1. k.at \in Nat /\ disk[g].at \in Nat /\ disk[g].at <= clock
    BY FileFacts DEF ReadInv
  <2> QED
    BY <1>2, <1>3, <1>4, <1>5, <2>1 DEF UpToDate
<1> QED
  BY <1>2, <1>4, <1>5 DEF FileChange

LEMMA ReadStep ==
    ASSUME TypeOK, LockInv, ReadInv, [Next]_vars
    PROVE  ReadInv'
<1>0. /\ pc \in [Callers -> {"none", "select", "lock", "load", "done"}]
      /\ read \in [Callers -> Seq(Contents)]
  BY ReadersAssumption DEF TypeOK, FileTypeOK
<1>1. ASSUME NEW f \in Files, NEW op \in Ops, FileChange(f, op) PROVE ReadInv'
  <2>1. Files' = Files /\ UNCHANGED <<read, pc, settings, paths>>
    BY <1>1, ChangeIsLater DEF Files, reloadVars
  <2>2. \A g \in Files : disk'[g].at <= clock'
    <3>1. \A g \in Files : disk[g].at <= clock /\ disk[g].at \in Nat /\ clock \in Nat
      BY FileFacts DEF ReadInv, TypeOK, FileTypeOK
    <3> QED
      BY <1>1, <3>1, ChangeIsLater
  <2>3. \A g \in Files : UpToDate(settings[g], g)'
    BY <1>1, <2>1, ChangeIsLater, FileFacts DEF ReadInv
  <2>4. ASSUME NEW c \in Callers, pc[c] = "load", NEW g \in DOMAIN read[c]
        PROVE  UpToDate(read[c][g], g)'
    <3>1. g \in Files /\ read[c][g] \in Contents
      BY <1>0, <2>4, FileFacts, LenProperties, ElementOfSeq DEF ReadInv
    <3> QED
      BY <1>1, <2>4, <3>1, ChangeIsLater DEF ReadInv
  <2> QED
    BY <2>1, <2>2, <2>3, <2>4 DEF ReadInv
<1>2. ASSUME NEW c \in Callers, Lock(c) PROVE ReadInv'
  <2>1. /\ UNCHANGED <<diskVars, settings>> /\ read'[c] = <<>>
        /\ \A d \in Callers : d # c => read'[d] = read[d] /\ pc'[d] = pc[d]
    BY <1>0, <1>2 DEF Lock, LoadCall, Goto
  <2>2. Len(read'[c]) = 0 /\ DOMAIN read'[c] = {} /\ Len(paths) \in Nat
    BY <2>1, FileFacts
  <2> QED
    BY <2>1, <2>2 DEF ReadInv, UpToDate, diskVars, Files
<1>3. ASSUME NEW c \in Callers, LoadNext(c) PROVE ReadInv'
  <2> DEFINE i == Len(read[c]) + 1
  <2>1. PICK content \in ReadOutcomes(i) : read' = [read EXCEPT ![c] = Append(@, content)]
    BY <1>3 DEF LoadNext, LoadFile
  <2>2. UNCHANGED <<diskVars, settings, pc>> /\ Files' = Files
    BY <1>3 DEF LoadNext, reloadVars, diskVars, Files
  <2>3. i \in Files /\ Len(read[c]) \in Nat /\ i <= Len(paths)
    BY <1>0, <1>3, FileFacts DEF LoadNext, LoadFile
  <2>4. content \in Contents
    BY <2>1, <2>3, OutcomesAreContents
  <2>5. /\ Len(read'[c]) = i /\ DOMAIN read'[c] = 1..i /\ read'[c][i] = content
        /\ \A f \in 1..Len(read[c]) : read'[c][f] = read[c][f]
    BY <1>0, <2>1, <2>4, AppendProperties, LenProperties
  <2>6. settings[i].at <= content.at /\ UpToDate(content, i)
    BY <2>1, <2>3, OutcomesAreUpToDate DEF ReadInv, UpToDate
  <2>7. \A d \in Callers : d # c => read'[d] = read[d]
    BY <1>0, <2>1
  <2>8. \A f \in 1..Len(read[c]) : settings[f].at <= read[c][f].at /\ UpToDate(read[c][f], f)
    BY <1>0, <1>3, LenProperties DEF ReadInv, LoadNext
  <2>9. \A f \in 1..i : f = i \/ f \in 1..Len(read[c])
    BY <2>3
  <2>10. \A f \in DOMAIN read'[c] :
            settings[f].at <= read'[c][f].at /\ UpToDate(read'[c][f], f)
    BY <2>5, <2>6, <2>8, <2>9
  <2>11. \A g \in Files : disk'[g].at <= clock' /\ UpToDate(settings[g], g)'
    BY <2>2 DEF ReadInv, UpToDate, diskVars
  <2>12. ASSUME NEW d \in Callers, pc'[d] = "load", NEW f \in DOMAIN read'[d]
         PROVE  settings'[f].at <= read'[d][f].at /\ UpToDate(read[d][f], f)'
    <3>1. CASE d = c
      BY <2>2, <2>10, <2>12, <3>1 DEF UpToDate, diskVars
    <3>2. CASE d # c
      BY <2>2, <2>7, <2>12, <3>2 DEF ReadInv, UpToDate, diskVars
    <3> QED
      BY <3>1, <3>2
  <2>13. \A d \in Callers : pc'[d] = "load" => Len(read'[d]) <= Len(paths)
    BY <2>2, <2>3, <2>5, <2>7 DEF ReadInv
  <2> QED
    BY <2>2, <2>11, <2>12, <2>13 DEF ReadInv, diskVars
<1>4. ASSUME NEW c \in Callers, ReloadFails(c) PROVE ReadInv'
  <2>1. /\ UNCHANGED <<diskVars, settings>> /\ pc'[c] # "load"
        /\ \A d \in Callers : d # c => read'[d] = read[d] /\ pc'[d] = pc[d]
    BY <1>0, <1>4 DEF ReloadFails, Unlock, Goto
  <2> QED
    BY <2>1 DEF ReadInv, UpToDate, diskVars, Files
<1>5. ASSUME NEW c \in Callers, Reload(c) PROVE ReadInv'
  <2>1. /\ UNCHANGED diskVars /\ settings' = read[c] /\ pc[c] = "load"
        /\ \A d \in Callers : pc'[d] # "load"
    BY <1>0, <1>5 DEF Reload, Unlock, Goto, LockInv
  <2>2. \A f \in Files : f \in DOMAIN read[c]
    BY <1>0, <1>5, FileFacts, LenProperties DEF Reload, Loaded
  <2> QED
    BY <2>1, <2>2 DEF ReadInv, UpToDate, diskVars, Files
<1>6. CASE /\ UNCHANGED <<diskVars, read, settings, holder>>
           /\ \A c \in Callers : pc'[c] = "load" <=> pc[c] = "load"
  BY <1>6 DEF ReadInv, UpToDate, diskVars, Files
<1> QED
  BY <1>1, <1>2, <1>3, <1>4, <1>5, <1>6, ReloadFrame
-----------------------------------------------------------------------------
(* What is asked for.                                                      *)

\* Which steps change what is asked for, and what it depends on.
LEMMA AskedFrame ==
    ASSUME [Next]_vars
    PROVE  \/ \E f \in Files, op \in Ops : FileChange(f, op)
           \/ Sighup \/ StopProvider \/ Cancel
           \/ UNCHANGED <<diskVars, asked, ctxDone, stopped>>
<1>1. CASE UNCHANGED vars
  BY <1>1 DEF vars, fileVars, diskVars, watchVars, reloadVars
<1>2. CASE Start \/ WatchLoop \/ ReceiveChange \/ ReceiveError \/ ReceiveSignal
  BY <1>2 DEF Start, Watch, WatchFails, WatchLoop, TakeEvent, SkipEvent, TakeError, Send,
     LoopExit, ReceiveChange, ReceiveError, ReceiveSignal, fileVars, diskVars, watchVars,
     reloadVars
<1>3. ASSUME NEW c \in Callers,
             Exit(c) \/ Lock(c) \/ LoadNext(c) \/ ReloadFails(c) \/ Reload(c)
      PROVE  UNCHANGED <<diskVars, asked, ctxDone, stopped>>
  BY <1>3 DEF Exit, Lock, LoadNext, ReloadFails, Reload, fileVars, diskVars, watchVars,
     reloadVars
<1> QED
  BY <1>1, <1>2, <1>3 DEF Next

\* The files are as readable as before where they are the same.
LEMMA SameFilesSameReadable ==
    ASSUME UNCHANGED diskVars
    PROVE  Readable' <=> Readable
BY DEF diskVars, Readable, ParseMayFail, Files

LEMMA AskedStep ==
    ASSUME TypeOK, AskedInv, [Next]_vars
    PROVE  AskedInv'
<1> USE DEF AskedInv, Callers
<1>0. asked \in [Callers -> SUBSET Files]
  BY DEF TypeOK
<1>1. ASSUME NEW f \in Files, NEW op \in Ops, FileChange(f, op) PROVE AskedInv'
  <2>1. UNCHANGED <<ctxDone, stopped>> /\ ~ctxDone
    BY <1>1, FileChangeIsChange DEF FileChange, reloadVars, Change
  <2>2. stopped => asked'["events"] = {}
    BY <1>0, <1>1 DEF FileChange, Announces, Watched
  <2>3. \A c \in Callers : asked'[c] # {} => Readable'
    BY <1>1 DEF FileChange
  <2> QED
    BY <2>1, <2>2, <2>3
<1>2. CASE Sighup
  <2>1. Readable' <=> Readable
    BY <1>2, SameFilesSameReadable DEF Sighup, fileVars
  <2> QED
    BY <1>0, <1>2, <2>1 DEF Sighup, fileVars, watchVars
<1>3. CASE StopProvider
  <2>1. Readable' <=> Readable
    BY <1>3, SameFilesSameReadable DEF StopProvider, Stop
  <2> QED
    BY <1>0, <1>3, <2>1 DEF StopProvider, Stop, reloadVars
<1>4. CASE Cancel
  BY <1>4 DEF Cancel
<1>5. CASE UNCHANGED <<diskVars, asked, ctxDone, stopped>>
  BY <1>5, SameFilesSameReadable
<1> QED
  BY <1>1, <1>2, <1>3, <1>4, <1>5, AskedFrame

-----------------------------------------------------------------------------
(* Requests are honoured.                                                  *)

\* A file of which fsnotify reports changes has one that asks for a reload.
EventComing == \E i \in DOMAIN fs : fs[i].op # "remove" /\ paths[fs[i].file].asGiven
ChangeComing == \E i \in DOMAIN events : events[i] = "changed"

LEMMA EventComingStep ==
    ASSUME TypeOK, [Next]_vars, EventComing
    PROVE  EventComing' \/ (loop' = "send" /\ out' = "changed")
<1> USE DEF EventComing
<1>0. fs \in Seq(FsEvent)
  BY DEF TypeOK, FileTypeOK, FsEvent
<1>1. ASSUME NEW f \in Files, NEW op \in Ops, FileChange(f, op) PROVE EventComing'
  <2>1. paths' = paths /\ (UNCHANGED fs \/ fs' = Append(fs, [file |-> f, op |-> op]))
    BY <1>1, FileChangeIsChange DEF Change, Queue
  <2>2. CASE fs' = Append(fs, [file |-> f, op |-> op])
    <3>1. [file |-> f, op |-> op] \in FsEvent
      BY DEF FsEvent
    <3>2. \A i \in DOMAIN fs : i \in DOMAIN fs' /\ fs'[i] = fs[i]
      BY <1>0, <2>2, <3>1, AppendProperties, LenProperties
    <3> QED
      BY <2>1, <3>2
  <2> QED
    BY <2>1, <2>2
<1>2. ASSUME fs # <<>>, fs' = Tail(fs), paths' = paths,
             (loop' = "send" /\ out' = "changed") \/ ~isRelevantEvent(Head(fs))
      PROVE  EventComing' \/ (loop' = "send" /\ out' = "changed")
  <2>1. PICK i \in DOMAIN fs : fs[i].op # "remove" /\ paths[fs[i].file].asGiven
    OBVIOUS
  <2>2. CASE i = 1
    <3>1. fs[i] = Head(fs) /\ Head(fs).op \in Ops
      BY <1>2, <2>2, QueueTails DEF FsEvent
    <3> QED
      BY <1>2, <2>1, <3>1 DEF Ops
  <2>3. CASE i # 1
    <3>1. i - 1 \in DOMAIN fs' /\ fs'[i - 1] = fs[i]
      BY <1>2, <2>3, QueueTails
    <3>2. fs'[i - 1].op # "remove" /\ paths'[fs'[i - 1].file].asGiven
      BY <1>2, <2>1, <3>1
    <3> QED
      BY <3>1, <3>2
  <2> QED
    BY <2>2, <2>3
<1>3. CASE TakeEvent \/ SkipEvent
  BY <1>2, <1>3 DEF TakeEvent, SkipEvent, Hold, diskVars
<1>4. CASE UNCHANGED <<fs, paths>>
  BY <1>4
<1>5. \/ \E f \in Files, op \in Ops : FileChange(f, op)
      \/ TakeEvent \/ SkipEvent \/ UNCHANGED <<fs, paths>>
  <2>1. CASE UNCHANGED vars
    BY <2>1 DEF vars, fileVars, diskVars, watchVars
  <2>2. CASE Next
    BY <2>2 DEF Next, Sighup, Start, Watch, WatchFails, WatchLoop, TakeError, Send,
       LoopExit, ReceiveChange, ReceiveError, ReceiveSignal, Exit, Lock, LoadNext,
       ReloadFails, Reload, StopProvider, Stop, Cancel, fileVars, diskVars, watchVars
  <2> QED
    BY <2>1, <2>2
<1> QED
  BY <1>1, <1>3, <1>4, <1>5

LEMMA ChangeComingStep ==
    ASSUME TypeOK, [Next]_vars, ChangeComing
    PROVE  ChangeComing' \/ pc'["events"] = "lock"
<1> USE DEF ChangeComing
<1>0. events \in Seq(Outgoing)
  BY DEF TypeOK, FileTypeOK, Outgoing
<1>1. CASE Send
  <2>1. out \in Outgoing /\ events' = Append(events, out)
    BY <1>1 DEF Send, TypeOK, FileTypeOK, Outgoing
  <2>2. \A i \in DOMAIN events : i \in DOMAIN events' /\ events'[i] = events[i]
    BY <1>0, <2>1, AppendProperties, LenProperties
  <2> QED
    BY <2>2
<1>2. CASE ReceiveChange
  BY <1>2 DEF ReceiveChange, Goto, TypeOK, Callers
<1>3. CASE ReceiveError
  <2>1. PICK i \in DOMAIN events : events[i] = "changed"
    OBVIOUS
  <2>2. i # 1
    BY <1>3, <2>1 DEF ReceiveError
  <2> QED
    BY <1>3, <2>1, <2>2, QueueTails DEF ReceiveError
<1>4. CASE UNCHANGED events
  BY <1>4
<1>5. Send \/ ReceiveChange \/ ReceiveError \/ UNCHANGED events
  <2>1. CASE UNCHANGED vars
    BY <2>1 DEF vars, fileVars, watchVars
  <2>2. ASSUME NEW f \in Files, NEW op \in Ops, FileChange(f, op) PROVE UNCHANGED events
    BY <2>2, FileChangeIsChange DEF Change
  <2>3. CASE Next
    BY <2>2, <2>3 DEF Next, Sighup, Start, Watch, WatchFails, WatchLoop, TakeEvent,
       SkipEvent, TakeError, LoopExit, ReceiveSignal, Exit, Lock, LoadNext,
       ReloadFails, Reload, StopProvider, Stop, Cancel, fileVars, watchVars
  <2> QED
    BY <2>1, <2>3
<1> QED
  BY <1>1, <1>2, <1>3, <1>4, <1>5
\* A reload that is coming comes nearer or begins: no request is dropped.
LEMMA ComingStep ==
    ASSUME TypeOK, LockInv, [Next]_vars, NEW c \in Callers, ReloadIsComing(c)
    PROVE  ReloadIsComing(c)' \/ Lock(c)
<1> USE DEF Goto, diskVars, watchVars, fileVars, reloadVars
<1>0. pc \in [Callers -> {"none", "select", "lock", "load", "done"}]
  BY DEF TypeOK
<1>1. CASE pc[c] = "lock"
  <2>1. pc'[c] = "lock" \/ Lock(c)
    <3>1. CASE UNCHANGED vars
      BY <1>1, <3>1 DEF vars
    <3>2. CASE Start
      BY <1>0, <1>1, <3>2 DEF Start, Watch, WatchFails, LockInv, Callers
    <3>3. CASE WatchLoop
      BY <1>1, <3>3 DEF WatchLoop
    <3>4. CASE Sighup \/ ReceiveChange \/ ReceiveError \/ ReceiveSignal \/ StopProvider \/ Cancel
      BY <1>0, <1>1, <3>4 DEF Sighup, ReceiveChange, ReceiveError, ReceiveSignal, StopProvider,
         Cancel
    <3>5. ASSUME NEW f \in Files, NEW op \in Ops, FileChange(f, op) PROVE pc'[c] = "lock"
      BY <1>1, <3>5 DEF FileChange
    <3>6. ASSUME NEW d \in Callers, d # c,
                 Exit(d) \/ Lock(d) \/ LoadNext(d) \/ ReloadFails(d) \/ Reload(d)
          PROVE  pc'[c] = "lock"
      BY <1>0, <1>1, <3>6 DEF Exit, Lock, LoadNext, ReloadFails, Reload, Unlock
    <3>7. ASSUME Exit(c) \/ LoadNext(c) \/ ReloadFails(c) \/ Reload(c) PROVE FALSE
      BY <1>1, <3>7 DEF Exit, LoadNext, ReloadFails, Reload
    <3> QED
      BY <3>1, <3>2, <3>3, <3>4, <3>5, <3>6, <3>7 DEF Next
  <2> QED
    BY <2>1 DEF ReloadIsComing
<1>2. CASE c = "signals" /\ sig
  <2>1. sig' \/ pc'[c] = "lock"
    <3>1. CASE UNCHANGED vars \/ Sighup \/ Start \/ WatchLoop \/ ReceiveChange \/ ReceiveError
               \/ ReceiveSignal \/ StopProvider \/ Cancel
      BY <1>0, <1>2, <3>1 DEF vars, Sighup, Start, WatchLoop, ReceiveChange, ReceiveError,
         ReceiveSignal, StopProvider, Cancel
    <3>2. ASSUME NEW f \in Files, NEW op \in Ops, FileChange(f, op) PROVE sig'
      BY <1>2, <3>2 DEF FileChange
    <3>3. ASSUME NEW d \in Callers,
                 Exit(d) \/ Lock(d) \/ LoadNext(d) \/ ReloadFails(d) \/ Reload(d)
          PROVE  sig'
      BY <1>2, <3>3 DEF Exit, Lock, LoadNext, ReloadFails, Reload
    <3> QED
      BY <3>1, <3>2, <3>3 DEF Next
  <2> QED
    BY <1>2, <2>1 DEF ReloadIsComing
<1>3. CASE c = "events" /\ EventComing
  BY <1>3, EventComingStep DEF ReloadIsComing, EventComing
<1>4. CASE c = "events" /\ loop = "send" /\ out = "changed"
  <2>1. CASE Send
    <3>1. events \in Seq(Outgoing) /\ events' = Append(events, "changed") /\ "changed" \in Outgoing
      BY <1>4, <2>1 DEF Send, TypeOK, FileTypeOK, Outgoing
    <3>2. Len(events) + 1 \in DOMAIN events' /\ events'[Len(events) + 1] = "changed"
      BY <3>1, AppendProperties, LenProperties
    <3> QED
      BY <1>4, <3>2 DEF ReloadIsComing
  <2>2. ASSUME ~Send PROVE loop' = "send" /\ out' = "changed"
    <3>1. CASE UNCHANGED vars \/ Sighup \/ Start \/ WatchLoop \/ ReceiveChange \/ ReceiveError
               \/ ReceiveSignal \/ StopProvider \/ Cancel
      BY <1>4, <2>2, <3>1 DEF vars, Sighup, Start, Watch, WatchFails, WatchLoop, TakeEvent,
         SkipEvent, TakeError, LoopExit, ReceiveChange, ReceiveError, ReceiveSignal,
         StopProvider, Stop, Cancel
    <3>2. ASSUME NEW f \in Files, NEW op \in Ops, FileChange(f, op)
          PROVE  loop' = "send" /\ out' = "changed"
      BY <1>4, <3>2, FileChangeIsChange DEF Change
    <3>3. ASSUME NEW d \in Callers,
                 Exit(d) \/ Lock(d) \/ LoadNext(d) \/ ReloadFails(d) \/ Reload(d)
          PROVE  loop' = "send" /\ out' = "changed"
      BY <1>4, <3>3 DEF Exit, Lock, LoadNext, ReloadFails, Reload
    <3> QED
      BY <3>1, <3>2, <3>3 DEF Next
  <2> QED
    BY <1>4, <2>1, <2>2 DEF ReloadIsComing
<1>5. CASE c = "events" /\ ChangeComing
  BY <1>5, ChangeComingStep DEF ReloadIsComing, ChangeComing
<1> QED
  BY <1>1, <1>2, <1>3, <1>4, <1>5 DEF ReloadIsComing, EventComing, ChangeComing

Honoured(c, f) == settings[f] = disk[f] \/ ReloadIsComing(c) \/ WillLoad(c, f)

\* While the files are as they were, a request that is honoured stays honoured:
\* a reload that ends has read what the files hold, or what the settings held.
LEMMA HonouredByReload ==
    ASSUME TypeOK, LockInv, ReadInv, [Next]_vars, UNCHANGED diskVars, Readable,
           NEW c \in Callers, NEW f \in Files, Honoured(c, f)
    PROVE  Honoured(c, f)'
<1> USE DEF Honoured
<1>0. /\ pc \in [Callers -> {"none", "select", "lock", "load", "done"}]
      /\ read \in [Callers -> Seq(Contents)] /\ disk' = disk
  BY ReadersAssumption DEF TypeOK, FileTypeOK, diskVars
<1>1. CASE ReloadIsComing(c)
  <2>1. CASE Lock(c)
    <3>1. pc'[c] = "load" /\ read'[c] = <<>>
      BY <1>0, <2>1 DEF Lock, LoadCall, Goto
    <3> QED
      BY <3>1 DEF WillLoad
  <2> QED
    BY <1>1, <2>1, ComingStep
<1>2. ASSUME NEW d \in Callers, Reload(d)
      PROVE  /\ settings' = read[d] /\ f \in DOMAIN read[d] /\ read[d][f] \in Contents
             /\ settings[f].at <= read[d][f].at /\ UpToDate(read[d][f], f)
  <2>1. settings' = read[d] /\ pc[d] = "load" /\ Len(read[d]) = Len(paths)
    BY <1>2 DEF Reload, Loaded
  <2>2. f \in 1..Len(read[d]) /\ f \in DOMAIN read[d]
    BY <1>0, <2>1, FileFacts, LenProperties
  <2> QED
    BY <1>0, <2>1, <2>2, ElementOfSeq DEF ReadInv
<1>3. CASE settings[f] = disk[f]
  <2>1. CASE UNCHANGED settings
    BY <1>0, <1>3, <2>1
  <2>2. ASSUME NEW d \in Callers, Reload(d) PROVE settings'[f] = disk'[f]
    <3>1. read[d][f].at = disk[f].at
      BY <1>2, <1>3, <2>2, FileFacts DEF UpToDate
    <3>2. disk[f].is # "torn"
      BY DEF Readable, ParseMayFail
    <3> QED
      BY <1>0, <1>2, <2>2, <3>1, <3>2 DEF UpToDate
  <2>3. UNCHANGED settings \/ \E d \in Callers : Reload(d)
    <3>1. \A g \in Files, op \in Ops : FileChange(g, op) => UNCHANGED settings
      BY DEF FileChange, reloadVars
    <3>2. \A d \in Callers : Lock(d) \/ LoadNext(d) \/ ReloadFails(d) => UNCHANGED settings
      BY DEF Lock, LoadNext, ReloadFails, reloadVars
    <3> QED
      BY <3>1, <3>2, ReloadFrame
  <2> QED
    BY <2>1, <2>2, <2>3
<1>4. CASE WillLoad(c, f)
  <2>0. pc[c] = "load" /\ (f \in DOMAIN read[c] => read[c][f] = disk[f])
    BY <1>4 DEF WillLoad
  <2>1. ASSUME NEW g \in Files, NEW op \in Ops, FileChange(g, op) PROVE Honoured(c, f)'
    <3>1. UNCHANGED <<pc, read>>
      BY <2>1, ChangeIsLater DEF reloadVars
    <3> QED
      BY <1>0, <2>0, <3>1 DEF WillLoad
  <2>2. ASSUME NEW d \in Callers, d # c,
               Lock(d) \/ LoadNext(d) \/ ReloadFails(d) \/ Reload(d)
        PROVE  Honoured(c, f)'
    <3>1. ~ReloadFails(d) /\ ~Reload(d) /\ ~Lock(d) /\ ~LoadNext(d)
      BY <2>0, <2>2 DEF LockInv, ReloadFails, Reload, Lock, LoadNext, Callers, Nobody
    <3> QED
      BY <2>2, <3>1
  <2>3. CASE Lock(c)
    BY <2>0, <2>3 DEF Lock
  <2>4. CASE LoadNext(c)
    <3> DEFINE i == Len(read[c]) + 1
    <3>1. PICK content \in ReadOutcomes(i) : read' = [read EXCEPT ![c] = Append(@, content)]
      BY <2>4 DEF LoadNext, LoadFile
    <3>2. i \in Files /\ Len(read[c]) \in Nat
      BY <1>0, <2>4, FileFacts DEF LoadNext, LoadFile
    <3>3. content = disk[i] /\ content \in Contents
      BY <3>1, <3>2, FileFacts, OutcomesAreUpToDate
    <3>4. /\ DOMAIN read'[c] = 1..i /\ read'[c][i] = content
          /\ \A g \in 1..Len(read[c]) : g \in DOMAIN read[c] /\ read'[c][g] = read[c][g]
      BY <1>0, <3>1, <3>3, AppendProperties, LenProperties
    <3>5. f \in 1..i => f = i \/ f \in 1..Len(read[c])
      BY <3>2
    <3>6. f \in DOMAIN read'[c] => read'[c][f] = disk[f]
      BY <2>0, <3>3, <3>4, <3>5
    <3>7. pc' = pc
      BY <2>4 DEF LoadNext, reloadVars
    <3> QED
      BY <1>0, <2>0, <3>6, <3>7 DEF WillLoad
  <2>5. CASE ReloadFails(c)
    <3>1. Len(read[c]) + 1 \in Files
      BY <1>0, <2>5, FileFacts DEF ReloadFails, LoadFails
    <3> QED
      BY <2>5, <3>1 DEF ReloadFails, LoadFails, Readable
  <2>6. CASE Reload(c)
    BY <1>0, <1>2, <2>0, <2>6
  <2>7. CASE UNCHANGED read /\ pc'[c] = "load"
    BY <1>0, <2>0, <2>7 DEF WillLoad
  <2> QED
    BY <2>0, <2>1, <2>2, <2>3, <2>4, <2>5, <2>6, <2>7, ReloadFrame
<1> QED
  BY <1>1, <1>3, <1>4
\* A change of one file leaves the requests for the others honoured, and one
\* that fsnotify announces is a request of its own.
LEMMA HonouredByChange ==
    ASSUME TypeOK, LockInv, ReadInv, AskedInv, RequestsAreHonoured, [Next]_vars,
           NEW g \in Files, NEW op \in Ops, FileChange(g, op),
           NEW c \in Callers, NEW f \in asked'[c]
    PROVE  Honoured(c, f)'
<1> USE DEF Honoured
<1>0. asked \in [Callers -> SUBSET Files] /\ fs \in Seq(FsEvent)
  BY DEF TypeOK, FileTypeOK, FsEvent
<1>1. CASE c = "events" /\ Announces(g, op)
  <2> DEFINE event == [file |-> g, op |-> op]
  <2>1. event \in FsEvent /\ event.file = g /\ event.op = op
    BY DEF FsEvent
  <2>2. fs' = Append(fs, event) /\ paths' = paths
    <3>1. PICK is \in {"whole", "torn", "gone"} : Change(g, is, op)
      BY FileChangeIsChange
    <3>2. Watched /\ Len(fs) # QueueBound
      BY <1>0, <1>1, LenProperties DEF Announces
    <3> QED
      BY <3>1, <3>2 DEF Change, Queue
  <2>3. Len(fs) + 1 \in DOMAIN fs' /\ fs'[Len(fs) + 1] = event
    BY <1>0, <2>1, <2>2, AppendProperties, LenProperties
  <2> QED
    BY <1>1, <2>1, <2>2, <2>3 DEF ReloadIsComing, Announces
<1>2. CASE ~(c = "events" /\ Announces(g, op))
  <2>1. f \in asked[c] \ {g}
    BY <1>0, <1>2 DEF FileChange
  <2>2. Honoured(c, f) /\ f \in Files
    BY <1>0, <2>1 DEF RequestsAreHonoured
  <2>3. disk'[f] = disk[f] /\ UNCHANGED <<settings, pc, read>>
    BY <2>1, <2>2, ChangeIsLater DEF reloadVars
  <2>4. ~Lock(c)
    BY <2>3 DEF Lock, Goto, TypeOK
  <2>5. CASE ReloadIsComing(c)
    BY <2>4, <2>5, ComingStep
  <2>6. CASE settings[f] = disk[f] \/ WillLoad(c, f)
    BY <2>3, <2>6 DEF WillLoad
  <2> QED
    BY <2>2, <2>5, <2>6
<1> QED
  BY <1>1, <1>2

LEMMA HonouredStep ==
    ASSUME TypeOK, LockInv, ReadInv, AskedInv, RequestsAreHonoured, [Next]_vars
    PROVE  RequestsAreHonoured'
<1> SUFFICES ASSUME NEW c \in Callers, NEW f \in asked'[c]
             PROVE  Honoured(c, f)'
  BY DEF RequestsAreHonoured, Honoured
<1>0. asked \in [Callers -> SUBSET Files]
  BY DEF TypeOK
<1>1. CASE \E g \in Files, op \in Ops : FileChange(g, op)
  BY <1>1, HonouredByChange
<1>2. CASE Sighup /\ c = "signals"
  BY <1>2 DEF Sighup, Honoured, ReloadIsComing
<1>3. ASSUME f \in asked[c], UNCHANGED diskVars PROVE Honoured(c, f)'
  <2>1. Honoured(c, f) /\ f \in Files
    BY <1>0, <1>3 DEF RequestsAreHonoured, Honoured
  <2>2. Readable
    BY <1>3 DEF AskedInv
  <2> QED
    BY <1>3, <2>1, <2>2, HonouredByReload
<1>4. CASE Sighup /\ c = "events"
  BY <1>0, <1>3, <1>4 DEF Sighup, fileVars
<1>5. CASE StopProvider \/ Cancel
  <2>1. f \in asked[c] /\ UNCHANGED diskVars
    BY <1>0, <1>5 DEF StopProvider, Stop, Cancel, fileVars
  <2> QED
    BY <1>3, <2>1
<1>6. CASE UNCHANGED <<diskVars, asked, ctxDone, stopped>>
  BY <1>3, <1>6
<1> QED
  BY <1>1, <1>2, <1>4, <1>5, <1>6, AskedFrame DEF Callers

-----------------------------------------------------------------------------
(* What holds in every behaviour.                                          *)

LEMMA HotInvInit == HotInit => HotInv
<1> SUFFICES ASSUME HotInit PROVE HotInv
  OBVIOUS
<1>1. TypeOK
  BY TypeInit
<1>2. LockInv
  BY DEF HotInit, LockInv, Callers, Nobody
<1>3. ReadInv
  <2>1. \A f \in Files : disk[f].at \in Nat /\ disk[f].at <= clock
    BY <1>1, FileFacts DEF HotInit, FileInit
  <2> QED
    BY <2>1 DEF HotInit, ReadInv, UpToDate, Callers
<1>4. AskedInv /\ RequestsAreHonoured
  BY DEF HotInit, FileInit, AskedInv, RequestsAreHonoured, Callers
<1> QED
  BY <1>1, <1>2, <1>3, <1>4 DEF HotInv

\* HotInv holds in every state.
THEOREM HotInvariant == HotSpec => []HotInv
<1>1. HotInv /\ [Next]_vars => HotInv'
  BY TypeStep, LockStep, ReadStep, AskedStep, HonouredStep DEF HotInv
<1> QED
  BY <1>1, HotInvInit, PTL DEF HotSpec

\* No event and no signal is used up by a reload that began too early.
THEOREM NoRequestIsLost == HotSpec => []RequestsAreHonoured
<1>1. HotInv => RequestsAreHonoured
  BY DEF HotInv
<1> QED
  BY <1>1, HotInvariant, PTL

\* The reloads of the two goroutines never put back what a file was before.
THEOREM FilesOnlyAdvance == HotSpec => FilesNeverGoBack
<1>1. ASSUME HotInv, [Next]_vars, NEW f \in Files
      PROVE  settings'[f].at >= settings[f].at
  <2>0. TypeOK /\ LockInv /\ ReadInv /\ settings[f].at \in Nat
    BY <1>1, FileFacts DEF HotInv
  <2>1. ASSUME NEW c \in Callers, Reload(c) PROVE settings'[f].at >= settings[f].at
    <3>1. settings' = read[c] /\ pc[c] = "load" /\ Len(read[c]) = Len(paths)
      BY <2>1 DEF Reload, Loaded
    <3>2. read[c] \in Seq(Contents)
      BY ReadersAssumption, <2>0 DEF TypeOK, FileTypeOK
    <3>3. f \in DOMAIN read[c] /\ read[c][f].at \in Nat
      BY <2>0, <3>1, <3>2, FileFacts, LenProperties, ElementOfSeq
    <3> QED
      BY <2>0, <3>1, <3>3 DEF ReadInv
  <2>2. UNCHANGED settings \/ \E c \in Callers : Reload(c)
    BY <1>1, <2>0, ReloadFrame DEF FileChange, Lock, LoadNext, ReloadFails, reloadVars
  <2> QED
    BY <2>0, <2>1, <2>2
<1>2. HotInv /\ [Next]_vars =>
        [\A f \in Files : settings'[f].at >= settings[f].at]_vars
  BY <1>1
<1> QED
  BY <1>2, HotInvariant, PTL DEF HotSpec, FilesNeverGoBack
=============================================================================
