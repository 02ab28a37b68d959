------------------------------ MODULE EnvCache ------------------------------
(***************************************************************************)
(* The cache of an EnvProvider (env_provider.go): Load goes through the    *)
(* environment's variables and keeps those with the prefix in envCache,    *)
(* while Stop may take the cache away.                                     *)
(*                                                                         *)
(* A variable is its name, the key its name is split into (empty when the  *)
(* name lacks the prefix or is nothing else) and its value.  ConfigLoader  *)
(* calls Load under its lock, so one Load runs at a time; WatchManager     *)
(* calls Stop without it.                                                  *)
(***************************************************************************)
EXTENDS Integers, Sequences

CONSTANT Environments       \* the sequences os.Environ may return

\* os.Environ has every name once.
ASSUME EnvironmentsAssumption ==
    \A e \in Environments :
        /\ Len(e) \in Nat /\ DOMAIN e = 1..Len(e)
        /\ \A i, j \in DOMAIN e : e[i].name = e[j].name => i = j

VARIABLES environ,          \* what os.Environ returned to this Load
          pos,              \* the variable it comes to next
          made,             \* envCache is not nil
          envCache,         \* the variables in it
          pc,               \* where Load stands: idle, environ or read
          stopAt,           \* where Load stood when Stop came, or never
          panicked          \* a write to the nil map ended the process

vars == <<environ, pos, made, envCache, pc, stopAt, panicked>>

stopped == stopAt # "never"          \* stopOnce is done

Init ==
    /\ environ = <<>> /\ pos = 1
    /\ made = FALSE /\ envCache = {}
    /\ pc = "idle"
    /\ stopAt = "never"
    /\ panicked = FALSE

MadeAtLoad_UnlessStopped == ~stopped        \* mutant: no cache after Stop
MadeAtLoad == TRUE

CacheAtLoad_Kept == envCache                \* mutant: the old cache stays
CacheAtLoad == {}

LoadCall ==
    /\ ~panicked /\ pc = "idle"
    /\ pc' = "environ"
    /\ environ' = <<>> /\ pos' = 1
    /\ made' = MadeAtLoad /\ envCache' = CacheAtLoad
    /\ UNCHANGED <<stopAt, panicked>>

Environ ==
    /\ ~panicked /\ pc = "environ"
    /\ environ' \in Environments
    /\ pc' = "read"
    /\ UNCHANGED <<pos, made, envCache, stopAt, panicked>>

Here == pc = "read" /\ pos <= Len(environ) /\ ~panicked

SkipVariable ==
    /\ Here /\ environ[pos].key = <<>>
    /\ pos' = pos + 1
    /\ UNCHANGED <<environ, made, envCache, pc, stopAt, panicked>>

ReadVariable ==
    /\ Here /\ environ[pos].key # <<>>
    /\ made
    /\ envCache' = envCache \union {environ[pos]}
    /\ pos' = pos + 1
    /\ UNCHANGED <<environ, made, pc, stopAt, panicked>>

WriteToNil ==
    /\ Here /\ environ[pos].key # <<>>
    /\ ~made
    /\ panicked' = TRUE
    /\ UNCHANGED <<environ, pos, made, envCache, pc, stopAt>>

LoadReturn ==
    /\ ~panicked /\ pc = "read" /\ pos = Len(environ) + 1
    /\ pc' = "idle"
    /\ UNCHANGED <<environ, pos, made, envCache, stopAt, panicked>>

Stop ==
    /\ ~panicked /\ ~stopped
    /\ stopAt' = pc
    /\ made' = FALSE /\ envCache' = {}
    /\ UNCHANGED <<environ, pos, pc, panicked>>

Next ==
    \/ LoadCall \/ Environ \/ SkipVariable \/ ReadVariable \/ WriteToNil
    \/ LoadReturn \/ Stop

Spec == Init /\ [][Next]_vars

-----------------------------------------------------------------------------
(* Properties.                                                             *)

Read == {i \in 1..Len(environ) : i < pos /\ environ[i].key # <<>>}

\* Between two Loads, and until Stop, Getenv answers what the last Load read:
\* no variable of an earlier environment survives it.
CacheIsTheLastLoad ==
    pc = "idle" /\ ~stopped => envCache = {environ[i] : i \in Read}

\* A Stop in the middle of a Load takes its cache away and the next write to it
\* panics; one between two Loads does no harm, since a Load makes its own cache
\* even after Stop.
OnlyAStopWithinLoadPanics == panicked => stopAt \in {"environ", "read"}

TypeOK ==
    /\ environ \in Environments \union {<<>>} /\ pos \in Nat \ {0}
    /\ made \in BOOLEAN /\ panicked \in BOOLEAN
    /\ pc \in {"idle", "environ", "read"}
    /\ stopAt \in {"never", "idle", "environ", "read"}

\* The inductive invariant: a cache that is there holds what this Load has read
\* so far, or the last Load if none runs; a Load without a cache has lost it to a
\* Stop that came within a Load.
EnvInv ==
    /\ TypeOK
    /\ pc = "environ" => pos = 1
    /\ made => envCache = {environ[i] : i \in Read}
    /\ ~made => envCache = {}
    /\ pc # "idle" /\ ~made => stopAt \in {"environ", "read"}
    /\ pc = "idle" /\ ~made => stopped \/ environ = <<>>
    /\ panicked => pc = "read" /\ ~made
=============================================================================
