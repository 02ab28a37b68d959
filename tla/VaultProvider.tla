---------------------------- MODULE VaultProvider ----------------------------
(***************************************************************************)
(* VaultProvider of vault_provider.go: Load with its fallback to the cache *)
(* and the poll loop that detects changes.  Loads and the poll share       *)
(* cachedData; each holds vp.mu only for the single read or write of it,   *)
(* so every network answer is stored some time after it was given.         *)
(*                                                                         *)
(* The secret's content is its version, 1 at the start; 0 is the nil       *)
(* cachedData of a provider that has read nothing.  mapsEqual compares the *)
(* printed values, so two versions that print alike are equal to it: Form  *)
(* gives the printed form of each version (nil prints like an empty map).  *)
(*                                                                         *)
(* pc[c], a call of Load:    idle -> read -> store -> idle                 *)
(*                                        -> fallback -> idle              *)
(* poll, the poll loop:      select -> read -> compare -> store -> emit    *)
(*                                          -> error         -> select     *)
(*                           select -> done                                *)
(***************************************************************************)
EXTENDS Integers

CONSTANTS Loaders,      \* goroutines that call Load
          MaxVersion,   \* bound: the last version of the secret
          Form(_)       \* how the content of a version prints

ASSUME MaxVersionAssumption == MaxVersion \in Nat \ {0}

VARIABLES vault,        \* the secret's current version in Vault
          up,           \* Vault answers reads
          cached,       \* vp.cachedData
          pc,           \* where each call of Load stands
          resp,         \* the answer it has read and not yet stored
          since,        \* the secret's version when it was called
          answer,       \* what the last finished call returned
          poll,         \* where the poll loop stands
          pollResp,     \* the answer the poll has read
          told,         \* the content last returned or announced
          stopped       \* stopCh is closed or the watch context is cancelled

loadVars == <<pc, resp, since, answer>>
pollVars == <<poll, pollResp>>
vaultVars == <<vault, up, cached, pc, resp, since, answer, poll, pollResp,
               told, stopped>>

Versions == 0..MaxVersion
Origins == {"none", "vault", "cache", "error"}

\* mapsEqual
SameData_OnlyKeys(v, w) == v # 0 <=> w # 0      \* mutant
SameData(v, w) == Form(v) = Form(w)

TypeOK ==
    /\ vault \in Versions /\ cached \in Versions /\ told \in Versions
    /\ up \in BOOLEAN /\ stopped \in BOOLEAN
    /\ pc \in [Loaders -> {"idle", "read", "store", "fallback"}]
    /\ resp \in [Loaders -> Versions]
    /\ since \in [Loaders -> Versions]
    /\ answer \in [Loaders -> [from : Origins, ver : Versions]]
    /\ poll \in {"select", "read", "compare", "store", "emit", "error", "done"}
    /\ pollResp \in Versions

VaultInit ==
    /\ vault = 1
    /\ up \in BOOLEAN
    /\ cached = 0
    /\ pc = [c \in Loaders |-> "idle"]
    /\ resp = [c \in Loaders |-> 0]
    /\ since = [c \in Loaders |-> 0]
    /\ answer = [c \in Loaders |-> [from |-> "none", ver |-> 0]]
    /\ poll = "select"
    /\ pollResp = 0
    /\ told = 0
    /\ stopped = FALSE

-----------------------------------------------------------------------------
(* The Vault server.                                                       *)

WriteSecret ==
    /\ vault < MaxVersion
    /\ vault' = vault + 1
    /\ UNCHANGED <<up, cached, loadVars, pollVars, told, stopped>>

ToggleVault ==
    /\ up' = ~up
    /\ UNCHANGED <<vault, cached, loadVars, pollVars, told, stopped>>

-----------------------------------------------------------------------------
(* Load.                                                                   *)

LoadCall(c) ==
    /\ pc[c] = "idle"
    /\ pc' = [pc EXCEPT ![c] = "read"]
    /\ since' = [since EXCEPT ![c] = vault]
    /\ UNCHANGED <<vault, up, cached, resp, answer, pollVars, told, stopped>>

LoadRead(c) ==
    /\ pc[c] = "read"
    /\ up
    /\ pc' = [pc EXCEPT ![c] = "store"]
    /\ resp' = [resp EXCEPT ![c] = vault]
    /\ UNCHANGED <<vault, up, cached, since, answer, pollVars, told, stopped>>

AfterFailedRead_Ignored == "store"      \* mutant: the error is ignored
AfterFailedRead == "fallback"

LoadReadFails(c) ==
    /\ pc[c] = "read"
    /\ ~up
    /\ pc' = [pc EXCEPT ![c] = AfterFailedRead]
    /\ UNCHANGED <<vault, up, cached, resp, since, answer, pollVars, told,
                   stopped>>

\* Mutant: Load returns the data cached meanwhile, not the data it read.
ReadData_Cached(c) == IF cached = 0 THEN resp[c] ELSE cached
ReadData(c) == resp[c]

LoadStore(c) ==
    /\ pc[c] = "store"
    /\ cached' = ReadData(c)
    /\ told' = ReadData(c)
    /\ answer' = [answer EXCEPT ![c] = [from |-> "vault", ver |-> ReadData(c)]]
    /\ resp' = [resp EXCEPT ![c] = 0]
    /\ pc' = [pc EXCEPT ![c] = "idle"]
    /\ UNCHANGED <<vault, up, since, pollVars, stopped>>

LoadFallback(c) ==
    /\ pc[c] = "fallback"
    /\ answer' = [answer EXCEPT ![c] =
                    [from |-> IF cached = 0 THEN "error" ELSE "cache",
                     ver |-> cached]]
    /\ pc' = [pc EXCEPT ![c] = "idle"]
    /\ UNCHANGED <<vault, up, cached, resp, since, pollVars, told, stopped>>

-----------------------------------------------------------------------------
(* The poll loop.                                                          *)

PollTick ==
    /\ poll = "select"
    /\ poll' = "read"
    /\ UNCHANGED <<vault, up, cached, loadVars, pollResp, told, stopped>>

PollRead ==
    /\ poll = "read"
    /\ up
    /\ poll' = "compare"
    /\ pollResp' = vault
    /\ UNCHANGED <<vault, up, cached, loadVars, told, stopped>>

CacheAfterError_Lost == 0               \* mutant: a failed poll clears it
CacheAfterError == cached

PollReadFails ==
    /\ poll = "read"
    /\ ~up
    /\ poll' = "error"
    /\ cached' = CacheAfterError
    /\ UNCHANGED <<vault, up, loadVars, pollResp, told, stopped>>

PollCompare ==
    /\ poll = "compare"
    /\ IF SameData(cached, pollResp)
       THEN poll' = "select" /\ pollResp' = 0
       ELSE poll' = "store" /\ UNCHANGED pollResp
    /\ UNCHANGED <<vault, up, cached, loadVars, told, stopped>>

AfterPollStore_NoEvent == "select"      \* mutant: no event is sent
AfterPollStore == "emit"

PollStore ==
    /\ poll = "store"
    /\ poll' = AfterPollStore
    /\ cached' = pollResp
    /\ pollResp' = 0
    /\ UNCHANGED <<vault, up, loadVars, told, stopped>>

\* The send of EventChanged: whoever receives it loads what is cached now or
\* something newer.
PollEmit ==
    /\ poll = "emit"
    /\ poll' = "select"
    /\ told' = cached
    /\ UNCHANGED <<vault, up, cached, loadVars, pollResp, stopped>>

PollEmitError ==
    /\ poll = "error"
    /\ poll' = "select"
    /\ UNCHANGED <<vault, up, cached, loadVars, pollResp, told, stopped>>

PollExit ==
    /\ poll = "select"
    /\ stopped
    /\ poll' = "done"
    /\ UNCHANGED <<vault, up, cached, loadVars, pollResp, told, stopped>>

Stop ==
    /\ ~stopped
    /\ stopped' = TRUE
    /\ UNCHANGED <<vault, up, cached, loadVars, pollVars, told>>

-----------------------------------------------------------------------------
LoadStep(c) ==
    LoadRead(c) \/ LoadReadFails(c) \/ LoadStore(c) \/ LoadFallback(c)

PollStep ==
    \/ PollRead \/ PollReadFails \/ PollCompare \/ PollStore
    \/ PollEmit \/ PollEmitError

VaultNext ==
    \/ WriteSecret \/ ToggleVault
    \/ \E c \in Loaders :
          \/ LoadCall(c) \/ LoadRead(c) \/ LoadReadFails(c)
          \/ LoadStore(c) \/ LoadFallback(c)
    \/ PollTick \/ PollRead \/ PollReadFails \/ PollCompare \/ PollStore
    \/ PollEmit \/ PollEmitError \/ PollExit
    \/ Stop

VaultSpec == VaultInit /\ [][VaultNext]_vaultVars

(* A call of Load that has begun goes on, the ticker keeps firing, and the *)
(* receiver of the events keeps receiving.  The Vault server owes nothing. *)
VaultFairness ==
    /\ \A c \in Loaders : WF_vaultVars(LoadStep(c))
    /\ WF_vaultVars(PollTick) /\ WF_vaultVars(PollStep)

FairVaultSpec == VaultSpec /\ VaultFairness

-----------------------------------------------------------------------------
(* Properties.                                                             *)

\* A Load that reached Vault returns a version no older than its own call,
\* even when a slower poll or another Load has overwritten the cache between
\* its read and its return: it returns resp.Data, never cachedData.
FreshAnswers ==
    \A c \in Loaders : pc[c] = "idle" /\ answer[c].from = "vault" =>
        answer[c].ver >= since[c]

\* After one answer or event no Load fails: an outage is answered from the
\* cache, which no step empties again (README:18).
OutageIsAnswered ==
    [][\A c \in Loaders : told # 0 /\ answer'[c] # answer[c] =>
          answer'[c].from # "error"]_vaultVars

\* The cache never holds a change that nobody was told of, unless the poll
\* loop is just about to send its event: a change that is stored and not
\* announced would never be announced, the next poll finds no difference.
NothingStoredSilently ==
    Form(cached) # Form(told) => poll = "emit"

\* While Vault answers and nobody stops the provider, its last change reaches
\* the outside: as the answer of a Load or as an event, whatever order the
\* answers of racing polls and Loads are stored in.
ChangesAreAnnounced ==
    <>[](up /\ ~stopped) => <>[](Form(told) = Form(vault))

\* Why they hold: every answer in flight is newer than the call it is for, and
\* none is ahead of the secret.
AnswersInFlight ==
    /\ vault # 0
    /\ \A c \in Loaders :
          /\ since[c] <= vault /\ resp[c] <= vault
          /\ pc[c] = "store" => resp[c] # 0 /\ resp[c] >= since[c]
    /\ poll \in {"compare", "store"} => pollResp # 0
    /\ pollResp <= vault /\ cached <= vault
    /\ told # 0 => cached # 0

VaultInv ==
    TypeOK /\ AnswersInFlight /\ FreshAnswers /\ NothingStoredSilently

-----------------------------------------------------------------------------
(* What the provider promises.                                             *)

Request(c) == IF pc[c] = "idle" THEN "idle" ELSE "asked"

Promise == INSTANCE CachedSource WITH
    source <- vault,
    cache <- cached,
    owed <- poll = "emit",
    req <- [c \in Loaders |-> Request(c)]

\* The provider implements CachedSource: whatever polls and other Loads do
\* between the read and the store of a Load, its answer is one that Vault gave
\* during the call, or what is cached when it returns; only a provider that has
\* stored nothing fails; and each store of the poll is announced before the
\* next.
ImplementsCachedSource == Promise!Spec
=============================================================================
