----------------------- MODULE VaultDependencyProvider -----------------------
(***************************************************************************)
(* VaultDependencyProvider of vault_dep_provider.go: Load, which lists the *)
(* secrets and reads each declared dependency, and the poll loop.          *)
(*                                                                         *)
(* Load reads the path {dep} and keeps the "data" field of the response;   *)
(* poll reads the path secret/{env}/{dep} and keeps the whole response.    *)
(* The model gives the two paths the same content where both exist.  What  *)
(* the provider keeps of a dependency is the version of that content and   *)
(* the form it is kept in; the printed forms mapsEqual compares differ     *)
(* whenever one of these does.                                             *)
(*                                                                         *)
(* ConfigLoader calls Load under its lock, so one Load runs at a time.     *)
(***************************************************************************)
EXTENDS Integers

CONSTANTS N,            \* number of dependencies, declared in the order 1..N
          Mirrored,     \* those that also exist at the path poll reads
          Outages,      \* whether calls of Vault may fail: the choices
          MaxVersion    \* bound: the last version of a secret

ASSUME NAssumption == N \in Nat \ {0}
ASSUME MirroredAssumption == Mirrored \subseteq 1..N
ASSUME OutagesAssumption == Outages \subseteq BOOLEAN
ASSUME MaxVersionAssumption == MaxVersion \in Nat \ {0}

VARIABLES secret,       \* the version of each secret; 0 before it is written
          outages,      \* whether they do in this behaviour
          cached,       \* vp.cachedData
          pc,           \* where Load stands: idle, list or read
          dep,          \* the dependency it comes to next
          keys,         \* keysMap: what the list named
          result,       \* what Load has collected
          since,        \* the secrets' versions when Load was called
          fresh,        \* the dependencies this Load has read from Vault
          loaded,       \* what the last Load that returned data returned
          answer,       \* how the last Load ended
          poll,         \* where the poll loop stands
          pollDep,      \* the dependency it comes to next
          newData,      \* what the poll has collected
          told,         \* the cache as last returned or announced
          asked         \* an event waits for the reload it asks for

vaultVars == <<secret, outages>>
loadVars == <<pc, dep, keys, result, since, fresh, loaded, answer>>
pollVars == <<poll, pollDep, newData>>
vars == <<vaultVars, cached, loadVars, pollVars, told, asked>>

Deps == 1..N

None == [form |-> "none", ver |-> 0]
Inner(v) == [form |-> "inner", ver |-> v]
Response(v) == [form |-> "response", ver |-> v]
Nothing == [d \in Deps |-> None]

TypeOK ==
    /\ secret \in [Deps -> 0..MaxVersion] /\ outages \in Outages
    /\ {cached, result, loaded, newData, told} \subseteq
           [Deps -> [form : {"none", "inner", "response"}, ver : 0..MaxVersion]]
    /\ pc \in {"idle", "list", "read"} /\ dep \in 1..(N + 1)
    /\ keys \subseteq Deps /\ fresh \subseteq Deps
    /\ since \in [Deps -> 0..MaxVersion]
    /\ answer \in {"none", "data", "empty", "error"}
    /\ poll \in {"select", "read", "store", "emit", "done"}
    /\ pollDep \in 1..(N + 1)
    /\ asked \in BOOLEAN

Init ==
    /\ secret \in [Deps -> {0, 1}]
    /\ outages \in Outages
    /\ cached = Nothing
    /\ pc = "idle" /\ dep = 1 /\ keys = {} /\ result = Nothing
    /\ since = secret /\ fresh = {}
    /\ loaded = Nothing /\ answer = "none"
    /\ poll = "select" /\ pollDep = 1 /\ newData = Nothing
    /\ told = Nothing
    /\ asked = FALSE

-----------------------------------------------------------------------------
(* The Vault server.                                                       *)

WriteSecret(d) ==
    /\ secret[d] < MaxVersion
    /\ secret' = [secret EXCEPT ![d] = @ + 1]
    /\ UNCHANGED <<outages, cached, loadVars, pollVars, told, asked>>

-----------------------------------------------------------------------------
(* Load and loadDependency.                                                *)

LoadCall ==
    /\ pc = "idle"
    /\ pc' = "list"
    /\ since' = secret
    /\ asked' = FALSE
    /\ UNCHANGED <<vaultVars, cached, dep, keys, result, fresh, loaded, answer,
                   pollVars, told>>

ListFails ==
    /\ pc = "list"
    /\ outages
    /\ pc' = "idle"
    /\ answer' = "error"
    /\ UNCHANGED <<vaultVars, cached, dep, keys, result, since, fresh, loaded,
                   pollVars, told, asked>>

\* A list without keys is no error: Load returns an empty map, uncached.
ListWithoutKeys ==
    /\ pc = "list"
    /\ outages
    /\ pc' = "idle"
    /\ answer' = "empty" /\ loaded' = Nothing /\ fresh' = {}
    /\ UNCHANGED <<vaultVars, cached, dep, keys, result, since, pollVars, told,
                   asked>>

List ==
    /\ pc = "list"
    /\ pc' = "read"
    /\ keys' = {d \in Deps : secret[d] # 0} /\ fresh' = {}
    /\ UNCHANGED <<vaultVars, cached, dep, result, since, loaded, answer,
                   pollVars, told, asked>>

Collect(d, data) ==
    /\ result' = [result EXCEPT ![d] = data]
    /\ dep' = dep + 1

ReadDependency(d) ==
    /\ pc = "read" /\ dep = d
    /\ d \in keys
    /\ Collect(d, Inner(secret[d]))
    /\ fresh' = fresh \union {d}
    /\ UNCHANGED <<vaultVars, cached, pc, keys, since, loaded, answer, pollVars,
                   told, asked>>

CachedDependency_Lost(d) == None        \* mutant: the fallback is missing
CachedDependency(d) == cached[d]

\* An unlisted dependency is skipped; one whose read fails is taken from the
\* cache, if it is there.
SkipDependency(d) ==
    /\ pc = "read" /\ dep = d
    /\ d \in keys => outages
    /\ Collect(d, IF d \in keys THEN CachedDependency(d) ELSE None)
    /\ UNCHANGED <<vaultVars, cached, pc, keys, since, fresh, loaded, answer,
                   pollVars, told, asked>>

LoadData_Cached == [d \in Deps |-> IF cached[d] = None THEN result[d] ELSE cached[d]]
LoadData == result      \* mutant above: Load returns what is cached meanwhile

LoadStore ==
    /\ pc = "read" /\ dep = N + 1
    /\ cached' = LoadData /\ loaded' = LoadData /\ told' = LoadData
    /\ answer' = "data"
    /\ pc' = "idle" /\ dep' = 1 /\ keys' = {} /\ result' = Nothing
    /\ UNCHANGED <<vaultVars, since, fresh, pollVars, asked>>

-----------------------------------------------------------------------------
(* The poll loop.                                                          *)

PollTick ==
    /\ poll = "select"
    /\ poll' = "read"
    /\ UNCHANGED <<vaultVars, cached, loadVars, pollDep, newData, told, asked>>

PollRead(d) ==
    /\ poll = "read" /\ pollDep = d
    /\ d \in Mirrored /\ secret[d] # 0
    /\ newData' = [newData EXCEPT ![d] = Response(secret[d])]
    /\ pollDep' = d + 1
    /\ UNCHANGED <<vaultVars, cached, loadVars, poll, told, asked>>

\* A read that fails leaves its dependency out.
PollMisses(d) ==
    /\ poll = "read" /\ pollDep = d
    /\ d \in Mirrored /\ secret[d] # 0 => outages
    /\ pollDep' = d + 1
    /\ UNCHANGED <<vaultVars, cached, loadVars, poll, newData, told, asked>>

\* mapsEqual; mutant: it compares the keys only.
SameData_OnlyKeys(a, b) == \A d \in Deps : a[d] = None <=> b[d] = None
SameData(a, b) == a = b

PollCompare ==
    /\ poll = "read" /\ pollDep = N + 1
    /\ pollDep' = 1
    /\ IF SameData(cached, newData)
       THEN poll' = "select" /\ newData' = Nothing
       ELSE poll' = "store" /\ UNCHANGED newData
    /\ UNCHANGED <<vaultVars, cached, loadVars, told, asked>>

AfterPollStore_NoEvent == "select"      \* mutant: no event is sent
AfterPollStore == "emit"

PollStore ==
    /\ poll = "store"
    /\ poll' = AfterPollStore
    /\ cached' = newData
    /\ newData' = Nothing
    /\ UNCHANGED <<vaultVars, loadVars, pollDep, told, asked>>

PollEmit ==
    /\ poll = "emit"
    /\ poll' = "select"
    /\ told' = cached
    /\ asked' = TRUE
    /\ UNCHANGED <<vaultVars, cached, loadVars, pollDep, newData>>

\* Stop, or the end of the watch context, is seen between two polls.
PollExit ==
    /\ poll = "select"
    /\ poll' = "done"
    /\ UNCHANGED <<vaultVars, cached, loadVars, pollDep, newData, told, asked>>

-----------------------------------------------------------------------------
LoadStep ==
    \/ ListFails \/ ListWithoutKeys \/ List \/ LoadStore
    \/ \E d \in Deps : ReadDependency(d) \/ SkipDependency(d)
PollStep ==
    \/ PollTick \/ PollCompare \/ PollStore \/ PollEmit
    \/ \E d \in Deps : PollRead(d) \/ PollMisses(d)

Next ==
    \/ \E d \in Deps : WriteSecret(d)
    \/ LoadCall \/ ListFails \/ ListWithoutKeys \/ List
    \/ \E d \in Deps :
          \/ ReadDependency(d) \/ SkipDependency(d)
          \/ PollRead(d) \/ PollMisses(d)
    \/ LoadStore
    \/ PollTick \/ PollCompare \/ PollStore \/ PollEmit \/ PollExit

Spec == Init /\ [][Next]_vars

(* A Load that has begun goes on, an event is followed by the Load that    *)
(* WatchManager asks for, and the ticker fires until the loop ends.        *)
Fairness ==
    /\ WF_vars(LoadStep) /\ WF_vars(asked /\ LoadCall)
    /\ WF_vars(PollStep)

FairSpec == Spec /\ Fairness

\* The same with no Load but a first one and those that events ask for.
OnDemandSpec ==
    /\ Init
    /\ [][Next /\ (LoadCall => asked \/ answer = "none")]_vars
    /\ Fairness

-----------------------------------------------------------------------------
(* Properties.                                                             *)

\* Every dependency that a Load has read is returned as it was read, at least
\* as recent as the call and without its envelope, whatever the other
\* dependencies' failures and the polls in between have stored.
FreshDependencies ==
    pc = "idle" /\ answer = "data" =>
        \A d \in fresh : loaded[d].form = "inner" /\ loaded[d].ver >= since[d]

\* As long as no poll replaces the cache, failing reads take no dependency
\* away: one that an earlier Load returned as it read it, that is listed and
\* still cached, is returned again.
FailedReadsFallBack ==
    [][\A d \in Deps :
          pc = "read" /\ pc' = "idle" /\ d \in keys
          /\ loaded[d].form = "inner" /\ cached[d] = loaded[d]
             => loaded'[d] # None]_vars

\* As long as Vault answers, the last change of every secret that poll can see
\* is loaded at last: an event follows it, and the Load that the event asks for.
DependenciesCatchUp ==
    ~outages /\ [](poll # "done") =>
        <>[](\A d \in Mirrored : secret[d] # 0 => loaded[d] = Inner(secret[d]))

\* What the poll stores it announces: the cache differs from what was last
\* returned or announced only while the event is about to be sent.
NothingStoredSilently == cached # told => poll = "emit"

\* What a Load has collected, it has read since its call.
Collected ==
    /\ \A d \in Deps : since[d] <= secret[d]
    /\ pc = "read" =>
           \A d \in fresh : d < dep /\ d \in keys /\ result[d].form = "inner"
                           /\ result[d].ver >= since[d]

\* A poll never collects the form that Load keeps.  So what is cached in that
\* form was cached when a Load in progress came to its dependency, and is
\* collected.
FallbackIsCollected ==
    /\ \A d \in Deps : newData[d].form # "inner"
    /\ pc # "read" => dep = 1
    /\ pc = "read" =>
           \A d \in keys : d < dep /\ cached[d].form = "inner" => result[d] # None

\* The inductive invariant.
DepInv ==
    /\ TypeOK
    /\ Collected /\ FreshDependencies
    /\ NothingStoredSilently /\ FallbackIsCollected

-----------------------------------------------------------------------------
(* What the documentation says, and the code does not do.                  *)

\* The provider polls Vault "and emit[s] events only when data actually
\* changes" (README.md:273): once the secrets stop changing, the events cease.
EventsCease == <>[](poll # "emit")

\* "total outage falls back to cache" (README.md:18): a dependency that was
\* returned once and is still listed is never left out again.
DependenciesAreKept ==
    [][\A d \in Deps :
          pc = "read" /\ pc' = "idle" /\ d \in keys /\ loaded[d] # None
             => loaded'[d] # None]_vars
=============================================================================
