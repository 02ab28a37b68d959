# A TLA+ model of vaultify

vaultify loads the configuration of a Go service from several providers, merges
it by priority into one settings map, and reloads it while the service runs.
This directory models the parts of it that carry state or algorithms, checks the
models with TLC on small instances, and proves the central properties with TLAPS
for instances of every size.

Run everything from this directory: `tlc -config MCConfigLoader.cfg
MCConfigLoader`, `tlapm ConfigLoaderProofs.tla`, and so on. `PROJECT.json` lists
the runs, the theorems, and for every definition the lines of code it stands for.

## 1. The system

| part | code | state it keeps | operations |
|---|---|---|---|
| ConfigLoader | `loader.go` | `settings`, `onReload`, the RWMutex `mu` | Load, Reload, OnReload, Get and its typed readers, Unmarshal, AllSettings, ValidateDependencies, GetDependency |
| merge engine | `merge.go`, `provider.go` | none | sort by priority, deepMerge, mergeSlices |
| VaultProvider | `vault_provider.go` | `cachedData`, `mu`, `stopCh` | Load with fallback, Watch (poll loop), Stop, GetCached |
| VaultDependencyProvider | `vault_dep_provider.go` | the same, per dependency | the same; Load lists, then reads each dependency |
| FileProvider | `file_provider.go` | the fsnotify watcher and its context | Load (layer files), Watch, Stop |
| EnvProvider | `env_provider.go` | `envCache`, `stopCh` | Load, Stop, Getenv; Watch does nothing |
| DefaultProvider | `default_provider.go` | a constant map | Load; extraction of defaults from struct tags |
| WatchManager | `watch.go`, `types.go` | the event channel, `callbacks`, `cancel`, `stopOnce` | Start, OnChange, Stop, the goroutine processEvents; ListenForReload (SIGHUP) |
| DynamicResolver | `resolve.go` | none | `${ENV}`, `${VAULT:..}`, `${FILE:..}` in values |
| masking, validation | `mask.go`, `validation.go` | none | copies for logs; struct-tag rules |
| Vault client | `vault/` | a token and a client | login, read, list, health; a logging HTTP round tripper |
| config structs | `pipe/`, `models/`, `config/` | plain data | formatting of a DSN and of addresses |

How they meet. A program gives the providers to a ConfigLoader and calls Load,
which calls every provider's Load under the loader's write lock, network reads
included. WatchManager.Start calls every provider's Watch; a provider's goroutine
sends events into one channel of 100 slots, and processEvents takes them out, calls
ConfigLoader.Reload for a change, which runs the OnReload callbacks, and then runs
the OnChange callbacks. A provider's poll loop and its Load share the provider's
cache. Stop cancels the context, stops the providers one after the other and closes
the channel.

Where it is hard, and what must hold:

* *ConfigLoader*: loads, reloads, registrations and readers interleave; a reload
  leaves the lock between its publication and its callbacks; a provider in the
  middle of the list fails. No call may see or publish a mixture, nothing older may
  be published over something newer, callbacks must see at least what their reload
  saw, and nobody may wait for ever.
* *the Vault providers*: a Load and a poll hold answers of different ages when
  they store them; reads fail in the middle. Answers must be fresh, an outage must be
  answered from the cache, and no stored change may go unannounced.
* *WatchManager*: senders block on a full channel, the receiver stops listening,
  errors and failed reloads use up events, and the channel is closed while goroutines
  still hold events. No change may be lost, the callbacks must not see settings
  older than the event, and all goroutines must end. Other callers reload the same loader
meanwhile, and each poll and each Load overwrites the provider's cache with what it has read.
* *FileProvider with the two reloading goroutines*: files are read one after the
  other while they are written in place; events are filtered, lost or misnamed; signals
  share one slot; each goroutine takes its request before it has the lock. A request
  must not be used up by a reload that began too early or met half a file, and older
  content must not come back.
* *resolver, masking, defaults, validation*: the sources of placeholders change
  during one call; sensitive keys lie above every kind of value; a field has one key for its
  default and others for JSON; errors of nested structs pass through pointers.
* *merge engine, EnvProvider*: maps, slices, leaves and null meet at one key
  at several levels, in an order set by priorities, registration or the
  environment. A key must show what the highest provider that decides it says.

## 2. Modules

| module | models | notes |
|---|---|---|
| `AtomicReload` | the promise of ConfigLoader | a load takes effect at one instant; a reload returns after every callback registered by then has run |
| `ConfigLoader` | `loader.go` | the lock in phases; one step per provider read; implements AtomicReload |
| `ConfigLoaderProofs` | | type correctness, inductive invariant, safety, refinement |
| `CachedSource` | the promise of VaultProvider | a Load is answered at one instant, by the source or from the cache; what is stored otherwise is announced |
| `VaultProvider` | `vault_provider.go` | any number of concurrent Loads and the poll loop; implements CachedSource |
| `VaultProviderProofs` | | the inductive invariant, three properties, refinement |
| `ChangeDelivery` | the promise of a watch | a report is delivered in its turn by a reload that holds it, as far as it could read the source, and then each callback, or is given up because a source cannot be read |
| `WatchManager` | `watch.go` with the watching goroutines of file and Vault providers | poll and Load in the steps that touch the cache, the loader's lock, another reloader; implements ChangeDelivery |
| `WatchManagerProofs` | | two inductive invariants, with and without disturbances, three properties, refinement |
| `VaultDependencyProvider` | `vault_dep_provider.go` | one Load at a time and the poll loop, one step per read |
| `VaultDependencyProviderProofs` | | the inductive invariant and two properties |
| `FileProvider` | `file_provider.go` | the files, fsnotify's queue, Load file by file, watchLoop |
| `HotReload` | `FileProvider` with processEvents and ListenForReload of `watch.go` | two goroutines, one lock, the files changing under them |
| `HotReloadProofs` | | the inductive invariant and two properties |
| `Trees` | `merge.go`, mergeMaps, getNestedValue | pure operators on nested maps |
| `PriorityLayers` | the promise of a merge | each map is laid over those of lower priority; maps as functions from paths |
| `PriorityLayersProofs` | | the inductive invariant: every key shows the topmost layer that decides it |
| `MergeEngine` | Load's sort and merge | the merge step by step against a reference without sort or merge; implements PriorityLayers |
| `ResolveTurns` | `resolve.go` without the trees | string by string, placeholder by placeholder while the sources change |
| `ResolveTurnsProofs` | | the inductive invariant and what each string becomes |
| `Resolver` | `ResolveTurns` in the settings' trees | ResolveAll |
| `Masking` | `mask.go` | pure operators |
| `StructTags` | `default_provider.go`, Unmarshal, `validation.go` | pure operators on struct types and values |
| `Settings` | how a program uses the five above | defaults, merge, resolve, mask, unmarshal, validate |
| `EnvCache` | `env_provider.go` without what Load returns | Load variable by variable, racing Stop |
| `EnvCacheProofs` | | the inductive invariant and two properties |
| `EnvProvider` | `EnvCache` with what Load returns | each variable's map layered over those before it; implements PriorityLayers |

`MC*` modules give the constants their values.

**ConfigLoader.** `pc` says where each goroutine stands. sync.RWMutex is modelled
in the two phases that matter: `Announce` (the writer is alone among writers, new
readers wait) and `Drain` (the active readers have left). `LoadFresh`, `LoadCached`
and `LoadFail` are one turn of Load's loop (loader.go:62-75), `Publish` is
loader.go:77-78, `Snapshot`, `RunCallback` and `Return` are Reload after its Load
(loader.go:242-252). A provider's data is the version of its source. A provider of
`Fallback` answers a failed read with its cache, which a poll may set to any answer
given so far.

**VaultProvider.** Each critical section of vp.mu and each network call is an
action: `LoadRead` then `LoadStore`, or `LoadReadFails` then `LoadFallback`;
`PollRead`, `PollCompare`, `PollStore`, `PollEmit`. `Form` is what the content of a
version prints, which is all that mapsEqual (vault_provider.go:185) compares.
A successful read is taken to carry data. `stopped` stands for both ways to end
the loop, `stopCh` and the watch context.

**VaultDependencyProvider.** Load reads `{dep}` and keeps `resp.Data["data"]`
(vault_dep_provider.go:157,178); poll reads `secret/{env}/{dep}` and keeps
`resp.Data` (210,219). The values `Inner(v)` and `Response(v)` are those two forms of
one content; `Mirrored` are the dependencies that both paths show.

**WatchManager.** A provider of `Caching` is a VaultProvider, any other a FileProvider.
`gor[p]` is the goroutine of provider p. That of a VaultProvider polls as the code does:
`PollRead`, `PollCompare` with `cache[p]`, `PollStore`, so that Loads can store between any two.
That of a FileProvider takes fsnotify's events (`TakeEvent`), of which one change may queue two
(`Noted`). `WatchError` is a failed poll or an error of fsnotify; `Send` puts the event in the channel
or waits, and `SendPanics` is a send on the closed channel. `Receive`, or `ReceiveZero` on the closed channel, then `HandleError`, or the
reload, `Dispatch`, `RunCallback` and `CallbacksDone` are processEvents and handleEvent; wm.mu is
held from Dispatch to CallbacksDone (watch.go:88-93), so OnChange waits. A reload has the
loader's lock: `TakeLock` takes it for handleEvent, `OtherReload` for ListenForReload or the
application. It comes to the providers in turn: `LoadRead`, and for a provider with a
cache `LoadStore` later, or `LoadFallback` when the read fails; a provider without a cache
that fails ends it (`ReloadFails`); `LoadDone` publishes. `stale` are the providers that gave the
settings their part from a cache because they could not be read. An event's version is what its
source held when the poll read it or the event was taken; it is a history variable of
the properties, since a WatchEvent carries none. `StopCall`, `StopProvider`, `StopClose`
are the steps of Stop. Stop may also come before Start: it uses up stopOnce, and the Start after
it works on a closed channel.

**FileProvider and HotReload.** A file's content is its state (whole, gone, or
torn between a truncation and the end of the write) and the moment of its last change,
so that putting back a file that has been removed is a step back too. `Truncate`, `Finish`,
`RenameOver` and `Remove` are what other programs do; each queues the event
fsnotify has for it while the directory is watched. `TakeEvent`, `SkipEvent`,
`TakeError`, `Send` and `LoopExit` are the branches of watchLoop. A torn YAML file
may parse as nothing, as a part, or not at all; a torn JSON file does not parse. In
HotReload `ReceiveChange` and `ReceiveSignal` take a request, `Lock`,
`LoadNext`, `ReloadFails` and `Reload` are the reload under the loader's write lock,
with this provider alone. Stop comes after Watch: one before it uses up stopOnce and finds no watcher to close
(file_provider.go:203-214), and is left out. `asked` is a history variable, written by the files and
signals and read by properties only: the files whose last change was followed by an
event or a signal, while all files could be read. The callbacks and the
closing of the channel are in WatchManager.

**Settings and its parts.** One step is one call of the program, but for the merge
(a step per provider) and ResolveAll (a step per placeholder, between which the
sources change). ResolveTurns knows a string by its node in the settings; Resolver takes the
strings from the tree of AllSettings and puts the results back into it. A text is a sequence of pieces, and a placeholder is one piece. A struct type is a
sequence of fields with the texts of their tags; a struct value is a map from field
names. `decode` is encoding/json as Unmarshal uses it: the keys of a field that are there
set it one after the other; null leaves what an earlier one has set, but empties a
pointer or a slice, and is an error for a models.Duration; a value of another type fails.

**MergeEngine and Trees.** A value is a leaf (what it prints and its type), a slice
of values, a map or null; a missing key is `Absent`. deepMerge and mergeMaps are
recursive operators over these. For PriorityLayers a tree is flattened (`Leveled`) to a function
from the paths of its keys, in which a slice says the set of its elements' texts.

**EnvCache and EnvProvider.** A variable is its name, the key it is split into and
its value. `LoadCall` makes the new cache and forgets the last Load's environment, `Environ` fixes the new one,
`ReadVariable` stores a variable, `WriteToNil` is that store when Stop has set the map to
nil. EnvProvider is EnvCache with the map that Load builds: each of its steps is a
step of EnvCache, and `LayerVariable` casts the variable's value and layers
its map. They are two modules because that map is a tree, and what uses the recursive
operators on trees is out of the prover's reach.

## 3. Runs

| run | bounds | what it shows |
|---|---|---|
| `loader` | 2 goroutines, 2 providers (one with a cache), 2 callbacks, 2 versions, 2 registrations | lock exclusion, callbacks read fresh settings, settings never go back, refinement of AtomicReload, and the invariant the proofs use |
| `loader_live` | 2 goroutines, 1 version | every call on the loader returns |
| `vault_provider` | 2 Loads, poll, 3 versions of which two print alike | fresh answers, no silent store, outages answered, the last change announced, refinement of CachedSource, and the invariant of the proofs |
| `vault_deps` | 2 dependencies, one also polled, 2 versions, with and without failures | read dependencies are returned as read, failed reads fall back, nothing is stored silently, the last change is loaded |
| `watch` | a file and a Vault provider, channel of 1, 1 change, any number of polls, failures and other reloads; 1.3 million states | callbacks see the change unless the provider answered from its cache; only Stop's close of the channel, after Start or before it, leads to a panic or to an event nobody sent; refinement of ChangeDelivery, and the invariant of the proofs |
| `watch_delivery` | a Vault provider, channel of 1, 1 change, a source that can be read, any number of polls and other reloads; 55 thousand states | no change is lost, each callback sees it unless another reload took it first; Stop and cancellation end the goroutines |
| `file_reload` | 2 files in two layouts (YAML under a misspelled JSON, JSON under TOML), 2 changes, fsnotify's queue and the channel of 1, any number of SIGHUPs | every request to reload is honoured, files never go back, what is asked for is loaded at last, cancellation ends the goroutines |
| `settings` | 3 providers, 2 priorities, 9 shapes of 3 levels, both strategies; 7 maps with placeholders and 3 states of their sources; 50 flat struct types with 20 maps and 100 nested ones with 24 | each key shows the highest provider that decides it, and the merge implements PriorityLayers; placeholders are replaced once, by an answer given during the call, in a string from left to right; logs hide what is sensitive; defaults reach the struct; Validate returns the first error and no other |
| `env_provider` | 6 variables, up to 4 at a time in every order | the last variable that meets a key decides it, and the variables are laid one over the other as PriorityLayers says; the cache is the last Load's; only a Stop within a Load leads to a panic |
| `stop_panics`, `vault_deps_cease`, `vault_deps_kept` | the smallest that show it | see below |

The bounds are small because the hazards need few actors: two writers of one
cache or one settings map, one step of each between two steps of the other, a channel that is full
with one event, and a list in which the failing provider comes first or last. What
depends on more of them is proved. Versions are bounded by `MaxVersion`, registrations by
`MaxCallbacks`, both in guards; the changes of WatchManager's sources also by `MaxChanges`; the
channel's 100 slots by `Capacity`. In `watch` one change suffices for what the cache makes
hard: a Load that has read before it, the poll that stores it, the Load that puts the old answer back, and
an outage. The file provider's goroutine and its duplicate events fill the channel beside
it. `MaxClock`
bounds how often the files change; they are there at the start, and stay as they are once the context
is cancelled; a program stops the provider or cancels the context, not both; `QueueBound` is the size of fsnotify's queue, which overflows. Two
changes are enough for a file to be truncated and finished, or changed before and after
its reading, while the other file or the other goroutine is in between. The
three groups of providers of `settings` are enumerated in `MCSettings`.

Symmetry is used for goroutines and callbacks in `loader`, which checks no
liveness. Deadlock is checked except where the system may stop: after a panic,
after Stop, and once the settings are validated or nobody changes a file any more.

### Disagreements between code and documentation

Three are runs of one property, taken from the words quoted, that TLC refutes.

| run | the words | what happens |
|---|---|---|
| `stop_panics` | watch.go:109 "Stop cancels watching and stops all providers." | Stop closes the channel while a goroutine holds an event: the send panics |
| `vault_deps_cease` | README.md:273 "emit events only when data actually changes" | Load and poll keep different forms; each poll after a Load announces a change, for ever |
| `vault_deps_kept` | README.md:18 "total outage falls back to cache" | a poll whose reads fail empties the cache |

Others are visible in the models' actions, or were read in the code, and have no run:

* After Stop processEvents may receive the zero event of the closed channel and
  reload for it (`ReceiveZero`; types.go:30 says a provider produces each event).
* Error events and changes whose reload fails reach no OnChange callback
  (`HandleError`, `ReloadFails`; watch.go:96 says every processed event does), and a
  reload that fails once has used up its event.
* OnChange callbacks may run with settings older than the change they are called for: a Load that had
  read before the change stores after the poll (vault_provider.go:105,159), Vault fails, and the
  reload for the event answers from that cache and succeeds (`stale`; without that clause TLC refutes CallbacksSeeTheChange).
* A change that another reload stores first, by SIGHUP or the application, is no difference to the
  poll any more: OnChange never runs for it (`TakenByAnother`). The settings do hold it (NoChangeIsLost).
* VaultDependencyProvider.Load fails when the list of secrets fails, whatever it
  has cached (`ListFails`; README.md:18), and after a poll its fallback returns a response
  with its envelope (`Response`; vault_dep_provider.go:219).
* A Stop within a Load of EnvProvider ends the process (`WriteToNil`).
* Merging slices drops a value of another type that prints the same
  (`containsAny`, merge.go:92).
* Hot reload (README.md:13) misses what changes before Watch, a file that is removed,
  whatever fsnotify's queue lost (`TakeError`: handleEvent logs the error and returns), and, if
  fsnotify spells a relative path as "./config.yaml", every change of the
  "config.yaml" of README.md:67 (`isRelevantEvent`, asGiven = FALSE).
* A `default` tag such as "60s" of a time.Duration becomes 60 ns (`Sscanf`); that of a
  models.Duration or of a slice makes Unmarshal fail (`Fits`). Defaults of nested
  structs are not extracted. `required` on a pointer or on a struct is never looked at
  (`IsSkipped`, `validateStruct`). UnmarshalKey applies no default of the struct's tags.
* Unmarshal and Get show placeholders unresolved: ResolveAll works on a copy.
* ValidateDependencies returns nil whatever is missing (loader.go:263-280). TOML is announced
  (file_provider.go:16) and refused (117), and its appearance makes every reload fail. `WithEnvDelimiter` sets a rune that
  envToMap ignores (env_provider.go:169). AllSettings says it copies shallowly
  (loader.go:183) and copies deeply.

## 4. Fairness

*ConfigLoader*: weak fairness for what a goroutine does unhindered; strong fairness
for entering the lock, since sync.Mutex hands itself to a writer that has waited 1 ms
and RWMutex.Unlock lets the waiting readers in before the next writer. A
provider's Load and a callback are assumed to return. Nobody owes a call.

*VaultProvider, VaultDependencyProvider*: a call that has begun goes on, the ticker
keeps firing, the receiver receives; the Vault server owes nothing. In
VaultDependencyProvider an event is followed by the Load that WatchManager makes
for it; `OnDemandSpec` admits no others but the first.

*WatchManager*: weak fairness for Start and Stop (`MainStep`), the processor (`HandleStep`), a
Load that has the lock (`LoadStep`) and each provider's goroutine (`WatchStep`, with a ticker that keeps
firing); strong fairness for the loader's lock (`LockStep`: other reloads may come for ever, and
sync.Mutex starves nobody), for the exits of the goroutines (`ProcessExit`, `WatchExit`: branches of a
select, among which Go picks at random), and for senders blocked on the channel (`Send`), which are served in
turn. Nobody owes a call, another reload or a change. `UndisturbedSpec` excludes sources that cannot be read
and changes between a source's first Load and its Watch, which a file provider does not
see; once the context is cancelled reads fail, since the Vault client is given that context.

*HotReload*: weak fairness for goroutines that can run. Signals may arrive for ever, so
the goroutine of the events needs strong fairness for the lock (sync.Mutex starves
nobody) and the exit of the signals' goroutine for its branch of the select. No
file has to change and no signal to arrive.

## 5. Proofs

`ConfigLoaderProofs` holds for any set of goroutines, any number of providers, any
subset with caches, any callbacks, and any bounds. It needs `NAssumption` and
`FallbackAssumption`. The safety properties are not
inductive: that a publication is no older than the settings depends on what Load
has collected. `IInv` adds that every collected version lies between the call's
`floor` and the source (`Collected`), that nothing is ahead of its source, that at
most one writer has announced itself and no reader is inside with it, and that a
goroutine's call fits its phase. The proof follows the change of each part:
`LockStep` for exclusion, `SourceStep` for versions, `CollectedStep` for what a Load
holds, `FreshStep` for callbacks. `NeverGoBack` is read off the invariant at
`Publish`, the only step that writes the settings. `Refinement` maps
a goroutine's phase to its request and the callbacks it owes to AtomicReload's, and
shows that every step is a step of it or a stutter.

`VaultProviderProofs` proves `VaultInv` inductive for any number of Loads,
versions and any printed form: an answer in flight is newer than its call
(`AnswersInFlight`), the cache is never emptied again, and a difference between
cache and what was told exists only while the event is about to be sent.
Freshness, the absence of silent stores and the answer to outages follow.
`KeepsItsPromise` shows that every step is a step of CachedSource or a stutter: a Load is
answered at its store, with a version between the secret's at the call and the
secret's now, or at its fallback; `PollStore` is a store that is owed an announcement and
`PollEmit` the announcement; reads, comparisons and outages are not seen. ConfigLoader
assumes this of its `Fallback` providers. It takes the read and the store as one step, which
is the same to a caller that loads under a lock: no other Load is under way, and a poll's
store between the two is as good as one before the read.

`VaultDependencyProviderProofs` holds for any number of dependencies, any subset of them
that the poll can read, with failures or without. FreshDependencies speaks of the Load that has
returned; `DepInv` adds what a Load in progress has: it comes to the dependencies
in turn, and each one it has read is in its result, in Load's form and since its call
(`Collected`). FailedReadsFallBack is about one step, Load's return, and needs to know
what happened at the dependency's own turn, when the cache may have been another:
`FallbackIsCollected` says that only Load stores Load's form, so that what is cached in it
at the end was cached at that turn, and is collected.

`WatchManagerProofs` holds for any number of file and Vault providers, any
capacity of the channel, any callbacks and any bounds. `WatchFrame`, `GoroutineFrame`, `ProcessFrame`
and `LoadFrame` say once which step changes which variable and how, and the other lemmas look only at those.
For OnlyStopDoesHarm `WatchInv` adds that the channel is closed by the end of a Stop and by nothing else, and
that every event in a hand or in the channel has a provider (`OnlyStopCloses`). The caches
go back and forth, so nothing about CallbacksSeeTheChange can rest on them: it rests on the sources,
of which no event, cache or Load is ahead (`NothingInvented`), and on the Load under
way (`LoadsAreFresh`): whatever it has read at its source, once it has the lock, is no older than the settings
before it, nor than the event it is for or whose callbacks wait meanwhile; what it has from a cache is in
`missed`, and then in `stale`.

`DeliversChanges` maps the watch to ChangeDelivery: a version is pending (`Undelivered`) from the moment
its event is in its goroutine's hand until it leaves the processor's hand. That a report is taken in its turn needs
the order of the whole channel: what is handled is no newer than what is in the channel, which is ordered and
no newer than what the goroutine has in hand (`ReportsInOrder`; a version may stand there more than once), and one goroutine watches a
provider (`WatchedOnce`); these are parts of `WatchInv`. `InHandIsFirst` concludes that what is handled is a
first of what is pending, `LoadRenews` that what a Load publishes is what a renewal of ChangeDelivery may
be, and each action is then a step of ChangeDelivery or is not seen there. A reload of somebody else is its
`Refresh`, a zero event of the closed channel its `DeliverStray`, a send on it its `Die`,
so that the refinement holds with a Stop at any moment.

NoChangeIsLost is a property of `UndisturbedSpec`, where every source can be read; `UndisturbedInv` adds
that until a provider is watched its source is what the settings hold (`SettledUntilWatched`), that no Load answers from
a cache and that no goroutine ends before a cancel or Stop (`NobodyEnded`). The lemmas follow what the settings lack:
a change is noticeable until it has been read (`NoticeableStep`), a poll's or an event's report waits until
its reload has begun (`WaitingStep`), and a Load that has not yet come to the provider, or has read it since the
change, brings it (`ReadStep`). A Load that puts an older answer back makes the change noticeable again;
one that stores it before the poll is itself what brings it.

`HotReloadProofs` holds for any number of files in any layout, any size of fsnotify's
queue and of the channel, any number of changes, and a storm of signals. RequestsAreHonoured and
FilesNeverGoBack rest on `HotInv`: the goroutine that loads is the one that holds the
lock (`LockInv`); what a reload has read is between what the settings hold and what the
file is, and as old as the file only if it is the file's content or was torn
(`ReadInv`); and nothing is outstanding while a file cannot be read, after the
context is cancelled, or of the file events after Stop (`AskedInv`).
The proof shows for each step that whatever stands for an outstanding request, an event in one of the queues
or in a hand, a signal in its slot or a reload under way, is replaced by the next in that line.

`EnvCacheProofs` holds for any set of environments in which a name appears once, any number of
Loads and a Stop anywhere. `EnvInv` says what a cache holds while a Load runs, and that a Load has no
cache only after a Stop that came within a Load.

`ResolveTurnsProofs` holds for any strings at any nodes, any placeholders, and any history of what the
environment, Vault and the files hold. `TurnsInv` says that within a string the answers are those
of its leftmost placeholders (`LeftToRight`), and that there are moments, none before the one to its left, at which the
sources said what was put in (`AnswersAreTimely`). A new answer is given now, after all of them; the
placeholders to its right have none yet and are thought of as asked now as well (`MomentsPutOff`).

`PriorityLayersProofs` holds for any number of maps of any depth, any priorities and both strategies. `LayersInv`
says that the layers are laid from the lowest on and that the settings remain a tree, and TopmostDecides itself is
inductive with these: `DecidedByTheNew` and `DecidedByTheOld` look at the keys the new layer decides and
at the others. It is about PriorityLayers; that the sort and the recursion of
the code lay the layers in this way is `MergesByPriority`, which the run `settings` checks for the providers'
maps, and `VariablesAreLayered`, which `env_provider` checks for the variables of one provider, whose
layers have equal priority; a new Load is the action `Begin`.

The assumptions of these modules are the named ASSUMEs of the modules they prove about:
kinds of the constants (a number of providers is positive, a subset is a subset, a
layout a sequence of files), and that os.Environ has a name once. ResolveTurns and PriorityLayers need none. None restricts the behaviours.

Only model-checked:

* all liveness: fairness is beyond the prover;
* what rests on `Trees`, whose operators are recursive: LastVariableWins and VariablesAreLayered of
  EnvProvider, and MergeEngine with its refinement of PriorityLayers, Resolver, Masking, StructTags and
  Settings. What these compute for every tree would be an induction over data.

Every action property the runs check (OutageIsAnswered, SettingsNeverGoBack,
FailedReadsFallBack, FilesNeverGoBack) is proved.

## 6. Abstractions

* Content is a version number. What a merge does with content is in MergeEngine.
* Callbacks read the loader and return; they do not call back into WatchManager,
  which would deadlock on wm.mu.
* In WatchManager a file provider is read in one step (HotReload reads file by file, while they are
  written); the providers are loaded and watched in one order; one other reloader stands for any
  number, since they share a lock. The liveness run has no file provider: NoChangeIsLost is proved for
  both kinds, and `file_reload` checks the liveness of files.
* Start is called once. Stop does not overlap it; a second Stop does nothing.
* Which keys are sensitive, what a text is as a number, which texts match a pattern and a
  name in snake case are constants. The kinds of numbers are two: those that min
  and max measure and those they leave alone.
* A file that exists and cannot be read counts as one that does not parse; events of the watched directory
  itself are left out.
* ConfigLoader's lock serialises the Loads of VaultDependencyProvider and EnvProvider.
  VaultProvider is modelled for concurrent Loads as well.
* JSON and YAML parsing, logging and error wording are left out; what Atoi and
  ParseFloat read is a constant.

Not modelled: the config structs (definitions with tags), the Vault client and its
configuration (each operation is one call of vault-client-go and keeps no state but
the token; the models take a read as one step that answers or fails), the HTTP logging
round tripper (it restores the bodies it has read), errors, loggers, mocks and
examples. AllSettings' copies and the sharing of nested maps by Get are not told apart:
the models' readers do not write.

## 7. Plan

1. `RoundTripper`: bodies are readable after logging.
2. The files of FileProvider as PriorityLayers too: Load layers them with mergeMaps.
