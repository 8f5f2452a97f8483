# OneJs in TLA+

Models of the OneJs framework (`.oneJs/*`), of the application in the repository
and of the worktree flow it is developed in (`scripts/`, `.opencode/`), checked
with TLC and proved with TLAPS. The framework boots an application out of
plugins, wires its services with a dependency injection container, carries
domain events between services and processes, and runs background jobs. Its code
is single-threaded TypeScript: whatever is concurrent in it happens between two
`await`s, or between processes. The worktree flow is a shell script and a set of
hooks: there, the sessions and terminals of one repository run at the same time.

## Inventory

| part | state | operations | hard in it |
|---|---|---|---|
| plugin registry (`core/src/bootstrap/plugin-registry.ts`) | the static plugin list; counts, ready list and result of `resolve` | `register`, `getRegistered`, `clear`, `resolve` | order of every graph, cycles, missing dependencies |
| kernel (`oneJs.ts`, `store.ts`, `bootstrap-loader.ts`, `auto-loader-plugin.ts`) | plugins of `use`, position in the two passes, decorated services, bootstrap store | `use`, `start` | failures in the middle of a pass, fail-fast rules, services found while loading, a second `start` |
| container (`core/src/container/container.ts`) | registrations, aliases, instances, resolution stack | `register*`, `get`, `clear` | cycles, failure half way, singletons reached on several ways |
| event bus (`event-bus/src/application/event-bus.ts`, `in-memory-event-publisher.ts`) | sorted handler lists, subscriptions, middlewares, calls in progress | `register`/`subscribe`, `use`, `publish` | the list changes while the loop awaits a handler; failures |
| bridge (`event-bus-plugin.ts`, `redis-bridge.ts`) | handlers wired, clients, registry of event classes, messages under way | plugin `load`, `init`, `publish`, `subscribe`, inbound message | several processes, lost and repeated messages, start-up order |
| job workers (`jobs/src/application/worker.service.ts`, `jobs-plugin.ts`) | definitions, active workers, `isRunning` | `registerWorker`, `startAll`, `stopAll`, plugin `load` | calls that arrive while `stopAll` awaits |
| job queues (`queue.service.ts`) | queues and queue events by name | `add*`, `closeQueue`, `obliterateQueue` | unique jobs, closing against getting |
| server (`server/src`) | routes, middlewares | `use`, `start`, handling a request | mostly the Elysia library |
| authentication (`auth/src`) | the user in the server's store | `handle` | a store shared by concurrent requests |
| users, tasks (`packages/user`, `packages/task`) | repositories | register, login, reset, complete, delete | check-then-act over awaits |
| Prisma (`prisma/src`) | none of its own | queries | none |
| policy hooks (`scripts/hooks/*.mjs`, `.opencode/plugins/worktree-policy.js`) | none; each judges one tool call | allow, deny | two implementations of one policy; options, prefixes and several segments in a command |
| worktree flow (`scripts/spec-worktree.sh`) | branches, worktrees, PRs | `new`, `remove`, `gc` | what happens between the check and the deletions |
| unattended loop (`scripts/loop*.sh`, `opencode.ts`) | a count of open tasks | a session per turn | progress, retries |

How they interact: `OneJs.start()` puts the decorated services into the
container, orders the plugins and awaits each plugin's `register()` and then
each plugin's `load()`. The auto-loader's `load()` imports files whose
decorators add services; the bootstrap loader runs the bootstraps; the event
bus plugin subscribes the handlers and initialises its bridge; the jobs plugin
fills and starts the worker service. Services call each other directly, and
publish events on the bus. Processes share a Redis channel. The hooks stand in
front of every tool call of an agent session; a call they let through changes
the same branches and worktrees as the script.

## Modules

| module | models | extends |
|---|---|---|
| `PluginResolver` | `PluginRegistry.resolve`, one action per branch and per turn of the loop | |
| `Kernel` | `OneJs`, the static registry, the bootstrap store and loader; `resolve` is `PluginResolver`'s actions | `PluginResolver` |
| `TwoPhaseStart` | the abstract specification of a start: register all, then load all, dependencies first, end in the first failure that counts | |
| `Container` | the container; the recursion of `resolve` is an explicit stack | |
| `EventBus` | the bus of one process with the in-memory publisher | |
| `Dispatch` | the abstract specification of a bus: a published event is owed to every handler subscribed at that time | |
| `RedisBridge` | the event bus plugin's load and the bridges of several processes | |
| `WorkerService` | the worker service and the jobs plugin's load | |
| `QueueService` | the queue service; BullMQ's queues and the jobs in Redis are external | |
| `RequestPipeline` | the server's handling of a request: hook, controller, answer | |
| `Accounts` | user service, auth controller, user entity and repository | `RequestPipeline` |
| `Tasks` | task service, controller and repository; the publishing of both services | `Accounts` |
| `WebApi` | the api application: concurrent requests of both kinds, and the properties | `Tasks` |
| `PolicyHooks` | the three hooks of Claude Code and the plugin of OpenCode, as operators on tokenized commands | |
| `SpecWorktree` | `new`, `remove` and `gc`, removals that are interrupted, the sessions' edits, commits and pushes as the hooks let them through, merges | `PolicyHooks` |
| `KernelProofs` | proofs about `PluginResolver`, about `Kernel` on top of them, and that `Kernel` implements `TwoPhaseStart` | `Kernel` |
| `ContainerProofs` | proofs about `Container` | `Container` |
| `EventBusProofs` | proofs about `EventBus`, and that it implements `Dispatch` | `EventBus` |
| `RedisBridgeProofs` | proofs about `RedisBridge` | `RedisBridge` |
| `WorkerServiceProofs` | proofs about `WorkerService` | `WorkerService` |
| `QueueServiceProofs` | proofs about `QueueService` | `QueueService` |
| `WebApiProofs` | proofs about the api application | `WebApi` |
| `SpecWorktreeProofs` | proofs about `SpecWorktree` | `SpecWorktree` |
| `MC*` | the instances for TLC | the module named |

State and actions keep the names of the code. A synchronous piece of code, from
one `await` to the next, is one action; where a piece contains a loop whose
turns matter (`resolve` of the registry, `get` of the container) a turn is an
action and nothing interleaves with it. What a mutant of a definition gets wrong
stands in the comment above it; `PROJECT.json` pairs each with the property that
detects it.

**PluginResolver.** A plugin is its name: `use` and `register` drop a second
plugin of a name, and `KernelTypeOK` checks that. `dependsOn` is a set; the code
counts a repeated name twice and counts it down twice. The sorted array `ready`
is a set from which the least element is taken. `Rank` is the order of
`localeCompare`.

**Kernel.** A plugin object is a record, because two objects may have one name.
Awaiting a plugin ends in success or failure. `LoadOk` includes the second
`registerServices()`, `LoadFails` may have imported any part of the files.
`Imports` is what a `load()` imports of the plugin's files: a file that throws
is skipped and its services are missing (`GlobModuleLoader.ts:39`); `found[n]` are
the services that the `load()` of `n` has imported.
`start()` is not called while another `start()` of the instance is in progress.
The instance given to a plugin is not modelled, only that it ran.
`StartsInTwoPhases` is `TwoPhaseStart` under the mapping stated at the end of
the module: a pass is a phase, the plugins before `next` are the ones it is
through with, and everything else the kernel does is a stutter.

A plugin whose `register()` or `load()` never settles is a behaviour that stops
there; the kernel has no timeout, so that `start()` ends is not claimed.

**Container.** Registrations come between calls of `get`; constructors do not
call the container. Instances are present or absent, `built` counts how often a
singleton was constructed. A constructor or the fallback of a parameter may
throw; `get()` then ends in the outcome of that name.

**EventBus.** An `Execution` is one call of `handleEvent()`; `index` is the
position of the `for ... of` loop in the live list. Without middlewares the
first handler is called in the step that publishes, as in the code. A middleware
calls `next()` once and awaits it, or not at all. `DeliversToAll` is `Dispatch`
under the mapping stated at the end of the module: what is owed of an event are
the handlers listed at its publishing that have not been called, and its
progress is the stage of its one call of `handleEvent()`; entering a middleware,
resuming one and `use()` are stutters. `Insert` is `push()` and the stable sort,
taken together: the list was sorted before, so the new handler ends up behind
those of its priority.

**RedisBridge.** A call of `handleEvent()` is one entry of `handled`. Redis
delivers to the subscribers of the moment and keeps nothing; the publishing
client keeps commands until they are answered and sends them again after a
reconnection (or gives up); the subscribing client can lose its connection with
all that is under way. These are external actions, written from what the bridge
relies on. `init()` may fail for want of `REDIS_URL` or because SUBSCRIBE is
rejected; forwarding may throw for want of a client or because the event has no
JSON form.

**WorkerService.** A worker is a queue and a generation. BullMQ closes a worker
or fails to, that is the external part. It may also refuse a definition: then
`new Worker()` throws (`worker.service.ts:61`), after the definition or
`isRunning` has been set. Since `startAll()` goes through the definitions in the
order of their registration, `sound` is all there is to know of refusals: the
definitions in front of the first refused one. The iteration of `stopAll` over
the live map is the set of entries it has not visited.

**QueueService.** A call of a method is an actor that is used once; each of its
steps ends where the method awaits. `getQueue` builds a Queue and a QueueEvents
together, both are called by one number, and the number outlives their entries:
that is how an object that no entry leads to stays visible. Redis keeps one job
per id and ignores a second; workers take jobs and finish them; a command may
reject at any time, so may `close()`. A job's data is a function from keys to
values, and `Stringify` is what `JSON.stringify` does with the list of keys it
is given.

**PolicyHooks, SpecWorktree.** A command is the sequence of segments and tokens
that `segments()` and `tokenize()` make of it, with the one directory that
`targetDir()` finds: as in the code, a whole command is judged by one directory.
`git-guard`'s walk over global options, prefixes and subcommands is modelled
token by token; the tokens "git" and "gh" stand for paths to these programs too.
Which commands change something and which only read is stated in the MC module
from git's manual, not from the hooks, for a grid of commands on which the
recognisers are right (`ToldApart`) and for some on which they are not
(`Misjudged`). The calls of the flow itself (edit, commit, push in a worktree)
pass through the hooks; what else a session may do to `main` depends on no state
of the flow and is not an action. A branch is the set of
the commits reachable from it that the past of the repository does not hold, so
"the branch is in main" is inclusion; a squash merge puts the work into `landed`
and not the commits into `main`. `cmd_remove` ends a step after each git command
that changes something, because sessions, pushes and other terminals get in
between; what the check saw is `seen`. A script may die between two of them
(`Interrupted`); `torn` remembers the changes whose branch it had not deleted
yet.

**RequestPipeline, Accounts, Tasks, WebApi.** The actors are requests, each
handled once. A request gives way where its handler awaits something that may be
I/O: the strategy, a repository, hashing, `publish()`. The in-memory
repositories answer within the same turn of the event loop and never reject, but
the services are written against `IUserRepository` and `ITaskRepository`, and
`docs/core-features.md` has a database behind them; the models interleave at
every such await and let it reject (`Rejects`). A write that rejects is taken to
have written nothing. The api has no bridge (`apps/api/index.ts:13`): its
publisher starts the handlers and resolves without waiting for them, so
`publish()` does not reject. The awaits between the hook and the controller are
none of these, so the user in the store is read in the step that follows: the
model takes the store as request-scoped (`docs/routing.md:90`), which is
Elysia's business. A fresh UUID or hash is the request that makes it. Whether a
typed password is right is a choice. `readAt` and `savedAt` number the reads and
writes; they are history, no guard looks at them. The task seeder has run before
the first request.

## Runs

The runs of the container and of the worktree flow check deadlock: there, some
call or command is always possible. The others set `CHECK_DEADLOCK FALSE`,
because those systems may stop: a plugin order is found once, no more events are
published, no more workers are built.

| run | question | instance |
|---|---|---|
| `plugin_resolution` | is the order right for every graph? | all graphs over three names (self-loops, cycles, unregistered names), priorities below and above the default or none; 288117 states |
| `kernel_start` | what has run when `start()` returns or throws, and is that a start in two phases? | the framework's two loaders and four application plugin objects, two of each of two names and a possible cycle; every failFast option; two starts, every plugin may fail, every file may be skipped; 625273 states |
| `di_container` | does `get` construct the right things once? | three classes, twelve dependency graphs, four scope assignments, aliases and an instance; 84011 states |
| `event_bus` | which handlers are called, in which order, how often, and is that a dispatch to all who subscribed? | three handlers of a type and one of another, two events at once, up to two middlewares, both environments; 267764 states |
| `redis_bridge` | how often, in which order and whether do events cross? | two processes, two events, every mode of the publishing one, one reconnection and one lost subscription; 249990 states |
| `worker_lifecycle` | are workers orphaned or doubled? | two queues, two overlapping `stopAll`, two generations, any queue refused; 5280 states |
| `web_api` | what do concurrent requests do to each other's reads and writes? | three requests out of 31 calls, one user with a reset token, one task; symmetric requests; 571435 states |
| `queue_service` | what do overlapping calls leave open, and who added a job? | one queue, four symmetric calls of every kind, two jobs with derived and given ids, two Queues and two stored jobs; 1450370 states |
| `worktree_flow` | can work be lost, a worktree and its branch part? | one change, two terminals, a session of each host (one with the escape for git), two commits, removals interrupted anywhere; symmetric terminals; its assumptions evaluate the hooks on a grid of commands; 515618 states |
| `bootstrap_twice` | is repeating `registerServices()` harmless? (violated) | one start |
| `failure_hidden` | does the failure of a handler leave the bus in every environment? (violated) | as `event_bus` |
| `job_ids` | is a skipped job a duplicate? (violated) | as `queue_service` |

Why the bounds are enough. Three names are the least with a chain, a diamond's
side and a cycle that hides behind a plugin that can be ordered. Two starts show
what one start leaves to the next. Two overlapping stops and two generations are
the least with a stop that meets the worker of a restart. Three handlers allow
a registration before, between and behind the running one. Two events of a
source are the least that can be reordered; one reconnection and one loss are
the least of each. Bounds are constants (`MaxStarts`, `MaxGeneration`,
`Execution`, `MaxMiddlewares`, `MaxResets`, `MaxDrops`, `MaxBuilt`,
`MaxStored`, `MaxCommits`) or named in a comment
(`MayAdd`, `MayRegister`). Two liveness properties rest on a bound, and say so
at their definition: `StopEnds` (a program that restarts a queue for ever could
keep an iteration of `stopAll` going) and `HandlingEnds` (a handler that
registers another one each time it is called). Three requests are the least with
a change, a second change and a request that still holds the copy from before.
Four calls on one queue are the least with a Queue, a call that closes it, one
that builds the next Queue meanwhile and one that uses that; queues of different
names share nothing. Two commits are the least with one that the check of a
removal sees and one that comes after it; two terminals the least in which a
removal meets a removal.

Fairness. `HandlingEnds` and `StopEnds` assume that the promises of handlers,
middlewares and `close()` settle, one way or the other, and that the
event loop resumes who awaits them; the code has no timeouts, so a promise that
never settles hangs it. `ReachesSubscribers` also assumes that Redis serves its
clients. Nobody is assumed to call anything.

## What the checks show

The order of the plugins, the two passes, the container's verdicts, the worker
service under overlapping stops, the delivery bounds of the bus, and the
worktree flow's care for unmerged work hold. Three statements of the
documentation or comments are refuted by a run:

- `registerServices()` "is idempotent" (`oneJs.ts:134`): it appends every
  bootstrap again to the bootstrap store, so a bootstrap runs several times in
  one `start()` (`BootstrapOnce`).
- The failure of a handler is visible in every environment
  (`openspec/specs/event-handler-error-propagation/spec.md:8`, `:21`): in
  development `executeHandlers()` logs it and `handleEvent()` resolves
  (`FailureSurfaces`). In production it leaves `handleEvent()`, but the in-memory
  publisher does not await that call (`in-memory-event-publisher.ts:12-14`), so
  `publish()` rejects in no environment and the rejection is observed by nobody.
- A unique job's id is derived from its content (`queue.service.ts:70`,
  `queue.service.test.ts:214`): what lies inside nested objects is left out of
  it, so different jobs share an id and the second is skipped
  (`SkippedIsDuplicate`).

Smaller disagreements, met while translating the code and read off it, not the
subject of a run:

- `init()` is called after the subscriptions are wired
  (`event-bus-bridge.ts:15`), in an api that only publishes too
  (`redis-bridge.ts:64`): a process without an `@EventHandler` never calls it
  (`event-bus-plugin.ts:38`), has no client, and its `publish()` rejects
  (`LoadNothing`, `ForwardThrows`).
- "Notification failure does not fail committed workflow"
  (`openspec/specs/event-workflow-policy/spec.md:25-29`): the services await
  `publish()` without a `try` (`user.service.ts:52`, `task.service.ts:36`). With
  the api's publisher, which never rejects, that is harmless; with the bridge a
  committed workflow would be answered with an error.
- An alias swaps an adapter (`docs/core-features.md:76`): `Container` has what
  the code does, a registered class hides an alias of itself.
- `git-guard.mjs:6` speaks of asking; a changing command in the primary checkout
  is denied.
- "Inside a linked worktree everything passes" (`worktree-policy.js:13`): a git
  command whose directory is a subdirectory of a worktree is denied.
- The hooks are to keep sessions from changing the primary checkout. Some
  commands that change it pass: `git -C <worktree> log && git commit`, because
  one `-C` stands for the whole command; `sudo -u x git commit`, because an
  option of a prefix is not skipped; `git remote -v add x url`, because `-v`
  makes any `remote` a listing. A shell command that writes files is not looked
  at. And some that only read are refused: `git fsck`, `git symbolic-ref HEAD`,
  `git config x`. (`Misjudged` evaluates these, except the writes.)
- "Skip with --keep-remote" (`spec-worktree.sh:110`): the option is read only as
  the second one, whatever the first is, so `remove <change> --keep-remote`
  without `--force` deletes the remote branch.
- The merged check of `cmd_remove` looks at the local branch alone: commits that
  are only in the remote branch are not looked at, and without a local branch
  there is no check.
- `gc` gives changes whose PR is merged to `cmd_remove`, which refuses them if
  the merge was a squash: the commits are not in `origin/main`.

Weaker than one may expect, and stated so in the properties: while handlers are
registered during the handling of an event, a handler can be called again for
it, and out of the order of priority (`CallsBounded`, `PriorityOrder`); a
process in mode `both` handles its own events twice (`CopiesBounded`). The
services check and act with awaits in between, so their guarantees hold for
requests that do not overlap, and the properties say exactly which overlap breaks
them: two registrations of one address (`EmailOnce`), two resets by one token
(`TokenDies`), a new reset token that writes back the password from before a
change (`PasswordCurrent`), a completion that brings a deleted task back
(`DeletedStaysDeleted`). A Queue that is built while `closeQueue()` or
`obliterateQueue()` of its name awaits can lose its entry to that call, and an
obliterated Queue is never closed; nothing else leaves one open
(`StraysExplained`). Two callers of `addUniqueByData()` can both be told that
they added one job, but only if they overlap (`AddedOnce`). A service that was
imported is left out of the container if the `load()` that imported it rejects
and no other resolves (`LeftOutByFailure`). `remove` protects the commits it saw
when it checked, and those only: a commit made in the worktree, or pushed from
elsewhere, between the check and the deletion goes with the branch
(`WorkKept`). A removal that is interrupted leaves a branch without a worktree,
which the next `new` or `remove` takes up (`OneToOne`). If BullMQ refuses a
definition, `startAll()` throws with `isRunning` set and without starting the
queues registered after it; starting again gets no further
(`AllOnOrAllOff`). An error answered by the api means that nothing was written
or published, a success that the write is done and its events are published
(`AnswerMatchesEffect`); that their handlers succeed, or are done, it does not
mean.

## Proofs

The theorems hold for every value of the constants that satisfies the named
assumptions (`NamesAssumption`, `KernelAssumption`, `WorkerAssumption`,
`WebAssumption`, `FlowAssumption`, `ContainerAssumption`, `BusAssumption`,
`BridgeAssumption`, `BoundsAssumption`), which TLC evaluates in the runs of the
module. Each of the eight modules proves that an inductive invariant holds
initially and is preserved by every step, and reads the properties and the
refinements off it.

**KernelProofs, the resolver** (`TypeCorrect`, `DependenciesComeFirst`,
`UrgentComeFirst`, `VerdictIsSound`). A finite set of names is all that is
assumed of the plugins. The properties alone are not inductive: that `resolve`
only takes a plugin whose dependencies are ordered follows from `Counting`
(`pending[p]` is the number of dependencies of `p` not yet ordered, and `ready`
is exactly the set of plugins that wait for none), and that a counter reaches
zero only once from `NoRepeats`. `Waiting` says of a plugin that is still out
what `UrgentFirst` will need when it is taken. `LeastOfReady` shows that the
ready list has a least element, by well-foundedness of the strict subset order
on finite sets; the same argument shows in `OrderedIsAcyclic` that a complete
result leaves no cycle. `LengthsDecide` justifies the code's last test, which
compares two lengths: the result is an injection into the plugins, so equal
lengths mean that all are in it.

**KernelProofs, the kernel** (`KernelTypeCorrect`, `DependenciesAreReady`,
`ReadyMeansRun`, `FailureStops`, `LeftOutOnlyByFailure`,
`BootstrapsAreReached`). The resolver's steps are steps of the kernel, so its
invariant `IInv` is a conjunct of `KInv` and its step lemma is cited.
`RegisterProgress` and `LoadProgress` say what the position of a pass means:
plugins before it have an outcome `start()` may survive, the others are
untouched. Together with the order of the result that gives the dependency
property, and at the end of a pass soundness of the return. `StoreIsComplete`
and `LoopCoversStore` carry the bootstraps from the import that finds them to
the attempt to run them. `GraphIsActive` and `PhaseFits` tie the resolver's
input and verdict to the phase. The statements of `DependenciesAreReady` and
`FailureStops` are proved and not runs' properties: the runs check them as part
of `StartsInTwoPhases`.

**KernelProofs, the refinement** (`KernelImplementsTwoPhases`). Under the
mapping, the kernel's initial states are the abstract ones and each of its steps
is an abstract step or a stutter; both need `KInv`. A step of a pass is a turn
of the plugin at `next`: that it is due, i.e. that all it needs has had its turn
and it has not, is `NextIsDue`, from the order of the result and its having no
repetition. That a pass which reaches its end has had every plugin is
`PassIsComplete`. When `resolve` throws there is no order: `VerdictSound` of the
resolver gives the cycle or the missing name that `TwoPhaseStart` asks for.

**ContainerProofs** (`TypeCorrect`, `SingletonsAreSingle`, `VerdictIsSound`), for
any classes, parameters, aliases and scopes. The stack of frames is a path of
dependencies that starts in the class asked for (`StackIsPath`,
`StackIsNeeded`), so a class that is asked for again while it is on the stack
lies on a cycle (`AskedAgainIsCycle`), and a class that lacks something is one
the target needs. What has been constructed belongs to a set of classes that
needs nothing outside of it and in which nothing is missing and nothing circular
(`Sound`). Such sets are closed under union (`SufficientIsSound`), so there is a
largest one, `Sufficient`, without any appeal to finiteness; constructing a
class whose arguments are all in it adds the class to it (`SufficientGrows`).
`SettingDecides` shows that all this depends on the registrations alone, which do
not change during a call.

**EventBusProofs** (`TypeCorrect`, `CalledInOrder`, `NoHandlerIsSkipped`,
`CallsAreBounded`, `FirstFailureIsLast`, `BusImplementsDispatch`), for any
handlers, priorities, events and calls. `InsertKeepsSorted`: the place that the
sort gives a new handler exists (`LeastNumber`, by well-foundedness of the
numbers), the list stays sorted, and every other handler stays where it was or
moves one place back. Of a call in progress the invariant says that its index
counts the handlers called (`CallOK`), that there is one call per event
(`OneCall`), and that each handler that was there at the publishing has been
called or lies ahead of the index (`CalledOrAhead`): that survives an insertion,
because handlers move only away from the start. When the loop is through,
nothing lies ahead. `EventOK` relates the number of calls to the number of
registrations meanwhile. The refinement is read off the same invariant: since an
event has one call, the stage of that call is the event's progress
(`OneCallTells`); `Turn` is what a step of a call looks like from outside, and
`TurnDispatches` makes of it a call, an end, a drop or a stutter. That the end
comes only when nothing is owed is `CalledAll`; that a registration adds its
handler and takes none away is in `InsertKeepsSorted`. `NoHandlerIsSkipped` is
proved and not a run's property: `DeliversToAll` implies it.

**RedisBridgeProofs** (`TypeCorrect`, `CopiesAreBounded`, `StaysInOrder`), for any
number of processes and events, any deployment, and any number of reconnections
and lost subscriptions. An event's `place` is its position among those its
process published (`PublishedOnce` makes it unique). The unanswered commands
followed by the outbox form the `line` of a process, and the line is in
the order of publishing whatever is sent again (`Lined`); `waiting` is the part
of it that Redis has not executed. `ArrivalInv`, while the publishing client has
not reconnected: in a subscriber, what was handled comes before what is in the
inbox, and both before what waits, in the order of `place`. `CopiesInv` counts
copies where they are: handled, in the inbox, and one if the event is still owed
to Redis; together they are at most one more than the reconnections. Most steps are
quiet, they change none of this (`QuietArrival`, `QuietCopies`); `Publish`,
`RedisPublishes` and `Receive` move an event one place on and have proofs of
their own, and a reconnection lengthens `waiting` and counts as a reset.
`Crosses` and `HandledAtHome` say which events can be in a process at all.

**WorkerServiceProofs** (`TypeCorrect`, `NoWorkerIsOrphaned`,
`OneWorkerPerQueue`, `RunsAllOrNone`, `AnnouncedIsClosed`), for any number of
overlapping `stopAll` calls. `NoOrphan` is not inductive, because `clear()` could
drop a worker; `NothingLeft` shows that it cannot: an iteration ends when it has
visited every entry, all visited entries but the awaited one have closed
(`VisitedClosed`), and what has not closed is in the map (`LiveIsActive`).
`Numbered` keeps a restarted queue from reusing a worker, `ClosedByStopper` and
`IdleHasVisitedNone` explain why no entry is left half closed once no stop is in
progress, unless a `close()` was rejected. While `isRunning`, every `sound` queue
is in the map, whichever call was refused.

**QueueServiceProofs** (`TypeCorrect`, `StraysAreExplained`, `AddsOnce`), for
any names, calls, jobs and ids. A stray is an object that is open and that no
entry leads to. What keeps the others from becoming one is `EndsItsOwn`: the
entries that a call which ends a queue will delete lead to what it is closing,
or to something built while it awaited. `HasClosed` says that what it deletes
has been made to close, and `EventsAlone` covers the entry of the events that is
left behind when the one of the queue is gone. For the jobs, `Numbered` numbers
them as they are stored, and `NotFoundThen` says of a call that has looked for
its job and not found it that whatever is there now was stored since the call
began. So of two callers who both stored a job of one id, one began before the
other's was stored. `NextSplit` states once which steps do what to the maps and
to the jobs; most do nothing to one of the two.

**WebApiProofs** (`TypeCorrect`, `DuplicatesOverlap`, `SpentTokenIsDead`,
`LastPasswordCounts`, `DeletedTaskStaysAway`, `AnswersAreHonest`), for any number
of concurrent requests, earlier users and tasks. `WebAssumption` says that fresh
ids and tokens are fresh, that the earlier users have ids and addresses of their
own, and that value objects let no missing value through. The properties speak
of writes that are done; they are not inductive, because a write depends on what
its request read before. The inductive invariant therefore says, for every
request, what its copy is still worth (`Knows`): `FreeWhenRead`, `ResetIsFresh`,
`CopyIsCurrent` and `CompletionIsFresh` each allow exactly the writes made after
the read. `Advances` states once what any step does to the store and its history
(a write is numbered after all before it, nothing is taken back), and
`KnowledgeLasts` concludes that whatever others write, a request that does not
read goes on with what it knows. What remains is each reading action
(`RegisterBeginsKnows`, `ResetBeginsKnows`, `ForgotBeginsKnows`, `TaskReadKnows`)
and each write (`RegisterWrites`, `IssueWrites`, `PasswordWrites`, `TasksStored`).
`FirstIsMatch` shows that the repository's search returns a match.

**SpecWorktreeProofs** (`FlowTypeCorrect`, `OneWorktreePerBranch`, `NoWorkLost`,
`HostsAgree`, `WorktreeIsFree`), for any number of changes, sessions, terminals
and commits. The first three rest on `RemovalTypes`, a part of the types: what
an unforced removal has seen is in `main`, and since `main` only grows it stays
there until the removal is done. A deletion therefore loses only what the
removal did not see or was forced to discard (`DeletionKeepsWork`), and every
other step only adds to what is held (`GrowingHolds`). For `OneToOne`, a branch
loses its worktree only to a removal that then is at that branch, or that was
interrupted there. `HostsAgree` is what "mirroring" asks of the OpenCode plugin:
for every call and environment it decides what the three hooks of Claude Code
decide together. What a recogniser makes of a command is a walk over tokens, a
recursion that no prover here can unfold, so that it is right or wrong about a
command stays with TLC (`ToldApart`, `Misjudged`); `HostsAgree` and
`WorktreeIsFree` hold either way.

Only model-checked: all liveness properties (`StopEnds`, `HandlingEnds`,
`ReachesSubscribers`), which need fairness and `ENABLED`, and the recognisers of
the hooks on the commands of `MCSpecWorktree`. Every other property of a passing
run is stated by a theorem.

## Not modelled

- The HTTP server's building of routes, its global middlewares and the 404
  route: they are calls of the Elysia library.
- The traversal of the file system and the patterns of the module loader, the
  logger, error texts, the configuration service, the Prisma wrappers, the
  testing helpers and the build tooling: they keep no state that the properties
  depend on. The notifications application is a subscribing process of
  `RedisBridge`.
- What a session does to the primary checkout with commands the hooks misjudge,
  or by writing files from a shell: see above.
- Constructor parameters without a type: the container passes `undefined` for
  them and asks for nothing (`container.ts:110`).
- `scripts/loop.sh`, `loop-once.sh` and `opencode.ts`. What a turn does to the
  repository is a session of `SpecWorktree`; the scripts themselves are a
  sequence without shared state. Two things were noticed in reading them.
  `grep -c ... || echo 0` yields two lines when the count is zero, because
  `grep` prints it and fails, so the turn that finishes the last task is not
  recognised as progress; and under `set -e` a failing session ends `loop.sh`
  instead of being tried again, as lines 18-20 say.

## Plan

1. Done: resolver, kernel, container, event bus, bridge, workers.
2. Done: accounts, tasks and the request pipeline. Left: the task seeder against
   the kernel's repeated bootstraps.
3. Done: the queue service.
4. Done: the policy hooks and the worktree flow.
5. Abstract specifications. Done: a start in two phases, which the kernel
   implements; a dispatch to all who subscribed, which the bus implements.
6. Proofs. Done: every safety and action property of the runs, and both
   refinements. Left: liveness, which the prover does not reach, and the
   recognisers of the hooks, see above.
