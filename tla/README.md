# A TLA+ development of cad-mcp

cad-mcp is an MCP server that lets a language model build CAD parts: a client
sends CadQuery code, the server runs it in a sandbox process, keeps the
resulting B-rep files per session, and renders, measures, validates and exports
them through a separate geometry-kernel process. This directory holds TLA+
models of the parts of the server in which several things happen at once or in
which one of several steps may fail, TLC configurations that check them on small
instances, and TLAPS proofs of the properties that matter most. `PROJECT.json`
lists the components, runs, theorems, hazards and findings, and maps every
definition to the lines of code it models. All paths below are relative to
`src/src/cad_mcp/` unless they start with `SPEC.md` or `tests/`.

Contents: [inventory](#inventory), [the plan](#the-plan),
[the modules and the code](#the-modules-and-the-code), [the runs](#the-runs),
[bounds](#bounds), [fairness and time](#fairness-and-time),
[the proofs](#the-proofs), [findings](#findings),
[what is not modelled](#what-is-not-modelled).

## Inventory

How the parts interact: the MCP library calls a synchronous tool on a pool
thread and the asynchronous one (`gen_ai_mesh`) on the event loop. A tool finds
its session through `session.for_context`, works on the session's parts and
files, has user code run by `sandbox.run`, and asks `geometry.call` or
`geometry.tessellate` for everything that needs OCCT. So pool threads share the
sessions, the session registry, one spare sandbox process, one kernel process
and one cache of tessellations.

| Component | State | Operations | What is hard | What makes it correct |
|---|---|---|---|---|
| Session and assembly tools (`session.py`, `tools/`) | parts, active part, code histories, part files, session lock | execute_cad, create_part, set_active_part, delete_part, gen_ai_mesh, position_part | tools with and without the lock interleave; a run fails after the history was changed; a mesh arrives for a part that is gone | a part's file is what its history gives; at least one part, and the active one exists; no part is replaced unasked |
| Session registry (`session.py`) | `_sessions`, temporary directories, last use | get_or_create, evict_idle, reset | sweeps, resets and calls in flight at the same time; the idle timeout | nothing in use is evicted before its idle timeout; a directory is lost to an overdue call only; every call returns |
| Geometry kernel (`geometry.py`, `_geometry_worker.py`) | the worker process, its pipes, the call lock | call, prewarm, shutdown, is_ready | crash, hang, late answer, chatter on the protocol's pipe | one operation at a time; an answer is the answer to its request; no process is left behind |
| Tessellation cache (`geometry.py`) | entries by path, mtime, size and tolerances | tessellate, clear | the file changes between stat, lookup, computation and insertion | never a stale mesh; bounded |
| Sandbox (`sandbox.py`, `warm_worker.py`, `_sandbox_worker.py`) | the warm spare, processes of runs | run, take, prewarm, shutdown | user code that hangs; spares that die; spawners that are late | a process serves one run; none survives; runs end |
| Exports (`tools/export_model.py`, `export.py`, `paths.py`) | files in the output directory, the list of exports | export_model for one part or several | name chosen before the file exists; one file of several fails | nothing is overwritten; the list is true; every file is reported |
| Placement and measurement (`tools/position_part.py`, `tools/measure.py`, `tools/list_parts.py`, `tools/render_views.py`, `tools/validate_mesh.py`) | a part's placement | position_part, readers | arguments are checked between two assignments; labels are read again after the work | an error reply means nothing changed |
| Sandbox policy (`_sandbox_policy.py`) | patched functions, a re-entrancy flag | install, guard | guards that call guarded functions | an operation that a guard sees and refuses never happens |
| Meshy client (`meshy.py`) | none between calls | create, poll, download, retry | retries and deadlines | bounded tries, bounded time, no partial file taken for a whole one |
| Mesh to B-rep (`mesh_to_brep.py`, `_geometry_ops.py`) | none | load, decimate, sew, write | several simplifiers that may fail; in-place writing whose result is not looked at | the record of a part goes with the reply; a failure before the sewing leaves the file alone |
| Fly affinity (`fly.py`) | none; ids carry a machine | wrap, unwrap, replay | a machine that is gone | a request reaches the machine of its session or ends, and never goes round |
| Server, transport (`server.py`, `transport.py`) | configuration | start-up, layers, health | which layer sees which reply | a request is let in by the lists, and /health is honest |
| Rendering, validation (`render.py`, `validate.py`) | none | tessellate, place, cluster overhangs | two implementations of one transform; union-find | wherever a placement is applied it means the same; regions are connected components |
| Determinism (`_determinism.py`) | none | canonicalise_3mf | identifiers drawn at random | the bytes depend on the content only |
| Envelope, logging, prompts, resources | none | text | - | - |

The hazards, each at its line, are in `PROJECT.json` under `hazards`.

## The plan

The order puts first what loses or corrupts a client's model.

1. `Assembly`: one session under concurrent tools, and `SerialAssembly` as the
   abstract specification that the locked tools implement; `AssemblyCrew` for the
   two disciplined uses of a session; with their proofs. Done.
2. `Sessions`: the registry, with its proofs. Done.
3. `GeometryWorker`: the kernel process, with its proofs. Done.
4. `WarmSpare`: the sandbox's processes; `SandboxRun` with `SandboxPolicy`: one
   run and the guards inside it; with their proofs. Done.
5. `TessCache`: the tessellation cache; `Readers` composes it with the tools that
   read an assembly and with position_part; with the proofs of both. Done.
6. `Exports`: names and files, with their proofs. Done.
7. `Meshy`: retries, polling, downloads; `GenMesh` composes it with the import,
   with its proofs. Done.
8. `Server` and `Fly`: several machines, session ids, replays, with their proofs.
   Done.
9. `Overhangs`, `Placement`, `Measures`, `Canonical`, composed by `Shapes`: the
   pure algorithms against reference definitions, with their proofs. Done.

Of the properties that the passing runs check, only the liveness properties have
no theorem; see [the proofs](#the-proofs).

## The modules and the code

**Assembly.** One session. A Part object is an identity (`heap`), `parts` maps
names to identities in the insertion order of the dict, `brep` is the file of a
name, `lock` the session lock. `brep` and `heap` are separate because the code
keeps them separate: the file belongs to a name (`Session.brep_path`), the
history to an object. Histories are sequences of code blocks; the file holds
"what that sequence of blocks builds" for a part, a mesh, a torn file or
nothing. Each tool is the sequence of actions between which another thread can
see or change something: `ExecBegin` (under the lock: tentative history),
`ExecOk` / `ExecFailed` / `ExecRaised` / `ExecRefuse`, `CreateCall` (colour and
first check without the lock), `CreateInsert` / `CreateRefuse` (under it),
`DeleteCall`, `DeleteUnlink`, `DeleteEntry` or `DeleteKeyError`, `DeleteRepoint`,
`SetActiveCall`, `SetActiveAssign`, `GenCall` (the part, before the first await),
`GenDownloaded` (the name of the file, after the last one), `GenSew`, `GenRecord`,
`GenFailed`. `Outcomes` says what runs and imports may come to: with "torn", an
import may leave a short file and report success, or fail with the new file, a
short one or the old one in place. `Settled` is a history without the block that a run in progress
may yet roll back.

**SerialAssembly, AssemblyCrew.** `SerialAssembly` is the abstract specification:
every call is one step and there is no lock. `AssemblyCrew` adds two disciplined
uses of a session, chosen in `CrewInit`: a crew "one", which makes one call of any
tool after the other, and a crew "locked", which makes overlapping calls of
execute_cad and create_part only. The crew restricts which calls begin, never
how they go on. The module also gives the refinement mapping: `LockedCallsAreAtomic`
says that the second crew implements `SerialAssembly`.

**Sessions.** The registry, the directories and the locks. `Enter` takes the
registry lock and decides what to sweep, `SweepSkip`, `SweepClean`, `SweepDrop`
and `SweepKeyError` are the loop body of `evict_idle`, `HandOut` the rest of
`get_or_create`; `Lock` / `Unlock` is a tool that holds the session lock,
`Download` / `ServiceFails` the one that waits for a service; `ResetClean` and
`ResetDel` are `reset`, which takes no lock.

**GeometryWorker.** `Begin`, then `EnsureOld` or `EnsureSpawn` and `SpawnOk` /
`SpawnFailed` / `SpawnAbandoned`, `Send` / `NotSent` / `BrokenPipe`, the loop of `_await_done` (`InTime`,
`TimedOut`, `ReadChatter`, `ReadAnswer`, `ReadEOF`), `ShutdownSwap` and
`ShutdownKill`. The process is the environment: `Boot`, `TakeRequest`, `Answer` and
`Leave` follow `_serve`; `Chat`, `Hang`, `Die` and `Reap` are what the kernel and the
operating system may do. `kill` and the collection of the exit status are two
steps, as `poll()` may still say "alive" after the pipes are closed. A start-up ends
in one of three ways: READY was read, and the process is installed even if it has
died since (`SpawnOk`, `Reported`); stderr ended or said too much, and the process
is killed (`SpawnFailed`); or READY was read and there is no directory to be had
(geometry.py:126), so that the process is neither installed nor killed and goes on
until its stdin is closed (`SpawnAbandoned`, `Leave`).

**WarmSpare.** `Take`, `Replenish`, `StartWarm` or `StartCold` / `ColdFails`, `Collect` or
`TimeOut` are `sandbox.run`; `SpawnedReady`, `SpawnFailed`, `Install` the thread
of `prewarm`. The pool's lock is held only around one read or write of the
field, so each action is one critical section.

**TessCache.** `Stat`, `Hit` / `Miss`, `Compute` / `ComputeFails`, `Insert`
(with `Room`, the eviction, and `Put`, the dict assignment) are `tessellate`;
`Write` and `Unlink` are the tools that change part files. A version stands for
content, mtime and size. The assumption: every write of a part file gets a later
mtime than the ones before. It is reasonable because a write ends a sandbox run
or an import under way for much longer than the file system's clock takes to
tick; it is an assumption all the same.

**Readers.** The tools that read several parts, over the actions of `TessCache`:
`ReadBegin` makes the list of parts (`Listed`, with `Kept` for the comprehension that
leaves out parts without a file), `SkipPart`, `AskMesh`,
`Tessellating`, `GotMesh` and `NoMesh` are the body of the loop, which ends for
each tool in its own way (a part that fails is passed over by render_views, an
entry with an error in validate_mesh, the end of export_model), `CheckPairs` is
the second loop of validate_mesh and `Compose` the reply. A pose is read where
the code reads it: at the start, at the part, or never (`PoseRead`). `position_part`
is `MoveTranslate`, `MoveRotate` and `MoveRefused`. The other writers are
`WritePart` and `UnlinkPart`. `TessCache!Clear` is no step of this module: only
tests call clear_tessellation_cache.

**SandboxRun, SandboxPolicy.** `SandboxRun` is one call of `sandbox.run` after
`WarmSpare` has settled who does it: `HandOut`, `SpawnCold` or `SpawnFails`; the
worker's `Boot` (a spare) or `ImportCadQuery` (a new one, which imports under the
caller's cap), `ReadJob`, `InstallGuard`, `UserTries` and one action for every
way the user's code can end; `ExportBegins`, `ExportEnds`, `EmitOpens`,
`EmitWrites`, `EmitFails`, `PrintBlob`; and `Collect` or `TimeOut` with the
classification (`Reply`, `NoOutput`). The result file is truncated and written in
two steps, so that a kill may come between. What may end the worker besides is
`Crash`, `OutOfMemory` (the system kills it, or a library aborts) and
`FailsForMemory` (an exception where nothing catches one, such as an import that
fails under the cap). An export may come out short without an exception (`Writers`).
`SandboxPolicy` is what the guards
decide: `Install` puts them up one by one; `CheckBegins` and `CheckEnds` are the
path check with its flag, which skips the checks that resolving the path makes
itself; `Import` and `Other` the remaining guards. A path that no guard looks at is
used as it is (`Unseen`: keyword arguments, the second path of os.link). Paths and modules are classes:
where a path resolves to, and which list a module is on.

**Meshy, GenMesh.** `Meshy` is the client: time is what is `left` until the
deadline of the task at hand, and every request and every wait takes some of it.
`Poll`, `Pending`, `PendingTooLong`, `PollTimesOut` are the loop of
poll_until_done, `Retry` and `GetFails` that of _get_with_retry, `Backoff` the set
of waits it may choose. Downloads open, stream, and are rejected or break off.
`GenMesh` adds the tool: the second task when a refinement is asked for, the
choice of the file that is imported, and the import with its decimation and its
record on the part. The import writes the part's file in place and does not look at
what the write returns: afterwards the file is the old one, a torn one or the new
one, with either reply (`Written`).

**Server, Fly.** `Server` has what a process makes of its environment, as
operators: transport, allowed hosts, base URL, the order of the layers, health.
`Fly` puts several such machines behind a proxy. The program's part is
`Replay`, `SessionGone`, `Wrap`, `HostRefused`, `Initialize`, `UnknownSession`,
`Execute` and `Render`; the proxy (`Route`, `RouteBack`, `Start`), the platform
(`Suspend`, `Stop`, `Destroy`) and the clients are external, modelled by how
fly.py and fly.toml use them. A session's state is the client whose model it
holds, which is what `ReadsSeeTheirWrites` is about. Every tool call sweeps the CAD
sessions that have been idle for too long, but for its own (`Sweepable`, `Swept`);
the MCP library keeps its session, so a client may come back to an empty model
under an id that is still known. Which sessions are idle is left open, since `Fly`
has no clock; when they are is the matter of `Sessions`.

**Overhangs, Placement, Measures, Canonical, Shapes.** Pure algorithms.
`Overhangs` runs the union-find of validate.py step by step, with path halving
on a recursion-free walk, against the components of the sharing relation. A union
is a vertex with the first face there and another one (`Union`); they are made
vertex by vertex and face by face (`Before`, `NextOne`). Faces are numbered in the
order of the mesh and vertices in the order in which by_vertex has them, which
loses no mesh.
`Placement` has the matrix product of render.py and the composed transforms of
_geometry_ops.py over quarter turns, `Measures` the selectors of measure,
`Canonical` the numbering of canonicalise_3mf (`Met` is the mapping as it grows
with the UUIDs that are mentioned). `Shapes` makes one computation of
each behaviour, so that one run ranges over all inputs.

**Exports.** A call is a list of jobs (`Jobs`): a single file, or one for each
part and one for the assembly. A name is a base, a label and a number, and
`PathOf` says which file it is of: two may be of one, as a client's "model-1" and
the second file of "model" are. `Name` / `NoName` is `unique_output_path`,
`Write` / `WriteFails` the exporter with the line that records the export. The
write and the record are one step: in between only the thread's own variables
and a list append happen.

## The runs

Passing runs:

| Run | What it shows |
|---|---|
| `assembly_disciplined` | a crew that uses only the locked tools, or a client that makes one call at a time: `GeometryIsHistory`, `ActiveExists`, the refinement `LockedCallsAreAtomic`, `ColourIsFreshInTurn` |
| `assembly_all_tools` | every tool, three threads, every outcome: what survives is `PartsBound`, `CreateNeverReplaces` and, under fairness, `EveryCallReturns` |
| `sessions` | sweeps, resets and calls of every kind on three sessions: `InFlightIsKept`, `DirectoriesAreSessions`, `RequestedIsKept`, `EveryCallReturns` |
| `geometry` | three threads, every fault: `OneOperationAtATime`, `RepliesAreMine`, `NoOrphan`, `HealthIsHonest`, `EveryCallReturns` |
| `sandbox` | runs and shutdowns, every fault: `SingleUse`, `NoSurvivor`, `EveryRunEnds`, and, without faults, `Replenished` |
| `sandbox_run` | one run of user code, on either platform, with kills, aborts, failing imports, short writes, chatter and a directory that is cleaned away: `OkMeansExported`, `CapIsHonoured`, `ReportIsTheReply`, `Confined` |
| `readers` | two readers of an assembly that changes: `NeverStale`, `CacheBounded`, `HitIsCurrent` of the cache, `RepliesAreWhole` of the replies |
| `exports_sequential` | one export after another with failures: `NeverOverwrites`, `ListedIsThere` |
| `gen_mesh` | one generation against a service that may answer anything: `OverrunIsBounded`, `ImportsWholeFiles`, `RecordFollowsReply`, `EveryGenerationEnds` |
| `fly` | two clients, two machines, one lost and one crash, sweeps of idle sessions: `LiveSessionsAreReached`, `ReadsSeeTheirWrites`, `EveryRequestIsAnswered` |
| `shapes` | every small input of the pure algorithms: `RegionsAreComponents`, `PlacedAlike`, `PinnedToContent` |

Several models choose in `Init` the kind of world a behaviour is in, so that one
run can say what holds in each. In `Sessions`, `patient` says whether clients wait
for the answer of a call before the next one on the same session. A client that
does not can reset its own session under its own call, and then the session in
use goes and its directory may come back after it: `InFlightIsKept`,
`DirectoriesAreSessions` and `RequestedIsKept` are claims about patient clients
(however the calls of *different* sessions interleave), the others about all.
In `WarmSpare` and `SandboxRun`, `world` is the set of events that may happen;
`Replenished` is about the empty one; of the properties of `SandboxRun` one
excludes an event (`CapIsHonoured`: a platform that sets no limits). In `AssemblyCrew`, `crew` is the discipline.

`geometry` states `EveryCallReturns` up to a hang: a call that does not return
means that some kernel hangs. What a hang does is `GeometryHang.cfg`.

`sessions` lets gen_ai_mesh wait for its service for any time, the idle timeout and
longer: it holds no lock meanwhile, and nothing in the code bounds its polls, posts
and downloads by that timeout. Once it is `Overdue` its session may be swept.
`InFlightIsKept` and `DirectoriesAreSessions` say what holds all the same: a call
keeps its session until then, and a directory that nobody can find comes about by
the download of such a call and in no other way. The plain claim of
session.py:203 is false, which `SessionsOverdue.cfg` shows ([findings](#findings)).

`RepliesAreWhole` has two halves: a reader that was alone replies with the
assembly exactly, and one that was not still accounts for every part it set out
with (render_views excepted, which passes over what it cannot draw).

Each property of a passing run has a mutant: a definition changed the way a
plausible bug would change the code, under which TLC finds the property
violated. The mutants stand next to the definitions they replace. The run that
is expected to find a violation is under [findings](#findings). The type
invariants (`TypeOK`) are theorems where there is a proof module; in the others
they can be added to a configuration, as can `ChecksAreFlat`, `SewingIsBounded`
and `ClusteringEnds`, which hold too. `HandedOutIsWarm` of `WarmSpare`,
`DefaultIsKept` and `NobodyWaitsForAWaiter` of `Sessions` are theorems without a run;
they can be added likewise.

## Bounds

Every bound is a constant or a guard that names it: `MaxCalls` (calls of tools
in one behaviour), `MaxTime` (clock), `MaxOps`, `MaxWrites`, `MaxChatter`
(unread lines on a pipe). Sets of identities (`Ids`, `Objs`, `Gens`, `Procs`,
`Spawners`) are made large enough by the MC modules that no action is ever
disabled for want of one. Limits of the code are constants scaled down so that
they are met: `MaxParts` 2 or 3 for 16, `CacheMax` 2 for 32, `MaxSuffix` 1 or 2
for 999, `Timeout` 1.

- Assembly: three threads so that two may interfere behind the back of a third;
  four to six calls so that a part can be created, deleted, created again and
  run on.
- Sessions: two threads, a sweeper and its victim's caller; three sessions, of
  which one is the stdio client's; four calls, and time to expire and be used
  again.
- GeometryWorker: three threads and three operations, which is a call that times
  out, one that starts the next worker or finds it dead, and a shutdown or a
  call behind them.
- WarmSpare: three operations with two run threads and three spawners.
- Readers: two files of two versions, two tolerances and two entries, so that
  entries are evicted; four tessellations in two readings and one move.
- SandboxRun: one call, since calls share nothing but the spare; three caps
  around the default, one line of chatter, four worlds, and every way an export
  may come out.
- GenMesh: timeouts of a few poll intervals, a Retry-After below, at and above
  its limit, and none; a request that takes nothing, some or the most time.
- Fly: two machines, two clients, four requests (each initializes, writes and
  reads or finds its session gone), one lost machine, one dead kernel, and an
  environment with and without a list of hosts.
- Shapes: four faces over three vertices, which is the least at which two faces
  are joined only through a third and path halving has something to halve; all
  triples of quarter turns on the axes; two members with up to three UUIDs.
- Exports: three calls and two numbers for a name, so the third finds none; two
  bases that have a file in common.

`CHECK_DEADLOCK FALSE` stands in every configuration because every behaviour
ends when its calls are used up. That a call does not get stuck is what the
liveness runs say.

## Fairness and time

Fairness is weak and per thread (`WF_vars(Step(t))`): a pool thread that can
run does. It is not assumed that clients call anything. In `GeometryWorker` the
kernel makes progress (`Kernel`) unless a fault took it, and the clock runs
(`Late`); in `WarmSpare` start-up configures the pool and every run has a
timeout, and nothing makes the user's code end. Locks are the actions' guards; weak fairness
suffices for them because a bounded number of calls compete for a lock, so
nobody can be overtaken for ever. `GenMesh` is one coroutine on the event loop,
fair as a whole: requests end because the HTTP client has a timeout. In `Fly` the
proxy and the servers go on with a request they have (`WF` of `Handle`), a
machine that is wanted starts and its kernel imports; nobody has to send a
request, and no machine has to be lost.

`Sessions` has a clock. It advances only when no thread has a step that it can
take at once (`Busy`): the idle timeout is minutes, a step between two
instructions is microseconds. A run and a wait for a service may last any time.

## The proofs

Every theorem is about the specification with its constants left open, under the
assumptions that the modules name. A hypothesis besides those is a definition of
the proof module, listed here with its reason.

`AssemblyProofs` (any number of threads, names, parts, colours, codes and calls):

- `TypeCorrect`, `PartsBounded`, `NeverReplaced`: for every tool. The bound and
  the freshness of names need only that the second check of create_part is made
  under the lock.
- `ActiveKept`: `ActiveExists` for both crews. It is not inductive: a call relies on
  what it found when it began. `TurnInv` says what each call relies on between
  two of its steps (`CallInv`): a run owns the lock and works on the active
  part and on all of its history, a deletion leaves another part, a mesh goes to
  the part that is active; and that calls which overlap are those of the locked
  tools (`InTurn`).
- `CrewCoherent`: `GeometryIsHistory` for both crews, and `CacheCoherent` the same for
  any use of `Assembly` with `LockTakersOnly` (only execute_cad and create_part are
  called). `FileInv` says of every part that no call has in hand that its file is
  what its history, its mesh or the lack of both gives. Both assume `RunsReport`: a
  run succeeds or fails and does not raise, which `AssemblyRunRaises.cfg` shows to
  be needed.
- `CrewIsSerial` and `LockersAreSerial`: the refinement. Every step of a crew that
  keeps to the locked tools is a step of `SerialAssembly` on the mapped state or
  leaves it alone. `LockedInv` joins the two invariants, since the mapped state
  shows a run only when it has ended: until then the file is what the settled
  history gives.
- `ColourFreshInTurn`: `ColourIsFreshInTurn`. `ColourInv`: a colour that a call has
  chosen stays free until the call uses it. That the least free number exists is
  `LeastNatural`, from the well-foundedness of strict inclusion on finite sets.

`SessionsProofs` (any threads, session ids, objects, times and waits):

- `TypeCorrect` and `DefaultKept` from `BaseInv`, which holds for every client: the
  registry lock is held by the call that sweeps and by nobody else, no object
  has two ids, and what a sweep is still to try is registered as it was or has
  been taken out by a reset.
- `NoCircularWait`: `NobodyWaitsForAWaiter`, for every client too. `HeldInv`: a session
  lock is held by the call that works or by the sweep that takes the session out.
  With the registry lock's invariant this says that whoever is waited for waits for
  nobody: the safety half of `EveryCallReturns`, whose fairness is beyond the prover.
- `InFlightKept`, `DirectoriesMatch` and `RequestedKept` from `Inv`, which adds
  `PatientInv` for patient clients: a call that is not overdue keeps its session
  (`KeptInv`), because one that waits for the session lock has been handed its
  session just now (`ClockInv`), and of the sessions a sweep is to try those in use
  are locked or overdue (`VictimInv`). `DirInv` is the agreement of registry and
  disk: a directory goes before its entry. They have no
  hypothesis: waits, the idle timeout and their order are arbitrary.

`WarmSpareProofs` (any runs, background threads, processes and deaths):

- `TypeCorrect`, `WorkersSingleUse`, `NoneSurvives` and `OnlyWarmHandedOut`, from one
  invariant: a process is in one pair of hands and the spare in nobody's
  (`OwnerInv`), only the spawner that waits for it has one that is still importing
  (`WarmInv`), and one that is alive is the spare or held (`HeldInv`). The first two
  need each other: an installation is of a process that its thread alone holds.

`FlyProofs` (any machines, clients, requests, losses and crashes):

- `TypeCorrect` from `BaseInv`: a session id is paid for with a request, so the ids
  do not run out before the requests (`CountInv`, which counts those under way).
- `OwnModelIsShown`: `ReadsSeeTheirWrites`. `IdInv`: an id is issued once, by one
  machine, to one client. `ModelInv`: where a client's session is remembered and has
  not been swept since it wrote, its model is there, and nobody else's anywhere
  under its id; that a sweep takes a model and its claim together is `Sweeps`. The hypothesis
  `SessionsAreKept` is that no server is stateless; that it is needed is under
  findings. The affinity layer is not needed.
- `LiveSessionsReached`: `LiveSessionsAreReached`. `OwnerInv`: an id names the machine
  that remembers the session or has lost its memory. `ReplayInv`: a request that
  was replayed is at the machine that was named, unless that one is destroyed; so
  one replay is enough. The hypothesis `AffinityIsOn` is that the layer is
  configured and sessions are kept: without it a request goes anywhere.

`TessCacheProofs` (any threads, files, tolerances, cache size, parts and moves):

- `TypeCorrect` and `Bounded` together, since `Room` needs a cache within its
  bound; `RoomFacts` and `PutFacts` say what the two sequence operators return.
- `NeverServesStale` and `HitsAreCurrent` from `FreshInv`: every entry's mesh is
  at least as new as its key, and for every version that a call or an entry
  remembers, the file is gone or is that version or a later one (`Past`). That
  this is kept when files are rewritten is `PastStaysPast`.
- `ReadersUseTheCache`: the readers implement `TessCache`, so these properties hold
  beneath them, which is what the run `readers` checks on an instance.
- `RepliesWhole`: `RepliesAreWhole`. `WholeInv` follows a tool that nothing disturbs:
  what is left to do is the rest of its list (`RestInv`), and the reply so far has
  exactly the parts with geometry among those gone through, as they are (`OutInv`).
  A mesh that comes is of the present file because the call's `since` is
  (`CallInv`), it is not older (`FrameInv`), and no version is newer than the file
  (`Past`). `PartsInv` is the account of every part, disturbed or not. The list is
  computed by a recursive function: `KeptEquation` proves that its definition has a
  solution and satisfies its equation, and `KeptFacts` what it returns, both by
  `Induction`, which is the least-number principle for a set in the place of a
  predicate.

`GeometryProofs` (any threads, processes, calls and lines of chatter, and with
every fault):

- `TypeCorrect`, `OneAtATime`, `RepliesMatch`, `NoneOrphaned` and `HealthHonest`,
  all from one invariant `Safe`. None of the properties is inductive alone. That
  a reply is one's own needs: the lock is held exactly while a thread starts a
  process or is in an operation (`LockInv`); the operation is on the installed
  worker (`WorkerInv`); a worker owes something only to a call that waits
  (`ReadyInv`), since a call that is late, or finds the worker gone, discards it;
  the marker is the last line of a pipe (`PipeInv`); and what is in the pipes of
  a waiting call is its own (`RequestInv`). That a new process owes nothing is
  `FreshInv`. There is one lemma for every action, with one step for every
  conjunct. The assumption used is that processes are numbered in the order of
  their start.

`SandboxRunProofs` (any modules, lists, caps, chatter and events):

- `TypeCorrect`, `CapsHonoured`, `UserCodeConfined`, `SuccessIsExported` and `ReportReplied`, from
  one invariant `Safe`. `CapInv` says what limit the process has before it has read
  its job (the default, or on Windows one that the caller accepts) and after, since
  `CapIsHonoured` speaks only of the moments when user code runs. `GuardInv` says
  that the guards that are up are the first ones of the order of install_all, what
  each has done by then, and that the flag is up exactly while one path is
  checked: `Confined` is not inductive without it, as a flag that stays up would
  let the next operation pass. `StageInv` ties the two machines together: user code
  runs only behind all four guards. `BuiltInv` follows a success from the export
  that ended through the result file to the reply, and `RepliedInv` a report that is
  whole in the result file.
- `UserCodeConfined` is about the operations that a guard looks at: an operation
  that passes by the guards is an action of the model and no violation of `Confined`.
- That DENIED_MODULES and USER_ALLOWED_MODULES have no name in common is an
  assumption on the constants. Nothing is assumed of the exporter, of what memory
  does to a process, or of the directory.

`ToolProofs` holds the proofs of three components, on one set of lemmas for
induction and recursion (`LeastNatural`, `Induction`, and `LoopsRun`: a loop whose
value after n turns is a function of the one before has a solution and satisfies
its equation, which is how `Met` and the flattening of a document are reasoned
about).

Of `GenMesh` (any timeouts, retries and mesh sizes):

- `TypeCorrect`, `WholeFilesOnly` and `RecordedWithReply` from `FileInv` (which file is
  chosen and whole at each point: a refinement runs only behind a whole preview)
  and `PartInv` (the part is as it was until the sewing is over).
- `GivenUpInTime` from `TimeInv`: how far past the deadline each attempt of a poll
  can be. It assumes of the constants that a back-off without a Retry-After is not
  longer than the limit on one that is sent, as in meshy.py.

Of `Exports` (any threads, parts, lists, names, files and failures, and any way in
which names share files):

- `ExportsTypeCorrect`, for every client.
- `ExportsAreThere` (`ListedIsThere`) and `NothingOverwritten` (`NeverOverwrites`) from
  `ExportsSafe`. `NameInv`: the file of a name that a call has been given is not
  there until the call has written it. A write is therefore to a new file
  (`WrittenIsNew`), and what is listed stays as it is.
- Their hypothesis is `NoSharedName`: no two calls under way have been given one
  name. The code does not see to it, as `ExportsRace.cfg` shows; the theorems
  say that this is all that can go wrong, however calls overlap.
  `OneByOneOverwritesNothing` is the case of a client that makes one call at a time.

Of `Shapes` (any mesh, translation, quarter turns and document):

- `GroupsAreRegions`: `RegionsAreComponents`, when the clustering has come to its
  end; that it does is `ClusteringEnds`, which TLC checks. `RegionInv`: the parents
  are a forest (`Forest`: some function takes every face to its root, and some
  measure grows along the parents, so halving a path changes no root), no tree
  is larger than a region (`Sound`), the unions made so far have joined their faces
  (`Joined`), a walk stays in the tree in which it began (`WalkInv`), and the faces
  already in groups are with their roots (`GroupInv`). At the end a tree is not
  smaller than a region either (`TreesAreRegions`, `RegionsAreTrees`).
- `MeshAndShapeAgree`: `PlacedAlike`. The rows of the matrix in render.py are the
  composition of the three turns of _geometry_ops.py (`RowsAlike`, an identity of
  polynomials in the sines and cosines; the model and the theorem have quarter
  turns, whose sines are integers).
- `NumbersFollowContent`: `PinnedToContent`. The UUIDs met are a sequence without
  repetitions that contains what was mentioned (`MappingFacts`), and a bijection of
  the UUIDs takes the sequence of one document to that of the other
  (`MappingRenamed`, `FlattenRenamed`); so the number of a mention is the same.

Only model-checked: all liveness, for the prover has no fairness
(`EveryCallReturns` of three models, `EveryRunEnds`, `Replenished`,
`EveryGenerationEnds`, `EveryRequestIsAnswered`, and `ClusteringEnds`); and the
counterexamples below, which a proof cannot replace.

## Findings

A run that TLC ends with a counterexample of a statement that the repository
makes; the quotes are in `PROJECT.json`.

| Run | What the code does |
|---|---|
| `assembly_mesh_lost` | execute_cad does not refuse a fresh mesh part, which its comments and replies promise |

### Further counterexamples

These configurations are kept beside the runs because a change of the code may
be tried on them; each ends with the counterexample described. They are run by
hand, for example `tlc -config AssemblySwitchDuringRun.cfg MCAssembly`. `Sessions`,
`SandboxRun` and `GenMesh` have no MC module and are named themselves.

| Configuration | Property | What the code does |
|---|---|---|
| `AssemblySwitchDuringRun` | `GeometryIsHistory` | set_active_part (set_active_part.py:35) takes no lock and execute_cad.py:85 computes the file from active_part when the run ends: the geometry of a run goes to the other part; SPEC.md:105 "Code history is the source of truth; the BREP file is a cache" |
| `AssemblyRunRaises` | `GeometryIsHistory` | a sandbox.run that raises (sandbox.py:403, 405, 446) passes the roll-back of execute_cad.py:86; the history keeps a block that never ran |
| `SessionsOverdue` | `InFlightIsNeverEvicted` | a gen_ai_mesh that waits for longer than the idle timeout holds no lock and loses its session to the sweep of another client's call (session.py:215-219); session.py:203 counts "any session whose lock is held, i.e. a request is in flight" among what is never evicted |
| `SandboxMemory` | `MemoryIsNamed` | a worker that a failed allocation ends by a signal other than SIGKILL is reported as a SandboxError (sandbox.py:548); the docstring says "reporting it as a generic SandboxError left the LLM with nothing to act on" (sandbox.py:523-525), and tests/test_sandbox_containment.py:65-67 knows the neighbouring case, an import that fails under the cap |
| `GeometryHang` | `DeadlineIsMet` | the wall-clock ceiling (geometry.py:226) does not hold while the kernel is silent: readline blocks (geometry.py:240) |
| `ExportsRace` | `NeverOverwrites` | two overlapping exports get one name from unique_output_path (paths.py:61), the second replaces the first's file; paths.py:55 "never overwrites" |
| `FlyHealth` | `HealthRecovers` | after a crash /health says 503 until a call starts another kernel (geometry.py:163, server.py:84-89), so a proxy that routes by health sends no such call; README.md:138 and SPEC.md:150 speak of start-up only |
| `FlyBrowser` | `GoneIsShown` | the replies of the affinity layer are made outside the CORS layer (fly.py:102, server.py:190-194): a page of another origin cannot read that its session is gone |
| `ShapesNearest` | `NoteIsTrue` | a selection of several entities is measured by its first (val()), while the note says that "the distance is to the nearest of them" |
| `ReadersClaims` | `NamesAreDrawn` | the parts that render_views names are those with a file when the reply is made (render_views.py:112), not those that were drawn |
| `ReadersClaims` | `PrintableIsChecked` | validate_mesh calls an assembly printable although the check of a pair has failed (validate_mesh.py:150-156 reports "interference": False with an error, and 98 passes over it) |
| `ReadersClaims` | `RefusedMovesNothing` | position_part assigns translate before it validates rotate (position_part.py:54 before the check at 57) |
| `ReadersClaims` | `PoseIsApplied` | validate_mesh analyses every part without its placement; SPEC.md:238 "Applied as a rigid transform during tessellation for render/export/validate" |

(`ReadersClaims.cfg` holds four invariants: leave one in at a time.)

More are found by changing one line of a configuration. In
`AssemblyAllTools.cfg`, the invariant `ActiveExists` or `AtLeastOnePart` in the place
of the properties: two delete_part calls both pass the check of delete_part.py:39
and leave no part, or an active part that is gone (SPEC.md:216 "Cannot delete the
last part."). With `AutoColourIsFresh` and two colours: two create_part calls
choose one colour outside the lock (create_part.py:63; SPEC.md:239). In
`Sessions.cfg`, `ResetAffectsOnlyItsCaller`: a reset between session.py:221 and 222
of another client's sweep ends that client's call in KeyError; and any of
`InFlightIsKept`, `DirectoriesAreSessions` and `RequestedIsKept` without its
`patient`: a client that resets its own session while another call of its own is
under way takes that call's session and directory away, and a run or a download
makes the directory again for nobody (sandbox.py:403, meshy.py:189).
In
`ExportsSequential.cfg`, with `bracket` among the `Bases`, `EveryFileIsReported`: a
name with room for the part labels but not for `_assembly` raises at
export_model.py:167 after the parts were written; and `ValidNamesFit` with
`MaxName = 4` besides: a name of 61 to 64 characters passes export_model.py:94 and
fails export.py:195 (SPEC.md:34 allows 64). In `SandboxRun.cfg`, the invariant `RunReturns`: when the worker dies without a result file and a
library has printed a line that is a JSON number, the fallback takes it for the
payload and sandbox.run ends in AttributeError. In `GenMesh.cfg`,
`RepliesAreStructured`: a connection that breaks in a POST or a download is none of
the exceptions gen_ai_mesh catches; and `ReportsItsTask`: a refinement without a GLB
URL is reported by its own id (gen_ai_mesh.py:128), but the preview's file is
imported. In `Fly.cfg`, `MCStateless` for the
environments: a stateless server has one session for everyone, which
`ReadsSeeTheirWrites` shows.

Also seen while modelling, without a run of their own: transport.warnings() is
called by nobody, while docs/deploy.md and SPEC.md say that the server warns;
sandbox.py:415-416 "any cap can be honoured on a reused worker" is not so for a
cap above the default, which the worker was started with (`Lowered`; the run is
then under a tighter cap than asked for); gen_ai_mesh imports its mesh on the
event loop, so that every other request waits meanwhile; interference() answers
0 when the boolean operation reports that it is not done (_geometry_ops.py:313).

## What is not modelled

- What OCCT, CadQuery, VTK, trimesh and numpy compute; the models say only
  whether an operation succeeds, fails, crashes or hangs. This is most of
  `_geometry_ops.py`, `render.py` and `validate.py`.
- Formatting of replies and log lines (`envelope.py`, `_logging.py`), prompts and
  static resources (`prompts.py`, `resources.py`): text without state. The table of
  hints for error texts in `_sandbox_worker.py` is of the same kind.
- The HTTP protocol itself, the MCP library's own session handling except as
  `Fly` uses it, the command line.
- The Windows job object except as a limit that is fixed at the start, and limits
  of file size.
- A dictionary that changes while a comprehension iterates over it: the
  iteration is one step here.
- A start-up of the kernel that neither reports nor ends: readline at
  geometry.py:120 has no deadline, and the call that waits there holds the lock.
  `SpawnFailed` is a start-up that ended or said too much.
- Which paths a guard does not look at: `Unseen` stands for all of them.
- A disk that is full, except where an action says so.
- cleanup_all at the exit of the process.
- The labels in the replies of measure, which are read again after the work.
