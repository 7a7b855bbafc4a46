# Formal models of clio-core's telemetry aggregation API

This directory holds TLA+ models of the Python code of the repository, the TLC
configurations that check them on small instances, and TLAPS proofs of the
main properties of the topology reconciler and of the package build for
every value of the constants.

## The system

The Python code of the repository falls into five parts:

| Part | Source | What it does |
|---|---|---|
| Aggregation API (Flask blueprints) | `context-visualizer/context_visualizer/api/{topology,workers,system,pools,config}.py` | Stateless HTTP handlers. Each request fetches a raw snapshot from the runtime client (`chimaera_client`), normalises it and answers JSON. |
| Telemetry Source client | `chimaera_client` (not in this repository) | Holds the connection to the runtime. `is_connected()` reports it, and a successful fetch sets it. |
| Package build | `setup.py` (`CMakeBuild`) | Configures, builds and installs the C++ core with CMake, then optionally copies the installed tree and conda dependencies into the wheel. |
| Benchmark launcher | `jarvis_iowarp/.../wrp_compress_bench/pkg.py` | A jarvis application: it validates its configuration, runs the benchmark under MPI and removes its output file. |
| Tests and plotting | `context-transfer-engine/wrapper/python/test_*.py`, `plot_lossy_benchmark_results.py` | Test scripts for the C++ bindings and an offline plotting script. |

### How the parts interact

The API handlers share only the client. Flask runs each request on a thread of
its own, so requests interleave. The only state they share is the client's
connection flag. `get_system` reads that flag before it fetches and reports
it on failure. A successful fetch of any request sets the flag, and losing the
runtime clears it.

### What is hard in this code

- **Records of one node in any order.** `get_topology` reconciles records that
  arrive from several containers in dict order, with duplicates and equal
  `event_id`s.
- **Heterogeneous report shapes.** A report may be a list, a single dict or
  anything else, and list elements may be dicts or not.
- **A stale flag.** The connection flag read before a fetch is reported after
  the fetch has failed.

## Modules

### `Topology` (get_topology, topology.py)

**State.** `pc` is "idle", "scan" or "done". `raw` is the fetched snapshot, a
sequence of (container id, report) pairs in `raw.items()` order. `ci` and `ei`
are the indices of the two nested loops. `nodes` is the key → record dict,
with `None` where a key is absent. `resp` is the response.

**Actions.** There is one per step of the handler:

| Action | Code |
|---|---|
| `FetchFail` | The 503 exit. |
| `Fetch` | The successful fetch, and `nodes = {}`. |
| `SkipReport` | The report is not a list. |
| `EndOfList` | The inner loop ends. |
| `ScanEntry` | One entry: the non-dict skip, the key `str(node_id or cid)`, and the strict `event_id` comparison with its default 0. |
| `Respond` | The whole output loop, including `int(raw_nid)` raising, which gives 500. |
| `Return` | The handler returns, and its locals are dropped. |

**Data abstraction.** Node ids are model values, so comparing them with
strings is safe. `Str` and `ToInt` are constant operators that the MC module
gives as tables, standing for `str()` and `int()`. A record is reduced to the
fields the handler reads: `node_id`, `event_id` and `hostname`.

The client's connection flag is modelled from the spec, since
`chimaera_client` is not in this repository.

### `Pools` (get_pools and get_config over _load_config, pools.py and config.py)

Requests (`Requests`) run concurrently, and another process may write or
delete a config file at any time (`WriteFile`). `files` maps each candidate
path to the document it holds. A document is abstracted to what
`yaml.safe_load` makes of it: `Malformed` (raises), `EmptyDoc` (None),
`ScalarDoc`, or a mapping of which only the `compose` value is kept (absent,
null, an empty mapping `EmptyMap`, a non-empty mapping, or a list of entries).
An entry is `Junk` (not a mapping) or a mapping from some of the descriptor
fields to YAML scalars (`Scalars`, of which `StrScalars` are strings).
`Descriptor` copies each field's value as `entry.get(f, "")` does: whatever
YAML value is there, or `""`. Per request: `pc`, `endpoint`, the candidate index `idx` and
the response.

| Action | Code |
|---|---|
| `Start` | A request to either endpoint arrives. |
| `Search` | One candidate: `if path and os.path.isfile(path)`, or the 404 when none is left. |
| `Open` | `open` and `safe_load`, then the handler: FileNotFoundError and YAMLError give 500, None gives 404, `get_config` answers the document, `get_pools` builds the descriptors (`cfg.get` and `entry.get` on non-mappings give 500). |
| `Return` | The handler returns. |
| `WriteFile` | Another process changes a file. |

### `SetupBuild` (CMakeBuild.run and build_iowarp_core, setup.py)

Successive `build_ext` invocations sharing `build_temp`. A tree of files (the
source copy `srcDir`, the staging install `staged`, the system install
`sysInst`, the wheel's binaries `pkg`) is a record of the source version it
came from and whether it is complete. `pc` is the step of the running
invocation; `env` is its `IOWARP_BUNDLE_BINARIES`, `bundleB` the decision
`build_iowarp_core` took, `built` the tree it configured.

| Action | Code |
|---|---|
| `Start` | An invocation with some value of the variable (at most `MaxRuns`). |
| `EditSource` | The developer edits the package root between invocations. |
| `CmakeMissing`, `CmakeFound` | `cmake --version`. |
| `Prep` | The bundle decision (default ON) and the test `source_dir.exists()`. |
| `CopySource`, `Clone` | The copy of the package root, or `git clone` (which may fail). |
| `Configure`, `Build`, `Install` | The three CMake calls; each may fail, a failed install leaves a partial tree where it installed. |
| `CheckBundle`, `CopyBinaries` | `run()` re-reads the variable (default OFF) and copies the staging tree. |
| `Exit`, `Crash` | The process ends, or is killed mid-step leaving partial trees. |

`IsOn(v, default)` stands for `os.environ.get(..., default).upper() == "ON"`;
`OnVals` is the set of values whose upper case is `"ON"`.

### `BundleCopy` (copy_binaries_to_package, setup.py)

One call, file by file, in any filesystem order. A file name is a record of
stem, extension and version suffix (`libz.so.1`), so `Path.suffix`, the
`".so."` test and the `*.so*` glob are computed from it. An entry of a
directory is a regular file of some origin (`built` or `conda`, with a flag
for its patched rpath) or a symlink to a sibling or to an absolute path.
State: the wheel's `lib` and `bin`, the phase, the files left to visit, the
conda pattern index, and the names copied so far.

| Action | Code |
|---|---|
| `CopyInstalled`, `EndLib`, `EndLib64` | The lib and lib64 loops: a library-like file is copied, a symlink recreated with the target `os.readlink` gives (relative or absolute, as installed). |
| `CopyBin`, `EndBin` | The bin loop, minus `exclude_binaries`. |
| `CondaCopy`, `EndPattern` | The conda patterns: names in `skip_libs` and names already copied are skipped, absolute links resolved, `copy2` writes through an existing symlink (`WriteFile`). |
| `PatchLib`, `EndPatchLib`, `PatchBin`, `EndPatchBin` | The patchelf pass, when patchelf exists. |

### `CompressBench` (WrpCompressBench, jarvis_iowarp/.../pkg.py)

The package across the jarvis commands `configure`, `start` and `clean`. The
state is the kept configuration, the output file, whether
`WRP_CTE_COMPRESS_TRACE=on` is in `mod_env`, the output files present, and
what the last start ran with. The framework (`jarvis_cd`, not in this
repository) is assumed to keep the package's attributes and `mod_env` between
commands and not to keep a configuration `_configure` rejects; the model marks
these as assumptions.

## Runs

| Run | Cfg | Expect | What it shows |
|---|---|---|---|
| topology_reconcile | `MCTopology.cfg` | pass | See below. |
| topology_bad_node_id | `MCTopologyBadId.cfg` | violation | A non-integer `node_id` turns the query into a 500. The spec says unparseable identities are absorbed. |
| topology_single_record | `MCTopologySingleRecord.cfg` | violation | A single-dict report is dropped. The spec says it counts as a one-record batch. |
| workers_summary | `MCWorkers.cfg` | pass | The count (`CountMatchesSnapshot`) and the three totals (`TotalsMatchSnapshot`) of every 200 response equal the number of worker records of the snapshot and the sums over them, for every mix of shapes and absent fields. Both are stated over the set of record positions (`Positions`), not the handler's list. Lists may hold a non-dict, so the 500 of `GetFails` is reached beside them. |
| system_connected_flag | `MCWorkersConn.cfg` | violation | Request A's fetch connects the client. Then B reads `connected = True`, and B's fetch fails. B answers 503 with `connected: true`, where the spec says false. |
| setup_bundle | `MCSetupBuild.cfg` | pass | Over three invocations with failures, kills and source edits, and the values unset, `ON`, `on`, `OFF`, an invocation that copies into the wheel copies the complete install it made itself, of the source it configured, never a staging tree left by an earlier or killed invocation (`BundleMatchesBuild`). Files left over in the staging or package directory are not modelled. |
| setup_unset_bundle_flag | `MCSetupBuildInstalled.cfg` | violation | With the variable unset the build goes to `build_temp/install` and is never copied: neither the wheel nor `sys.prefix` has it. |
| bundle_copy | `MCBundleCopy.cfg` | pass | In every file order, with and without conda and patchelf, the wheel's `lib/` has no absolute or dangling symlink (`TypeOK`, `NoDanglingLinks`), and every built library is shipped as the built file (`BuiltLibsKept`). |
| pools_answers | `MCPools.cfg` | pass | Two concurrent requests with files created, rewritten, emptied and deleted under them, over documents of every shape (empty and non-empty `compose` mappings, entries with missing, null and non-string fields, junk entries): every answer is a 500, a 404, a parsed config document, or a list of descriptors of the entries' values (`TypeOK`). A mutant that answers `get_config` before the `None` check returns an unparsed empty file as the config. |
| pools_file_race | `MCPoolsRace.cfg` | violation | A file removed between `os.path.isfile` and `open` gives an unhandled 500; the spec allows only SourceUnavailable and NotFound. |
| bench_config | `MCCompressBench.cfg` | pass | Only configurations passing every check of `_configure` are ever kept, and each run writes to the output file its own configuration names, or to stdout when it names none (`RunWritesConfiguredFile`). This holds thanks to the `else: self.output_file = None` branch, the reset the trace variable lacks. |
| bench_trace_sticky | `MCCompressBenchTrace.cfg` | violation | Configure with trace on, then off: the benchmark still runs traced, since `mod_env` is never cleared. |

**topology_reconcile** runs `Spec` and checks four properties:

- `ScanInv` is checked after every loop step. It says that for each key,
  `nodes` holds the first record of greatest `event_id` among the positions
  visited so far.
- `FreshestWins` says the same of the response, over all positions.
- `ImplementsAtomic` is `Atomic!Spec`. It says the handler refines
  `TopologyAtomic`: each response, 500 included, is the one the whole snapshot
  determines.
- `TypeOK`.

One record has a `node_id` that does not parse, so 500 answers occur and
`ImplementsAtomic` also constrains the error path.

The snapshots are all orderings of two containers (one of them named `"1"`, so
that its fallback key collides with `node_id` 1). Each report is a list of up
to two records, a single dict or other. The records cover these cases:

- equal and greater `event_id`s of one node;
- a record without `node_id`;
- a record without `event_id`;
- an empty hostname.

**Bounds.** Two containers and lists of two give every case of the comparison:

- a tie within a list and across lists;
- a greater id before and after a lesser one;
- a fallback key that meets a real node id.

`workers_summary` uses the same shapes, with records that lack fields and
list elements that are not dicts, for one request (the requests share only
the connection flag, which no summary reads).

**setup_bundle** has two versions (so an edit changes the root), three
invocations (enough for a kill, a retry and a later edit to meet), and
variable values covering unset, both spellings of on, and off.
**bundle_copy** has `libcore.so` (a link chain with its versioned file),
yaml-cpp at three names (the skip_libs one among them), `libz` and `libssl`
from conda (one an absolute link), and two binaries of which one is a test
binary: each branch of each loop is taken. **pools_answers** has two
requests, three candidate paths of which one is unset, and documents of every
shape: malformed, empty, scalar, and mappings whose `compose` is absent, null,
`{}`, a non-empty mapping, or a list of entries. The entries cover a full one
with an integer `pool_id`, one with only a null `pool_name`, one with string
fields, and a non-mapping. A file may be created, rewritten or deleted between
any two steps of either request.

## Further configurations

These cfgs are kept beside the models and are not among the runs above; each
checks one property that TLC finds violated, showing a behaviour of the code a
reader should know:

| Cfg | Property | What TLC shows |
|---|---|---|
| `MCTopologyHostname.cfg` | `HostnameFromSomeRecord` | The hostname falls back to the local name although an older record of the node had one. |
| `MCWorkersJunk.cfg` | `NoServerError` | A non-dict list element makes both worker queries 500. |
| `MCSetupBuildStale.cfg` | `BuildsCurrentSource` | A build killed during the source copy, or a source edit, leaves `build_temp/iowarp-core` that the next invocation builds as it is. |
| `MCBundleCopyBumped.cfg` | `BuiltLibsKept` | When the built yaml-cpp has a version `skip_libs` does not name, conda's `copy2` overwrites the built regular file of that name directly. |
| `MCBundleCopyAbsInstall.cfg` | `TypeOK` | An install tree whose library link is absolute is recreated verbatim (line 226), so `lib/` holds a link that leaves the package. |
| `MCPoolsStrings.cfg` | `DescriptorFieldsAreStrings` | `entry.get(f, "")` passes an integer `pool_id` or a null `pool_name` into the descriptor, where spec §6 lists the fields as strings. |
| `MCPoolsEmpty.cfg` | `NotFoundOnlyWhenAbsent` | An existing empty config file is answered 404 as if there were none. |
| `MCCompressBenchClean.cfg` | `CleanRemovesOutputs` | `clean` removes only the output file of the current configuration. |

**Fairness.** No run checks a liveness property, so no fairness is assumed.
Nothing in the code retries, and no process is obliged to act: a user need
never send a request or issue a jarvis command.

## Proofs (`TopologyProofs`)

Everything is proved from `ConstantsAssumption`:

- the records are well typed;
- `None` is not a record;
- `Str` is the identity on container ids;
- `ToInt` maps into `Int` or `NotInt`.

**`TypeCorrect`** proves `Spec => []TypeOK`.

**`FreshestWinsHolds`** proves `Spec => []FreshestWins`. `FreshestWins` is not
inductive by itself, so the proof uses `IInv`, the conjunction of:

- `TypeOK`;
- `ScanInv`;
- no response while the handler is idle or scanning;
- a 200 response is only given once the loop has finished, and equals the
  output map of `nodes`.

`IInv` was checked with TLC as an invariant of `topology_reconcile` first.
**`ScanInvHolds`** proves `Spec => []ScanInv`, the loop invariant the run
checks, from the same `IInv`.

**The key lemma.** `ReconcileStep` says that visiting one more position `q`,
all of whose predecessors are visited, keeps `Reconciled`. It holds because the
strict comparison replaces the stored record exactly when `q` becomes the
first record of greatest `event_id`.

**`Refinement`** proves `Spec => ImplementsAtomic`, the safety part of the
refinement, following the usual layout:

- `Init` maps to `Atomic!Init`;
- under `IInv`, every step maps to a step of `TopologyAtomic` or to a stutter.

Only `Respond` needs an argument. At that point `ci > Len(raw)`, so `LoopDone`
gives `Reconciled(raw, Positions(raw), nodes)`. Reconciliation has exactly
one outcome (`ReconciledIsFreshest`): two winners for the same key have equal
`event_id`s, and of two distinct positions one comes first, which would make
its `event_id` strictly smaller (`WinnerUnique`). So `nodes = FreshestMap(raw)`,
and `Response(nodes)` is the abstract `Answer(raw)`.

The proofs hold for snapshots of any length, any number of containers and any
records.

## Proofs (`WorkersProofs`)

From `ConstantsAssumption` of `Workers` (records map the fields to naturals
or `None`, `NotDict` is not a record, `None` is not a natural, and the
snapshots are well typed):

**`TypeCorrect`** proves `Spec => []TypeOK`. `TypeOK` is not inductive: a
200 response carries the handler's list, which must hold only dicts. The
strengthening `SummedPrefix` says that while a request is summing, the
workers before `wi` are records. `Tally` only advances past a record, and
`GetFails` ends the request at a non-dict, so when `Respond` fires every
element is a record.

**`CountMatchesSnapshotHolds`** proves `Spec => []CountMatchesSnapshot` for
any number of concurrent requests of both endpoints. The inductive
invariant `CInv` adds the loop invariant of the flattening loop: while a
request flattens, `Len(workers)` is the number of worker positions of the
containers before `ci` (`PosBefore(raw, ci - 1)`). Also, no request has a
response before its loop ends. CInv was checked with TLC on the run's
instance first. The lemmas:

- `ContainerCard`: the i-th container has `Len(items)` positions for a list,
  one for a dict and none otherwise, all with first component `i`.
- `PosBeforeStep`: adding a container adds its positions disjointly.
- `FlattenCounts`: the step of the loop keeps the count. `\o` adds
  `Len(items)`, `Append` adds one, and the cardinality of a disjoint union
  is the sum (`FS_Union` of the library).
- `RespondCounts`: at `Respond`, `ci = Len(raw) + 1`, so the visited
  positions are all of `Positions(raw)` and `len(workers)` counts them.

## Proofs (`SetupBuildProofs`)

From `ConstantsAssumption` of `SetupBuild` (the upstream version is not a
local one, "OFF" is not an on-value, unset is a possible value, `MaxRuns` is a
natural):

**`TypeCorrect`** proves `Spec => []TypeOK`, including that configure, build,
install and copy always have a built tree.

**`BundleMatchesBuildHolds`** proves `Spec => []BundleMatchesBuild` for any
number of invocations, versions and values of the variable. The inductive
invariant `IInv` adds to `TypeOK`:

- `SourceReady`: configure runs on an existing source tree;
- `BundleDecided`: after `Prep`, `bundleB` is the flag read with default ON;
- `StagedIsBuilt`: once installed with bundling, the staging tree is `built`;
- `CopyWanted`: the copy step is reached only when the flag read with default
  OFF is on.

The argument is `OffImpliesOn`: a value that is on with default OFF is on with
default ON (an unset value is on with default OFF only if "OFF" were an
on-value). So whenever `run()` copies, `build_iowarp_core` installed into the
staging directory, and that install is the last one of this invocation; a
failed install ends the invocation, and a killed one resets it.

## Proofs (`CompressBenchProofs`)

From `ConstantsAssumption` of `CompressBench` (every configuration is of
`ConfigType`, `None` is none of them):

**`TypeCorrect`** proves `Spec => []TypeOK`. `ValidKept` is the lemma that a
configuration `_configure` keeps passed each of its range checks, so a run
always has at least one process (`nprocs` is clamped to 1 in `start`).

**`RunWritesConfiguredFileHolds`** proves `Spec => []RunWritesConfiguredFile`.
The inductive invariant adds `OutFileOfConfig` to `TypeOK`: while a
configuration is kept, `self.output_file` is what that configuration names
(or None). `start` reads `self.output_file`, so the invariant about the run
needs the one about the attribute; `_configure`'s `else` branch is what keeps
it.

## Proofs (`PoolsProofs`)

From `ConstantsAssumption` of `Pools`, for any candidate list (unset entries
included), any set of requests and any document contents:

**`TypeCorrect`** proves `Spec => []TypeOK`: every answer is a 500, a 404, a
200 of `get_config` carrying a parsed document (never a malformed or empty
file, which is what the `None` check before `return cfg` guarantees), or a 200
of `get_pools` carrying a list of descriptors whose four fields hold the
entry's YAML values or `""`. `OpenAnswerTyped` covers the handler's answer
for every document and endpoint, with `DescriptorTyped` for one entry and
`PoolsAnswerTyped` for the list (a junk entry gives the 500). The inductive
invariant `IInv` adds `OpenAtCandidate` to `TypeOK`: a request about to open
has an index into the candidate list at a set path.

`Open`'s answer is an `IF`/`ELSE IF` chain, in the order of the code's tests.
A `CASE` with overlapping arms would be a nondeterministic choice, which the
code does not make.

## Proofs (`BundleCopyProofs`)

`BundleCopy`'s properties depend on what the install tree and the conda
prefix hold: `MCBundleCopyBumped.cfg` violates `BuiltLibsKept`. So each
theorem states, as hypotheses on the constants, the condition on those trees
that the code relies on. Each condition is named and holds in
`MCBundleCopy.cfg`. The proofs cover any trees, any pattern list, any skip
list and any file order. `ConstantsAssumption` includes
`Patterns # << >>` (`lib_patterns` is a non-empty literal list).

- **`TypeCorrect`** proves `InstallLinksRelative => (Spec => []TypeOK)`: if
  CMake installs no absolute library symlink, `lib/` never holds a symlink
  that leaves the package. The code recreates install-tree links verbatim
  (line 226), so without the hypothesis the property fails. It converts
  conda's absolute links itself (line 370), so conda needs no such
  hypothesis. The inductive invariant `IInv` says that each loop visits
  only files its glob yields, and that patchelf's work list holds only
  regular files of `lib/`. Without the latter, `PatchLib`'s update of
  `rpath` would apply to a link.
- **`BuiltLibsKeptHolds`** assumes two more hypotheses:
  - `SkipLibsCoverInstalled`: `skip_libs` names every conda library a
    pattern globs that the install tree also provides. This is the
    maintenance rule the line-337 comment implies.
  - `Lib64KeepsFiles`: install/lib64 does not turn a built library into a
    link.

  It then proves `Spec => []BuiltLibsKept`. `KeptInv` follows the three
  loops:
  - in the lib loop, every visited built library is in place;
  - in the lib64 loop, each one is in place or still to visit;
  - afterwards, all are in place;
  - a built file of `lib/` is a built library;
  - the conda loop writes only onto names that are absent or regular files
    of `lib/` and that the install tree does not provide. The bumped version
    breaks this: conda's file has a name the install tree provides, and
    `copy2` overwrites the built file directly. The same fact means `copy2`
    never writes through a symlink of `lib/` (line 356); no configuration
    reaches that case, since under these hypotheses it cannot occur.
- **`NoDanglingLinksHolds`** assumes two hypotheses:
  - `InstallLinksClosed`: the install tree's library links point to
    libraries it installs;
  - `CondaLinksClosed`: conda's relative links point to libraries the
    install tree provides, or that `lib_patterns` globs and `skip_libs`
    lets in.

  It then proves `Spec => []NoDanglingLinks`, with or without
  `CONDA_PREFIX`. `LinkInv` says three things:
  - every symlink of `lib/` points into one of those two sets;
  - each name of the install tree is in `lib/` once its loop has passed it;
  - each name the conda loop has passed is in `lib/` (in `copied`);
  - nothing leaves `lib/`.

## What stays with TLC

- **Liveness and ENABLED.** These are beyond the prover. The project states
  no liveness property; the abstract specifications have no fairness.
- **Sums over a set.** `TotalsMatchSnapshot` compares each total with
  `MapThenSumSet` of the community modules over the record positions. Those
  folds are recursive functions, so `WorkersProofs` may extend them. But no
  library lemma says what a fold of a union is, and proving one needs
  induction over the set. The induction theorems take the predicate as an
  operator parameter, which none of the installed provers can instantiate.
  So `TotalsMatchSnapshot` is checked by TLC only. Its loop invariant would
  have the same shape as the count's: the totals are the sums over
  `PosBefore(raw, ci - 1)` restricted to the positions already tallied.
- **`BundleCopy` on trees outside the hypotheses.** When a hypothesis above
  fails, what happens depends on the trees. `MCBundleCopyBumped.cfg` shows
  one such failure.

## Not modelled

- The `chimaera_client` internals.
- Flask routing and JSON encoding, apart from status codes and the fields the
  properties read.
- `socket.gethostname()`, which is a constant `LocalHost`.
- The test scripts and the plotting script. These are test code and offline
  I/O.
- The subprocess internals of CMake, git and patchelf: each call is one step
  that succeeds or fails (and may be killed).
- The `jarvis_cd` framework: its behaviour between commands is assumed as
  stated under `CompressBench`.

## Plan

1. A property of `Pools` relating a response to the file it was read from,
   and its proof.
2. A summation lemma (the fold of a disjoint union is the sum of the folds)
   proved once per finite set size, should a prover that instantiates
   operator parameters become available; with it, `TotalsMatchSnapshot`.
3. A run for `NoServerError`, which now sits in `MCWorkersJunk.cfg` only.
