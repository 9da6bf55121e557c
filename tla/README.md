# A verification of the ArkUI repository-aware review agent

The repository builds a *knowledge store* for one ArkUI source tree (symbol
index, code graph, domain map), keeps it current while the tree changes, and
answers retrieval queries for code review from it. This directory holds TLA+
models of that program, the TLC runs that check them on small instances, and
theorems that TLAPS proves for every value of the constants.

Paths below are relative to the repository; `knowledge/x.py` stands for
`src/arkui_agent/knowledge/x.py`, and likewise for the other packages.

## 1. The system

### Components

| component | state it keeps | operations | correct when | status |
|---|---|---|---|---|
| refresh (`knowledge/refresh.py`) | `.refresh.lock`, `manifest.json`, one directory of artifacts per generation | `refresh`: lease, inventory, configuration, reuse or announce, build, seal, revalidate, publish; failure and cancellation records | one writer at a time; the last usable snapshot is only replaced by a newer one, built from the bytes of its commit; whatever ends a call gives the lease back and ends its attempt | modelled: `KnowledgeRefresh`, `KnowledgePublication` |
| records and freshness (`knowledge/model.py`, `freshness.py`) | none (immutable records) | `validate`, `evaluate_freshness`, `can_bind`, `covers` | every record written is valid; only a snapshot of the very source, scope and configuration binds | modelled: `Knowledge` |
| reader and sessions (`knowledge/reader.py`) | a bound manifest, the observation it was bound under, the decoded graph, reads in progress | `bind`, `inspect`, `validate`, `read`, `close` | no result escapes a read unless all of it belongs to the pinned snapshot | modelled: `SnapshotReader` |
| source observation (`knowledge/source.py`) | none | `observe` (two Git states around the hashing) | an observation is of one instant | partly: taken as atomic |
| clangd provider (`repository/clangd.py`, `semantic.py`) | a process, a reader thread, a request in flight, at most four open documents, a shutdown worker | `symbol_observations_in_files`, `references`, `callers`, `callees`, `close` | an answer is matched with its own request; requests meet open documents; every call ends; close releases everything | modelled: `ClangdTransport`, `ClangdProvider` |
| canonical symbols (`repository/symbol_merge.py`, `model.py`) | none | merge of observations | one symbol per identity, whatever the order; further evidence only refines it | modelled: `SymbolMerge` |
| test discovery (`repository/test_discovery.py`) | none | fixtures, cases and their bodies | a reference is in one body at most | modelled: `TestDiscovery` |
| symbol index (`repository/index.py`, `_sqlite_symbol_storage.py`) | a SQLite file and its journal | `rebuild` (one transaction), `open_read_only`, queries | a failing rebuild leaves the old index whole; answers are the rows' | modelled: `SymbolIndex`, `IndexBuild` |
| graph projection, roles (`graph/projection.py`, `domain.py`, `storage.py`) | a saved graph | project, map roles, save | never refuses an index; a role comes from the definition | partly: `GraphProjection`, `IndexBuild` |
| evaluation (`evaluation/`) | an index of its own | `prepare_p1_index`, executing and scoring a suite | a true annotation passes, a false one does not | partly: `Evaluation`, `IndexBuild` |
| graph walk (`graph/memory.py`, `query.py`) | a queue, nodes and edges seen | `traverse` | complete, or stopped by a bound that it names | modelled: `GraphTraversal` |
| change mapping (`retrieval/change_mapping.py`, `context/inputs.py`) | a cache of files per side | `changed_anchors`, `map` | ranges are the edited lines; nothing is dropped unsaid | modelled: `ChangeMapping` |
| retrieval (`retrieval/`) | call, record and result budgets | one channel per query, merging into candidates | what a budget cuts is reported | partly: `CandidateRetrieval`, six channels |
| expansion (`retrieval/expansion.py`) | nodes, edges, paths and queries charged | one walk or trace per seed, both sides of a change | budgets hold over both sides together | partly: `ContextExpansion` |
| materialisation (`context/materialization.py`, `snippets.py`) | candidates, snippets, backings | closing the candidate set, reading the source text | closed; every text is the snapshot's | partly: `ContextMaterialization` |
| change impact (`repository/dependency.py`) | none | which units a change affects | `safe_incremental` leaves out nothing it should not | modelled: `ChangeImpact` |
| serialization, progress, command line | a status file | encode, decode, throttled writes | round trip | not modelled |
| scanner, search, workspace (`repository/`) | none | reads of the file system | stay below the root | not modelled |
| framework and trace rules (`graph/creation.py`, `property.py`, `overlay.py`, `layout.py`, `framework.py`) | none | path searches over an immutable graph | bounded, deterministic | not modelled; their answers are a parameter |
| review service (`review_service/`) | stored jobs | `execute` | a job reaches an end | not modelled |

### How they interact

* **Files.** Refresh calls are one-shot processes. They meet only in the lease
  file, the manifest and the artifacts. Readers are other processes that take
  no lease: they see the manifest, which is replaced by `os.replace`, and the
  artifacts of the generation it names, which a refresh never writes again.
* **The world.** Editors, `git`, package managers and disks change the tree,
  the configuration and the artifacts under both.
* **Signals.** `repository/interrupts.py` defers SIGINT in the short sections
  of refresh that record an end or handle the lease. Everywhere else a
  `KeyboardInterrupt` may surface between any two operations.
* **Calls.** Retrieval and expansion open *nested* reads of one session
  (`retrieval/expansion.py:461` enters `session.read()` and the expansion it
  calls enters it again). The builder of a refresh drives the scanner, clangd,
  the index and the graph, in one pipeline that reads the tree for hours.
* **Data.** What one stage hands to the next is checked by the next, which raises on
  a disagreement: `rebuild` checks what the merge made, `MemoryGraph` what the
  projection made, the role mapper both, the context its own closure. A check that
  fails hours into a build costs the build.
* **Pipes and threads.** The provider writes to clangd through one pipe and a reader
  thread drains the other into a queue. Both pipes have a capacity, every write
  and every wait a deadline; `close` starts a second thread on the same transport.

### What is hard

Four things make this code hard to get right. Everything is checked *around*
something that takes long: the tree may change and change back during a build,
a check or a read, and equal bytes before and after prove nothing. And every
call may end at any step, by an error that the code handles, one it does not,
a signal (in the handler of another signal, too) or a kill; what it leaves in
the store must still be right for the next one. Answers come from a process that may be late, stall or die,
and the documents it has open are known to each side only through what was sent.
And nearly every stage of retrieval works under bounds, at each of which something must be
cut, whole, and reported. `PROJECT.json` lists the hazards
with their lines.

## 2. The modules

```
Knowledge ── records, freshness policy, can_bind                  (no state)
   ├── KnowledgePublication ── what the store promises its readers
   │        └── SnapshotReader ── sessions over that promise
   │                 ├── MCSnapshotReader
   │                 └── SnapshotReader_proofs
   └── KnowledgeRefresh ── the refresh calls, which implement it
            ├── MCKnowledgeRefresh
            └── KnowledgeRefresh_proofs ── invariants, and the refinement

ClangdTransport ── pipes, reader thread, clangd
   └── ClangdProvider ── queries, document window, close ─┬─ MCClangdProvider
                                                          └─ ClangdProvider_proofs

SymbolMerge ── TestDiscovery ── SymbolIndex ── GraphProjection ── Evaluation
   (no state)                                                        └── IndexBuild ─┬─ MCIndexBuild
                                                                                      └─ IndexBuild_proofs

Ordering ─┬─ ChangeMapping ────────┐── ChangeMapping_proofs ─────────┐
          └─ CandidateRetrieval    │ (no state)                      │
                  └ INSTANCE ┐     │                                 │
GraphTraversal ───────── ContextExpansion ── ContextMaterialization ─┼─ MCContext
   └── GraphTraversal_proofs ────────────────────────────────────────┴─ Context_proofs

ChangeImpact ─┬─ MCChangeImpact
              └─ ChangeImpact_proofs
```

### Knowledge

A source tree is abstracted to `[rev, content, stamp]`: what HEAD names, the
bytes of the tracked files, and the inode and time fields of their `stat`. A
write always gives a new stamp, also one that restores earlier bytes; this is
the assumption on which the code's own detection of such changes rests
(`FileStamp`, `source.py`). A build configuration is one value, since the code
compares digests only. Freshness is `evaluate_freshness` clause by clause;
the disagreements of the records among themselves (provenance, digests,
generations, versions) enter as a set of issues, since each has the same effect.

### KnowledgeRefresh

One action per step of `refresh` and `_refresh_locked`, per process, from one
externally visible effect to the next:

| `pc` | code in `refresh.py` | actions |
|---|---|---|
| `acquire` | 418–433 | `Acquire`, `Refused` (CONFLICT) |
| `load` | 481–491 | `Load`, `LoadFails` |
| `inventory`, `observe` | 498–512 | `Inventory`, `Observe`; a dirty tree fails |
| `configure`, `decide` | 513–523 | `Configure`, `Reuse` (NO_OP), `Rebuild` |
| `announce` | 524 | `Announce` |
| `build` | 525, 278–401 | `Build`, any number of reads of the tree and the configuration as they are |
| `seal`, `recheck`, `reconfirm` | 528–548 | `Seal`, `Recheck`, `Reconfirm` |
| `publish`, `finish` | 549–562 | `Publish`, `Finish` |
| `failing` | 585–590, 697–742 | `RecordFailed` |
| `interrupted` | 563–584, 697–742 | `RecordCancelled` |
| `finally`, `backout` | 435–438, 472–479 | `Release`, `Leak` |

`Fail`, `Interrupt`, `Escape` and `Crash` take a call out of any step that the
constants `FaultPoints`, `InterruptPoints`, `EscapePoints` and `MayCrash` allow.
`failing`, `interrupted`, `finally` and `backout` are the first instants of
the except and finally clauses, before the code has replaced the SIGINT handler:
a signal there leaves the clause, and that is what two of the findings are about.
The locals of a call (`call`) are its copy of the manifest, its attempt, its
source observation, its configuration and what it will report.

`CanReuse` is `PrebuiltSnapshotReader.inspect` taken as one read. The code observes
the source before and after the artifacts and rejects a difference, stamps
included; nobody but the holder of the lease writes the manifest; so a positive
answer is true at its first observation. `SnapshotReader` has the steps.

### KnowledgePublication

The abstract specification: a store with a last usable snapshot and a latest
attempt. `Announce`, `Succeed`, `Abandon`. It knows nothing of calls, leases,
signals or crashes, and says that whatever happens there, the last usable
snapshot changes only by the success of the announced attempt, which is newer,
and that it is of a commit and was built from those bytes only.
`KnowledgeRefresh!ImplementsPublication` states that the calls implement it, with
`built` mapped to what the builder read for the last usable generation.

### SnapshotReader

A process that binds, reads and closes over that abstract store. A check is not
atomic: `Observe`, `HashArtifacts`, `Decode`, `Rehash` and `Confirm` are steps,
so are the reading of the manifest (`Bind`, `Load`), the verdict (`Bound`,
`Entered`, `Left`) and the opening of the index after it (`OpenIndex`). The
world may rewrite the tree, move HEAD or rewrite artifacts, back to the sealed
bytes too, between any two of them. `views` is the stack of nested reads; each
remembers what its block saw. An exception of a block, of a nested read or of
`validate` itself may be caught or not by the enclosing block. In the
end it leaves its own read (`Leave`), or finds its session closed (`LeaveClosed`).
`session.since` is a history variable for one property; nothing else reads it.

### ClangdTransport and ClangdProvider

The transport is two bounded sequences of frames, a queue and the reader thread.
`Serve` is clangd: it takes frames in order and answers requests, not notifications. It may
instead send something of its own, a frame that does not parse, an error, or die (`Fault`,
within `MaxFaults`). A deadline that passes kills the process (`Abort`,
`clangd.py:264`) and leaves the reader to meet the end of the pipe.

A query is a list of *tasks* that the using thread works off: `open` a document (evicting the first one in URI order
when the window is full), make a request on it, `collect` an answer's symbols, `identify` one (its `symbolInfo`, and the requests
for its other ends that the answer calls for), keep its `handle`, `relate` the item of a call to its document. Tasks are translated from `symbol_observations_in_files`, `references`,
`callers` and `callees`; an answer may put further tasks in front. A document answers
with the symbols `SymbolsOf` gives it: the conversion of kinds, names and ranges is left out.
The threads that write one frame each are folded into the step that writes; what is left of
them is that a full pipe blocks and that an interrupted write may still go out (`Interrupt`, `Pending`).
`close` is `Join`, `Terminate`, `Rejoin`, `Release` beside the worker's `WorkerAsks` to `WorkerReaps`.

### SymbolMerge, TestDiscovery, SymbolIndex, GraphProjection, Evaluation

Operators without state, one module per source file or two. A position is one integer, a range a pair
of them in a file. Observations of one identity are a set: an order that mattered could not be written
down; where the code takes the first of something it is the least in the
stated order. A test source is a sequence of tokens, each in code or in
some comment, because the regular expressions look into comments and the bracket
matcher does not. A table is a set of rows, so that a duplicate row is a key held
by two rows. An evaluated case is a query, an annotation and what
`P1RetrievalExecutor` answers, scored as `runner.py` does.

### IndexBuild

The pipeline `P1P2RefreshBuilder.build` runs (mode `refresh`), and `prepare_p1_index` (mode `prepare`,
which keeps what it is told first and writes over the file that is there). One action per stage;
`Write` and `Commit` are the two ends of the SQLite transaction, between which a kill leaves a torn
file with its journal (`journal` is empty or holds the tables of before). `Recovered` is what any writable connection does with it. `OpenSealed` and
`OpenLive` are readers. `committed` and `shown` are history variables.

### GraphTraversal

`MemoryGraph.traverse`, one action per node taken from the queue and per edge
looked at; `Refuse` sets `stopped`. It is a component of its own (`WalkSpec`) for the proofs and a part of
`ContextExpansion` in the run: `Traverse` starts it.

### ChangeMapping, CandidateRetrieval, ContextExpansion, ContextMaterialization

The way of a change into a review context. `ChangeMapping` splits hunks into ranges and matches them
with the stored extents; `CandidateRetrieval` runs a query as its *plan*, the sequence of
calls, offers and refusals its channel goes through, under the budgets; both are operators.
`ContextExpansion` has the phases `map`, `retrieve`, then per side `begin` and `expand`: its jobs
are the seeds and then the requested traces, each walked, run, skipped, refused or failed, and admitted whole or not at all
(`Settle`); a report keeps the observation it was charged for in `taken`. `ContextMaterialization` adds `materialize`, `open`, `read` and
the closing of the scopes. Each phase is inside read scopes; `Drifted` is what their validation
sees, so an edit that is undone in time is not seen (`edited` is what differs from the snapshot *now*).

### ChangeImpact

A side is a tree with the compile database and the depfiles that belong to it; `Write`, `Reconfigure`,
`LoseDatabase` and `LoseDepfile` change the side that is there, `Analyze` is
`DependencyImpactAnalyzer.analyze` over any change list a diff of both trees may give (renames pair
any vanished file with any new one), `Advance` begins the next step. Depfiles that can be read are truthful for their
side: the least closed set of included files that exist.

## 3. The runs

| run | asks | instance |
|---|---|---|
| `refresh_safety` | may two calls, edited trees, damaged artifacts, SIGINT, errors and kills at any step corrupt the store? | 2 writers, 2 attempts, 2 writes, 2 commits, nested scopes |
| `refresh_live` | does every call return the lease and end its attempt when the code's promises about signals hold? | 2 writers, 2 attempts, 1 write, 1 commit, 2 configurations |
| `snapshot_reader` | may a result that escapes a read contain anything but the pinned snapshot; can a refresh end a session? | 2 generations, 2 commits, nesting 2, 2 disturbances |
| `clangd_provider` | do requests meet open documents, does every call end, does close release everything, whatever clangd does? | 3 documents, window of 2, pipe of 2 frames, 2 queries, 1 fault |
| `index_build` | does any stage refuse what an earlier one made; what do readers and benchmarks see? | 1036 worlds over 7 symbols in 3 files, an overload and a namesake among them, 3 attempts, 1 fault |
| `context` | are budgets, closure, hashes and reports right for every change under many limits? | 284 setups over 3 functions in 2 files on 2 sides, up to 3 edits |
| `change_impact` | may a safe impact leave out a unit that changed? | 2 sources, 2 headers, a table, a configuration, 4 checkouts, 3 edits |
| `refresh_interrupts` (violation) | Ctrl+C again on entry to the handler, and again on entry to `finally` | 1 writer |
| `refresh_config_aba` (violation) | configuration changed and changed back | 1 writer, 2 configurations |
| `refresh_rollback` (violation) | Ctrl+C after publication and an unreadable manifest | 1 writer, 2 attempts |
| `clangd_close_twice` (violation) | a close that raised, and the close after it | as `clangd_provider` |
| `benchmark_overloads` (violation) | a search by a name that overloads share | as `index_build` |

Properties of `refresh_safety`: `OneWriter` (the lease excludes), `BaseIsCurrent` (no lost
update), `ManifestIsValid`, `BuiltFromFingerprint` and `UsableIsCommitted` (a
snapshot is of its commit, and of nothing else, although the tree moved during
the build), `ResultIsTrue` (what is reported), `UsableAdvances`, `ReuseServesSource`
(NO_OP), `OnlyHolderWrites` (conflicts), `ImplementsPublication`. Of `refresh_live`:
`LeaseHasOwner`, `BuildingHasBuilder`, `LeaseIsReleased`, `BuildingEnds`. Of
`snapshot_reader`: `ReadsOfSnapshot`, `GraphIsSealed`, `PinnedIsPublished`,
`ClosedByDisturbanceOnly`. Of `clangd_provider`: `FramesFindDocument` (no request reaches a closed
document, none is opened twice), `WindowHolds` (also after an interrupt lost track of a
document), `ExitAfterShutdown` (a late answer is never taken for that of shutdown), `CloseReleases`,
`EveryCallEnds`. Of `index_build`: `PipelineAccepts`, `OneTestPerReference`, `IndexAnswers`,
`RoleFromDefinition`, `EvidenceOnlyRefines`, `ReadsLastCommit` (kills and journals),
`BenchmarkIsFair` (every true annotation passes, but for overloads). Of `context`: `StoppedOrComplete` (the walk), `EditsAreAnchored`, `BudgetsHold`,
`ContextIsSound`, `FactsAreKept` (what the limits of a retrieval cut is reported), `NothingLostInSilence` (with
every range mapped and every report ok, all that is in reach of the change is there). Of `change_impact`: `SafeImpactIsComplete`. Each is
stated in words above its definition.

### Bounds, and why they are enough

* *Two writers, two attempts.* A second call can race for the lease, be
  refused, start from what a failed, cancelled, killed or successful one left, and
  publish over it. Attempts are numbered as they are minted, so
  at most `MaxAttempts` calls run at a time.
* *Two writes.* Away and back: the shortest change that equal bytes hide.
  Likewise two disturbances for a reader (source, HEAD, artifacts and faults share them).
* *Two commits* of different content; HEAD moves freely without touching files.
* *Two scopes, one within the other*, for `covers`; one scope elsewhere.
* *Two nested reads*, the depth the code uses.
* *A window of two and three documents* give an eviction and a document that was
  evicted and is needed again; a third query would repeat what the second did to the first's handles. A
  pipe of two frames blocks; one fault is a crash, an error, a wrong frame or an interrupt;
  clangd may stall at any time without one.
* *Worlds* of `index_build` are every combination of four observations and five related symbols that
  agree, disagree or know less, with two test sources (nested blocks, comments with brackets and
  whole cases, a name used twice), and a few with a case that has no end, with an overload, or with two symbols of one display name. Three attempts: one that is cut short, one that
  recovers, one that writes over it.
* *Setups* of `context` are every valid hunk of up to three lines and two hunks that touch under generous limits, and one change with two
  blocks under each limit at the values around what it needs; two with edits (three: away, back
  and away). The old and new sides differ in extents, evidence, an extent past the
  end of its file, an unavailable relation and a file without fingerprint.
* *Three edits* of `change_impact` spread over at most three analyses: an include that
  found nothing, the header that appears, and a change after that.
* `refresh_live` needs no second commit or scope; its faults are those whose end the
  code can record.

The writers of `refresh_safety`, and the commits (each with its
content) of `snapshot_reader`, are interchangeable: those runs use symmetry and check no
liveness. Deadlock is not checked in the refresh runs: when all attempts are
spent and a lease has leaked, nothing has to happen.

### Fairness

`FairSpec` asks weak fairness of each call's own steps (`Step`), of nobody
else's: nobody must start a call, and the world need not act. The code justifies it:
subprocesses and language server requests have timeouts, and the rest are bounded loops over files.
A `Build` that reads the same again leaves the state as it was, so fairness
cannot be spent on it for ever.

`ClangdProvider!Fairness` asks weak fairness of the using thread, of the
shutdown worker and of the reader thread. Each write and each wait of the first two has a
deadline (`TimesOut`, `WriteFails`), and the reader is a loop over a pipe. Nothing is assumed of clangd. New
queries and `close` are the caller's choice. Deadlock is not checked where a client, a build or a
context may simply be done.

### What the violations show

* **A building attempt without a builder** (`refresh.py:564`) **behind a leaked lease**
  (`refresh.py:478`): `InterruptsCanBeMended`, which is violated only by a state that has both. Each
  deferral is installed by the first statement *inside* its clause, and a signal
  between entering the clause and that statement escapes it. The second Ctrl+C of the trace leaves the
  attempt building (`BuildingHasBuilder` alone is false from there on), the third the lock file
  (`LeaseHasOwner`); after that no refresh can mend either, as all report `CONFLICT`.
  `docs/specs/task-change-context/knowledge-refresh-v1.md:91` says that this
  cannot leave a building attempt.
* **A configuration changed and changed back** (`BuiltUnderConfiguration`,
  `refresh.py:547`): compared by value, before and after, without stamps. Line 53
  of the same document says that such a build does not publish.
* **A rolled back publication** (`UsableAdvances`, `refresh.py:571`): the
  interrupted call that cannot read the manifest back assumes that nothing
  was published and writes the copy it loaded at its start. Line 89 says that
  a committed publication is kept.
* **Pipes that stay open** (`RepeatedCloseReleases`, `clangd.py:533`): `_closed` is set
  before anything is released. When the reader thread has ended and an earlier request took its last
  word, the shutdown worker waits for an answer that cannot come until its own deadline, longer
  than the two joins; `close` raises before it closes the pipes, and a second `close` returns at once.
  `docs/specs/repository-intelligence/semantic-symbol-normalization.md:158` and `repository/semantic.py:69` promise that repeated calls
  are safe and that the pipes are closed.
* **Overloads** (`AdditionalCandidatesPass`, `runner.py:575`). The annotation is kept in a dictionary
  by qualified name, so only one identity of each name is left in it. Two overloads that are both annotated, and both
  found, fail with `symbol_identity_mismatch`, whatever their order; an overload returned beside the
  annotated one fails the case too, although `docs/evaluation/p1-retrieval-baseline.md:90` says that annotations that are
  not empty "are recall-oriented and may return additional candidates". `BenchmarkIsFair` states the limits of this: it is
  the only class reported, all symbols of the name are found and measure 1, and no identity query is affected.

The passing runs and the proofs exclude exactly these cases where they must, by
constants: SIGINT in those four instants only for liveness
(`refresh_safety` has them), the unreadable manifest (`"reload"`) for `ResultIsTrue`,
`UsableAdvances` and the refinement. Overloads are not excluded: `BenchmarkIsFair` says what the code makes of them.

### Variants

Operators named after a mistake (`RejectsOtherBytesOnly`, `ReleaseForgetting`,
`LeaveClosedQuietly` and so on) are not used by the specifications. Each is what the definition
after it would be if the code made that mistake; `PROJECT.json` names the property
that the variant breaks, which shows that the property depends on the code.

## 4. The theorems

Every safety invariant and action property that a passing run checks is also a theorem, but for the two
that section 5 names. The proofs hold for any sets of writers, commits, contents, configurations, scopes, documents,
worlds, rules, nodes, edges, paths and texts, any bounds and any choice of the fault constants, unless the table says
otherwise. They assume the `ASSUME`s of the modules and nothing more, unless stated:

| module | assumed | why the code justifies it |
|---|---|---|
| `Knowledge` | a commit has one content; `None` is no value of anything | commits are named by digests; Python's `None` is of no other type |
| `KnowledgePublication` | generations are numbers | they are minted in order |
| `SnapshotReader` | `None` is no session | as above |
| `ClangdTransport`, `ClangdProvider` | bounds are numbers, a window and a pipe hold at least one, a document has a list of symbols | `MAX_OPEN_DOCUMENTS` is 4 (`clangd.py:316`); symbols are what clangd answers |
| `IndexBuild` | every observation has a range and a site, at lines and columns that are not negative, and a qualified name; a world shows finitely many symbols and its sources have finitely many tokens; finitely many rules | `repository/model.py` refuses a negative position and an empty name, and an observation is made from a declaration or definition that clangd located; the rules are a tuple |
| `IndexBuild` | `None` is no symbol, no number, no verdict and no measure | Python's `None` is of no other type |
| `GraphTraversal` | finitely many nodes and edges, edges with different numbers as sort keys | a graph is two dictionaries; ties are broken by the edge's identity |
| `ChangeMapping`, `ContextExpansion` | every change of a setup is valid; `Absent` is no range | the records validate themselves when they are made (`inputs.py:41`, 194, 244); Python's `None` is of no other type |
| `ChangeMapping` | its four limits are numbers | `MappingBounds` refuses others (`change_mapping.py:66`) |
| `ContextExpansion` | a snapshot's graph is closed and its symbols are nodes by identity; policies hold numbers, one node for the seed itself at least; traces are finitely many and answer with nodes and edges | `MemoryGraph` refuses an edge without its nodes (`memory.py:32`), `ExpansionPolicy` a bound out of range (`expansion.py:60`) |
| `ContextExpansion` | a request names some of the six channels and its bounds are positive; different identities, queries and fact keys sort differently | `RetrievalBounds` refuses a bound below one (`candidates.py:97`); what is sorted is sorted by its canonical text |
| `ContextMaterialization` | the tags of items are not names of relations; a fingerprinted file has a number of lines | the tags stand for the classes of the records; a text has lines |
| `ChangeImpact` | `Absent` is no path; a path has one extension | |

TLC evaluates all of them for the constants of the runs. The hypothesis of `BenchmarkAlwaysFair` is not an assumption of
the module: `NoneIsNoSet` says of `None` that it is no set of names, which TLC cannot ask of a model value.

| theorem | property | assumes |
|---|---|---|
| **refresh** | | |
| `TypeCorrect` | `TypeOK` | |
| `LeaseExcludes` | `OneWriter` | |
| `NoLostUpdate` | `BaseIsCurrent` | |
| `ManifestAlwaysValid` | `ManifestIsValid` | |
| `BuiltFromFingerprintAlways` | `BuiltFromFingerprint` | |
| `UsableAlwaysCommitted` | `UsableIsCommitted` | |
| `ResultAlwaysTrue` | `ResultIsTrue` | manifest readable after a cancellation |
| `LeaseAlwaysOwned` | `LeaseHasOwner` | no kill; no signal or error on entry to the clauses that release the lease |
| `BuildingAlwaysHasBuilder` | `BuildingHasBuilder` | no kill; no signal on entry to the two handlers; no error that none of them names, and none while the end is recorded |
| `OnlyHolderEverWrites` | `OnlyHolderWrites` | |
| `UsableAlwaysAdvances` | `UsableAdvances` | manifest readable after a cancellation |
| `ReuseAlwaysServesSource` | `ReuseServesSource` | |
| `RefreshImplementsPublication` | `ImplementsPublication` | manifest readable after a cancellation |
| **reader** | | |
| `ReaderTypesHold` | `ReaderTypeOK` | |
| `ReadsAreOfSnapshot` | `ReadsOfSnapshot` | |
| `SessionGraphIsSealed` | `GraphIsSealed` | |
| `SessionIsOfPublished` | `PinnedIsPublished` | |
| `OnlyDisturbanceCloses` | `ClosedByDisturbanceOnly` | |
| **clangd** | | |
| `ProviderInductive`, `ProviderTypesHold` | `ProviderInv`, `ProviderTypeOK` | |
| `FramesAlwaysFind` | `FramesFindDocument` | |
| `WindowAlwaysHolds` | `WindowHolds` | |
| `ExitFollowsShutdown` | `ExitAfterShutdown` | |
| `CloseHasReleased` | `CloseReleases` | |
| **index** | | |
| `BuildInductive`, `BuildTypesHold` | `BuildInv`, `BuildTypeOK` | |
| `ReadersSeeLastCommit` | `ReadsLastCommit` | |
| `RolesFromDefinitions` | `RoleFromDefinition` | |
| `PipelineAlwaysAccepts` | `PipelineAccepts` | |
| `EvidenceRefines` | `EvidenceOnlyRefines` | |
| `IndexAlwaysAnswers` | `IndexAnswers` | |
| `OriginInductive` | `OriginOK` | |
| `ServedInductive`, `BenchmarkAlwaysFair` | `ServedOK`, `BenchmarkIsFair` | `None` is no set of names |
| **walk and context** | | |
| `WalkTypes`, `WalkBounded` | `WalkTypeOK`, `WithinBounds` | |
| `WalkStoppedOrComplete` | `StoppedOrComplete`, of one walk | |
| `ContextInductive`, `WalksStoppedOrComplete` | `ContextInv`, `StoppedOrComplete` of every walk of an expansion | |
| `BudgetsAlwaysHold` | `BudgetsHold` | |
| `EditsAlwaysAnchored` | `EditsAreAnchored` | |
| `MaterialInductive`, `ContextAlwaysSound` | `MaterialInv`, `ContextIsSound` | |
| `FactsInductive`, `FactsAlwaysKept` | `FactsInv`, `FactsAreKept` | |
| `ServiceInductive`, `NothingLost` | `ServiceInv`, `NothingLostInSilence` | |
| **impact** | | |
| `SafeImpactAlwaysComplete` | `SafeImpactIsComplete` | |

**The refresh** (`KnowledgeRefresh_proofs`). But for `OneWriter`, none of the properties is
inductive. The invariant is `Invariant == Typed /\ OneWriter /\ Protocol`:

1. `Typed`: `TypeOK`, and which locals are set at which step (an observation is
   there from `observe` on, of a clean tree; a configuration from `decide` on).
   Without it, `SnapshotOf` is not a snapshot.
2. `OneWriter`. Only the lease file and `owned` matter. It is proved next, because
   everything after it argues that nobody else's step disturbs the holder.
3. `Protocol`: the store by itself (`Store`: the manifest is valid, the last
   usable snapshot was built from its declared bytes, of a commit, generations are at most the number minted), and of
   each call what it knows of the manifest at its step (`ManifestStage`)
   and of the source (`SourceStage`). `SourceStage` is the heart: the
   observation a build started from has a stamp not newer than the tree's, and
   while the two are equal, all that was read is the observed content. As
   stamps never repeat, the comparison at `recheck` can succeed only
   then. Comparing bytes instead (`RejectsOtherBytesOnly`) breaks it.

Each step is shown to preserve it in one of three ways: a step that writes nothing others look
at (`QuietStep`), a step of the holder (`HolderStep`, which uses `OneWriter` for
everybody else's stages), a step of the world (`EnvironmentProtocol`).

`LeaseHasOwner` and `BuildingHasBuilder` are false of the code as it is; the trace of `refresh_interrupts` is a
counterexample to both. The theorems say that those are all: each hypothesis excludes one way to leave a clause
half done, and `refresh_live` has constants that satisfy them. `BuildingHasBuilder` needs `OneWriter`, as it speaks
of the call that announced the attempt.

**The refinement** (`KnowledgeRefresh_proofs`). `PublicationInit` and
`PublicationStep` map initial states and steps; only `Announce`, `Publish`,
`RecordFailed` and `RecordCancelled` write the manifest (`ManifestWriters`) and each is
an abstract action because of `ManifestStage`; every other step is a stutter,
which needs that no one builds into the generation that is published (`UsableReadsKept`).

**The reader** (`SnapshotReader_proofs`). A check looks at the source twice and at the artifacts twice, and
anything may be altered and put back in between. The invariant therefore speaks of stamps. `WasSource(src)` and
`WasSealed(stamp)`: what was seen is not newer than what is there, and is the same where the
stamps are. `CheckOK` and `SessionOK` say so of the check under way and of the session; `ViewsOK` adds that while the
stamps are those of the binding, *or were when the check looked*, the open reads have seen the pinned content alone. The last
clause is what `Leave` needs: the check that ends a read compares an observation of the past. `PublishedInOrder` and
`PinnedInOrder` (a generation is only replaced by a newer one) are there because artifacts are found by generation.
For `OnlyDisturbanceCloses`, both also say what holds while nothing was disturbed since the binding.

**The provider** (`ClangdProvider_proofs`). What clangd has open is behind what the client believes, by the frames
in the pipe. `DocumentsOK` states that there is a history `h`: `h[0]` is what clangd has open now, each frame finds `h[i-1]`
as its writer believed it and leads to `h[i]`, no `h[i]` is larger than the window, and, while the client
tracks its documents, the last is what it believes. Writing a frame extends `h` and `Serve` drops its head. After an interrupt the client no longer tracks (the frame it was writing may go out unnoted), but `h` has
been extended by a frame that finds its document, and never leaves the window, as an eviction is written before the opening.
For `close`, `ShutdownOK`: before clangd has taken the shutdown, nothing in the pipes or the queue bears the worker's id, which needs that
no frame bears an id that was not issued (`IdsOK`). The capacity of the pipe and what clangd answers are arbitrary.

**The build** (`IndexBuild_proofs`). Six invariants, each about another part of the state. `StoreOK`: a journal beside the file holds the last commit,
and without one the rows are it; so whoever opens the file sees the last commit, at whatever step the build before was killed. `RolesOK`: a role map
that stands was made from the rows that stand. `WorkOK`: from the collection to the commit there is one located symbol per identity, and relations speak of those
alone, since the second merge drops no identity of the first. `MemoryOK`: what is held is canonical. `OriginOK`: each part of a symbol that is held was seen in the world (`MergeMakesNothingUp`), its
identity together with its qualified name, and the relations end in symbols that are held. `ServedOK`: so what is committed, and what a reader still
looks at while the next build writes, can be measured (`FairTables`): finitely many rows, no relation without a name at its end, a fixture for every tested case. The
rest are lemmas about the operators: the tables of such an input have no key twice (`FixturesAreDistinct`: an identity holds the file, the fixture and the token it stands for), the
projected graph has no dangling edge and no identity twice, the role mapper finds every symbol node as the rows have it (`GraphIsBuildable`), merging with further evidence only
refines, each query gives back what was stored, and the answer to each kind of query says what the annotation says in every dimension it speaks of
(`IdentityFits`, `SearchRanks`), so that none of the ten classes of failure applies (`FitPasses`), but for the mismatch of overloads in a search, which is then the only one
(`OverloadsMismatch`, `SearchIsFair`); a relation less, a target more and a wrong name each meet
the class they should (`MissingRelationFails`, `ExtraTargetFails`, `WrongNameIsRejected`). None needs induction: cases are found by
position, and the tables are one pass.

**The walk** (`GraphTraversal_proofs`, of `WalkSpec`: one query over one closed graph). That it ends
complete is not inductive. `WalkInv` adds what has been done with the nodes taken so far: all
their matching edges are admitted or still in `todo` (`Expanded`), what is in `todo` is of the current node, which is above the
largest depth (`Expanding`), no other edge was admitted (`OnlyExpanded`), and a walk stops only in front of an edge
(`StopsAtAnEdge`). `TakeKeeps`, `RefuseKeeps` and `AdmitKeeps` are the steps. At rest without a stop nothing is left in
`todo` and every node was taken; with a stop, the refused edge is wanted and missing.

**The context** (`Context_proofs`). `BudgetsHold` relates what both sides spent to what their reports hold. `ContextInv` follows
the one count that is open: `held` is the union of the reports of the side at hand (`Accounted`), fits what is left of the
policy (`WithinBudget`: the new side the whole of it, the old side what the new one left), and a side that was not begun has
nothing (`Stage`). A walk is a run of `GraphTraversal` (`WalkRuns`), whose lemmas carry over: every action but
`Walk` leaves its variables alone. `BudgetsHold` alone is not inductive: it does not say what the open side was charged for.

`EditsAreAnchored` (`ChangeMapping_proofs`) is about what a loop over lines computes. The scan of a hunk is a recursive function of the
number of lines; that the function exists (`Recursion`) and what it satisfies at each number (`Upwards`) follow from the least number
for which it would not. After each line, the closed blocks and the open run cover on each side exactly the edits so far
(`Covers`, kept by `AfterLineCovers`), and the scan stands where the declared ranges number the next line (`ScanCovers`);
covering sequences of ranges can be joined (`TilesConcat`), and a file joins its hunks in order (`FileTiles`). It uses
`ChangeAssumption`: the records of a change validate themselves, so hunks agree with their bodies and do not overlap. Two
hunks may touch, and then two ranges do; the property therefore says that no line is in two ranges, not that
there is a line between them.

`ContextIsSound` needs two things. That the candidates are closed would again seem to need induction, as records nest to any depth. It does not:
the parts of an item are listed with all that is nested in them, so what is nested in a part is a part (`PartsOfParts`), and a set
made item by item is closed (`ItemsClosed`). And that texts share no character: a cluster is the least and greatest number of a set of
intervals that touch, which exist by well-foundedness, and two clusters with a character in common would touch (`ClustersApart`). `MaterialInv` says at every
point of the reading which ranges have their one answer already, that no other has any, and that every text an available answer names is
there and was not edited when it was read.

`FactsAreKept` speaks of what a retrieval returns, three loops deep: the events of a plan, the facts of a query, the queries of a
request. Each is a recursive function of a number, so that, as above, what holds at 0 and is kept by one turn holds at the
end (`ExecuteIs`, `AdmitFactsIs`, `AdmitQueriesIs`). A turn of the innermost keeps the fact it is offered or ends in a doubt the status shows; one
of the middle merges it into the candidate of its key, and no later merge forgets a query (`MergedIs`, `Keeps`), or sets
the mark of a cut; one of the outermost reports what it did. The cut by the total comes last and touches the reports that named what
it removes. `RetrieveIs` sums this up, and `FactsInv` carries it along with what the anchors were mapped to.

`NothingLostInSilence` joins the three stages. A symbol whose extent a changed range touches is among the symbols of the
range's mapping (`MatchFinds`: none of the limits cut, no extent was doubted), so it is asked for and is a seed
(`TouchedSought`). Every seed gets a job, and `ServiceInv` follows the jobs: each seed is `Waiting` or `Answered`. An ok answer of a
walk holds everything that the seed reaches within the depth. That a first-in first-out walk under a depth finds all of that, by a shortest way each,
is `LevelInv` of the walk (`GraphTraversal_proofs`): the depths along the queue never fall, never run more than one
level ahead of the node taken last, and the far end of an edge looked at is at most one level below (`WalkReaches`). What is
reached from several symbols is reached from one of them (`ReachFromOne`). The property needs all three of its conditions: a range of which an extent was dropped as invalid is still `mapped` and
only a note says so, and reach means the direction of the policy. Weakening any of them makes TLC find a violation.

**The impact** (`ChangeImpact_proofs`). What a unit reads is a least closed set, and comparing two such sets
would seem to need induction over include chains. It does not: if no file of either
closure differs between the two sides, their intersection is closed on each side (`ClosureKept`), so neither
is larger than the other. A file that differs is on a path of some change, whatever the diff took for a rename
(`ChangesCover`); if it is a header, a source of its own or a configuration, the analyzer asks both sides for its
users (`SafeAnalysis`). Asking only the side before (`DependentsBefore`) breaks it.

## 5. Only model-checked, and not modelled

*Only model-checked.* Every property of the passing runs is proved but these:

* `LeaseIsReleased`, `BuildingEnds`, `EveryCallEnds`: liveness under fairness, which this prover does not reach.
* `OneTestPerReference`: it is about where bodies end, which a search over the tokens of a source decides; it also
  depends on the sources: an invocation that opens a body inside the body of another would share what follows (no compiler
  takes one in code, but the expressions look into comments as well).

*Abstractions of the refresh model.* The inventory of files is part of the content. Audit
files (coverage, failure and orphan reports) are left out: nothing
reads them back. Timestamps inside records are left out, with the
ordering checks on them. The temporary file of an atomic write and its removal
are not visible to anybody. The steps inside the build pipeline are one
repeated action; `IndexBuild` has them, a fault in any of them has the same effect here. The decision to reuse (`CanReuse`,
`refresh.py:517`) is one read of manifest, source and artifacts: that the tree moves between the reads of one check is explored in
`SnapshotReader` alone, for sessions. A manifest that is not text after a cancellation (a `UnicodeError`, which `refresh.py:568` does not
catch) is one of the ways of the `"reload"` fault, though it ends the handler instead of falling back. A lock file that cannot be removed after its
record could not be written (`refresh.py:430`) is not modelled.

*Abstractions of the reader model.* The files of one generation are one
artifact; refreshes touch no generation but their own, so artifacts change
only by the world. The requirement's own configuration and scope are fixed by the
caller. Queries of the index are reads of sealed bytes or not.

*Abstractions of the provider model.* A start that fails kills, waits and closes the streams in one step that
succeeds (`clangd.py:399`); the steps of `close` are separate. At most one item of a call hierarchy answer is followed (`clangd.py:828`);
the code loops over all of them, opening the document of each. A second one repeats what the first did.

*Index, graph and benchmark.* Framework relations that are read from source text are left out of
`BuildGraph`. A live reader's query of several statements is one read; the code leaves it to the caller to
keep writers away meanwhile. An annotation is a set, so which of several overloads its dictionary keeps is any one of them, always the same
(the code keeps the last one listed). In the world of a preparation, files are numbered in the order of its manifest (`preparation.py:136`), which
`FirstShown` follows; the order within a file is that of the sites. That the merge does not depend on the order of the observations (`symbol_merge.py:34`) cannot be said here: they are a set. Text
queries, the limits of text searches, latencies, the arithmetic of means, the P2
baseline (`p2_baseline.py`) and the environment report are not modelled.

*Context.* Six channels are modelled (symbol, declaration, definition, callers, callees, graph_node), of the
ten that a change asks for; references, tests, domain lookups, name selectors and text are
not, nor is the path of a `Task`. Traces are requested, not derived; how the four families search is not modelled: a trace is
an answer. The limitation flags and notes that candidates carry, and the normalized-newline hashes of
framework evidence, are left out. The diff parser is not modelled: changes are any valid `Change`. Of what the guard of a scope
compares, stamps are left out (`Drifted`; `reader.py:192` compares them too), so the model notices less than the code and the properties are harder to
satisfy. Traces are requested for sides that are there; the code refuses others (`expansion.py:462`). A file that cannot be read or decoded
(`snippets.py:78`) and a session bound to another generation than the observation (line 47) are not modelled; a revision that
is absent and one that is not the session's have one status in `MapAnchor`. `KeyRank` is one order where the code sorts facts by their canonical text and candidates by a hash.
The parent identity nested in a symbol is left out.

*Change impact.* `SafeImpactIsComplete` names one exception, and it is a real one (`dependency.py:514`): a
file that is included under a name without a header's extension, or another translation unit that is included, changes. The
code adds no unit that includes it, at most a diagnostic that requires no rebuild, and says `safe_incremental`, where
`docs/specs/repository-knowledge/change-impact-v1.md:81` says that the affected set is then provably complete. With the
exception dropped from the property TLC finds such a change at once; the theorem shows that nothing else is left out.

*Not modelled at all:* serialization, refresh progress and the command line (encoding and printing around what is modelled; the
progress file is read by no part that decides anything); scanner, text search and workspace (stateless reads of the file system and path
policy); the trace rules and framework relations (searches over an immutable graph, by rule
tables); the review service (a sequential skeleton over ports that have no implementation in the
repository; its hazard is listed); scripts. The two passes inside a source observation are taken as one read.

### Left to do

The two passes of `observe` implementing the atomic observation used here;
the bounded path search of the traces, after `GraphTraversal`.

## Running

`tlc -config RefreshSafety.cfg MCKnowledgeRefresh` and likewise for the other
configurations (`PROJECT.json` names the module of each);
`tlapm M.tla` checks the proofs of `M`, for each of
`KnowledgeRefresh_proofs`, `SnapshotReader_proofs`, `ClangdProvider_proofs`,
`IndexBuild_proofs`, `GraphTraversal_proofs`, `ChangeMapping_proofs`, `Context_proofs` and `ChangeImpact_proofs`.
