# Formal models of scout-audit

TLA+ models of scout-audit: what each part keeps, what it does, in which order, and what can go wrong. TLC checks
the models on small instances; TLAPS proves the properties that matter most for every instance. `PROJECT.json`
lists the components, the runs, the properties with the change of the code that each would catch, the source lines
behind every definition, and the hazards.

Paths below are relative to `src/`; `A/` stands for `apps/cargo-scout-audit/crates/cargo-scout-audit/src/`, `N/`
for `nightly/2026-05-28/`.

## 1. The system

`cargo scout-audit` audits a Rust smart contract. It reads options and cargo metadata, picks a nightly toolchain,
builds the detectors for it (each is a lint library), runs them inside the compiler through dylint, reads the
compiler's JSON messages, decides which crates were analysed, filters the findings and writes reports. A GitHub
action runs it over a list of contracts and turns reports into a passing or failing step.

```
 action.yml --runs once per contract--> cargo scout-audit (run.rs)
                                          |  telemetry.rs, version_checker.rs: two files of the user
                                          |  metadata -> dependencies.rs (graph)
                                          |  detectors/*.rs (select, build)
                                          |-- interop/subprocess.rs: two temporary files --> detector-helper
                                          |                                             \--> scout-driver -> dylint
                                          |                                                   -> rustc + detectors
                                          |  findings.rs, post_processing.rs  (messages -> crates, findings)
                                          '-- report.rs -> reports, FAIL file, exit code --> back to the action
```

### Components

| component | source | state | operations | hard part |
|---|---|---|---|---|
| Dependency graph | `A/util/dependencies.rs` | an adjacency matrix | construction, `list_dependants`, `depends_on` | cycles (dev-dependencies); packages numbered in hash order; a stack that may hold duplicates |
| Verdicts and suppression | `A/scout/core/findings.rs`, `post_processing.rs`, `A/scout/finding.rs` | verdict per name, per crate; a cache of findings | judge a message, merge names, split findings, apply allows | messages in any order; two spellings of a name; errors of a dependency blamed on its dependants |
| One run | `A/run.rs`, `main.rs`, `result.rs`, `A/config/mod.rs`, `A/util/detectors.rs` | options, the FAIL file, selected detectors, messages | one step after the other, any of which returns early | failures and kills at every step, while files that others read are on disk |
| Report files | `A/scout/output/report.rs`, `raw_report.rs`, `utils.rs` | the files written | one write per format | in place or aside and renamed; several formats to one path |
| GitHub action | `action.yml` | the report directory, two counters | scan, search, gate, exit | which report a counter was read from; reports of an earlier job |
| Subprocess calls | `A/interop/subprocess.rs`, `A/util/mod.rs` | two temporary files per call | write, spawn, wait, read, remove; the wrapper on the other side | processes at once in one directory; short writes; panics, signals, killed callers |
| Detector libraries | `A/scout/detectors/*.rs`, `A/util/{library,build_and_run,git}.rs` | folders of built libraries, two programs | list, filter, build, merge by name | a branch that moves between two downloads; programs taken because their file is there; names normalised in several places |
| Telemetry, version check | `A/scout/core/{telemetry,version_checker}.rs` | `user_id.txt`, `version.json` | read, ask the network, write | files shared by all processes of a user; a clock that is set back |
| Detectors over a whole crate | `N/detectors/soroban/*`, `N/common/analysis` | a call graph, what was noted of each function | `check_fn` per function, `check_crate_post` at the end | nothing is known before the last function; hash order; recursion |
| Detectors with a data flow | `missing-new-admin-auth`, `unvalidated-cross-contract-target`, `uncached-storage-modification` | summaries, a worklist, a state per local | fixpoint over blocks and functions, merging of branches | order of hash sets; circles of calls; what survives a branch |
| Detectors over one body | the other detectors of `N/detectors` | the memory of one visit | `visit_expr` and the like | memory that outlives its block, or is overwritten |
| Detectors of manifests | `soroban-version`, `overflow-check`, `known-vulnerabilities`, `contract-import-dependency` | answers of cargo, files, the network | `check_crate` | each answer may be missing |
| Command line, rendering, logging, build scripts, driver and helper mains | see `PROJECT.json` | none | formatting, parsing | none |

How they interact: the run calls everything else in one thread and in a fixed order; it shares files with its
subprocesses (temporary), with the user and the action (reports, FAIL, configuration) and with other scout
processes (temporary directory, telemetry and version files, built detectors). The compiler calls the detectors
back, function after function. The action knows a run only by its exit code and by the report it finds.

### What makes each part correct

- Dependency graph: answers are exactly what is reachable, on every graph, and every call returns.
- Verdicts: a crate counts as failed exactly when an error was printed under one of its names; one error is enough,
  and no later message takes it back.
- Suppression: an allow and the finding it covers disappear together; nothing else disappears without a reason.
- Run: a missing FAIL file can be trusted, whatever failed; only detectors that were asked for report; a run that ends
  well leaves no report half-written (two formats are excepted, whose writes are not looked at).
- Action: a pass means that no run failed and that nothing the step can count reached the threshold; a failure has a
  reason of this job. What the step cannot count is named: reports in a format of the project's own, and all of them
  when jq does not work.
- Subprocess calls: an answer is the answer to this call's input; calls do not share files; what stays behind is bounded
  by the failures and by the removals that did not work.
- Preparation: who opts out stays untracked; an update is noticed; the driver is given what was selected, built from
  what it was selected in.
- Detectors: what is reported is wrong and what is passed over is right, whatever the order things are seen in; and
  the search ends on every crate. Static analysis is not exact: each property names the ways in which its detector
  does not follow the program. That there is no other one holds for the constructs of the model, not for all of Rust.

## 2. Modules

| module | models | proofs |
|---|---|---|
| `GraphQuery` | abstract: a graph that answers questions one at a time | |
| `DependencyGraph` | `dependencies.rs`, step by step, an implementation of `GraphQuery` | `DependencyGraphProofs` |
| `CompilerOutput` | pure operators of `findings.rs`, `post_processing.rs` and `finding.rs` | |
| `ScoutRun` | `run.rs` with configuration, selection, messages, reports; built on `CompilerOutput` | `ScoutRunProofs` |
| `ActionGate` | the "Run Scout" step of `action.yml` | `ActionGateProofs` |
| `RemoteCall` | abstract: a call that comes back with the answer to its input, or with an error | |
| `Subprocess` | `subprocess.rs`, both sides, an implementation of `RemoteCall` | `SubprocessProofs` |
| `UserFiles` | `telemetry.rs` and `version_checker.rs`, with the user, the clock and crates.io around them | |
| `DetectorBuilds` | `builder.rs`, `library.rs`, `build_and_run.rs`; extends `UserFiles`, whose steps come before | |
| `RunPreparation` | both together: several processes of one user, which may be killed | `SubprocessProofs` |
| `CrateVisit` | `check_fn`, `FunctionCallVisitor` and `is_soroban_function`, shared by the detectors over a crate | |
| `AccessControlLint` | four access-control detectors and `dos-unexpected-revert-with-storage`, with `is_auth_reachable` | `AccessControlLintProofs` |
| `FlowLints` | `auth-address-mismatch`, `missing-initialization-guard`, `unnecessary-admin-parameter`, `instance-storage-per-user-key`; extended by `AccessControlLint` | `AccessControlLintProofs` |
| `EventLint` | the two event detectors, with their recursive searches | `AccessControlLintProofs` |
| `CrossContractTarget` | `unvalidated-cross-contract-target` and its worklist, on `CrateVisit` | `AccessControlLintProofs` |
| `AdminAuthFlow` | `missing-new-admin-auth`: the flow over blocks, the summaries, their fixpoint, on `CrateVisit` | `AdminAuthFlowProofs` |
| `StorageReads` | `uncached-storage-modification`: the states of locals and how branches merge | `BodyProofs` |
| `BodyWalk` | how a visitor walks a body: what it has passed, its memory, what it reported | |
| `GuardLints` | `division-by-zero`, `unsafe-unwrap` / `unsafe-expect` (what a check proves, and for how long) | `BodyProofs` |
| `ConstantLints` | `constant_analyzer`, `unsafe-lossy-cast`, `dos-unbounded-operation`, the arithmetic that excuses an unwrap, `ineffective-extend-ttl`, `excessive-token-approval` | `ConstructProofs` |
| `LoopLints` | `non-terminating-loop`, `clone-in-loop`, `linear-scan-in-loop`, `iterators-over-indexing` | `BodyProofs` |
| `ExpressionLints` | `integer-overflow-or-underflow`, `unscoped-authorize-as-current-contract` | |
| `DivisionLints` | `divide-before-multiply`: the walk through basic blocks, and the search in one expression | |
| `TransferLints` | `front-running`, `unrestricted-transfer-from` | `BodyProofs` |
| `CallLints` | `unused-return-enum`, `unsafe-map-get`, `unchecked-cross-contract-result`, `dynamic-storage`, `raw-symbol-storage-key`, `unsafe-temporary-storage`, `vec-could-be-mapping` | `ConstructProofs` |
| `CrateLints` | `avoid-panic-error`, `assert-violation`, `debug-assert-in-contract`, `contract-import-dependency`, `soroban-version`, `overflow-check`, `known-vulnerabilities`, `token-interface-inference` | `ConstructProofs` |
| `BodyLints` | all detectors on `BodyWalk`: `Init`, `Next`, `Spec` | |
| `TestContracts` | functions of the repository's test cases as bodies, with the findings they expect | |
| `MC...` | instances for TLC: values of the constants, nothing else (`StorageReads` needs none) | |

### How state and actions correspond to the code

`DependencyGraph`. `meta` is cargo's metadata; `New` is `DependencyGraph::new`; `AskUnknown`, `AskDirect` and
`AskTransitive` are the three ways into `list_dependants` and `depends_on`; `Pop`, `Push`, `Pushed`, `Found` and
`Exhausted` are the iterations of the search. The order in which neighbours are pushed is free, because ids are
numbered from a hash set. `Graph == INSTANCE GraphQuery` maps the state to the promise: a search in progress is
`busy`.

`ScoutRun`. `pc` walks through `prepare_scout_input` and `run_scout`; each action is the code between two calls that may
fail, and `MayFail` is the `?` after such a call. `Faults` are the calls that may fail in a run, `"kill"` the death of
the process between any two steps. `opts.mode` is the first early-return flag that is set. The compiler is `Emit`: any
message of `Alphabet`, in any order, with the lint of a selected detector. `JudgeMessage` is one iteration of
`get_crates_from_output`, `GetCrates` the merge of its names (in any hash order) and `split_findings`, `PostProcessing`
the `unnecessary_lint_allow` pass, `OpenReport`/`WriteReport` the writers: formats written in place are empty before
they are whole, and those written by a single `write` (`WrittenOnce`) may stay a part. `CreateFail` is `--cicd`, which
goes on without a FAIL file where none can be made. A name is a word with a separator, because the code distinguishes
`my-vault` from `my_vault` in some places and not in others.

`ActionGate`. One action for each part of the loop's body: `Skip`, `RunScout`, `Grep`, `Gate`; `Finish` is the exit. A
report is what the step can see of it: whether the table names a crate that did not compile, and counts per severity; a
contract `asks` for the format that its own configuration file names (`FormatOf`), and `jq` says whether the runner has
one that works: where it fails, `|| echo 0` counts nothing. `Counted` is the jq program's nested condition. `history`
records the outcomes for the properties.

`Subprocess`. `Call` to `Return` is `run_subprocess` in a scout process, `ChildRead`, `ChildRun`, `ChildWrite` are
`subprocess_wrapper` in the program it started, `Kill` and `ChildKilled` are the operating system. A write may be
short (`write` instead of `write_all`), which leaves a part that does not parse, and a removal may fail unnoticed
(`TryRemove`, counted by `kept`).

`UserFiles`, `DetectorBuilds`. `phase[r]` is where run `r` stands in `prepare_scout_input`. A file is written in two
steps, since `fs::write` empties it first: `CreateId` and `FillId`, `SaveVersion` and `WriteVersion`. `OptOut`,
`Tick`, `SetBack`, `Release` and `Push` are the world: the user, the time, the clock, crates.io, the branch that the
detectors come from. `ReadLibrary` is one download with the names or the libraries of a workspace, `Deduplicated` is
`deduplicate_libraries`, `HandLibraries` builds both workspaces and keeps the selected
libraries that have a path (`LibrariesAsSelected` excepts names with an underscore and crates of several types);
`LookFor`, `BuildPrograms` and `RunProgram` are the two phases of `build_and_run.rs` for the helper and then the driver.

`CrateVisit` and what is built on it. `program` is the crate being compiled: who calls whom, what each body contains,
what macros made. `Visit` is `check_fn` for one function, in any order; `graph`, `checked`, `authorized`, `suspects`,
`emitters` and `writers` are the detectors' maps and sets. The rest is `check_crate_post`: in `AccessControlLint` `Look`
is one round of `is_auth_reachable` and `NextCaller` one step of the fold over callers; in `EventLint` `path` is the
call stack of `check_events_children` and `check_storage_setters_calls`; in `CrossContractTarget` `Propagate` takes one
place from the worklist; in `AdminAuthFlow` `Propagates` is the flow over one block, where a summary counts only on the
edge on which the call came back, and not on the one to its cleanups (`unwind`); `StartEntry`, `Recompute`, `NextRound`
and `LintSinks` are the loop of `check_crate_post` for one entry point, with the summaries recomputed in any order.

`StorageReads`. The function is made up while the detector goes through it: an action is the next part of a statement,
in the order in which the visitor comes to it (`BeginSet` cleans before the arguments, `BeginChange` marks before the
right side, `EndSet` and `EndChange` are when the program does it). It does to `dirty_state` and `key_map` what the
visitor does, and to `changes` what executions do: which changes may be unwritten here, each with the way it came: one
that the visitor follows too (`Straight`), an earlier round of a loop, one that it does not follow (`Astray`), or none
at all (`Imagined`). `frames` holds the branches, loops and calls around this place, with the states that the visitor
brings back and the changes that wait at breaks, continues and ends of branches.

`BodyWalk` and what is built on it. `walked` is the body so far, made up one construct at a time; each `Visit...`
action picks the next construct from the sets that its detector tells apart, computes the memory with the detector's
own step, and adds the positions it reports. A construct is a record whose field `do` says what it is; constructs
with a body are opened and closed. All detectors of a body share the one specification `BodyLints!Spec`, with `lint`
saying which one is at work (`Begin` starts it, `Follows` says what it is for one detector to go on); their
properties are stated over `walked` and `reported` alone, with what an execution of the body does defined beside them
and never by the memory.
Operators named "as if" are alternatives of the code, used by the mutants of `PROJECT.json`.

## 3. Runs

`cd` to this directory and run `tlc -workers 2 -config <cfg>.cfg <module>`; the module has the cfg's name (the module
of `MCScoutRunIncomplete` is `MCScoutRun`).

| run | cfg | shows | distinct states |
|---|---|---|---|
| `dependency_graph` | `MCDependencyGraph` | on every graph of three packages (all 512 sets of edges) and in every way the construction can fail: answers are what `GraphQuery` promises (`AnswersAsPromised`, a refinement), the stack stays within the edges (`StackBound`), calls return (`CallsReturn`) | 264 k |
| `scout_run` | `MCScoutRun` | over 1440 combinations of command line and configuration file, with every step failing or being killed, and for the plain command line every sequence of up to three of ten messages: `FailFileHonest`, `OnlyAsked`, `ReportsTold`, `VerdictsRight`, `NoFindingLost`, `SuppressedTogether` | 268 k |
| `action_gate` | `MCActionGate` | for lists with a missing manifest, a project that writes no report and two projects of one name, formats of a project's own, all inputs and outcomes, clean or left-over report directory, with jq and without: `PassMeansAnalyzed`, `PassMeansBelow`, `FailHasReason` | 726 k |
| `subprocess` | `MCSubprocess` | two scout processes in one temporary directory, with short writes, removals that fail, panics, signals and kills: `CallsAnswered` (the refinement of `RemoteCall`), `PathsApart`, `LeakBound`, `CallsReturn` | 882 k |
| `run_preparation` | `MCRunPreparation` | two runs of one user at once, who opts out, waits, sets the clock back, is offline, kills a run, while scout and its detectors are released: `OptOutKept`, `UpdateNoticed`, `PreparedAsSelected` | 1.54 M |
| `access_control_lint` | `MCAccessControlLint` | more than 1900 crates of three functions, seven detectors (three that search the call graph, the four of `FlowLints`), every order: `ReportsJustified`, `NoneMissed`, `Terminates` | 721 k |
| `event_lint` | `MCEventLint` | 2560 crates of three functions, two detectors, every order: `SilenceReported`, `OverflowOnlyOnRecursion`, `EventsTerminate` | 810 k |
| `cross_contract_target` | `MCCrossContractTarget` | 3072 crates of three functions that pass two parameters on, also in a circle, in every order of the functions and of the worklist: `TargetsReported`, `PropagationEnds` | 251 k |
| `admin_auth_flow` | `MCAdminAuthFlow` | 2320 crates of three functions of four blocks, which branch, loop, leave early, panic (with a cleanup or without) and call each other, in every order of the summaries: `NoSinkMissed`, `AlarmsExplained`, `SummariesGrow`, `Terminates` | 86 k |
| `storage_reads` | `StorageReads` | bodies of any length with one local and two keys, and two branches, loops, calls or assignments inside each other: `StaleReadsReported`, `AlarmsExplained` | 606 k |
| `body_lints` | `MCBodyLints` | 31 detectors, every body up to the length that each needs and the functions of some eighty test cases: one property per family, a conjunction of what holds of each detector (`GuardsJudged`, `ConstantsJudged`, `ValuesJudged`, `LoopsJudged`, `CallsJudged`, `CratesJudged`), and `ExamplesJudged`: on the test cases the findings are those that the integration test accepts | 3.39 M |

Every property has a mutant in `PROJECT.json`, and those that speak of several detectors have one for each: a change
of one mapped definition, of the kind a bug in that code would be, under which the run fails.

The properties of detectors come in pairs. One says that a report is about what the detector is for, or else names the
construct that misled it; the other that what it is for is reported, or else names what it does not follow. What the
exceptions name is what the code does, read off it and confirmed by TLC; they are the detectors' blind spots, listed
below where a comment, a document or a name promises more. The list is complete for bodies made of the constructs of the
model, and says nothing of constructs that are not in it: each module's comments name its constructs.

### Where code and documentation disagree

`incomplete_untold` checks a sentence of the program and TLC finds it violated: `IncompleteTold`, from
`A/scout/output/console/lib.rs:48`, "This report is incomplete because some crates failed to compile." The verdicts
for `my-vault` and `my_vault` are merged in hash order; a warning under one name can hide the error under the other,
and the report says "Analyzed".

Read in the code while modelling it, and not checked by a run of its own. Of scout and the action:

- compile errors do not stop scout: it exits with 0 (`README.md:29` says that it won't run);
- "Nothing was analyzed. Check your build system for errors." (`A/run.rs:221`) is never returned, because the map of
  crates always holds the project's packages;
- "The step fails if a contract fails to analyze" (`README.md:102`): scout exits with 0 when a crate does not
  compile, and the words that the action searches for are not in a sarif report;
- `--cicd` with a directory that does not exist, or where the file cannot be made, leaves no FAIL file, which reads as a
  clean run (`A/run.rs:44`);
- a raw json and a pdf are written by one `write` whose count is dropped (`A/scout/output/report.rs:182`, 242): a run
  may end well with a part of one; no error of removing a file is looked at, so the files of a call that succeeded may
  stay (`A/interop/subprocess.rs:22`, 35);
- the gate drops every error of jq and counts 0 then (`action.yml:176`); a project's own `output_format` replaces the
  one that the action asked for (`A/run.rs:108`), and its findings are counted no more, nor, in a format without the
  table, its crates that failed;
- several formats with one `--output-path` replace one another (`A/scout/output/report.rs:131`);
- an allow of a detector that was excluded counts as unnecessary (`A/scout/core/post_processing.rs:96`);
- the action names reports after a contract's last directory: two of one name replace one another
  (`action.yml:149`; the gate still counts both, see `PassMeansBelow`), and `fail-on-findings` counts nothing unless
  the format is json (`action.yml:190`);
- a configuration file without `output_format` asks for no report (`A/config/mod.rs:49`), and then the gate passes;
- a half-written `user_id.txt` makes a line of its comment the identifier, and a blank last line makes none; an opt-out
  made while another run asks for an identifier is overwritten (`OptOutKept` names this);
- the names of the detectors and their libraries come from two downloads of a branch; a detector with an underscore in
  its folder's name is listed and never matched, one with several crate types has no path; the path of the two
  programs does not say which toolchain they were built for; the library `html-to-pdf` comes from another
  repository's branch;
- the driver's success flag is inverted, and read by nobody (`crates/scout-driver/src/startup.rs:109`).

Of the detectors (under `N/detectors`):

- `storage-change-events` and `token-interface-events` search recursively without a visited set
  (`soroban/storage-change-events/src/lib.rs:105`): functions that call one another overflow the compiler's stack,
  and only they do (`OverflowOnlyOnRecursion`). A token function with an empty body is no key of the call graph and
  is not reported.
- `unprotected-mapping-operation` looks at direct callers only, while its header (line 8) speaks of the call graph.
- `missing-new-admin-auth`: a call that does not return, and the end of a cleanup after a panic, count as exits, so a
  helper that panics before it asks is trusted by nobody; recursion makes false alarms; a function with the name
  `initialize` is left out. `unvalidated-cross-contract-target`: a `require_auth` on any address
  parameter in the flow credits every target. `auth-address-mismatch`: a circle of calls brings a function's own
  authorization back to it (the comment at line 142 says otherwise). `missing-initialization-guard`: a guard anywhere
  counts. `unnecessary-admin-parameter`: any forwarding next to an own `require_auth` excuses the parameter.
  `instance-storage-per-user-key`: any `get` or `has` of a key exempts it; one `<` and any assertion cap everything.
- `uncached-storage-modification`: a `set` cleans and an assignment marks before the arguments and the right side are
  visited (188, 203), so `x = storage.get(k)` is an alarm; a match starts its merge from the state before it; a loop is
  walked through once, and a break, a continue, a return and a lazy operand are passed like any other expression; only
  keys in local variables are followed.
- `division-by-zero`: `lib.rs:406` says that a reassignment "falls back to flagging"; assignments are ignored. It
  judges no division in a condition that checks a local (552), and the unwrap checks visit neither the condition nor the
  else branch of an `if` (`N/common/detectors/src/unsafe_checks/core.rs:90`); `a.is_some() || b.is_some()` proves
  both, and a `return` in a nested block proves for good.
- The constant analysis: a `let mut` stays a constant when it is assigned, and a copy of a constant is none. So
  `unsafe-lossy-cast` and `dos-unbounded-operation` pass over values that changed (and the latter over `10.max(n)`),
  and `excessive-token-approval` over a constant that was copied; `ineffective-extend-ttl` takes mutable locals by
  their first value; `integer-overflow-or-underflow` does not visit comparisons and never takes a power for constant.
- `non-terminating-loop` counts the `break` of any labelled block, and does not know that a `continue` of an outer loop
  leaves the inner one (82); `clone-in-loop` and `linear-scan-in-loop` never report what an outer loop binds;
  `front-running` accepts a `return` anywhere under a comparison, and sees nothing in the initializer of a let (196);
  `unscoped-authorize-as-current-contract` does not follow a `let`; `unrestricted-transfer-from` judges the last
  `transfer_from` of a function only (`lib.rs:138`), none of a parameter that is itself a reference, and panics at a
  constant argument (`todo!`, about line 226).
- `divide-before-multiply` visits the false branch and the way out of a loop first, with a block visited once, so it
  depends on the order of blocks what is tainted; a cast takes the taint off; an unchecked `Mul` of a tainted value is
  always reported (185).
- `avoid-panic-error`: a test function in a test module ends the module (`rust/avoid-panic-error/src/lib.rs:76`), and a
  `panic!(..);` that is a statement is never seen (127).
  The detectors of macros do not know `cfg(all(test, ..))` and take `cfg_attr(test, ..)` for a test.
- `soroban-version`, `overflow-check` and `known-vulnerabilities` lose their finding silently when any question goes
  unanswered; `integer-overflow-or-underflow` takes the same silence for checks that are off.
  `contract-import-dependency` never matches names that have both separators, nor `.optimized` files, and
  reports every import of a crate whose manifest it cannot read (109).
- `unsafe-map-get` passes over a `try_get_unchecked` that is consumed at once, and over a `get_unchecked` in a `match`;
  `unused-return-enum` depends on the order of the combinators; `vec-could-be-mapping` sees only gets with a turbofish
  and lets that are in no other statement, and takes every receiver for a storage, since an `||` of two `!=` always
  holds (`lib.rs:234`); `token-interface-inference` counts functions over all types of the crate.
- Of the test cases: the remediated contracts of `integer-overflow-or-underflow` all turn `overflow-checks` on, and so
  never reach the analysis; the integration test ignores findings of other detectors than the listed ones
  (`test_utils.py:65`).

## 4. Bounds, and why they are enough

- `Ids`, three packages: cycles of length one, two and three, diamonds and unreachable packages all occur; the answer
  is proved for any number.
- `MaxMessages`, three, and one unless the command line is the plain one (`FewMessages`): a verdict involves an error,
  a message before and one after it; a suppression an allow, a finding and an error. The alphabet has both spellings
  of a name, both kinds of package, overlapping and disjoint spans, and a message that is not a compiler's. What the
  command line and failures do needs one finding, since it is about steps. Proved for any number.
- `Lists` of at most three contracts: the counters are sums, and two contracts of one name with another in between
  show what is overwritten. Counts of findings are 0 or 1, and one severity at a time.
- `Callers`, two, `MaxCalls`, two, `Paths`, four: two calls use four files at most at once. A third process adds no
  pair of calls; leaks are counted per failure, and the bound is proved for any number.
- `Runs`, two; `Day`, one tick, `MaxTime`, two, `MaxBack`, one: an age can be below, at and above a day, and negative.
  `MaxReleases`, two: one that is known and one that is not. Two `Revisions` of the detectors (one dropped, one new,
  one with another kind), two `Toolchains`. `Starts` bundles what may happen in one behaviour: user, time and network
  together with settled detectors, or detectors with a settled user, since neither reads the other's files.
- `Functions`, three, with generated functions for an entry point: an entry point, a function between and a helper
  make every verdict reachable; searches have a middle and an end, and circles of one to three functions. Two
  parameters, so that they can be crossed; four blocks make a diamond, a loop and an early way out. What the searches
  report is proved for any crate.
- `StackLimit`, five: more than the longest chain of calls without a repetition (four, with `External`). A real stack
  holds more calls; the property is that only recursion reaches the limit, wherever it is.
- `MaxDepth`, two, with one local and two keys: a branch in a loop, a loop in an argument, a branch in a branch; the
  states of two locals never meet, and a local may be read with either key. The body's length is not bounded. Proved for
  any depth and number.
- `MCLengths`, the constructs in a body, one to nine: for each detector as many as the longest of its mistakes takes
  (an `if` with two branches and a use after them, a loop in a loop, six for a module with a test and a helper), or
  one where the detector judges each expression by itself. Bodies of the test cases are longer and are walked to
  their end. `MCNumbers`, 0 to 2: nothing, one, and a number that is neither; two locals, which are symmetric.

`CHECK_DEADLOCK FALSE` appears where the program ends: a run exits, a step finishes, an analysis is done, a body has
its length, callers have made their calls, or a graph could not be built.

## 5. Fairness

- `DependencyGraph`, `AccessControlLint`, `EventLint`, `CrossContractTarget`, `AdminAuthFlow`: one thread that runs
  while it can (weak fairness of its steps). Questions to the graph are not obliged to come.
- `ScoutRun`: weak fairness of `Step`, the program's own steps, each of which ends: subprocesses and the network
  calls inside them are assumed to come back. No property depends on it: that a run of finitely many steps in one
  direction ends is no finding.
- `Subprocess`: weak fairness of each caller's steps and of each subprocess's: the operating system schedules both,
  and the subprocess does not loop. None of `Kill`, `ChildKilled` or of new calls.
- `ActionGate`, `StorageReads`, `BodyLints`, `RunPreparation` state no liveness: a shell loop over a finite list, a
  visit of a finite tree, and processes that may be killed at any time.

## 6. What is proved

For every value of the constants that satisfies the named assumptions, checked by `tlapm <module>`:

| module | theorems | by |
|---|---|---|
| `DependencyGraphProofs` | `AnswersCorrect` (`Spec => AnswersAsPromised`), `FrontierKept`, `TypeCorrect`, `StackBounded` (`StackBound`) | `IInv`: `Frontier` bounds the visited packages from below (nothing reachable is lost) and `Sound` from above (everything seen lies in every closed set around the start); `Asked` says which question is being worked on. When the stack is empty the two meet: the visited set is the least closed set. `StepRefines` maps each step to a step of `GraphQuery` or to a stutter. `Accounted`: what is on the stack was pushed along an edge of a package that has been expanded, once per edge, and the start; a package is expanded once |
| `ScoutRunProofs` | `FailFileHonestAlways`, `OnlyAskedAlways`, `VerdictsRightAlways`, `NoFindingLostAlways`, `SuppressedTogetherAlways`, `ReportsAreTold`, `TypeCorrect` | `Flow` says what the detectors and findings are at each step, `Judging` that verdicts sum up the messages read so far, `Writing` that what is left to write ends with the last format and only the file at hand, or one of a format in `WrittenOnce`, may be half-written. No property is inductive alone: at the output, all have to know how the findings and files came about |
| `ActionGateProofs` | `PassMeansAnalyzedAlways`, `PassMeansBelowAlways`, `FailHasReasonAlways`, `TypeCorrect` | a report may be overwritten after it was counted, so the invariant speaks of the history: `CleanRuns`, `BelowRuns` and `Reasons` say what each counter knows of the runs behind it, `Current` that the file read is the latest run's. `TotalIsBad` proves that the jq condition agrees with the order of severities |
| `SubprocessProofs` | `CallsAnsweredAlways` (the refinement), `PathsApartAlways`, `LeakBounded`, `TypeCorrect`; with `RunPreparation`, `OptOutIsKept` (`OptOutKept`), `UpdateIsNoticed` (`UpdateNoticed`), `RunsArePrepared` (`PreparedAsSelected`) | `Separate`: what a caller and its subprocess know of each other (`Local`), what is in the files they use (`Held`), and that two calls use different ones (`Apart`). `TouchKeeps` is the frame lemma: a step that touches only files of one call keeps this for the others. `LostBound` strengthens `LeakBound` with the finiteness of what was left behind, by a failure or a removal that did not work. For the preparation, `OptingOut`: once the user has opted out and nobody is asking, no run holds another identifier; `Knowing`: what a run trusts was true when it was stored, and `Timely` how long ago that was, as long as the clock is not set back; `Preparations`: what each run holds at each phase (`Reading`, `Choosing`, `Placed`, `Ran`), which another run only disturbs by what the property names |
| `AccessControlLintProofs` | `ReportsRight` (`ReportsJustified`), `AllReported` (`NoneMissed`), `TypeCorrect` (all with `FlowLints`); with `EventLint`, `EventsReportedRight` (`SilenceReported`), `EventsOverflow` (`OverflowOnlyOnRecursion`); with `CrossContractTarget`, `TargetsRight` (`TargetsReported`) | `Gathered`: what the visits collected is what the functions seen contain, so at the end the maps are the crate. `Searching`: the functions looked at hold no authorization, and their callees are looked at or still to be; with an empty stack they are closed under calls and contain the start's flow. `CallersJudged` lifts this to the callers, `Judged` keeps the verdicts already given. For the event detectors `PathRight` says that the stack of calls is a path in the graph from the function being judged, without the function looked for; a path without a repetition is no longer than there are functions, so one that overflows has a circle. For the targets of calls, `TargetsGathered` for the visits and `Propagated` for the worklist: every parameter that was reached is controlled by an attacker, those of entry points are reached, and one that is off the worklist has handed on along all its edges. With an empty worklist this is the closure, in whatever order it was taken |
| `AdminAuthFlowProofs` | `NoneLacking` (`NoSinkMissed`), `NoneTakenBack` (`SummariesGrow`), `AlarmsHaveReasons` (`AlarmsExplained`) | `Modest`: a summary promises no more than recomputing it with the present summaries would, so recomputing never takes anything back, the flow over the blocks being monotone; what a sink lacks with all of them it lacks in an execution. `Covered` keeps the verdicts of the entry points already judged. `Explaining`: a round that changes nothing leaves the summaries a fixpoint, and what such summaries do not promise is a set that `Silenced` maps onto itself, so part of the largest one (`StableDoubted`); where nothing below panics unasked or calls in a circle it is part of the least one, by induction on what is still below (`StableSilent`), so some execution comes that way |
| `BodyProofs` | `StaleReads` (`StaleReadsReported`), `Alarms` (`AlarmsExplained`), `TypeCorrect`; `LoopsAreJudged` (`LoopsJudged`), `GuardsAreJudged` (`GuardsJudged`), `TransfersAreJudged` | of `StorageReads`: `Agrees`: what the detector holds for modified is exactly what is changed on a way that it follows or imagines; `Known` that it knows the key of each change on such a way, and `Consistent` that it takes no local for a copy of another key. `Kept` says the same of what every surrounding frame brings back and `Nested` how frames lie in one another, for any depth. Of the loops: `LoopInv`. The depth of a body is a difference of two counts, and `Stacked` says that the detector's stack is the constructs open here, the k-th at depth k; `EndlessKnown` and `IndexedKnown` say what each frame knows of what was passed inside of its loop. Of the divisions: `Keeps`: `guarded` is exactly what a check in scope protects (`GuardedAt`), and every scope on the stack holds what it has to bring back. Of the unwraps: `Believes`: what is believed checked is present in every execution that comes here, unless the body has one of the constructs that mislead `UnsafeChecks` (`Misled`); what stands in a condition is never looked at. Of the transfers: `FrontKnown`: the detector's frames are the `if`s that are open (`Framed`), its conditions those of the comparisons whose first branch this is and that the visitor came to, in their order (`Listed`), and `ReturnsNoted` says which returns left a mark; a guard that the visitor skipped hides what it guards as well, unless a let does (`GuardIsNoted`). `TransferInv`: the last `transfer_from` of a parameter is the one remembered. |
| `ConstructProofs` (on `BodyProofs`) | `CallsAreJudged` (`CallsJudged`, of which the transfers are a part), `ConstantsAreJudged` (`ConstantsJudged`), `CratesAreJudged` (`CratesJudged`) | of the constants: `ConstantKnown`: the locals taken for constants are those bound to lists of constants, and every other bound local is reached from a parameter, so that the fixed point in `Unbounded` and the detector's set are each other's complement (`FixedIsBounded`). Of the casts: `LossyCastIs`, by the least and the greatest value of each type. Of the arithmetic: `ArithmeticKnown`: with one condition in force the detector knows nothing, or what `AnalyzeCondition` makes of that condition alone. Of lifetimes and approvals: `TtlKnown`: every local that was bound holds what its initializer comes to, and has a constant if that is a literal; a constant is what its local holds, unless something was assigned or a sum was left unfinished before the local was copied (`ConstantRight`, `Leftover`); and two locals that the detector takes for the same hold the same, the pairs that do being closed under its comparison (`SameLocalsAre`). Of the calls: `CountKnown`: which of the two counters are positive, by the variants made so far and the combinators after them; keys and types are at most two deep, so what the detector takes away and what the property looks through meet (`KeyIs`, `ValueTypeIs`); a search of a local finds its only let, if that stands in no statement (`VecFollows`). Of the crates: `PanicKnown`: what check_item was called for so far and still has to be called for, that the test remembered is the latest one seen, and where one was forgotten; `MacroInv`: the spans kept are those of the test items passed; `ImportInv`: each dependency loaded is an entry of a manifest that was read; `TokenInv`: the counters are those of the functions and types passed |

`LoopsAreJudged`, `GuardsAreJudged`, `TransfersAreJudged`, `CallsAreJudged`, `ConstantsAreJudged` and `CratesAreJudged`
are about `LoopSpec`, `GuardSpec`, `TransferSpec`, `CallSpec`, `ConstantSpec` and `CrateSpec`: the behaviours
(`BodyWalk!Follows`) that start as `check_fn` does and in which their own `Visit...` is all that their detectors do,
while any other detector may do what it likes. Every behaviour of `BodyLints!Spec` is one, because its `Init` is `Begin`
with the same memory and every disjunct of its `Next` names the detectors it is for (`Works`) and keeps `lint` (`Pass`).
They are stated this way, and not with `BodyLints!Spec` itself, because other detectors in that module are computed by
recursive operators, out of whose reach the provers have to stay.

Assumptions on constants: `MetadatasAssumption`, `IdsAssumption` (records of the right shape, some package),
`DepsAssumption` (finitely many edges); `NamesAssumption`, `RequestsAssumption` (clap refuses `--filter` with
`--exclude`), `FormatsAssumption`, `AlphabetAssumption`, `MaxMessagesAssumption`; `ListsAssumption`,
`ThresholdsAssumption`, `OutcomesAssumption`, `LeftoversAssumption`; `MaxCallsAssumption`, `PathsAssumption`;
`TimeAssumption`, `DoNotTrackAssumption`, `RevisionsAssumption`, `StartsAssumption` (of preparations);
`ProgramsAssumption`, `ExternalAssumption`, `GeneratedAssumption`, `FunctionsAssumption` (of crates: finitely many
functions), `LintsAssumption`, `StackAssumption` (the stack has room for every function once) the two `CasesAssumption`s
and `AddressesAssumption`; `BlocksAssumption`, `ParamsAssumption`, `CallsAssumption`, `CleanupsAssumption` (cleanups
only drop values); `NoKeyAssumption`, `MaxDepthAssumption`, `LocalsAssumption` (a function has finitely many locals),
`LongestAssumption`, `AmountAssumption` (the amount is not the parameter it is compared with), `NumbersAssumption`
(literals are naturals and no locals), `NowhereAssumption` (what stands for no constant is no number and no local). TLC
evaluates all of them.

Only model-checked: liveness (`Terminates`, `PropagationEnds`, `EventsTerminate`, `CallsReturn`), which is beyond the
prover; the properties `ValuesJudged` and `ExamplesJudged` of the detectors of a body. The first is about expressions of
one statement and the blocks of one function (`ExpressionLints`, `DivisionLints`), which are searched by recursive
operators, out of the provers' reach; the expressions are of a fixed depth, so a run sees them all. The second is about
the functions of the test cases, of which there are some eighty and no more.

## 7. Not modelled, and why

- Formatting, rendering, logging, build scripts: no decisions. The tables' words matter only to the action, which
  models them. `set_severity` in `A/run.rs` is a text replacement in the editor's output.
- The choice of project and toolchain, and the command line: a step of `ScoutRun` that answers or fails; what clap
  accepts is `Requests`.
- The driver's and the helper's own work is the constant `Answer` of `Subprocess`, and steps of `ScoutRun`.
- Detectors of one pattern at one place: `avoid-unsafe-block`, `empty-expect`, `incorrect-exponentiation`,
  `avoid-core-mem-forget`, `avoid-vec-map-input`, `insufficiently-random-values`, `unnecessary-lint-allow` (what
  becomes of its findings is in `ScoutRun`). The common crates hold types, macros and helpers without a state.
- Partly: report files (which file holds what and whether it is whole, not its contents); transfers of tokens (the
  second half of `unrestricted-transfer-from` follows a selector and is left out); test cases (those of the detectors
  in `TestContracts`, without the cases that need something the model of the detector abstracts: constants in `Some`,
  the length of a vector as a bound, bounded newtypes, widening casts).
- Of the language: closures, and several storages or keys that are no locals, in `StorageReads`; the bodies of every
  detector are made of the constructs that its module names, and no others.
- What the compiler decides: types, spans, macro expansion and paths are data of `program`, `Alphabet` and of the
  constructs. Which expression is an operation or an authorization is data as well.
- Scripts, workflows and documents: continuous integration of the repository itself.

## 8. Plan

Done, in this order, the most important first: the graph and its proofs; one run with verdicts and suppression, and
its proofs; the action's gate; subprocess calls; the detectors over a crate and the proofs about their searches; the
detectors with a data flow and their proofs; the preparation of a run with files shared between processes; the
detectors over one body, against the repository's own test cases.

Left:

1. More test cases: the constructs named under 7 that their detectors' models leave out, and the crates of the
   detectors over a whole crate.
2. The second half of `unrestricted-transfer-from`, and the detectors of one pattern, on `BodyWalk`.
