# Formal models of autobuild4

autobuild4 builds AOSC OS packages. A bash process loads a plugin written in C++ (`native/`), which adds
builtins to the shell, and then sources the scripts of `proc/` one after the other in strict mode. This
directory holds TLA+ models of the parts whose correctness depends on order, sharing or failure, the TLC
configurations that check them on small instances, and TLAPS proofs of what holds for every instance.
Paths below are relative to `src/`.

## 1. Inventory

| Component | State it keeps | Operations | Interacts with | What makes it correct | Status |
|---|---|---|---|---|---|
| Thread pool (`native/threadpool.hpp`) | mutex, deque, `m_stop`, `m_has_error`, threads | worker loop, `enqueue`, `stop`, `wait_for_completion`, `has_error` | ELF client, `abpp_parallelize` | each task runs once; no lost wakeup; the verdict is exact once joined | modelled, proved |
| ELF processing (`native/abnativeelf.cpp`) | descriptor table, file locks, symbol files, two guarded sets | `elf_copy_debug_symbols`, `elf_copy_debug_symbols_parallel` | pool, objcopy and strip, `filters/80-elf.sh` | symbols are saved before they are stripped; failures reach the status; a lock excludes | partly modelled, proved |
| Pipeline (`proc/*.sh`, `native/bashinterface.cpp`) | source tree, `PKGDIR`, `SYMDIR`, `abscripts`, markers on disk | one stage per script, strict mode, `abdie` | everything | a failed stage stops the build; a rerun after an interruption starts clean | partly modelled, proved |
| QA (`proc/10-qa-pre-build.sh`, `proc/75-qa-post-build.sh`, `qa/`) | `abqaerr.log`, `abqawarn.log` | checks before and after the build | pipeline | no package is made by a run with QA errors | the gate is modelled, the tests are not |
| Package manager backend (`pm/dpkg.sh`, `native/pm.cpp`) | `DEBIAN/control`, `.deb` files | field generation, version conversion, pack, install | pipeline, defines | the relation written is the relation meant; what is archived was installed | dependencies, pack and install modelled, proved |
| Defines and architecture variables (`proc/01-core-defines.sh`, `lib/default-*.sh`, `arch/_common.sh`, `native/bashinterface.cpp`, `native/abjsondata.cpp`) | shell variables, namerefs, `ARCH`, `ABHOST`, `ABHOST_GROUP` | `set_arch_variables`, `arch_loaddefines`, `ab_parse_set_modifiers`, two passes over `defines` | pipeline | the most specific value wins; one host for compiler, paths and flags | partly modelled, proved |
| Array builtins (`native/abnativefunctions.cpp`) | bash's linked list with its cached `lastref` and `max_index` | push, filter, concatenate, read_list, split, mines | compiler flags, patches, every script | a script's array is the list of words it believes in, after any calls in the orders the scripts use | modelled but for indices, proved |
| Compiler flags (`proc/12-arch-flags.sh`, `lib/default-flags.sh`, `arch/_common_switches.sh`) | `CFLAGS` and the like as arrays | concatenation, removal | array builtins, templates, HWCAPS | each feature's flags are there once | not modelled: data; how they are put together is in `BashArray` |
| Lambdas (`abfp_lambda`, `abfp_lambda_restore`, `proc/20-register-funcs.sh`) | captured environments, generated functions | capture, restore | delayed checks of the templates | one environment, one function; a first call finds what was captured | modelled, proved |
| Build templates (`templates/`, `proc/30-build-probe.sh`, `proc/50-build-exec.sh`) | build directories, current directory | probe, audit, configure, build, install | pipeline, HWCAPS | the right template; no failed command is taken for success; each target has objects and directories of its own | modelled but for the probes, proved; in `PackageBuild` a template is the files it installs, or a failure |
| Filters other than ELF (`filters/*.sh`) | files of `PKGDIR` | drop, compress, rewrite | pipeline | – | in `PackageBuild` they drop any files |
| JSON and modifier parsers (`native/abserialize.cpp`, `abnativefunctions.cpp`) | – | parsers | defines, `abjson` users | the value parsed is the value written | relations are in `Control`, modifiers in `Defines`; the rest is not modelled: functions without state |
| Spiral (`native/abspiral*.cpp`, `proc/53-spiral.sh`, `build_spiral_lut.py`) | generated tables of sonames | lookup of Debian names | pipeline | names match | not modelled: table lookup |
| Logger and crash handler (`native/logger.cpp`, `diagnose`) | one mutex | messages, backtraces | all threads | a crash ends the process | not modelled: output; that a crash ends the process is `Abort` |
| Plugin entry (`native/autobuild.c`, `native/stdwrapper.hpp`) | builtin table | registration, strict mode, the ordered loader | bash | scripts in the order of their names, each in strict mode | strict mode and the loader are in `PackageBuild` |
| Architecture files and helpers (`arch/*.sh`, `helpers/`, `lib/scriptlets.sh`, `sets/*.json`) | – | tables of flags and text | defines, flags, dpkg | – | not modelled: data; truncate-then-append of the scriptlets is in `PackageBuild` |
| Build system and tests (`CMakeLists.txt`, `tests/`) | – | – | – | – | not part of the running program |

How they interact: the plugin sources `proc/*.sh` in the order of their names; a script that fails, or calls
`abdie`, ends the process. What one script leaves to the next is shell variables; what one *run* leaves to
the next is on disk. `proc/51-filters.sh` calls `filters/80-elf.sh`, which calls `abelf_copy_dbg_parallel`:
the only place of a package build where threads run. Its pool starts child processes (`objcopy`, `strip`)
from several threads at once, and child processes inherit every descriptor of the process.

What is hard to test here: threads that share a deque and a flag; descriptor numbers closed by one thread
and handed to another while a child keeps copies; hard links, where two tasks work on one file; a build that
dies between two stages and is started again in the same tree; markers and logs on disk that outlive the run
that wrote them; builtins that edit bash's arrays behind the back of bash's own cursors.
`PROJECT.json` lists these hazards line by line, with the properties that cover each.

## 2. Modules

| Module | What it is |
|---|---|
| `TaskBatch` | abstract specification: a batch of tasks, each started once, a verdict, a return |
| `ThreadPool` | `threadpool.hpp` and its two clients, one step per critical section; implements `TaskBatch` |
| `ThreadPoolProofs` | its invariants, that some thread can always go on, and the refinement, proved |
| `ElfStrip` | one call of `elf_copy_debug_symbols` per task, one step per system call that others can notice, composed with `TaskBatch` in place of the pool |
| `ElfStripProofs` | descriptors, locks, symbols, and that a lock somebody waits for comes back, proved |
| `PackageBuild` | a source directory through several runs of `proc/*.sh`, each of which may die anywhere |
| `PackageBuildProofs` | types, the QA gate, patches, freshness, whole packages and lists of configuration files, proved |
| `TemplateBuild` | the commands of each template, which of them have an `abdie`, and the directories they share with other subtargets and runs |
| `TemplateBuildProofs` | types, the visibility of failures, places, objects and deaths, proved |
| `Defines` | how one run gets its variables: the plugin's, the library's, the package's, the architecture's, and the package's again |
| `DefinesProofs` | types, one host, the most specific value, stage 2, final paths and arrays appended to once, proved |
| `ShellLists` | abstract specification: array variables as lists of words |
| `BashArray` | bash's rings of cells and the builtins that edit them, one step per turn of a loop; implements `ShellLists` |
| `BashArrayProofs` | the rings stay rings and are lists of words, and the refinement, proved |
| `Closures` | abstract specification: functions with variables captured by value, once |
| `Lambdas` | `abfp_lambda` and its restore over the shell's scopes and functions; implements `Closures` |
| `LambdasProofs` | owners, first calls and the refinement, proved |
| `Control` | a dependency from the defines file to apt's request and the control file |
| `ControlProofs` | relations survive both readers and hold of what was built with, proved |
| `MC*` | the small instances; each run's constants are in a `.cfg` of its own |

Definitions named "faulty variant" or "mistake" in a comment are not part of any specification: they are
versions of the definition that follows them with a plausible bug, and each property is known to fail when
one of them takes its definition's place (`PROJECT.json`, "mutants").

### TaskBatch and ThreadPool

| Model | Code |
|---|---|
| `m_mutex`, `m_queue`, `m_stop`, `m_has_error` | the members of `ThreadPool`; the mutex is its holder |
| `pc[w]`, `task[w]` | where a worker is in the lambda of the constructor (`threadpool.hpp:43-57`), and its local |
| `cpc`, `arg`, `status` | the client: `elf_copy_debug_symbols_parallel`, or `abpp_parallelize`, which reads the flag before it joins |
| `Lock`, `PredicateHolds`, `Sleep`, `SpuriousWake` | `unique_lock` and `m_waker.wait` with its predicate |
| `Exit`, `Take` | `:47-53`; `back()` and `pop_back()`, so the deque is a stack |
| `TaskSucceeds`, `TaskFails`, `SetHasError` | `process_for_result`, and the store to the flag as a step of its own |
| `EnqueueLock`, `Enqueue`, `StopLock`, `Stop`, `Join` | `enqueue`, `stop`, `wait_for_completion`; `notify_all` sends every sleeper back to `lock` |
| `ReadFlagEarly`, `ReadFlagLate` | `abnativefunctions.cpp:1009` before the destructor joins; `abnativeelf.cpp:857` after the join |
| `Abort` | an exception that nobody catches: `std::terminate` |

`ReadFlagEarly` is a data race on a plain `bool`: the client may see either the stored or the former value,
and both outcomes are in the model. Reading after `join` is ordered by the join. `submitted`, `finished` and
`failed` are history variables. `TaskBatch` has the sets `pending`, `running`, `finished`, `failed`, a phase
and a verdict; the refinement maps the deque to `pending` and the tasks in workers' hands to `running`.

### ElfStrip

A task is a path. Several paths may be one inode (`InodeOf`), and several inodes one symbol file (`DestOf`:
by build-id, else by the last component). `fdtab` is the descriptor table of the process, `copied[w]` the
open files that the child of worker `w` inherited, `flocked` the owner of each `flock`. A lock belongs to
the open file: it goes when the last copy is closed, or when anybody calls `LOCK_UN` through a copy.

| Action | Code (`abnativeelf.cpp`) |
|---|---|
| `Begin`, `End` | the processor of `ELFWorkerPool`, and the result it hands to the pool |
| `Open`, `OpenFails` | `:642-646` |
| `LockFile`, `Unlock` | `FileLockGuard`, `:629-637`; its destructor runs *after* that of `MappedFile`, which closes the descriptor, so it unlocks a number that may be free or another worker's (`staleUnlock`) |
| `FstatFails` | `:648-652`, the only exit on which the descriptor is never closed |
| `Scan` | map, parse, note the dependencies, choose what to do: `:653-773` |
| `Save`, `SaveEnds`, `SaveFails` | `objcopy --only-keep-debug`, `:774-783` |
| `Strip`, `StripEnds`, `StripFails` | `:784-789` |
| `Fork`, `Reap` | what fork and the child's end do to descriptors and locks, `:535-544` |
| `Close` | `MappedFile::~MappedFile` |

`objcopy` and `strip` are external: each may fail, and an objcopy whose input another worker rewrites
while it reads (`Disturbed`) may or may not keep the symbols.

### PackageBuild

The state is what the disk keeps (`tree`, `exists`, `dist`, `symdir`, `scripts`, `conf`, `confBy`, `qalog`),
what the shell keeps during one run, and what has left the directory (`installed`, `archive`). Each file is
tagged with the run that wrote it. `pc` is the script the loader has reached, and `After` the order of the
names in `proc/`. `Stop` is any death: a command under `errexit`, an `abdie`, a killed process.

| Action | Script |
|---|---|
| `StartRun`, `RemoveLog`, `UnpackAgain` | a new run; the maintainer removes `abqaerr.log`; acbs unpacks the source again |
| `QaPre`, `QaPost` | `10-qa-pre-build.sh`, `75-qa-post-build.sh` |
| `Cleanup`, `Setup`, `Licenses` | `11-cleanup.sh`; the scripts that keep no state of the model |
| `PatchSkip`, `PatchBegin`, `ab_apply_patches`, `ab_reverse_patches`, `TouchMark` | `40-patch.sh` and `lib/builtin.sh`, one patch per step |
| `Build`, `HwcapsBuild`, `HwcapsHarvest`, `HwcapsDone` | `50-build-exec.sh`, `51-build-hwcaps.sh` |
| `Filters`, `Overrides`, `Conffiles`, `Scriptlets` | `51-filters.sh`, `52-overrides.sh`, `61-conffiles.sh`, `70-scriptlets.sh` |
| `pm_build_package`, `PackDebug`, `pm_install_all`, `InstallDone`, `Archive` | `80-pm-pack-install.sh`, `pm/dpkg.sh`, `99-pm-archive.sh` |

`patch(1)` and `dpkg-deb` are modelled by the behaviour the scripts rely on: `-N` refuses a patch that is
already there; `-R -t` without `-N` takes a patch that is not there as one to apply; a failed hunk leaves the
others behind; a package whose conffiles name a file it does not have is refused.

### TemplateBuild

`50-build-exec.sh:29-33` calls each phase as `build_<type>_install || abdie`. Bash turns `errexit` and the `ERR`
trap off in a function called that way, so a command ends the build only if it has an `|| abdie` of its own
(`Do`), or if it is the last of its function (`Return` looks at `ret`); any other (`Try`) fails unseen. A file run
by `arch_loadfile_strict` is parsed by the builtin and keeps `errexit`, so the commands of a package's own
script count as guarded. Each template is a table of commands by phase, read from its file; a command is known by
what it touches: the directories that exist (`made`), what a directory was configured for (`conf`), for which
targets there are objects in it (`obj`), the targets whose `PKGDIR` exists (`packed`) and their libraries (`lib`).

| Action | Code |
|---|---|
| `StartRun`, `UnpackAgain` | a new run: `11-cleanup.sh:8` removes `abdist` only; acbs unpacks the source again |
| `Succeeds`, `Fails` | the next command, which fails with all of its effect or none |
| `Refused` | a command that cannot work in the state it meets: `mkdir` without `-p`, `ln -s` over a link, a second call of dune's check, `ABSHADOW` off in gomod |
| `Return` | the end of a phase: its status, `cd "$SRCDIR"` after `prepare` and `install`, the test of `PKGDIR` |
| `TargetDone`, `Hwcaps`, `HwcapsRefused`, `BuildDone` | the loop of `51-build-hwcaps.sh:57-140` with its clean-up, its own `BLDDIR` under `ABSHADOW`, its test for libraries, and its refusal of packages with a script of their own |
| `Stop` | any other death |

Of the checks that `20-register-funcs.sh` delays with a lambda only dune's is ever called: the name is built from the
first program's after a `shift 2` (`:59`), and is the template's for dune alone. It restores what it captured when it
was registered, which works once in a run: for the package itself, not for its subtargets.

`make` is external (`Compiled`): of the objects it finds it takes all, some or none for up to date.

### Defines

A variable's value is the sequence of marks its assignments left (which line of which file, under which suffix, with
which `$PREFIX`, and whether `bool` takes the text for true), so that a property can say who had the last word. A file is
executed line by line: `After(path)` is the shell after each of its lines (`Line`), `Sourced(path)` after the last.
`autobuild_copy_variable` copies an array, but of a scalar it runs `declare -n NAME=NAME__AMD64`: from then on
`NAME=` writes to `NAME__AMD64`. `refs` holds these references, and `Cell` is the variable a name stands for.

| Action | Code |
|---|---|
| `Enable`, `Arguments` | `register_builtin_variables` and `set_custom_arch`, both through `set_arch_variables` |
| `LoadDefaults`, `ParseModifiers` | `proc/01-core-defines.sh:24-30`; the stage 2 block of `default-defines.sh` comes before the modifiers |
| `FirstDefines`, `SecondDefines` | `arch_loaddefines -2 defines`: search, source, then look at each exported name |
| `Found`, `SearchOrder`, `FileIn` | `arch_findfile_inner`: `ABHOST`, the groups of `ARCH`, the top; `defines.stage2` first in stage 2 |
| `LoadedVar`, `Picked`, `Copied`, `Referring` | `arch_loadvar_inner`, `autobuild_get_variable_with_suffix`, `autobuild_copy_variable` |
| `ChooseCompiler`, `LoadArch` | `:36-70`: the compiler, `arch/<ABHOST>.sh`, `default-flags.sh`, `ALLOW_ARCH` against `FAIL_ARCH` |
| `Check` | `:90-133`: refusals, then what the situation overrules |

`files` and `archHost` are history variables.

### ShellLists and BashArray

An array variable of bash is a ring of cells linked through its head, with a pointer `lastref` to the cell that was
used last. The plugin includes bash's headers and changes the ring itself. The head of array `a` is the node `a`;
`owner` tells a cell's array, or that it is free; `stage[a]` is how far a script has got with `a`. The words of an array
(`List`) are those met by following `next` from the head; what a file leaves in an array are the lines that are `Kept`.

| Action | Code (`abnativefunctions.cpp`) |
|---|---|
| `AppendWord`, `Subscript` | bash's own `+=` and `${a[i]}` (external) |
| `bash_array_push` | `:183-196`: after `lastref`, leaving `head->prev` as it was |
| `ab_concatarray`, `ConcatTurn` | `:687-707` |
| `ab_filter_args`, `FilterTurn`, `Unlink` | `ab_remove_args`, `:278-321`: unlinks and frees a cell, then steps from it |
| `ab_read_listing_file`, `ab_tostringarray`, `FillTurn` | `:581-643`, and the split of a string |
| `abmm_array_mine`, `abmm_array_mine_remove` | `:1163-1199`: a cell that hangs on `lastref` only, so that a script that reads the array as a string finds it |
| `Dies` | memory is used up, or a pointer leads nowhere |

`OwnScripts` restricts the calls to the orders in `arch/optenv32.sh`, `12-arch-flags.sh`, `50-build-exec.sh` and
`51-build-hwcaps.sh` (the plugin pushes only onto an array that is new, or that bash has appended to and nobody has read since; bash
does not append to it after that). The refinement maps an array to the words of its ring between calls, and to those it had before the call
while one runs.

### Closures and Lambdas

`scopes` are the variables, from the global ones to the locals of the innermost function; `functions[f]` is the list of
the environments a function restores when it starts; `env` what these hold, `Null` once freed; `tmp` the variable
`__abfp_lambda_tmp_var__`.

| Action | Code |
|---|---|
| `Assign`, `Local`, `Define`, `Return` | the shell (external) |
| `abfp_lambda`, `LambdaFails`, `Captured`, `Draw` | `abnativefunctions.cpp:1097-1161`: copies each variable through `tmp` (`autobuild_copy_variable`), draws a random name, and moves the function to its new name with a restore in front |
| `Call`, `abfp_lambda_restore` | `:1036-1095`: the captures become locals, and are freed; a restore that finds nothing returns an error, which kills a strict shell unless the call is guarded by `||` (`lax`) |

A closure is the list of what its environments hold; the refinement reads `closures` off `functions` and `env`.

### Control

| Action | Code |
|---|---|
| `pm_install_deps`, `Asked`, `Parsed` | `11-pm-deps.sh`, `abpm_dump_builddep_req`, `autobuild_to_deb_version` (`pm.cpp`): an automaton over operators and a version (`Opened`, `Closed`), in which what does not fit is dropped; apt is external (`Satisfied`) |
| `filter_elf` | the owners of the libraries that `80-elf.sh` noted (external) |
| `dpkgfield`, `Entry`, `HasPair`, `Installed` | `pm/dpkg.sh:33-89`: the regular expression, the switches `VER_NONE` and `VER_NONE_ALL`, the version that is filled in |
| `OptionalFields` | `VER_NONE=1` in front of the optional fields |

A word of a dependency is a name, operators and a version, or `name_`. `TESTDEP` is treated like `BUILDDEP`.

## 3. Runs

Run any of them with `tlc -config <file>.cfg <module>`. All check deadlock but three. The threads may stop only
where their `Ended` step says so; `PackageBuild` stops when its runs are used up, which `UnpackAgain` keeps
from being a deadlock. `arrays`, `lambdas` and `control` may end: a script dies in a builtin, a strict shell on a
second restore, and `control` when the control file is written.

| Run | Instance | Checks | Shows |
|---|---|---|---|
| `pool` | 3 workers, 3 tasks, either client, fair; 44 k states | `TypeOK` `OnePlacePerTask` `Termination` `ImplementsBatch` | no task is lost or run twice, no wakeup is lost, and the pool keeps `TaskBatch`'s promise: the client returns when all has ended, the status after the join is exact, an early one invents no failure |
| `elf_own` | 3 files of their own and of every type, 2 workers, 2 descriptors; 2.4 M | `TypeOK` `NoSymbolsLost` `AllStripped` `DependenciesComplete` | symbols are saved before they go, whatever fails; an all-good batch has stripped all; a failed tool loses no dependency |
| `elf_links` | 2 hard links and one other file, fair; 285 k | `ExclusiveUnlessStale` `Termination` | the lock excludes unless a stale unlock gave it away; inherited descriptors never block the batch for ever |
| `elf_hardlink` | same | `SuccessMeansCopied` | **violated**, finding 1 |
| `build_rerun` | 2 runs, 2 forward and 1 reverse patch, one file in `/etc` and one library, 2 subtargets, QA on or off per run; 498 k | `TypeOK` `TreeMatchesPatches` `OnlySubtargetsAreStale` `QaGate` `NoBuildOverErrors` `ArchiveComplete` `ConffilesOfOwnRun` | the template never sees a half patched tree; what is published is whole, with libraries of every subtarget and its symbols, new but for what subtargets left, free of QA errors, and lists its own configuration files |
| `build_revert` | 2 runs, 1 reverse patch only | `TreeMatchesPatches` | **violated**, finding 2 |
| `build_stale` | 2 runs, 1 subtarget | `PackageIsFresh` | **violated**, finding 3 |
| `templates_sound` | all 17 templates, with and without `ABSHADOW`, 1 subtarget, 2 runs; 79 k | `TypeOK` `NoSilentFailure` `NoSpuriousDeath` `RunsWhereConfigured` `OwnObjects` | 13 templates notice every vital failure, 14 can always be run again, none compiles where another target was configured, shadow builds share no objects |
| `defines` | 3 architectures with two, one and no group, 7 variables, packages with 1 or 2 defines files, 12 situations; 126 k | `TypeOK` `SpecificWins` `FinalPaths` `AppendedOnce` `HostAgrees` `SymbolsOffInStage2` | the most specific variable has the last word over the architecture file; arrays are appended to once; compiler, paths and flags are the final host's |
| `arrays` | 2 arrays, 4 cells, 2 words, 2 files; 318 k | `TypeOK` `NoDangling` `CountExact` `TrapIsSet` `ConcatEnds` `ImplementsLists` | in the orders the scripts use, no link leads to freed memory, counts are exact, a trap stays where it was laid, and arrays are lists of words |
| `lambdas` | 2 functions, 2 environments, an array and an integer to capture, 2 words, calls 2 deep; 814 k | `TypeOK` `OneOwner` `FirstCallWorks` `ImplementsClosures` | no two functions own one environment, a first call finds all it captured, lambdas are closures by value that work once |
| `control` | a dependency in one or two of four fields, every string of one or two operators, 2 packages, 2 versions, all switches; 469 k | `RelationsMeant` `DependsHold` | relations reach apt and the control file as they were written; required ones have a version, which holds of what the package was built with |

What the pool promises about its verdict and its return is stated once, in `TaskBatch`, and follows from
`ImplementsBatch`; `ReturnIsComplete` and `VerdictIsExact` are proved separately.

Bounds, and why they are enough to see what can go wrong:
- *Three workers, three tasks*: one worker in a critical section, one asleep and one holding a task at the
  same time, with a task in the deque; two failures and a success. `notify_all` treats all sleepers alike.
- *Two workers in `ElfStrip`*: locks, descriptors and children interfere in pairs. Three paths let a worker
  take a second file while the other is still at its first, which is what reusing a descriptor needs; two
  descriptors are enough for two workers and make `open` fail once `fstat` has leaked one.
- *Two runs of the pipeline*: what one run leaves and the next one finds. A third run finds on disk nothing
  that a second could not (`MaxRuns` is a bound on the numbers given to runs, and a death is possible at
  every stage). Two files are enough for a directory to be partly old and partly new; two forward patches
  for a tree to be half patched, with a reverse one behind them; two subtargets for one to be there and one not.
  The model values of each kind play the same part and are not named in any definition, so symmetry is sound.
- *One subtarget and two runs of the templates*: two targets meet in one directory within a run and across
  runs; a second subtarget is treated like the first. All templates and both values of `ABSHADOW` are there.
- *Two files in `Defines`*: there are two readings. Two groups are enough for an ambiguity; the variables are
  one of each kind (array, scalar of the architecture file, switched by stage 2, overruled at the end, not exported).
- *Two arrays, four cells*: source and destination of a concatenation; removal at the start, in the middle and at the
  end of a ring, and an array that grows twice. The two arrays are symmetric.
- *Two functions, two environments, depth 2*: a function made from another, from itself, defined anew under its old
  name, and called within a call; a lambda of a lambda restores two environments. A list of one name to capture is
  enough, because capturing again adds names one at a time, and a name that cannot be copied fails alike at any
  place. Functions, environments and words are symmetric.
- *One dependency in each field*: fields are written one by one, and only `PKGDEP` and `PKGPRDEP` together decide what is
  installed; two items meet there. Two versions tell the five relations apart.
- A file system is reduced to the names the properties tell apart; the values of `FileChoices` cover every
  branch of `elf_copy_debug_symbols`.

Fairness. `ThreadPool!Fairness`: each thread that can go on does (the scheduler is preemptive and a processor
call ends), and spurious wakeups are finitely many; the mutex need not be fair, because every thread takes it
a bounded number of times once spurious wakeups stop. `ElfStrip!FairSpec`: each worker and the client go on;
that includes that `objcopy` and `strip` end, and that a lock that stays free is granted. Nothing is assumed
of `OpenFails`, `FstatFails` or failing tools. The other modules have no fairness: a run may always die, and a script
need not go on, so nothing is promised to happen. `ConcatEnds` bounds a loop by a safety property instead.

## 4. Proofs

`tlapm <module>.tla` checks each module. The theorems hold for every value of the constants that satisfies
the named assumptions.

**`ThreadPoolProofs`** – assumptions: at least one worker (`WorkersAssumption`; with
`hardware_concurrency() == 0` nothing runs and the client reports success), and that names differ
(`NamesAssumption`). The invariants come in layers, each inductive only over the ones before:
1. `TypeInv == TypeOK /\ Holding /\ Exclusion`: whoever is in a critical section holds the mutex, and a worker
   past the wait finds a task or the stop flag. Without `Exclusion`, `Take` could meet an empty deque
   (undefined behaviour in `back()`), and `TypeOK` alone is not inductive.
2. `OnePlacePerTask`: deque, hands and `finished` are disjoint and together are what was submitted.
   `AppendElements` and `PopElements` say what `emplace_back`, `back` and `pop_back` do to the set.
3. `ClientInv == StopInv /\ FlagInv /\ VerdictExact /\ NoFalseAlarm`: the flag is up iff a failed task has
   ended, and the join is over only when all workers left. `ReturnIsComplete` follows, because a worker only
   leaves an empty, stopped pool; it needs a worker to exist.
4. `WakeInv`: no worker sleeps while there is a task or the stop flag is up (`NoWakeupIsLost`), because the predicate is
   tested and the sleep begun under one lock, under which every task is added and the flag is set; and nobody holds the
   mutex outside a critical section. With `StopInv`, `NeverAllWaiting` follows: until the client is done, some thread
   can go on without a spurious wakeup. It is the safety half of `Termination`.
5. `PoolImplementsBatch`: from `PoolInv`, each step is a step of `TaskBatch` or a stutter: `Enqueue` is
   `Submit`, `Take` is `Start`, `SetHasError` is `Fail`, `Stop` is `Close`, the end of the client `Return`.

**`ElfStripProofs`** – assumption: `PathsAssumption`.
1. `LockInv`: a worker has a running path of its own, its descriptor refers to that path until it is closed,
   and, before any stale unlock, a worker inside holds its inode's lock. `OwnDescriptor` is what makes it
   inductive: `Close` and `Reap` of another worker can then not drop the last copy of an open file in use.
   `DescriptorsAreDistinct` and `LockExcludes` follow for any hard links.
2. `SymbolsAreSafe` assumes `NoAliases`: no two paths share an inode or a symbol file. `SymbolInv` follows a
   path from "strip has not reached it" through "objcopy sees its symbols" to "saved before stripped"; it
   needs neither locks nor descriptors, only that a running path is one worker's. With hard links the
   statement is false (finding 1), and with two files of one name and no build-id it is too.
3. `TypeCorrect`, and from it and `LockInv` the invariant `DoneInv`: a worker past the scan has noted its file's
   dependencies, one that will return 0 has stripped it, and neither is undone by others. `SuccessMeansStripped` and
   `DependenciesAreComplete` follow, for any hard links.
4. `CopiedWithoutAliases`: what finding 1 refutes holds when `NoAliases` does: status 0 means that the symbols of every
   file were copied. It combines `SymbolsAreSafe`, `SuccessMeansStripped` and the types.
5. `OnlyUnlockTakesLocks`, an action property: a worker inside that has its lock keeps it in every step but an unlock of
   another worker, so only a stale unlock ever takes one away.
6. `HoldInv`, for any hard links and leaked descriptors: a lock is held through a descriptor of the process or through a
   copy in a child that still runs (`LockOfOpenFile`, `CopiesInChildren`); while the process has the locked file open,
   its worker is between lock and unlock (`HolderAtWork`: a descriptor that `fstat` leaked keeps no lock, because its
   worker unlocks it by number and, never closed, that number is nobody else's). It rests on each file being opened once and only by a
   task that was started (`OpenedOnce`, `FilesBegun`). `LocksComeBack` follows, and, with at least one worker,
   `NeverAllWaiting`.

**`PackageBuildProofs`** – assumption: `BuildAssumption`.
1. `TypeCorrect`, with `DirInv`: `PKGDIR` names a subtarget's directory only while subtargets are built.
2. `QaErrorsStopPackages`, `OldErrorsStopRuns` from `GateInv`: a run that reports an error dies in that very
   step, its number is not used again, and nothing is packed before the last check.
3. `PatchesExactlyOnce` assumes `ForwardFirst` (some forward patch, or no reverse one). `PatchInv`: while
   `.patch` is missing, either no reverse patch was touched or all forward ones are in, and then `patch -N`
   kills the run. Without a forward patch it fails (finding 2).
4. `OnlyThisRunsFiles` for any subtargets. `FreshInv`: past `11-cleanup.sh`, `abdist` (but for the subtargets' libraries),
   `abdist-dbg` and `abscripts` hold this run's files only. Of the subtargets it is false (finding 3); without any,
   `FreshWithoutSubtargets` says that no file of a package is old.
5. `OnlyWholePackages` from `ArchiveInv`: stage by stage, the subtargets that are in `abdist` already, the symbols put
   aside and the packages made are this run's, and nothing is archived that is not installed. `BuildAssumption` keeps
   the names of files and of subtargets' libraries apart.
6. `ListsMatchFiles` from `ConfInv`: until `61-conffiles.sh` the list is not this run's; after it a list of this run is
   what `abdist` has in `/etc`, and nothing drops such a file between list and package.

**`TemplateBuildProofs`** – assumption: `TemplateAssumption`.
1. The tables: a command is *heeded* if it is not vital or has its `abdie`. `StrictTables` goes through the
   thirteen templates whose commands are all heeded, `LooseTables` through the other four; `RecipeType` and
   `CommandsType` carry this to what the shell executes, in any phase.
2. `TypeCorrect`: the place in a phase is always one of its commands or its end.
3. `FailuresAreSeen` from `HeedInv`: a run that has an outcome is over, and a run in which a vital command
   failed has died in that very step. The four templates `Unguarded` names are excepted (section 5).
4. `Forms` writes down what the phases of the nine configuring templates look like, with and without `ABSHADOW`, and
   `StepForms` that a step is a command that leaves the run going, the end of a phase, the start of a target, or one
   after which nothing runs. Every invariant below is carried over these four.
5. `WorksWhereConfigured` from `WhereInv`: from the last `cd` on, the shell is in the build directory until `install` is
   over, and that directory was configured for the current target. `TargetsHaveOwnObjects` from it and `ObjectInv`:
   `BLDDIR` is the target's own, so only objects of that target get there.
6. `OnlyFaultsKill` from `DeathInv`: unless something has failed, a phase ends with status 0, `PKGDIR` is there when the
   phase that makes it is over (`PackInv`), and the build directory is there when it is entered (`MadeInv`); so a
   command that runs finds what it needs (`CommandsWork`). `BlandTables` goes through the templates that do not configure.

**`DefinesProofs`** – assumption: `DefinesAssumption`. For every tree of defines files, every set of groups and every search
order. What a file does is an induction over its lines, done with `UpTo`: a property that holds before the first line and
survives each line holds after the last, because there is no least line that breaks it.
1. `OneHost` from `HostInv`: the first reading is searched for under `ABHOST = ARCH`, and afterwards `HostSettled`
   holds, that is, `ABHOST` is the package's own host, or the file found assigns none. The second search then
   either cannot change it or finds the same file (`FoundAgain`), because nothing else it depends on has changed.
   That is why the compiler and the architecture file chosen between the readings are the right ones.
2. `TypeCorrect` from `TypeInv`, which counts the files read: one between the readings, two after them.
3. `DataInv`, up to the second reading: `NAME__X` has a value if and only if a file that was read gives it one, and has the
   type its lines give it; every mark is of the library, the architecture file or a file that was read; a reference leads
   to a scalar under a name that the search tries. It is what
   lets a later step argue from the text of the files instead of from the state of the shell.
4. `SpecificVariablesWin` from `WinsInv`, which starts at the second reading. Before it, `FlagsInv`: the arrays of
   `default-flags.sh` are as that file has just assigned them. After it, `Special` and `Best` are the names that the
   files mention, and the copy or the reference that `LoadedVar` makes is of `Best`.
5. `NoSymbolsInStage2` from `SymbolsInv`: what is on under any suffix was switched on by a file of the package.
6. `PathsAreFinal` and `ArraysAppendedOnce` from `ArrayInvs`: after the first reading an array under a suffix holds each
   line of the first file at most once (`ArraysInv`), and what that file left in `NAME` without saying `NAME` is a copy,
   which the second reading makes again (`CopiesInv`); a line is then in the result twice only if it appends to
   `NAME__X`, which nothing resets (section 5).

**`BashArrayProofs`** – assumptions: `ArrayAssumption`, and `OwnScripts`: without it all but the types is false (section 5).
1. `RingsHold` is the invariant `IInv`: links stay among the nodes of one array (`Forward`); in an array that nothing was
   pushed to, `next` and `prev` mirror each other (`Mirrored`) and cells can be numbered along `next` (`Numbered`), so that no
   cells form a ring of their own and what `Unlink` frees is out of the ring; a trap hangs on `lastref` and nowhere
   else (`Traps`). `FreedIsForgotten` and `TrapsStaySet` follow. The links alone are not inductive.
2. `ListsHold` is the invariant `ListInv`: for every array there is a sequence of distinct cells that `next` goes through
   from head to head, as long as the count says (`Rings`), and a call that runs has done exactly the words its cursor
   has passed (`CallAt`): `ab_concatarray` has appended the first `k` words of the source, `ab_remove_args` has kept what
   it should of the first `k` and left the rest. The sequence is a witness, so that no proof has to unfold what `List` computes but `ListIs`,
   which goes along the ring with `UpTo`.
3. `CountIsExact`, `ConcatStops` and the refinement `ArraysAreLists` follow: a call is a step of `ShellLists` when it
   ends, and a stutter before.

**`ControlProofs`** – assumption: `ControlAssumption`.
`ParsedIs` computes the automaton on a word of at most five characters, one after the other, which is as long as a relation
with one of the five meanings gets: two operators, a version, two more that `dpkgfield` adds. `RelationsSurvive` follows for each field as it is written.
`DependenciesHold` needs `IInv`: what apt was asked for is the relations that were written, and it is installed
(`Installs`); `VER_NONE` is the same from then on until the optional fields (`SwitchKept`); a library that was noted has
an installed owner (`Owners`); and a field, once written, holds (`FieldHolds`) because nothing is installed after it.

**`LambdasProofs`** – assumption: `LambdaAssumption`.
`OwnersDistinct` and `FirstCallsWork` are inductive with `Drawn`: an environment that a function restores has been drawn,
and a draw is new. `LambdasAreClosures` is the refinement: a capture takes the newest value of each name in either
reading of the scopes (`LookupIsLast`), and a call empties the environments of one function only, because of
`OneOwner`. That the innermost scope exists (`Greatest`) needs the least element of a set of naturals, from the
well-foundedness of `<` (`Least`).

Every invariant, action property and refinement that a passing run checks is stated by a theorem. Model-checked only are
the two `Termination` properties, of `ThreadPool` and of `ElfStrip`: fairness and `ENABLED` are beyond the prover. What
is proved of them is `NeverAllWaiting`, that the system is never stuck; that it also gets there is TLC's.

Recursive definitions (`After`, `List`, `Kept`, `Parsed`) are functions, whose definition the prover can use one value at a
time. The library's induction theorems take an operator as a parameter, which none of the installed provers can
instantiate; inductions over lines, cells and words are therefore arguments about a least counterexample, from the
well-foundedness of `<` (`UpTo`, `Least`).

## 5. Findings

1. `abnativeelf.cpp:779`: two hard links with debug symbols are two tasks of one inode. The second finds a
   short section name and saves again, from the stripped file, over the good symbol file; the status is 0,
   against "Copy debug symbols for all files specified" and "0 - success" (`abnativefunctions.cpp:847`, `:851`).
2. `proc/40-patch.sh:25`: reverse patches run without `-N`. If a run dies between the revert and `touch
   .patch`, and there is no forward patch to stop the next one, that one *applies* the patch and builds.
3. `proc/51-build-hwcaps.sh:132`: `abdist-hwcaps-<cap>` is not removed by `proc/11-cleanup.sh:8`; libraries of
   an earlier run are installed into the new package, against "We always want our butt free of old build output"
   (`proc/11-cleanup.sh:2`).

Each is a run that TLC refutes, and each has a theorem that says when the promise holds all the same:
`CopiedWithoutAliases` (no two paths share an inode or a symbol file), `PatchesExactlyOnce` (there is a forward patch, or
no reverse one), `FreshWithoutSubtargets`. What follows is in the models as the code has it, and the properties of the
passing runs name it as an exception.

`ab_reverse_patches` adds `-F0` to `PATCHFLAGS` and then uses `RPATCHFLAGS` (`lib/builtin.sh:24`), so that fuzz is accepted in
reverse patches although `ABPATCHLAX=no # Disallow fuzzy patching` (`lib/default-defines.sh:20`). `TreeMatchesPatches`
asks where a patch is, not how well it fitted.

The properties of `TemplateBuild` leave out `pep517`, whose installer has no `abdie` and is followed by `BUILD_FINAL`, so that
its status is lost (`15-pep517.sh:58`), and `dune`, `ruby` and `rust`, which have vital commands without `abdie` too (`15-dune.sh:58`, `:62`, `20-ruby.sh:16`, `15-rust.sh:104`, `:118`);
`meson` and `npm` die where an earlier run, or without `ABSHADOW` the target before, left a directory or a link
(`12-meson.sh:11`, `25-npm.sh:31`), and `dune` at its first subtarget, when the captures of its check are used up; and without `ABSHADOW` a subtarget may be linked from the objects of the last
one, since only three names are removed (`51-build-hwcaps.sh:62`).

Those of `Defines` leave out, for the same reason:
- a file that sets `NAME` after `NAME__AMD64`: at the second reading `NAME` refers to the specific variable, so the
  plain value wins (`bashinterface.cpp:171`); `SpecificWins` asks for the other order;
- `ABMODIFIERS=+stage2`, which comes after the stage 2 block of `default-defines.sh:117`, so debug symbols are
  split in stage 2 all the same;
- `+=` on a variable that `default-flags.sh` does not reset, and `+=` on `NAME__AMD64` itself, which nothing resets
  (`AppendsPlainly`): it is done twice.

Those of `BashArray` speak of the program's own scripts. With `OwnScripts = FALSE`, that is for any script that uses the
builtins, `NoDangling`, `CountExact`, `ConcatEnds` and `ImplementsLists` are all false:
- a push leaves `head->prev` where it was, so a later `+=` of the shell cuts off what was pushed (`:186`);
- the first element pushed on an empty array has no `prev`, which `ab_remove_args` follows (`:194`, `:306`);
- an array that is concatenated to itself never ends (`:702`);
- `abmm_array_mine_remove` frees whatever `lastref` points to, an element when the array was read or appended to since;
  and after it `lastref` is the head (`:1194`).

Those of `Lambdas` speak of first calls: a second call finds nothing, gets an error, and ends a strict shell. A capture
that fails leaves `__abfp_lambda_tmp_var__` behind as a string, and no array can be captured first until a string has been
(`:1110`).

Those of `Control` leave out:
- relations with a single `<`, `>` or `=`: the automaton drops the version, or ends the relation with the `>=` that
  `dpkgfield` adds, and the version is empty;
- `<<` and `>>` in the optional fields, which are written as they stand;
- `VER_NONE=yes`, which `ab_bool` takes for true and `(( ))` for 0; `VER_NONE_ALL`, which writes the name of the field in place
  of the package's; libraries that no package owns, which become ` (>= )`; `name_`, which apt does not know.

Also in the model, without a property of its own: an ambiguous group variable is reported with "Refuse to proceed"
(`abnativefunctions.cpp:495`), but the first group is taken and the run goes on; a pattern in `ALLOW_ARCH` is
expanded as file names inside `[ ]`, which makes the test ill-formed, so the build is not refused
(`01-core-defines.sh:91`); and `autobuild -a` changes nothing, because `ARCH` is set when the plugin is loaded
(`abnativefunctions.cpp:425`).

## 6. Not modelled

- In `ElfStrip`: `eu-strip` (option `-e`, which the filter does not pass); an `execvp` that fails in the child,
  which leaves a second copy of the worker running (`abnativeelf.cpp:539`); the ELF, AR and LLVM parsers; the
  sonames (they follow the dependencies); the directory iterator seeing temporary files of `strip`.
- In `PackageBuild`: a custom `autobuild/patch` or HWCAPS build script; what is in the build directories;
  arch-specific conffiles; `ABCLEAN=no`, which only ends the build; the individual QA tests; Spiral; the exit
  status of the shell.
- In `TemplateBuild`: the probes of the templates, compiler flags, the checks that are never called, and a custom HWCAPS
  build script. A missing program is a warning only, so a check that does not run changes no state.
- In `BashArray`: the indices of elements (bash's `+=` takes the largest one, the plugin the count), and `abcopyvar`.
- In `Lambdas`: a restore that a script calls by hand, variables that are declared and have no value.
- In `Control`: spiral provides (`pm/dpkg.sh:76`, where `_s_arch` is carried from one to the next), the modifier of `PKGBREAK`,
  `dpkgctrl_dbg`, the fields that are copied, and the version of a package itself.
- Compiler flags, architecture files and exported names are data; the JSON parser and the ULEB128 decoder are functions of
  one text without state. Two mistakes in them are listed as hazards: integers of 2^31 and more are truncated
  (`abserialize.cpp:57`), and the continuation bit is read from the next byte (`abnativeelf.cpp:154`).
- The exit status of the shell: that `exit 0` in a script ends the build with success and no package
  (`abnativefunctions.cpp:360`) is one of the deaths of `PackageBuild`, whose status is not kept.
- In `Defines`: `00-python-defines.sh`, `AB_SKIP_MAINTSCRIPTS`, and a package that gives one variable two types (an
  array assigned through a reference is freed before it is copied, `bashinterface.cpp:160`).
- The interpreter itself when `abpp_parallelize` runs builtins on several threads: only functions marked with
  `abpp_gil` take a lock, and no script of the repository calls it.
- The components marked "not modelled" in the inventory, for the reasons given there.

## 7. Plan

Done: `TaskBatch`, `ThreadPool`, `ElfStrip`, `PackageBuild`, `TemplateBuild`, `Defines`, `ShellLists`, `BashArray`, `Closures`, `Lambdas`,
`Control`, and the proofs listed above. What would come next, in this order:

1. **`ForkClone`** (`abnativeelf.cpp:535-544`): a child whose `execvp` fails goes on as a worker with memory of its own and
   descriptors shared with its parent; it needs a second process in `ElfStrip`.
2. **`TemplateBuild` as `PackageBuild`'s `Build`**: the refinement from commands of a template to the files it installs,
   with the order of the probes (`30-build-probe.sh`) in front.
3. **Indices in `BashArray`**: `max_index` against `num_elements`, for scripts that use both `+=` and `${a[i]}` after a removal.
4. **Spiral provides in `Control`**, with `_s_arch` carried over.
5. **Parsers**, against a reference definition: JSON numbers with their width, ULEB128.

What is left to prove goes with these: the refinement of `PackageBuild` by `TemplateBuild` (2), and the rings with their
indices (3).
