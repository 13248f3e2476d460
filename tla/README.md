# Verification of cheribuild

cheribuild builds CHERI software: it works out which targets are needed, brings
their sources up to date, configures, compiles and installs them, boots CheriBSD
in QEMU and runs test suites in it. This directory holds TLA+ models of the parts
of it that have state worth reasoning about, the TLC configurations that check
them, and TLAPS proofs. Paths are relative to `src/`.

    tlc -workers 2 -config ProjectBuild.cfg MCProjectBuild   # any run of PROJECT.json
    tlapm ProjectBuildProofs.tla                             # any module of proofs

## 1. Inventory

| Component | Source | State | Operations | What is hard |
|---|---|---|---|---|
| Dependency resolution | `pycheribuild/projects/simple_project.py` 579-781 | `_cached_deps`, `_cached_filtered_deps`, `_cached_full_deps` | `_direct_dependencies`, `_recursive_dependencies_impl`, `recursive_dependencies` | filters that apply at different depths, cycles, two caches with different options |
| Target manager | `pycheribuild/targets.py` | registered targets; per target `_completed`, `_tests_have_run`, `_benchmarks_have_run`, the project | `get_all_targets`, `sort_in_dependency_order`, `execute`, `run_tests`, `reset` | a comparison that is not transitive, counters and a heap kept in step |
| Main program | `pycheribuild/__main__.py` 161-377 | none of its own | for all targets check the host, then execute, test, benchmark | the phases are over all targets, not per target |
| Build steps | `pycheribuild/projects/project.py` 1606-1809 | build directory, `.cheribuild_last_clean_counter`, `.cheribuild_last_build_kind`, `_force_clean` | `process`, `clean`, `configure`, `compile`, `install` | state on disk that outlives failed and killed runs, sources that move back and forth, one directory for several kinds |
| File system utilities | `pycheribuild/filesystemutils.py`, `utils.py` | `<build dir>.delete-me-pls`, threads that delete | `async_clean_directory`, `write_file`, `ThreadJoiner` | deletion in the background of the next build |
| Repositories | `pycheribuild/projects/repository.py` | a git clone: branch, upstream, stash, remotes, submodules | `ensure_cloned`, `update`, `_handle_branch_switch`, `_handle_old_urls` | several commands without a transaction, user changes in a stash, retries |
| Sharded test runner | `test-scripts/run_libcxx_tests.py`, `run_remote_lit_test.py` | stages, two queues, a barrier, lists of processes | `run_parallel_impl`, `run_shard`, `notify_main_process`, `wait_or_terminate_all_shards` | N+1 processes, messages against process deaths, three kinds of timeout |
| Boot and login | `pycheribuild/boot_cheribsd/__init__.py` | a pexpect session: what was printed, what was sent | `boot_and_login`, `run_cheribsd_command`, `checked_run`, `_do_test_setup` | alternatives in what is printed, panics, timeouts, ports chosen early |
| Test script | `test-scripts/run_cheribsd_tests.py`, `boot_cheribsd/__init__.py` 1190-1500 | what is mounted, whether tests passed, where results are | `_do_test_setup`, `mount_via_smb`, `cheribsdtest`, `_main` | answers of commands that were given up, mounts that fail one by one |
| Process running | `pycheribuild/processutils.py`, `run_with_logfile` in `simple_project.py` 1452-1606 | child processes, a reader thread, signal handlers | `run_command`, `run_and_kill_children_on_exit`, `set_env` | pipes that fill, a thread that dies, signals while cleaning up |
| CMake and Meson types | `projects/cmake_project.py`, `meson_project.py` | options | `configure`, `needs_configure` | nothing beyond the build steps |
| Configuration | `config/*.py` | parsed options | lookups with inheritance | data, no protocol |
| Compilation targets | `config/compilation_targets.py`, `target_info.py` | tables | flags | data |
| Disk images, mtree | `projects/disk_image.py`, `mtree.py` | the manifest, the extra-files directory with the host keys, the image and the files it is made from | `process`, `prepare_rootfs`, `generate_ssh_host_keys`, `add_unlisted_files_to_metalog`, `make_disk_image` | several sources for one path, keys that outlive killed runs, a chain of commands with clean-ups |
| Jenkins front end | `jenkins.py`, `jenkins_utils.py` | none of its own | `build_target` | the same calls as `__main__` in another order |
| QEMU, FVP, SSH | `projects/run_qemu.py`, `run_fvp.py`, `qemu_utils.py`, `ssh_utils.py` | none that is kept | build a command line, run it | outside a model's reach: they are what they call |
| Recipes | `projects/**` | class attributes | overrides of the above | about two hundred, data |
| Other scripts, vendored code | `test-scripts/run_*.py`, `vcu118-run.py`, `remote-cheribuild.py`, `3rdparty/` | | | sequential, interactive or third-party |

How they meet: `__main__` asks the target manager for the sorted targets, which
come from dependency resolution; executing a target calls `process()` of its
project, which calls its repository, then cleans, with a thread of the file
system utilities, and then builds through process running. Test targets start the
test scripts, which boot CheriBSD and may be the sharded runner. The components
share little memory; what they share is on disk (build directories, clones) or in
queues (the shards).

What makes each correct:

- the plan: every chosen target once, after what it depends on, in an order that
  depends on the selection alone; a cycle reported exactly if there is one;
- the build steps: nothing that a source or a configuration has outgrown is
  installed, whatever runs failed or were killed before;
- background deletion: none that cheribuild still knows of is at work where a later step puts files;
- the sharded runner: all shards work in step, none is forgotten while it works,
  success means that all booted, and the main process comes to an end;
- repositories: an update leaves the user's stash and upstreams alone, and an accepted switch takes effect;
- boot and tests: a panic or a failed command is never taken for success, and the
  results of a job that passed are where they are looked for;
- the life of a target: checked, set up and run once, in this order, though
  projects create and build each other in the middle of it;
- running a command: it ends, with all of its output in the log;
- disk images: what the user provides is in them, the host keys stay, and nothing
  half-made is taken for an image.

The hazards behind these, with their lines, are listed in `PROJECT.json`.

## 2. Modules

| Module | Models | Extends |
|---|---|---|
| `TargetDeps` | operators: direct dependencies, recursive closure, cycles | |
| `TargetOrder` | `get_all_targets()` and `sort_in_dependency_order()`, one turn of the loop per step | `TargetDeps` |
| `TopoOrder` | abstract: the order that a selection determines | |
| `TargetOrderProofs` | proofs about `TargetOrder` | `TargetOrder`, `TLAPS` |
| `LitShards` | the sharded test runner | |
| `LitShardsProofs` | proofs about `LitShards` | `LitShards`, `TLAPS` |
| `ProjectBuild` | `process()` and the cleaning in the background | |
| `ProjectBuildProofs` | proofs about `ProjectBuild` | `ProjectBuild`, `TLAPS` |
| `GitUpdate` | repeated updates of a git clone | |
| `GitUpdateProofs` | proofs about `GitUpdate` | `GitUpdate`, `TLAPS` |
| `BootCheriBSD` | `boot_and_login()` against a guest that prints | |
| `TestSession` | a whole test job: boot, mounts, tests, results, exit code | `BootCheriBSD` |
| `TestSessionProofs` | proofs about both | `TestSession`, `TLAPS` |
| `TargetRun` | creating, checking, setting up and running the targets of one run | |
| `TargetRunProofs` | proofs about `TargetRun` | `TargetRun`, `TLAPS` |
| `ProcessRun` | `run_with_logfile()`: a command, two pipes, two threads, a log | |
| `ProcessRunProofs` | proofs about `ProcessRun` | `ProcessRun`, `TLAPS` |
| `DiskImage` | the disk image that is made again and again | |
| `DiskImageProofs` | proofs about `DiskImage` | `DiskImage`, `TLAPS` |
| `MCTargetOrder`, `MCProjectBuild`, `MCTestSession`, `MCTargetRun`, `MCDiskImage` | the instances TLC checks | |

### TargetDeps, TargetOrder, TopoOrder

`declared` is the `dependencies` tuple of every class; `config` the options that
are read. `ChooseTargets` is the first half of `get_all_targets()` and the
preparation of Kahn's algorithm, `Pop` a turn of its loop, `FinishSort` the check
for a cycle and the assertion on `sorted()`, `FilterTargets` `--start-with` and
`--start-after`. The heap is a set of which `Pop` takes the member with the smallest
key; `Rank` stands for `name_sort_order()`, which is unique because names are.
`__lt__` is `ShouldRunBefore`; that a stable sort leaves a list alone is
`UnchangedBySorting`, which compares neighbours, so that it does not need
transitivity. Aliases and architectures are resolved before the model begins.
`direct_dependencies_only` classes, the toolchain and SDK filters, the two sets of
options for the filtered and the full dependencies, and skip filters are kept.

`TopoOrder` places targets one by one, each when all it needs of the selection is
placed, smallest key first. `ImplementsTopoOrder` says that the counters, the heap
and the list are an implementation of that; as the abstract step is deterministic,
the result is a function of the selection, and not of the order of arguments.

### LitShards

`stage` and `at` are the shard processes, `mpQueue`, `portQueue` and `barrier` what
they share with the main process, whose `pc` walks through `run_parallel_impl()`:
the loop that reads ports, the head of the while loop with its two limits, the read
from `mp_q` with one action per kind of message and one for `Empty`, the wait for
the barrier, and `wait_or_terminate_all_shards()`. A shard announces its port,
boots, tests the connection and runs lit; it may fail with an exception (one
FAILURE, or two when the exception passes both handlers), end without a message
(`SystemExit`), or stop making progress. `mp_q` keeps the order of one sender only:
it is a sequence per shard, and reading takes any head. `clock` passes the boot
limit and then the test limit, each at any moment. The release of the barrier is one
step; killing a shard is one step.

### ProjectBuild

One build directory, and runs that use it one after the other. On disk: `objects`
(what was compiled, with its kind and the counter of the source it came from),
`configured`, the two marker files, each absent, empty (`Garbage`, opened and not
yet written), or written, and `trash` (what is called `.delete-me-pls`, which should be a directory). `required`
is what `.require_clean_build` of the source says, and any `Update` may move it up
or down or remove the file (0). `project` is the class: built in the source
directory by several kinds of target, or in a directory of its own. `CheckKind` and
`CheckCounter` decide about cleaning; `Clean`, `MoveOne` and `Cleaned` are
`async_clean_directory()`, or `git clean` one file at a time, which leaves dotfiles;
`Enter`, `Delete` and `Join` are the deleter thread, which waits for a child `rm -rf`;
`orphan` says that such a child has outlived its cheribuild, and `OrphanDeletes` is what
it may do during any later run; then the marker files,
`Configure`, `Compile` and `Install`. `Fail` is an exception in any step that runs a
command, `Crash` the end of the process at any point. What `configure()` and
`compile()` do is external: they make files, and may have made some when they fail.

### GitUpdate

`update()` of one `GitRepository`, again and again, on a clone in which the user has
renamed remotes, made branches and stashed edits. `remotes` maps the remotes of the
clone to their URLs, `branches` its branches to their upstreams; `stash` records
only who made each entry. One git command that changes the clone is one
step, so that a failure or a kill (`Fail`) may fall between any two; `git fetch` changes
nothing that is modelled, and is part of the step after it. `HandleOldUrls`, `RenameOrigin` and `AddOrigin`
are `_handle_old_urls()`; `HandleBranchSwitch` and `FindRemote` are
`_handle_branch_switch()`; the checkout that both end with, the same code twice, is
`CheckoutDefault`. `CheckIfUpToDate`, `HandleLocalChanges`, `StashChanges`, `Pull`,
`UpdateSubmodules` and `Pop` are the rest. A "no" of the user is a disjunct of the
action that asks. `accepted` remembers the answers; it is read by properties only.
There are two URLs: whether the one that is not `url` is in `old_urls` is part of
the object. Commits are abstracted to whether the upstream has new ones. `update()`
starts with `ensure_cloned()`, which returns at once for a clone that exists; cloning,
worktrees for per-target branches and explicit revisions are left out.

### BootCheriBSD, TestSession

The guest (`GuestBoots`, `KernelPanic`, `QemuDies`) and the script take turns in any
order: the guest appends messages to `console` and reads lines from `typed`, the
script's `Consume` is one `expect()`, which takes the first message that is one of
its patterns and drops what was before it. `Patterns` lists, for every `expect()` of
`boot_and_login()`, the patterns and exceptions its caller names; `Detects` is the
comparison of the index in `_expect_and_handle_panic_impl()`, with the index as the
code computes it. One action per `expect()` or group of equal ones (`AwaitLoader`,
`AwaitKernel`, `AwaitLogin`, `AwaitShell`, `AwaitDhclient`, ...). What is printed is
an external program's choice, within what a CheriBSD boot can show.

`TestSession` goes on from the prompt. `pc` is the command that the script is at and
`wait` what it waits for: to send it, for the answer, for the prompt, or for the prompt of a
command that failed (`ReadCommand` is `run_cheribsd_command()` and
`checked_run_cheribsd_command()`). The shell of the guest (`ShellStarts`,
`ShellEnds`, `ShellBuiltin`) executes what was typed when it comes to it, so that
the answer of a command that timed out is there when the next one waits. `MountStep`
is `_do_test_setup()` with p9fs, the check for issue 2617, unmounting, and `mount_via_smb()` with its retries;
`TestStep` the test function of `run_cheribsd_tests.py`, a loop over the binaries (`test`
counts, `TestReturns` is its body after one of them, `NextTest` goes on whether it has failed or not), and `Interrupt` its Ctrl+C
after a timeout, to which the shell answers with one prompt or two, that nobody reads before the next command is
sent; `FinishStep` the exit code, the copy of the results and the
power-off in `_main()`. Two variables are history: `gaveUp`, a command timed out while
mounting; `reported`, the tests that were reported as passed. The guest keeps
`passed`, and `delivered` the tests whose results were copied. `SetUp` forgets what
`boot_and_login()` had in its local variables, and the kernel, the network and the
configuration, which nothing after it asks for.

### TargetRun

`calls` is the stack of the one thread, continued downwards by the loops of
`real_main()` (`MainCalls`) or of the Jenkins front end (`JenkinsCalls`, over the targets
that are named, in that order): `check`, `get`,
one operation for each of BUILD, TEST and BENCHMARK, and `target`, which is `build_target()`. The flags are those of `SimpleProject` and
`Target`. `CheckSystemDeps`, `GetOrCreateProject`, `Setup`, `SetupLate` and `DoRun`
are the methods of `Target`; a method of a project class is a hook that is entered,
left by `HookReturns` or `HookFails`, and in between makes the calls that come back: `GetInstance` for those that
`Asks` lists and `DependencyError` (with the build of what is missing, if it is
allowed) for those that `Tools` lists, both for each hook. dependency_error() may be that of
the missing project itself, as in `qt5.py:107`, where that project has finished its set-up but
the one that asks has not: so a build may begin in the middle of a `setup()` (`MayOffer`).

`RunAssumption` asks for an order among stages, not targets: nothing that is
needed to prepare (check and set up) or to build a target leads back to the same stage of the same
target. CheriBSD and drm-kmod ask for each other and satisfy this, as the one asks in `compile()` and
the other in `setup()`. One loop is outside of it and is in the model: a `setup()` may ask for its
own project, as that of drm-kmod does through a method of CheriBSD. It is the flag `_setup_called`,
set by `super().setup()`, that ends this recursion, which the mutant of SetupIsWhole shows.

### ProcessRun

The command decides to write to one of two pipes, blocks while it is full, and ends;
the main thread is the loop over `proc.stdout`, the second thread `_handle_stderr()`;
each handles a line under `logfile_lock` in the steps between which the other can run
or Ctrl+C can fall (`MainRaises`). A write of either thread may fail: it is an exception
in the main thread, and the end of the other (`ReaderRaises`), whose pipe nobody reads
until `communicate()` in `MainWaits`. The lines of a stream are counted, the terminal is
the column of the cursor. `MainUnwinds` closes the log and is the exception handling
of `run_and_kill_children_on_exit()`, which kills the process group after some exceptions only.

### DiskImage

`process()` of full images and of the minimal one. `mtree` maps every path to where
its contents come from, so that the order of the steps and which of them replace
what is there is what is modelled: `Begin` reads METALOG, for a minimal image
cheribsdbox.mtree (`box`), and lists the extra files, `CreateFiles` is `create_file_for_image()`, then the host keys, `AddAuthorizedKeys`,
`AddEntropy`, `AddExtraFiles`, `AddUnlistedFiles` or `AddListedFiles`, and `AddGdb`.
`AddListedFiles` ends in an exception if a listed file is not in METALOG and would be
stripped; what is not listed but under `boot/` is `Optional`. `CommandStarts` does not
write the rootfs of a minimal image whose manifest lacks cheribsdbox.
`Outputs` are the files that makefs, mkimg and qemu-img write for one of the layouts
(RISC-V images have an EFI partition if the rootfs has the loader), one command at a time, and `Temporary` what the `finally` clauses delete. `extra`,
`key`, `rootfs` and `box` outlive a run; the user edits them between runs. `Fail` is an
exception, which passes the clean-ups, and `Crash` a kill, which does not.
`lastKey` and `oldPublic` (the user has removed a private key and left the public one)
are history.

## 3. What the runs show

| Run | Bounds | Shows |
|---|---|---|
| `target_order` | 3 targets, every acyclic or cyclic declaration among them but self-dependencies of two, 348 thousand states | TypeOK, DependenciesFirst, SortedAssertionHolds, NoSpuriousCycle, PlanIsComplete, ImplementsTopoOrder |
| `lit_shards` | 3 shards, 474 thousand states | TypeOK, InLockStep, MainKnowsTheStage, WatchedToTheEnd; MainTerminates, BootingIsLimited |
| `lit_shards_hung_test` | 2 shards | finding: TestingIsLimited is violated |
| `project_build` | 2 kinds, counters up to 3, any number of runs, 2.3 million states | TypeOK, NothingStale, NothingForeign, CounterIsTrue, OnlyOrphansDelete |
| `git_update` | 2 new names for remotes and branches, 2 stash entries, 4.6 million states | TypeOK, OwnStashIsPopped, SwitchIsEffective; BranchesKeepTheirUrl |
| `git_update_old_url` | the same | finding: CorrectUrlIsUsed is violated |
| `test_session` | 2 configurations, 2 shared directories, 2 trials of smbfs, 2 tests, 3.6 million states | TypeOK, BootedIsReady, FailureIsNoticed, PanicIsNoticed, PassIsEarned, ResultsAreKept |
| `boot_panic` | the same | finding: PanicIsFatal is violated |
| `target_run` | 7 targets, ordered selections of up to 3, Jenkins lists of up to 2, all actions, 586 thousand states | TypeOK, EachRunsOnce, ProcessAfterDependencies, StagesInOrder, SetupIsWhole |
| `process_run` | pipes of 2 lines, 4 lines to each, 76 thousand states | TypeOK, LogIsComplete, ErrorsStartALine; ProcessEnds |
| `disk_image` | 9 paths, full and minimal images, stripped or not, every layout, raw and qcow2, 3 host keys, any number of runs, 1.1 million states | TypeOK, ContentsAreWanted, HostKeysAreKept, OnlyTheImageIsLeft |
| `disk_image_extra_files` | as `disk_image` | finding: ExtraFilesAreAdded is violated |

Why the bounds suffice. Three targets are the fewest for which the comparison of
`__lt__` is not transitive (a before b by name, b before c by name, c before a by
dependency) and for which a dependency runs through a target that is not chosen;
the proofs cover any number. Three shards let two of them differ from a third at the
barrier and in the counting of NEXT_STAGE messages; The clock of `LitShards` has a value before, between and
after each of its two limits (`MaxClock`); the queue of a shard cannot hold more than
its stages and reports (`MaxMessages`, which TypeOK checks). Three counters are needed
for an unreadable counter to matter: one that was built, one between that is being
written when the run is killed, and a newer one. The bound is on the values, not on
the number of runs. In `GitUpdate` two names let a second rename or a second new
branch meet the names of the first, and two stash entries let one of the user lie under or on
top of one of an update; the number of updates is not bounded, one that needs a third name fails.

In `TestSession` one directory is read-only and one receives the results, so that a failure of
the first can spoil the second; two trials of smbfs are the fewest that have
a retry; two tests (`NumTests`) are the fewest in which the late answer or the exit code of one can be
read for the next, and a failure be forgotten; the two configurations differ in everything that `boot_and_login()` asks of
them. The console is not bounded: a guest prints a finite number of messages on
its way, and stops while the script does not answer. In `TargetRun` the seven targets
are the ones of the repository in which the kinds of calls back meet (`MCTargetRun` names
the code); selections of three (`MaxPlan`) are enough for a target that another has built before
main() comes to it, with one more that depends on either. How deep calls nest comes from
the classes, not from a bound. `ProcessRun` writes twice as many lines to
each pipe as it holds (`MaxLines`), so that the command blocks on either. `DiskImage` has one
path, or two, for each way into an image, a layout for each list of partitions, and
a name for a third host key, so that a new key can differ from both halves of an old one (`MaxKeys`).
The state constraint `FilesOrLayouts` of `MCDiskImage` keeps its contents and its outputs apart, as the
disk depends on the contents only through cheribsdbox and the loader: an image whose layout is one
file is made with every source of a file and, at most, its first key; the other layouts with no files but the loader and
those that the code itself names, and with keys that come and go. The proofs make no such division.

`CHECK_DEADLOCK FALSE` is set for `LitShards`, `TargetOrder`, `TestSession`,
`TargetRun` and `ProcessRun` because these programs end; runs of `ProjectBuild`, `GitUpdate` and `DiskImage`
follow each other for ever, and deadlock is checked.

Findings, each with a run:

- `run_libcxx_tests.py:360`: the test limit compares two constants, so that a shard
  whose tests hang is waited for without limit, against the comment at line 324.
- `repository.py:637`: without a default branch `_handle_old_urls()` adds the new
  remote and returns, so that the branch keeps tracking the old URL, against the
  question that the user has answered, and the next update asks again.
- `boot_cheribsd/__init__.py:299`: the first panic pattern has the index
  `len(options)`, and `i > len(options)` lets it pass: the line `panic: trap` is
  taken for an answer. `PanicIsNoticed` shows what saves most callers: a panic prints
  more than one pattern, and no script reads two of them unharmed.
- `disk_image.py:1025`: files under `usr/local/` and the like of the rootfs, and the
  copied gdb, replace a file of the user's that was added before, against line 372 and the README.

In the models, and named by the properties as exceptions:

- `filesystemutils.py:118`: the `rm -rf` of a cheribuild that was killed may remove the
  directory that the clean of the next run has just made, against the assertion
  `tempdir.is_dir()`: `pc = "made" => trash = "dir"` does not hold. If it
  does so after the assertion, the first file that is moved gets the name, and every later
  clean of this build directory fails in `mkdir()` until the user removes that file.
  OnlyOrphansDelete says that nothing else can, and NothingStale and NothingForeign that no
  build is wrong for it.
- `simple_project.py:1465`: a write that fails ends the thread for stderr, and the command
  then blocks on a pipe that nobody reads, against the comment at line 1571. ProcessEnds
  shows that this (`Stuck`) is the only way in which cheribuild does not come to an end.
- `simple_project.py:1590`: the two results of `communicate()` are taken for each other,
  so that what remains of stderr is not logged, against what lines 1592-1600 say. It takes
  a thread that has died, which LogIsComplete leaves out.
- `targets.py:107`: `setup_late()` of drm-kmod runs in the middle of its `setup()`,
  against the description of that method (`target_info.py:252`). SetupIsWhole shows that only such a call of a
  project for itself gets an instance that is not set up to the end.
- `mtree.py:431`: a listed file that METALOG does not have is no fatal error, against the
  comment at `disk_image.py:342`: a minimal image that is not stripped is made without it (ContentsAreWanted
  asks for it in a stripped one), and with stripping an exception about an
  attribute of None takes the place of the message.

Found while modelling, and noted under the hazards or here: `ssh_ports` of `run_libcxx_tests.py` is never filled, so
that the check for a shared port cannot fire (line 315); a failure while running
tests is sent twice, and the second report aborts all shards (line 428);
`project.py:1777` compares the counter read before the clean, so that after
`--clean` of a build directory that was up to date the file is gone and the next
run cleans everything again, which costs time and not correctness (CounterIsTrue);
smbfs is mounted over a directory that p9fs has mounted (`boot_cheribsd/__init__.py:1265`);
`setup()` of a project may run in the check loop, before anything is built
(`target_info.py:243` says otherwise); an extra file that is a dangling link trips
the assertion at `disk_image.py:314`, as it is not a file but on the list; an ssh-keygen that is killed between
its two files leaves a directory with which every later image fails until the user
removes the key, or, if a public key was left there when the user had removed the private
one, an image with the halves of two keys (HostKeysAreKept names this exception, and the
run fails without it); an EFI partition that a killed run has left stays there if the
rootfs has lost its loader since (OnlyTheImageIsLeft); and `mtree.py` and `disk_image.py` write the generated `rc.conf` and
`fstab` to a temporary directory, where the README says that they are added to the
extra files.

Limits of what is shown. `NothingStale` leaves out objects that were built from a
source without `.require_clean_build`: the code does not record them, and switching
such a branch to and fro does mix them with newer ones.
`WatchedToTheEnd` does not say that the tests passed: failures while running tests
leave the outcome a success, as the code has it. `OwnStashIsPopped` says whose
entry is popped, not that an update always gets there: if the pull fails the
changes stay in the stash. `SwitchIsEffective` does not say that the next update
leaves a branch with a fresh name alone: it asks again and makes another.
`ResultsAreKept` leaves out jobs in which a command was given up: its late answer can
be taken for that of "mv". `BootedIsReady` says nothing of a guest that has panicked
unnoticed. `ProcessEnds` promises nothing of the command after exceptions other than Ctrl+C,
as the code does not kill it then; it does end, unless the thread for stderr has died and
the command blocks (`Stuck`). LogIsComplete leaves out the stderr of a command whose thread died. `ContentsAreWanted` names in `Overridden` where the code prefers another
file to the user's, which is the finding.

### Fairness

`LitShards`: `Main`, `Tick` and the steps a shard takes without
waiting for CheriBSD (`ShardStep`) are weakly fair: they are steps of running
processes and of the clock. Nothing is assumed of booting, which
`BootingIsLimited` is about. `MainTerminates` assumes besides that tests and the
SSH check come to an end (`TestsEnd`). This is an antecedent of the property, not
something that the code ensures: `--timeout=120` limits each test of lit, but the comment at
`run_remote_lit_test.py:308` says that it does not work for tests that run through ssh, and the
main process does not limit the tests either, which is what `TestingIsLimited` refutes.
What MainTerminates shows is that nothing but the tests can keep the main process:
no barrier, no queue and no shard that died or never booted.

`ProcessRun`: weak
fairness of the command (which does not run for ever), of the main thread and of the
reader, as the operating system schedules all three; none of Ctrl+C, nor of a write that fails. The other
modules state none: their properties are about safety, and a user who does nothing,
or a guest that never answers, is a behaviour.

## 4. What is proved

For all values of the constants that satisfy the assumptions of the modules:
`TargetsAssumption`, `OrderAssumption`, `BuildAssumption`, `CapacityAssumption`,
`ShardsAssumption`, `RunAssumption`, `GitAssumption`, `UpstreamAssumption`,
`ImageAssumption`, `BootAssumption` and `SessionAssumption`. Five of them say more
than what kind of value a constant is. `RunAssumption` has no stage of a target need itself, except that a
`setup()` may ask for its own project (section 2); without it the code would call `process()`
of a target from within itself. It also has a plan of cheribuild in the order of the dependencies,
which is what `TargetOrder` shows of the sort.
`UpstreamAssumption` has the value for "no upstream" differ from every upstream.
`ImageAssumption` has the entropy files apart from the files that
`create_file_for_image()` makes, as the two lists of the code are
(`disk_image.py:553`). `BootAssumption` and `SessionAssumption` have finitely many
ABIs, as patterns are compared by their index in a list, and the message that
announces one differ from every other message, as the strings of the code do.

`TargetOrderProofs`: type correctness, DependenciesFirst, SortedAssertionHolds,
QueueIsExact, NoSpuriousCycle, PlanIsComplete and the refinement
`Spec => ImplementsTopoOrder`. The invariant `IInv` strengthens QueueIsExact with
what the loop keeps of the list (no repetitions, members of the selection only) and
with the fact that a target placed later than another either needs it or has a larger key
unless it was not available; the last is what makes `FinishSort` find the list
sorted, and why a comparison that is not transitive does no harm: only neighbours
are compared, and a neighbour that was available earlier has a larger key.
NoSpuriousCycle takes the set of targets left over as the witness.

`ProjectBuildProofs`: type correctness, CounterIsTrue, NothingStale,
NothingForeign, ConfiguredForThisKind and OnlyOrphansDelete. None but the first two is
inductive: whether an installed object is fresh depends on decisions taken many steps
and some kills earlier. `IInv` adds what each file is worth at any moment
(`KindIsTrue`, `KindsAreAlone`), what a run has established when it is past the
clean (`CleanedIfNeeded`, that is `Fresh` and `Ours`), and how the value read before
the clean relates to the file after it (`CounterIsRead`, `CounterIsWritten`,
`KindIsWritten`). It is preserved by every action, `Crash` included, because no
conjunct about the disk mentions the process except under its program counter.

`ProcessRunProofs`: type correctness, LogIsComplete and ErrorsStartALine, for pipes of
any capacity and any number of lines. That the log is complete is a fact about the end
only; `IInv` follows each line on the way there. What is logged, in the pipe and in the
hand of the thread that has read it (`InHand`) is what was written (`LinesAreCounted`),
as long as the main thread has not given up and the other has not died; a thread that goes on has seen the end of
its stream, which only an ended command has (`EndIsSeen`); the log is open until then
(`LogStaysOpen`). ErrorsStartALine needs that an unfinished line is always marked as one
that may be overwritten, but for the moment between the two in which the lock is held
(`LineIsMarked`, with `LockOK` from the types).

`LitShardsProofs`: type correctness, InLockStep, MainKnowsTheStage and
WatchedToTheEnd, for any number of shards. The stages are run in rounds: there is an `r`
such that every shard works on stage `r` or has reported its end (`InRound`), its
queue holds at most that report and what a shard that cannot go on says after it
(`QueuesInRound`), and the main process has counted as many reports as it has read
(`ReportsCounted`). A round ends only when the barrier is released, for which all have
to be counted, and by then all have left the stage: this is the lock step, and it
needs that the cardinality of the shards that were counted is that of all of them.
`RecordsAreTrue` relates what the main process has on record of a shard to its stage,
up to a report that is still in the queue; an assertion of the code would fail if they differed.

`TargetRunProofs`: type correctness, EachRunsOnce, StagesInOrder, SetupIsWhole and
ProcessAfterDependencies, for any targets, any plan and both front ends. The
invariant is about the stack. `NoHookReentered` says which call may wait for which: a
stage of a project waits only for stages below it in `Needs`, or for a call that its `setup()` made
for the project itself; as no stage is below itself, no hook of a target is entered while it runs.
`OwnCalls` has nothing between a `setup()` and such a call, which is the second half of SetupIsWhole.
`CallsEstablished` is what each
call knows from where it is, `CallsSeenTo` that a call which goes on without checking
will find done what it needs, since the call above it does that. `FlagsAreTrue` ties the flags to
the hooks that have returned or are on the stack; EachRunsOnce and StagesInOrder
follow. `InLoops` places the stack above the calls of the loops that have not begun,
of which all before have returned, and gives ProcessAfterDependencies.

`GitUpdateProofs`: type correctness, OwnStashIsPopped, SwitchIsEffective and the
action property BranchesKeepTheirUrl, for any number of names and any depth of the
stash. A failure leaves a clone of which nothing is known but the types, so that `IInv` says what
this update has established: that a name is given only to a remote if none
has it (`NamesAreFree`), which keeps the URLs; that a remote found for the switch has
the current URL (`SwitchIsUnderWay`); and that changes were put away only between the
stash and the pop, with an entry of this update on top (`StashIsOwn`).

`DiskImageProofs`: type correctness, ContentsAreWanted, HostKeysAreKept and
OnlyTheImageIsLeft, for any files, any kinds of image and any number of keys. The
contents are followed through the stages (`Preparation`): until the extra files are
added, each of them is on the list or has been taken in place of a default, and no
default is made for a file that is on the list, as the assertions would fail. What is
left to write is an end of `Outputs`, of four (`Ends`); `DiskIsKnown` says which files there
can be by kind and by end, after failed and killed runs as well (`Mine`), and that the
command which writes the rootfs, and fails if the contents do not exist, lies behind
(`BoxIsThere` says the same of cheribsdbox).
`KeyIsKept` ties the key of the last image to the key that is there, ssh-keygen to
its absence, and two files of different keys to a private key that the user removed.

`TestSessionProofs`: type correctness, BootedIsReady, FailureIsNoticed,
PanicIsNoticed, PassIsEarned and ResultsAreKept, for any ABIs, configurations and number of shared
directories and tests. Script and guest meet in `console` and in `typed` or `commands`
alone, so that `IInv` says what a message that has been printed, and not been read,
tells of the guest, and what the points of the script have learnt from those that
were read. For the boot these are `ShellIsOurs` (a prompt of the script's own comes
from a POSIX shell that has it), `NetIsKnown`, `KernelIsOurs` (a script past
the kernel has typed the command that loads it, or seen the name of its ABI) and
`FailureIsLeft`: whatever is left of a boot that failed begins with the attempt to mount the root file
system, which comes before the message of a failure, so that the two calls that look
for kernel and root file system find the attempt and leave the message (`TryingFirst`). `PanicIsKnown`: the last message of
a panic is still there or was fatal, since the numbering of the patterns overlooks
the first only; that takes the cardinality of the patterns of each call.
For the exit code (`ExitCodeIsItsOwn`), the question for it is typed right behind
the test, so that whichever answer is read first, and however late the shell is,
`$?` is that of the test, and only a test that passed has an `EXITCODE=0` printed. That holds from one test to
the next because no test is typed while the exit code of another is still to come: the wait
for it has no handler, so that a timeout there ends the script, and a test that times out
before the question for its code is interrupted, which drops what was typed. It needs that the test itself, whose traps are
ignored, only ever returns with its prompt or a timeout (`TestEnds`).
`TestsAreCounted` carries the results through the loop: as long as it counts as
successful, every test before the one at hand was reported as passed.

ResultsAreKept takes the success of "mv" from its answer, which only means
anything if no older answer is left to be read. That is `StepInv`, proved on top of `IInv`: a
script that has no reason yet to exit with a failure (`Trusted`) is in step with its shell
(`InStep`), is about to give up a command (`GivesUp`), or is in front of a panic that
it cannot get past (`Doomed`). In step means that what is left to be read belongs to
the command the script is at, in the order in which the shell prints it
(`After`, `From`): complaints before the marker, the marker before the prompt, nothing but
a panic after that. A command that failed may leave its marker and its prompt
(`FailureOnly`), which is why the commands tried after a failure (`Retrying`) tolerate
both, and why a success that is read is still their own. `Done` says what a success
stands for: a directory that is mounted, results that are on the host. Before the first
command `PromptComesLast` gives a clean start: the lines of the boot are answered by the time the
last prompt is read.

QueueExact, NeverForeignConfiguration and the theorems named Invariance are about parts of an invariant that no run names.

Only model-checked: liveness and what
fairness gives (MainTerminates, BootingIsLimited, ProcessEnds), which are
beyond the prover; `RecursiveDependencies`, whose closure is a recursive
function and needs induction over data to be characterised: the proofs take
`fullDeps` as an arbitrary relation, so that they do not depend on it.

## 5. Not modelled, and why

- Configuration loading (`config/loader.py`, `config_loader_base.py`): a sequential
  lookup that keeps only what it has found; no protocol. One disagreement was met
  in reading it: the README (line 307) has the command line override the file, but an
  option that is set in the file for the target itself wins over one that is given on the
  command line for the class it inherits from (`config_loader_base.py:332`).
- Compilation targets, CMake and Meson types, recipes: tables and command lines.
- QEMU and FVP launchers, SSH utilities: they start one program; that it hangs or dies
  is a choice of `LitShards` and `TestSession`.
- Utility scripts: interactive helpers. `3rdparty/`: not code of the project.
- In `TargetRun`: `reset()`, pretend mode, `dependency_warning()`, and the assertion
  about the target that is cross-compiled.
- In `TestSession`: kyua, the studio tests, SSH set-up and test archives; the
  exit code 127 of an optional binary that is not there, which counts as passed and
  has no results; and the commands before and after the loop whose answers are not
  used (`kenv`, `sysctl`, ...): one that times out ends the test function, with exit code 2.
- In `ProcessRun`: runs that are quiet, and commands that leave
  daemons behind with their stdout open.
- In `DiskImage`: modes and owners, directories and links to them among the extra
  files, what stripping does to a file, the tarball, the UFS label and swap partitions,
  changes of the kind of image between runs; the clean-up after a command is one step with its end.
- In `GitUpdate`: cloning, worktrees for per-target branches, explicit revisions;
  Mercurial and Subversion.
- In `ProjectBuild`: statcounters, and what configure and the build tool do.

## 6. Plan

The models are complete as far as the plan goes, and every safety property that the
runs check is proved. Liveness, and what the closure `RecursiveDependencies` contains,
stay with TLC. Further work is in the parts of section 5: each of the omissions named there is a step that
could be added to an action or a component that has no module yet.
