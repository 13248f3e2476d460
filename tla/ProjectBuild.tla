----------------------------- MODULE ProjectBuild -----------------------------
(***************************************************************************)
(* Project.process() in projects/project.py with the cleaning that it does *)
(* in the background (async_clean_directory() in filesystemutils.py, and   *)
(* ThreadJoiner in utils.py): repeated runs for the targets of one project *)
(* that share a build directory, over a source tree that changes between   *)
(* them, with runs that fail and runs that are killed.  The deletion in    *)
(* the background is a child process ("rm -rf"), which may outlive a       *)
(* cheribuild that is killed and go on during the next run.                *)
(*                                                                         *)
(* Abstractions.  A file that the build makes is an object with the kind   *)
(* of configuration it is for and the .require_clean_build counter of the  *)
(* source it is made from; a build adds one and keeps the old ones.  The   *)
(* output of configuring (Makefile, build.ninja) is one file.  A missing   *)
(* build directory is an empty one.  Files are moved or removed one at a   *)
(* time, and writing a small file is opening it, which empties it, and     *)
(* writing.  The projects' own compile() and install() are external.       *)
(***************************************************************************)
EXTENDS Naturals

CONSTANTS
  Kind,         (* the build_configuration_suffix()es of the project's targets  *)
  Nothing,      (* a file that does not exist                                   *)
  Garbage,      (* a file that was opened for writing, and no more              *)
  MaxCounter    (* a bound on the counters in .require_clean_build              *)

ASSUME BuildAssumption ==
  /\ Kind # {}
  /\ MaxCounter \in Nat \ {0}
  /\ Nothing # Garbage
  /\ Nothing \notin {"dir", "file"}
  /\ {Nothing, Garbage} \cap (Kind \cup Nat) = {}

(* 0 stands for a source tree that has no .require_clean_build.            *)
Counter == 0 .. MaxCounter
Object == [kind: Kind, counter: Counter]

(* build_in_source_dir, whether needs_configure() is the default, and the  *)
(* kinds that are built in this build directory.                           *)
ProjectType == [inSource: BOOLEAN, alwaysConfigures: BOOLEAN, kinds: SUBSET Kind]

(* One run: its target and its command line.                               *)
RunType ==
  [kind: Kind, clean: BOOLEAN, reconfigure: BOOLEAN, configureOnly: BOOLEAN,
   skipConfigure: BOOLEAN, skipBuild: BOOLEAN]

VARIABLES
  project,      (* what class of project this is                                *)
  required,     (* the last counter in the source's .require_clean_build        *)
  objects,      (* what compile() made, in the build directory                  *)
  configured,   (* the kind that the build directory is configured for          *)
  counterFile,  (* .cheribuild_last_clean_counter                               *)
  kindFile,     (* .cheribuild_last_build_kind                                  *)
  trash,        (* <build dir>.delete-me-pls: Nothing, "dir" or "file"          *)
  deleter,      (* the DeleterThread: "none", "created" or "running"            *)
  orphan,       (* whether an rm -rf has outlived the run that started it       *)
  pc,           (* where process() is, "idle" between runs                      *)
  run,          (* the run, between Start and its end                           *)
  forceClean,   (* _force_clean                                                 *)
  readCounter   (* clean_counter_in_build_dir                                   *)

buildDir == <<objects, configured, counterFile, kindFile>>
vars == <<project, required, objects, configured, counterFile, kindFile, trash,
          deleter, orphan, pc, run, forceClean, readCounter>>

PCs == {"idle", "update", "check_kind", "check_counter", "clean", "made", "move", "enter",
        "write_counter", "counter_open", "write_kind", "kind_open", "configure",
        "compile", "install", "join"}

Goto(label) == pc' = label

-----------------------------------------------------------------------------
Start(r) ==
  /\ pc = "idle"
  /\ r.kind \in project.kinds
  /\ run' = r
  /\ forceClean' = FALSE
  /\ readCounter' = Nothing
  /\ Goto("update")
  /\ UNCHANGED <<project, required, buildDir, trash, deleter, orphan>>

(* update() or ensure_cloned(), after whatever the user did to the source. *)
Update(c) ==
  /\ pc = "update"
  /\ required' = c
  /\ Goto("check_kind")
  /\ UNCHANGED <<project, buildDir, trash, deleter, orphan, run, forceClean, readCounter>>

(* Was the last build in the source directory for this kind?  Before it, a *)
(* mutant: a file that is missing or empty is not taken for another kind.  *)
KnownOtherKind == kindFile \in Kind \ {run.kind}
OtherKind == kindFile # run.kind

(* The user may refuse to clean what another configuration has built.      *)
CheckKind ==
  /\ pc = "check_kind"
  /\ \/ /\ project.inSource /\ ~run.clean /\ OtherKind
        /\ \/ forceClean' = TRUE /\ Goto("check_counter")
           \/ kindFile # Nothing /\ UNCHANGED forceClean /\ Goto("idle")
     \/ /\ ~(project.inSource /\ ~run.clean /\ OtherKind)
        /\ UNCHANGED forceClean /\ Goto("check_counter")
  /\ UNCHANGED <<project, required, buildDir, trash, deleter, orphan, run, readCounter>>

(* int(last_clean_counter_path.read_text()), in a try statement; the       *)
(* mutant before it takes whatever the file holds.                         *)
AnyCounter == counterFile
ParsedCounter == IF required # 0 /\ counterFile \in Counter THEN counterFile ELSE Nothing

(* Mutants of CleanIsRequired: an unreadable counter is taken for a good   *)
(* one, and the comparison is the wrong way around.                        *)
TrustsGarbage ==
  counterFile = Nothing \/ (counterFile \in Counter /\ counterFile < required)
CleansWhenNewer ==
  counterFile \notin Counter \/ counterFile > required

CleanIsRequired ==
  counterFile \notin Counter \/ counterFile < required

CheckCounter ==
  /\ pc = "check_counter"
  /\ forceClean' = (forceClean \/ (required # 0 /\ CleanIsRequired))
  /\ readCounter' = ParsedCounter
  /\ Goto(IF forceClean' \/ run.clean THEN "clean" ELSE "enter")
  /\ UNCHANGED <<project, required, buildDir, trash, deleter, orphan, run>>

(* Whether the build directory is as clean() leaves it: git clean keeps    *)
(* the files whose names start with a dot, async_clean_directory() none.   *)
IsClean ==
  /\ objects = {}
  /\ configured = Nothing
  /\ project.inSource \/ counterFile = Nothing

(* async_clean_directory() deletes what an earlier clean has left over and *)
(* makes a new directory, unless the build directory is empty.  mkdir()    *)
(* raises if there is a file of that name.                                 *)
Clean ==
  /\ pc = "clean"
  /\ ~IsClean
  /\ \/ project.inSource /\ UNCHANGED trash /\ Goto("move")
     \/ ~project.inSource /\ trash # "file" /\ trash' = "dir" /\ Goto("made")
  /\ UNCHANGED <<project, required, buildDir, deleter, orphan, run, forceClean,
                 readCounter>>

(* "assert tempdir.is_dir()".                                              *)
CheckTrash ==
  /\ pc = "made"
  /\ Goto(IF trash = "dir" THEN "move" ELSE "idle")
  /\ UNCHANGED <<project, required, buildDir, trash, deleter, orphan, run, forceClean,
                 readCounter>>

(* One file is removed from the source directory, or moved out of the      *)
(* build directory: into the trash, or to its name when it is not (or no   *)
(* longer) a directory.  What compile() makes may itself be a directory.   *)
MoveOne ==
  /\ pc = "move"
  /\ \/ \E o \in objects :
          objects' = objects \ {o} /\ UNCHANGED <<configured, counterFile>>
     \/ /\ configured # Nothing
        /\ configured' = Nothing /\ UNCHANGED <<objects, counterFile>>
     \/ /\ ~project.inSource /\ counterFile # Nothing
        /\ counterFile' = Nothing /\ UNCHANGED <<objects, configured>>
  /\ \/ (project.inSource \/ trash # Nothing) /\ UNCHANGED trash
     \/ ~project.inSource /\ trash = Nothing /\ trash' = "file"
     \/ ~project.inSource /\ trash = Nothing /\ objects' # objects /\ trash' = "dir"
  /\ UNCHANGED <<project, required, kindFile, deleter, orphan, pc, run, forceClean,
                 readCounter>>

Cleaned ==
  /\ pc \in {"clean", "move"}
  /\ IsClean
  /\ deleter' = IF trash = "dir" THEN "created" ELSE "none"
  /\ Goto("enter")
  /\ UNCHANGED <<project, required, buildDir, trash, orphan, run, forceClean,
                 readCounter>>

(* "with cleaning_task": the thread is started.                            *)
Enter ==
  /\ pc = "enter"
  /\ deleter' = IF deleter = "created" THEN "running" ELSE deleter
  /\ Goto(IF required # 0 /\ readCounter # required THEN "write_counter"
                                                    ELSE "write_kind")
  /\ UNCHANGED <<project, required, buildDir, trash, orphan, run, forceClean,
                 readCounter>>

(* DeleterThread.run(): a failure is only a warning.                       *)
Delete ==
  /\ deleter = "running"
  /\ trash' \in {Nothing, trash}
  /\ deleter' = "none"
  /\ UNCHANGED <<project, required, buildDir, orphan, pc, run, forceClean, readCounter>>

(* write_file(last_clean_counter_path, ..., overwrite=True).               *)
OpenCounter ==
  /\ pc = "write_counter"
  /\ counterFile' = Garbage
  /\ Goto("counter_open")
  /\ UNCHANGED <<project, required, objects, configured, kindFile, trash, deleter,
                 orphan, run, forceClean, readCounter>>

WriteCounter ==
  /\ pc = "counter_open"
  /\ counterFile' = required
  /\ Goto("write_kind")
  /\ UNCHANGED <<project, required, objects, configured, kindFile, trash, deleter,
                 orphan, run, forceClean, readCounter>>

AfterFiles ==
  IF \/ run.configureOnly
     \/ ~run.skipConfigure
        /\ (run.reconfigure \/ run.clean \/ project.alwaysConfigures
              \/ configured = Nothing)
  THEN "configure"
  ELSE IF run.skipBuild THEN "install" ELSE "compile"

(* write_file(last_build_file, ..., overwrite=True).                       *)
OpenKind ==
  /\ pc = "write_kind"
  /\ \/ project.inSource /\ kindFile' = Garbage /\ Goto("kind_open")
     \/ ~project.inSource /\ UNCHANGED kindFile /\ Goto(AfterFiles)
  /\ UNCHANGED <<project, required, objects, configured, counterFile, trash, deleter,
                 orphan, run, forceClean, readCounter>>

WriteKind ==
  /\ pc = "kind_open"
  /\ kindFile' = run.kind
  /\ Goto(AfterFiles)
  /\ UNCHANGED <<project, required, objects, configured, counterFile, trash, deleter,
                 orphan, run, forceClean, readCounter>>

(* configure() and compile() may fail when they have made files.           *)
Configure ==
  /\ pc = "configure"
  /\ configured' = run.kind
  /\ \/ Goto("join")
     \/ ~run.configureOnly /\ Goto(IF run.skipBuild THEN "install" ELSE "compile")
  /\ UNCHANGED <<project, required, objects, counterFile, kindFile, trash, deleter,
                 orphan, run, forceClean, readCounter>>

Compile ==
  /\ pc = "compile"
  /\ configured # Nothing
  /\ objects' = objects \cup {[kind |-> configured, counter |-> required]}
  /\ Goto("install") \/ Goto("join")
  /\ UNCHANGED <<project, required, configured, counterFile, kindFile, trash,
                 deleter, orphan, run, forceClean, readCounter>>

Install ==
  /\ pc = "install"
  /\ Goto("join")
  /\ UNCHANGED <<project, required, buildDir, trash, deleter, orphan, run, forceClean,
                 readCounter>>

(* An exception of one of the commands that are run.                       *)
Fail ==
  /\ \/ pc \in {"update", "clean", "made", "move"} /\ Goto("idle")
     \/ pc \in {"configure", "compile", "install"} /\ Goto("join")
  /\ UNCHANGED <<project, required, buildDir, trash, deleter, orphan, run, forceClean,
                 readCounter>>

(* The end of the with statement waits for the thread; a mutant does not.  *)
Forgotten == TRUE
DeletionEnded == deleter = "none"

Join ==
  /\ pc = "join"
  /\ DeletionEnded
  /\ Goto("idle")
  /\ UNCHANGED <<project, required, buildDir, trash, deleter, orphan, run, forceClean,
                 readCounter>>

(* cheribuild is killed.  Only run_and_kill_children_on_exit() ends its    *)
(* children with it, and only after Ctrl+C or a command that failed.       *)
Crash ==
  /\ pc # "idle"
  /\ deleter' = "none"
  /\ UNCHANGED orphan \/ (deleter = "running" /\ orphan' = TRUE)
  /\ Goto("idle")
  /\ UNCHANGED <<project, required, buildDir, trash, run, forceClean, readCounter>>

(* The rm -rf of a run that is over: it removes what has the name now, or  *)
(* it has nothing left to remove.                                          *)
OrphanDeletes ==
  /\ orphan
  /\ \/ trash' = Nothing /\ UNCHANGED orphan
     \/ orphan' = FALSE /\ UNCHANGED trash
  /\ UNCHANGED <<project, required, buildDir, deleter, pc, run, forceClean, readCounter>>

-----------------------------------------------------------------------------
Init ==
  /\ project \in ProjectType
  /\ IF project.inSource THEN project.kinds # {}
                         ELSE \E k \in Kind : project.kinds = {k}
  /\ required \in Counter
  /\ objects = {}
  /\ configured = Nothing
  /\ counterFile = Nothing
  /\ kindFile = Nothing
  /\ trash = Nothing
  /\ deleter = "none"
  /\ orphan = FALSE
  /\ pc = "idle"
  /\ run \in RunType
  /\ forceClean = FALSE
  /\ readCounter = Nothing

Next ==
  \/ \E r \in RunType : Start(r)
  \/ \E c \in Counter : Update(c)
  \/ CheckKind \/ CheckCounter
  \/ Clean \/ CheckTrash \/ MoveOne \/ Cleaned
  \/ Enter \/ Delete
  \/ OpenCounter \/ WriteCounter \/ OpenKind \/ WriteKind
  \/ Configure \/ Compile \/ Install
  \/ Fail \/ Join \/ Crash \/ OrphanDeletes

Spec == Init /\ [][Next]_vars

-----------------------------------------------------------------------------
(* Every variable has its type.                                            *)
TypeOK ==
  /\ project \in ProjectType
  /\ required \in Counter
  /\ objects \subseteq Object
  /\ configured \in Kind \cup {Nothing}
  /\ counterFile \in Counter \cup {Nothing, Garbage}
  /\ kindFile \in Kind \cup {Nothing, Garbage}
  /\ trash \in {Nothing, "dir", "file"}
  /\ deleter \in {"none", "created", "running"}
  /\ orphan \in BOOLEAN
  /\ pc \in PCs
  /\ run \in RunType
  /\ forceClean \in BOOLEAN
  /\ readCounter \in Counter \cup {Nothing}

(* What is installed after a build contains nothing that was made from a   *)
(* source that asked for an older clean build than this one does           *)
(* (process(): "Forcing full rebuild"), whatever runs failed or were       *)
(* killed before.  Objects of a source without .require_clean_build are    *)
(* the exception: the code has no record of them.                          *)
NothingStale ==
  pc = "install" /\ ~run.skipBuild =>
    \A o \in objects : o.counter = 0 \/ o.counter >= required

(* ... and nothing that was made for another kind of configuration, when   *)
(* the kinds share the source directory ("Will clean before build").       *)
NothingForeign ==
  pc = "install" /\ ~run.skipBuild => \A o \in objects : o.kind = run.kind

(* compile() is never run on what configure() made for another kind, even  *)
(* when --skip-configure is given (should_run_configure()).                *)
ConfiguredForThisKind ==
  pc = "compile" => configured \in {run.kind, Nothing}

(* The counter that is in the build directory never promises more than the *)
(* objects keep, at any step of any run.                                   *)
CounterIsTrue ==
  counterFile \in Counter =>
    \A o \in objects : o.counter = 0 \/ o.counter >= counterFile

(* While files are moved to the directory that is deleted in the           *)
(* background, no thread of cheribuild deletes it, of this run or of an    *)
(* earlier one (ThreadJoiner): only an rm that has outlived a run that was *)
(* killed can.                                                             *)
OnlyOrphansDelete ==
  [][trash = "dir" /\ trash' # "dir" /\ pc \in {"made", "move"} => orphan]_vars
=============================================================================
