---------------------------- MODULE TestSession -----------------------------
(***************************************************************************)
(* boot_cheribsd's _main() with the test function of run_cheribsd_tests.py: *)
(* boot, mount the shared directories, run each of the test binaries and    *)
(* copy its results, power off, and turn all that into an exit code.        *)
(*                                                                         *)
(* The script types one command after the other and reads what comes back. *)
(* Neither echoes nor numbers tie an answer to its command: a command that  *)
(* was given up, or that left a prompt unread, may answer the next one.     *)
(***************************************************************************)
EXTENDS BootCheriBSD

CONSTANTS
  NumTests,       (* binaries of cheribsdtest                                  *)
  NumDirs,        (* shared directories; the last one receives the results     *)
  ReadOnlyDirs,
  MaxSmbfsRetry   (* MAX_SMBFS_RETRY                                           *)

(* What the shell prints besides prompts.                                  *)
SessionOutput ==
  {"__COMMAND SUCCESSFUL__", "__COMMAND FAILED__", "EXITCODE=0", "EXITCODE=1", "Uptime: ",
   "Please press any key to reboot.", "unable to open connection"}

ASSUME SessionAssumption ==
  /\ Abis \cap SessionOutput = {}
  /\ NumTests \in Nat \ {0}
  /\ NumDirs \in Nat \ {0}
  /\ ReadOnlyDirs \subseteq 1 .. NumDirs - 1
  /\ MaxSmbfsRetry \in Nat \ {0}

VARIABLES
  wait,         (* what the script does about the command "pc"                 *)
  outcome,      (* how run() or checked_run() ended                            *)
  dir, trial,   (* loop counters of _do_test_setup() and mount_via_smb()       *)
  mounted,      (* SharedMount.mounted                                         *)
  canUseP9fs, canUseSmb, issue2617Fixed, sharedMountFailed,
  test,         (* counts the loop over the test binaries                      *)
  exitCode,     (* exit_code of this one is 0                                  *)
  reported,     (* tests for which run_cheribsdtest() returned True (history)  *)
  testsSuccessful,
  commands,     (* typed into the shell, and not yet executed                  *)
  running,      (* guest: the command that runs                                *)
  lastStatus,   (* guest: $? is 0                                              *)
  mounts,       (* guest: what is mounted on each directory, in order          *)
  passed,       (* guest: tests that have ended with exit code 0               *)
  delivered,    (* tests whose results are in the host's directory             *)
  gaveUp        (* a command timed out while mounting, and was followed by     *)
                (* others                                                      *)

mounting == <<dir, trial, mounted, canUseP9fs, canUseSmb, issue2617Fixed, sharedMountFailed>>
testing == <<test, exitCode, reported, testsSuccessful>>
script == <<wait, outcome, mounting, testing>>
shell == <<running, lastStatus, mounts, passed>>
sessionVars == <<script, commands, shell, delivered, gaveUp>>
vars == <<bootVars, sessionVars>>

Tests == 1 .. NumTests
Dirs == 1 .. NumDirs
ResultsDir == NumDirs
Idle == [name |-> "none", dir |-> 1, test |-> 1, ok |-> TRUE]

Checked == {"p9fs", "check2617", "rm", "umount", "smbfs", "su", "rmxml", "mv", "pwd"}
Plain == {"mkdir", "settle", "cheribsdtest", "fsync"}
Commands == Checked \cup Plain

-----------------------------------------------------------------------------
(* The guest's shell executes what was typed, in order.                    *)
ExitCode(ok) == IF ok THEN "EXITCODE=0" ELSE "EXITCODE=1"

Answer(c) ==
  IF c.name \in Checked
  THEN <<IF c.ok THEN "__COMMAND SUCCESSFUL__" ELSE "__COMMAND FAILED__", "PEXPECT_PROMPT">>
  ELSE <<"PEXPECT_PROMPT">>

Effect(c) ==
  /\ mounts' =
       CASE c.ok /\ c.name \in {"p9fs", "smbfs"} ->
              [mounts EXCEPT ![c.dir] = Append(@, c.name)]
         [] c.ok /\ c.name = "umount" /\ mounts[c.dir] # <<>> ->
              [mounts EXCEPT ![c.dir] = SubSeq(@, 1, Len(@) - 1)]
         [] OTHER -> mounts
  /\ delivered' = IF c.name = "mv" /\ c.ok /\ mounts[ResultsDir] # <<>>
                  THEN delivered \cup {c.test}
                  ELSE delivered

ShellStarts ==
  /\ phase = "sh" /\ running = Idle /\ commands # <<>>
  /\ Head(commands).name \in Commands
  /\ \E ok \in BOOLEAN :
       /\ running' = [name |-> Head(commands).name, dir |-> Head(commands).dir,
                      test |-> Head(commands).test, ok |-> ok]
       /\ \/ Prints(<<>>)
          \/ ~ok /\ Prints(<<"CHERI_TRAP">>)
          \/ ~ok /\ Head(commands).name = "smbfs" /\ Prints(<<"unable to open connection">>)
  /\ Effect(running')
  /\ commands' = Tail(commands)
  /\ UNCHANGED <<config, runner, phase, kernel, net, ownPrompt, typed, script, lastStatus,
                 passed, gaveUp>>

ShellEnds ==
  /\ phase = "sh" /\ running # Idle
  /\ Prints(Answer(running))
  /\ lastStatus' = running.ok
  /\ passed' = IF running.name = "cheribsdtest" /\ running.ok
               THEN passed \cup {running.test}
               ELSE passed
  /\ running' = Idle
  /\ UNCHANGED <<config, runner, phase, kernel, net, ownPrompt, typed, script, commands,
                 mounts, delivered, gaveUp>>

ShellBuiltin ==
  /\ phase = "sh" /\ running = Idle /\ commands # <<>>
  /\ \/ /\ Head(commands).name = "exitcode"
        /\ Prints(<<ExitCode(lastStatus), "PEXPECT_PROMPT">>)
        /\ UNCHANGED phase
     \/ /\ Head(commands).name = "poweroff"
        /\ Prints(<<"Uptime: ", "Please press any key to reboot.">>)
        /\ phase' = "halted"
  /\ commands' = Tail(commands)
  /\ UNCHANGED <<config, runner, kernel, net, ownPrompt, typed, script, shell, delivered,
                 gaveUp>>

GuestWorks ==
  /\ pc \notin {"exit 0", "exit 1", "exit 2"}
  /\ \/ ShellStarts \/ ShellEnds \/ ShellBuiltin
     \/ (GuestBoots \/ KernelPanic \/ QemuDies) /\ UNCHANGED sessionVars

-----------------------------------------------------------------------------
(* run_cheribsd_command() and checked_run_cheribsd_command(): type, wait   *)
(* for the answer, read the prompt, and leave an outcome or an exception.  *)
AnswerPatterns ==
  {"TIMEOUT"} \cup (IF pc = "cheribsdtest" THEN {} ELSE {"CHERI_TRAP"})
    \cup (IF pc \in Plain THEN {"PEXPECT_PROMPT"}
          ELSE {"__COMMAND SUCCESSFUL__", "__COMMAND FAILED__"})
    \cup (IF pc = "smbfs" THEN {"unable to open connection"} ELSE {})

CommandPatterns ==
  CASE wait = "answer" -> AnswerPatterns
    [] wait = "prompt" -> {"PEXPECT_PROMPT"}
    [] wait = "drain"  -> {"PEXPECT_PROMPT", "TIMEOUT"}

Ends(how) == wait' = "ended" /\ outcome' = how /\ UNCHANGED pc
ReadsOn(what, how) == wait' = what /\ outcome' = how /\ UNCHANGED pc
Dies == pc' = "exit 1" /\ UNCHANGED <<wait, outcome>>

SendCommand ==
  /\ pc \in Commands /\ wait = "send"
  /\ commands' = Append(commands, [name |-> pc, dir |-> dir, test |-> test])
  /\ wait' = "answer"
  /\ UNCHANGED <<bootVars, outcome, mounting, testing, shell, delivered, gaveUp>>

(* A panic that is not detected is past the end of the patterns: it falls  *)
(* through in run(), and fails an assertion in checked_run().              *)
AnswerRead(m) ==
  \/ m = "TIMEOUT" /\ Ends("timeout")
  \/ m = "PEXPECT_PROMPT" /\ Ends("ok")
  \/ m = "__COMMAND SUCCESSFUL__" /\ ReadsOn("prompt", "ok")
  \/ m = "__COMMAND FAILED__" /\ Ends("failed")
  \/ m = "CHERI_TRAP" /\ ReadsOn("drain", "failed")
  \/ m = "unable to open connection" /\ ReadsOn("drain", "error output")
  \/ m = "PANIC" /\ IF pc \in Plain THEN Ends("ok") ELSE Dies

ReadCommand ==
  /\ pc \in Commands /\ wait \in {"answer", "prompt", "drain"}
  /\ Consume(CommandPatterns)
  /\ \/ Returned(CommandPatterns) # Outcomes(CommandPatterns) /\ Dies
     \/ \E m \in Returned(CommandPatterns) :
          IF wait = "answer" THEN AnswerRead(m) ELSE Ends(outcome)
  /\ UNCHANGED <<config, ranManualBoot, haveDhclient, guest, typed, mounting,
                 testing, commands, shell, delivered, gaveUp>>

Ended(command) == pc = command /\ wait = "ended"
Run(command) == pc' = command /\ wait' = "send" /\ outcome' = "none"
OnlyAfter(how, command) == IF outcome = how THEN Run(command) ELSE Dies

-----------------------------------------------------------------------------
(* _do_test_setup(): whatever is raised in it ends the script.  The local  *)
(* variables of boot_and_login() are gone when it begins; which kernel and *)
(* network the guest has, and which the script was asked for, plays no     *)
(* part in what follows, and is forgotten to keep the state space small.   *)
SomeConfig == CHOOSE c \in Configs : TRUE

SetUp ==
  /\ pc = "booted"
  /\ Run("mkdir")
  /\ ranManualBoot' = FALSE /\ haveDhclient' = FALSE
  /\ kernel' = NoKernel /\ net' = "down" /\ config' = SomeConfig
  /\ UNCHANGED <<phase, ownPrompt, tty, mounting, testing, commands, shell, delivered,
                 gaveUp>>

MountNext(d) == IF d > NumDirs THEN Run("settle") ELSE Run("mkdir")

(* A mutant of the next one: judge by what still worked before this one.   *)
FailsWithoutAnyWay == sharedMountFailed \/ ~(canUseP9fs \/ canUseSmb)

SharedMountFails == sharedMountFailed \/ ~mounted'[dir]

(* The end of an iteration of "for index, d in enumerate(shared_dirs)".    *)
DirIsDone ==
  /\ sharedMountFailed' = SharedMountFails
  /\ dir' = dir + 1
  /\ trial' = 0
  /\ MountNext(dir')

(* "if qemu.can_use_smb" follows whether p9fs has worked or not.           *)
ThenSmb == IF canUseSmb THEN Run("smbfs") /\ UNCHANGED <<dir, trial, sharedMountFailed>>
           ELSE DirIsDone

Unmounted == mounted' = [mounted EXCEPT ![dir] = FALSE]

P9fsFails ==
  /\ Unmounted
  /\ canUseP9fs' = FALSE
  /\ ThenSmb

AfterMkdir ==
  /\ Ended("mkdir")
  /\ \/ outcome # "ok" /\ Dies /\ UNCHANGED mounting
     \/ /\ outcome = "ok" /\ canUseP9fs /\ Run("p9fs")
        /\ UNCHANGED mounting
     \/ /\ outcome = "ok" /\ ~canUseP9fs /\ ThenSmb
        /\ UNCHANGED <<mounted, canUseP9fs, canUseSmb, issue2617Fixed>>
  /\ UNCHANGED testing

(* mount_via_p9fs().                                                       *)
AfterP9fs ==
  /\ Ended("p9fs")
  /\ \/ outcome # "ok" /\ P9fsFails
     \/ /\ outcome = "ok"
        /\ mounted' = [mounted EXCEPT ![dir] = TRUE]
        /\ UNCHANGED canUseP9fs
        /\ IF dir \in ReadOnlyDirs \/ issue2617Fixed = "yes" THEN ThenSmb
           ELSE Run("check2617") /\ UNCHANGED <<dir, trial, sharedMountFailed>>
  /\ UNCHANGED <<canUseSmb, issue2617Fixed, testing>>

AfterCheck2617 ==
  /\ Ended("check2617")
  /\ \/ /\ outcome = "ok" /\ issue2617Fixed' = "yes"
        /\ UNCHANGED mounted /\ ThenSmb
     \/ /\ outcome # "ok" /\ issue2617Fixed' = "no"
        /\ Run("rm") /\ UNCHANGED <<dir, trial, mounted, sharedMountFailed>>
  /\ UNCHANGED <<canUseP9fs, canUseSmb, testing>>

AfterUnmounting ==
  /\ \/ Ended("rm") /\ OnlyAfter("ok", "umount") /\ UNCHANGED mounting
     \/ /\ Ended("umount")
        /\ IF outcome = "ok"
           THEN P9fsFails /\ UNCHANGED <<canUseSmb, issue2617Fixed>>
           ELSE Dies /\ UNCHANGED mounting
  /\ UNCHANGED testing

(* A mutant of the next one: one trial too many.                           *)
OneMoreTrial == trial < MaxSmbfsRetry
TriesAgain == trial + 1 < MaxSmbfsRetry

(* mount_via_smb(): only an error of the connection is tried again.        *)
AfterSmb ==
  /\ Ended("smbfs")
  /\ \/ outcome \notin {"ok", "error output"} /\ Dies /\ UNCHANGED mounting
     \/ /\ outcome = "error output" /\ TriesAgain
        /\ trial' = trial + 1
        /\ Unmounted
        /\ Run("smbfs")
        /\ UNCHANGED <<dir, canUseP9fs, canUseSmb, issue2617Fixed, sharedMountFailed>>
     \/ /\ outcome = "ok" \/ (outcome = "error output" /\ ~TriesAgain)
        /\ mounted' = [mounted EXCEPT ![dir] = (outcome = "ok")]
        /\ canUseSmb' = (outcome = "ok")
        /\ DirIsDone
        /\ UNCHANGED <<canUseP9fs, issue2617Fixed>>
  /\ UNCHANGED testing

AfterSettling ==
  /\ Ended("settle")
  /\ OnlyAfter("ok", "su")
  /\ UNCHANGED <<mounting, testing>>

MountStep ==
  /\ \/ AfterMkdir \/ AfterP9fs \/ AfterCheck2617
     \/ AfterUnmounting \/ AfterSmb \/ AfterSettling
  /\ gaveUp' = (gaveUp \/ outcome = "timeout")
  /\ UNCHANGED <<config, ranManualBoot, haveDhclient, guest, tty, commands, shell, delivered>>

-----------------------------------------------------------------------------
(* run_cheribsdtest() for one binary after the other, and the loop of       *)
(* run_cheribsd_test() around it.                                           *)
(* A mutant of the next one: the loop keeps the last result only.          *)
LastOnly(ok) == ok
AllSoFar(ok) == testsSuccessful /\ ok

NextTest(t) == IF t > NumTests THEN Run("poweroff") ELSE Run("rmxml")

(* run_cheribsdtest() returns; its local variable is forgotten.            *)
TestReturns(ok) ==
  /\ reported' = IF ok THEN reported \cup {test} ELSE reported
  /\ testsSuccessful' = AllSoFar(ok)
  /\ test' = test + 1
  /\ exitCode' = FALSE
  /\ NextTest(test')

(* A command that timed out is interrupted, and the shell is asked for a   *)
(* prompt: what had been typed and not read is flushed.  The shell answers *)
(* each Ctrl+C with a prompt, unless the second one comes at once.         *)
Interrupt ==
  /\ Run("pwd")
  /\ commands' = <<>>
  /\ running' = Idle
  /\ \E prompts \in { <<"PEXPECT_PROMPT">>, <<"PEXPECT_PROMPT", "PEXPECT_PROMPT">> } :
       console' = IF phase = "sh" THEN console \o prompts ELSE console
  /\ UNCHANGED testing

NoInterrupt == UNCHANGED <<console, commands, running>>

(* "su" may fail, and the connection by ssh that is tried next may fail or *)
(* end the script.                                                         *)
AfterSu ==
  /\ Ended("su")
  /\ \/ NextTest(test) /\ testsSuccessful' \in {FALSE, outcome = "ok"}
     \/ Dies /\ UNCHANGED testsSuccessful
  /\ UNCHANGED <<test, exitCode, reported>>
  /\ NoInterrupt

(* CheriBSDCommandTimeout and CheriBSDCommandFailed are caught.            *)
AfterTestCommand(command, next) ==
  /\ Ended(command)
  /\ \/ outcome = "timeout" /\ Interrupt
     \/ outcome = "ok" /\ Run(next) /\ UNCHANGED testing /\ NoInterrupt
     \/ outcome \notin {"ok", "timeout"} /\ TestReturns(FALSE) /\ NoInterrupt

AfterFsync ==
  /\ Ended("fsync")
  /\ \/ outcome = "timeout" /\ Interrupt
     \/ outcome # "timeout" /\ TestReturns(exitCode /\ outcome = "ok") /\ NoInterrupt

AfterPwd ==
  /\ Ended("pwd")
  /\ IF outcome = "ok" THEN TestReturns(FALSE)
     ELSE pc' = "exit 2" /\ UNCHANGED <<wait, outcome, testing>>
  /\ NoInterrupt

TestStep ==
  /\ \/ AfterSu \/ AfterFsync \/ AfterPwd
     \/ AfterTestCommand("rmxml", "cheribsdtest")
     \/ AfterTestCommand("cheribsdtest", "exitcode")
     \/ AfterTestCommand("mv", "fsync")
  /\ UNCHANGED <<config, ranManualBoot, haveDhclient, guest, typed, mounting,
                 lastStatus, mounts, passed, delivered, gaveUp>>

(* sendline() for the two that are not run by run() or checked_run().      *)
SendPlain ==
  /\ pc \in {"exitcode", "poweroff"} /\ wait = "send"
  /\ commands' = Append(commands, [name |-> pc, dir |-> dir, test |-> test])
  /\ wait' = "answer"
  /\ UNCHANGED <<bootVars, outcome, mounting, testing, shell, delivered, gaveUp>>

(* "echo EXITCODE=$?".  With a failed mount the results come by scp, which *)
(* works or ends the script.                                               *)
Passed(m) == m = ExitCode(TRUE)
ExitCodes == { ExitCode(ok) : ok \in BOOLEAN }

ReadExitCode ==
  /\ pc = "exitcode" /\ wait = "answer"
  /\ Consume(ExitCodes)
  /\ \/ \E m \in Returned(ExitCodes) \ Panics :
          /\ exitCode' = Passed(m)
          /\ wait' = "prompt" /\ UNCHANGED pc
     \/ /\ Outcomes(ExitCodes) \ (Returned(ExitCodes) \ Panics) # {}
        /\ pc' = "exit 1" /\ UNCHANGED <<wait, exitCode>>
  /\ UNCHANGED <<outcome, test, reported, testsSuccessful, delivered>>

CopyResults ==
  /\ pc = "exitcode" /\ wait = "prompt"
  /\ Consume({"PEXPECT_PROMPT"})
  /\ \/ /\ Returned({"PEXPECT_PROMPT"}) = {} \/ sharedMountFailed
        /\ Dies /\ UNCHANGED <<testing, delivered>>
     \/ /\ Returned({"PEXPECT_PROMPT"}) # {} /\ ~sharedMountFailed
        /\ Run("mv") /\ UNCHANGED <<testing, delivered>>
     \/ /\ Returned({"PEXPECT_PROMPT"}) # {} /\ sharedMountFailed /\ phase = "sh"
        /\ delivered' = delivered \cup {test}
        /\ TestReturns(exitCode)

PoweroffPatterns == {"Uptime: ", "TIMEOUT", "EOF"}
ShutdownPatterns == {"Please press any key to reboot.", "TIMEOUT", "EOF"}

AwaitPoweroff ==
  /\ pc = "poweroff" /\ wait = "answer"
  /\ Consume(PoweroffPatterns)
  /\ IF Returned(PoweroffPatterns) = {} THEN Dies ELSE
     \E m \in Returned(PoweroffPatterns) :
       IF m = "Uptime: " THEN ReadsOn("prompt", "ok")
       ELSE pc' = "exit 2" /\ UNCHANGED <<wait, outcome>>
  /\ UNCHANGED <<testing, delivered>>

(* Only a timeout counts against the tests here; _main() exits with 2 if   *)
(* they failed.                                                            *)
AwaitShutdown ==
  /\ pc = "poweroff" /\ wait = "prompt"
  /\ Consume(ShutdownPatterns)
  /\ IF Returned(ShutdownPatterns) = {} THEN Dies ELSE
     \E m \in Returned(ShutdownPatterns) :
       /\ IF m # "TIMEOUT" /\ testsSuccessful /\ ~sharedMountFailed
          THEN pc' = "exit 0" ELSE pc' = "exit 2"
       /\ UNCHANGED <<wait, outcome>>
  /\ UNCHANGED <<testing, delivered>>

FinishStep ==
  /\ ReadExitCode \/ CopyResults \/ AwaitPoweroff \/ AwaitShutdown
  /\ UNCHANGED <<config, ranManualBoot, haveDhclient, guest, typed, mounting, commands, shell,
                 gaveUp>>

Init ==
  /\ BootInit
  /\ wait = "send" /\ outcome = "none" /\ dir = 1 /\ trial = 0
  /\ mounted = [d \in Dirs |-> FALSE]
  /\ canUseP9fs = TRUE /\ canUseSmb = TRUE /\ issue2617Fixed = "unknown"
  /\ sharedMountFailed = FALSE
  /\ test = 1 /\ exitCode = FALSE /\ reported = {} /\ testsSuccessful = TRUE
  /\ commands = <<>> /\ running = Idle /\ lastStatus = TRUE
  /\ mounts = [d \in Dirs |-> <<>>] /\ passed = {} /\ delivered = {}
  /\ gaveUp = FALSE

Next ==
  \/ GuestWorks
  \/ BootStep /\ UNCHANGED sessionVars
  \/ SetUp
  \/ SendCommand \/ SendPlain \/ ReadCommand \/ MountStep \/ TestStep \/ FinishStep

Spec == Init /\ [][Next]_vars

-----------------------------------------------------------------------------
TypeOK ==
  /\ BootTypeOK
  /\ pc \in BootPoints \cup Commands
             \cup {"booted", "exitcode", "poweroff", "exit 0", "exit 1", "exit 2"}
  /\ wait \in {"send", "answer", "prompt", "drain", "ended"}
  /\ outcome \in {"none", "ok", "failed", "timeout", "error output"}
  /\ dir \in 1 .. NumDirs + 1 /\ trial \in 0 .. MaxSmbfsRetry - 1
  /\ mounted \in [Dirs -> BOOLEAN]
  /\ mounts \in [Dirs -> Seq({"p9fs", "smbfs"})]
  /\ issue2617Fixed \in {"unknown", "yes", "no"}
  /\ test \in 1 .. NumTests + 1
  /\ { canUseP9fs, canUseSmb, sharedMountFailed, exitCode, testsSuccessful, lastStatus,
       gaveUp } \subseteq BOOLEAN
  /\ reported \cup passed \cup delivered \subseteq Tests

(* A test that is reported as passed has passed in the guest, and exit code *)
(* 0 means that all have, though answers may be late, belong to another    *)
(* command or to a test that was interrupted, or come from a dying kernel. *)
PassIsEarned ==
  /\ reported \subseteq passed
  /\ pc = "exit 0" => passed = Tests

(* Unless a command was given up while mounting, exit code 0 also means     *)
(* that the results of every test have left the guest: "mv" went to a      *)
(* directory that is mounted, or scp was used.                             *)
ResultsAreKept == pc = "exit 0" /\ ~gaveUp => delivered = Tests
=============================================================================
