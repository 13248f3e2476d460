------------------------------ MODULE ProcessRun ------------------------------
(***************************************************************************)
(* One command run by run_with_logfile() with its output filtered: the     *)
(* main thread reads the command's stdout, a second thread its stderr, and *)
(* both write to the terminal and to the log file, under one lock.         *)
(*                                                                         *)
(* The command writes lines into two pipes of bounded capacity, where it   *)
(* blocks, and ends when it likes.  A line is its stream: lines of one     *)
(* stream cannot overtake each other, so what can get lost is counted.     *)
(* On the terminal only the column of the cursor matters.                  *)
(***************************************************************************)
EXTENDS Naturals

CONSTANTS
  Capacity,      (* lines that a pipe holds                                   *)
  MaxLines       (* bound: lines that the command writes to each stream       *)

ASSUME CapacityAssumption == Capacity \in Nat \ {0} /\ MaxLines \in Nat

Streams == {"stdout", "stderr"}
Nobody == "nobody"

VARIABLES
  hasLog,        (* config.write_logfile: only then stderr is a pipe          *)
  command,       (* how the command is                                        *)
  blocked,       (* the streams the command is in the middle of writing to    *)
  written,       (* lines it has written to each                              *)
  pipe,          (* of which these are still in the pipe                      *)
  main,          (* where the main thread is                                  *)
  reader,        (* where the thread in _handle_stderr() is                   *)
  lock,          (* who has logfile_lock                                      *)
  logged,        (* lines of each stream in the log file                      *)
  logOpen,
  overwritable,  (* _last_stdout_line_can_be_overwritten                      *)
  cursor,        (* at the "start" or in the "middle" of a line               *)
  ending         (* why the main thread leaves                                *)

child == <<command, blocked>>
terminal == <<overwritable, cursor>>
vars == <<hasLog, child, written, pipe, main, reader, lock, logged, logOpen,
          terminal, ending>>

Ended == {"succeeded", "failed", "killed"}
InLoop == {"read", "want lock", "log", "filter", "mark"}
Unwinding == {"unwind", "exit", "exited"}
Gone == {"done", "dead"}        (* a thread that reads no more                *)

Init ==
  /\ hasLog \in BOOLEAN
  /\ command = "running"
  /\ blocked = {}
  /\ written = [s \in Streams |-> 0]
  /\ pipe = [s \in Streams |-> 0]
  /\ main = "read"
  /\ reader = IF hasLog THEN "read" ELSE "done"
  /\ lock = Nobody
  /\ logged = [s \in Streams |-> 0]
  /\ logOpen = hasLog
  /\ overwritable = FALSE
  /\ cursor = "start"
  /\ ending = "none"

-----------------------------------------------------------------------------
(* The command: it decides to write a line, does so when there is room     *)
(* (or gets SIGPIPE when nobody can read any more), and ends.  Without a   *)
(* log its stderr is the terminal.                                         *)
Closed(s) == main \in {"exit", "exited"} /\ (s = "stderr" => reader \in Gone)
Piped == IF hasLog THEN Streams ELSE {"stdout"}

WantsToWrite(s) ==
  /\ command = "running"
  /\ blocked = {}
  /\ s \in Piped
  /\ written[s] < MaxLines
  /\ blocked' = {s}
  /\ UNCHANGED <<hasLog, command, written, pipe, main, reader, lock, logged,
                 logOpen, terminal, ending>>

Writes(s) ==
  /\ command = "running"
  /\ s \in blocked
  /\ ~Closed(s)
  /\ pipe[s] < Capacity
  /\ pipe' = [pipe EXCEPT ![s] = @ + 1]
  /\ written' = [written EXCEPT ![s] = @ + 1]
  /\ blocked' = {}
  /\ UNCHANGED <<hasLog, command, main, reader, lock, logged, logOpen, terminal,
                 ending>>

BrokenPipe ==
  /\ command = "running"
  /\ \E s \in blocked : Closed(s)
  /\ command' = "killed"
  /\ UNCHANGED <<hasLog, blocked, written, pipe, main, reader, lock, logged,
                 logOpen, terminal, ending>>

Ends ==
  /\ command = "running"
  /\ blocked = {}
  /\ command' \in {"succeeded", "failed"}
  /\ UNCHANGED <<hasLog, blocked, written, pipe, main, reader, lock, logged,
                 logOpen, terminal, ending>>

Command == (\E s \in Streams : WantsToWrite(s) \/ Writes(s)) \/ BrokenPipe \/ Ends

AtEOF(s) == command \in Ended /\ pipe[s] = 0

-----------------------------------------------------------------------------
(* The main thread: "for line in proc.stdout", each line under the lock.   *)
MainReads ==
  /\ main = "read"
  /\ \/ pipe["stdout"] > 0
        /\ pipe' = [pipe EXCEPT !["stdout"] = @ - 1]
        /\ main' = "want lock"
     \/ AtEOF("stdout") /\ main' = "wait" /\ UNCHANGED pipe
  /\ UNCHANGED <<hasLog, child, written, reader, lock, logged, logOpen, terminal,
                 ending>>

(* A mutant of Free: there is no lock.                                     *)
NoLock == TRUE
Free == lock = Nobody

MainLocks ==
  /\ main = "want lock"
  /\ Free
  /\ lock' = "main"
  /\ main' = "log"
  /\ UNCHANGED <<hasLog, child, written, pipe, reader, logged, logOpen, terminal,
                 ending>>

MainLogs ==
  /\ main = "log"
  /\ logged' = IF hasLog THEN [logged EXCEPT !["stdout"] = @ + 1] ELSE logged
  /\ main' = "filter"
  /\ UNCHANGED <<hasLog, child, written, pipe, reader, lock, logOpen, terminal,
                 ending>>

(* _show_line_stdout_filter(), or no filter; and the first half of         *)
(* _line_not_important_stdout_filter(), which leaves the line unfinished.  *)
MainFilters ==
  /\ main = "filter"
  /\ \/ /\ cursor' = "start"
        /\ overwritable' = FALSE
        /\ lock' = Nobody
        /\ main' = "read"
     \/ /\ cursor' = "middle"
        /\ main' = "mark"
        /\ UNCHANGED <<overwritable, lock>>
  /\ UNCHANGED <<hasLog, child, written, pipe, reader, logged, logOpen, ending>>

MainMarks ==
  /\ main = "mark"
  /\ overwritable' = TRUE
  /\ lock' = Nobody
  /\ main' = "read"
  /\ UNCHANGED <<hasLog, child, written, pipe, reader, logged, logOpen, cursor,
                 ending>>

(* A mutant of Joined: proc.wait() is enough.                              *)
NoJoin == TRUE
Joined == reader \in Gone

(* proc.wait(), then stderr_thread.join().  communicate() returns what is  *)
(* still in the pipes: nothing, or the rest of stderr if the thread has    *)
(* died.  It is taken for the rest of stdout, which is the first of the    *)
(* pair, and the other one, which is empty, is written to the log.  The    *)
(* final newline leaves the flag set.                                      *)
MainWaits ==
  /\ main = "wait"
  /\ command \in Ended
  /\ Joined
  /\ pipe' = [s \in Streams |-> 0]
  /\ cursor' = "start"
  /\ ending' = IF command = "succeeded" THEN "returned" ELSE "failed"
  /\ main' = "unwind"
  /\ UNCHANGED <<hasLog, child, written, reader, lock, logged, logOpen,
                 overwritable>>

(* Ctrl+C at any point, or a filter or a write to the terminal or the log  *)
(* that raises something else; "with" releases the lock.                   *)
MainRaises ==
  /\ main \in InLoop \cup {"wait"}
  /\ \/ ending' = "interrupted"
     \/ main \in {"log", "filter", "mark", "wait"} /\ ending' = "exception"
  /\ lock' = IF lock = "main" THEN Nobody ELSE lock
  /\ main' = "unwind"
  /\ UNCHANGED <<hasLog, child, written, pipe, reader, logged, logOpen, terminal>>

(* A mutant of KillsChildren: SIGTERM is sent only after a failure.        *)
OnlyAfterFailure == ending = "failed"
KillsChildren == ending \in {"interrupted", "failed"}

(* Leaving "with logfile_path.open()" closes the log; then, unless the     *)
(* command succeeded, run_and_kill_children_on_exit() sends SIGTERM to the *)
(* process group for some exceptions only, and nobody reads stdout.        *)
MainUnwinds ==
  /\ main = "unwind"
  /\ logOpen' = FALSE
  /\ IF ending = "returned"
     THEN main' = "exited" /\ UNCHANGED command
     ELSE /\ main' = "exit"
          /\ command' = IF KillsChildren /\ command = "running" THEN "killed"
                        ELSE command
  /\ UNCHANGED <<hasLog, blocked, written, pipe, reader, lock, logged, terminal,
                 ending>>

(* The interpreter waits for its threads before it exits.                  *)
MainExits ==
  /\ main = "exit"
  /\ reader \in Gone
  /\ main' = "exited"
  /\ UNCHANGED <<hasLog, child, written, pipe, reader, lock, logged, logOpen,
                 terminal, ending>>

Main ==
  \/ MainReads \/ MainLocks \/ MainLogs \/ MainFilters \/ MainMarks
  \/ MainWaits \/ MainUnwinds \/ MainExits

-----------------------------------------------------------------------------
(* A mutant of MayRead: stderr is read after stdout, without a thread.     *)
AfterStdout == main \notin InLoop
MayRead == TRUE

(* _handle_stderr(): "for err_line in stream".                             *)
ReaderReads ==
  /\ reader = "read"
  /\ MayRead
  /\ \/ pipe["stderr"] > 0
        /\ pipe' = [pipe EXCEPT !["stderr"] = @ - 1]
        /\ reader' = "want lock"
     \/ AtEOF("stderr") /\ reader' = "done" /\ UNCHANGED pipe
  /\ UNCHANGED <<hasLog, child, written, main, lock, logged, logOpen, terminal,
                 ending>>

ReaderLocks ==
  /\ reader = "want lock"
  /\ Free
  /\ lock' = "reader"
  /\ reader' = "newline"
  /\ UNCHANGED <<hasLog, child, written, pipe, main, logged, logOpen, terminal,
                 ending>>

(* An unfinished line of stdout is ended first.                            *)
ReaderStartsLine ==
  /\ reader = "newline"
  /\ IF overwritable THEN overwritable' = FALSE /\ cursor' = "start"
     ELSE UNCHANGED terminal
  /\ reader' = "write"
  /\ UNCHANGED <<hasLog, child, written, pipe, main, lock, logged, logOpen, ending>>

(* The error line, here and in the log: "ValueError: write to closed file" *)
(* is for after Ctrl+C, and does not end the loop.                         *)
ReaderWrites ==
  /\ reader = "write"
  /\ cursor' = "start"
  /\ logged' = IF logOpen THEN [logged EXCEPT !["stderr"] = @ + 1] ELSE logged
  /\ lock' = Nobody
  /\ reader' = "read"
  /\ UNCHANGED <<hasLog, child, written, pipe, main, logOpen, overwritable, ending>>

(* An OSError of one of these writes (the terminal is gone, the disk full) *)
(* is not caught: it ends the thread, and nobody else reads stderr.        *)
ReaderRaises ==
  /\ reader = "write" \/ (reader = "newline" /\ overwritable)
  /\ cursor' \in {cursor, "start"}
  /\ lock' = Nobody
  /\ reader' = "dead"
  /\ UNCHANGED <<hasLog, child, written, pipe, main, logged, logOpen, overwritable,
                 ending>>

Reader == ReaderReads \/ ReaderLocks \/ ReaderStartsLine \/ ReaderWrites

Next == Command \/ Main \/ MainRaises \/ Reader \/ ReaderRaises

(* The operating system schedules both threads and the command, and the    *)
(* command does not run for ever; nobody has to press Ctrl+C, and no write *)
(* has to fail.                                                            *)
Spec ==
  /\ Init /\ [][Next]_vars
  /\ WF_vars(Command) /\ WF_vars(Main) /\ WF_vars(Reader)

-----------------------------------------------------------------------------
(* No more is logged than was written.                                     *)
LinesOK ==
  /\ written \in [Streams -> 0 .. MaxLines]
  /\ pipe \in [Streams -> 0 .. Capacity]
  /\ logged \in [Streams -> Nat]
  /\ \A s \in Streams : logged[s] + pipe[s] <= written[s]

(* Each thread has the lock exactly while it handles a line.               *)
LockOK ==
  /\ lock \in {Nobody, "main", "reader"}
  /\ lock = "main" <=> main \in {"log", "filter", "mark"}
  /\ lock = "reader" <=> reader \in {"newline", "write"}

(* The ranges of the variables, with the lines and the lock.               *)
TypeOK ==
  /\ hasLog \in BOOLEAN
  /\ command \in {"running"} \cup Ended
  /\ blocked \subseteq Piped /\ \A s, t \in blocked : s = t
  /\ main \in InLoop \cup {"wait"} \cup Unwinding
  /\ reader \in {"read", "want lock", "newline", "write"} \cup Gone
  /\ logOpen \in BOOLEAN /\ overwritable \in BOOLEAN
  /\ cursor \in {"start", "middle"}
  /\ ending \in {"none", "returned", "failed", "interrupted", "exception"}
  /\ LinesOK
  /\ LockOK

(* Whether the command failed or not, everything that it has written is in *)
(* the log that the user is told to see: stderr too, which another thread  *)
(* reads, unless that thread has died.                                     *)
LogIsComplete ==
  hasLog /\ ending \in {"returned", "failed"} =>
    /\ logged["stdout"] = written["stdout"]
    /\ reader # "dead" => logged = written

(* An error message never continues the line that is being overwritten,    *)
(* however the threads interleave, until the main thread gives up.         *)
ErrorsStartALine ==
  reader = "write" /\ main \notin Unwinding => cursor = "start"

(* The one way not to come to an end.                                      *)
Stuck ==
  /\ reader = "dead" /\ pipe["stderr"] = Capacity
  /\ command = "running" /\ "stderr" \in blocked
  /\ main = "read"

(* cheribuild gets to its end: no pipe runs full while nobody reads it,    *)
(* and the thread for stderr keeps nobody waiting, also after Ctrl+C,      *)
(* unless this thread has died and the command blocks on what it writes    *)
(* next.  What Ctrl+C interrupts is not running any more when cheribuild   *)
(* has ended (run_and_kill_children_on_exit()).                            *)
ProcessEnds ==
  /\ <>(main = "exited") \/ <>[]Stuck
  /\ [](main = "exited" /\ ending = "interrupted" => command # "running")
=============================================================================
