--------------------------- MODULE TestSessionProofs ---------------------------
(***************************************************************************)
(* The safety properties of TestSession, for any kernel ABIs, any          *)
(* configurations and any number of shared directories and of tests.  What *)
(* has been printed and not yet been read tells how far the guest must be; *)
(* what has been typed and not yet been executed, what it will still do.   *)
(* IInv is the invariant for all of them but ResultsAreKept, which needs   *)
(* StepInv.                                                                *)
(***************************************************************************)
EXTENDS TestSession, FiniteSetTheorems, SequenceTheorems, WellFoundedInduction, TLAPS

Message == Abis \cup BootOutput \cup SessionOutput

Line == {"escape", "enter", "boot", "root", "sh", "PS1=", "dhclient"}

Early == {"firmware", "autoboot", "loader"}
Started == {"kernel", "rc", "login", "csh", "sh", "failed"}
Phase == Early \cup Started \cup {"panicked", "halted", "dead"}

Mounting == {"mkdir", "p9fs", "check2617", "rm", "umount", "smbfs"}
InTest == {"rmxml", "cheribsdtest", "exitcode", "mv", "fsync", "pwd"}
Testing == {"settle", "su"} \cup InTest \cup {"poweroff", "exit 0", "exit 2"}
AtBoot == pc \in BootPoints \cup {"booted"}
StillRuns == pc \notin {"exit 0", "exit 1", "exit 2"}

CommandType ==
  [name: Commands \cup {"exitcode"}, dir: 1 .. NumDirs + 1, test: Tests]
    \cup [name: {"poweroff"}, dir: 1 .. NumDirs + 1, test: 1 .. NumTests + 1]

BootTypes ==
  /\ config \in Configs
  /\ ranManualBoot \in BOOLEAN /\ haveDhclient \in BOOLEAN
  /\ phase \in Phase
  /\ kernel \in [abi: Abis \cup {"none"}, alternate: BOOLEAN]
  /\ net \in {"down", "dhclient", "up"} /\ ownPrompt \in BOOLEAN
  /\ typed \in Seq(Line)
  /\ console \in Seq(Message)

ScriptTypes ==
  /\ pc \in BootPoints \cup {"booted", "exit 1"} \cup Mounting \cup Testing
  /\ wait \in {"send", "answer", "prompt", "drain", "ended"}
  /\ outcome \in {"none", "ok", "failed", "timeout", "error output"}
  /\ dir \in 1 .. NumDirs + 1 /\ trial \in 0 .. MaxSmbfsRetry - 1
  /\ AtBoot \/ pc \in Mounting => dir <= NumDirs
  /\ mounted \in [Dirs -> BOOLEAN]
  /\ issue2617Fixed \in {"unknown", "yes", "no"}
  /\ canUseP9fs \in BOOLEAN /\ canUseSmb \in BOOLEAN /\ sharedMountFailed \in BOOLEAN
  /\ test \in 1 .. NumTests + 1
  /\ pc \in InTest => test \in Tests
  /\ exitCode \in BOOLEAN /\ testsSuccessful \in BOOLEAN /\ gaveUp \in BOOLEAN

ShellTypes ==
  /\ commands \in Seq(CommandType)
  /\ running \in [name: Commands \cup {"none"}, dir: 1 .. NumDirs + 1, test: Tests,
                   ok: BOOLEAN]
  /\ lastStatus \in BOOLEAN
  /\ mounts \in [Dirs -> Seq({"p9fs", "smbfs"})]
  /\ passed \subseteq Tests /\ delivered \subseteq Tests

Types == BootTypes /\ ScriptTypes /\ ShellTypes

-----------------------------------------------------------------------------
(* What has been printed and not been read.                                *)
Shown == Range(console)

Crashed == phase \in {"panicked", "dead"}

(* Only a panic looks like one, and its last message is the end of the     *)
(* script that reads it.                                                   *)
PanicIsKnown ==
  /\ Shown \cap Panics # {} => Crashed
  /\ phase = "panicked" => "PANIC_KDB" \in Shown \/ pc = "exit 1"

(* Before the script has a shell it gives that nothing to do.              *)
NothingToDo == AtBoot => commands = <<>> /\ running = Idle /\ phase # "halted"

(* The script's prompt, once seen, is that of a POSIX shell.               *)
ShellIsOurs ==
  /\ "PEXPECT_PROMPT" \in Shown => ownPrompt
  /\ "dhclient" \in Range(typed) => ownPrompt \/ Crashed
  /\ ownPrompt => phase = "sh" \/ Crashed
  /\ pc \in {"dhclient", "bound", "noInterface", "netPrompt", "booted"}
       => ownPrompt \/ Crashed

(* What is known of the network.                                           *)
NetIsKnown ==
  /\ phase \in Early \cup {"kernel", "rc"} => net = "down"
  /\ Shown \cap {"DHCPACK", "bound to"} # {} \/ haveDhclient => net = "up"
  /\ "already running" \in Shown => net # "down"
  /\ pc \in {"bound", "netPrompt"} => net # "down" \/ Crashed
  /\ pc = "booted" /\ config.networkInterface => net # "down" \/ Crashed

(* The points of a boot: until the kernel runs, until the login, after it. *)
ForKernel == {"loader", "loaderPrompt", "kernel", "rootfs"}
BeforeLogin == ForKernel \cup {"login", "loginOnly"}
AfterLogin ==
  {"firstPrompt", "posixPrompt", "rcPrompt", "cshPrompt", "minimal", "setPrompt",
   "dhclient", "bound", "noInterface", "netPrompt", "booted"}
AfterKernel == {"rootfs", "login", "loginOnly"} \cup AfterLogin

(* The kernel is one that was asked for, if the script knows of one.       *)
KernelIsOurs ==
  /\ phase \in Early => /\ Shown \subseteq {"AUTOBOOT_PROMPT", "BOOT_LOADER_PROMPT"}
                        /\ pc \in {"loader", "loaderPrompt", "kernel"}
  /\ phase \in {"firmware", "autoboot"} =>
       "BOOT_LOADER_PROMPT" \notin Shown /\ ~ranManualBoot
  /\ /\ config.loaderKernelDir /\ phase \in Started
     /\ ranManualBoot \/ "BOOT_LOADER_PROMPT" \in Shown
     => kernel.alternate
  /\ config.loaderKernelDir /\ pc \in AfterKernel => ranManualBoot
  /\ \A abi \in Abis : abi \in Shown => kernel.abi = abi
  /\ config.abi # "any" /\ pc \in AfterKernel => kernel.abi = config.abi

(* The message before every message of a failure.                          *)
TryingFirst ==
  \E k \in DOMAIN console :
    /\ console[k] = "TRYING_TO_MOUNT_ROOT"
    /\ \A n \in DOMAIN console : console[n] \in BootFailures => k < n

(* What the points before the login leave for that.                        *)
FailureIsLeft ==
  /\ phase \in Early \cup {"kernel", "rc"} => Shown \cap BootFailures = {}
  /\ pc \in ForKernel /\ phase \in {"rc", "failed"} => TryingFirst
  /\ pc \in BeforeLogin /\ phase = "failed" => Shown \cap BootFailures # {}
  /\ Shown \cap {"LOGIN", "LOGIN_AS_ROOT_MINIMAL", "SHELL_OPEN"} # {} \/ pc \in AfterLogin
     => phase \in {"login", "csh", "sh"} \/ Crashed

Booting == AtBoot => ShellIsOurs /\ NetIsKnown /\ KernelIsOurs /\ FailureIsLeft

-----------------------------------------------------------------------------
(* The tests, and the questions for an exit code, among what was typed.    *)
IsTest(i) == commands[i].name = "cheribsdtest"
AsksExit(i) == commands[i].name = "exitcode"
IsOwnTest(i) == IsTest(i) /\ commands[i].test = test

NoCodeShown == Shown \cap ExitCodes = {}
NoTest ==
  /\ \A i \in DOMAIN commands : ~IsTest(i) /\ ~AsksExit(i)
  /\ running.name # "cheribsdtest"

(* The script waits for the test, and then for its exit code.              *)
AwaitsTest ==
  \/ pc = "cheribsdtest" /\ wait # "send"
  \/ pc = "exitcode" /\ wait = "send"
AwaitsExit == pc = "exitcode" /\ wait = "answer"

(* The shell executes the test of the script, or has executed it last.     *)
TestIsLast ==
  \/ running.name = "cheribsdtest" /\ running.test = test
  \/ running = Idle /\ (lastStatus => test \in passed)

(* The first "m" commands that were typed end with that test, or it was    *)
(* before them; there is no other one, and no exit code has been asked for. *)
TestAhead(m) ==
  /\ NoCodeShown
  /\ \A i \in DOMAIN commands : i <= m => ~AsksExit(i)
  /\ \A i \in DOMAIN commands : i < m => ~IsTest(i)
  /\ IF m = 0 THEN TestIsLast ELSE IsOwnTest(m) /\ running.name # "cheribsdtest"

(* The test's exit code is there to be read.                               *)
CodeIsOwn ==
  \E k \in DOMAIN console :
    /\ console[k] \in ExitCodes
    /\ Passed(console[k]) => test \in passed
    /\ \A n \in DOMAIN console : console[n] \in ExitCodes => n = k

(* The exit code that is printed is that of the test that the script is at: *)
(* no test is typed while the exit code of another is still to come.       *)
ExitCodeIsItsOwn ==
  /\ StillRuns /\ ~AwaitsTest /\ ~AwaitsExit => NoTest /\ NoCodeShown
  /\ AwaitsTest => TestAhead(Len(commands))
  /\ AwaitsExit =>
       \/ /\ commands # <<>> /\ AsksExit(Len(commands))
          /\ ~IsTest(Len(commands)) /\ TestAhead(Len(commands) - 1)
       \/ NoTest /\ CodeIsOwn

(* What the script has counted is what it has read.                        *)
Untested == AtBoot \/ pc \in Mounting \cup {"settle", "su"}
TestsAreCounted ==
  /\ Untested => test = 1 /\ testsSuccessful
  /\ pc \in {"poweroff", "exit 0"} => test = NumTests + 1
  /\ exitCode => test \in passed
  /\ reported \subseteq passed
  /\ testsSuccessful => \A t \in Tests : t < test => t \in reported
  /\ pc = "exit 0" => testsSuccessful

(* What may become of the test itself: its output does not matter, and it   *)
(* is interrupted if it takes too long.                                    *)
TestEnds ==
  pc = "cheribsdtest" =>
    wait \in {"send", "answer"} \/ (wait = "ended" /\ outcome \in {"ok", "timeout"})

IInv ==
  /\ Types /\ PanicIsKnown /\ NothingToDo /\ Booting
  /\ ExitCodeIsItsOwn /\ TestsAreCounted

-----------------------------------------------------------------------------
(* Natural numbers have a minimum.                                         *)
LEMMA Least ==
  ASSUME NEW T, T \subseteq Nat, T # {}
  PROVE  \E x \in T : \A y \in T : x <= y
<1> DEFINE F == { 1 .. x : x \in T }
<1>1. F \subseteq FiniteSubsetsOf(Nat) /\ F # {}
  <2>1. ASSUME NEW x \in T PROVE 1 .. x \subseteq Nat /\ IsFiniteSet(1 .. x)
    <3>1. 1 \in Int /\ x \in Int
      OBVIOUS
    <3> QED
      BY <3>1, FS_Interval
  <2> QED
    BY <2>1 DEF FiniteSubsetsOf
<1>2. PICK s \in F : \A u \in F : ~(<<u, s>> \in StrictSubsetOrdering(Nat))
  <2> HIDE DEF F
  <2> QED
    BY <1>1, FS_StrictSubsetOrderingWellFounded, WFMin
<1>3. PICK x \in T : s = 1 .. x
  OBVIOUS
<1>4. ASSUME NEW y \in T, y < x PROVE FALSE
  <2>1. 1 .. y \in F
    OBVIOUS
  <2>2. 1 .. y \subseteq 1 .. x
    BY <1>4
  <2>3. x \in 1 .. x /\ x \notin 1 .. y
    BY <1>4
  <2>4. 1 .. y \in SUBSET Nat /\ 1 .. x \in SUBSET Nat /\ 1 .. y # 1 .. x
    BY <2>3
  <2>5. <<1 .. y, 1 .. x>> \in StrictSubsetOrdering(Nat)
    BY <2>2, <2>4 DEF StrictSubsetOrdering
  <2> QED
    BY <2>1, <2>5, <1>2, <1>3
<1> QED
  BY <1>4

(* The messages are finitely many.                                         *)
LEMMA FewMessages ==
  IsFiniteSet(Message \cup {"TIMEOUT", "EOF"})
<1>1. ASSUME NEW S, IsFiniteSet(S), NEW a, NEW b, NEW c, NEW d
      PROVE  IsFiniteSet(S \cup {a, b, c, d})
  <2>1. \A T, x : IsFiniteSet(T) => IsFiniteSet(T \cup {x})
    BY FS_AddElement
  <2>2. IsFiniteSet((((S \cup {a}) \cup {b}) \cup {c}) \cup {d})
    BY <1>1, <2>1
  <2>3. S \cup {a, b, c, d} = (((S \cup {a}) \cup {b}) \cup {c}) \cup {d}
    OBVIOUS
  <2> QED
    BY <2>2, <2>3
<1> DEFINE S1 == Abis \cup {"AUTOBOOT_PROMPT", "BOOT_LOADER_PROMPT",
                            "TRYING_TO_MOUNT_ROOT", "STARTING_INIT"}
           S2 == S1 \cup {"CHERI_TRAP", "BOOT_FAILURE", "BOOT_FAILURE3", "LOGIN"}
           S3 == S2 \cup {"LOGIN_AS_ROOT_MINIMAL", "SHELL_OPEN",
                          "INITIAL_PROMPT_CSH", "INITIAL_PROMPT_SH"}
           S4 == S3 \cup {"PEXPECT_PROMPT", "PANIC", "PANIC_KDB", "DHCPACK"}
           S5 == S4 \cup {"bound to", "already running", "no interface",
                          "__COMMAND SUCCESSFUL__"}
           S6 == S5 \cup {"__COMMAND FAILED__", "EXITCODE=0", "EXITCODE=1", "Uptime: "}
           S7 == S6 \cup {"Please press any key to reboot.", "unable to open connection",
                          "TIMEOUT", "EOF"}
<1>2. IsFiniteSet(S1)
  BY <1>1, BootAssumption DEF BootAssumption
<1>3. IsFiniteSet(S2)
  <2> HIDE DEF S1
  <2> QED
    BY <1>1, <1>2
<1>4. IsFiniteSet(S3)
  <2> HIDE DEF S2
  <2> QED
    BY <1>1, <1>3
<1>5. IsFiniteSet(S4)
  <2> HIDE DEF S3
  <2> QED
    BY <1>1, <1>4
<1>6. IsFiniteSet(S5)
  <2> HIDE DEF S4
  <2> QED
    BY <1>1, <1>5
<1>7. IsFiniteSet(S6)
  <2> HIDE DEF S5
  <2> QED
    BY <1>1, <1>6
<1>8. IsFiniteSet(S7)
  <2> HIDE DEF S6
  <2> QED
    BY <1>1, <1>7
<1>9. S7 = Message \cup {"TIMEOUT", "EOF"}
  BY Zenon DEF Message, BootOutput, SessionOutput
<1> QED
  BY <1>8, <1>9

(* What a short list of messages holds.                                    *)
LEMMA Tuples ==
  /\ Range(<<>>) = {}
  /\ \A a : Range(<<a>>) = {a}
  /\ \A a, b : Range(<<a, b>>) = {a, b}
  /\ \A a, b, c : Range(<<a, b, c>>) = {a, b, c}
BY DEF Range

(* A short list of messages is a sequence of them.                         *)
LEMMA Short ==
  /\ \A a \in Message : <<a>> \in Seq(Message)
  /\ \A a, b \in Message : <<a, b>> \in Seq(Message)
  /\ \A a, b, c \in Message : <<a, b, c>> \in Seq(Message)
OBVIOUS

(* What the guest prints is unread, and in order.                          *)
LEMMA Printed ==
  ASSUME console \in Seq(Message), NEW ms \in Seq(Message), Prints(ms)
  PROVE  /\ console' \in Seq(Message)
         /\ Shown' = Shown \cup Range(ms)
         /\ TryingFirst => TryingFirst'
<1>1. /\ console' \in Seq(Message) /\ Len(console) \in Nat
      /\ Len(console') = Len(console) + Len(ms) /\ Len(ms) \in Nat
      /\ \A n \in 1 .. Len(console') :
           console'[n] = IF n <= Len(console) THEN console[n] ELSE ms[n - Len(console)]
  BY ConcatProperties DEF Prints
<1>2. DOMAIN console = 1 .. Len(console) /\ DOMAIN console' = 1 .. Len(console')
  BY <1>1
<1>3. Shown' = Shown \cup Range(ms)
  BY RangeConcatenation DEF Prints, Shown
<1>4. ASSUME TryingFirst PROVE TryingFirst'
  <2>1. PICK k \in 1 .. Len(console) :
          /\ console[k] = "TRYING_TO_MOUNT_ROOT"
          /\ \A n \in 1 .. Len(console) : console[n] \in BootFailures => k < n
    BY <1>2, <1>4 DEF TryingFirst
  <2>2. k \in DOMAIN console' /\ console'[k] = "TRYING_TO_MOUNT_ROOT"
    BY <1>1, <1>2, <2>1
  <2>3. ASSUME NEW n \in 1 .. Len(console'), console'[n] \in BootFailures PROVE k < n
    BY <1>1, <2>1, <2>3
  <2> QED
    BY <1>2, <2>2, <2>3 DEF TryingFirst
<1> QED
  BY <1>1, <1>3, <1>4

(* The rest of a sequence, from a place in it on.                          *)
LEMMA Suffix ==
  ASSUME NEW S, NEW s \in Seq(S), NEW f \in 1 .. Len(s)
  PROVE  /\ SubSeq(s, f + 1, Len(s)) \in Seq(S)
         /\ Len(SubSeq(s, f + 1, Len(s))) = Len(s) - f
         /\ \A i \in 1 .. Len(s) - f : SubSeq(s, f + 1, Len(s))[i] = s[f + i]
<1>1. f \in Nat /\ Len(s) \in Nat /\ f + 1 \in Int /\ f <= Len(s)
  OBVIOUS
<1>2. \A i \in f + 1 .. Len(s) : s[i] \in S
  BY <1>1, ElementOfSeq
<1>3. /\ SubSeq(s, f + 1, Len(s)) \in Seq(S)
      /\ Len(SubSeq(s, f + 1, Len(s))) =
           IF f + 1 <= Len(s) THEN Len(s) - (f + 1) + 1 ELSE 0
      /\ \A i \in 1 .. Len(s) - (f + 1) + 1 :
           SubSeq(s, f + 1, Len(s))[i] = s[f + 1 + i - 1]
  BY <1>1, <1>2, SubSeqProperties
<1>4. Len(s) - (f + 1) + 1 = Len(s) - f /\ \A i \in Int : f + 1 + i - 1 = f + i
  BY <1>1
<1>5. (IF f + 1 <= Len(s) THEN Len(s) - (f + 1) + 1 ELSE 0) = Len(s) - f
  BY <1>1
<1>6. Len(SubSeq(s, f + 1, Len(s))) = Len(s) - f
  BY <1>3, <1>5
<1>7. ASSUME NEW i \in 1 .. Len(s) - f PROVE SubSeq(s, f + 1, Len(s))[i] = s[f + i]
  <2>1. i \in Int /\ i \in 1 .. Len(s) - (f + 1) + 1
    BY <1>4
  <2>2. SubSeq(s, f + 1, Len(s))[i] = s[f + 1 + i - 1]
    BY <1>3, <2>1
  <2>3. f + 1 + i - 1 = f + i
    BY <1>4, <2>1
  <2> QED
    BY <2>2, <2>3
<1> QED
  BY <1>3, <1>6, <1>7

(* Where expect() finds a message, and where it finds none.                *)
LEMMA Consumed ==
  ASSUME console \in Seq(Message), NEW P, Consume(P)
  PROVE  /\ console' \in Seq(Message)
         /\ Shown' \subseteq Shown
         /\ Matches(P) = {} => console' = console /\ Shown \cap (P \cup Panics) = {}
         /\ Matches(P) # {} =>
              \E m \in Shown \cap (P \cup Panics) :
                /\ Outcomes(P) = {m}
                /\ \A x \in Shown \cap (P \cup Panics) : x = m \/ x \in Shown'
                /\ /\ TryingFirst /\ BootMessages \subseteq P
                   /\ m # "TRYING_TO_MOUNT_ROOT"
                   => TryingFirst' /\ m \notin BootFailures
<1>1. Len(console) \in Nat /\ DOMAIN console = 1 .. Len(console)
  OBVIOUS
<1>2. CASE Matches(P) = {}
  <2>1. console' = console
    BY <1>2 DEF Consume
  <2>2. Shown \cap (P \cup Panics) = {}
    BY <1>2 DEF Matches, Shown, Range
  <2>3. Shown' = Shown
    BY <2>1 DEF Shown
  <2> QED
    BY <1>2, <2>1, <2>2, <2>3
<1>3. CASE Matches(P) # {}
  <2> DEFINE first == FirstMatch(P)
             m == console[first]
  <2>1. Matches(P) \subseteq 1 .. Len(console)
    BY <1>1 DEF Matches
  <2>2. first \in Matches(P) /\ \A k \in Matches(P) : first <= k
    <3>1. Matches(P) \subseteq Nat
      BY <2>1
    <3>2. \E n \in Matches(P) : \A k \in Matches(P) : n <= k
      BY <1>3, <3>1, Least
    <3> QED
      BY <3>2 DEF FirstMatch
  <2>3. console' = SubSeq(console, first + 1, Len(console))
    BY <1>3 DEF Consume
  <2>4. first \in 1 .. Len(console)
    BY <2>1, <2>2
  <2> HIDE DEF first
  <2>5. /\ console' \in Seq(Message)
        /\ Len(console') = Len(console) - first
        /\ \A i \in 1 .. Len(console) - first : console'[i] = console[first + i]
    BY <2>3, <2>4, Suffix
  <2>6. DOMAIN console' = 1 .. Len(console')
    BY <2>5
  <2>7. \A n \in 1 .. Len(console) : n > first =>
          n - first \in 1 .. Len(console') /\ console'[n - first] = console[n]
    BY <1>1, <2>4, <2>5
  <2>8. \A i \in 1 .. Len(console') :
          first + i \in 1 .. Len(console) /\ console'[i] = console[first + i]
    BY <1>1, <2>4, <2>5
  <2>9. Shown' \subseteq Shown
    BY <1>1, <2>6, <2>8 DEF Shown, Range
  <2>10. m \in Shown \cap (P \cup Panics)
    BY <1>1, <2>2, <2>4 DEF Shown, Range, Matches
  <2>11. Outcomes(P) = {m}
    BY <1>3 DEF Outcomes, first
  <2>12. ASSUME NEW x \in Shown \cap (P \cup Panics) PROVE x = m \/ x \in Shown'
    <3>1. PICK n \in 1 .. Len(console) : x = console[n]
      BY <1>1 DEF Shown, Range
    <3>2. first <= n
      BY <1>1, <2>2, <3>1 DEF Matches
    <3>3. n = first \/ n > first
      BY <3>2, <2>4
    <3>4. n > first => x \in Shown'
      BY <2>6, <2>7, <3>1 DEF Shown, Range
    <3> QED
      BY <3>1, <3>3, <3>4
  <2>13. ASSUME TryingFirst, BootMessages \subseteq P, m # "TRYING_TO_MOUNT_ROOT"
         PROVE  TryingFirst' /\ m \notin BootFailures
    <3>1. PICK k \in 1 .. Len(console) :
            /\ console[k] = "TRYING_TO_MOUNT_ROOT"
            /\ \A n \in 1 .. Len(console) : console[n] \in BootFailures => k < n
      BY <1>1, <2>13 DEF TryingFirst
    <3>2. k \in Matches(P)
      BY <1>1, <3>1, <2>13 DEF Matches, BootMessages
    <3>3. first < k
      <4>1. first <= k /\ first # k
        BY <2>2, <2>13, <3>1, <3>2
      <4> QED
        BY <4>1, <2>4
    <3>4. m \notin BootFailures
      BY <2>4, <3>1, <3>3
    <3>5. k - first \in 1 .. Len(console') /\ console'[k - first] = "TRYING_TO_MOUNT_ROOT"
      BY <2>7, <3>1, <3>3
    <3>6. ASSUME NEW i \in 1 .. Len(console'), console'[i] \in BootFailures
          PROVE  k - first < i
      BY <2>4, <2>8, <3>1, <3>6
    <3> QED
      BY <2>6, <3>4, <3>5, <3>6 DEF TryingFirst
  <2> QED
    BY <1>3, <2>5, <2>9, <2>10, <2>11, <2>12, <2>13
<1> QED
  BY <1>2, <1>3

(* Of the panics only the second kind is detected.                         *)
LEMMA OnlySecondRaises ==
  ASSUME NEW P, P \subseteq Message \cup {"TIMEOUT", "EOF"}
  PROVE  Returned(P) = Outcomes(P) \ ({"PANIC_KDB"} \cup ({"TIMEOUT", "EOF"} \ P))
<1>1. Cardinality(P) \in Nat
  BY FewMessages, FS_Subset, FS_CardinalityType
<1>2. ASSUME NEW m PROVE Raises(P, m) <=> m \in {"PANIC_KDB"} \cup ({"TIMEOUT", "EOF"} \ P)
  <2>1. DOMAIN PanicRegexes = {1, 2} /\ PanicRegexes[1] = "PANIC"
        /\ PanicRegexes[2] = "PANIC_KDB"
    BY DEF PanicRegexes
  <2>2. ~Detects(Cardinality(P) + 1 - 1, Cardinality(P))
        /\ Detects(Cardinality(P) + 2 - 1, Cardinality(P))
    BY <1>1 DEF Detects
  <2> QED
    BY <2>1, <2>2 DEF Raises
<1> QED
  BY <1>2 DEF Returned

(* The patterns of a panic.                                                *)
LEMMA TwoPanics ==
  Panics = {"PANIC", "PANIC_KDB"}
BY DEF Panics, PanicRegexes

(* What an expect() that returns has read, and what it has left.           *)
LEMMA Expected ==
  ASSUME console \in Seq(Message), NEW P, P \subseteq Message \cup {"TIMEOUT", "EOF"},
         Consume(P)
  PROVE  /\ console' \in Seq(Message)
         /\ Shown' \subseteq Shown
         /\ \A m \in Returned(P) :
              /\ "PANIC_KDB" \in Shown => "PANIC_KDB" \in Shown'
              /\ m \in Shown \cap (P \cup {"PANIC"}) \/ m \in {"TIMEOUT", "EOF"} \cap P
              /\ m \in {"TIMEOUT", "EOF"} => console' = console
              /\ \A x \in Shown \cap P : x = m \/ x \in Shown'
              /\ /\ TryingFirst /\ BootMessages \subseteq P
                 /\ m # "TRYING_TO_MOUNT_ROOT"
                 => TryingFirst' /\ m \notin BootFailures
<1>1. Returned(P) = Outcomes(P) \ ({"PANIC_KDB"} \cup ({"TIMEOUT", "EOF"} \ P))
  BY OnlySecondRaises
<1>2. Abis \cap {"TIMEOUT", "EOF"} = {} /\ Message \cap {"TIMEOUT", "EOF"} = {}
  BY BootAssumption DEF BootAssumption, Message, BootOutput, SessionOutput
<1>3. Shown \subseteq Message
  BY RangeOfSeq DEF Shown
<1>4. CASE Matches(P) = {}
  <2>1. console' = console /\ Shown \cap (P \cup Panics) = {} /\ Shown' \subseteq Shown
    BY <1>4, Consumed
  <2>2. Outcomes(P) \subseteq {"TIMEOUT", "EOF"}
    BY <1>4 DEF Outcomes
  <2>3. "PANIC_KDB" \notin Shown
    BY <2>1, TwoPanics
  <2>4. TryingFirst /\ BootMessages \subseteq P => FALSE
    BY <2>1 DEF TryingFirst, BootMessages, Shown, Range
  <2> QED
    BY <1>1, <2>1, <2>2, <2>3, <2>4
<1>5. CASE Matches(P) # {}
  <2>1. console' \in Seq(Message) /\ Shown' \subseteq Shown
    BY Consumed
  <2>2. PICK m \in Shown \cap (P \cup Panics) :
          /\ Outcomes(P) = {m}
          /\ \A x \in Shown \cap (P \cup Panics) : x = m \/ x \in Shown'
          /\ /\ TryingFirst /\ BootMessages \subseteq P
             /\ m # "TRYING_TO_MOUNT_ROOT"
             => TryingFirst' /\ m \notin BootFailures
    BY <1>5, Consumed
  <2>3. \A r \in Returned(P) : r = m /\ m # "PANIC_KDB"
    BY <1>1, <2>2
  <2>4. m \notin {"TIMEOUT", "EOF"}
    BY <1>2, <1>3, <2>2
  <2>5. ASSUME NEW r \in Returned(P)
        PROVE  /\ "PANIC_KDB" \in Shown => "PANIC_KDB" \in Shown'
               /\ r \in Shown \cap (P \cup {"PANIC"})
               /\ \A x \in Shown \cap P : x = r \/ x \in Shown'
    BY <2>2, <2>3, TwoPanics
  <2> QED
    BY <2>1, <2>2, <2>3, <2>4, <2>5
<1> QED
  BY <1>4, <1>5

-----------------------------------------------------------------------------
(* Short sequences, and where they start.                                  *)
LEMMA ShortOnes ==
  /\ DOMAIN <<>> = {}
  /\ \A x : DOMAIN <<x>> = {1} /\ Len(<<x>>) = 1
  /\ \A x, y : DOMAIN <<x, y>> = 1 .. 2 /\ <<x, y>>[1] = x /\ <<x, y>>[2] = y
  /\ \A i, j \in 1 .. 3 : i + 1 <= j => i \in {1, 2}
  /\ \A i, j \in 1 .. 2 : i + 1 <= j => i = 1 /\ j = 2
  /\ \A i, j \in 1 .. 2 : ~(i + 2 <= j)
  /\ \A i, j \in {1} : ~(i + 1 <= j) /\ ~(i + 2 <= j)
  /\ \A s \in Seq(Message) : \A j \in DOMAIN s : 1 <= j
OBVIOUS

(* What is printed comes after the rest.                                   *)
LEMMA PrintedWhere ==
  ASSUME console \in Seq(Message), NEW ms \in Seq(Message), Prints(ms)
  PROVE  /\ Len(console) \in Nat /\ DOMAIN console = 1 .. Len(console)
         /\ DOMAIN console' = 1 .. Len(console) + Len(ms)
         /\ \A n \in DOMAIN console : n \in DOMAIN console' /\ console'[n] = console[n]
         /\ \A n \in DOMAIN console' : n > Len(console) =>
              n - Len(console) \in DOMAIN ms /\ console'[n] = ms[n - Len(console)]
         /\ DOMAIN ms = 1 .. Len(ms) /\ Len(ms) \in Nat
<1>1. /\ console' \in Seq(Message) /\ Len(console) \in Nat
      /\ Len(console') = Len(console) + Len(ms) /\ Len(ms) \in Nat
      /\ \A n \in 1 .. Len(console') :
           console'[n] = IF n <= Len(console) THEN console[n] ELSE ms[n - Len(console)]
  BY ConcatProperties DEF Prints
<1>2. DOMAIN console = 1 .. Len(console) /\ DOMAIN console' = 1 .. Len(console')
      /\ DOMAIN ms = 1 .. Len(ms)
  BY <1>1
<1> QED
  BY <1>1, <1>2

(* No expect() comes to anything any more: all would find the panic.       *)
Doomed == console # <<>> /\ console[1] = "PANIC_KDB"

(* What expect() leaves is the end of what there was.                      *)
Cut(n) ==
  /\ n \in DOMAIN console
  /\ DOMAIN console' = 1 .. Len(console) - n
  /\ \A i \in 1 .. Len(console) - n : n + i \in DOMAIN console /\ console'[i] = console[n + i]

(* Where an expect() that returns has cut.                                 *)
LEMMA CutWhere ==
  ASSUME console \in Seq(Message), NEW P, P \subseteq Message \cup {"TIMEOUT", "EOF"},
         Consume(P), NEW m \in Returned(P)
  PROVE  /\ ~Doomed
         /\ \/ m \in {"TIMEOUT", "EOF"} \cap P /\ console' = console
            \/ \E n : Cut(n) /\ console[n] = m /\ m \in P \cup {"PANIC"}
<1>1. Len(console) \in Nat /\ DOMAIN console = 1 .. Len(console)
  OBVIOUS
<1>2. m \in Outcomes(P) \ ({"PANIC_KDB"} \cup ({"TIMEOUT", "EOF"} \ P))
  BY OnlySecondRaises
<1>3. CASE Matches(P) = {}
  <2>1. console' = console /\ m \in {"TIMEOUT", "EOF"}
    BY <1>2, <1>3 DEF Consume, Outcomes
  <2>2. ~Doomed
    <3>1. ASSUME Doomed PROVE FALSE
      <4>1. 1 \in DOMAIN console /\ console[1] \in Panics
        BY <1>1, <3>1, EmptySeq, TwoPanics DEF Doomed
      <4> QED
        BY <1>3, <4>1 DEF Matches
    <3> QED
      BY <3>1
  <2> QED
    BY <1>2, <2>1, <2>2
<1>4. CASE Matches(P) # {}
  <2> DEFINE first == FirstMatch(P)
  <2>1. Matches(P) \subseteq 1 .. Len(console)
    BY <1>1 DEF Matches
  <2>2. first \in Matches(P) /\ \A k \in Matches(P) : first <= k
    <3>1. Matches(P) \subseteq Nat
      BY <2>1
    <3>2. \E n \in Matches(P) : \A k \in Matches(P) : n <= k
      BY <1>4, <3>1, Least
    <3> QED
      BY <3>2 DEF FirstMatch
  <2>3. console' = SubSeq(console, first + 1, Len(console)) /\ m = console[first]
    BY <1>2, <1>4 DEF Consume, Outcomes
  <2>4. first \in 1 .. Len(console) /\ m \in P \cup Panics
    BY <2>1, <2>2, <2>3 DEF Matches
  <2> HIDE DEF first
  <2>5. /\ console' \in Seq(Message)
        /\ Len(console') = Len(console) - first
        /\ \A i \in 1 .. Len(console) - first : console'[i] = console[first + i]
    BY <2>3, <2>4, Suffix
  <2>6. Cut(first)
    <3>1. DOMAIN console' = 1 .. Len(console) - first
      BY <2>5
    <3>2. \A i \in 1 .. Len(console) - first : first + i \in DOMAIN console
      BY <1>1, <2>4
    <3> QED
      BY <1>1, <2>4, <2>5, <3>1, <3>2 DEF Cut
  <2>7. m \in P \cup {"PANIC"}
    BY <1>2, <2>4, TwoPanics
  <2>8. ~Doomed
    <3>1. ASSUME Doomed PROVE FALSE
      <4>1. 1 \in DOMAIN console /\ console[1] \in Panics /\ console[1] = "PANIC_KDB"
        BY <1>1, <3>1, EmptySeq, TwoPanics DEF Doomed
      <4>2. first <= 1
        BY <2>2, <4>1 DEF Matches
      <4>3. first = 1
        BY <2>4, <4>2
      <4> QED
        BY <1>2, <2>3, <4>1, <4>3
    <3> QED
      BY <3>1
  <2> QED
    BY <2>3, <2>6, <2>7, <2>8
<1> QED
  BY <1>3, <1>4

-----------------------------------------------------------------------------
(* The script's steps of a boot.                                           *)

(* The names of the ABIs are other words than the messages.                *)
LEMMA Words ==
  /\ Message \cap {"TIMEOUT", "EOF", "none", "any"} = {}
  /\ Abis \cap (BootOutput \cup SessionOutput) = {}
BY BootAssumption, SessionAssumption
   DEF BootAssumption, SessionAssumption, Message, BootOutput, SessionOutput

(* The points of a boot are before the login or after it.                  *)
LEMMA Points ==
  /\ BootPoints \cup {"booted"} = BeforeLogin \cup AfterLogin
  /\ "booted" \notin BootPoints
BY DEF BootPoints, Patterns, BeforeLogin, ForKernel, AfterLogin

(* The prompts of the loader are not messages of a boot.                   *)
LEMMA LoaderSaysNoMore ==
  {"AUTOBOOT_PROMPT", "BOOT_LOADER_PROMPT"} \cap BootMessages = {}
BY Words DEF BootMessages, InitMessages, BootFailures, BootOutput

(* The patterns, point by point.                                           *)
LEMMA PatternsAre ==
  /\ Patterns["loader"] = LoaderBootMessages
  /\ Patterns["loaderPrompt"] = LoaderBootPromptMessages
  /\ Patterns["kernel"] = BootMessages
  /\ Patterns["rootfs"] = BootMessages
  /\ Patterns["login"] = BootExpectStrings \cup {"DHCPACK", "CHERI_TRAP"}
  /\ Patterns["loginOnly"] = BootExpectStrings \cup {"CHERI_TRAP"}
  /\ Patterns["firstPrompt"] = InitialPrompts
  /\ Patterns["posixPrompt"] = InitialPrompts
  /\ \A p \in {"rcPrompt", "cshPrompt", "minimal"} : Patterns[p] = {"INITIAL_PROMPT_SH"}
  /\ \A p \in {"setPrompt", "noInterface", "netPrompt"} : Patterns[p] = {"PEXPECT_PROMPT"}
  /\ Patterns["dhclient"] = {"TIMEOUT", "DHCPACK", "already running", "no interface"}
  /\ Patterns["bound"] = {"TIMEOUT", "bound to"}
BY DEF Patterns

(* The patterns are messages; only two points also wait for a timeout.     *)
LEMMA PointPatterns ==
  ASSUME NEW p \in BootPoints
  PROVE  /\ Patterns[p] \subseteq Message \cup {"TIMEOUT"}
         /\ "TIMEOUT" \in Patterns[p] => p \in {"dhclient", "bound"}
         /\ p \in ForKernel => BootMessages \subseteq Patterns[p]
<1>1. /\ InitMessages \subseteq Message /\ BootFailures \subseteq Message
      /\ BootMessages \subseteq Message
      /\ LoaderBootMessages = BootMessages \cup {"BOOT_LOADER_PROMPT", "AUTOBOOT_PROMPT"}
      /\ LoaderBootPromptMessages = BootMessages \cup {"BOOT_LOADER_PROMPT"}
      /\ "BOOT_LOADER_PROMPT" \in Message /\ "AUTOBOOT_PROMPT" \in Message
  BY DEF LoaderBootMessages, LoaderBootPromptMessages, BootMessages, InitMessages,
         BootFailures, Message, BootOutput
<1>2. "TIMEOUT" \notin Message
  BY Words
<1>7. /\ BootExpectStrings \subseteq Message /\ InitialPrompts \subseteq Message
      /\ "DHCPACK" \in Message /\ "CHERI_TRAP" \in Message /\ "PEXPECT_PROMPT" \in Message
      /\ "already running" \in Message /\ "no interface" \in Message
      /\ "bound to" \in Message /\ "INITIAL_PROMPT_SH" \in Message
  BY DEF BootExpectStrings, InitialPrompts, BootFailures, Message, BootOutput
<1>3. CASE p \in ForKernel
  <2>1. Patterns[p] \in {LoaderBootMessages, LoaderBootPromptMessages, BootMessages}
    BY <1>3, PatternsAre DEF ForKernel
  <2>2. Patterns[p] \subseteq Message /\ BootMessages \subseteq Patterns[p]
    BY <1>1, <2>1
  <2> QED
    BY <1>2, <2>2
<1>4. CASE p \in {"login", "loginOnly"}
  BY <1>7, <1>2, <1>4, PatternsAre DEF ForKernel
<1>5. CASE p \in {"firstPrompt", "posixPrompt", "rcPrompt", "cshPrompt", "minimal", "setPrompt"}
  <2>1. p \in {"firstPrompt", "posixPrompt"} => Patterns[p] = InitialPrompts
    BY PatternsAre
  <2>2. p \in {"rcPrompt", "cshPrompt", "minimal"} => Patterns[p] = {"INITIAL_PROMPT_SH"}
    BY PatternsAre
  <2>3. p = "setPrompt" => Patterns[p] = {"PEXPECT_PROMPT"}
    BY PatternsAre
  <2>4. Patterns[p] \subseteq Message
    BY <1>5, <1>7, <2>1, <2>2, <2>3
  <2> QED
    BY <1>2, <1>5, <2>4 DEF ForKernel
<1>6. CASE p \in {"dhclient", "bound", "noInterface", "netPrompt"}
  BY <1>7, <1>2, <1>6, PatternsAre DEF ForKernel
<1> QED
  BY <1>3, <1>4, <1>5, <1>6, Points DEF BeforeLogin, AfterLogin

(* What a step of the boot that goes on has read.                          *)
LEMMA BootReads ==
  ASSUME IInv, BootStep, NEW p, NEW m \in Awaited(p)
  PROVE  /\ p \in BootPoints /\ pc = p
         /\ config' = config /\ phase' = phase /\ kernel' = kernel
         /\ net' = net /\ ownPrompt' = ownPrompt
         /\ console' \in Seq(Message) /\ Shown' \subseteq Shown
         /\ \/ m \in Shown \cap (Patterns[p] \cup {"PANIC"})
            \/ m = "TIMEOUT" /\ p \in {"dhclient", "bound"}
         /\ m = "PANIC" => Crashed
         /\ "PANIC_KDB" \in Shown => "PANIC_KDB" \in Shown'
         /\ \A x \in Shown \cap Patterns[p] : x = m \/ x \in Shown'
         /\ p \in ForKernel /\ TryingFirst /\ m # "TRYING_TO_MOUNT_ROOT"
              => TryingFirst' /\ m \notin BootFailures
<1>1. pc = p /\ p \in BootPoints /\ Consume(Patterns[p]) /\ m \in Returned(Patterns[p])
  BY DEF BootStep, Awaited
<1>2. config' = config /\ phase' = phase /\ kernel' = kernel
      /\ net' = net /\ ownPrompt' = ownPrompt
  BY DEF BootStep, guest
<1>3. console \in Seq(Message)
  BY DEF IInv, Types, BootTypes
<1>4. Patterns[p] \subseteq Message \cup {"TIMEOUT", "EOF"} /\ "EOF" \notin Patterns[p]
      /\ ("TIMEOUT" \in Patterns[p] => p \in {"dhclient", "bound"})
      /\ (p \in ForKernel => BootMessages \subseteq Patterns[p])
  BY <1>1, PointPatterns, Words
<1>5. /\ console' \in Seq(Message) /\ Shown' \subseteq Shown
      /\ "PANIC_KDB" \in Shown => "PANIC_KDB" \in Shown'
      /\ m \in Shown \cap (Patterns[p] \cup {"PANIC"}) \/ m \in {"TIMEOUT", "EOF"} \cap Patterns[p]
      /\ \A x \in Shown \cap Patterns[p] : x = m \/ x \in Shown'
      /\ /\ TryingFirst /\ BootMessages \subseteq Patterns[p]
         /\ m # "TRYING_TO_MOUNT_ROOT"
         => TryingFirst' /\ m \notin BootFailures
  BY <1>1, <1>3, <1>4, Expected
<1>6. m = "PANIC" => Crashed
  BY <1>5, TwoPanics DEF IInv, PanicIsKnown
<1> QED
  BY <1>1, <1>2, <1>4, <1>5, <1>6

(* A line that is typed comes last.                                        *)
LEMMA Sent ==
  ASSUME typed \in Seq(Line), NEW line \in Line, Send(line)
  PROVE  typed' \in Seq(Line) /\ Range(typed') = Range(typed) \cup {line}
<1>1. /\ typed' \in Seq(Line) /\ Len(typed') = Len(typed) + 1 /\ Len(typed) \in Nat
      /\ \A i \in 1 .. Len(typed) : typed'[i] = typed[i]
      /\ typed'[Len(typed) + 1] = line
  BY DEF Send
<1>2. DOMAIN typed = 1 .. Len(typed) /\ DOMAIN typed' = 1 .. Len(typed')
  BY <1>1
<1> QED
  BY <1>1, <1>2 DEF Range

(* The two cases of Continue.                                              *)
LEMMA Continued ==
  ASSUME IInv, AtBoot, NEW m \in Shown, Continue(m)
  PROVE  /\ pc' \in {"login", "rootfs", "exit 1"}
         /\ config.abi # "any" /\ pc' # "exit 1" => kernel.abi = config.abi /\ pc' = "rootfs"
         /\ m = "TRYING_TO_MOUNT_ROOT" => pc' # "rootfs"
<1>1. config.abi \in Abis \cup {"any"}
  BY BootAssumption DEF IInv, Types, BootTypes, BootAssumption
<1>2. \A abi \in Abis : abi \in Shown => kernel.abi = abi
  BY DEF IInv, Booting, KernelIsOurs
<1>3. "TRYING_TO_MOUNT_ROOT" \notin Abis
  BY Words DEF BootOutput
<1> QED
  BY <1>1, <1>2, <1>3 DEF Continue, Goto

(* Nothing is to be shown of a script that has given up.                   *)
LEMMA LeavesBoot ==
  ASSUME pc' \notin BeforeLogin \cup AfterLogin
  PROVE  Booting'
BY Points DEF Booting, AtBoot

(* Before the root file system is looked for no failure is read.           *)
LEMMA FailureStays ==
  ASSUME IInv, BootStep, NEW p \in ForKernel, NEW m \in Awaited(p),
         pc' \in BeforeLogin,
         pc' \in ForKernel => m # "TRYING_TO_MOUNT_ROOT"
  PROVE  FailureIsLeft'
<1>1. /\ pc = p /\ phase' = phase
      /\ Shown' \subseteq Shown
      /\ \A x \in Shown \cap BootMessages : x = m \/ x \in Shown'
      /\ TryingFirst /\ m # "TRYING_TO_MOUNT_ROOT" => TryingFirst' /\ m \notin BootFailures
  BY BootReads, PointPatterns
<1>2. FailureIsLeft
  BY <1>1, Points DEF IInv, Booting, AtBoot, BeforeLogin
<1>3. phase \in {"rc", "failed"} => TryingFirst
  BY <1>1, <1>2 DEF FailureIsLeft
<1>4. phase = "failed" => Shown \cap BootFailures # {}
  BY <1>1, <1>2 DEF FailureIsLeft, BeforeLogin
<1>5. phase \in {"rc", "failed"} => m \notin BootFailures
  BY <1>1, <1>3 DEF BootFailures
<1>6. phase = "failed" => Shown' \cap BootFailures # {}
  BY <1>1, <1>4, <1>5 DEF BootMessages, InitMessages
<1>7. pc' \in ForKernel /\ phase \in {"rc", "failed"} => TryingFirst'
  BY <1>1, <1>3
<1>8. pc' \notin AfterLogin
  BY DEF BeforeLogin, ForKernel, AfterLogin
<1> QED
  BY <1>1, <1>2, <1>6, <1>7, <1>8 DEF FailureIsLeft, Crashed

(* The points of a boot, one after the other.                              *)
LEMMA AwaitLoaderHolds ==
  ASSUME IInv, BootStep, AwaitLoader, pc' # "exit 1"
  PROVE  Booting'
<1>1. PICK m \in Awaited("loader") :
        \/ m = "AUTOBOOT_PROMPT" /\ config.loaderKernelDir
           /\ Send("escape") /\ Goto("loaderPrompt") /\ UNCHANGED ranManualBoot
        \/ m = "AUTOBOOT_PROMPT" /\ ~config.loaderKernelDir
           /\ Send("enter") /\ Goto("kernel") /\ UNCHANGED ranManualBoot
        \/ m = "BOOT_LOADER_PROMPT"
           /\ Send("boot") /\ Goto("kernel") /\ ranManualBoot' = TRUE
        \/ m = "PANIC" /\ Goto("kernel") /\ UNCHANGED <<typed, ranManualBoot>>
        \/ m \in BootMessages /\ UNCHANGED <<typed, ranManualBoot>> /\
             IF config.loaderKernelDir THEN Goto("exit 1") ELSE Continue(m)
  BY DEF AwaitLoader
<1>2. haveDhclient' = haveDhclient
  BY DEF AwaitLoader
<1>3. /\ pc = "loader"
      /\ config' = config /\ phase' = phase /\ kernel' = kernel
      /\ net' = net /\ ownPrompt' = ownPrompt
      /\ console' \in Seq(Message) /\ Shown' \subseteq Shown
      /\ m \in Shown \cap (LoaderBootMessages \cup {"PANIC"})
      /\ m = "PANIC" => Crashed
      /\ \A x \in Shown \cap LoaderBootMessages : x = m \/ x \in Shown'
      /\ TryingFirst /\ m # "TRYING_TO_MOUNT_ROOT" => TryingFirst' /\ m \notin BootFailures
  BY <1>1, BootReads, PatternsAre DEF ForKernel
<1>4. ShellIsOurs /\ NetIsKnown /\ KernelIsOurs /\ FailureIsLeft /\ AtBoot
      /\ typed \in Seq(Line)
  BY <1>3, Points DEF IInv, Types, BootTypes, Booting, AtBoot, BeforeLogin, ForKernel
<1>5. /\ pc' \in {"loaderPrompt", "kernel", "login", "rootfs"}
      /\ config.abi # "any" /\ pc' \in {"login", "rootfs"} => kernel.abi = config.abi
      /\ pc' \in {"login", "rootfs"} => ~config.loaderKernelDir
      /\ pc' \in {"login", "rootfs"} => m \in BootMessages
      /\ m = "TRYING_TO_MOUNT_ROOT" => pc' = "login"
  BY <1>1, <1>3, <1>4, Continued DEF Goto, BootMessages, InitMessages, BootFailures
<1>6. "dhclient" \in Range(typed') => "dhclient" \in Range(typed)
  BY <1>1, <1>4, Sent DEF Line
<1>7. ShellIsOurs'
  BY <1>3, <1>4, <1>5, <1>6 DEF ShellIsOurs, Crashed
<1>8. NetIsKnown'
  BY <1>2, <1>3, <1>4, <1>5 DEF NetIsKnown, Crashed
<1>9. KernelIsOurs'
  <2>1. phase \in Early => pc' \in {"loader", "loaderPrompt", "kernel"}
    BY <1>3, <1>4, <1>5, LoaderSaysNoMore DEF KernelIsOurs
  <2>2. pc' \in AfterKernel => pc' \in {"login", "rootfs"}
    BY <1>5 DEF AfterKernel, AfterLogin
  <2>3. ranManualBoot' => ranManualBoot \/ "BOOT_LOADER_PROMPT" \in Shown
    BY <1>1, <1>3
  <2> QED
    BY <1>1, <1>3, <1>4, <1>5, <2>1, <2>2, <2>3 DEF KernelIsOurs
<1>10. FailureIsLeft'
  BY <1>1, <1>3, <1>5, FailureStays DEF ForKernel, BeforeLogin
<1> QED
  BY <1>7, <1>8, <1>9, <1>10 DEF Booting

LEMMA AwaitLoaderPromptHolds ==
  ASSUME IInv, BootStep, AwaitLoaderPrompt, pc' # "exit 1"
  PROVE  Booting'
<1>1. PICK m \in Awaited("loaderPrompt") :
        /\ m = "BOOT_LOADER_PROMPT"
        /\ Send("boot") /\ pc' = "kernel" /\ ranManualBoot' = TRUE
  BY DEF AwaitLoaderPrompt, Goto
<1>2. haveDhclient' = haveDhclient
  BY DEF AwaitLoaderPrompt
<1>3. /\ pc = "loaderPrompt"
      /\ config' = config /\ phase' = phase /\ kernel' = kernel
      /\ net' = net /\ ownPrompt' = ownPrompt
      /\ Shown' \subseteq Shown
      /\ "BOOT_LOADER_PROMPT" \in Shown
  BY <1>1, BootReads
<1>4. ShellIsOurs /\ NetIsKnown /\ KernelIsOurs /\ FailureIsLeft /\ typed \in Seq(Line)
  BY <1>3, Points DEF IInv, Types, BootTypes, Booting, AtBoot, BeforeLogin, ForKernel
<1>5. "dhclient" \in Range(typed') => "dhclient" \in Range(typed)
  BY <1>1, <1>4, Sent DEF Line
<1>6. ShellIsOurs'
  BY <1>1, <1>3, <1>4, <1>5 DEF ShellIsOurs, Crashed
<1>7. NetIsKnown'
  BY <1>1, <1>2, <1>3, <1>4 DEF NetIsKnown, Crashed
<1>8. KernelIsOurs'
  BY <1>1, <1>3, <1>4 DEF KernelIsOurs, AfterKernel, AfterLogin
<1>9. FailureIsLeft'
  BY <1>1, FailureStays DEF ForKernel, BeforeLogin
<1> QED
  BY <1>6, <1>7, <1>8, <1>9 DEF Booting

LEMMA AwaitKernelHolds ==
  ASSUME IInv, BootStep, AwaitKernel, pc' # "exit 1"
  PROVE  Booting'
<1>1. PICK m \in Awaited("kernel") :
        (config.loaderKernelDir => ranManualBoot) /\ Continue(m)
  BY DEF AwaitKernel, Goto
<1>2. ranManualBoot' = ranManualBoot /\ haveDhclient' = haveDhclient /\ typed' = typed
  BY DEF AwaitKernel
<1>3. /\ pc = "kernel"
      /\ config' = config /\ phase' = phase /\ kernel' = kernel
      /\ net' = net /\ ownPrompt' = ownPrompt
      /\ Shown' \subseteq Shown
      /\ m \in Shown \cap (BootMessages \cup {"PANIC"})
      /\ m = "PANIC" => Crashed
  BY <1>1, BootReads, PatternsAre
<1>4. ShellIsOurs /\ NetIsKnown /\ KernelIsOurs /\ AtBoot
  BY <1>3, Points DEF IInv, Booting, AtBoot, BeforeLogin, ForKernel
<1>5. /\ pc' \in {"login", "rootfs"}
      /\ config.abi # "any" => kernel.abi = config.abi
      /\ m = "TRYING_TO_MOUNT_ROOT" => pc' # "rootfs"
  BY <1>1, <1>3, <1>4, Continued
<1>6. ShellIsOurs'
  BY <1>2, <1>3, <1>4, <1>5 DEF ShellIsOurs, Crashed
<1>7. NetIsKnown'
  BY <1>2, <1>3, <1>4, <1>5 DEF NetIsKnown, Crashed
<1>8. KernelIsOurs'
  <2>1. phase \notin Early
    BY <1>3, <1>4, LoaderSaysNoMore DEF KernelIsOurs, Crashed, Early
  <2> QED
    BY <1>1, <1>2, <1>3, <1>4, <1>5, <2>1 DEF KernelIsOurs, Early
<1>9. FailureIsLeft'
  BY <1>1, <1>5, FailureStays DEF ForKernel, BeforeLogin
<1> QED
  BY <1>6, <1>7, <1>8, <1>9 DEF Booting

LEMMA AwaitRootfsHolds ==
  ASSUME IInv, BootStep, AwaitRootfs
  PROVE  Booting'
<1>1. PICK m \in Awaited("rootfs") : pc' = "login"
  BY DEF AwaitRootfs, Goto
<1>2. ranManualBoot' = ranManualBoot /\ haveDhclient' = haveDhclient /\ typed' = typed
  BY DEF AwaitRootfs
<1>3. /\ pc = "rootfs"
      /\ config' = config /\ phase' = phase /\ kernel' = kernel
      /\ net' = net /\ ownPrompt' = ownPrompt
      /\ Shown' \subseteq Shown
  BY BootReads
<1>4. ShellIsOurs /\ NetIsKnown /\ KernelIsOurs
  BY <1>3, Points DEF IInv, Booting, AtBoot, BeforeLogin, ForKernel
<1>5. ShellIsOurs'
  BY <1>1, <1>2, <1>3, <1>4 DEF ShellIsOurs, Crashed
<1>6. NetIsKnown'
  BY <1>1, <1>2, <1>3, <1>4 DEF NetIsKnown, Crashed
<1>7. KernelIsOurs'
  BY <1>1, <1>2, <1>3, <1>4 DEF KernelIsOurs, AfterKernel
<1>8. FailureIsLeft'
  BY <1>1, FailureStays DEF ForKernel, BeforeLogin
<1> QED
  BY <1>5, <1>6, <1>7, <1>8 DEF Booting

LEMMA AwaitLoginHolds ==
  ASSUME IInv, BootStep, AwaitLogin, pc' # "exit 1"
  PROVE  Booting'
<1>1. PICK m \in Awaited("login") \cup Awaited("loginOnly") :
        IF m = "DHCPACK"
        THEN haveDhclient' = TRUE /\ pc' = "loginOnly" /\ typed' = typed
        ELSE LoggedIn(m) /\ haveDhclient' = haveDhclient
  BY DEF AwaitLogin, Goto
<1>2. ranManualBoot' = ranManualBoot
  BY DEF AwaitLogin
<1>3. /\ pc \in {"login", "loginOnly"}
      /\ config' = config /\ phase' = phase /\ kernel' = kernel
      /\ net' = net /\ ownPrompt' = ownPrompt
      /\ Shown' \subseteq Shown
      /\ m \in Shown
      /\ m = "PANIC" => Crashed
      /\ \A x \in Shown \cap BootFailures : x = m \/ x \in Shown'
  BY <1>1, BootReads, PatternsAre DEF BootExpectStrings
<1>4. ShellIsOurs /\ NetIsKnown /\ KernelIsOurs /\ FailureIsLeft /\ typed \in Seq(Line)
  BY <1>3, Points DEF IInv, Types, BootTypes, Booting, AtBoot, BeforeLogin
<1>5. /\ pc' \in {"loginOnly", "firstPrompt", "rcPrompt", "cshPrompt"}
      /\ pc' = "loginOnly" <=> m = "DHCPACK"
      /\ pc' # "loginOnly" => m \in {"LOGIN", "SHELL_OPEN", "LOGIN_AS_ROOT_MINIMAL"}
      /\ typed' = typed \/ Send("root")
  BY <1>1 DEF LoggedIn, Goto
<1>6. "dhclient" \in Range(typed') => "dhclient" \in Range(typed)
  BY <1>4, <1>5, Sent DEF Line
<1>7. ShellIsOurs'
  BY <1>3, <1>4, <1>5, <1>6 DEF ShellIsOurs, Crashed
<1>8. NetIsKnown'
  BY <1>1, <1>3, <1>4, <1>5 DEF NetIsKnown, Crashed
<1>9. KernelIsOurs'
  BY <1>2, <1>3, <1>4, <1>5 DEF KernelIsOurs, AfterKernel, AfterLogin
<1>10. FailureIsLeft'
  <2>1. pc' \notin ForKernel
    BY <1>5 DEF ForKernel
  <2>2. pc' # "loginOnly" => phase \in {"login", "csh", "sh"} \/ Crashed
    BY <1>3, <1>4, <1>5 DEF FailureIsLeft
  <2>3. pc' = "loginOnly" /\ phase = "failed" => Shown' \cap BootFailures # {}
    BY <1>3, <1>4, <1>5 DEF FailureIsLeft, BeforeLogin, BootFailures
  <2>4. pc' \in BeforeLogin <=> pc' = "loginOnly"
    BY <1>5 DEF BeforeLogin, ForKernel
  <2>5. pc' \in AfterLogin <=> pc' # "loginOnly"
    BY <1>5 DEF AfterLogin
  <2> QED
    BY <1>3, <1>4, <2>1, <2>2, <2>3, <2>4, <2>5 DEF FailureIsLeft, Crashed
<1> QED
  BY <1>7, <1>8, <1>9, <1>10 DEF Booting

(* After the login the kernel, and that there was no failure, are known.   *)
LEMMA KnownAfterLogin ==
  ASSUME IInv, pc \in AfterLogin, pc' \in AfterLogin, ranManualBoot' = ranManualBoot,
         config' = config, phase' = phase, kernel' = kernel, Shown' \subseteq Shown
  PROVE  KernelIsOurs' /\ FailureIsLeft'
<1>1. KernelIsOurs /\ FailureIsLeft
  BY Points DEF IInv, Booting, AtBoot
<1>2. /\ pc \in AfterKernel /\ pc' \in AfterKernel
      /\ pc \notin {"loader", "loaderPrompt", "kernel"}
      /\ pc' \notin BeforeLogin /\ pc' \notin ForKernel
  BY DEF AfterKernel, AfterLogin, BeforeLogin, ForKernel
<1>3. KernelIsOurs'
  BY <1>1, <1>2 DEF KernelIsOurs
<1>4. FailureIsLeft'
  <2>1. phase \in {"login", "csh", "sh"} \/ Crashed
    BY <1>1 DEF FailureIsLeft
  <2>2. phase \in Early \cup {"kernel", "rc"} => Shown \cap BootFailures = {}
    BY <1>1 DEF FailureIsLeft
  <2> QED
    BY <1>2, <2>1, <2>2 DEF FailureIsLeft, Crashed
<1> QED
  BY <1>3, <1>4

(* The points after the login.                                             *)
LEMMA AwaitShellHolds ==
  ASSUME IInv, BootStep, AwaitShell
  PROVE  Booting'
<1>1. PICK p \in {"firstPrompt", "posixPrompt", "rcPrompt", "cshPrompt", "minimal"} :
        /\ Awaited(p) # {}
        /\ Send("sh") \/ Send("PS1=")
        /\ pc' \in {"posixPrompt", "minimal", "setPrompt"}
  BY DEF AwaitShell, Goto
<1>2. ranManualBoot' = ranManualBoot /\ haveDhclient' = haveDhclient
  BY DEF AwaitShell
<1>3. /\ pc = p
      /\ config' = config /\ phase' = phase /\ kernel' = kernel
      /\ net' = net /\ ownPrompt' = ownPrompt
      /\ Shown' \subseteq Shown
  BY <1>1, BootReads
<1>4. pc \in AfterLogin /\ pc' \in AfterLogin
  BY <1>1, <1>3 DEF AfterLogin
<1>5. ShellIsOurs /\ NetIsKnown /\ typed \in Seq(Line)
  BY <1>4, Points DEF IInv, Types, BootTypes, Booting, AtBoot
<1>6. "dhclient" \in Range(typed') => "dhclient" \in Range(typed)
  BY <1>1, <1>5, Sent DEF Line
<1>7. ShellIsOurs'
  BY <1>1, <1>3, <1>5, <1>6 DEF ShellIsOurs, Crashed
<1>8. NetIsKnown'
  BY <1>1, <1>2, <1>3, <1>5 DEF NetIsKnown, Crashed
<1> QED
  BY <1>2, <1>3, <1>4, <1>7, <1>8, KnownAfterLogin DEF Booting

LEMMA AwaitOwnPromptHolds ==
  ASSUME IInv, BootStep, AwaitOwnPrompt
  PROVE  Booting'
<1>1. PICK m \in Awaited("setPrompt") :
        IF NeedsNoDhclient THEN pc' = "booted" /\ typed' = typed
        ELSE Send("dhclient") /\ pc' = "dhclient"
  BY DEF AwaitOwnPrompt, Goto
<1>2. ranManualBoot' = ranManualBoot /\ haveDhclient' = haveDhclient
  BY DEF AwaitOwnPrompt
<1>3. /\ pc = "setPrompt"
      /\ config' = config /\ phase' = phase /\ kernel' = kernel
      /\ net' = net /\ ownPrompt' = ownPrompt
      /\ Shown' \subseteq Shown
      /\ m \in Shown \cap {"PEXPECT_PROMPT", "PANIC"}
      /\ m = "PANIC" => Crashed
  BY <1>1, BootReads, PatternsAre
<1>4. pc \in AfterLogin /\ pc' \in AfterLogin
  BY <1>1, <1>3 DEF AfterLogin
<1>5. ShellIsOurs /\ NetIsKnown /\ typed \in Seq(Line)
  BY <1>4, Points DEF IInv, Types, BootTypes, Booting, AtBoot
<1>6. ownPrompt \/ Crashed
  BY <1>3, <1>5 DEF ShellIsOurs
<1>7. ShellIsOurs'
  BY <1>3, <1>5, <1>6 DEF ShellIsOurs, Crashed
<1>8. NetIsKnown'
  <2>1. haveDhclient => net = "up"
    BY <1>5 DEF NetIsKnown
  <2>2. pc' = "booted" /\ config.networkInterface => net # "down"
    BY <1>1, <2>1 DEF NeedsNoDhclient
  <2> QED
    BY <1>1, <1>2, <1>3, <1>5, <2>2 DEF NetIsKnown, Crashed
<1> QED
  BY <1>2, <1>3, <1>4, <1>7, <1>8, KnownAfterLogin DEF Booting

LEMMA AwaitDhclientHolds ==
  ASSUME IInv, BootStep, AwaitDhclient, pc' # "exit 1"
  PROVE  Booting'
<1>1. PICK p, m :
        /\ m \in Awaited(p)
        /\ \/ p = "dhclient" /\ m = "DHCPACK" /\ pc' = "bound"
           \/ p = "dhclient" /\ m = "no interface" /\ pc' = "noInterface"
           \/ p = "dhclient" /\ m \in {"already running", "PANIC"} /\ pc' = "netPrompt"
           \/ p = "bound" /\ pc' = "netPrompt"
           \/ p = "netPrompt" /\ pc' = "booted"
  BY DEF AwaitDhclient, Goto
<1>2. ranManualBoot' = ranManualBoot /\ haveDhclient' = haveDhclient /\ typed' = typed
  BY DEF AwaitDhclient
<1>3. /\ pc = p
      /\ config' = config /\ phase' = phase /\ kernel' = kernel
      /\ net' = net /\ ownPrompt' = ownPrompt
      /\ Shown' \subseteq Shown
      /\ m \in Shown \/ m = "TIMEOUT"
      /\ m = "PANIC" => Crashed
  BY <1>1, BootReads
<1>4. pc \in AfterLogin /\ pc' \in AfterLogin
  BY <1>1, <1>3 DEF AfterLogin
<1>5. ShellIsOurs /\ NetIsKnown
  BY <1>4, Points DEF IInv, Booting, AtBoot
<1>6. ownPrompt \/ Crashed
  BY <1>1, <1>3, <1>5 DEF ShellIsOurs
<1>7. ShellIsOurs'
  BY <1>2, <1>3, <1>5, <1>6 DEF ShellIsOurs, Crashed
<1>8. NetIsKnown'
  <2>1. pc' \in {"netPrompt", "bound", "booted"} => net # "down" \/ Crashed
    BY <1>1, <1>3, <1>5 DEF NetIsKnown
  <2> QED
    BY <1>2, <1>3, <1>5, <2>1 DEF NetIsKnown, Crashed
<1> QED
  BY <1>2, <1>3, <1>4, <1>7, <1>8, KnownAfterLogin DEF Booting

(* All of them together.                                                   *)
LEMMA BootStepBoots ==
  ASSUME IInv, BootStep
  PROVE  Booting'
<1>1. CASE pc' = "exit 1"
  BY <1>1, LeavesBoot DEF BeforeLogin, ForKernel, AfterLogin
<1>2. CASE pc' # "exit 1"
  BY <1>2, AwaitLoaderHolds, AwaitLoaderPromptHolds, AwaitKernelHolds, AwaitRootfsHolds,
     AwaitLoginHolds, AwaitShellHolds, AwaitOwnPromptHolds, AwaitDhclientHolds
     DEF BootStep, ExpectFails, Goto
<1> QED
  BY <1>1, <1>2

-----------------------------------------------------------------------------
(* The guest's steps while the script waits for a shell.                   *)

(* What the guest prints are messages.                                     *)
LEMMA Output ==
  /\ BootOutput \subseteq Message /\ SessionOutput \subseteq Message /\ Abis \subseteq Message
  /\ \A m \in BootOutput : m \in Message
BY DEF Message

(* The kernel that starts announces itself.                                *)
LEMMA KernelStarts ==
  ASSUME IInv, AtBoot, phase \in Early, NEW alternate \in BOOLEAN, StartKernel(alternate),
         config.loaderKernelDir /\ ~alternate => phase # "loader",
         UNCHANGED <<config, runner, net, ownPrompt>>,
         Range(typed') \subseteq Range(typed)
  PROVE  Booting'
<1>1. PICK abi \in Abis \cup {"none"} :
        /\ phase' = "kernel"
        /\ kernel' = [abi |-> abi, alternate |-> alternate]
        /\ Prints(IF abi = "none" THEN <<>> ELSE <<abi>>)
  BY DEF StartKernel
<1>2. ShellIsOurs /\ NetIsKnown /\ KernelIsOurs /\ console \in Seq(Message)
  BY DEF IInv, Types, BootTypes, Booting
<1>3. Shown' = Shown \cup (IF abi = "none" THEN {} ELSE {abi})
  <2>1. (IF abi = "none" THEN <<>> ELSE <<abi>>) \in Seq(Message)
    BY Output
  <2>2. Range(IF abi = "none" THEN <<>> ELSE <<abi>>) = IF abi = "none" THEN {} ELSE {abi}
    BY Tuples
  <2> QED
    BY <1>1, <1>2, <2>1, <2>2, Printed
<1>4. /\ Shown \subseteq {"AUTOBOOT_PROMPT", "BOOT_LOADER_PROMPT"}
      /\ pc \in {"loader", "loaderPrompt", "kernel"}
      /\ net = "down" /\ ~haveDhclient
  BY <1>2 DEF KernelIsOurs, NetIsKnown
<1>5. Abis \cap BootOutput = {} /\ "none" \notin Abis
  BY BootAssumption DEF BootAssumption
<1>6. ~ownPrompt /\ "dhclient" \notin Range(typed) /\ "dhclient" \notin Range(typed')
  BY <1>2 DEF ShellIsOurs, Crashed, Early
<1>7. /\ config' = config /\ pc' = pc /\ ranManualBoot' = ranManualBoot
      /\ haveDhclient' = haveDhclient /\ net' = net /\ ownPrompt' = ownPrompt
  BY DEF runner
<1>8. /\ "PEXPECT_PROMPT" \notin Shown' /\ "DHCPACK" \notin Shown'
      /\ "bound to" \notin Shown' /\ "already running" \notin Shown'
      /\ Shown' \cap {"LOGIN", "LOGIN_AS_ROOT_MINIMAL", "SHELL_OPEN"} = {}
      /\ Shown' \cap BootFailures = {}
  BY <1>3, <1>4, <1>5 DEF BootOutput, BootFailures
<1>9. ShellIsOurs'
  <2>1. pc' \notin {"dhclient", "bound", "noInterface", "netPrompt", "booted"}
    BY <1>4, <1>7
  <2>2. ~ownPrompt'
    BY <1>6, <1>7
  <2> QED
    BY <1>6, <1>8, <2>1, <2>2 DEF ShellIsOurs
<1>10. NetIsKnown'
  BY <1>1, <1>4, <1>7, <1>8 DEF NetIsKnown
<1>11. KernelIsOurs'
  <2>1. pc' \notin AfterKernel
    BY <1>4, <1>7 DEF AfterKernel, AfterLogin
  <2>2. config.loaderKernelDir /\ (ranManualBoot \/ "BOOT_LOADER_PROMPT" \in Shown) => alternate
    BY <1>2 DEF KernelIsOurs, Early
  <2>3. "BOOT_LOADER_PROMPT" \in Shown' => "BOOT_LOADER_PROMPT" \in Shown
    BY <1>3, <1>5 DEF BootOutput
  <2>4. \A a \in Abis : a \in Shown' => a = abi
    BY <1>3, <1>4, <1>5 DEF BootOutput
  <2> QED
    BY <1>1, <1>7, <2>1, <2>2, <2>3, <2>4 DEF KernelIsOurs, Early
<1>12. FailureIsLeft'
  BY <1>1, <1>4, <1>7, <1>8 DEF FailureIsLeft, AfterLogin
<1> QED
  BY <1>9, <1>10, <1>11, <1>12 DEF Booting

(* From the firmware to the loader.                                        *)
LEMMA LoaderComes ==
  ASSUME IInv, AtBoot, phase \in {"firmware", "autoboot"}, phase' \in Early,
         NEW m \in {"AUTOBOOT_PROMPT", "BOOT_LOADER_PROMPT"}, Prints(<<m>>),
         m = "BOOT_LOADER_PROMPT" => phase' = "loader",
         UNCHANGED <<config, runner, kernel, net, ownPrompt>>,
         Range(typed') \subseteq Range(typed)
  PROVE  Booting'
<1>1. ShellIsOurs /\ NetIsKnown /\ KernelIsOurs /\ console \in Seq(Message)
  BY DEF IInv, Types, BootTypes, Booting
<1>2. Shown' = Shown \cup {m}
  <2>1. <<m>> \in Seq(Message)
    <3>1. m \in Message
      BY Output DEF BootOutput
    <3> QED
      BY <3>1
  <2> QED
    BY <1>1, <2>1, Printed, Tuples
<1>3. /\ Shown \subseteq {"AUTOBOOT_PROMPT", "BOOT_LOADER_PROMPT"}
      /\ "BOOT_LOADER_PROMPT" \notin Shown /\ ~ranManualBoot
      /\ pc \in {"loader", "loaderPrompt", "kernel"}
      /\ net = "down" /\ ~haveDhclient
  BY <1>1 DEF KernelIsOurs, NetIsKnown, Early
<1>4. ~ownPrompt /\ "dhclient" \notin Range(typed)
  BY <1>1 DEF ShellIsOurs, Crashed
<1>5. /\ config' = config /\ pc' = pc /\ ranManualBoot' = ranManualBoot
      /\ haveDhclient' = haveDhclient /\ net' = net /\ ownPrompt' = ownPrompt
  BY DEF runner
<1>6. Shown' \subseteq {"AUTOBOOT_PROMPT", "BOOT_LOADER_PROMPT"}
  BY <1>2, <1>3
<1>7. Abis \cap {"AUTOBOOT_PROMPT", "BOOT_LOADER_PROMPT"} = {}
  BY BootAssumption DEF BootAssumption, BootOutput
<1>8. ShellIsOurs'
  BY <1>3, <1>4, <1>5, <1>6 DEF ShellIsOurs
<1>9. NetIsKnown'
  BY <1>3, <1>5, <1>6 DEF NetIsKnown
<1>10. KernelIsOurs'
  <2>1. pc' \notin AfterKernel /\ phase' \notin Started
    BY <1>3, <1>5 DEF AfterKernel, AfterLogin, Early, Started
  <2>2. phase' \in {"firmware", "autoboot"} => "BOOT_LOADER_PROMPT" \notin Shown'
    BY <1>2, <1>3
  <2> QED
    BY <1>3, <1>5, <1>6, <1>7, <2>1, <2>2 DEF KernelIsOurs
<1>11. FailureIsLeft'
  BY <1>3, <1>5, <1>6 DEF FailureIsLeft, BootFailures, AfterLogin, Early
<1> QED
  BY <1>8, <1>9, <1>10, <1>11 DEF Booting

(* A line that the guest has read is gone.                                 *)
LEMMA Typed ==
  ASSUME typed \in Seq(Line), typed # <<>>
  PROVE  /\ Tail(typed) \in Seq(Line)
         /\ Range(Tail(typed)) \subseteq Range(typed)
         /\ NextLine \in Range(typed) /\ NextLine \in Line
<1>1. /\ Head(typed) = typed[1] /\ Len(typed) \in Nat \ {0} /\ typed[1] \in Line
      /\ Tail(typed) \in Seq(Line)
      /\ Len(Tail(typed)) = Len(typed) - 1
      /\ \A i \in 1 .. Len(Tail(typed)) : Tail(typed)[i] = typed[i + 1]
  BY HeadTailProperties
<1>2. \A i \in 1 .. Len(Tail(typed)) : i + 1 \in 1 .. Len(typed)
  BY <1>1
<1>3. DOMAIN typed = 1 .. Len(typed) /\ DOMAIN Tail(typed) = 1 .. Len(Tail(typed))
  BY <1>1
<1> QED
  BY <1>1, <1>2, <1>3 DEF NextLine, Range

(* The loader, whoever typed the command.                                  *)
LEMMA LoaderBoots ==
  ASSUME IInv, AtBoot, Firmware \/ Autoboot \/ LoaderCommand, UNCHANGED <<config, runner>>
  PROVE  Booting'
<1>1. typed \in Seq(Line) /\ config.loaderKernelDir \in BOOLEAN
  BY BootAssumption DEF IInv, Types, BootTypes, BootAssumption
<1>2. CASE Firmware
  <2>1. phase = "firmware" /\ UNCHANGED <<net, ownPrompt>> /\ Range(typed') \subseteq Range(typed)
    BY <1>2 DEF Firmware
  <2>2. CASE /\ phase' = "autoboot" /\ Prints(<<"AUTOBOOT_PROMPT">>) /\ UNCHANGED kernel
    BY <2>1, <2>2, LoaderComes DEF Early
  <2>3. CASE /\ phase' = "loader" /\ Prints(<<"BOOT_LOADER_PROMPT">>) /\ UNCHANGED kernel
    BY <2>1, <2>3, LoaderComes DEF Early
  <2>4. CASE StartKernel(FALSE)
    BY <2>1, <2>4, KernelStarts DEF Early
  <2> QED
    BY <1>2, <2>2, <2>3, <2>4 DEF Firmware
<1>3. CASE Autoboot
  <2>1. /\ phase = "autoboot" /\ UNCHANGED <<net, ownPrompt>>
        /\ Range(typed') \subseteq Range(typed)
    BY <1>3, Tuples DEF Autoboot
  <2>2. CASE /\ phase' = "loader" /\ Prints(<<"BOOT_LOADER_PROMPT">>) /\ UNCHANGED kernel
    BY <2>1, <2>2, LoaderComes DEF Early
  <2>3. CASE StartKernel(FALSE)
    BY <2>1, <2>3, KernelStarts DEF Early
  <2> QED
    BY <1>3, <2>2, <2>3 DEF Autoboot
<1>4. CASE LoaderCommand
  <2>1. /\ phase = "loader" /\ UNCHANGED <<net, ownPrompt>>
        /\ StartKernel(config.loaderKernelDir)
        /\ NextLine = "boot" /\ typed' = Tail(typed)
    BY <1>4 DEF LoaderCommand
  <2>2. typed # <<>>
    BY <2>1 DEF NextLine
  <2>3. Range(typed') \subseteq Range(typed)
    BY <1>1, <2>1, <2>2, Typed
  <2> QED
    BY <1>1, <2>1, <2>3, KernelStarts DEF Early
<1> QED
  BY <1>2, <1>3, <1>4

(* The message of the root file system comes before that of a failure.     *)
LEMMA RootIsMounted ==
  ASSUME IInv, AtBoot, MountRoot, UNCHANGED <<config, runner>>
  PROVE  Booting'
<1>1. PICK ms \in {<<"TRYING_TO_MOUNT_ROOT", "BOOT_FAILURE3">>, <<"TRYING_TO_MOUNT_ROOT">>,
                   <<"TRYING_TO_MOUNT_ROOT", "STARTING_INIT">>} :
        /\ Prints(ms)
        /\ IF ms = <<"TRYING_TO_MOUNT_ROOT", "BOOT_FAILURE3">>
           THEN phase' = "failed" ELSE phase' = "rc"
  BY DEF MountRoot
<1>2. /\ phase = "kernel" /\ kernel' = kernel /\ net' = net /\ ownPrompt' = ownPrompt
      /\ typed' = typed
      /\ config' = config /\ pc' = pc /\ ranManualBoot' = ranManualBoot
      /\ haveDhclient' = haveDhclient
  BY DEF MountRoot, runner
<1>3. /\ ShellIsOurs /\ NetIsKnown /\ KernelIsOurs /\ FailureIsLeft
      /\ console \in Seq(Message)
  BY DEF IInv, Types, BootTypes, Booting
<1>4. /\ ms \in Seq(Message)
      /\ Len(ms) \in Nat /\ Len(ms) >= 1 /\ ms[1] = "TRYING_TO_MOUNT_ROOT"
      /\ Range(ms) \subseteq {"TRYING_TO_MOUNT_ROOT", "STARTING_INIT", "BOOT_FAILURE3"}
      /\ "BOOT_FAILURE3" \in Range(ms) <=> phase' = "failed"
  <2>1. /\ "TRYING_TO_MOUNT_ROOT" \in Message /\ "BOOT_FAILURE3" \in Message
        /\ "STARTING_INIT" \in Message
    BY Output DEF BootOutput
  <2>3. CASE ms = <<"TRYING_TO_MOUNT_ROOT", "BOOT_FAILURE3">>
    BY <1>1, <2>1, <2>3, Tuples
  <2>4. CASE ms = <<"TRYING_TO_MOUNT_ROOT">>
    BY <1>1, <2>1, <2>4, Tuples
  <2>5. CASE ms = <<"TRYING_TO_MOUNT_ROOT", "STARTING_INIT">>
    BY <1>1, <2>1, <2>5, Tuples
  <2> QED
    BY <2>3, <2>4, <2>5
<1>5. console' \in Seq(Message) /\ Shown' = Shown \cup Range(ms)
  BY <1>1, <1>3, <1>4, Printed
<1>6. Shown \cap BootFailures = {}
  BY <1>2, <1>3 DEF FailureIsLeft
<1>7. TryingFirst'
  <2>1. /\ Len(console) \in Nat /\ Len(ms) \in Nat /\ Len(ms) >= 1
        /\ ms[1] = "TRYING_TO_MOUNT_ROOT"
    BY <1>3, <1>4
  <2>2. /\ DOMAIN console = 1 .. Len(console) /\ DOMAIN console' = 1 .. Len(console')
        /\ Len(console') = Len(console) + Len(ms)
        /\ \A n \in 1 .. Len(console) + Len(ms) :
             console'[n] = IF n <= Len(console) THEN console[n] ELSE ms[n - Len(console)]
    BY <1>1, <1>3, <1>4, <1>5, ConcatProperties DEF Prints
  <2> DEFINE k == Len(console) + 1
  <2>3. k \in DOMAIN console' /\ console'[k] = "TRYING_TO_MOUNT_ROOT"
    BY <2>1, <2>2
  <2>4. ASSUME NEW n \in 1 .. Len(console'), console'[n] \in BootFailures PROVE k < n
    <3>1. n > Len(console)
      <4>1. n <= Len(console) => console[n] \in Shown
        BY <2>2 DEF Shown, Range
      <4> QED
        BY <1>6, <2>1, <2>2, <2>4, <4>1
    <3>2. n # k
      BY <2>3, <2>4 DEF BootFailures
    <3> QED
      BY <2>1, <3>1, <3>2
  <2> QED
    BY <2>2, <2>3, <2>4 DEF TryingFirst
<1>8. ~ownPrompt /\ "dhclient" \notin Range(typed)
  BY <1>2, <1>3 DEF ShellIsOurs, Crashed
<1>9. pc \notin AfterLogin
  BY <1>2, <1>3 DEF FailureIsLeft, Crashed
<1>10. ShellIsOurs'
  <2>1. ~ownPrompt' /\ "dhclient" \notin Range(typed') /\ "PEXPECT_PROMPT" \notin Shown'
    BY <1>2, <1>3, <1>4, <1>5, <1>8 DEF ShellIsOurs
  <2> QED
    BY <1>2, <1>9, <2>1 DEF ShellIsOurs, AfterLogin
<1>11. NetIsKnown'
  BY <1>1, <1>2, <1>3, <1>4, <1>5, <1>9 DEF NetIsKnown, AfterLogin
<1>12. KernelIsOurs'
  <2>1. phase' \notin Early /\ phase \in Started
    BY <1>1, <1>2 DEF Early, Started
  <2>2. "BOOT_LOADER_PROMPT" \in Shown' => "BOOT_LOADER_PROMPT" \in Shown
    BY <1>4, <1>5
  <2>3. \A abi \in Abis : abi \in Shown' => abi \in Shown
    BY <1>4, <1>5, Words DEF BootOutput
  <2> QED
    BY <1>2, <1>3, <2>1, <2>2, <2>3 DEF KernelIsOurs, Early
<1>13. FailureIsLeft'
  <2>1. phase' = "failed" => Shown' \cap BootFailures # {}
    BY <1>4, <1>5 DEF BootFailures
  <2>2. phase' = "rc" => Shown' \cap BootFailures = {}
    BY <1>1, <1>4, <1>5, <1>6 DEF BootFailures
  <2>3. Shown' \cap {"LOGIN", "LOGIN_AS_ROOT_MINIMAL", "SHELL_OPEN"} = {}
    BY <1>2, <1>3, <1>4, <1>5 DEF FailureIsLeft, Crashed
  <2> QED
    BY <1>1, <1>2, <1>7, <1>9, <2>1, <2>2, <2>3 DEF FailureIsLeft, Early
<1> QED
  BY <1>10, <1>11, <1>12, <1>13 DEF Booting

(* Once the loader has done its part, the guest never says again what it   *)
(* said then, and its kernel stays.                                        *)
LEMMA KernelStays ==
  ASSUME IInv, AtBoot, phase \notin Early, phase' \notin Early,
         phase' \in Started => phase \in Started,
         UNCHANGED <<config, runner, kernel>>,
         NEW ms, Shown' = Shown \cup Range(ms),
         Range(ms) \subseteq BootOutput \ {"BOOT_LOADER_PROMPT"}
  PROVE  KernelIsOurs'
<1>1. KernelIsOurs /\ Early \cap Started = {}
  BY DEF IInv, Booting, Early, Started
<1>2. /\ config' = config /\ pc' = pc /\ ranManualBoot' = ranManualBoot
      /\ kernel' = kernel
  BY DEF runner
<1>3. "BOOT_LOADER_PROMPT" \in Shown' => "BOOT_LOADER_PROMPT" \in Shown
  OBVIOUS
<1>4. \A abi \in Abis : abi \in Shown' => abi \in Shown
  BY Words
<1> QED
  BY <1>1, <1>2, <1>3, <1>4 DEF KernelIsOurs, Early

(* What /etc/rc says before it ends.                                       *)
LEMMA RcOutput ==
  ASSUME NEW trap \in {<<>>, <<"CHERI_TRAP">>}, NEW dhcp \in {<<>>, <<"DHCPACK">>},
         NEW last \in {<<"BOOT_FAILURE">>, <<"LOGIN">>, <<"SHELL_OPEN", "INITIAL_PROMPT_SH">>,
                       <<"LOGIN_AS_ROOT_MINIMAL", "INITIAL_PROMPT_SH">>}
  PROVE  /\ trap \o dhcp \o last \in Seq(Message)
         /\ Range(trap \o dhcp \o last) = Range(trap) \cup Range(dhcp) \cup Range(last)
         /\ Range(trap) \subseteq {"CHERI_TRAP"}
         /\ Range(dhcp) = IF dhcp = <<>> THEN {} ELSE {"DHCPACK"}
         /\ Range(last) =
              CASE last = <<"BOOT_FAILURE">> -> {"BOOT_FAILURE"}
                [] last = <<"LOGIN">> -> {"LOGIN"}
                [] last = <<"SHELL_OPEN", "INITIAL_PROMPT_SH">>
                     -> {"SHELL_OPEN", "INITIAL_PROMPT_SH"}
                [] OTHER -> {"LOGIN_AS_ROOT_MINIMAL", "INITIAL_PROMPT_SH"}
<1>1. /\ "CHERI_TRAP" \in Message /\ "DHCPACK" \in Message /\ "BOOT_FAILURE" \in Message
      /\ "LOGIN" \in Message /\ "SHELL_OPEN" \in Message /\ "INITIAL_PROMPT_SH" \in Message
      /\ "LOGIN_AS_ROOT_MINIMAL" \in Message
  BY Output DEF BootOutput
<1>2. trap \in Seq(Message) /\ dhcp \in Seq(Message) /\ last \in Seq(Message)
  <2>1. <<>> \in Seq(Message) /\ \A m \in Message : <<m>> \in Seq(Message)
    OBVIOUS
  <2>2. \A m, n \in Message : <<m, n>> \in Seq(Message)
    OBVIOUS
  <2>3. trap \in Seq(Message)
    BY <1>1, <2>1
  <2>4. dhcp \in Seq(Message)
    BY <1>1, <2>1
  <2>5. last \in Seq(Message)
    BY <1>1, <2>1, <2>2
  <2> QED
    BY <2>3, <2>4, <2>5
<1>3. /\ trap \o dhcp \in Seq(Message) /\ trap \o dhcp \o last \in Seq(Message)
      /\ Range(trap \o dhcp) = Range(trap) \cup Range(dhcp)
      /\ Range(trap \o dhcp \o last) = Range(trap \o dhcp) \cup Range(last)
  <2>1. trap \o dhcp \in Seq(Message) /\ Range(trap \o dhcp) = Range(trap) \cup Range(dhcp)
    BY <1>2, ConcatProperties, RangeConcatenation
  <2> DEFINE before == trap \o dhcp
  <2> HIDE DEF before
  <2>2. before \in Seq(Message)
    BY <2>1 DEF before
  <2>3. /\ before \o last \in Seq(Message)
        /\ Range(before \o last) = Range(before) \cup Range(last)
    BY <1>2, <2>2, ConcatProperties, RangeConcatenation
  <2> QED
    BY <2>1, <2>3 DEF before
<1>4. Range(trap) \subseteq {"CHERI_TRAP"}
  BY Tuples
<1>5. Range(dhcp) = IF dhcp = <<>> THEN {} ELSE {"DHCPACK"}
  BY Tuples
<1>6. Range(last) =
              CASE last = <<"BOOT_FAILURE">> -> {"BOOT_FAILURE"}
                [] last = <<"LOGIN">> -> {"LOGIN"}
                [] last = <<"SHELL_OPEN", "INITIAL_PROMPT_SH">>
                     -> {"SHELL_OPEN", "INITIAL_PROMPT_SH"}
                [] OTHER -> {"LOGIN_AS_ROOT_MINIMAL", "INITIAL_PROMPT_SH"}
  BY Tuples
<1> QED
  BY <1>3, <1>4, <1>5, <1>6

(* How /etc/rc ends.                                                       *)
LEMMA RcEnds ==
  ASSUME IInv, AtBoot, RunCommands, UNCHANGED <<config, runner>>
  PROVE  Booting'
<1>1. PICK trap \in {<<>>, <<"CHERI_TRAP">>}, network \in {"down", "dhclient", "up"} :
        /\ net' = network
        /\ LET before == trap \o (IF network = "up" THEN <<"DHCPACK">> ELSE <<>>)
           IN \/ phase' = "failed" /\ Prints(before \o <<"BOOT_FAILURE">>)
              \/ phase' = "login" /\ Prints(before \o <<"LOGIN">>)
              \/ phase' = "sh" /\ Prints(before \o <<"SHELL_OPEN", "INITIAL_PROMPT_SH">>)
              \/ phase' = "csh"
                 /\ Prints(before \o <<"LOGIN_AS_ROOT_MINIMAL", "INITIAL_PROMPT_SH">>)
  BY DEF RunCommands
<1> DEFINE dhcp == IF network = "up" THEN <<"DHCPACK">> ELSE <<>>
<1>2. PICK last \in {<<"BOOT_FAILURE">>, <<"LOGIN">>, <<"SHELL_OPEN", "INITIAL_PROMPT_SH">>,
                     <<"LOGIN_AS_ROOT_MINIMAL", "INITIAL_PROMPT_SH">>} :
        /\ Prints(trap \o dhcp \o last)
        /\ last = <<"BOOT_FAILURE">> => phase' = "failed"
        /\ last = <<"LOGIN">> => phase' = "login"
        /\ last = <<"SHELL_OPEN", "INITIAL_PROMPT_SH">> => phase' = "sh"
        /\ last = <<"LOGIN_AS_ROOT_MINIMAL", "INITIAL_PROMPT_SH">> => phase' = "csh"
  <2>1. CASE phase' = "failed" /\ Prints(trap \o dhcp \o <<"BOOT_FAILURE">>)
    BY <2>1, Tuples
  <2>2. CASE phase' = "login" /\ Prints(trap \o dhcp \o <<"LOGIN">>)
    BY <2>2, Tuples
  <2>3. CASE phase' = "sh" /\ Prints(trap \o dhcp \o <<"SHELL_OPEN", "INITIAL_PROMPT_SH">>)
    BY <2>3, Tuples
  <2>4. CASE phase' = "csh"
             /\ Prints(trap \o dhcp \o <<"LOGIN_AS_ROOT_MINIMAL", "INITIAL_PROMPT_SH">>)
    BY <2>4, Tuples
  <2> QED
    BY <1>1, <2>1, <2>2, <2>3, <2>4
<1> DEFINE ms == trap \o dhcp \o last
<1>3. dhcp \in {<<>>, <<"DHCPACK">>}
  OBVIOUS
<1>4. dhcp # <<>> <=> network = "up"
  BY Tuples
<1> HIDE DEF dhcp
<1>5. /\ ms \in Seq(Message)
      /\ Range(ms) = Range(trap) \cup Range(dhcp) \cup Range(last)
      /\ Range(trap) \subseteq {"CHERI_TRAP"}
      /\ Range(dhcp) = IF dhcp = <<>> THEN {} ELSE {"DHCPACK"}
      /\ Range(last) =
           CASE last = <<"BOOT_FAILURE">> -> {"BOOT_FAILURE"}
             [] last = <<"LOGIN">> -> {"LOGIN"}
             [] last = <<"SHELL_OPEN", "INITIAL_PROMPT_SH">>
                  -> {"SHELL_OPEN", "INITIAL_PROMPT_SH"}
             [] OTHER -> {"LOGIN_AS_ROOT_MINIMAL", "INITIAL_PROMPT_SH"}
  BY <1>3, RcOutput
<1>6. /\ "DHCPACK" \in Range(ms) <=> network = "up"
      /\ "BOOT_FAILURE" \in Range(ms) <=> phase' = "failed"
      /\ phase' \in {"failed", "login", "csh", "sh"}
      /\ Range(ms) \subseteq {"CHERI_TRAP", "DHCPACK", "BOOT_FAILURE", "LOGIN", "SHELL_OPEN",
                             "LOGIN_AS_ROOT_MINIMAL", "INITIAL_PROMPT_SH"}
      /\ phase' = "failed" =>
           Range(ms) \cap {"LOGIN", "LOGIN_AS_ROOT_MINIMAL", "SHELL_OPEN"} = {}
  <2>1. CASE last = <<"BOOT_FAILURE">>
    BY <1>2, <1>4, <1>5, <2>1
  <2>2. CASE last = <<"LOGIN">>
    BY <1>2, <1>4, <1>5, <2>2, Tuples
  <2>3. CASE last = <<"SHELL_OPEN", "INITIAL_PROMPT_SH">>
    BY <1>2, <1>4, <1>5, <2>3, Tuples
  <2>4. CASE last = <<"LOGIN_AS_ROOT_MINIMAL", "INITIAL_PROMPT_SH">>
    BY <1>2, <1>4, <1>5, <2>4, Tuples
  <2> QED
    BY <2>1, <2>2, <2>3, <2>4
<1>7. /\ phase = "rc" /\ kernel' = kernel /\ ownPrompt' = ownPrompt
      /\ typed' = typed
      /\ config' = config /\ pc' = pc /\ ranManualBoot' = ranManualBoot
      /\ haveDhclient' = haveDhclient /\ net' = network
  BY <1>1 DEF RunCommands, runner
<1>8. /\ ShellIsOurs /\ NetIsKnown /\ KernelIsOurs /\ FailureIsLeft
      /\ console \in Seq(Message)
  BY DEF IInv, Types, BootTypes, Booting
<1>9. /\ console' \in Seq(Message) /\ Shown' = Shown \cup Range(ms)
      /\ TryingFirst => TryingFirst'
  <2>1. Prints(ms)
    BY <1>2
  <2> HIDE DEF ms
  <2> QED
    BY <1>5, <1>8, <2>1, Printed
<1> HIDE DEF ms
<1>10. ~ownPrompt /\ "dhclient" \notin Range(typed) /\ "PEXPECT_PROMPT" \notin Shown
       /\ pc \notin AfterLogin
  BY <1>7, <1>8 DEF ShellIsOurs, FailureIsLeft, Crashed
<1>11. ShellIsOurs'
  <2>1. ~ownPrompt' /\ "dhclient" \notin Range(typed') /\ "PEXPECT_PROMPT" \notin Shown'
    BY <1>6, <1>7, <1>9, <1>10
  <2> QED
    BY <1>7, <1>10, <2>1 DEF ShellIsOurs, AfterLogin
<1>12. NetIsKnown'
  <2>1. /\ net = "down" /\ ~haveDhclient /\ Shown \cap {"DHCPACK", "bound to"} = {}
        /\ "already running" \notin Shown
    BY <1>7, <1>8 DEF NetIsKnown
  <2>2. Shown' \cap {"DHCPACK", "bound to"} # {} => network = "up"
    BY <1>6, <1>9, <2>1
  <2>3. "already running" \notin Shown' /\ ~haveDhclient'
    BY <1>6, <1>7, <1>9, <2>1
  <2> QED
    BY <1>6, <1>7, <1>10, <2>2, <2>3 DEF NetIsKnown, AfterLogin, Early
<1>13. KernelIsOurs'
  <2>1. phase \notin Early /\ phase' \notin Early /\ phase \in Started
    BY <1>6, <1>7 DEF Early, Started
  <2>2. Range(ms) \subseteq BootOutput \ {"BOOT_LOADER_PROMPT"}
    BY <1>6 DEF BootOutput
  <2>3. UNCHANGED kernel
    BY <1>7
  <2> QED
    BY <1>9, <2>1, <2>2, <2>3, KernelStays
<1>14. FailureIsLeft'
  <2>1. pc' \in ForKernel /\ phase' = "failed" => TryingFirst'
    BY <1>7, <1>8, <1>9 DEF FailureIsLeft
  <2>2. phase' = "failed" => Shown' \cap BootFailures # {}
    BY <1>6, <1>9 DEF BootFailures
  <2>3. Shown' \cap {"LOGIN", "LOGIN_AS_ROOT_MINIMAL", "SHELL_OPEN"} # {}
          => phase' \in {"login", "csh", "sh"}
    BY <1>6, <1>7, <1>8, <1>9 DEF FailureIsLeft, Crashed
  <2> QED
    BY <1>6, <1>7, <1>10, <2>1, <2>2, <2>3 DEF FailureIsLeft, Early
<1> QED
  BY <1>11, <1>12, <1>13, <1>14 DEF Booting

(* A guest that has come to a login stays there, or crashes.               *)
LEMMA NothingFails ==
  ASSUME phase' \in {"login", "csh", "sh", "panicked", "dead"}
  PROVE  FailureIsLeft'
BY DEF FailureIsLeft, Early, Crashed

(* Logging in changes neither kernel nor network.                          *)
LEMMA LoggingIn ==
  ASSUME IInv, AtBoot, LogIn, UNCHANGED <<config, runner>>
  PROVE  Booting'
<1>1. PICK m \in {"INITIAL_PROMPT_CSH", "INITIAL_PROMPT_SH", "LOGIN"} : Prints(<<m>>)
  BY DEF LogIn
<1>2. /\ phase = "login" /\ phase' \in {"login", "csh", "sh"}
      /\ NextLine # "" /\ typed' = Tail(typed)
      /\ kernel' = kernel /\ net' = net /\ ownPrompt' = ownPrompt
  BY DEF LogIn
<1>3. /\ config' = config /\ pc' = pc /\ ranManualBoot' = ranManualBoot
      /\ haveDhclient' = haveDhclient
  BY DEF runner
<1>4. /\ ShellIsOurs /\ NetIsKnown /\ KernelIsOurs /\ FailureIsLeft
      /\ console \in Seq(Message) /\ typed \in Seq(Line)
  BY DEF IInv, Types, BootTypes, Booting
<1>5. Shown' = Shown \cup Range(<<m>>) /\ Range(<<m>>) = {m}
  <2>1. m \in Message
    BY Output DEF BootOutput
  <2>2. <<m>> \in Seq(Message)
    BY <2>1
  <2> QED
    BY <1>1, <1>4, <2>2, Printed, Tuples
<1>6. Range(typed') \subseteq Range(typed)
  <2>1. typed # <<>>
    BY <1>2 DEF NextLine
  <2> QED
    BY <1>2, <1>4, <2>1, Typed
<1>7. ShellIsOurs'
  <2>1. /\ ~ownPrompt /\ "dhclient" \notin Range(typed) /\ "PEXPECT_PROMPT" \notin Shown
        /\ pc \notin {"dhclient", "bound", "noInterface", "netPrompt", "booted"}
    BY <1>2, <1>4 DEF ShellIsOurs, Crashed
  <2>2. /\ ~ownPrompt' /\ "dhclient" \notin Range(typed') /\ "PEXPECT_PROMPT" \notin Shown'
    BY <1>2, <1>5, <1>6, <2>1
  <2> QED
    BY <1>3, <2>1, <2>2 DEF ShellIsOurs
<1>8. NetIsKnown'
  <2>1. phase' \notin Early \cup {"kernel", "rc"} /\ ~Crashed
    BY <1>2 DEF Early, Crashed
  <2> QED
    BY <1>2, <1>3, <1>4, <1>5, <2>1 DEF NetIsKnown
<1>9. KernelIsOurs'
  <2>1. phase \notin Early /\ phase' \notin Early /\ phase \in Started
    BY <1>2 DEF Early, Started
  <2>2. Range(<<m>>) \subseteq BootOutput \ {"BOOT_LOADER_PROMPT"}
    BY <1>5 DEF BootOutput
  <2>3. UNCHANGED kernel
    BY <1>2
  <2> QED
    BY <1>5, <2>1, <2>2, <2>3, KernelStays
<1> QED
  BY <1>2, <1>7, <1>8, <1>9, NothingFails DEF Booting

(* A line typed in the shell.                                              *)
LEMMA ShellReads ==
  ASSUME IInv, AtBoot, ShellLine, UNCHANGED <<config, runner>>
  PROVE  Booting'
<1>1. /\ phase \in {"csh", "sh"} /\ phase' \in {"csh", "sh"}
      /\ phase = "sh" => phase' = "sh"
      /\ NextLine # "" /\ typed' = Tail(typed) /\ kernel' = kernel
  BY DEF ShellLine
<1>2. /\ config' = config /\ pc' = pc /\ ranManualBoot' = ranManualBoot
      /\ haveDhclient' = haveDhclient
  BY DEF runner
<1>3. /\ ShellIsOurs /\ NetIsKnown /\ KernelIsOurs /\ FailureIsLeft /\ ownPrompt \in BOOLEAN
      /\ console \in Seq(Message) /\ typed \in Seq(Line) /\ net \in {"down", "dhclient", "up"}
  BY DEF IInv, Types, BootTypes, Booting
<1>4. NextLine \in Range(typed) /\ Range(typed') \subseteq Range(typed)
  <2>1. typed # <<>>
    BY <1>1 DEF NextLine
  <2> QED
    BY <1>1, <1>3, <2>1, Typed
<1>5. ~Crashed /\ ~Crashed' /\ phase' \notin Early \cup {"kernel", "rc"}
  BY <1>1 DEF Crashed, Early
<1>6. /\ ownPrompt => phase = "sh"
      /\ "PEXPECT_PROMPT" \in Shown => ownPrompt
      /\ "dhclient" \in Range(typed) => ownPrompt
      /\ pc \in {"dhclient", "bound", "noInterface", "netPrompt", "booted"} => ownPrompt
  BY <1>3, <1>5 DEF ShellIsOurs
<1>7. PICK ms :
        /\ Prints(ms) /\ ms \in Seq(Message)
        /\ Range(ms) \subseteq {"INITIAL_PROMPT_SH", "INITIAL_PROMPT_CSH", "PEXPECT_PROMPT",
                               "DHCPACK", "bound to", "already running", "no interface"}
        /\ "PEXPECT_PROMPT" \in Range(ms) => ownPrompt'
        /\ ownPrompt => ownPrompt'
        /\ ownPrompt' => phase' = "sh"
        /\ net' \in {net, "up"}
        /\ "DHCPACK" \in Range(ms) \/ "bound to" \in Range(ms) => net' = "up"
        /\ "already running" \in Range(ms) => net' # "down"
  <2>1. /\ "INITIAL_PROMPT_SH" \in Message /\ "INITIAL_PROMPT_CSH" \in Message
        /\ "PEXPECT_PROMPT" \in Message /\ "DHCPACK" \in Message /\ "bound to" \in Message
        /\ "already running" \in Message /\ "no interface" \in Message
    BY Output DEF BootOutput
  <2>2. CASE NextLine \in {"enter", "sh"}
    <3>1. PICK m \in InitialPrompts : Prints(<<m>>) /\ UNCHANGED <<net, ownPrompt>>
      BY <2>2 DEF ShellLine, InitialPrompts
    <3>2. Range(<<m>>) = {m} /\ m # "PEXPECT_PROMPT"
      BY Tuples DEF InitialPrompts
    <3>3. m \in Message
      BY <2>1 DEF InitialPrompts
    <3>4. <<m>> \in Seq(Message)
      BY <3>3
    <3>5. net' = net /\ (ownPrompt => ownPrompt') /\ (ownPrompt' => phase' = "sh")
      BY <1>1, <1>6, <3>1
    <3> QED
      BY <3>1, <3>2, <3>4, <3>5 DEF InitialPrompts
  <2>3. CASE NextLine = "PS1="
    <3>1. /\ ownPrompt' = (phase = "sh") /\ phase' = phase /\ net' = net
          /\ Prints(<<IF phase = "sh" THEN "PEXPECT_PROMPT" ELSE "INITIAL_PROMPT_CSH">>)
      BY <2>3 DEF ShellLine
    <3> DEFINE m == IF phase = "sh" THEN "PEXPECT_PROMPT" ELSE "INITIAL_PROMPT_CSH"
    <3>2. /\ m \in {"PEXPECT_PROMPT", "INITIAL_PROMPT_CSH"} /\ Prints(<<m>>)
          /\ m = "PEXPECT_PROMPT" => phase = "sh"
      BY <3>1
    <3> HIDE DEF m
    <3>3. Range(<<m>>) = {m} /\ <<m>> \in Seq(Message)
      BY <2>1, <3>2, Tuples, Short
    <3>4. /\ m = "PEXPECT_PROMPT" => ownPrompt'
          /\ ownPrompt => ownPrompt'
          /\ ownPrompt' => phase' = "sh"
      BY <1>6, <3>1, <3>2
    <3> QED
      BY <3>1, <3>2, <3>3, <3>4
  <2>4. CASE NextLine = "dhclient"
    <3>1. ownPrompt' = ownPrompt /\ phase' = phase /\ ownPrompt
      BY <1>4, <1>6, <2>4 DEF ShellLine
    <3>2. ownPrompt' /\ phase' = "sh"
      BY <1>6, <3>1
    <3>3. CASE net' = "up" /\ Prints(<<"DHCPACK", "bound to", "PEXPECT_PROMPT">>)
      <4>1. /\ Range(<<"DHCPACK", "bound to", "PEXPECT_PROMPT">>)
                 = {"DHCPACK", "bound to", "PEXPECT_PROMPT"}
            /\ <<"DHCPACK", "bound to", "PEXPECT_PROMPT">> \in Seq(Message)
        BY <2>1, Tuples, Short
      <4> QED
        BY <3>2, <3>3, <4>1
    <3>4. CASE /\ net = "dhclient" /\ net' = net
               /\ Prints(<<"already running", "PEXPECT_PROMPT">>)
      <4>1. /\ Range(<<"already running", "PEXPECT_PROMPT">>)
                 = {"already running", "PEXPECT_PROMPT"}
            /\ <<"already running", "PEXPECT_PROMPT">> \in Seq(Message)
        BY <2>1, Tuples, Short
      <4> QED
        BY <3>2, <3>4, <4>1
    <3>5. CASE net' = net /\ Prints(<<"no interface", "PEXPECT_PROMPT">>)
      <4>1. /\ Range(<<"no interface", "PEXPECT_PROMPT">>)
                 = {"no interface", "PEXPECT_PROMPT"}
            /\ <<"no interface", "PEXPECT_PROMPT">> \in Seq(Message)
        BY <2>1, Tuples, Short
      <4> QED
        BY <3>2, <3>5, <4>1
    <3> QED
      BY <2>4, <3>3, <3>4, <3>5 DEF ShellLine
  <2> QED
    BY <2>2, <2>3, <2>4 DEF ShellLine
<1>8. Shown' = Shown \cup Range(ms)
  BY <1>3, <1>7, Printed
<1>9. ShellIsOurs'
  BY <1>2, <1>4, <1>6, <1>7, <1>8 DEF ShellIsOurs
<1>10. NetIsKnown'
  BY <1>2, <1>3, <1>5, <1>7, <1>8 DEF NetIsKnown
<1>11. KernelIsOurs'
  <2>1. phase \notin Early /\ phase' \notin Early /\ phase \in Started
    BY <1>1 DEF Early, Started
  <2>2. Range(ms) \subseteq BootOutput \ {"BOOT_LOADER_PROMPT"}
    BY <1>7 DEF BootOutput
  <2>3. UNCHANGED kernel
    BY <1>1
  <2> QED
    BY <1>8, <2>1, <2>2, <2>3, KernelStays
<1> QED
  BY <1>1, <1>9, <1>10, <1>11, NothingFails DEF Booting

(* A crash excuses what is not known.                                      *)
LEMMA CrashBoots ==
  ASSUME IInv, AtBoot, KernelPanic \/ QemuDies
  PROVE  Booting'
<1>1. /\ phase' \in {"panicked", "dead"}
      /\ config' = config /\ pc' = pc /\ ranManualBoot' = ranManualBoot
      /\ haveDhclient' = haveDhclient
      /\ kernel' = kernel /\ net' = net /\ ownPrompt' = ownPrompt /\ typed' = typed
  BY DEF KernelPanic, QemuDies, runner, tty
<1>2. ShellIsOurs /\ NetIsKnown /\ KernelIsOurs /\ console \in Seq(Message)
  BY DEF IInv, Types, BootTypes, Booting
<1>3. \A x : x \in Shown' => x \in Shown \/ x \in Panics
  <2>1. CASE KernelPanic
    <3>1. PICK first \in Panics : Prints(<<first, "PANIC_KDB">>)
      BY <2>1 DEF KernelPanic
    <3>2. first \in Message /\ "PANIC_KDB" \in Message
      BY Output, TwoPanics DEF BootOutput
    <3>3. <<first, "PANIC_KDB">> \in Seq(Message)
      BY <3>2
    <3>4. Range(<<first, "PANIC_KDB">>) \subseteq Panics
      BY Tuples, TwoPanics
    <3> QED
      BY <1>2, <3>1, <3>3, <3>4, Printed
  <2>2. CASE QemuDies
    BY <2>2 DEF QemuDies, tty, Shown
  <2> QED
    BY <2>1, <2>2
<1>4. Crashed' /\ phase' \notin Early \cup {"kernel", "rc"} \cup Started
  BY <1>1 DEF Crashed, Early, Started
<1>5. ShellIsOurs'
  BY <1>1, <1>2, <1>3, <1>4, TwoPanics DEF ShellIsOurs
<1>6. NetIsKnown'
  <2>1. /\ "DHCPACK" \in Shown' => "DHCPACK" \in Shown
        /\ "bound to" \in Shown' => "bound to" \in Shown
        /\ "already running" \in Shown' => "already running" \in Shown
    <3>1. \A x : x \in Shown' => x \in Shown \/ x = "PANIC" \/ x = "PANIC_KDB"
      BY <1>3, TwoPanics
    <3> QED
      BY <3>1
  <2> QED
    BY <1>1, <1>2, <1>4, <2>1 DEF NetIsKnown
<1>7. KernelIsOurs'
  <2>1. \A abi \in Abis : abi \in Shown' => abi \in Shown
    BY <1>3, Words, TwoPanics DEF BootOutput
  <2> QED
    BY <1>1, <1>2, <1>4, <2>1 DEF KernelIsOurs, Early
<1> QED
  BY <1>1, <1>5, <1>6, <1>7, NothingFails DEF Booting

(* All steps of the guest together.                                        *)
LEMMA GuestStepBoots ==
  ASSUME IInv, AtBoot,
         (GuestBoots \/ KernelPanic \/ QemuDies)
  PROVE  Booting'
BY LoaderBoots, RootIsMounted, RcEnds, LoggingIn, ShellReads, CrashBoots DEF GuestBoots

-----------------------------------------------------------------------------
(* The exit codes are messages of their own.                               *)
LEMMA Codes ==
  /\ ExitCodes = {"EXITCODE=0", "EXITCODE=1"}
  /\ ExitCodes \subseteq Message /\ ExitCodes \cap (BootOutput \cup Panics) = {}
  /\ \A m \in ExitCodes : Passed(m) <=> m = "EXITCODE=0"
<1>1. /\ ExitCodes = {"EXITCODE=0", "EXITCODE=1"}
      /\ \A m \in ExitCodes : Passed(m) <=> m = "EXITCODE=0"
  BY DEF ExitCodes, ExitCode, Passed
<1> QED
  BY <1>1, TwoPanics DEF Message, SessionOutput, BootOutput

(* What the guest prints while it boots, whether the script waits or not.  *)
LEMMA GuestPrints ==
  ASSUME Types, GuestBoots
  PROVE  /\ \E ms \in Seq(Message) :
              Prints(ms) /\ Range(ms) \cap (Panics \cup ExitCodes) = {}
         /\ phase \notin {"panicked", "halted", "dead"} /\ phase' \in Early \cup Started
         /\ kernel' \in [abi: Abis \cup {"none"}, alternate: BOOLEAN]
         /\ net' \in {"down", "dhclient", "up"} /\ ownPrompt' \in BOOLEAN
         /\ typed' \in Seq(Line)
<1> DEFINE Quiet(ms) == /\ ms \in Seq(Message) /\ Prints(ms)
                        /\ Range(ms) \cap (Panics \cup ExitCodes) = {}
<1>1. /\ kernel \in [abi: Abis \cup {"none"}, alternate: BOOLEAN]
      /\ net \in {"down", "dhclient", "up"} /\ ownPrompt \in BOOLEAN
      /\ typed \in Seq(Line) /\ config.loaderKernelDir \in BOOLEAN
  BY BootAssumption DEF Types, BootTypes, BootAssumption
<1>2. /\ \A m \in BootOutput \ Panics : Prints(<<m>>) => Quiet(<<m>>)
      /\ \A m, n \in BootOutput \ Panics : Prints(<<m, n>>) => Quiet(<<m, n>>)
      /\ \A m, n, k \in BootOutput \ Panics : Prints(<<m, n, k>>) => Quiet(<<m, n, k>>)
  <2>1. ExitCodes \cap BootOutput = {} /\ BootOutput \subseteq Message
    BY Output, Codes
  <2> QED
    BY <2>1, Short, Tuples
<1>3. ASSUME NEW alternate \in BOOLEAN, StartKernel(alternate)
      PROVE  /\ \E ms : Quiet(ms)
             /\ phase' = "kernel"
             /\ kernel' \in [abi: Abis \cup {"none"}, alternate: BOOLEAN]
  <2>1. PICK abi \in Abis \cup {"none"} :
          /\ phase' = "kernel"
          /\ kernel' = [abi |-> abi, alternate |-> alternate]
          /\ Prints(IF abi = "none" THEN <<>> ELSE <<abi>>)
    BY <1>3 DEF StartKernel
  <2>2. CASE abi = "none"
    <3>1. Prints(<<>>) /\ <<>> \in Seq(Message) /\ Range(<<>>) = {}
      BY <2>1, <2>2, Tuples
    <3> QED
      BY <2>1, <3>1
  <2>3. CASE abi # "none"
    <3>1. Prints(<<abi>>) /\ abi \in Abis
      BY <2>1, <2>3
    <3>2. abi \in Message /\ abi \notin Panics \cup ExitCodes
      BY <3>1, Words, TwoPanics, Output, Codes DEF BootOutput, SessionOutput
    <3>3. <<abi>> \in Seq(Message) /\ Range(<<abi>>) = {abi}
      BY <3>2, Short, Tuples
    <3>4. Quiet(<<abi>>)
      BY <3>1, <3>2, <3>3
    <3> QED
      BY <2>1, <3>4
  <2> QED
    BY <2>2, <2>3
<1>4. /\ "AUTOBOOT_PROMPT" \in BootOutput \ Panics
      /\ "BOOT_LOADER_PROMPT" \in BootOutput \ Panics
      /\ "TRYING_TO_MOUNT_ROOT" \in BootOutput \ Panics
      /\ "STARTING_INIT" \in BootOutput \ Panics
      /\ "BOOT_FAILURE3" \in BootOutput \ Panics
      /\ "LOGIN" \in BootOutput \ Panics /\ InitialPrompts \subseteq BootOutput \ Panics
      /\ "PEXPECT_PROMPT" \in BootOutput \ Panics /\ "DHCPACK" \in BootOutput \ Panics
      /\ "bound to" \in BootOutput \ Panics /\ "already running" \in BootOutput \ Panics
      /\ "no interface" \in BootOutput \ Panics
  BY TwoPanics DEF BootOutput, InitialPrompts
<1>5. "INITIAL_PROMPT_CSH" \in InitialPrompts /\ "INITIAL_PROMPT_SH" \in InitialPrompts
  BY DEF InitialPrompts
<1>6. NextLine # "" => Tail(typed) \in Seq(Line)
  <2>1. NextLine # "" => typed # <<>>
    BY DEF NextLine
  <2> QED
    BY <1>1, <2>1, Typed
<1>7. <<>> \in Seq(Line)
  OBVIOUS
<1> HIDE DEF Quiet
<1>8. CASE Firmware
  <2>1. /\ phase = "firmware" /\ UNCHANGED <<net, ownPrompt, typed>>
    BY <1>8 DEF Firmware
  <2>2. CASE StartKernel(FALSE)
    BY <1>1, <1>3, <2>1, <2>2 DEF Started, Quiet
  <2>3. CASE /\ phase' \in {"autoboot", "loader"} /\ UNCHANGED kernel
             /\ Prints(<<"AUTOBOOT_PROMPT">>) \/ Prints(<<"BOOT_LOADER_PROMPT">>)
    <3>1. Quiet(<<"AUTOBOOT_PROMPT">>) \/ Quiet(<<"BOOT_LOADER_PROMPT">>)
      BY <1>2, <1>4, <2>3
    <3> QED
      BY <1>1, <2>1, <2>3, <3>1 DEF Early, Quiet
  <2> QED
    BY <1>8, <2>2, <2>3 DEF Firmware
<1>9. CASE Autoboot
  <2>1. /\ phase = "autoboot" /\ UNCHANGED <<net, ownPrompt>> /\ typed' = <<>>
    BY <1>9 DEF Autoboot
  <2>2. CASE StartKernel(FALSE)
    BY <1>1, <1>3, <1>7, <2>1, <2>2 DEF Started, Quiet
  <2>3. CASE phase' = "loader" /\ UNCHANGED kernel /\ Prints(<<"BOOT_LOADER_PROMPT">>)
    <3>1. Quiet(<<"BOOT_LOADER_PROMPT">>)
      BY <1>2, <1>4, <2>3
    <3> QED
      BY <1>1, <1>7, <2>1, <2>3, <3>1 DEF Early, Quiet
  <2> QED
    BY <1>9, <2>2, <2>3 DEF Autoboot
<1>10. CASE LoaderCommand
  <2>1. /\ phase = "loader" /\ UNCHANGED <<net, ownPrompt>> /\ NextLine # ""
        /\ typed' = Tail(typed) /\ StartKernel(config.loaderKernelDir)
    BY <1>10 DEF LoaderCommand
  <2> QED
    BY <1>1, <1>3, <1>6, <2>1 DEF Started, Quiet
<1>11. CASE MountRoot
  <2>1. /\ phase = "kernel" /\ UNCHANGED <<kernel, net, ownPrompt, typed>>
        /\ phase' \in {"failed", "rc"}
        /\ \/ Prints(<<"TRYING_TO_MOUNT_ROOT", "BOOT_FAILURE3">>)
           \/ Prints(<<"TRYING_TO_MOUNT_ROOT">>)
           \/ Prints(<<"TRYING_TO_MOUNT_ROOT", "STARTING_INIT">>)
    BY <1>11 DEF MountRoot
  <2>2. \E ms : Quiet(ms)
    BY <1>2, <1>4, <2>1
  <2> QED
    BY <1>1, <2>1, <2>2 DEF Started, Quiet
<1>12. CASE RunCommands
  <2>1. PICK trap \in {<<>>, <<"CHERI_TRAP">>}, network \in {"down", "dhclient", "up"} :
        /\ net' = network
        /\ LET before == trap \o (IF network = "up" THEN <<"DHCPACK">> ELSE <<>>)
           IN \/ phase' = "failed" /\ Prints(before \o <<"BOOT_FAILURE">>)
              \/ phase' = "login" /\ Prints(before \o <<"LOGIN">>)
              \/ phase' = "sh" /\ Prints(before \o <<"SHELL_OPEN", "INITIAL_PROMPT_SH">>)
              \/ phase' = "csh"
                 /\ Prints(before \o <<"LOGIN_AS_ROOT_MINIMAL", "INITIAL_PROMPT_SH">>)
    BY <1>12 DEF RunCommands
  <2> DEFINE dhcp == IF network = "up" THEN <<"DHCPACK">> ELSE <<>>
  <2>2. dhcp \in {<<>>, <<"DHCPACK">>}
    OBVIOUS
  <2>3. PICK last \in {<<"BOOT_FAILURE">>, <<"LOGIN">>, <<"SHELL_OPEN", "INITIAL_PROMPT_SH">>,
                       <<"LOGIN_AS_ROOT_MINIMAL", "INITIAL_PROMPT_SH">>} :
          Prints(trap \o dhcp \o last)
    BY <2>1
  <2> HIDE DEF dhcp
  <2>4. /\ trap \o dhcp \o last \in Seq(Message)
        /\ Range(trap \o dhcp \o last) = Range(trap) \cup Range(dhcp) \cup Range(last)
        /\ Range(trap) \subseteq {"CHERI_TRAP"}
        /\ Range(dhcp) = IF dhcp = <<>> THEN {} ELSE {"DHCPACK"}
        /\ Range(last) =
             CASE last = <<"BOOT_FAILURE">> -> {"BOOT_FAILURE"}
               [] last = <<"LOGIN">> -> {"LOGIN"}
               [] last = <<"SHELL_OPEN", "INITIAL_PROMPT_SH">>
                    -> {"SHELL_OPEN", "INITIAL_PROMPT_SH"}
               [] OTHER -> {"LOGIN_AS_ROOT_MINIMAL", "INITIAL_PROMPT_SH"}
    BY <2>2, RcOutput
  <2>5. /\ Range(last) \cap {"PANIC", "PANIC_KDB", "EXITCODE=0", "EXITCODE=1"} = {}
        /\ Range(dhcp) \cap {"PANIC", "PANIC_KDB", "EXITCODE=0", "EXITCODE=1"} = {}
        /\ Range(trap) \cap {"PANIC", "PANIC_KDB", "EXITCODE=0", "EXITCODE=1"} = {}
    BY <2>4
  <2>6. Quiet(trap \o dhcp \o last)
    BY <2>3, <2>4, <2>5, TwoPanics, Codes DEF Quiet
  <2>7. /\ phase = "rc" /\ UNCHANGED <<kernel, ownPrompt, typed>>
        /\ phase' \in {"failed", "login", "sh", "csh"}
    BY <1>12 DEF RunCommands
  <2> QED
    BY <1>1, <2>1, <2>6, <2>7 DEF Started, Quiet
<1>13. CASE LogIn
  <2>1. /\ phase = "login" /\ UNCHANGED <<kernel, net, ownPrompt>> /\ NextLine # ""
        /\ typed' = Tail(typed) /\ phase' \in {"login", "csh", "sh"}
        /\ \/ Prints(<<"INITIAL_PROMPT_CSH">>) \/ Prints(<<"INITIAL_PROMPT_SH">>)
           \/ Prints(<<"LOGIN">>)
    BY <1>13 DEF LogIn
  <2>2. \E ms : Quiet(ms)
    BY <1>2, <1>4, <1>5, <2>1
  <2> QED
    BY <1>1, <1>6, <2>1, <2>2 DEF Started, Quiet
<1>14. CASE ShellLine
  <2>1. /\ phase \in {"csh", "sh"} /\ phase' \in {"csh", "sh"} /\ NextLine # ""
        /\ typed' = Tail(typed) /\ UNCHANGED kernel
        /\ net' \in {net, "up"} /\ ownPrompt' \in {ownPrompt, TRUE, FALSE}
    BY <1>14 DEF ShellLine
  <2>2. \/ \E m \in BootOutput \ Panics : Prints(<<m>>)
        \/ Prints(<<"DHCPACK", "bound to", "PEXPECT_PROMPT">>)
        \/ Prints(<<"already running", "PEXPECT_PROMPT">>)
        \/ Prints(<<"no interface", "PEXPECT_PROMPT">>)
    BY <1>4, <1>5, <1>14 DEF ShellLine
  <2>3. \E ms : Quiet(ms)
    BY <1>2, <1>4, <2>2
  <2>4. net' \in {"down", "dhclient", "up"} /\ ownPrompt' \in BOOLEAN
    BY <1>1, <2>1
  <2> QED
    BY <1>1, <1>6, <2>1, <2>3, <2>4 DEF Started, Quiet
<1> QED
  BY <1>8, <1>9, <1>10, <1>11, <1>12, <1>13, <1>14 DEF GuestBoots

-----------------------------------------------------------------------------
(* What the steps leave alone: nothing is to come of a test.               *)
LEMMA NoTestKept ==
  ASSUME NoTest, NoCodeShown, commands' = commands, running' = running,
         Shown' \cap ExitCodes \subseteq Shown, ~AwaitsTest', ~AwaitsExit'
  PROVE  ExitCodeIsItsOwn'
<1>1. NoTest' /\ NoCodeShown'
  BY DEF NoTest, NoCodeShown, IsTest, AsksExit
<1> QED
  BY <1>1 DEF ExitCodeIsItsOwn

(* The script has ended: it reads no exit code any more.                   *)
LEMMA CodesEnd ==
  ASSUME ~StillRuns'
  PROVE  ExitCodeIsItsOwn' /\ ~AwaitsTest' /\ ~AwaitsExit'
BY DEF ExitCodeIsItsOwn, StillRuns, AwaitsTest, AwaitsExit

(* A test is awaited, as before.                                           *)
LEMMA TestAheadKept ==
  ASSUME NEW m, TestAhead(m), commands' = commands, running' = running,
         lastStatus' = lastStatus, test' = test, passed \subseteq passed',
         Shown' \cap ExitCodes \subseteq Shown
  PROVE  TestAhead(m)'
<1>1. NoCodeShown'
  BY DEF TestAhead, NoCodeShown
<1>2. TestIsLast => TestIsLast'
  BY DEF TestIsLast
<1>3. \A i : /\ IsTest(i)' <=> IsTest(i)
             /\ AsksExit(i)' <=> AsksExit(i)
             /\ IsOwnTest(i)' <=> IsOwnTest(i)
  BY DEF IsTest, AsksExit, IsOwnTest
<1> QED
  BY <1>1, <1>2, <1>3 DEF TestAhead

(* Nor is any other test typed in between.                                 *)
LEMMA AwaitsTestKept ==
  ASSUME ExitCodeIsItsOwn, AwaitsTest, AwaitsTest', commands' = commands,
         running' = running, lastStatus' = lastStatus, test' = test,
         passed \subseteq passed', Shown' \cap ExitCodes \subseteq Shown
  PROVE  ExitCodeIsItsOwn'
<1>1. TestAhead(Len(commands))
  BY DEF ExitCodeIsItsOwn
<1> DEFINE m == Len(commands)
<1>2. TestAhead(m)'
  <2>1. m' = m /\ TestAhead(m)
    BY <1>1
  <2> HIDE DEF m
  <2> QED
    BY <2>1, TestAheadKept
<1>3. ~AwaitsExit'
  BY DEF AwaitsTest, AwaitsExit
<1> QED
  BY <1>2, <1>3 DEF ExitCodeIsItsOwn

(* The script and the shell do nothing.                                    *)
LEMMA CodesKept ==
  ASSUME ExitCodeIsItsOwn, pc' = pc, wait' = wait, test' = test, commands' = commands,
         running' = running, lastStatus' = lastStatus, passed' = passed,
         Shown' \cap ExitCodes \subseteq Shown, CodeIsOwn => CodeIsOwn'
  PROVE  ExitCodeIsItsOwn'
<1>1. /\ StillRuns' <=> StillRuns
      /\ AwaitsTest' <=> AwaitsTest
      /\ AwaitsExit' <=> AwaitsExit
  BY DEF StillRuns, AwaitsTest, AwaitsExit
<1>2. CASE AwaitsTest
  BY <1>1, <1>2, AwaitsTestKept
<1>3. CASE ~AwaitsTest /\ ~AwaitsExit
  <2>1. StillRuns => NoTest /\ NoCodeShown
    BY <1>3 DEF ExitCodeIsItsOwn
  <2> QED
    BY <1>1, <1>3, <2>1, NoTestKept, CodesEnd
<1>4. CASE AwaitsExit
  <2>1. ~AwaitsTest
    BY <1>4 DEF AwaitsTest, AwaitsExit
  <2>2. CASE NoTest /\ CodeIsOwn
    <3>1. NoTest'
      BY <2>2 DEF NoTest, IsTest, AsksExit
    <3> QED
      BY <1>1, <1>4, <2>1, <2>2, <3>1 DEF ExitCodeIsItsOwn
  <2>3. CASE /\ commands # <<>> /\ AsksExit(Len(commands))
             /\ ~IsTest(Len(commands)) /\ TestAhead(Len(commands) - 1)
    <3> DEFINE m == Len(commands) - 1
    <3>1. TestAhead(m)'
      <4>1. m' = m /\ TestAhead(m)
        BY <2>3
      <4> HIDE DEF m
      <4> QED
        BY <4>1, TestAheadKept
    <3>2. commands' # <<>> /\ AsksExit(Len(commands))' /\ ~IsTest(Len(commands))'
      BY <2>3 DEF AsksExit, IsTest
    <3> QED
      BY <1>1, <1>4, <2>1, <3>1, <3>2 DEF ExitCodeIsItsOwn
  <2> QED
    BY <1>4, <2>2, <2>3 DEF ExitCodeIsItsOwn
<1> QED
  BY <1>2, <1>3, <1>4

(* What is printed leaves the exit code the only one.                      *)
LEMMA CodePrinted ==
  ASSUME console \in Seq(Message), NEW ms \in Seq(Message), Prints(ms),
         Range(ms) \cap ExitCodes = {}, test' = test, passed \subseteq passed', CodeIsOwn
  PROVE  CodeIsOwn'
<1>1. /\ Len(console) \in Nat /\ DOMAIN console = 1 .. Len(console)
      /\ DOMAIN console' = 1 .. Len(console) + Len(ms)
      /\ \A n \in DOMAIN console : n \in DOMAIN console' /\ console'[n] = console[n]
      /\ \A n \in DOMAIN console' : n > Len(console) =>
           n - Len(console) \in DOMAIN ms /\ console'[n] = ms[n - Len(console)]
      /\ DOMAIN ms = 1 .. Len(ms) /\ Len(ms) \in Nat
  BY PrintedWhere
<1>2. PICK k \in DOMAIN console :
        /\ console[k] \in ExitCodes
        /\ Passed(console[k]) => test \in passed
        /\ \A n \in DOMAIN console : console[n] \in ExitCodes => n = k
  BY DEF CodeIsOwn
<1>3. k \in DOMAIN console' /\ console'[k] = console[k]
  BY <1>1
<1>4. ASSUME NEW n \in DOMAIN console', console'[n] \in ExitCodes PROVE n = k
  <2>1. CASE n > Len(console)
    <3>1. ms[n - Len(console)] \in Range(ms)
      BY <1>1, <2>1 DEF Range
    <3> QED
      BY <1>1, <1>4, <2>1, <3>1
  <2>2. CASE ~(n > Len(console))
    <3>1. n \in DOMAIN console
      BY <1>1, <2>2
    <3> QED
      BY <1>1, <1>2, <1>4, <3>1
  <2> QED
    BY <2>1, <2>2
<1>5. Passed(console'[k]) => test' \in passed'
  BY <1>2, <1>3
<1> QED
  BY <1>2, <1>3, <1>4, <1>5 DEF CodeIsOwn

(* What the script has counted stays counted.                              *)
LEMMA CountKept ==
  ASSUME TestsAreCounted, test' = test, exitCode' => exitCode, reported' = reported,
         testsSuccessful' = testsSuccessful, passed \subseteq passed',
         Untested' => Untested,
         pc' \in {"poweroff", "exit 0"} => pc \in {"poweroff", "exit 0"},
         pc' = "exit 0" => testsSuccessful
  PROVE  TestsAreCounted'
<1>1. Untested' => test' = 1 /\ testsSuccessful'
  BY Zenon DEF TestsAreCounted
<1>2. pc' \in {"poweroff", "exit 0"} => test' = NumTests + 1
  BY DEF TestsAreCounted
<1>3. (exitCode' => test' \in passed') /\ reported' \subseteq passed'
  BY DEF TestsAreCounted
<1>4. testsSuccessful' => \A t \in Tests : t < test' => t \in reported'
  BY Zenon DEF TestsAreCounted
<1> QED
  BY <1>1, <1>2, <1>3, <1>4, Zenon DEF TestsAreCounted

(* A test is over.                                                         *)
LEMMA TestReturned ==
  ASSUME ScriptTypes, ShellTypes, TestsAreCounted, test \in Tests, passed' = passed,
         NEW ok \in BOOLEAN, ok => test \in passed, TestReturns(ok)
  PROVE  /\ TestsAreCounted'
         /\ pc' \in {"rmxml", "poweroff"} /\ wait' = "send" /\ outcome' = "none"
         /\ test' \in 1 .. NumTests + 1 /\ (pc' \in InTest => test' \in Tests)
         /\ exitCode' \in BOOLEAN /\ testsSuccessful' \in BOOLEAN
<1>1. /\ reported' = (IF ok THEN reported \cup {test} ELSE reported)
      /\ testsSuccessful' = (testsSuccessful /\ ok)
      /\ test' = test + 1 /\ exitCode' = FALSE
      /\ wait' = "send" /\ outcome' = "none"
      /\ pc' = IF test + 1 > NumTests THEN "poweroff" ELSE "rmxml"
  BY DEF TestReturns, AllSoFar, NextTest, Run
<1>2. NumTests \in Nat \ {0} /\ test \in 1 .. NumTests
  BY SessionAssumption DEF SessionAssumption, Tests
<1>3. /\ test' \in 1 .. NumTests + 1
      /\ pc' = "poweroff" => test' = NumTests + 1
      /\ pc' = "rmxml" => test' \in 1 .. NumTests
  BY <1>1, <1>2
<1>4. pc' \in {"rmxml", "poweroff"} /\ (pc' \in InTest => test' \in Tests)
  BY <1>1, <1>3 DEF InTest, Tests
<1>5. reported' \subseteq passed'
  BY <1>1 DEF TestsAreCounted
<1>6. ASSUME testsSuccessful', NEW t \in Tests, t < test' PROVE t \in reported'
  <2>1. testsSuccessful /\ ok
    BY <1>1, <1>6 DEF ScriptTypes
  <2>2. t < test \/ t = test
    BY <1>1, <1>2, <1>6 DEF Tests
  <2> QED
    BY <1>1, <1>6, <2>1, <2>2 DEF TestsAreCounted
<1>7. testsSuccessful' \in BOOLEAN
  BY <1>1 DEF ScriptTypes
<1>8. ~Untested' /\ pc' # "exit 0" /\ ~exitCode'
  <2>1. pc' \notin BootPoints \cup {"booted"}
    BY <1>4, Points DEF BeforeLogin, ForKernel, AfterLogin
  <2>2. pc' \notin Mounting \cup {"settle", "su", "exit 0"}
    BY <1>4 DEF Mounting
  <2> QED
    BY <1>1, <2>1, <2>2 DEF Untested, AtBoot
<1>9. TestsAreCounted'
  BY <1>3, <1>4, <1>5, <1>6, <1>8 DEF TestsAreCounted
<1> QED
  BY <1>1, <1>3, <1>4, <1>7, <1>9

(* Where the steps of a boot lead.                                         *)
LEMMA BootStepMoves ==
  ASSUME IInv, BootStep
  PROVE  /\ pc' \in BootPoints \cup {"booted", "exit 1"}
         /\ pc' # "exit 1" => \E p : Awaited(p) # {}
         /\ typed' = typed \/ \E line \in Line : Send(line)
         /\ ranManualBoot' \in {ranManualBoot, TRUE} /\ haveDhclient' \in {haveDhclient, TRUE}
<1>1. CASE ExpectFails
  BY <1>1 DEF ExpectFails, Goto
<1>2. CASE AwaitLoader
  <2>1. PICK m \in Awaited("loader") :
        \/ m = "AUTOBOOT_PROMPT" /\ config.loaderKernelDir
           /\ Send("escape") /\ Goto("loaderPrompt") /\ UNCHANGED ranManualBoot
        \/ m = "AUTOBOOT_PROMPT" /\ ~config.loaderKernelDir
           /\ Send("enter") /\ Goto("kernel") /\ UNCHANGED ranManualBoot
        \/ m = "BOOT_LOADER_PROMPT"
           /\ Send("boot") /\ Goto("kernel") /\ ranManualBoot' = TRUE
        \/ m = "PANIC" /\ Goto("kernel") /\ UNCHANGED <<typed, ranManualBoot>>
        \/ m \in BootMessages /\ UNCHANGED <<typed, ranManualBoot>> /\
             IF config.loaderKernelDir THEN Goto("exit 1") ELSE Continue(m)
    BY <1>2 DEF AwaitLoader
  <2> QED
    BY <1>2, <2>1, Points DEF AwaitLoader, Goto, Continue, Line, BeforeLogin, ForKernel
<1>3. CASE AwaitLoaderPrompt
  BY <1>3, Points DEF AwaitLoaderPrompt, Goto, Line, BeforeLogin, ForKernel
<1>4. CASE AwaitKernel
  BY <1>4, Points DEF AwaitKernel, Goto, Continue, BeforeLogin, ForKernel
<1>5. CASE AwaitRootfs
  BY <1>5, Points DEF AwaitRootfs, Goto, BeforeLogin
<1>6. CASE AwaitLogin
  BY <1>6, Points DEF AwaitLogin, LoggedIn, Goto, Line, BeforeLogin, AfterLogin
<1>7. CASE AwaitShell
  BY <1>7, Points DEF AwaitShell, Goto, Line, AfterLogin
<1>8. CASE AwaitOwnPrompt
  BY <1>8, Points DEF AwaitOwnPrompt, Goto, Line, AfterLogin
<1>9. CASE AwaitDhclient
  BY <1>9, Points DEF AwaitDhclient, Goto, AfterLogin
<1> QED
  BY <1>1, <1>2, <1>3, <1>4, <1>5, <1>6, <1>7, <1>8, <1>9 DEF BootStep

(* The points after the boot are others than those of the boot.            *)
LEMMA Places ==
  /\ Commands \cup {"exitcode", "poweroff"} \subseteq Mounting \cup Testing
  /\ (Mounting \cup Testing \cup {"exit 1"}) \cap (BootPoints \cup {"booted"}) = {}
  /\ "exit 1" \notin Mounting \cup Testing
<1>1. Commands \cup {"exitcode", "poweroff"} \subseteq Mounting \cup Testing
  BY DEF Commands, Checked, Plain, Mounting, Testing, InTest
<1>2. (Mounting \cup Testing \cup {"exit 1"}) \cap (BeforeLogin \cup AfterLogin) = {}
  BY DEF Mounting, Testing, InTest, BeforeLogin, ForKernel, AfterLogin
<1>3. "exit 1" \notin Mounting \cup Testing
  BY DEF Mounting, Testing, InTest
<1> QED
  BY <1>1, <1>2, <1>3, Points

(* After the boot there is nothing to be shown of it.                      *)
LEMMA AfterBoot ==
  ASSUME pc' \in Mounting \cup Testing \cup {"exit 1"}
  PROVE  ~AtBoot' /\ NothingToDo' /\ Booting'
<1>1. ~AtBoot'
  BY Places DEF AtBoot
<1> QED
  BY <1>1 DEF NothingToDo, Booting

(* A panic that is not read stays known.                                   *)
LEMMA PanicKept ==
  ASSUME PanicIsKnown, phase' = phase, Shown' \cap Panics \subseteq Shown,
         "PANIC_KDB" \in Shown => "PANIC_KDB" \in Shown' \/ pc' = "exit 1",
         pc = "exit 1" => pc' = "exit 1"
  PROVE  PanicIsKnown'
BY DEF PanicIsKnown, Crashed

(* The steps of the boot keep the whole invariant.                         *)
LEMMA BootStepHolds ==
  ASSUME IInv, BootStep, UNCHANGED sessionVars
  PROVE  IInv'
<1>1. /\ pc \in BootPoints /\ pc' \in BootPoints \cup {"booted", "exit 1"}
      /\ config' = config /\ phase' = phase /\ kernel' = kernel
      /\ net' = net /\ ownPrompt' = ownPrompt
      /\ Consume(Patterns[pc])
  BY BootStepMoves DEF BootStep, guest
<1>2. /\ wait' = wait /\ outcome' = outcome /\ dir' = dir /\ trial' = trial
      /\ mounted' = mounted /\ canUseP9fs' = canUseP9fs /\ canUseSmb' = canUseSmb
      /\ issue2617Fixed' = issue2617Fixed /\ sharedMountFailed' = sharedMountFailed
      /\ test' = test /\ exitCode' = exitCode /\ reported' = reported
      /\ testsSuccessful' = testsSuccessful /\ commands' = commands /\ running' = running
      /\ lastStatus' = lastStatus /\ mounts' = mounts /\ passed' = passed
      /\ delivered' = delivered /\ gaveUp' = gaveUp
  BY DEF sessionVars, script, shell, mounting, testing
<1>3. /\ console \in Seq(Message) /\ typed \in Seq(Line) /\ BootTypes /\ ScriptTypes
      /\ ShellTypes
  BY DEF IInv, Types, BootTypes
<1>4. console' \in Seq(Message) /\ Shown' \subseteq Shown
  BY <1>1, <1>3, Consumed
<1>5. BootTypes'
  <2>1. /\ typed' \in Seq(Line)
        /\ ranManualBoot' \in {ranManualBoot, TRUE} /\ haveDhclient' \in {haveDhclient, TRUE}
    BY <1>3, BootStepMoves, Sent
  <2>2. ranManualBoot' \in BOOLEAN /\ haveDhclient' \in BOOLEAN
    BY <1>3, <2>1 DEF BootTypes
  <2> QED
    BY <1>1, <1>3, <1>4, <2>1, <2>2 DEF BootTypes
<1>6. ScriptTypes'
  <2>1. dir <= NumDirs
    BY <1>1, <1>3 DEF ScriptTypes, AtBoot
  <2>2. /\ pc' \in BootPoints \cup {"booted", "exit 1"} \cup Mounting \cup Testing
        /\ pc' \in InTest => test' \in Tests
    BY <1>1, Places DEF Testing
  <2>3. dir' <= NumDirs
    BY <1>2, <2>1
  <2>4. /\ wait' \in {"send", "answer", "prompt", "drain", "ended"}
        /\ outcome' \in {"none", "ok", "failed", "timeout", "error output"}
        /\ dir' \in 1 .. NumDirs + 1 /\ trial' \in 0 .. MaxSmbfsRetry - 1
        /\ AtBoot' \/ pc' \in Mounting => dir' <= NumDirs
        /\ mounted' \in [Dirs -> BOOLEAN]
        /\ issue2617Fixed' \in {"unknown", "yes", "no"}
        /\ test' \in 1 .. NumTests + 1
    BY <1>2, <1>3, <2>3, Zenon DEF ScriptTypes
  <2>5. /\ canUseP9fs' \in BOOLEAN /\ canUseSmb' \in BOOLEAN /\ sharedMountFailed' \in BOOLEAN
        /\ exitCode' \in BOOLEAN /\ testsSuccessful' \in BOOLEAN /\ gaveUp' \in BOOLEAN
    BY <1>2, <1>3, Zenon DEF ScriptTypes
  <2> QED
    BY <2>2, <2>4, <2>5, Zenon DEF ScriptTypes
<1>7. ShellTypes'
  BY <1>2, <1>3 DEF ShellTypes
<1>8. PanicIsKnown'
  <2>1. pc # "exit 1"
    BY <1>1, Places
  <2>2. pc' # "exit 1" => ("PANIC_KDB" \in Shown => "PANIC_KDB" \in Shown')
    BY BootStepMoves, BootReads
  <2> QED
    BY <1>1, <1>4, <2>1, <2>2, PanicKept DEF IInv
<1>9. NothingToDo'
  BY <1>1, <1>2 DEF IInv, NothingToDo, AtBoot
<1>10. Booting'
  BY BootStepBoots
<1>11. ExitCodeIsItsOwn' /\ TestsAreCounted'
  <2>1. /\ pc \notin Testing \cup {"exit 1"}
        /\ pc' \notin Testing
    BY <1>1, Places
  <2>2. /\ StillRuns /\ ~AwaitsTest /\ ~AwaitsExit /\ ~AwaitsTest' /\ ~AwaitsExit'
        /\ pc' \notin {"poweroff", "exit 0"}
    BY <2>1 DEF Testing, InTest, StillRuns, AwaitsTest, AwaitsExit
  <2>3. NoTest /\ NoCodeShown
    BY <2>2 DEF IInv, ExitCodeIsItsOwn
  <2>4. ExitCodeIsItsOwn'
    BY <1>2, <1>4, <2>2, <2>3, NoTestKept
  <2>5. Untested
    BY <1>1 DEF Untested, AtBoot
  <2> QED
    BY <1>2, <2>2, <2>4, <2>5, CountKept DEF IInv
<1> QED
  BY <1>5, <1>6, <1>7, <1>8, <1>9, <1>10, <1>11 DEF IInv, Types

(* The types of the script's variables, when they stay.                    *)
LEMMA ScriptStays ==
  ASSUME ScriptTypes,
         pc' = pc, wait' = wait, outcome' = outcome, dir' = dir, trial' = trial,
         mounted' = mounted, canUseP9fs' = canUseP9fs, canUseSmb' = canUseSmb,
         issue2617Fixed' = issue2617Fixed, sharedMountFailed' = sharedMountFailed,
         test' = test, exitCode' = exitCode, testsSuccessful' = testsSuccessful,
         gaveUp' = gaveUp
  PROVE  ScriptTypes'
<1>1. AtBoot' <=> AtBoot
  BY DEF AtBoot
<1>2. AtBoot' \/ pc' \in Mounting => dir' <= NumDirs
  BY <1>1 DEF ScriptTypes
<1>3. /\ pc' \in BootPoints \cup {"booted", "exit 1"} \cup Mounting \cup Testing
      /\ wait' \in {"send", "answer", "prompt", "drain", "ended"}
      /\ outcome' \in {"none", "ok", "failed", "timeout", "error output"}
      /\ dir' \in 1 .. NumDirs + 1 /\ trial' \in 0 .. MaxSmbfsRetry - 1
      /\ mounted' \in [Dirs -> BOOLEAN]
      /\ issue2617Fixed' \in {"unknown", "yes", "no"}
  BY DEF ScriptTypes
<1>4. /\ canUseP9fs' \in BOOLEAN /\ canUseSmb' \in BOOLEAN
      /\ sharedMountFailed' \in BOOLEAN
      /\ exitCode' \in BOOLEAN /\ testsSuccessful' \in BOOLEAN /\ gaveUp' \in BOOLEAN
  BY DEF ScriptTypes
<1>5. test' \in 1 .. NumTests + 1 /\ (pc' \in InTest => test' \in Tests)
  BY DEF ScriptTypes
<1> QED
  BY <1>2, <1>3, <1>4, <1>5 DEF ScriptTypes

(* The steps of the guest that no command is part of.                      *)
LEMMA GuestBootsHolds ==
  ASSUME IInv, GuestBoots \/ KernelPanic \/ QemuDies, UNCHANGED sessionVars,
         StillRuns
  PROVE  IInv'
<1>1. /\ pc' = pc /\ config' = config /\ ranManualBoot' = ranManualBoot
      /\ haveDhclient' = haveDhclient
  BY DEF GuestBoots, KernelPanic, QemuDies, runner
<1>2. /\ wait' = wait /\ outcome' = outcome /\ dir' = dir /\ trial' = trial
      /\ mounted' = mounted /\ canUseP9fs' = canUseP9fs /\ canUseSmb' = canUseSmb
      /\ issue2617Fixed' = issue2617Fixed /\ sharedMountFailed' = sharedMountFailed
      /\ test' = test /\ exitCode' = exitCode /\ reported' = reported
      /\ testsSuccessful' = testsSuccessful /\ commands' = commands /\ running' = running
      /\ lastStatus' = lastStatus /\ mounts' = mounts /\ passed' = passed
      /\ delivered' = delivered /\ gaveUp' = gaveUp
  BY DEF sessionVars, script, shell, mounting, testing
<1>3. console \in Seq(Message) /\ Types
  BY DEF IInv, Types, BootTypes
<1>4. /\ console' \in Seq(Message)
      /\ Shown' \cap ExitCodes \subseteq Shown /\ (CodeIsOwn => CodeIsOwn')
      /\ phase' \in Early \cup Started \cup {"panicked", "dead"}
      /\ kernel' \in [abi: Abis \cup {"none"}, alternate: BOOLEAN]
      /\ net' \in {"down", "dhclient", "up"} /\ ownPrompt' \in BOOLEAN
      /\ typed' \in Seq(Line)
      /\ PanicIsKnown'
  <2>1. CASE GuestBoots
    <3>1. PICK ms \in Seq(Message) :
            Prints(ms) /\ Range(ms) \cap (Panics \cup ExitCodes) = {}
      BY <1>3, <2>1, GuestPrints
    <3>2. console' \in Seq(Message) /\ Shown' = Shown \cup Range(ms)
      BY <1>3, <3>1, Printed
    <3>3. phase \notin {"panicked", "dead"} /\ phase' \in Early \cup Started
      BY <1>3, <2>1, GuestPrints
    <3>4. phase' # "panicked" /\ Shown' \cap Panics = {}
      BY <3>1, <3>2, <3>3 DEF IInv, PanicIsKnown, Crashed, Early, Started
    <3>5. CodeIsOwn => CodeIsOwn'
      BY <1>2, <1>3, <3>1, CodePrinted
    <3> QED
      BY <1>3, <2>1, <3>1, <3>2, <3>3, <3>4, <3>5, GuestPrints DEF PanicIsKnown
  <2>2. CASE KernelPanic
    <3>1. PICK first \in Panics : Prints(<<first, "PANIC_KDB">>)
      BY <2>2 DEF KernelPanic
    <3>2. first \in Message /\ "PANIC_KDB" \in Message
          /\ {first, "PANIC_KDB"} \cap ExitCodes = {}
      BY Output, TwoPanics, Codes DEF BootOutput
    <3>3. <<first, "PANIC_KDB">> \in Seq(Message)
          /\ Range(<<first, "PANIC_KDB">>) = {first, "PANIC_KDB"}
      BY <3>2, Short, Tuples
    <3>4. console' \in Seq(Message) /\ Shown' = Shown \cup {first, "PANIC_KDB"}
      BY <1>3, <3>1, <3>3, Printed
    <3>5. /\ phase' = "panicked" /\ kernel' = kernel /\ net' = net
          /\ ownPrompt' = ownPrompt /\ typed' = typed
      BY <2>2 DEF KernelPanic
    <3>6. PanicIsKnown'
      BY <3>4, <3>5 DEF PanicIsKnown, Crashed
    <3>7. CodeIsOwn => CodeIsOwn'
      BY <1>2, <1>3, <3>1, <3>2, <3>3, CodePrinted
    <3> QED
      BY <1>3, <3>2, <3>4, <3>5, <3>6, <3>7 DEF Types, BootTypes
  <2>3. CASE QemuDies
    <3>1. /\ phase' = "dead" /\ kernel' = kernel /\ net' = net /\ console' = console
          /\ ownPrompt' = ownPrompt /\ typed' = typed
      BY <2>3 DEF QemuDies, tty
    <3>2. Shown' = Shown
      BY <3>1 DEF Shown
    <3>3. PanicIsKnown'
      BY <3>1 DEF PanicIsKnown, Crashed
    <3>4. CodeIsOwn => CodeIsOwn'
      BY <1>2, <3>1 DEF CodeIsOwn
    <3> QED
      BY <1>3, <3>1, <3>2, <3>3, <3>4 DEF Types, BootTypes
  <2> QED
    BY <2>1, <2>2, <2>3
<1>5. Types'
  <2>1. BootTypes'
    BY <1>1, <1>3, <1>4 DEF Types, BootTypes, Phase
  <2>2. ScriptTypes'
    BY <1>1, <1>2, <1>3, ScriptStays DEF Types
  <2>3. ShellTypes'
    BY <1>2, <1>3 DEF Types, ShellTypes
  <2> QED
    BY <2>1, <2>2, <2>3 DEF Types
<1>6. NothingToDo'
  <2>1. phase' # "halted"
    BY <1>4 DEF Early, Started
  <2> QED
    BY <1>1, <1>2, <2>1 DEF IInv, NothingToDo, AtBoot
<1>7. Booting'
  <2>1. AtBoot' <=> AtBoot
    BY <1>1 DEF AtBoot
  <2> QED
    BY <2>1, GuestStepBoots DEF Booting
<1>8. ExitCodeIsItsOwn'
  BY <1>1, <1>2, <1>4, CodesKept DEF IInv
<1>9. TestsAreCounted'
  <2>1. Untested' => Untested
    BY <1>1 DEF Untested, AtBoot
  <2>2. TestsAreCounted /\ (pc' = "exit 0" => testsSuccessful)
    BY <1>1 DEF IInv, TestsAreCounted
  <2> QED
    BY <1>1, <1>2, <2>1, <2>2, CountKept
<1> QED
  BY <1>4, <1>5, <1>6, <1>7, <1>8, <1>9 DEF IInv

-----------------------------------------------------------------------------
(* The shell's steps.                                                      *)

(* The command that the shell reads next.                                  *)
LEMMA FirstCommand ==
  ASSUME ShellTypes, commands # <<>>, commands' = Tail(commands)
  PROVE  /\ commands' \in Seq(CommandType) /\ Len(commands) \in Nat \ {0}
         /\ Head(commands) = commands[1] /\ Head(commands) \in CommandType
         /\ DOMAIN commands = 1 .. Len(commands)
         /\ DOMAIN commands' = 1 .. Len(commands) - 1
         /\ Len(commands') = Len(commands) - 1
         /\ \A i \in DOMAIN commands' :
              i + 1 \in DOMAIN commands /\ commands'[i] = commands[i + 1]
<1>1. commands \in Seq(CommandType)
  BY DEF ShellTypes
<1>2. /\ Tail(commands) \in Seq(CommandType) /\ Len(commands) \in Nat \ {0}
      /\ Head(commands) = commands[1] /\ Head(commands) \in CommandType
      /\ Len(Tail(commands)) = Len(commands) - 1
      /\ \A i \in 1 .. Len(Tail(commands)) : Tail(commands)[i] = commands[i + 1]
  BY <1>1, HeadTailProperties
<1>3. DOMAIN commands = 1 .. Len(commands) /\ DOMAIN commands' = 1 .. Len(commands')
  BY <1>1, <1>2
<1> QED
  BY <1>2, <1>3

(* The effect of a command is of the right type.                           *)
LEMMA EffectTypes ==
  ASSUME ShellTypes,
         NEW c \in [name: Commands, dir: 1 .. NumDirs + 1, test: Tests, ok: BOOLEAN],
         Effect(c)
  PROVE  /\ mounts' \in [Dirs -> Seq({"p9fs", "smbfs"})]
         /\ delivered' \subseteq Tests
<1>1. /\ mounts \in [Dirs -> Seq({"p9fs", "smbfs"})]
      /\ delivered \subseteq Tests
  BY DEF ShellTypes
<1>2. mounts' \in [Dirs -> Seq({"p9fs", "smbfs"})]
  <2>1. ASSUME NEW d, NEW s, d \in Dirs => s \in Seq({"p9fs", "smbfs"})
        PROVE  [mounts EXCEPT ![d] = s] \in [Dirs -> Seq({"p9fs", "smbfs"})]
    BY <1>1, <2>1
  <2>2. CASE c.ok /\ c.name \in {"p9fs", "smbfs"}
    <3>1. mounts' = [mounts EXCEPT ![c.dir] = Append(mounts[c.dir], c.name)]
      BY <2>2 DEF Effect
    <3>2. c.dir \in Dirs => Append(mounts[c.dir], c.name) \in Seq({"p9fs", "smbfs"})
      BY <1>1, <2>2
    <3> QED
      BY <2>1, <3>1, <3>2
  <2>3. CASE c.ok /\ c.name = "umount" /\ mounts[c.dir] # <<>>
    <3>1. mounts' = [mounts EXCEPT ![c.dir] =
                       SubSeq(mounts[c.dir], 1, Len(mounts[c.dir]) - 1)]
      BY <2>3 DEF Effect
    <3>2. ASSUME c.dir \in Dirs
          PROVE  SubSeq(mounts[c.dir], 1, Len(mounts[c.dir]) - 1) \in Seq({"p9fs", "smbfs"})
      <4> DEFINE s == mounts[c.dir]
      <4>1. s \in Seq({"p9fs", "smbfs"})
        BY <1>1, <3>2
      <4> HIDE DEF s
      <4>2. Len(s) - 1 \in Int /\ \A i \in 1 .. Len(s) - 1 : s[i] \in {"p9fs", "smbfs"}
        BY <4>1
      <4>3. SubSeq(s, 1, Len(s) - 1) \in Seq({"p9fs", "smbfs"})
        BY <4>2, SubSeqProperties
      <4> QED
        BY <4>3 DEF s
    <3> QED
      BY <2>1, <3>1, <3>2
  <2>4. CASE ~(c.ok /\ c.name \in {"p9fs", "smbfs"})
             /\ ~(c.ok /\ c.name = "umount" /\ mounts[c.dir] # <<>>)
    BY <1>1, <2>4 DEF Effect
  <2> QED
    BY <2>2, <2>3, <2>4
<1>3. delivered' \subseteq Tests
  <2>1. delivered' = delivered \/ delivered' = delivered \cup {c.test}
    BY DEF Effect
  <2> QED
    BY <1>1, <2>1
<1> QED
  BY <1>2, <1>3

(* What a step of the shell leaves alone.                                  *)
LEMMA ShellFrame ==
  ASSUME IInv, ~AtBoot, pc' = pc, wait' = wait, UNCHANGED <<config, ranManualBoot, haveDhclient>>,
         UNCHANGED <<kernel, net, ownPrompt, typed, outcome, mounting, testing>>,
         NEW ms \in Seq(Message), Prints(ms), Range(ms) \cap Panics = {},
         phase = "sh", phase' \in {"sh", "halted"},
         gaveUp' = gaveUp, passed \subseteq passed'
  PROVE  /\ BootTypes' /\ ScriptTypes' /\ PanicIsKnown' /\ NothingToDo' /\ Booting'
         /\ Shown' = Shown \cup Range(ms)
         /\ AwaitsTest' <=> AwaitsTest
         /\ AwaitsExit' <=> AwaitsExit
         /\ TestsAreCounted'
<1>1. BootTypes /\ ScriptTypes
  BY DEF IInv, Types
<1>2. console' \in Seq(Message) /\ Shown' = Shown \cup Range(ms)
  BY <1>1, Printed DEF BootTypes
<1>3. BootTypes'
  BY <1>1, <1>2 DEF BootTypes, Phase, Started
<1>4. ~AtBoot'
  BY DEF AtBoot
<1>5. ScriptTypes'
  <2>1. /\ dir' = dir /\ trial' = trial /\ mounted' = mounted
        /\ canUseP9fs' = canUseP9fs /\ canUseSmb' = canUseSmb
        /\ issue2617Fixed' = issue2617Fixed /\ sharedMountFailed' = sharedMountFailed
        /\ test' = test /\ exitCode' = exitCode /\ testsSuccessful' = testsSuccessful
    BY DEF mounting, testing
  <2> QED
    BY <1>1, <2>1, ScriptStays
<1>6. PanicIsKnown'
  BY <1>2 DEF IInv, PanicIsKnown, Crashed
<1>7. NothingToDo' /\ Booting'
  BY <1>4 DEF NothingToDo, Booting
<1>8. /\ AwaitsTest' <=> AwaitsTest
      /\ AwaitsExit' <=> AwaitsExit
  BY DEF AwaitsTest, AwaitsExit
<1>9. TestsAreCounted'
  <2>1. ~Untested' \/ Untested
    BY <1>4 DEF Untested, AtBoot
  <2>2. TestsAreCounted /\ (pc' = "exit 0" => testsSuccessful)
    BY DEF IInv, TestsAreCounted
  <2> QED
    BY <2>1, <2>2, CountKept DEF testing
<1> QED
  BY <1>2, <1>3, <1>5, <1>6, <1>7, <1>8, <1>9

(* What the shell is to do, when it has taken a command.                   *)
LEMMA TestComesNearer ==
  ASSUME ShellTypes, commands # <<>>, commands' = Tail(commands), running = Idle,
         lastStatus' = lastStatus, test' = test, passed' = passed,
         Shown' \cap ExitCodes \subseteq Shown,
         IsTest(1) => running'.name = "cheribsdtest" /\ running'.test = commands[1].test,
         ~IsTest(1) => running'.name # "cheribsdtest",
         NEW m \in 1 .. Len(commands), TestAhead(m)
  PROVE  TestAhead(m - 1)'
<1>1. /\ Len(commands) \in Nat \ {0}
      /\ DOMAIN commands = 1 .. Len(commands)
      /\ DOMAIN commands' = 1 .. Len(commands) - 1
      /\ \A i \in DOMAIN commands' :
           i + 1 \in DOMAIN commands /\ commands'[i] = commands[i + 1]
  BY FirstCommand
<1>2. \A i \in DOMAIN commands' : /\ IsTest(i)' <=> IsTest(i + 1)
                                  /\ AsksExit(i)' <=> AsksExit(i + 1)
                                  /\ IsOwnTest(i)' <=> IsOwnTest(i + 1)
  BY <1>1 DEF IsTest, AsksExit, IsOwnTest
<1>3. NoCodeShown'
  BY DEF TestAhead, NoCodeShown
<1>4. IsOwnTest(m)
  BY <1>1 DEF TestAhead
<1>5. \A i \in DOMAIN commands' : i <= m - 1 => ~AsksExit(i)'
  <2>1. ASSUME NEW i \in DOMAIN commands', i <= m - 1 PROVE ~AsksExit(i + 1)
    BY <1>1, <2>1 DEF TestAhead
  <2> QED
    BY <1>2, <2>1
<1>6. \A i \in DOMAIN commands' : i < m - 1 => ~IsTest(i)'
  <2>1. ASSUME NEW i \in DOMAIN commands', i < m - 1 PROVE ~IsTest(i + 1)
    BY <1>1, <2>1 DEF TestAhead
  <2> QED
    BY <1>2, <2>1
<1>7. CASE m = 1
  <2>1. TestIsLast'
    BY <1>4, <1>7 DEF IsOwnTest, TestIsLast
  <2>2. m - 1 = 0
    BY <1>7
  <2> QED
    BY <1>3, <1>5, <1>6, <2>1, <2>2 DEF TestAhead
<1>8. CASE m # 1
  <2>1. m - 1 \in DOMAIN commands' /\ m - 1 + 1 = m /\ m - 1 # 0 /\ 1 < m /\ 1 \in DOMAIN commands
    BY <1>1, <1>8
  <2>2. IsOwnTest(m - 1)'
    BY <1>2, <1>4, <2>1
  <2>3. running'.name # "cheribsdtest"
    BY <2>1 DEF TestAhead
  <2> QED
    BY <1>3, <1>5, <1>6, <2>1, <2>2, <2>3 DEF TestAhead
<1> QED
  BY <1>7, <1>8

(* It takes a command that does not ask for an exit code.                  *)
LEMMA CommandTaken ==
  ASSUME ShellTypes, ExitCodeIsItsOwn, StillRuns,
         commands # <<>>, commands' = Tail(commands), running = Idle, ~AsksExit(1),
         AwaitsTest' <=> AwaitsTest, AwaitsExit' <=> AwaitsExit,
         lastStatus' = lastStatus, test' = test, passed' = passed,
         Shown' \cap ExitCodes \subseteq Shown, CodeIsOwn => CodeIsOwn',
         IsTest(1) => running'.name = "cheribsdtest" /\ running'.test = commands[1].test,
         ~IsTest(1) => running'.name # "cheribsdtest"
  PROVE  ExitCodeIsItsOwn'
<1>1. /\ Len(commands) \in Nat \ {0}
      /\ DOMAIN commands = 1 .. Len(commands)
      /\ DOMAIN commands' = 1 .. Len(commands) - 1
      /\ Len(commands') = Len(commands) - 1
      /\ commands' \in Seq(CommandType)
      /\ \A i \in DOMAIN commands' :
           i + 1 \in DOMAIN commands /\ commands'[i] = commands[i + 1]
  BY FirstCommand
<1>2. \A i \in DOMAIN commands' : /\ IsTest(i)' <=> IsTest(i + 1)
                                  /\ AsksExit(i)' <=> AsksExit(i + 1)
  BY <1>1 DEF IsTest, AsksExit
<1>3. NoTest => NoTest'
  <2>1. 1 \in DOMAIN commands
    BY <1>1
  <2> QED
    BY <1>1, <1>2, <2>1 DEF NoTest
<1>4. NoCodeShown => NoCodeShown'
  BY DEF NoCodeShown
<1>5. \A m \in 1 .. Len(commands) : TestAhead(m) => TestAhead(m - 1)'
  BY TestComesNearer
<1>6. CASE ~AwaitsTest /\ ~AwaitsExit
  <2>1. NoTest' /\ NoCodeShown'
    BY <1>3, <1>4, <1>6 DEF ExitCodeIsItsOwn
  <2> QED
    BY <1>6, <2>1 DEF ExitCodeIsItsOwn
<1>7. CASE AwaitsTest
  <2>1. PICK m \in 1 .. Len(commands) : m = Len(commands)
    <3>1. Len(commands) \in 1 .. Len(commands)
      BY <1>1
    <3> QED
      BY <3>1, Zenon
  <2>2. TestAhead(m)
    BY <1>7, <2>1 DEF ExitCodeIsItsOwn
  <2>3. TestAhead(m - 1)' /\ Len(commands') = m - 1
    BY <1>1, <1>5, <2>1, <2>2
  <2>4. TestAhead(Len(commands))'
    BY <2>3 DEF TestAhead
  <2>5. AwaitsTest' /\ ~AwaitsExit'
    BY <1>7 DEF AwaitsTest, AwaitsExit
  <2> QED
    BY <2>4, <2>5 DEF ExitCodeIsItsOwn
<1>8. CASE AwaitsExit
  <2>1. AwaitsExit' /\ ~AwaitsTest'
    BY <1>8 DEF AwaitsTest, AwaitsExit
  <2>2. CASE NoTest /\ CodeIsOwn
    BY <1>3, <2>1, <2>2 DEF ExitCodeIsItsOwn
  <2>3. CASE /\ AsksExit(Len(commands)) /\ ~IsTest(Len(commands))
             /\ TestAhead(Len(commands) - 1)
    <3>1. PICK m \in 0 .. Len(commands) - 1 : m = Len(commands) - 1
      <4>1. Len(commands) - 1 \in 0 .. Len(commands) - 1
        BY <1>1
      <4> QED
        BY <4>1, Zenon
    <3>2. AsksExit(m + 1) /\ ~IsTest(m + 1) /\ TestAhead(m)
      <4>1. Len(commands) = m + 1
        BY <1>1, <3>1
      <4> QED
        BY <2>3, <3>1, <4>1
    <3>3. m \in 1 .. Len(commands) /\ m \in DOMAIN commands' /\ Len(commands') = m
      <4>1. m # 0
        BY <3>2
      <4> QED
        BY <1>1, <3>1, <4>1
    <3>4. TestAhead(m - 1)' /\ AsksExit(m)' /\ ~IsTest(m)'
      BY <1>2, <1>5, <3>2, <3>3
    <3>5. TestAhead(Len(commands) - 1)'
      BY <3>3, <3>4 DEF TestAhead
    <3>6. commands' # <<>> /\ AsksExit(Len(commands))' /\ ~IsTest(Len(commands))'
      <4>1. DOMAIN <<>> = {}
        OBVIOUS
      <4> QED
        BY <3>3, <3>4, <4>1 DEF AsksExit, IsTest
    <3> QED
      BY <2>1, <3>5, <3>6 DEF ExitCodeIsItsOwn
  <2> QED
    BY <1>8, <2>2, <2>3 DEF ExitCodeIsItsOwn
<1> QED
  BY <1>6, <1>7, <1>8

(* A command starts: the test, if it is the test, is the last one now.     *)
LEMMA ShellStartsHolds ==
  ASSUME IInv, ShellStarts, StillRuns
  PROVE  IInv'
<1> DEFINE head == Head(commands)
<1>1. /\ phase = "sh" /\ running = Idle /\ commands # <<>> /\ head.name \in Commands
      /\ commands' = Tail(commands) /\ lastStatus' = lastStatus
      /\ Effect(running') /\ passed' = passed
  BY DEF ShellStarts
<1>2. PICK ok \in BOOLEAN :
        /\ running' = [name |-> head.name, dir |-> head.dir, test |-> head.test, ok |-> ok]
        /\ \/ Prints(<<>>) \/ Prints(<<"CHERI_TRAP">>)
           \/ Prints(<<"unable to open connection">>)
  BY DEF ShellStarts
<1>3. ~AtBoot
  BY <1>1 DEF IInv, NothingToDo
<1>4. PICK ms \in Seq(Message) :
        Prints(ms) /\ Range(ms) \subseteq {"CHERI_TRAP", "unable to open connection"}
  <2>1. "CHERI_TRAP" \in Message /\ "unable to open connection" \in Message
    BY Output DEF BootOutput, SessionOutput
  <2>2. CASE Prints(<<>>)
    <3>1. <<>> \in Seq(Message) /\ Range(<<>>) = {}
      BY Tuples
    <3> QED
      BY <2>2, <3>1
  <2>3. CASE Prints(<<"CHERI_TRAP">>)
    <3>1. <<"CHERI_TRAP">> \in Seq(Message) /\ Range(<<"CHERI_TRAP">>) = {"CHERI_TRAP"}
      BY <2>1, Tuples, Short
    <3> QED
      BY <2>3, <3>1
  <2>4. CASE Prints(<<"unable to open connection">>)
    <3>1. /\ <<"unable to open connection">> \in Seq(Message)
          /\ Range(<<"unable to open connection">>) = {"unable to open connection"}
      BY <2>1, Tuples, Short
    <3> QED
      BY <2>4, <3>1
  <2> QED
    BY <1>2, <2>2, <2>3, <2>4
<1>5. /\ ShellTypes /\ ExitCodeIsItsOwn /\ Len(commands) \in Nat \ {0}
      /\ head = commands[1] /\ head \in CommandType
      /\ commands' \in Seq(CommandType)
      /\ DOMAIN commands = 1 .. Len(commands)
      /\ DOMAIN commands' = 1 .. Len(commands) - 1
      /\ Len(commands') = Len(commands) - 1
      /\ \A i \in DOMAIN commands' :
           i + 1 \in DOMAIN commands /\ commands'[i] = commands[i + 1]
  BY <1>1, FirstCommand DEF IInv, Types
<1>6. /\ BootTypes' /\ ScriptTypes' /\ PanicIsKnown' /\ NothingToDo' /\ Booting'
      /\ Shown' = Shown \cup Range(ms)
      /\ AwaitsTest' <=> AwaitsTest
      /\ AwaitsExit' <=> AwaitsExit
      /\ TestsAreCounted' /\ test' = test /\ pc' = pc
  <2>1. /\ pc' = pc /\ wait' = wait /\ phase' = "sh"
        /\ UNCHANGED <<config, ranManualBoot, haveDhclient>>
        /\ UNCHANGED <<kernel, net, ownPrompt, typed, outcome, mounting, testing>>
        /\ gaveUp' = gaveUp /\ passed' = passed /\ test' = test
    BY <1>1 DEF ShellStarts, runner, script, testing
  <2>2. Range(ms) \cap Panics = {}
    BY <1>4, TwoPanics
  <2> QED
    BY <1>1, <1>3, <1>4, <2>1, <2>2, ShellFrame
<1>7. /\ running' \in [name: Commands, dir: 1 .. NumDirs + 1, test: Tests, ok: BOOLEAN]
      /\ running'.name = head.name /\ running'.test = head.test
  <2>1. head \in [name: Commands \cup {"exitcode"}, dir: 1 .. NumDirs + 1, test: Tests]
    BY <1>1, <1>5 DEF CommandType, Commands, Checked, Plain
  <2> QED
    BY <1>1, <1>2, <2>1
<1>8. ShellTypes'
  <2>1. /\ mounts' \in [Dirs -> Seq({"p9fs", "smbfs"})]
        /\ delivered' \subseteq Tests
    BY <1>1, <1>5, <1>7, EffectTypes
  <2> QED
    BY <1>1, <1>5, <1>7, <2>1 DEF ShellTypes
<1>9. ExitCodeIsItsOwn'
  <2>1. Range(ms) \cap ExitCodes = {} /\ Shown' \cap ExitCodes \subseteq Shown
    BY <1>4, <1>6, Codes
  <2>2. CodeIsOwn => CodeIsOwn'
    BY <1>1, <1>4, <1>6, <2>1, CodePrinted DEF IInv, Types, BootTypes
  <2>3. ~AsksExit(1) /\ (IsTest(1) <=> head.name = "cheribsdtest")
    BY <1>1, <1>5 DEF IsTest, AsksExit, Commands, Checked, Plain
  <2> QED
    BY <1>1, <1>5, <1>6, <1>7, <2>1, <2>2, <2>3, CommandTaken
<1> QED
  BY <1>6, <1>8, <1>9 DEF IInv, Types

(* A command ends, and leaves its status.                                  *)
LEMMA ShellEndsHolds ==
  ASSUME IInv, ShellEnds, StillRuns
  PROVE  IInv'
<1>1. /\ phase = "sh" /\ running # Idle /\ running' = Idle /\ lastStatus' = running.ok
      /\ Prints(Answer(running))
      /\ commands' = commands /\ mounts' = mounts /\ delivered' = delivered
      /\ passed' = IF running.name = "cheribsdtest" /\ running.ok
                   THEN passed \cup {running.test} ELSE passed
  BY DEF ShellEnds
<1>2. ~AtBoot
  BY <1>1 DEF IInv, NothingToDo
<1>3. ShellTypes /\ ExitCodeIsItsOwn
  BY DEF IInv, Types
<1>4. PICK ms \in Seq(Message) :
        /\ Prints(ms)
        /\ Range(ms) \subseteq {"__COMMAND SUCCESSFUL__", "__COMMAND FAILED__", "PEXPECT_PROMPT"}
  <2>1. /\ "__COMMAND SUCCESSFUL__" \in Message /\ "__COMMAND FAILED__" \in Message
        /\ "PEXPECT_PROMPT" \in Message
    BY Output DEF BootOutput, SessionOutput
  <2>2. CASE Answer(running) = <<"PEXPECT_PROMPT">>
    <3>1. /\ <<"PEXPECT_PROMPT">> \in Seq(Message)
          /\ Range(<<"PEXPECT_PROMPT">>) = {"PEXPECT_PROMPT"}
      BY <2>1, Tuples, Short
    <3> QED
      BY <1>1, <2>2, <3>1
  <2>3. CASE Answer(running) = <<"__COMMAND SUCCESSFUL__", "PEXPECT_PROMPT">>
    <3>1. /\ <<"__COMMAND SUCCESSFUL__", "PEXPECT_PROMPT">> \in Seq(Message)
          /\ Range(<<"__COMMAND SUCCESSFUL__", "PEXPECT_PROMPT">>)
               = {"__COMMAND SUCCESSFUL__", "PEXPECT_PROMPT"}
      BY <2>1, Tuples, Short
    <3> QED
      BY <1>1, <2>3, <3>1
  <2>4. CASE Answer(running) = <<"__COMMAND FAILED__", "PEXPECT_PROMPT">>
    <3>1. /\ <<"__COMMAND FAILED__", "PEXPECT_PROMPT">> \in Seq(Message)
          /\ Range(<<"__COMMAND FAILED__", "PEXPECT_PROMPT">>)
               = {"__COMMAND FAILED__", "PEXPECT_PROMPT"}
      BY <2>1, Tuples, Short
    <3> QED
      BY <1>1, <2>4, <3>1
  <2> QED
    BY <2>2, <2>3, <2>4 DEF Answer
<1>5. /\ BootTypes' /\ ScriptTypes' /\ PanicIsKnown' /\ NothingToDo' /\ Booting'
      /\ Shown' = Shown \cup Range(ms)
      /\ AwaitsTest' <=> AwaitsTest
      /\ AwaitsExit' <=> AwaitsExit
      /\ TestsAreCounted' /\ test' = test /\ pc' = pc
  <2>1. /\ pc' = pc /\ wait' = wait /\ phase' = "sh"
        /\ UNCHANGED <<config, ranManualBoot, haveDhclient>>
        /\ UNCHANGED <<kernel, net, ownPrompt, typed, outcome, mounting, testing>>
        /\ gaveUp' = gaveUp /\ passed \subseteq passed' /\ test' = test
    BY <1>1 DEF ShellEnds, runner, script, testing
  <2>2. Range(ms) \cap Panics = {}
    BY <1>4, TwoPanics
  <2> QED
    BY <1>1, <1>2, <1>4, <2>1, <2>2, ShellFrame
<1>6. /\ running'.name = "none"
      /\ running' \in [name: Commands \cup {"none"}, dir: 1 .. NumDirs + 1, test: Tests,
                       ok: BOOLEAN]
      /\ running.ok \in BOOLEAN /\ running.test \in Tests
  BY <1>1, <1>3, SessionAssumption DEF Idle, ShellTypes, SessionAssumption, Tests
<1>7. ShellTypes'
  <2>1. passed' \subseteq Tests /\ passed \subseteq passed'
    BY <1>1, <1>3, <1>6 DEF ShellTypes
  <2> QED
    BY <1>1, <1>3, <1>6, <2>1 DEF ShellTypes
<1>8. ExitCodeIsItsOwn'
  <2>1. Range(ms) \cap ExitCodes = {} /\ Shown' \cap ExitCodes \subseteq Shown
    BY <1>4, <1>5, Codes
  <2>2. \A i : /\ IsTest(i)' <=> IsTest(i)
               /\ AsksExit(i)' <=> AsksExit(i)
               /\ IsOwnTest(i)' <=> IsOwnTest(i)
    BY <1>1, <1>5 DEF IsTest, AsksExit, IsOwnTest
  <2>3. (NoTest => NoTest') /\ (NoCodeShown => NoCodeShown')
    BY <1>1, <1>6, <2>1, <2>2 DEF NoTest, NoCodeShown
  <2>4. passed \subseteq passed'
    BY <1>1
  <2>5. CodeIsOwn => CodeIsOwn'
    BY <1>4, <1>5, <2>1, <2>4, CodePrinted DEF IInv, Types, BootTypes
  <2>6. TestIsLast => TestIsLast'
    BY <1>1, <1>5, <1>6 DEF TestIsLast
  <2>7. ASSUME NEW m, TestAhead(m) PROVE TestAhead(m)'
    BY <1>1, <1>6, <2>2, <2>3, <2>6, <2>7 DEF TestAhead
  <2>8. TestAhead(Len(commands)) => TestAhead(Len(commands))'
    <3>1. ASSUME NEW m, m = Len(commands), TestAhead(m) PROVE TestAhead(Len(commands))'
      <4>1. TestAhead(m)' /\ Len(commands') = m
        BY <1>1, <2>7, <3>1
      <4> QED
        BY <4>1 DEF TestAhead
    <3> QED
      BY <3>1
  <2>9. TestAhead(Len(commands) - 1) => TestAhead(Len(commands) - 1)'
    <3>1. ASSUME NEW m, m = Len(commands) - 1, TestAhead(m)
          PROVE  TestAhead(Len(commands) - 1)'
      <4>1. TestAhead(m)' /\ Len(commands') - 1 = m
        BY <1>1, <2>7, <3>1
      <4> QED
        BY <4>1 DEF TestAhead
    <3> QED
      BY <3>1
  <2>10. /\ commands' # <<>> <=> commands # <<>>
         /\ AsksExit(Len(commands))' <=> AsksExit(Len(commands))
         /\ IsTest(Len(commands))' <=> IsTest(Len(commands))
    BY <1>1 DEF IsTest, AsksExit
  <2>11. StillRuns' <=> StillRuns
    BY <1>5 DEF StillRuns
  <2> QED
    BY <1>3, <1>5, <2>3, <2>5, <2>8, <2>9, <2>10, <2>11, Zenon DEF ExitCodeIsItsOwn
<1> QED
  BY <1>5, <1>7, <1>8 DEF IInv, Types

(* The exit code is that of the command before, which is the test.         *)
LEMMA ShellBuiltinHolds ==
  ASSUME IInv, ShellBuiltin, StillRuns
  PROVE  IInv'
<1> DEFINE head == Head(commands)
<1>1. /\ phase = "sh" /\ running = Idle /\ commands # <<>>
      /\ head.name \in {"exitcode", "poweroff"}
      /\ commands' = Tail(commands)
      /\ running' = running /\ lastStatus' = lastStatus /\ mounts' = mounts
      /\ passed' = passed /\ delivered' = delivered
  BY DEF ShellBuiltin, shell
<1>2. ~AtBoot
  BY <1>1 DEF IInv, NothingToDo
<1>3. /\ ShellTypes /\ ExitCodeIsItsOwn /\ Len(commands) \in Nat \ {0}
      /\ head = commands[1] /\ head \in CommandType
      /\ commands' \in Seq(CommandType)
      /\ DOMAIN commands = 1 .. Len(commands)
      /\ DOMAIN commands' = 1 .. Len(commands) - 1
      /\ Len(commands') = Len(commands) - 1
      /\ \A i \in DOMAIN commands' :
           i + 1 \in DOMAIN commands /\ commands'[i] = commands[i + 1]
  BY <1>1, FirstCommand DEF IInv, Types
<1>4. 1 \in DOMAIN commands /\ ~IsTest(1) /\ (AsksExit(1) <=> head.name = "exitcode")
  BY <1>1, <1>3 DEF IsTest, AsksExit
<1>5. PICK ms \in Seq(Message) :
        /\ Prints(ms) /\ phase' \in {"sh", "halted"} /\ Range(ms) \cap Panics = {}
        /\ AsksExit(1) => ms = <<ExitCode(lastStatus), "PEXPECT_PROMPT">>
        /\ ~AsksExit(1) => Range(ms) \cap ExitCodes = {}
  <2>1. /\ "EXITCODE=0" \in Message /\ "EXITCODE=1" \in Message
        /\ "PEXPECT_PROMPT" \in Message
        /\ "Uptime: " \in Message /\ "Please press any key to reboot." \in Message
    BY Output DEF BootOutput, SessionOutput
  <2>2. CASE head.name = "exitcode"
    <3>1. Prints(<<ExitCode(lastStatus), "PEXPECT_PROMPT">>) /\ phase' = "sh"
      BY <1>1, <2>2 DEF ShellBuiltin
    <3> DEFINE code == ExitCode(lastStatus)
    <3>2. code \in {"EXITCODE=0", "EXITCODE=1"}
      BY DEF ExitCode
    <3> HIDE DEF code
    <3>3. /\ <<code, "PEXPECT_PROMPT">> \in Seq(Message)
          /\ Range(<<code, "PEXPECT_PROMPT">>) = {code, "PEXPECT_PROMPT"}
      BY <2>1, <3>2, Tuples, Short
    <3>4. Prints(<<code, "PEXPECT_PROMPT">>)
      BY <3>1 DEF code
    <3>5. {code, "PEXPECT_PROMPT"} \cap Panics = {}
      BY <3>2, TwoPanics
    <3>6. AsksExit(1)
      BY <1>4, <2>2
    <3>7. /\ <<code, "PEXPECT_PROMPT">> \in Seq(Message)
          /\ Prints(<<code, "PEXPECT_PROMPT">>) /\ phase' \in {"sh", "halted"}
          /\ Range(<<code, "PEXPECT_PROMPT">>) \cap Panics = {}
      BY <3>1, <3>3, <3>4, <3>5
    <3> QED
      BY <3>6, <3>7, Zenon DEF code
  <2>3. CASE head.name = "poweroff"
    <3>1. /\ Prints(<<"Uptime: ", "Please press any key to reboot.">>)
          /\ phase' = "halted"
      BY <1>1, <2>3 DEF ShellBuiltin
    <3>2. /\ <<"Uptime: ", "Please press any key to reboot.">> \in Seq(Message)
          /\ Range(<<"Uptime: ", "Please press any key to reboot.">>)
               = {"Uptime: ", "Please press any key to reboot."}
      BY <2>1, Tuples, Short
    <3>3. ~AsksExit(1)
      BY <1>4, <2>3
    <3>4. {"Uptime: ", "Please press any key to reboot."} \cap (Panics \cup ExitCodes) = {}
      BY TwoPanics, Codes
    <3> QED
      BY <3>1, <3>2, <3>3, <3>4
  <2> QED
    BY <1>1, <2>2, <2>3
<1>6. /\ BootTypes' /\ ScriptTypes' /\ PanicIsKnown' /\ NothingToDo' /\ Booting'
      /\ Shown' = Shown \cup Range(ms)
      /\ AwaitsTest' <=> AwaitsTest
      /\ AwaitsExit' <=> AwaitsExit
      /\ TestsAreCounted' /\ test' = test /\ pc' = pc
  <2>1. /\ pc' = pc /\ wait' = wait
        /\ UNCHANGED <<config, ranManualBoot, haveDhclient>>
        /\ UNCHANGED <<kernel, net, ownPrompt, typed, outcome, mounting, testing>>
        /\ gaveUp' = gaveUp /\ passed' = passed /\ test' = test
    BY <1>1 DEF ShellBuiltin, runner, script, testing
  <2> QED
    BY <1>1, <1>2, <1>5, <2>1, ShellFrame
<1>7. ShellTypes'
  BY <1>1, <1>3 DEF ShellTypes
<1>8. CASE ~AsksExit(1)
  <2>1. Range(ms) \cap ExitCodes = {} /\ Shown' \cap ExitCodes \subseteq Shown
    BY <1>5, <1>6, <1>8
  <2>2. CodeIsOwn => CodeIsOwn'
    BY <1>1, <1>5, <1>6, <2>1, CodePrinted DEF IInv, Types, BootTypes
  <2>3. running'.name # "cheribsdtest"
    BY <1>1 DEF Idle
  <2>4. ExitCodeIsItsOwn'
    BY <1>1, <1>3, <1>4, <1>6, <1>8, <2>1, <2>2, <2>3, CommandTaken
  <2> QED
    BY <1>6, <1>7, <2>4 DEF IInv, Types
<1>9. CASE AsksExit(1)
  <2>1. ~AwaitsTest /\ ~NoTest
    <3>1. ~TestAhead(Len(commands)) /\ ~NoTest
      BY <1>3, <1>4, <1>9 DEF TestAhead, NoTest
    <3> QED
      BY <1>3, <3>1 DEF ExitCodeIsItsOwn
  <2>2. AwaitsExit /\ TestAhead(Len(commands) - 1)
    BY <1>3, <2>1 DEF ExitCodeIsItsOwn
  <2>3. Len(commands) = 1
    <3>1. ~(1 <= Len(commands) - 1)
      BY <1>4, <1>9, <2>2 DEF TestAhead
    <3> QED
      BY <1>3, <3>1
  <2>4. TestIsLast /\ NoCodeShown
    <3>1. Len(commands) - 1 = 0
      BY <2>3
    <3> QED
      BY <2>2, <3>1 DEF TestAhead
  <2>5. lastStatus => test \in passed
    <3>1. running.name # "cheribsdtest"
      BY <1>1 DEF Idle
    <3> QED
      BY <2>4, <3>1 DEF TestIsLast
  <2>6. NoTest'
    <3>1. DOMAIN commands' = {} /\ running'.name # "cheribsdtest"
      BY <1>1, <1>3, <2>3 DEF Idle
    <3> QED
      BY <3>1 DEF NoTest
  <2>7. CodeIsOwn'
    <3> DEFINE code == ExitCode(lastStatus)
    <3>1. ms = <<code, "PEXPECT_PROMPT">> /\ code \in ExitCodes
          /\ (Passed(code) => lastStatus)
      BY <1>5, <1>9 DEF ExitCodes, ExitCode, Passed
    <3> HIDE DEF code
    <3>2. console \in Seq(Message)
      BY DEF IInv, Types, BootTypes
    <3>3. /\ Len(console) \in Nat /\ DOMAIN console = 1 .. Len(console)
          /\ DOMAIN console' = 1 .. Len(console) + Len(ms)
          /\ \A n \in DOMAIN console : n \in DOMAIN console' /\ console'[n] = console[n]
          /\ \A n \in DOMAIN console' : n > Len(console) =>
               n - Len(console) \in DOMAIN ms /\ console'[n] = ms[n - Len(console)]
          /\ DOMAIN ms = 1 .. Len(ms) /\ Len(ms) \in Nat
      BY <1>5, <3>2, PrintedWhere
    <3>4. Len(ms) = 2 /\ ms[1] = code /\ ms[2] = "PEXPECT_PROMPT"
      BY <3>1
    <3>5. "PEXPECT_PROMPT" \notin ExitCodes
      BY Codes
    <3>6. PICK k \in DOMAIN console' : k = Len(console) + 1
      <4>1. Len(console) + 1 \in DOMAIN console'
        BY <3>3, <3>4
      <4> QED
        BY <4>1, Zenon
    <3>7. console'[k] = code
      <4>1. k > Len(console) /\ k - Len(console) = 1
        BY <3>3, <3>6
      <4> QED
        BY <3>3, <3>4, <3>6, <4>1
    <3>8. ASSUME NEW n \in DOMAIN console', console'[n] \in ExitCodes PROVE n = k
      <4>1. CASE n > Len(console)
        <5>1. n - Len(console) \in 1 .. 2 /\ console'[n] = ms[n - Len(console)]
          BY <3>3, <3>4, <4>1
        <5>2. n - Len(console) # 2
          BY <3>4, <3>5, <3>8, <5>1
        <5>3. n - Len(console) = 1
          BY <5>1, <5>2
        <5> QED
          BY <3>3, <3>6, <5>3
      <4>2. CASE ~(n > Len(console))
        <5>1. n \in DOMAIN console
          BY <3>3, <4>2
        <5>2. console[n] \in Shown /\ console[n] \in ExitCodes
          BY <3>3, <3>8, <5>1 DEF Shown, Range
        <5> QED
          BY <2>4, <5>2 DEF NoCodeShown
      <4> QED
        BY <4>1, <4>2
    <3>9. test' = test /\ passed' = passed
      BY <1>1, <1>6
    <3> QED
      BY <2>5, <3>1, <3>7, <3>8, <3>9 DEF CodeIsOwn
  <2>8. AwaitsExit' /\ ~AwaitsTest'
    BY <1>6, <2>1, <2>2
  <2>9. ExitCodeIsItsOwn'
    BY <2>6, <2>7, <2>8 DEF ExitCodeIsItsOwn
  <2> QED
    BY <1>6, <1>7, <2>9 DEF IInv, Types
<1> QED
  BY <1>8, <1>9

-----------------------------------------------------------------------------
(* The script's steps after the boot.                                      *)
WaitType == {"send", "answer", "prompt", "drain", "ended"}
OutcomeType == {"none", "ok", "failed", "timeout", "error output"}

TestTypes ==
  /\ test \in 1 .. NumTests + 1
  /\ pc \in InTest => test \in Tests
  /\ exitCode \in BOOLEAN /\ testsSuccessful \in BOOLEAN

(* The loop over the tests does not go on.                                 *)
LEMMA TestTypesStay ==
  ASSUME ScriptTypes, UNCHANGED testing, pc' \in InTest => pc \in InTest
  PROVE  TestTypes'
<1>1. test' = test /\ exitCode' = exitCode /\ testsSuccessful' = testsSuccessful
  BY DEF testing
<1> QED
  BY <1>1 DEF ScriptTypes, TestTypes

(* The types of the script's variables, when only the mounts stay.         *)
LEMMA ScriptMoves ==
  ASSUME ScriptTypes, pc' \in Mounting \cup Testing \cup {"exit 1"},
         pc' \in Mounting => dir <= NumDirs,
         wait' \in WaitType, outcome' \in OutcomeType, UNCHANGED mounting,
         TestTypes', gaveUp' \in BOOLEAN
  PROVE  ScriptTypes'
<1>1. /\ dir' = dir /\ trial' = trial /\ mounted' = mounted
      /\ canUseP9fs' = canUseP9fs /\ canUseSmb' = canUseSmb
      /\ issue2617Fixed' = issue2617Fixed /\ sharedMountFailed' = sharedMountFailed
  BY DEF mounting
<1>2. ~AtBoot'
  BY AfterBoot
<1>3. /\ pc' \in BootPoints \cup {"booted", "exit 1"} \cup Mounting \cup Testing
      /\ wait' \in {"send", "answer", "prompt", "drain", "ended"}
      /\ outcome' \in {"none", "ok", "failed", "timeout", "error output"}
  BY DEF WaitType, OutcomeType
<1>4. AtBoot' \/ pc' \in Mounting => dir' <= NumDirs
  BY <1>1, <1>2
<1>5. /\ dir' \in 1 .. NumDirs + 1 /\ trial' \in 0 .. MaxSmbfsRetry - 1
      /\ mounted' \in [Dirs -> BOOLEAN]
      /\ issue2617Fixed' \in {"unknown", "yes", "no"}
      /\ canUseP9fs' \in BOOLEAN /\ canUseSmb' \in BOOLEAN
      /\ sharedMountFailed' \in BOOLEAN
  BY <1>1 DEF ScriptTypes
<1>6. /\ test' \in 1 .. NumTests + 1 /\ (pc' \in InTest => test' \in Tests)
      /\ exitCode' \in BOOLEAN /\ testsSuccessful' \in BOOLEAN
  BY DEF TestTypes
<1> QED
  BY <1>3, <1>4, <1>5, <1>6 DEF ScriptTypes

(* What a step of the script leaves alone of the guest.                    *)
LEMMA GuestStays ==
  ASSUME IInv, pc' \in Mounting \cup Testing \cup {"exit 1"}, pc = "exit 1" => pc' = "exit 1",
         UNCHANGED <<config, ranManualBoot, haveDhclient>>, UNCHANGED guest, typed' = typed,
         console' \in Seq(Message), Shown' \cap Panics \subseteq Shown,
         "PANIC_KDB" \in Shown => "PANIC_KDB" \in Shown' \/ pc' = "exit 1"
  PROVE  BootTypes' /\ PanicIsKnown' /\ NothingToDo' /\ Booting'
<1>1. /\ config' = config /\ ranManualBoot' = ranManualBoot /\ haveDhclient' = haveDhclient
      /\ phase' = phase /\ kernel' = kernel /\ net' = net /\ ownPrompt' = ownPrompt
  BY DEF guest
<1>2. BootTypes'
  BY <1>1 DEF IInv, Types, BootTypes
<1>3. PanicIsKnown'
  BY <1>1, PanicKept DEF IInv
<1> QED
  BY <1>2, <1>3, AfterBoot

(* The types of the shell's variables, when they stay.                     *)
LEMMA ShellStays ==
  ASSUME ShellTypes, commands' = commands, UNCHANGED shell, delivered' = delivered
  PROVE  ShellTypes'
BY DEF ShellTypes, shell

(* The boot is over.                                                       *)
LEMMA SetUpHolds ==
  ASSUME IInv, SetUp
  PROVE  IInv'
<1>1. /\ pc = "booted" /\ pc' = "mkdir" /\ wait' = "send" /\ outcome' = "none"
      /\ ranManualBoot' = FALSE /\ haveDhclient' = FALSE
      /\ kernel' = NoKernel /\ net' = "down"
      /\ config' = SomeConfig /\ phase' = phase /\ ownPrompt' = ownPrompt
      /\ typed' = typed /\ console' = console /\ UNCHANGED mounting /\ UNCHANGED testing
      /\ commands' = commands /\ delivered' = delivered /\ gaveUp' = gaveUp
      /\ running' = running /\ UNCHANGED shell /\ passed' = passed
  BY DEF SetUp, Run, tty, shell
<1>2. /\ BootTypes /\ ScriptTypes /\ ShellTypes /\ PanicIsKnown /\ ExitCodeIsItsOwn
      /\ TestsAreCounted
  BY DEF IInv, Types
<1>3. AtBoot /\ Untested
  BY <1>1 DEF AtBoot, Untested
<1>4. pc' \in Mounting
  BY <1>1 DEF Mounting
<1>5. BootTypes'
  <2>1. kernel' \in [abi: Abis \cup {"none"}, alternate: BOOLEAN]
    BY <1>1 DEF NoKernel
  <2>2. ranManualBoot' \in BOOLEAN /\ haveDhclient' \in BOOLEAN
    BY <1>1
  <2>3. config' \in Configs
    BY <1>1, <1>2 DEF SomeConfig, BootTypes
  <2> QED
    BY <1>1, <1>2, <2>1, <2>2, <2>3 DEF BootTypes
<1>6. ScriptTypes'
  <2>1. dir <= NumDirs /\ gaveUp' \in BOOLEAN
    BY <1>1, <1>2, <1>3 DEF ScriptTypes
  <2>2. wait' \in WaitType /\ outcome' \in OutcomeType
    BY <1>1 DEF WaitType, OutcomeType
  <2>3. TestTypes'
    BY <1>1, <1>2, TestTypesStay DEF InTest
  <2> QED
    BY <1>1, <1>2, <1>4, <2>1, <2>2, <2>3, ScriptMoves
<1>7. ShellTypes'
  BY <1>1, <1>2, ShellStays
<1>8. Shown' = Shown
  BY <1>1 DEF Shown
<1>9. PanicIsKnown'
  BY <1>1, <1>2, <1>8, PanicKept
<1>10. NothingToDo' /\ Booting'
  BY <1>4, AfterBoot
<1>11. ExitCodeIsItsOwn' /\ TestsAreCounted'
  <2>1. /\ StillRuns /\ ~AwaitsTest /\ ~AwaitsExit /\ ~AwaitsTest' /\ ~AwaitsExit'
        /\ pc' \notin {"poweroff", "exit 0"}
    BY <1>1 DEF StillRuns, AwaitsTest, AwaitsExit
  <2>2. NoTest /\ NoCodeShown
    BY <1>2, <2>1 DEF ExitCodeIsItsOwn
  <2>3. ExitCodeIsItsOwn'
    BY <1>1, <1>8, <2>1, <2>2, NoTestKept
  <2> QED
    BY <1>1, <1>2, <1>3, <2>1, <2>3, CountKept DEF testing
<1> QED
  BY <1>5, <1>6, <1>7, <1>9, <1>10, <1>11 DEF IInv, Types

(* A command that is typed comes last.                                     *)
LEMMA Appended ==
  ASSUME ShellTypes, NEW c \in CommandType, commands' = Append(commands, c)
  PROVE  /\ commands' \in Seq(CommandType) /\ Len(commands) \in Nat
         /\ DOMAIN commands = 1 .. Len(commands)
         /\ DOMAIN commands' = 1 .. Len(commands) + 1
         /\ Len(commands') = Len(commands) + 1 /\ commands' # <<>>
         /\ commands = <<>> <=> Len(commands) = 0
         /\ commands'[Len(commands) + 1] = c
         /\ \A i \in DOMAIN commands : commands'[i] = commands[i]
<1>1. commands \in Seq(CommandType)
  BY DEF ShellTypes
<1>2. /\ Len(commands) \in Nat /\ commands' \in Seq(CommandType)
      /\ Len(commands') = Len(commands) + 1
      /\ commands'[Len(commands) + 1] = c
      /\ \A i \in 1 .. Len(commands) : commands'[i] = commands[i]
  BY <1>1, AppendProperties
<1>3. DOMAIN commands = 1 .. Len(commands) /\ DOMAIN commands' = 1 .. Len(commands')
      /\ (commands = <<>> <=> Len(commands) = 0)
  BY <1>1, <1>2, EmptySeq
<1>4. commands' # <<>>
  BY <1>2, EmptySeq
<1> QED
  BY <1>2, <1>3, <1>4

(* The question for the exit code is typed right after the test.           *)
LEMMA SendHolds ==
  ASSUME IInv, SendCommand \/ SendPlain
  PROVE  IInv'
<1> DEFINE c == [name |-> pc, dir |-> dir, test |-> test]
<1> PICK n : n = Len(commands) + 1
  OBVIOUS
<1>1. /\ pc \in Commands \cup {"exitcode", "poweroff"} /\ wait = "send"
      /\ pc' = pc /\ wait' = "answer" /\ outcome' = outcome
      /\ UNCHANGED mounting /\ UNCHANGED testing /\ test' = test
      /\ commands' = Append(commands, c)
      /\ UNCHANGED shell /\ delivered' = delivered /\ gaveUp' = gaveUp
      /\ running' = running /\ lastStatus' = lastStatus /\ passed' = passed
      /\ UNCHANGED <<config, ranManualBoot, haveDhclient>> /\ UNCHANGED guest
      /\ typed' = typed /\ console' = console /\ mounts' = mounts
  BY DEF SendCommand, SendPlain, bootVars, runner, tty, shell, testing
<1>2. /\ BootTypes /\ ScriptTypes /\ ShellTypes /\ PanicIsKnown /\ ExitCodeIsItsOwn
      /\ TestsAreCounted
  BY DEF IInv, Types
<1>3. c \in CommandType
  <2>1. dir \in 1 .. NumDirs + 1 /\ test \in 1 .. NumTests + 1
    BY <1>2 DEF ScriptTypes
  <2>2. pc # "poweroff" => test \in Tests
    <3>1. CASE pc \in InTest
      BY <1>2, <3>1 DEF ScriptTypes
    <3>2. CASE pc \notin InTest /\ pc # "poweroff"
      <4>1. pc \in Mounting \cup {"settle", "su"}
        BY <1>1, <3>2 DEF InTest, Mounting, Commands, Checked, Plain
      <4>2. test = 1
        BY <1>2, <4>1 DEF Untested, TestsAreCounted
      <4> QED
        BY <4>2, SessionAssumption DEF Tests, SessionAssumption
    <3> QED
      BY <3>1, <3>2
  <2> QED
    BY <1>1, <2>1, <2>2 DEF CommandType
<1>4. /\ commands' \in Seq(CommandType) /\ Len(commands) \in Nat
      /\ DOMAIN commands = 1 .. Len(commands)
      /\ DOMAIN commands' = 1 .. n
      /\ Len(commands') = n /\ commands' # <<>>
      /\ commands = <<>> <=> Len(commands) = 0
      /\ commands'[n] = c
      /\ \A i \in DOMAIN commands : commands'[i] = commands[i]
  <2> HIDE DEF c
  <2> QED
    BY <1>1, <1>2, <1>3, Appended
<1>5. Shown' = Shown
  BY <1>1 DEF Shown
<1>6. pc \in Mounting \cup Testing /\ pc # "exit 1"
  BY <1>1, Places
<1>7. BootTypes' /\ PanicIsKnown' /\ NothingToDo' /\ Booting'
  BY <1>1, <1>2, <1>5, <1>6, GuestStays DEF BootTypes
<1>8. ScriptTypes'
  <2>1. (pc' \in Mounting => dir <= NumDirs) /\ gaveUp' \in BOOLEAN
    BY <1>1, <1>2 DEF ScriptTypes
  <2>2. wait' \in WaitType /\ outcome' \in OutcomeType
    BY <1>1, <1>2 DEF WaitType, OutcomeType, ScriptTypes
  <2>3. TestTypes'
    BY <1>1, <1>2, TestTypesStay
  <2> QED
    BY <1>1, <1>2, <1>6, <2>1, <2>2, <2>3, ScriptMoves
<1>9. ShellTypes'
  BY <1>1, <1>2, <1>4 DEF ShellTypes
<1>10. /\ \A i \in DOMAIN commands :
            /\ i < n /\ i \in DOMAIN commands'
            /\ IsTest(i)' <=> IsTest(i)
            /\ AsksExit(i)' <=> AsksExit(i)
            /\ IsOwnTest(i)' <=> IsOwnTest(i)
       /\ \A i \in DOMAIN commands' : i \in DOMAIN commands \/ i = n
       /\ n \in DOMAIN commands'
       /\ IsTest(n)' <=> pc = "cheribsdtest"
       /\ AsksExit(n)' <=> pc = "exitcode"
       /\ IsOwnTest(n)' <=> pc = "cheribsdtest"
  <2>1. \A i \in DOMAIN commands : i < n /\ i \in DOMAIN commands'
    BY <1>4
  <2>2. (\A i \in DOMAIN commands' : i \in DOMAIN commands \/ i = n) /\ n \in DOMAIN commands'
    BY <1>4
  <2>3. commands'[n].name = pc /\ commands'[n].test = test
    BY <1>4
  <2> QED
    BY <1>1, <1>4, <2>1, <2>2, <2>3 DEF IsTest, AsksExit, IsOwnTest
<1>11. ExitCodeIsItsOwn'
  <2>1. NoCodeShown => NoCodeShown'
    BY <1>5 DEF NoCodeShown
  <2>2. CASE pc = "cheribsdtest"
    <3>1. StillRuns /\ ~AwaitsTest /\ ~AwaitsExit
      BY <1>1, <2>2 DEF StillRuns, AwaitsTest, AwaitsExit
    <3>2. NoTest /\ NoCodeShown
      BY <1>2, <3>1 DEF ExitCodeIsItsOwn
    <3>3. TestAhead(n)'
      <4>1. \A i \in DOMAIN commands' : ~AsksExit(i)' /\ (i < n => ~IsTest(i)')
        BY <1>10, <2>2, <3>2 DEF NoTest
      <4>2. running'.name # "cheribsdtest" /\ n # 0 /\ IsOwnTest(n)'
        BY <1>1, <1>4, <1>10, <2>2, <3>2 DEF NoTest
      <4> QED
        BY <2>1, <3>2, <4>1, <4>2 DEF TestAhead
    <3>4. TestAhead(Len(commands))'
      BY <1>4, <3>3 DEF TestAhead
    <3>5. AwaitsTest' /\ ~AwaitsExit'
      BY <1>1, <2>2 DEF AwaitsTest, AwaitsExit
    <3> QED
      BY <3>4, <3>5 DEF ExitCodeIsItsOwn
  <2>3. CASE pc = "exitcode"
    <3>1. AwaitsTest
      BY <1>1, <2>3 DEF AwaitsTest
    <3>2. PICK m \in Nat : m = Len(commands)
      BY <1>4, Zenon
    <3>3. TestAhead(m)
      BY <1>2, <3>1, <3>2 DEF ExitCodeIsItsOwn
    <3>4. TestAhead(m)'
      <4>1. NoCodeShown'
        BY <2>1, <3>3 DEF TestAhead
      <4>2. \A i \in DOMAIN commands' : i <= m => ~AsksExit(i)'
        BY <1>4, <1>10, <3>2, <3>3 DEF TestAhead
      <4>3. \A i \in DOMAIN commands' : i < m => ~IsTest(i)'
        BY <1>4, <1>10, <3>2, <3>3 DEF TestAhead
      <4>4. m # 0 => m \in DOMAIN commands
        BY <1>4, <3>2
      <4>5. IF m = 0 THEN TestIsLast' ELSE IsOwnTest(m)' /\ running'.name # "cheribsdtest"
        BY <1>1, <1>10, <3>3, <4>4 DEF TestAhead, TestIsLast
      <4> QED
        BY <4>1, <4>2, <4>3, <4>5 DEF TestAhead
    <3>5. Len(commands') - 1 = m /\ Len(commands') = n /\ commands' # <<>>
      BY <1>4, <3>2
    <3>6. TestAhead(Len(commands) - 1)'
      BY <3>4, <3>5 DEF TestAhead
    <3>7. AsksExit(Len(commands))' /\ ~IsTest(Len(commands))'
      BY <1>10, <2>3, <3>5 DEF AsksExit, IsTest
    <3>8. AwaitsExit' /\ ~AwaitsTest'
      BY <1>1, <2>3 DEF AwaitsTest, AwaitsExit
    <3> QED
      BY <3>5, <3>6, <3>7, <3>8 DEF ExitCodeIsItsOwn
  <2>4. CASE pc \notin {"cheribsdtest", "exitcode"}
    <3>1. StillRuns /\ ~AwaitsTest /\ ~AwaitsExit /\ ~AwaitsTest' /\ ~AwaitsExit'
      BY <1>1, <2>4 DEF StillRuns, AwaitsTest, AwaitsExit, Commands, Checked, Plain
    <3>2. NoTest /\ NoCodeShown
      BY <1>2, <3>1 DEF ExitCodeIsItsOwn
    <3>3. NoTest'
      BY <1>1, <1>10, <2>4, <3>2 DEF NoTest
    <3> QED
      BY <2>1, <3>1, <3>2, <3>3 DEF ExitCodeIsItsOwn
  <2> QED
    BY <2>2, <2>3, <2>4
<1>12. TestsAreCounted'
  <2>1. Untested' => Untested
    BY <1>1 DEF Untested, AtBoot
  <2>2. pc' # "exit 0"
    BY <1>1 DEF Commands, Checked, Plain
  <2> QED
    BY <1>1, <1>2, <2>1, <2>2, CountKept DEF testing
<1> QED
  BY <1>7, <1>8, <1>9, <1>11, <1>12 DEF IInv, Types

(* What the script waits for after a command.                              *)
LEMMA CommandReads ==
  ASSUME wait \in {"answer", "prompt", "drain"}
  PROVE  CommandPatterns \subseteq Message \cup {"TIMEOUT", "EOF"}
<1>1. /\ "CHERI_TRAP" \in Message /\ "PEXPECT_PROMPT" \in Message
      /\ "__COMMAND SUCCESSFUL__" \in Message /\ "__COMMAND FAILED__" \in Message
      /\ "unable to open connection" \in Message
  BY Output DEF BootOutput, SessionOutput
<1>2. AnswerPatterns \subseteq Message \cup {"TIMEOUT", "EOF"}
  BY <1>1 DEF AnswerPatterns
<1> QED
  BY <1>1, <1>2 DEF CommandPatterns

(* An answer is read.                                                      *)
LEMMA ReadCommandHolds ==
  ASSUME IInv, ReadCommand
  PROVE  IInv'
<1>1. /\ pc \in Commands /\ wait \in {"answer", "prompt", "drain"}
      /\ Consume(CommandPatterns)
      /\ UNCHANGED <<config, ranManualBoot, haveDhclient>> /\ UNCHANGED guest
      /\ typed' = typed /\ UNCHANGED mounting /\ UNCHANGED testing /\ test' = test
      /\ commands' = commands /\ UNCHANGED shell /\ delivered' = delivered /\ gaveUp' = gaveUp
      /\ running' = running /\ lastStatus' = lastStatus /\ passed' = passed
  BY DEF ReadCommand, shell, testing
<1>2. /\ BootTypes /\ ScriptTypes /\ ShellTypes /\ ExitCodeIsItsOwn /\ TestsAreCounted
      /\ console \in Seq(Message)
  BY DEF IInv, Types, BootTypes
<1>3. \/ pc' = "exit 1" /\ wait' = wait /\ outcome' = outcome
      \/ /\ pc' = pc /\ wait' \in {"prompt", "drain", "ended"} /\ outcome' \in OutcomeType
         /\ Returned(CommandPatterns) # {}
  <2>1. outcome \in OutcomeType
    BY <1>2 DEF ScriptTypes, OutcomeType
  <2>2. CASE Dies
    BY <2>2 DEF Dies
  <2>3. ASSUME NEW m \in Returned(CommandPatterns), wait = "answer", AnswerRead(m), ~Dies
        PROVE  /\ pc' = pc /\ wait' \in {"prompt", "drain", "ended"}
               /\ outcome' \in OutcomeType
    BY <2>3 DEF AnswerRead, Ends, ReadsOn, OutcomeType
  <2>4. ASSUME NEW m \in Returned(CommandPatterns), Ends(outcome)
        PROVE  pc' = pc /\ wait' = "ended" /\ outcome' \in OutcomeType
    BY <2>1, <2>4 DEF Ends
  <2> QED
    BY <2>2, <2>3, <2>4 DEF ReadCommand
<1>4. /\ console' \in Seq(Message) /\ Shown' \subseteq Shown
      /\ Returned(CommandPatterns) # {} => ("PANIC_KDB" \in Shown => "PANIC_KDB" \in Shown')
  BY <1>1, <1>2, CommandReads, Expected
<1>5. /\ pc' \in Mounting \cup Testing \cup {"exit 1"} /\ pc # "exit 1"
      /\ pc \in Mounting \cup Testing
  BY <1>1, <1>3, Places
<1>6. BootTypes' /\ PanicIsKnown' /\ NothingToDo' /\ Booting'
  BY <1>1, <1>3, <1>4, <1>5, GuestStays
<1>7. ScriptTypes'
  <2>1. (pc' \in Mounting => dir <= NumDirs) /\ gaveUp' \in BOOLEAN
    BY <1>1, <1>2, <1>3, <1>5, Places DEF ScriptTypes
  <2>2. wait' \in WaitType /\ outcome' \in OutcomeType
    BY <1>2, <1>3 DEF WaitType, OutcomeType, ScriptTypes
  <2>3. TestTypes'
    BY <1>1, <1>2, <1>3, TestTypesStay DEF InTest
  <2> QED
    BY <1>1, <1>2, <1>5, <2>1, <2>2, <2>3, ScriptMoves
<1>8. ShellTypes'
  BY <1>1, <1>2, ShellStays
<1>9. ExitCodeIsItsOwn'
  <2>1. CASE pc' = "exit 1"
    <3>1. ~StillRuns'
      BY <2>1 DEF StillRuns
    <3> QED
      BY <3>1, CodesEnd
  <2>2. CASE pc' = pc /\ wait' \in {"prompt", "drain", "ended"}
    <3>1. CASE pc = "cheribsdtest"
      <4>1. AwaitsTest /\ AwaitsTest'
        BY <1>1, <2>2, <3>1 DEF AwaitsTest
      <4> QED
        BY <1>1, <1>2, <1>4, <4>1, AwaitsTestKept
    <3>2. CASE pc # "cheribsdtest"
      <4>1. StillRuns /\ ~AwaitsTest /\ ~AwaitsExit /\ ~AwaitsTest' /\ ~AwaitsExit'
        BY <1>1, <2>2, <3>2 DEF StillRuns, AwaitsTest, AwaitsExit, Commands, Checked, Plain
      <4>2. NoTest /\ NoCodeShown
        BY <1>2, <4>1 DEF ExitCodeIsItsOwn
      <4> QED
        BY <1>1, <1>4, <4>1, <4>2, NoTestKept
    <3> QED
      BY <3>1, <3>2
  <2> QED
    BY <1>3, <2>1, <2>2
<1>10. TestsAreCounted'
  <2>1. Untested' => Untested
    <3>1. pc' = "exit 1" => ~Untested'
      BY AfterBoot DEF Untested, Mounting
    <3> QED
      BY <1>3, <3>1 DEF Untested, AtBoot
  <2>2. /\ pc' \in {"poweroff", "exit 0"} => pc \in {"poweroff", "exit 0"}
        /\ pc' # "exit 0"
    BY <1>1, <1>3 DEF Commands, Checked, Plain
  <2> QED
    BY <1>1, <1>2, <2>1, <2>2, CountKept DEF testing
<1> QED
  BY <1>6, <1>7, <1>8, <1>9, <1>10 DEF IInv, Types

(* Where a step of _do_test_setup() leads, with which loop counters.       *)
MovesOn ==
  /\ pc' \in Mounting \cup {"settle", "su", "exit 1"}
  /\ wait' \in WaitType /\ outcome' \in OutcomeType
  /\ dir' \in 1 .. NumDirs + 1 /\ trial' \in 0 .. MaxSmbfsRetry - 1
  /\ pc' \in Mounting => dir' <= NumDirs
  /\ sharedMountFailed' \in BOOLEAN

MountTypes ==
  /\ mounted' \in [Dirs -> BOOLEAN] /\ issue2617Fixed' \in {"unknown", "yes", "no"}
  /\ canUseP9fs' \in BOOLEAN /\ canUseSmb' \in BOOLEAN

(* The next command of the same iteration.                                 *)
LEMMA RunMoves ==
  ASSUME ScriptTypes, dir <= NumDirs, dir' = dir, trial' \in 0 .. MaxSmbfsRetry - 1,
         sharedMountFailed' = sharedMountFailed,
         NEW c \in Mounting, Run(c)
  PROVE  MovesOn
<1>1. pc' = c /\ wait' = "send" /\ outcome' = "none"
  BY DEF Run
<1>2. wait' \in WaitType /\ outcome' \in OutcomeType
  BY <1>1 DEF WaitType, OutcomeType
<1>3. /\ dir' \in 1 .. NumDirs + 1 /\ dir' <= NumDirs /\ sharedMountFailed' \in BOOLEAN
  BY DEF ScriptTypes
<1> QED
  BY <1>1, <1>2, <1>3 DEF MovesOn

(* The script gives up.                                                    *)
LEMMA DiesMoves ==
  ASSUME ScriptTypes, Dies, UNCHANGED mounting
  PROVE  MovesOn /\ MountTypes
<1>1. /\ dir' = dir /\ trial' = trial /\ mounted' = mounted
      /\ canUseP9fs' = canUseP9fs /\ canUseSmb' = canUseSmb
      /\ issue2617Fixed' = issue2617Fixed /\ sharedMountFailed' = sharedMountFailed
  BY DEF mounting
<1>2. pc' = "exit 1" /\ wait' = wait /\ outcome' = outcome
  BY DEF Dies
<1>3. pc' \notin Mounting
  BY <1>2 DEF Mounting
<1>4. MovesOn
  BY <1>1, <1>2, <1>3 DEF MovesOn, ScriptTypes, WaitType, OutcomeType
<1>5. MountTypes
  BY <1>1 DEF MountTypes, ScriptTypes
<1> QED
  BY <1>4, <1>5

(* The next iteration.                                                     *)
LEMMA DirIsDoneMoves ==
  ASSUME ScriptTypes, dir <= NumDirs, DirIsDone, mounted' \in [Dirs -> BOOLEAN]
  PROVE  MovesOn
<1>1. dir' = dir + 1 /\ trial' = 0 /\ sharedMountFailed' = SharedMountFails
  BY DEF DirIsDone
<1>2. /\ dir \in 1 .. NumDirs + 1 /\ NumDirs \in Nat /\ MaxSmbfsRetry \in Nat \ {0}
      /\ sharedMountFailed \in BOOLEAN
  BY SessionAssumption DEF ScriptTypes, SessionAssumption
<1>3. dir' \in 1 .. NumDirs + 1 /\ trial' \in 0 .. MaxSmbfsRetry - 1
  BY <1>1, <1>2
<1>4. sharedMountFailed' \in BOOLEAN
  <2>1. SharedMountFails \in BOOLEAN
    BY DEF SharedMountFails
  <2> QED
    BY <1>1, <2>1
<1>5. /\ wait' = "send" /\ outcome' = "none"
      /\ \/ pc' = "settle"
         \/ pc' = "mkdir" /\ ~(dir' > NumDirs)
  BY DEF DirIsDone, MountNext, Run
<1>6. wait' \in WaitType /\ outcome' \in OutcomeType
  BY <1>5 DEF WaitType, OutcomeType
<1>7. pc' \in Mounting \cup {"settle"} /\ (pc' \in Mounting => dir' <= NumDirs)
  <2>1. CASE pc' = "settle"
    BY <2>1 DEF Mounting
  <2>2. CASE pc' = "mkdir" /\ ~(dir' > NumDirs)
    <3>1. dir' <= NumDirs
      BY <1>2, <1>3, <2>2
    <3> QED
      BY <2>2, <3>1 DEF Mounting
  <2> QED
    BY <1>5, <2>1, <2>2
<1> QED
  BY <1>3, <1>4, <1>6, <1>7 DEF MovesOn

(* The second way to mount, or the next iteration.                         *)
LEMMA ThenSmbMoves ==
  ASSUME ScriptTypes, dir <= NumDirs, ThenSmb, mounted' \in [Dirs -> BOOLEAN]
  PROVE  MovesOn
<1>1. CASE canUseSmb
  <2>1. Run("smbfs") /\ dir' = dir /\ trial' = trial /\ sharedMountFailed' = sharedMountFailed
    BY <1>1 DEF ThenSmb
  <2>2. trial' \in 0 .. MaxSmbfsRetry - 1 /\ "smbfs" \in Mounting
    BY <2>1 DEF ScriptTypes, Mounting
  <2> QED
    BY <2>1, <2>2, RunMoves
<1>2. CASE ~canUseSmb
  BY <1>2, DirIsDoneMoves DEF ThenSmb
<1> QED
  BY <1>1, <1>2

(* All steps of _do_test_setup().                                          *)
LEMMA MountStepMoves ==
  ASSUME ScriptTypes, MountStep
  PROVE  /\ pc \in Mounting \cup {"settle"} /\ UNCHANGED testing
         /\ MovesOn /\ MountTypes
<1>1. /\ trial \in 0 .. MaxSmbfsRetry - 1 /\ mounted \in [Dirs -> BOOLEAN]
      /\ issue2617Fixed \in {"unknown", "yes", "no"}
      /\ canUseP9fs \in BOOLEAN /\ canUseSmb \in BOOLEAN
      /\ pc \in Mounting => dir <= NumDirs
  BY DEF ScriptTypes
<1>2. \A c \in Mounting : Run(c) /\ UNCHANGED mounting /\ dir <= NumDirs => MovesOn
  BY <1>1, RunMoves DEF mounting
<1>3. UNCHANGED mounting => MountTypes
  BY <1>1 DEF MountTypes, mounting
<1>4. \A b \in BOOLEAN : [mounted EXCEPT ![dir] = b] \in [Dirs -> BOOLEAN]
  BY <1>1
<1>5. /\ "mkdir" \in Mounting /\ "p9fs" \in Mounting /\ "check2617" \in Mounting
      /\ "rm" \in Mounting /\ "umount" \in Mounting /\ "smbfs" \in Mounting
  BY DEF Mounting
<1>6. CASE AfterMkdir
  <2>1. pc = "mkdir" /\ UNCHANGED testing
    BY <1>6 DEF AfterMkdir, Ended
  <2>2. dir <= NumDirs
    BY <1>1, <1>5, <2>1
  <2>3. CASE Dies /\ UNCHANGED mounting
    BY <1>5, <2>1, <2>3, DiesMoves
  <2>4. CASE Run("p9fs") /\ UNCHANGED mounting
    BY <1>2, <1>3, <1>5, <2>1, <2>2, <2>4
  <2>5. CASE ThenSmb /\ UNCHANGED <<mounted, canUseP9fs, canUseSmb, issue2617Fixed>>
    <3>1. MountTypes
      BY <1>1, <2>5 DEF MountTypes
    <3>2. mounted' \in [Dirs -> BOOLEAN]
      BY <3>1 DEF MountTypes
    <3> QED
      BY <1>5, <2>1, <2>2, <2>5, <3>1, <3>2, ThenSmbMoves
  <2> QED
    BY <1>6, <2>3, <2>4, <2>5 DEF AfterMkdir
<1>7. ASSUME P9fsFails, UNCHANGED <<canUseSmb, issue2617Fixed>>, dir <= NumDirs
      PROVE  MovesOn /\ MountTypes
  <2>1. mounted' \in [Dirs -> BOOLEAN] /\ canUseP9fs' = FALSE /\ ThenSmb
    BY <1>4, <1>7 DEF P9fsFails, Unmounted
  <2>2. MountTypes
    BY <1>1, <1>7, <2>1 DEF MountTypes
  <2> QED
    BY <1>7, <2>1, <2>2, ThenSmbMoves
<1>8. CASE AfterP9fs
  <2>1. /\ pc = "p9fs" /\ UNCHANGED testing
        /\ UNCHANGED <<canUseSmb, issue2617Fixed>>
    BY <1>8 DEF AfterP9fs, Ended
  <2>2. dir <= NumDirs
    BY <1>1, <1>5, <2>1
  <2>3. CASE P9fsFails
    BY <1>5, <1>7, <2>1, <2>2, <2>3
  <2>4. CASE /\ mounted' = [mounted EXCEPT ![dir] = TRUE] /\ UNCHANGED canUseP9fs
             /\ IF dir \in ReadOnlyDirs \/ issue2617Fixed = "yes" THEN ThenSmb
                ELSE Run("check2617") /\ UNCHANGED <<dir, trial, sharedMountFailed>>
    <3>1. mounted' \in [Dirs -> BOOLEAN]
      BY <1>4, <2>4
    <3>2. MountTypes
      BY <1>1, <2>1, <2>4, <3>1 DEF MountTypes
    <3>3. MovesOn
      BY <1>1, <1>5, <2>2, <2>4, <3>1, ThenSmbMoves, RunMoves
    <3> QED
      BY <1>5, <2>1, <3>2, <3>3
  <2> QED
    BY <1>8, <2>3, <2>4 DEF AfterP9fs
<1>9. CASE AfterCheck2617
  <2>1. /\ pc = "check2617" /\ UNCHANGED testing
        /\ UNCHANGED <<canUseP9fs, canUseSmb>> /\ issue2617Fixed' \in {"yes", "no"}
        /\ mounted' = mounted
        /\ \/ ThenSmb
           \/ Run("rm") /\ UNCHANGED <<dir, trial, mounted, sharedMountFailed>>
    BY <1>9 DEF AfterCheck2617, Ended
  <2>2. dir <= NumDirs
    BY <1>1, <1>5, <2>1
  <2>3. mounted' \in [Dirs -> BOOLEAN] /\ MountTypes
    BY <1>1, <2>1 DEF MountTypes
  <2>4. MovesOn
    BY <1>1, <1>5, <2>1, <2>2, <2>3, ThenSmbMoves, RunMoves
  <2> QED
    BY <1>5, <2>1, <2>3, <2>4
<1>10. CASE AfterUnmounting
  <2>1. pc \in {"rm", "umount"} /\ UNCHANGED testing
    BY <1>10 DEF AfterUnmounting, Ended
  <2>2. dir <= NumDirs
    BY <1>1, <1>5, <2>1
  <2>3. CASE Dies /\ UNCHANGED mounting
    BY <1>5, <2>1, <2>3, DiesMoves
  <2>4. CASE Run("umount") /\ UNCHANGED mounting
    BY <1>2, <1>3, <1>5, <2>1, <2>2, <2>4
  <2>5. CASE P9fsFails /\ UNCHANGED <<canUseSmb, issue2617Fixed>>
    BY <1>5, <1>7, <2>1, <2>2, <2>5
  <2> QED
    BY <1>10, <2>3, <2>4, <2>5 DEF AfterUnmounting, OnlyAfter
<1>11. CASE AfterSmb
  <2>1. pc = "smbfs" /\ UNCHANGED testing
    BY <1>11 DEF AfterSmb, Ended
  <2>2. dir <= NumDirs
    BY <1>1, <1>5, <2>1
  <2>3. CASE Dies /\ UNCHANGED mounting
    BY <1>5, <2>1, <2>3, DiesMoves
  <2>4. CASE /\ TriesAgain /\ trial' = trial + 1 /\ Unmounted /\ Run("smbfs")
             /\ UNCHANGED <<dir, canUseP9fs, canUseSmb, issue2617Fixed, sharedMountFailed>>
    <3>1. trial' \in 0 .. MaxSmbfsRetry - 1
      BY <1>1, <2>4, SessionAssumption DEF TriesAgain, SessionAssumption
    <3>2. MovesOn
      BY <1>5, <2>2, <2>4, <3>1, RunMoves
    <3>3. mounted' \in [Dirs -> BOOLEAN]
      BY <1>4, <2>4 DEF Unmounted
    <3>4. MountTypes
      BY <1>1, <2>4, <3>3 DEF MountTypes
    <3> QED
      BY <1>5, <2>1, <3>2, <3>4
  <2>5. CASE /\ mounted' = [mounted EXCEPT ![dir] = (outcome = "ok")]
             /\ canUseSmb' = (outcome = "ok") /\ DirIsDone
             /\ UNCHANGED <<canUseP9fs, issue2617Fixed>>
    <3>1. mounted' \in [Dirs -> BOOLEAN] /\ canUseSmb' \in BOOLEAN
      BY <1>4, <2>5
    <3>2. MountTypes
      BY <1>1, <2>5, <3>1 DEF MountTypes
    <3> QED
      BY <1>5, <2>1, <2>2, <2>5, <3>1, <3>2, DirIsDoneMoves
  <2> QED
    BY <1>11, <2>3, <2>4, <2>5 DEF AfterSmb
<1>12. CASE AfterSettling
  <2>1. /\ pc = "settle" /\ UNCHANGED testing /\ UNCHANGED mounting
        /\ Run("su") \/ Dies
    BY <1>12 DEF AfterSettling, Ended, OnlyAfter
  <2>2. CASE Dies
    BY <2>1, <2>2, DiesMoves
  <2>3. CASE Run("su")
    <3>1. pc' = "su" /\ wait' = "send" /\ outcome' = "none" /\ "su" \notin Mounting
      BY <2>3 DEF Run, Mounting
    <3>2. dir' = dir /\ trial' = trial /\ sharedMountFailed' = sharedMountFailed
      BY <2>1 DEF mounting
    <3>3. MovesOn
      BY <3>1, <3>2 DEF MovesOn, ScriptTypes, WaitType, OutcomeType
    <3> QED
      BY <1>3, <2>1, <3>3
  <2> QED
    BY <2>1, <2>2, <2>3
<1> QED
  BY <1>6, <1>8, <1>9, <1>10, <1>11, <1>12 DEF MountStep

(* They have nothing to do with the tests.                                 *)
LEMMA MountStepHolds ==
  ASSUME IInv, MountStep
  PROVE  IInv'
<1>1. /\ UNCHANGED <<config, ranManualBoot, haveDhclient>> /\ UNCHANGED guest
      /\ typed' = typed /\ console' = console
      /\ commands' = commands /\ UNCHANGED shell /\ delivered' = delivered
      /\ running' = running /\ passed' = passed
      /\ gaveUp' = (gaveUp \/ outcome = "timeout")
  BY DEF MountStep, tty, shell
<1>2. /\ BootTypes /\ ScriptTypes /\ ShellTypes /\ ExitCodeIsItsOwn /\ TestsAreCounted
      /\ console \in Seq(Message)
  BY DEF IInv, Types, BootTypes
<1>3. /\ pc \in Mounting \cup {"settle"} /\ UNCHANGED testing
      /\ MovesOn /\ MountTypes
  BY <1>2, MountStepMoves
<1>4. /\ pc' \in Mounting \cup {"settle", "su", "exit 1"}
      /\ pc' \in Mounting \cup Testing \cup {"exit 1"} /\ pc # "exit 1"
      /\ pc' \notin InTest
  BY <1>3 DEF MovesOn, Mounting, Testing, InTest
<1>5. Shown' = Shown
  BY <1>1 DEF Shown
<1>6. BootTypes' /\ PanicIsKnown' /\ NothingToDo' /\ Booting'
  BY <1>1, <1>2, <1>4, <1>5, GuestStays
<1>7. ScriptTypes'
  <2>1. ~AtBoot'
    BY <1>4, AfterBoot
  <2>2. gaveUp' \in BOOLEAN
    BY <1>1, <1>2 DEF ScriptTypes
  <2>3. /\ wait' \in {"send", "answer", "prompt", "drain", "ended"}
        /\ outcome' \in {"none", "ok", "failed", "timeout", "error output"}
        /\ dir' \in 1 .. NumDirs + 1 /\ trial' \in 0 .. MaxSmbfsRetry - 1
        /\ pc' \in Mounting => dir' <= NumDirs
        /\ sharedMountFailed' \in BOOLEAN
    BY <1>3 DEF MovesOn, WaitType, OutcomeType
  <2>4. /\ mounted' \in [Dirs -> BOOLEAN] /\ issue2617Fixed' \in {"unknown", "yes", "no"}
        /\ canUseP9fs' \in BOOLEAN /\ canUseSmb' \in BOOLEAN
    BY <1>3 DEF MountTypes
  <2>5. TestTypes'
    BY <1>2, <1>3, <1>4, TestTypesStay
  <2>6. /\ test' \in 1 .. NumTests + 1 /\ (pc' \in InTest => test' \in Tests)
        /\ exitCode' \in BOOLEAN /\ testsSuccessful' \in BOOLEAN
    BY <2>5 DEF TestTypes
  <2> QED
    BY <1>4, <2>1, <2>2, <2>3, <2>4, <2>6 DEF ScriptTypes
<1>8. ShellTypes'
  BY <1>1, <1>2, ShellStays
<1>9. ExitCodeIsItsOwn' /\ TestsAreCounted'
  <2>1. /\ StillRuns /\ ~AwaitsTest /\ ~AwaitsExit /\ ~AwaitsTest' /\ ~AwaitsExit'
        /\ pc' \notin {"poweroff", "exit 0"}
    BY <1>3, <1>4 DEF StillRuns, AwaitsTest, AwaitsExit, Mounting
  <2>2. NoTest /\ NoCodeShown
    BY <1>2, <2>1 DEF ExitCodeIsItsOwn
  <2>3. ExitCodeIsItsOwn'
    BY <1>1, <1>5, <2>1, <2>2, NoTestKept
  <2>4. Untested
    BY <1>3 DEF Untested
  <2> QED
    BY <1>1, <1>2, <1>3, <2>1, <2>3, <2>4, CountKept DEF testing
<1> QED
  BY <1>6, <1>7, <1>8, <1>9 DEF IInv, Types

(* Where the steps of run_cheribsdtest() lead.                             *)
LEMMA TestStepMoves ==
  ASSUME ScriptTypes, TestEnds, TestStep
  PROVE  /\ wait = "ended"
         /\ \/ pc \in {"rmxml", "cheribsdtest", "mv", "fsync"} /\ Interrupt
            \/ /\ pc = "su" /\ NextTest(test) /\ testsSuccessful' \in {FALSE, outcome = "ok"}
               /\ UNCHANGED <<test, exitCode, reported>> /\ NoInterrupt
            \/ /\ pc \in {"su", "pwd"} /\ pc' \in {"exit 1", "exit 2"}
               /\ UNCHANGED <<wait, outcome, testing>> /\ NoInterrupt
            \/ /\ pc \in {"rmxml", "mv"} /\ Run(IF pc = "mv" THEN "fsync" ELSE "cheribsdtest")
               /\ UNCHANGED testing /\ NoInterrupt
            \/ /\ pc = "cheribsdtest" /\ Run("exitcode")
               /\ UNCHANGED testing /\ NoInterrupt
            \/ /\ pc \in {"rmxml", "mv", "fsync", "pwd"} /\ NoInterrupt
               /\ \E ok \in BOOLEAN : (ok => exitCode) /\ TestReturns(ok)
<1>1. CASE AfterSu
  BY <1>1 DEF AfterSu, Ended, Dies, testing
<1>2. CASE AfterFsync
  <2>1. pc = "fsync" /\ wait = "ended"
    BY <1>2 DEF AfterFsync, Ended
  <2>2. CASE Interrupt
    BY <2>1, <2>2
  <2>3. CASE TestReturns(exitCode /\ outcome = "ok") /\ NoInterrupt
    <3> DEFINE ok == exitCode /\ outcome = "ok"
    <3>1. ok \in BOOLEAN /\ (ok => exitCode) /\ TestReturns(ok)
      BY <2>3 DEF ScriptTypes
    <3> HIDE DEF ok
    <3> QED
      BY <2>1, <2>3, <3>1
  <2> QED
    BY <1>2, <2>2, <2>3 DEF AfterFsync
<1>3. CASE AfterPwd
  BY <1>3 DEF AfterPwd, Ended
<1>4. CASE AfterTestCommand("rmxml", "cheribsdtest")
  BY <1>4 DEF AfterTestCommand, Ended
<1>5. CASE AfterTestCommand("cheribsdtest", "exitcode")
  <2>1. pc = "cheribsdtest" /\ wait = "ended" /\ outcome \in {"ok", "timeout"}
    BY <1>5 DEF AfterTestCommand, Ended, TestEnds
  <2> QED
    BY <1>5, <2>1 DEF AfterTestCommand
<1>6. CASE AfterTestCommand("mv", "fsync")
  BY <1>6 DEF AfterTestCommand, Ended
<1> QED
  BY <1>1, <1>2, <1>3, <1>4, <1>5, <1>6 DEF TestStep

(* The first test is there.                                                *)
LEMMA FirstTest ==
  ASSUME TestsAreCounted, Untested, NextTest(test)
  PROVE  pc' = "rmxml" /\ wait' = "send" /\ outcome' = "none" /\ test = 1 /\ test \in Tests
<1>1. test = 1 /\ NumTests \in Nat \ {0}
  BY SessionAssumption DEF SessionAssumption, TestsAreCounted
<1>2. ~(test > NumTests) /\ test \in Tests
  BY <1>1 DEF Tests
<1> QED
  BY <1>1, <1>2 DEF NextTest, Run

(* What an interrupt leaves: a prompt or two for the next command, but no  *)
(* test and no exit code.                                                  *)
LEMMA InterruptHolds ==
  ASSUME IInv, TestStep, Interrupt, pc \in {"rmxml", "cheribsdtest", "mv", "fsync"},
         wait = "ended"
  PROVE  IInv'
<1>1. /\ UNCHANGED <<config, ranManualBoot, haveDhclient>> /\ UNCHANGED guest
      /\ typed' = typed /\ UNCHANGED mounting
      /\ lastStatus' = lastStatus /\ mounts' = mounts /\ passed' = passed
      /\ delivered' = delivered /\ gaveUp' = gaveUp
  BY DEF TestStep
<1>2. /\ BootTypes /\ ScriptTypes /\ ShellTypes /\ ExitCodeIsItsOwn /\ TestsAreCounted
      /\ console \in Seq(Message)
  BY DEF IInv, Types, BootTypes
<1>3. /\ pc' = "pwd" /\ wait' = "send" /\ outcome' = "none"
      /\ commands' = <<>> /\ running' = Idle /\ UNCHANGED testing
      /\ \E prompts \in {<<>>, <<"PEXPECT_PROMPT">>, <<"PEXPECT_PROMPT", "PEXPECT_PROMPT">>} :
           console' = console \o prompts
  <2>1. console \o <<>> = console
    BY <1>2, ConcatEmptySeq
  <2> QED
    BY <2>1 DEF Interrupt, Run
<1>4. /\ console' \in Seq(Message)
      /\ Shown' = Shown \/ Shown' = Shown \cup {"PEXPECT_PROMPT"}
  <2>1. PICK prompts \in {<<>>, <<"PEXPECT_PROMPT">>, <<"PEXPECT_PROMPT", "PEXPECT_PROMPT">>} :
          console' = console \o prompts
    BY <1>3
  <2>2. prompts \in Seq(Message) /\ Range(prompts) \subseteq {"PEXPECT_PROMPT"}
    <3>1. "PEXPECT_PROMPT" \in Message
      BY Output DEF BootOutput
    <3>2. CASE prompts = <<>>
      BY <3>2, Tuples
    <3>3. CASE prompts = <<"PEXPECT_PROMPT">>
      BY <3>1, <3>3, Tuples, Short
    <3>4. CASE prompts = <<"PEXPECT_PROMPT", "PEXPECT_PROMPT">>
      BY <3>1, <3>4, Tuples, Short
    <3> QED
      BY <2>1, <3>2, <3>3, <3>4
  <2>3. Prints(prompts)
    BY <2>1 DEF Prints
  <2>4. console' \in Seq(Message) /\ Shown' = Shown \cup Range(prompts)
    BY <1>2, <2>2, <2>3, Printed
  <2> QED
    BY <2>2, <2>4
<1>5. /\ pc' \in Mounting \cup Testing \cup {"exit 1"} /\ pc # "exit 1" /\ pc' \notin Mounting
      /\ pc \in InTest
  BY <1>3 DEF Testing, InTest, Mounting
<1>6. /\ Shown' \cap Panics \subseteq Shown
      /\ "PANIC_KDB" \in Shown => "PANIC_KDB" \in Shown'
      /\ Shown' \cap ExitCodes \subseteq Shown
  BY <1>4, TwoPanics, Codes
<1>7. BootTypes' /\ PanicIsKnown' /\ NothingToDo' /\ Booting'
  BY <1>1, <1>4, <1>5, <1>6, GuestStays
<1>8. ScriptTypes'
  <2>1. gaveUp' \in BOOLEAN
    BY <1>1, <1>2 DEF ScriptTypes
  <2>2. wait' \in WaitType /\ outcome' \in OutcomeType
    BY <1>3 DEF WaitType, OutcomeType
  <2>3. TestTypes'
    BY <1>2, <1>3, <1>5, TestTypesStay
  <2> QED
    BY <1>1, <1>2, <1>5, <2>1, <2>2, <2>3, ScriptMoves
<1>9. ShellTypes'
  <2>1. /\ running' \in [name: Commands \cup {"none"}, dir: 1 .. NumDirs + 1, test: Tests,
                          ok: BOOLEAN]
        /\ commands' \in Seq(CommandType)
    BY <1>3, SessionAssumption DEF Idle, SessionAssumption, Tests
  <2> QED
    BY <1>1, <1>2, <2>1 DEF ShellTypes
<1>10. ExitCodeIsItsOwn'
  <2>1. NoCodeShown
    <3>1. pc = "cheribsdtest" => AwaitsTest
      BY DEF AwaitsTest
    <3>2. pc # "cheribsdtest" => StillRuns /\ ~AwaitsTest /\ ~AwaitsExit
      BY DEF StillRuns, AwaitsTest, AwaitsExit
    <3> QED
      BY <1>2, <3>1, <3>2 DEF ExitCodeIsItsOwn, TestAhead
  <2>2. NoCodeShown'
    BY <1>6, <2>1 DEF NoCodeShown
  <2>3. NoTest'
    BY <1>3 DEF NoTest, Idle
  <2>4. ~AwaitsTest' /\ ~AwaitsExit'
    BY <1>3 DEF AwaitsTest, AwaitsExit
  <2> QED
    BY <2>2, <2>3, <2>4 DEF ExitCodeIsItsOwn
<1>11. TestsAreCounted'
  <2>1. ~Untested' /\ pc' \notin {"poweroff", "exit 0"}
    <3>1. ~AtBoot'
      BY <1>5, AfterBoot
    <3> QED
      BY <1>3, <1>5, <3>1 DEF Untested
  <2> QED
    BY <1>1, <1>2, <1>3, <2>1, CountKept DEF testing
<1> QED
  BY <1>7, <1>8, <1>9, <1>10, <1>11 DEF IInv, Types

(* A test, its commands, and the next one.                                 *)
LEMMA TestStepHolds ==
  ASSUME IInv, TestEnds, TestStep
  PROVE  IInv'
<1>1. /\ UNCHANGED <<config, ranManualBoot, haveDhclient>> /\ UNCHANGED guest
      /\ typed' = typed /\ UNCHANGED mounting
      /\ lastStatus' = lastStatus /\ mounts' = mounts /\ passed' = passed
      /\ delivered' = delivered /\ gaveUp' = gaveUp
  BY DEF TestStep
<1>2. /\ BootTypes /\ ScriptTypes /\ ShellTypes /\ ExitCodeIsItsOwn /\ TestsAreCounted
      /\ console \in Seq(Message)
  BY DEF IInv, Types, BootTypes
<1>3. CASE pc \in {"rmxml", "cheribsdtest", "mv", "fsync"} /\ Interrupt
  BY <1>2, <1>3, TestStepMoves, InterruptHolds
<1>4. ASSUME NoInterrupt,
             /\ pc' \in InTest \cup {"poweroff", "exit 1", "exit 2"}
             /\ pc \in InTest \cup {"su"} /\ wait = "ended"
             /\ wait' \in {"send", wait} /\ (pc' \in InTest => wait' = "send")
             /\ outcome' \in {"none", outcome},
             pc' = "exitcode" <=> pc = "cheribsdtest",
             TestTypes', TestsAreCounted', test' = test \/ pc # "cheribsdtest"
      PROVE  IInv'
  <2>1. console' = console /\ commands' = commands /\ running' = running
    BY <1>4 DEF NoInterrupt
  <2>2. Shown' = Shown
    BY <2>1 DEF Shown
  <2>3. pc' \in Mounting \cup Testing \cup {"exit 1"} /\ pc # "exit 1" /\ pc' \notin Mounting
    BY <1>4 DEF Testing, InTest, Mounting
  <2>4. BootTypes' /\ PanicIsKnown' /\ NothingToDo' /\ Booting'
    BY <1>1, <1>2, <2>1, <2>2, <2>3, GuestStays
  <2>5. ScriptTypes'
    <3>1. gaveUp' \in BOOLEAN
      BY <1>1, <1>2 DEF ScriptTypes
    <3>2. wait' \in WaitType /\ outcome' \in OutcomeType
      BY <1>2, <1>4 DEF WaitType, OutcomeType, ScriptTypes
    <3> QED
      BY <1>1, <1>2, <1>4, <2>3, <3>1, <3>2, ScriptMoves
  <2>6. ShellTypes'
    BY <1>1, <1>2, <2>1, ShellStays DEF shell
  <2>7. ExitCodeIsItsOwn'
    <3>1. CASE pc = "cheribsdtest"
      <4>1. AwaitsTest /\ AwaitsTest' /\ test' = test
        BY <1>4, <3>1 DEF AwaitsTest, InTest
      <4> QED
        BY <1>1, <1>2, <2>1, <2>2, <4>1, AwaitsTestKept
    <3>2. CASE pc # "cheribsdtest"
      <4>1. /\ StillRuns /\ ~AwaitsTest /\ ~AwaitsExit
            /\ ~AwaitsTest' /\ ~AwaitsExit'
        BY <1>4, <3>2 DEF StillRuns, AwaitsTest, AwaitsExit, InTest
      <4>2. NoTest /\ NoCodeShown
        BY <1>2, <4>1 DEF ExitCodeIsItsOwn
      <4> QED
        BY <2>1, <2>2, <4>1, <4>2, NoTestKept
    <3> QED
      BY <3>1, <3>2
  <2> QED
    BY <1>4, <2>4, <2>5, <2>6, <2>7 DEF IInv, Types
<1>5. ASSUME UNCHANGED testing, pc \in InTest \/ pc' \notin InTest,
             pc \in InTest \cup {"su"},
             pc' \in InTest \cup {"exit 1", "exit 2"}
      PROVE  TestTypes' /\ TestsAreCounted' /\ test' = test
  <2>1. TestTypes'
    BY <1>2, <1>5, TestTypesStay
  <2>2. ~Untested' /\ pc' \notin {"poweroff", "exit 0"}
    <3>1. pc' \in Mounting \cup Testing \cup {"exit 1"}
      BY <1>5 DEF Testing
    <3>2. ~AtBoot'
      BY <3>1, AfterBoot
    <3> QED
      BY <1>5, <3>2 DEF Untested, InTest, Mounting
  <2> QED
    BY <1>1, <1>2, <1>5, <2>1, <2>2, CountKept DEF testing
<1>6. CASE /\ wait = "ended" /\ pc = "su" /\ NextTest(test)
           /\ testsSuccessful' \in {FALSE, outcome = "ok"}
           /\ UNCHANGED <<test, exitCode, reported>> /\ NoInterrupt
  <2>1. Untested
    BY <1>6 DEF Untested
  <2>2. pc' = "rmxml" /\ wait' = "send" /\ outcome' = "none" /\ test = 1 /\ test \in Tests
    BY <1>2, <1>6, <2>1, FirstTest
  <2>3. testsSuccessful' \in BOOLEAN
    BY <1>6
  <2>4. TestTypes'
    BY <1>2, <1>6, <2>2, <2>3 DEF TestTypes, ScriptTypes
  <2>5. ~Untested'
    <3>1. pc' \in Mounting \cup Testing \cup {"exit 1"}
      BY <2>2 DEF Testing, InTest
    <3>2. ~AtBoot'
      BY <3>1, AfterBoot
    <3> QED
      BY <2>2, <3>2 DEF Untested, Mounting
  <2>6. \A t \in Tests : ~(t < test')
    BY <1>6, <2>2 DEF Tests
  <2>7. TestsAreCounted'
    BY <1>1, <1>2, <1>6, <2>2, <2>5, <2>6 DEF TestsAreCounted
  <2> QED
    BY <1>4, <1>6, <2>2, <2>4, <2>7 DEF InTest
<1>7. CASE /\ wait = "ended" /\ pc \in {"su", "pwd"} /\ pc' \in {"exit 1", "exit 2"}
           /\ UNCHANGED <<wait, outcome, testing>> /\ NoInterrupt
  <2>1. pc \in InTest \cup {"su"} /\ pc' \notin InTest
    BY <1>7 DEF InTest
  <2>2. TestTypes' /\ TestsAreCounted' /\ test' = test
    BY <1>5, <1>7, <2>1
  <2> QED
    BY <1>4, <1>7, <2>1, <2>2
<1>8. CASE /\ wait = "ended" /\ pc \in {"rmxml", "mv"}
           /\ Run(IF pc = "mv" THEN "fsync" ELSE "cheribsdtest")
           /\ UNCHANGED testing /\ NoInterrupt
  <2>1. /\ pc \in InTest /\ pc' \in InTest /\ pc' \in {"fsync", "cheribsdtest"}
        /\ wait' = "send" /\ outcome' = "none"
    BY <1>8 DEF InTest, Run
  <2>2. TestTypes' /\ TestsAreCounted' /\ test' = test
    BY <1>5, <1>8, <2>1
  <2> QED
    BY <1>4, <1>8, <2>1, <2>2
<1>9. CASE /\ wait = "ended" /\ pc = "cheribsdtest" /\ Run("exitcode")
           /\ UNCHANGED testing /\ NoInterrupt
  <2>1. /\ pc \in InTest /\ pc' \in InTest /\ pc' = "exitcode"
        /\ wait' = "send" /\ outcome' = "none"
    BY <1>9 DEF InTest, Run
  <2>2. TestTypes' /\ TestsAreCounted' /\ test' = test
    BY <1>5, <1>9, <2>1
  <2> QED
    BY <1>4, <1>9, <2>1, <2>2
<1>10. CASE /\ wait = "ended" /\ pc \in {"rmxml", "mv", "fsync", "pwd"} /\ NoInterrupt
            /\ \E ok \in BOOLEAN : (ok => exitCode) /\ TestReturns(ok)
  <2>1. pc \in InTest /\ test \in Tests
    BY <1>2, <1>10 DEF InTest, ScriptTypes
  <2>2. PICK ok \in BOOLEAN : (ok => exitCode) /\ TestReturns(ok)
    BY <1>10
  <2>3. ok => test \in passed
    BY <1>2, <2>2 DEF TestsAreCounted
  <2>4. /\ TestsAreCounted'
        /\ pc' \in {"rmxml", "poweroff"} /\ wait' = "send" /\ outcome' = "none"
        /\ test' \in 1 .. NumTests + 1 /\ (pc' \in InTest => test' \in Tests)
        /\ exitCode' \in BOOLEAN /\ testsSuccessful' \in BOOLEAN
    BY <1>1, <1>2, <2>1, <2>2, <2>3, TestReturned
  <2>5. TestTypes'
    BY <2>4 DEF TestTypes
  <2> QED
    BY <1>4, <1>10, <2>1, <2>4, <2>5 DEF InTest
<1> QED
  BY <1>2, <1>3, <1>6, <1>7, <1>8, <1>9, <1>10, TestStepMoves

(* What the script waits for at its end.                                   *)
LEMMA FinishReads ==
  /\ ExitCodes = {"EXITCODE=0", "EXITCODE=1"}
  /\ \A P \in {ExitCodes, {"PEXPECT_PROMPT"}, PoweroffPatterns, ShutdownPatterns} :
       P \subseteq Message \cup {"TIMEOUT", "EOF"}
<1>1. ExitCodes = {"EXITCODE=0", "EXITCODE=1"}
  BY DEF ExitCodes, ExitCode
<1>2. /\ "EXITCODE=0" \in Message /\ "EXITCODE=1" \in Message
      /\ "PEXPECT_PROMPT" \in Message
      /\ "Uptime: " \in Message /\ "Please press any key to reboot." \in Message
  BY Output DEF BootOutput, SessionOutput
<1> QED
  BY <1>1, <1>2 DEF PoweroffPatterns, ShutdownPatterns

(* The exit code that is read is that of the test.                         *)
LEMMA ReadExitCodeReads ==
  ASSUME console \in Seq(Message), ExitCodeIsItsOwn, AwaitsExit, Consume(ExitCodes),
         NEW m \in Returned(ExitCodes) \ Panics
  PROVE  NoTest /\ Shown' \cap ExitCodes = {} /\ (Passed(m) => test \in passed)
<1>1. /\ ExitCodes \subseteq Message \cup {"TIMEOUT", "EOF"}
      /\ "TIMEOUT" \notin ExitCodes /\ "EOF" \notin ExitCodes
  BY FinishReads
<1>2. PICK n : Cut(n) /\ console[n] = m /\ m \in ExitCodes \cup {"PANIC"}
  BY <1>1, CutWhere
<1>3. m \in ExitCodes /\ n \in DOMAIN console
  BY <1>2, TwoPanics DEF Cut
<1>4. m \in Shown
  BY <1>2, <1>3 DEF Shown, Range
<1>5. NoTest /\ CodeIsOwn
  BY <1>3, <1>4 DEF ExitCodeIsItsOwn, TestAhead, NoCodeShown
<1>6. PICK k \in DOMAIN console :
        /\ Passed(console[k]) => test \in passed
        /\ \A i \in DOMAIN console : console[i] \in ExitCodes => i = k
  BY <1>5 DEF CodeIsOwn
<1>7. n = k
  BY <1>2, <1>3, <1>6
<1>8. ASSUME NEW i \in DOMAIN console', console'[i] \in ExitCodes PROVE FALSE
  <2>1. /\ Len(console) \in Nat /\ DOMAIN console = 1 .. Len(console)
        /\ i \in 1 .. Len(console) - n /\ n + i \in DOMAIN console
        /\ console'[i] = console[n + i]
    BY <1>2, <1>8 DEF Cut
  <2>2. n + i = n
    BY <1>6, <1>7, <1>8, <2>1
  <2> QED
    BY <1>3, <2>1, <2>2
<1>9. Shown' \cap ExitCodes = {}
  BY <1>8 DEF Shown, Range
<1> QED
  BY <1>2, <1>5, <1>6, <1>7, <1>9

(* Where the end of a test, and that of all of them, lead.                 *)
FinishMoves ==
  /\ console' \in Seq(Message) /\ Shown' \subseteq Shown
  /\ "PANIC_KDB" \in Shown => "PANIC_KDB" \in Shown' \/ pc' = "exit 1"
  /\ pc' \in {"exitcode", "mv", "rmxml", "poweroff", "exit 0", "exit 1", "exit 2"}
  /\ pc' = "exitcode" => wait' = "prompt"
  /\ wait' \in {"send", "answer", "prompt"} /\ outcome' \in OutcomeType
  /\ delivered' \in {delivered, delivered \cup {test}}
  /\ TestTypes' /\ TestsAreCounted'
  /\ StillRuns' => NoTest /\ Shown' \cap ExitCodes = {}

(* The exit code is read, and the guest is shut down.                      *)
LEMMA FinishStepMoves ==
  ASSUME IInv, FinishStep
  PROVE  FinishMoves
<1>1. passed' = passed /\ pc \in {"exitcode", "poweroff"} /\ wait \in {"answer", "prompt"}
  BY DEF FinishStep, shell, ReadExitCode, CopyResults, AwaitPoweroff, AwaitShutdown
<1>2. /\ ScriptTypes /\ ShellTypes /\ ExitCodeIsItsOwn /\ TestsAreCounted
      /\ console \in Seq(Message) /\ outcome \in OutcomeType
  BY DEF IInv, Types, BootTypes, ScriptTypes, OutcomeType
<1>3. ASSUME NEW P \in {ExitCodes, {"PEXPECT_PROMPT"}, PoweroffPatterns, ShutdownPatterns},
             Consume(P), Returned(P) # {} \/ pc' = "exit 1"
      PROVE  /\ console' \in Seq(Message) /\ Shown' \subseteq Shown
             /\ "PANIC_KDB" \in Shown => "PANIC_KDB" \in Shown' \/ pc' = "exit 1"
  BY <1>2, <1>3, FinishReads, Expected
<1>4. ASSUME wait = "prompt" \/ pc = "poweroff", Shown' \subseteq Shown
      PROVE  NoTest /\ Shown' \cap ExitCodes = {}
  <2>1. StillRuns /\ ~AwaitsTest /\ ~AwaitsExit
    BY <1>1, <1>4 DEF StillRuns, AwaitsTest, AwaitsExit
  <2>2. NoTest /\ NoCodeShown
    BY <1>2, <2>1 DEF ExitCodeIsItsOwn
  <2> QED
    BY <1>4, <2>2 DEF NoCodeShown
<1>5. ASSUME test' = test, exitCode' => exitCode, exitCode' \in BOOLEAN, reported' = reported,
             testsSuccessful' = testsSuccessful,
             pc' \in {pc, "mv", "exit 0", "exit 1", "exit 2"},
             pc = "poweroff" => pc' # "mv",
             pc' = "exit 0" => testsSuccessful /\ pc = "poweroff"
      PROVE  TestTypes' /\ TestsAreCounted'
  <2>1. pc \in InTest \/ pc' \notin InTest
    BY <1>1, <1>5 DEF InTest
  <2>2. TestTypes'
    BY <1>2, <1>5, <2>1 DEF ScriptTypes, TestTypes
  <2>3. pc' \in Mounting \cup Testing \cup {"exit 1"}
    BY <1>1, <1>5 DEF Testing, InTest
  <2>4. ~AtBoot'
    BY <2>3, AfterBoot
  <2>5. ~Untested'
    BY <1>1, <1>5, <2>4 DEF Untested, Mounting
  <2>6. pc' \in {"poweroff", "exit 0"} => pc \in {"poweroff", "exit 0"}
    BY <1>5
  <2> QED
    BY <1>1, <1>2, <1>5, <2>2, <2>5, <2>6, CountKept
<1>6. CASE ReadExitCode
  <2>1. /\ pc = "exitcode" /\ wait = "answer" /\ Consume(ExitCodes)
        /\ outcome' = outcome /\ delivered' = delivered
        /\ test' = test /\ reported' = reported /\ testsSuccessful' = testsSuccessful
    BY <1>6 DEF ReadExitCode
  <2>2. CASE pc' = "exit 1" /\ UNCHANGED <<wait, exitCode>>
    <3>1. ~StillRuns' /\ exitCode' \in BOOLEAN
      BY <1>2, <2>2 DEF StillRuns, ScriptTypes
    <3>2. TestTypes' /\ TestsAreCounted'
      BY <1>5, <2>1, <2>2, <3>1
    <3>3. /\ console' \in Seq(Message) /\ Shown' \subseteq Shown
      BY <1>3, <2>1, <2>2
    <3> QED
      BY <1>2, <2>1, <2>2, <3>1, <3>2, <3>3 DEF FinishMoves
  <2>3. CASE \E m \in Returned(ExitCodes) \ Panics :
               /\ exitCode' = Passed(m)
               /\ wait' = "prompt" /\ UNCHANGED pc
    <3>1. PICK m \in Returned(ExitCodes) \ Panics :
            /\ exitCode' = Passed(m)
            /\ wait' = "prompt" /\ UNCHANGED pc
      BY <2>3
    <3>2. AwaitsExit
      BY <2>1 DEF AwaitsExit
    <3>3. NoTest /\ Shown' \cap ExitCodes = {} /\ (Passed(m) => test \in passed)
      BY <1>2, <2>1, <3>2, ReadExitCodeReads
    <3>4. exitCode' \in BOOLEAN /\ (exitCode' => test' \in passed')
      BY <1>1, <2>1, <3>1, <3>3 DEF Passed
    <3>5. TestTypes'
      <4>1. pc' = pc /\ test' = test /\ testsSuccessful' = testsSuccessful
        BY <2>1, <3>1
      <4> QED
        BY <1>2, <3>4, <4>1 DEF ScriptTypes, TestTypes
    <3>6. TestsAreCounted'
      <4>1. pc' = "exitcode"
        BY <2>1, <3>1
      <4>2. pc' \in Mounting \cup Testing \cup {"exit 1"}
        BY <4>1 DEF Testing, InTest
      <4>3. ~AtBoot'
        BY <4>2, AfterBoot
      <4>4. ~Untested'
        BY <4>1, <4>3 DEF Untested, Mounting
      <4>5. reported' \subseteq passed'
        BY <1>1, <1>2, <2>1 DEF TestsAreCounted
      <4>6. testsSuccessful' => \A t \in Tests : t < test' => t \in reported'
        BY <1>2, <2>1, Zenon DEF TestsAreCounted
      <4> QED
        BY <3>4, <4>1, <4>4, <4>5, <4>6 DEF TestsAreCounted
    <3>7. /\ console' \in Seq(Message) /\ Shown' \subseteq Shown
          /\ "PANIC_KDB" \in Shown => "PANIC_KDB" \in Shown' \/ pc' = "exit 1"
      BY <1>3, <2>1, <3>1
    <3> QED
      BY <1>2, <2>1, <3>1, <3>3, <3>5, <3>6, <3>7 DEF FinishMoves
  <2> QED
    BY <1>6, <2>2, <2>3 DEF ReadExitCode
<1>7. CASE CopyResults
  <2>1. /\ pc = "exitcode" /\ wait = "prompt" /\ Consume({"PEXPECT_PROMPT"})
        /\ Returned({"PEXPECT_PROMPT"}) # {} \/ pc' = "exit 1"
    BY <1>7 DEF CopyResults, Dies
  <2>2. /\ console' \in Seq(Message) /\ Shown' \subseteq Shown
        /\ "PANIC_KDB" \in Shown => "PANIC_KDB" \in Shown' \/ pc' = "exit 1"
    BY <1>3, <2>1
  <2>3. NoTest /\ Shown' \cap ExitCodes = {}
    BY <1>4, <2>1, <2>2
  <2>4. CASE /\ UNCHANGED <<testing, delivered>>
             /\ \/ pc' = "exit 1" /\ wait' = wait /\ outcome' = outcome
                \/ pc' = "mv" /\ wait' = "send" /\ outcome' = "none"
    <3>1. /\ test' = test /\ exitCode' = exitCode /\ reported' = reported
          /\ testsSuccessful' = testsSuccessful /\ delivered' = delivered
      BY <2>4 DEF testing
    <3>2. exitCode' \in BOOLEAN /\ (exitCode' => exitCode)
      BY <1>2, <3>1, Zenon DEF ScriptTypes
    <3>3. TestTypes' /\ TestsAreCounted'
      BY <1>5, <2>1, <2>4, <3>1, <3>2
    <3>4. outcome' \in OutcomeType
      BY <1>2, <2>4 DEF OutcomeType
    <3> QED
      BY <2>1, <2>2, <2>3, <2>4, <3>1, <3>3, <3>4 DEF FinishMoves
  <2>5. CASE delivered' = delivered \cup {test} /\ TestReturns(exitCode)
    <3>1. exitCode \in BOOLEAN /\ (exitCode => test \in passed) /\ test \in Tests
      BY <1>2, <2>1 DEF ScriptTypes, TestsAreCounted, InTest
    <3>2. /\ TestsAreCounted'
          /\ pc' \in {"rmxml", "poweroff"} /\ wait' = "send" /\ outcome' = "none"
          /\ test' \in 1 .. NumTests + 1 /\ (pc' \in InTest => test' \in Tests)
          /\ exitCode' \in BOOLEAN /\ testsSuccessful' \in BOOLEAN
      <4> DEFINE ok == exitCode
      <4>1. ok \in BOOLEAN /\ (ok => test \in passed) /\ TestReturns(ok)
        BY <2>5, <3>1
      <4> HIDE DEF ok
      <4> QED
        BY <1>1, <1>2, <3>1, <4>1, TestReturned
    <3>3. TestTypes' /\ outcome' \in OutcomeType
      BY <3>2 DEF TestTypes, OutcomeType
    <3> QED
      BY <2>2, <2>3, <2>5, <3>2, <3>3 DEF FinishMoves
  <2> QED
    BY <1>7, <2>4, <2>5 DEF CopyResults, Dies, Run
<1>8. CASE AwaitPoweroff
  <2>1. /\ pc = "poweroff" /\ Consume(PoweroffPatterns) /\ UNCHANGED <<testing, delivered>>
        /\ Returned(PoweroffPatterns) # {} \/ pc' = "exit 1"
        /\ \/ pc' \in {"exit 1", "exit 2"} /\ wait' = wait /\ outcome' = outcome
           \/ pc' = pc /\ wait' = "prompt" /\ outcome' = "ok"
    BY <1>8 DEF AwaitPoweroff, Dies, ReadsOn
  <2>2. /\ console' \in Seq(Message) /\ Shown' \subseteq Shown
        /\ "PANIC_KDB" \in Shown => "PANIC_KDB" \in Shown' \/ pc' = "exit 1"
    BY <1>3, <2>1
  <2>3. NoTest /\ Shown' \cap ExitCodes = {}
    BY <1>4, <2>1, <2>2
  <2>4. /\ test' = test /\ exitCode' = exitCode /\ reported' = reported
        /\ testsSuccessful' = testsSuccessful /\ delivered' = delivered
    BY <2>1 DEF testing
  <2>5. exitCode' \in BOOLEAN /\ (exitCode' => exitCode)
    BY <1>2, <2>4, Zenon DEF ScriptTypes
  <2>6. TestTypes' /\ TestsAreCounted'
    BY <1>5, <2>1, <2>4, <2>5
  <2>7. outcome' \in OutcomeType /\ wait' \in {"send", "answer", "prompt"}
    BY <1>1, <1>2, <2>1 DEF OutcomeType
  <2> QED
    BY <2>1, <2>2, <2>3, <2>4, <2>6, <2>7 DEF FinishMoves
<1>9. CASE AwaitShutdown
  <2>1. /\ pc = "poweroff" /\ Consume(ShutdownPatterns) /\ UNCHANGED <<testing, delivered>>
        /\ Returned(ShutdownPatterns) # {} \/ pc' = "exit 1"
        /\ wait' = wait /\ outcome' = outcome
        /\ \/ pc' \in {"exit 1", "exit 2"}
           \/ pc' = "exit 0" /\ testsSuccessful
    BY <1>9 DEF AwaitShutdown, Dies
  <2>2. /\ console' \in Seq(Message) /\ Shown' \subseteq Shown
        /\ "PANIC_KDB" \in Shown => "PANIC_KDB" \in Shown' \/ pc' = "exit 1"
    BY <1>3, <2>1
  <2>3. NoTest /\ Shown' \cap ExitCodes = {}
    BY <1>4, <2>1, <2>2
  <2>4. /\ test' = test /\ exitCode' = exitCode /\ reported' = reported
        /\ testsSuccessful' = testsSuccessful /\ delivered' = delivered
    BY <2>1 DEF testing
  <2>5. exitCode' \in BOOLEAN /\ (exitCode' => exitCode)
    BY <1>2, <2>4, Zenon DEF ScriptTypes
  <2>6. TestTypes' /\ TestsAreCounted'
    BY <1>5, <2>1, <2>4, <2>5
  <2>7. outcome' \in OutcomeType /\ wait' \in {"send", "answer", "prompt"}
    BY <1>1, <1>2, <2>1 DEF OutcomeType
  <2> QED
    BY <2>1, <2>2, <2>3, <2>4, <2>6, <2>7 DEF FinishMoves
<1> QED
  BY <1>6, <1>7, <1>8, <1>9 DEF FinishStep

LEMMA FinishStepHolds ==
  ASSUME IInv, FinishStep
  PROVE  IInv'
<1>1. /\ UNCHANGED <<config, ranManualBoot, haveDhclient>> /\ UNCHANGED guest
      /\ typed' = typed /\ UNCHANGED mounting
      /\ commands' = commands /\ UNCHANGED shell /\ gaveUp' = gaveUp
      /\ running' = running /\ lastStatus' = lastStatus /\ mounts' = mounts
      /\ passed' = passed /\ pc \in {"exitcode", "poweroff"}
  BY DEF FinishStep, shell, ReadExitCode, CopyResults, AwaitPoweroff, AwaitShutdown
<1>2. BootTypes /\ ScriptTypes /\ ShellTypes
  BY DEF IInv, Types
<1>3. /\ console' \in Seq(Message) /\ Shown' \subseteq Shown
      /\ "PANIC_KDB" \in Shown => "PANIC_KDB" \in Shown' \/ pc' = "exit 1"
      /\ pc' \in {"exitcode", "mv", "rmxml", "poweroff", "exit 0", "exit 1", "exit 2"}
      /\ pc' = "exitcode" => wait' = "prompt"
      /\ wait' \in {"send", "answer", "prompt"} /\ outcome' \in OutcomeType
      /\ delivered' \in {delivered, delivered \cup {test}}
      /\ TestTypes' /\ TestsAreCounted'
      /\ StillRuns' => NoTest /\ Shown' \cap ExitCodes = {}
  BY FinishStepMoves DEF FinishMoves
<1>4. pc' \in Mounting \cup Testing \cup {"exit 1"} /\ pc' \notin Mounting /\ pc # "exit 1"
  BY <1>1, <1>3 DEF Testing, InTest, Mounting
<1>5. BootTypes' /\ PanicIsKnown' /\ NothingToDo' /\ Booting'
  BY <1>1, <1>3, <1>4, GuestStays
<1>6. ScriptTypes'
  <2>1. gaveUp' \in BOOLEAN
    BY <1>1, <1>2 DEF ScriptTypes
  <2>2. wait' \in WaitType
    BY <1>3 DEF WaitType
  <2> QED
    BY <1>1, <1>2, <1>3, <1>4, <2>1, <2>2, ScriptMoves
<1>7. ShellTypes'
  <2>1. delivered' \subseteq Tests
    <3>1. CASE delivered' = delivered
      BY <1>2, <3>1 DEF ShellTypes
    <3>2. CASE delivered' = delivered \cup {test} /\ delivered' # delivered
      <4>1. test \in Tests
        <5>1. pc = "exitcode"
          BY <3>2 DEF FinishStep, ReadExitCode, CopyResults, AwaitPoweroff, AwaitShutdown
        <5> QED
          BY <1>2, <5>1 DEF ScriptTypes, InTest
      <4> QED
        BY <1>2, <3>2, <4>1 DEF ShellTypes
    <3> QED
      BY <1>3, <3>1, <3>2
  <2> QED
    BY <1>1, <1>2, <2>1 DEF ShellTypes
<1>8. ExitCodeIsItsOwn'
  <2>1. CASE ~StillRuns'
    BY <2>1, CodesEnd
  <2>2. CASE StillRuns'
    <3>1. NoTest' /\ NoCodeShown'
      BY <1>1, <1>3, <2>2 DEF NoTest, NoCodeShown, IsTest, AsksExit
    <3>2. ~AwaitsTest' /\ ~AwaitsExit'
      BY <1>3 DEF AwaitsTest, AwaitsExit
    <3> QED
      BY <3>1, <3>2 DEF ExitCodeIsItsOwn
  <2> QED
    BY <2>1, <2>2
<1> QED
  BY <1>3, <1>5, <1>6, <1>7, <1>8 DEF IInv, Types

(* The test's command ends in the ways that TestEnds has.                  *)
LEMMA TestEndsHolds ==
  ASSUME IInv, TestEnds, Next
  PROVE  TestEnds'
<1>1. CASE pc' # "cheribsdtest" \/ wait' \in {"send", "answer"}
  BY <1>1 DEF TestEnds
<1>2. CASE UNCHANGED <<pc, wait, outcome>>
  BY <1>2 DEF TestEnds
<1>3. CASE GuestWorks
  <2>1. UNCHANGED <<runner, script>>
    BY <1>3 DEF GuestWorks, ShellStarts, ShellEnds, ShellBuiltin, sessionVars,
                GuestBoots, KernelPanic, QemuDies
  <2>2. UNCHANGED <<pc, wait, outcome>>
    BY <2>1 DEF runner, script
  <2> QED
    BY <1>2, <2>2
<1>4. CASE BootStep
  <2>1. pc' \in BootPoints \cup {"booted", "exit 1"}
    BY <1>4, BootStepMoves
  <2>2. pc' # "cheribsdtest"
    BY <2>1, Places DEF Testing, InTest
  <2> QED
    BY <1>1, <2>2
<1>5. CASE SetUp \/ SendCommand \/ SendPlain
  <2>1. pc' # "cheribsdtest" \/ wait' = "answer"
    BY <1>5 DEF SetUp, Run, SendCommand, SendPlain
  <2> QED
    BY <1>1, <2>1
<1>6. CASE ReadCommand
  <2> SUFFICES ASSUME pc' = "cheribsdtest", wait' \notin {"send", "answer"}
               PROVE  TestEnds'
    BY <1>1
  <2>1. ~Dies
    BY DEF Dies
  <2>2. pc = "cheribsdtest" /\ wait \in {"answer", "prompt", "drain"}
    BY <1>6, <2>1 DEF ReadCommand, AnswerRead, Ends, ReadsOn
  <2>3. wait = "answer" /\ CommandPatterns = {"TIMEOUT", "PEXPECT_PROMPT"}
    <3>1. wait = "answer"
      BY <2>2 DEF TestEnds
    <3> QED
      BY <2>2, <3>1 DEF CommandPatterns, AnswerPatterns, Plain
  <2>4. PICK m \in Returned(CommandPatterns) : AnswerRead(m)
    BY <1>6, <2>1, <2>3 DEF ReadCommand
  <2>5. m \in {"TIMEOUT", "PEXPECT_PROMPT", "PANIC"}
    <3>1. console \in Seq(Message) /\ Consume(CommandPatterns)
      BY <1>6 DEF ReadCommand, IInv, Types, BootTypes
    <3>2. CommandPatterns \subseteq Message \cup {"TIMEOUT", "EOF"}
      BY <2>2, CommandReads
    <3>3. \/ m \in {"TIMEOUT", "EOF"} \cap CommandPatterns
          \/ m \in CommandPatterns \cup {"PANIC"}
      BY <3>1, <3>2, CutWhere
    <3> QED
      BY <2>3, <3>3
  <2>6. wait' = "ended" /\ outcome' \in {"ok", "timeout"}
    BY <2>1, <2>2, <2>4, <2>5 DEF AnswerRead, Ends, Plain
  <2> QED
    BY <2>6 DEF TestEnds
<1>7. CASE MountStep
  <2>1. pc' \in Mounting \cup {"settle", "su", "exit 1"}
    BY <1>7, MountStepMoves DEF MovesOn, IInv, Types
  <2> QED
    BY <1>1, <2>1 DEF Mounting
<1>8. CASE TestStep
  <2>1. pc' # "cheribsdtest" \/ wait' = "send"
    BY <1>8, TestStepMoves DEF IInv, Types, Interrupt, NextTest, Run, TestReturns
  <2> QED
    BY <1>1, <2>1
<1>9. CASE FinishStep
  <2>1. pc' # "cheribsdtest"
    BY <1>9, FinishStepMoves DEF FinishMoves
  <2> QED
    BY <1>1, <2>1
<1> QED
  BY <1>3, <1>4, <1>5, <1>6, <1>7, <1>8, <1>9 DEF Next

-----------------------------------------------------------------------------
(* The invariant holds before the first step, and while nothing happens.   *)
LEMMA InitHolds ==
  ASSUME Init
  PROVE  IInv
<1>1. /\ config \in Configs /\ pc = "loader" /\ ranManualBoot = FALSE
      /\ haveDhclient = FALSE /\ phase = "firmware" /\ kernel = NoKernel
      /\ net = "down" /\ ownPrompt = FALSE /\ console = <<>> /\ typed = <<>>
      /\ wait = "send" /\ outcome = "none" /\ dir = 1 /\ trial = 0
      /\ mounted = [d \in Dirs |-> FALSE]
      /\ canUseP9fs = TRUE /\ canUseSmb = TRUE /\ issue2617Fixed = "unknown"
      /\ sharedMountFailed = FALSE
      /\ test = 1 /\ exitCode = FALSE /\ reported = {} /\ testsSuccessful = TRUE
      /\ commands = <<>> /\ running = Idle /\ lastStatus = TRUE
      /\ mounts = [d \in Dirs |-> <<>>] /\ passed = {} /\ delivered = {}
      /\ gaveUp = FALSE
  BY DEF Init, BootInit
<1>2. Shown = {} /\ Range(typed) = {} /\ DOMAIN commands = {} /\ DOMAIN console = {}
  BY <1>1, Tuples DEF Shown
<1>3. pc \in BootPoints /\ AtBoot
  BY <1>1, Points DEF BeforeLogin, ForKernel, AtBoot
<1>4. BootTypes
  <2>1. kernel \in [abi: Abis \cup {"none"}, alternate: BOOLEAN]
    BY <1>1 DEF NoKernel
  <2>2. console \in Seq(Message) /\ typed \in Seq(Line)
    BY <1>1
  <2>3. phase \in Phase /\ net \in {"down", "dhclient", "up"}
    BY <1>1 DEF Phase, Early
  <2> QED
    BY <1>1, <2>1, <2>2, <2>3 DEF BootTypes
<1>5. ScriptTypes
  <2>1. /\ dir \in 1 .. NumDirs + 1 /\ trial \in 0 .. MaxSmbfsRetry - 1 /\ dir <= NumDirs
    BY <1>1, SessionAssumption DEF SessionAssumption
  <2>2. mounted \in [Dirs -> BOOLEAN]
    BY <1>1
  <2>3. wait \in {"send", "answer", "prompt", "drain", "ended"}
        /\ outcome \in {"none", "ok", "failed", "timeout", "error output"}
        /\ issue2617Fixed \in {"unknown", "yes", "no"}
    BY <1>1
  <2>4. test \in 1 .. NumTests + 1 /\ test \in Tests
    BY <1>1, SessionAssumption DEF SessionAssumption, Tests
  <2> QED
    BY <1>1, <1>3, <2>1, <2>2, <2>3, <2>4 DEF ScriptTypes
<1>6. ShellTypes
  <2>1. running \in [name: Commands \cup {"none"}, dir: 1 .. NumDirs + 1, test: Tests,
                     ok: BOOLEAN]
    BY <1>1, SessionAssumption DEF Idle, SessionAssumption, Tests
  <2>2. mounts \in [Dirs -> Seq({"p9fs", "smbfs"})]
    BY <1>1
  <2>3. commands \in Seq(CommandType)
    BY <1>1
  <2> QED
    BY <1>1, <2>1, <2>2, <2>3 DEF ShellTypes
<1>7. PanicIsKnown /\ NothingToDo
  BY <1>1, <1>2 DEF PanicIsKnown, NothingToDo
<1>8. Booting
  <2>1. ShellIsOurs
    BY <1>1, <1>2 DEF ShellIsOurs
  <2>2. NetIsKnown
    BY <1>1, <1>2 DEF NetIsKnown
  <2>3. KernelIsOurs
    BY <1>1, <1>2 DEF KernelIsOurs, Started, AfterKernel, AfterLogin
  <2>4. FailureIsLeft
    BY <1>1, <1>2 DEF FailureIsLeft, AfterLogin, Early
  <2> QED
    BY <2>1, <2>2, <2>3, <2>4 DEF Booting
<1>9. ExitCodeIsItsOwn
  <2>1. running.name = "none"
    BY <1>1 DEF Idle
  <2>2. ~AwaitsTest /\ ~AwaitsExit
    BY <1>1 DEF AwaitsTest, AwaitsExit
  <2> QED
    BY <1>1, <1>2, <2>1, <2>2 DEF ExitCodeIsItsOwn, NoTest, NoCodeShown
<1>10. TestsAreCounted
  <2>1. \A t \in Tests : ~(t < test)
    BY <1>1 DEF Tests
  <2> QED
    BY <1>1, <2>1 DEF TestsAreCounted
<1> QED
  BY <1>4, <1>5, <1>6, <1>7, <1>8, <1>9, <1>10 DEF IInv, Types

LEMMA StutterHolds ==
  ASSUME IInv, UNCHANGED vars
  PROVE  IInv'
<1>1. /\ config' = config /\ pc' = pc /\ ranManualBoot' = ranManualBoot
      /\ haveDhclient' = haveDhclient /\ phase' = phase /\ kernel' = kernel /\ net' = net
      /\ ownPrompt' = ownPrompt /\ console' = console /\ typed' = typed
      /\ UNCHANGED sessionVars
  BY DEF vars, bootVars, runner, guest, tty
<1>2. /\ wait' = wait /\ outcome' = outcome /\ dir' = dir /\ trial' = trial
      /\ mounted' = mounted /\ canUseP9fs' = canUseP9fs /\ canUseSmb' = canUseSmb
      /\ issue2617Fixed' = issue2617Fixed /\ sharedMountFailed' = sharedMountFailed
      /\ test' = test /\ exitCode' = exitCode /\ reported' = reported
      /\ testsSuccessful' = testsSuccessful /\ commands' = commands /\ running' = running
      /\ lastStatus' = lastStatus /\ passed' = passed
      /\ delivered' = delivered /\ gaveUp' = gaveUp /\ UNCHANGED shell
  BY <1>1 DEF sessionVars, script, shell, mounting, testing
<1>3. Shown' = Shown /\ (Crashed' <=> Crashed) /\ (AtBoot' <=> AtBoot)
  BY <1>1 DEF Shown, Crashed, AtBoot
<1>4. BootTypes'
  BY <1>1 DEF IInv, Types, BootTypes
<1>5. ScriptTypes'
  BY <1>1, <1>2, ScriptStays DEF IInv, Types
<1>6. ShellTypes'
  BY <1>2, ShellStays DEF IInv, Types
<1>7. PanicIsKnown' /\ NothingToDo'
  BY <1>1, <1>2, <1>3 DEF IInv, PanicIsKnown, NothingToDo
<1>8. Booting'
  <2>1. ShellIsOurs => ShellIsOurs'
    BY <1>1, <1>3 DEF ShellIsOurs
  <2>2. NetIsKnown => NetIsKnown'
    BY <1>1, <1>3 DEF NetIsKnown
  <2>3. KernelIsOurs => KernelIsOurs'
    BY <1>1, <1>3 DEF KernelIsOurs
  <2>4. TryingFirst => TryingFirst'
    BY <1>1 DEF TryingFirst
  <2>5. FailureIsLeft => FailureIsLeft'
    BY <1>1, <1>3, <2>4 DEF FailureIsLeft
  <2> QED
    BY <1>3, <2>1, <2>2, <2>3, <2>5 DEF IInv, Booting
<1>9. ExitCodeIsItsOwn'
  <2>1. CodeIsOwn => CodeIsOwn'
    BY <1>1, <1>2 DEF CodeIsOwn
  <2> QED
    BY <1>1, <1>2, <1>3, <2>1, CodesKept DEF IInv
<1>10. TestsAreCounted'
  <2>1. /\ Untested' => Untested
        /\ pc = "exit 0" => testsSuccessful
    BY <1>1, <1>3 DEF Untested, IInv, TestsAreCounted
  <2> QED
    BY <1>1, <1>2, <2>1, CountKept DEF IInv
<1> QED
  BY <1>4, <1>5, <1>6, <1>7, <1>8, <1>9, <1>10 DEF IInv, Types

(* Every step of script and guest keeps the invariant, and the test       *)
(* function is only ever at a command that is sent and answered, or over.  *)
THEOREM Inductive ==
  Spec => [](IInv /\ TestEnds)
<1>1. IInv /\ TestEnds /\ Next => IInv' /\ TestEnds'
  <2> SUFFICES ASSUME IInv, TestEnds, Next PROVE IInv'
    BY TestEndsHolds
  <2>1. CASE GuestWorks
    <3>1. StillRuns
      BY <2>1 DEF GuestWorks, StillRuns
    <3>2. CASE ShellStarts
      BY <3>1, <3>2, ShellStartsHolds
    <3>3. CASE ShellEnds
      BY <3>1, <3>3, ShellEndsHolds
    <3>4. CASE ShellBuiltin
      BY <3>1, <3>4, ShellBuiltinHolds
    <3>5. CASE (GuestBoots \/ KernelPanic \/ QemuDies) /\ UNCHANGED sessionVars
      BY <3>1, <3>5, GuestBootsHolds DEF StillRuns
    <3> QED
      BY <2>1, <3>2, <3>3, <3>4, <3>5 DEF GuestWorks
  <2>2. CASE BootStep /\ UNCHANGED sessionVars
    BY <2>2, BootStepHolds
  <2>3. CASE SetUp
    BY <2>3, SetUpHolds
  <2>4. CASE SendCommand \/ SendPlain
    BY <2>4, SendHolds
  <2>5. CASE ReadCommand
    BY <2>5, ReadCommandHolds
  <2>6. CASE MountStep
    BY <2>6, MountStepHolds
  <2>7. CASE TestStep
    BY <2>7, TestStepHolds
  <2>8. CASE FinishStep
    BY <2>8, FinishStepHolds
  <2> QED
    BY <2>1, <2>2, <2>3, <2>4, <2>5, <2>6, <2>7, <2>8 DEF Next
<1>2. Init => IInv /\ TestEnds
  BY InitHolds DEF Init, BootInit, TestEnds
<1>3. IInv /\ TestEnds /\ UNCHANGED vars => IInv' /\ TestEnds'
  <2> SUFFICES ASSUME IInv, TestEnds, UNCHANGED vars PROVE IInv' /\ TestEnds'
    OBVIOUS
  <2>1. UNCHANGED <<pc, wait, outcome>>
    BY DEF vars, bootVars, runner, sessionVars, script
  <2> QED
    BY <2>1, StutterHolds DEF TestEnds
<1> QED
  BY <1>1, <1>2, <1>3, PTL DEF Spec

-----------------------------------------------------------------------------
(* All variables of script and guest keep their types.                     *)
THEOREM TypeCorrect ==
  Spec => []TypeOK
<1>1. IInv => TypeOK
  <2> SUFFICES ASSUME IInv PROVE TypeOK
    OBVIOUS
  <2>1. BootTypes /\ ScriptTypes /\ ShellTypes
    BY DEF IInv, Types
  <2>2. BootTypeOK
    BY <2>1 DEF BootTypeOK, BootTypes, Phase, Early, Started, Line
  <2>3. pc \in BootPoints \cup Commands
                \cup {"booted", "exitcode", "poweroff", "exit 0", "exit 1", "exit 2"}
    BY <2>1 DEF ScriptTypes, Mounting, Testing, InTest, Commands, Checked, Plain
  <2>4. /\ wait \in {"send", "answer", "prompt", "drain", "ended"}
        /\ outcome \in {"none", "ok", "failed", "timeout", "error output"}
        /\ dir \in 1 .. NumDirs + 1 /\ trial \in 0 .. MaxSmbfsRetry - 1
        /\ mounted \in [Dirs -> BOOLEAN]
        /\ issue2617Fixed \in {"unknown", "yes", "no"}
        /\ test \in 1 .. NumTests + 1
    BY <2>1 DEF ScriptTypes
  <2>5. mounts \in [Dirs -> Seq({"p9fs", "smbfs"})]
    BY <2>1 DEF ShellTypes
  <2>6. { canUseP9fs, canUseSmb, sharedMountFailed, exitCode, testsSuccessful, lastStatus,
          gaveUp } \subseteq BOOLEAN
    BY <2>1 DEF ScriptTypes, ShellTypes
  <2>7. reported \cup passed \cup delivered \subseteq Tests
    BY <2>1 DEF ShellTypes, IInv, TestsAreCounted
  <2> QED
    BY <2>2, <2>3, <2>4, <2>5, <2>6, <2>7 DEF TypeOK
<1> QED
  BY <1>1, Inductive, PTL

(* boot_and_login() returns when the guest has the shell, the prompt, the  *)
(* network and the kernel that were asked for, or has crashed since.       *)
THEOREM BootIsReady ==
  Spec => []BootedIsReady
<1>1. IInv => BootedIsReady
  <2> SUFFICES ASSUME IInv, pc = "booted", phase \notin {"panicked", "dead"}
               PROVE  /\ phase = "sh" /\ ownPrompt
                      /\ config.networkInterface => net # "down"
                      /\ config.loaderKernelDir => kernel.alternate
                      /\ config.abi # "any" => kernel.abi = config.abi
    BY DEF BootedIsReady
  <2>1. ~Crashed
    BY DEF Crashed
  <2>2. ShellIsOurs /\ NetIsKnown /\ KernelIsOurs
    BY DEF IInv, Booting, AtBoot
  <2>3. ownPrompt /\ phase = "sh"
    BY <2>1, <2>2 DEF ShellIsOurs
  <2>4. config.networkInterface => net # "down"
    BY <2>1, <2>2 DEF NetIsKnown
  <2>5. /\ config.loaderKernelDir => kernel.alternate
        /\ config.abi # "any" => kernel.abi = config.abi
    <3>1. pc \in AfterKernel /\ phase \in Started
      BY <2>3 DEF AfterKernel, AfterLogin, Started
    <3> QED
      BY <2>2, <3>1 DEF KernelIsOurs
  <2> QED
    BY <2>3, <2>4, <2>5
<1> QED
  BY <1>1, Inductive, PTL

(* No expect() of the boot eats the message of a boot that has failed.     *)
THEOREM FailureReachesScript ==
  Spec => []FailureIsNoticed
<1>1. IInv => FailureIsNoticed
  <2> SUFFICES ASSUME IInv, phase = "failed", pc \in BootPoints
               PROVE  \E n \in DOMAIN console : console[n] \in BootFailures
    BY DEF FailureIsNoticed
  <2>1. FailureIsLeft /\ ~Crashed
    BY DEF IInv, Booting, AtBoot, Crashed
  <2>2. pc \in BeforeLogin
    BY <2>1, Points DEF FailureIsLeft
  <2>3. Shown \cap BootFailures # {}
    BY <2>1, <2>2 DEF FailureIsLeft
  <2> QED
    BY <2>3 DEF Shown, Range
<1> QED
  BY <1>1, Inductive, PTL

(* No expect(), of the boot or of a command, eats a panic.                 *)
THEOREM PanicReachesScript ==
  Spec => []PanicIsNoticed
<1>1. IInv => PanicIsNoticed
  <2> SUFFICES ASSUME IInv, phase = "panicked", console = <<>>
               PROVE  pc = "exit 1"
    BY DEF PanicIsNoticed
  <2>1. "PANIC_KDB" \in Shown \/ pc = "exit 1"
    BY DEF IInv, PanicIsKnown
  <2> QED
    BY <2>1, Tuples DEF Shown
<1> QED
  BY <1>1, Inductive, PTL

(* A test that the script counts as passed has passed in the guest, and     *)
(* with exit code 0 all of them have, however many there are.              *)
THEOREM PassesAreEarned ==
  Spec => []PassIsEarned
<1>1. IInv => PassIsEarned
  <2> SUFFICES ASSUME IInv PROVE PassIsEarned
    OBVIOUS
  <2>1. TestsAreCounted /\ ShellTypes
    BY DEF IInv, Types
  <2>2. ASSUME pc = "exit 0" PROVE passed = Tests
    <3>1. testsSuccessful /\ test = NumTests + 1
      BY <2>1, <2>2 DEF TestsAreCounted
    <3>2. \A t \in Tests : t < test
      BY <3>1, SessionAssumption DEF SessionAssumption, Tests
    <3>3. Tests \subseteq reported
      BY <2>1, <3>1, <3>2 DEF TestsAreCounted
    <3> QED
      BY <2>1, <3>3 DEF TestsAreCounted, ShellTypes
  <2> QED
    BY <2>1, <2>2 DEF TestsAreCounted, PassIsEarned
<1> QED
  BY <1>1, Inductive, PTL

-----------------------------------------------------------------------------
(***************************************************************************)
(* ResultsAreKept.  That the results are in the host's directory is known  *)
(* from the answer to "mv", so that no earlier answer may be left when it  *)
(* is sent: StepInv says that script and shell stay in step.               *)
(***************************************************************************)

(* Script and shell stay in step, unless a command was given up: what is   *)
(* left to be read, from the place "k" on and from "k" places after some   *)
(* messages on.                                                            *)
From(k, others) == \A j \in DOMAIN console : k <= j => console[j] \in others
After(k, ones, others) ==
  \A i, j \in DOMAIN console : i + k <= j /\ console[i] \in ones => console[j] \in others

(* The first message of a panic is never the last.                         *)
PanicGoesOn ==
  \A i \in DOMAIN console :
    console[i] = "PANIC" => i + 1 \in DOMAIN console /\ console[i + 1] = "PANIC_KDB"

(* Before the script has set its prompt, nothing asks for that; once it has *)
(* come, nothing that was typed is left to be read.                        *)
PromptLines == {"PS1=", "dhclient"}
BeforePrompt ==
  BeforeLogin \cup {"firstPrompt", "posixPrompt", "rcPrompt", "cshPrompt", "minimal"}

PromptComesLast ==
  /\ \A i \in DOMAIN typed : typed[i] \in PromptLines => i = Len(typed)
  /\ pc \in BeforePrompt => "PEXPECT_PROMPT" \notin Shown /\ Range(typed) \cap PromptLines = {}
  /\ "PEXPECT_PROMPT" \in Shown => typed = <<>>
  /\ After(1, {"PEXPECT_PROMPT"}, Panics)
  /\ pc = "booted" => typed = <<>> /\ Shown \subseteq Panics

(* The script has no reason to doubt its answers.                          *)
Trusted ==
  /\ ~AtBoot /\ pc \notin {"exit 1", "exit 2", "pwd"}
  /\ ~gaveUp /\ testsSuccessful /\ ~sharedMountFailed

(* The outcomes after which it goes on, and the tests can still succeed.   *)
Recovers ==
  \/ outcome = "ok"
  \/ pc \in {"p9fs", "check2617"} /\ outcome # "timeout"
  \/ pc = "smbfs" /\ outcome = "error output"

GivesUp ==
  /\ pc \in Commands
  /\ (wait = "drain" /\ pc \in Plain /\ outcome # "ok") \/ (wait = "ended" /\ ~Recovers)

(* Nothing is under way, and nothing is left to be read.                   *)
Quiet == commands = <<>> /\ running = Idle /\ Shown \subseteq Panics

(* What a command that failed may leave: its prompt, or all of its answer. *)
FailureOnly ==
  /\ Shown \subseteq {"__COMMAND FAILED__", "PEXPECT_PROMPT"} \cup Panics
  /\ running # Idle => ~running.ok /\ running.name \in Checked

Failed == commands = <<>> /\ FailureOnly

(* The commands that come after one that failed.                           *)
Retrying == {"smbfs", "rm"}
Calm == IF pc \in Retrying THEN FailureOnly ELSE running = Idle /\ Shown \subseteq Panics

(* What the command that the script is at has done.                        *)
Done ==
  /\ pc = "smbfs" => mounts[dir] # <<>>
  /\ pc = "mv" => test \in delivered

Complaints == {"CHERI_TRAP", "unable to open connection"}
Answers == {"__COMMAND SUCCESSFUL__", "__COMMAND FAILED__", "PEXPECT_PROMPT"}

(* What the shell has printed of a command that is checked.                *)
Executed ==
  /\ running # Idle => /\ running.name = pc /\ (running.ok => Done)
                       /\ "__COMMAND SUCCESSFUL__" \notin Shown
                       /\ pc \notin Retrying => "__COMMAND FAILED__" \notin Shown
                       /\ Shown \cap Complaints # {} => ~running.ok
  /\ "__COMMAND SUCCESSFUL__" \in Shown => Done
  /\ Shown \subseteq Answers \cup Complaints \cup Panics
  /\ After(1, {"__COMMAND SUCCESSFUL__"}, {"PEXPECT_PROMPT"} \cup Panics)
  /\ After(2, {"__COMMAND SUCCESSFUL__"}, Panics)
  /\ After(1, Complaints, {"__COMMAND FAILED__", "PEXPECT_PROMPT"} \cup Panics)
  /\ pc \notin Retrying => After(1, {"__COMMAND FAILED__"}, {"PEXPECT_PROMPT"} \cup Panics)

Current == [name |-> pc, dir |-> dir, test |-> test]

CheckedInStep ==
  \/ commands = <<Current>> /\ Calm
  \/ commands = <<>> /\ Executed

(* The answer of a command that is not checked is a prompt.                *)
PlainInStep ==
  /\ commands = <<>> \/ (commands = <<Current>> /\ running = Idle)
  /\ running # Idle => running.name \in Plain
  /\ "PEXPECT_PROMPT" \in Shown => commands = <<>> /\ running = Idle
  /\ After(1, {"PEXPECT_PROMPT"}, Panics)

(* The command has succeeded, and its prompt is to be read.                *)
Succeeded ==
  /\ outcome = "ok" /\ commands = <<>> /\ running = Idle /\ Done
  /\ From(1, {"PEXPECT_PROMPT"} \cup Panics) /\ From(2, Panics)

CommandInStep ==
  /\ wait = "send" => commands = <<>> /\ Calm
  /\ wait = "answer" => IF pc \in Checked THEN CheckedInStep ELSE PlainInStep
  /\ wait = "prompt" => Succeeded
  /\ wait = "drain" => Failed /\ outcome # "ok"
  /\ wait = "ended" => IF outcome = "ok" THEN Quiet /\ Done ELSE Failed

InStep ==
  /\ canUseSmb /\ pc # "pwd"
  /\ typed = <<>> /\ (phase \in {"sh", "halted"} \/ Crashed)
  /\ pc \in Testing => dir = NumDirs + 1
  /\ \A d \in Dirs : d < dir => mounts[d] # <<>>
  /\ pc \in Commands => CommandInStep
  /\ pc = "exitcode" => IF wait = "send" THEN Quiet ELSE PlainInStep
  /\ pc = "poweroff" =>
       running = Idle /\ \A i \in DOMAIN commands : commands[i].name = "poweroff"
  /\ \A t \in Tests : t < test => t \in delivered
  /\ pc = "fsync" => test \in delivered

BootInStep == AtBoot => canUseSmb /\ dir = 1 /\ (Doomed \/ PromptComesLast)
ScriptInStep == Trusted => (Doomed /\ pc # "exit 0") \/ GivesUp \/ InStep

StepInv ==
  /\ PanicGoesOn /\ BootInStep /\ ScriptInStep
  /\ pc = "exit 0" => testsSuccessful /\ ~sharedMountFailed

-----------------------------------------------------------------------------
(* What is left to be read, as messages.                                   *)
LEMMA FromFirst ==
  ASSUME console \in Seq(Message), NEW B
  PROVE  From(1, B) <=> Shown \subseteq B
<1>1. DOMAIN console = 1 .. Len(console) /\ Len(console) \in Nat
  OBVIOUS
<1> QED
  BY <1>1 DEF From, Shown, Range

(* Nothing follows a message that is not there.                            *)
LEMMA NoneShown ==
  ASSUME NEW k, NEW A, NEW B, Shown \cap A = {}
  PROVE  After(k, A, B)
BY DEF After, Shown, Range

(* What comes after a message still does when the beginning has been cut,  *)
(* and if that message was the last to be read, all of the rest comes after it.*)
LEMMA CutAfter ==
  ASSUME console \in Seq(Message), NEW n, Cut(n), NEW k \in {1, 2}, NEW A, NEW B,
         After(k, A, B)
  PROVE  After(k, A, B)' /\ (console[n] \in A => From(k, B)')
<1>1. DOMAIN console = 1 .. Len(console) /\ Len(console) \in Nat
  OBVIOUS
<1>2. n \in 1 .. Len(console)
  BY <1>1 DEF Cut
<1>3. After(k, A, B)'
  <2>1. ASSUME NEW i \in DOMAIN console', NEW j \in DOMAIN console',
               i + k <= j, console'[i] \in A
        PROVE  console'[j] \in B
    <3>1. /\ i \in 1 .. Len(console) - n /\ j \in 1 .. Len(console) - n
          /\ n + i \in DOMAIN console /\ n + j \in DOMAIN console
          /\ console'[i] = console[n + i] /\ console'[j] = console[n + j]
      BY DEF Cut
    <3>2. (n + i) + k <= n + j
      BY <1>1, <1>2, <2>1, <3>1
    <3> QED
      BY <2>1, <3>1, <3>2 DEF After
  <2> QED
    BY <2>1 DEF After
<1>4. ASSUME console[n] \in A PROVE From(k, B)'
  <2>1. ASSUME NEW j \in DOMAIN console', k <= j PROVE console'[j] \in B
    <3>1. /\ j \in 1 .. Len(console) - n /\ n + j \in DOMAIN console
          /\ console'[j] = console[n + j] /\ n \in DOMAIN console
      BY DEF Cut
    <3>2. n + k <= n + j
      BY <1>1, <1>2, <2>1, <3>1
    <3> QED
      BY <1>4, <3>1, <3>2 DEF After
  <2> QED
    BY <2>1 DEF From
<1> QED
  BY <1>3, <1>4

(* What came second comes first when something has been cut.               *)
LEMMA CutFrom ==
  ASSUME console \in Seq(Message), NEW n, Cut(n), NEW B, From(2, B)
  PROVE  From(1, B)'
<1>1. DOMAIN console = 1 .. Len(console) /\ Len(console) \in Nat
  OBVIOUS
<1>2. n \in 1 .. Len(console)
  BY <1>1 DEF Cut
<1>3. ASSUME NEW j \in DOMAIN console' PROVE console'[j] \in B
  <2>1. /\ j \in 1 .. Len(console) - n /\ n + j \in DOMAIN console
        /\ console'[j] = console[n + j]
    BY DEF Cut
  <2>2. 2 <= n + j
    BY <1>1, <1>2, <2>1
  <2> QED
    BY <2>1, <2>2 DEF From
<1> QED
  BY <1>3 DEF From

(* A panic that has been cut goes on.                                      *)
LEMMA CutPanic ==
  ASSUME console \in Seq(Message), NEW n, Cut(n), PanicGoesOn
  PROVE  PanicGoesOn' /\ (console[n] = "PANIC" => Doomed')
<1>1. DOMAIN console = 1 .. Len(console) /\ Len(console) \in Nat
  OBVIOUS
<1>2. n \in 1 .. Len(console)
  BY <1>1 DEF Cut
<1>3. ASSUME NEW i \in DOMAIN console', console'[i] = "PANIC"
      PROVE  i + 1 \in DOMAIN console' /\ console'[i + 1] = "PANIC_KDB"
  <2>1. i \in 1 .. Len(console) - n /\ n + i \in DOMAIN console /\ console'[i] = console[n + i]
    BY DEF Cut
  <2>2. n + i + 1 \in DOMAIN console /\ console[n + i + 1] = "PANIC_KDB"
    BY <1>3, <2>1 DEF PanicGoesOn
  <2>3. i + 1 \in 1 .. Len(console) - n /\ n + (i + 1) = n + i + 1
    BY <1>1, <1>2, <2>1, <2>2
  <2> QED
    BY <2>2, <2>3 DEF Cut
<1>4. ASSUME console[n] = "PANIC" PROVE Doomed'
  <2>1. n + 1 \in DOMAIN console /\ console[n + 1] = "PANIC_KDB"
    BY <1>1, <1>2, <1>4 DEF PanicGoesOn
  <2>2. 1 \in 1 .. Len(console) - n
    BY <1>1, <1>2, <2>1
  <2>3. console'[1] = "PANIC_KDB" /\ 1 \in DOMAIN console'
    BY <2>1, <2>2 DEF Cut
  <2>4. DOMAIN <<>> = {}
    OBVIOUS
  <2>5. console' # <<>>
    BY <2>3, <2>4
  <2> QED
    BY <2>3, <2>5 DEF Doomed
<1> QED
  BY <1>3, <1>4 DEF PanicGoesOn

(* What an expect() that returns has read, and what it has left.           *)
LEMMA Reading ==
  ASSUME console \in Seq(Message), PanicGoesOn,
         NEW P, P \subseteq Message \cup {"TIMEOUT", "EOF"}, Consume(P), NEW m \in Returned(P)
  PROVE  /\ ~Doomed /\ PanicGoesOn' /\ Shown' \subseteq Shown
         /\ m = "PANIC" => Doomed'
         /\ m \in {"TIMEOUT", "EOF"} => m \in P
         /\ m \notin {"TIMEOUT", "EOF"} => m \in Shown /\ m \in P \cup {"PANIC"}
         /\ \A k \in {1, 2} : \A A, B :
              /\ After(k, A, B) => After(k, A, B)'
              /\ After(k, A, B) /\ m \in A \ {"TIMEOUT", "EOF"} => From(k, B)'
         /\ \A B : From(2, B) /\ m \notin {"TIMEOUT", "EOF"} => From(1, B)'
<1>1. Shown' \subseteq Shown
  BY Expected
<1>2. ~Doomed
  BY CutWhere
<1>3. CASE m \in {"TIMEOUT", "EOF"} \cap P /\ console' = console
  <2>1. PanicGoesOn'
    BY <1>3 DEF PanicGoesOn
  <2>2. \A k \in {1, 2} : \A A, B : After(k, A, B) => After(k, A, B)'
    BY <1>3 DEF After
  <2> QED
    BY <1>1, <1>2, <1>3, <2>1, <2>2
<1>4. CASE \E n : Cut(n) /\ console[n] = m /\ m \in P \cup {"PANIC"}
  <2>1. PICK n : Cut(n) /\ console[n] = m /\ m \in P \cup {"PANIC"}
    BY <1>4
  <2>2. PanicGoesOn' /\ (m = "PANIC" => Doomed')
    BY <2>1, CutPanic
  <2>3. ASSUME NEW k \in {1, 2}, NEW A, NEW B, After(k, A, B)
        PROVE  After(k, A, B)' /\ (m \in A => From(k, B)')
    BY <2>1, <2>3, CutAfter
  <2>4. ASSUME NEW B, From(2, B) PROVE From(1, B)'
    BY <2>1, <2>4, CutFrom
  <2>5. m \in Shown /\ m \notin {"TIMEOUT", "EOF"}
    <3>1. m \in Shown
      BY <2>1 DEF Shown, Range, Cut
    <3>2. Shown \subseteq Message
      BY RangeOfSeq DEF Shown
    <3> QED
      BY <3>1, <3>2, Words
  <2> QED
    BY <1>1, <1>2, <2>1, <2>2, <2>3, <2>4, <2>5
<1> QED
  BY <1>3, <1>4, CutWhere

-----------------------------------------------------------------------------
(* What comes after a message still does when something fitting is printed.*)
LEMMA PrintedAfter ==
  ASSUME console \in Seq(Message), NEW ms \in Seq(Message), Prints(ms),
         NEW k \in {1, 2}, NEW A, NEW B, After(k, A, B),
         Shown \cap A = {} \/ Range(ms) \subseteq B,
         \A i, j \in DOMAIN ms : i + k <= j /\ ms[i] \in A => ms[j] \in B
  PROVE  After(k, A, B)'
<1>1. /\ Len(console) \in Nat /\ DOMAIN console = 1 .. Len(console)
      /\ DOMAIN console' = 1 .. Len(console) + Len(ms)
      /\ \A n \in DOMAIN console : n \in DOMAIN console' /\ console'[n] = console[n]
      /\ \A n \in DOMAIN console' : n > Len(console) =>
           n - Len(console) \in DOMAIN ms /\ console'[n] = ms[n - Len(console)]
      /\ Len(ms) \in Nat
  BY PrintedWhere
<1>2. ASSUME NEW i \in DOMAIN console', NEW j \in DOMAIN console',
             i + k <= j, console'[i] \in A
      PROVE  console'[j] \in B
  <2>1. CASE j <= Len(console)
    <3>1. i \in DOMAIN console /\ j \in DOMAIN console
      BY <1>1, <1>2, <2>1
    <3> QED
      BY <1>1, <1>2, <3>1 DEF After
  <2>2. CASE i <= Len(console) /\ j > Len(console)
    <3>1. i \in DOMAIN console /\ console[i] \in A
      BY <1>1, <1>2, <2>2
    <3>2. Shown \cap A # {}
      BY <3>1 DEF Shown, Range
    <3>3. console'[j] \in Range(ms)
      BY <1>1, <2>2 DEF Range
    <3> QED
      BY <3>2, <3>3
  <2>3. CASE i > Len(console) /\ j > Len(console)
    <3>1. /\ i - Len(console) \in DOMAIN ms /\ j - Len(console) \in DOMAIN ms
          /\ console'[i] = ms[i - Len(console)] /\ console'[j] = ms[j - Len(console)]
      BY <1>1, <2>3
    <3>2. (i - Len(console)) + k <= j - Len(console)
      BY <1>1, <1>2
    <3> QED
      BY <1>2, <3>1, <3>2
  <2> QED
    BY <1>1, <1>2, <2>1, <2>2, <2>3
<1> QED
  BY <1>2 DEF After

(* What comes from some place on still does, likewise.                     *)
LEMMA PrintedFrom ==
  ASSUME console \in Seq(Message), NEW ms \in Seq(Message), Prints(ms), NEW k, NEW B,
         From(k, B), Range(ms) \subseteq B
  PROVE  From(k, B)'
<1>1. /\ Len(console) \in Nat /\ DOMAIN console = 1 .. Len(console)
      /\ DOMAIN console' = 1 .. Len(console) + Len(ms)
      /\ \A n \in DOMAIN console : n \in DOMAIN console' /\ console'[n] = console[n]
      /\ \A n \in DOMAIN console' : n > Len(console) =>
           n - Len(console) \in DOMAIN ms /\ console'[n] = ms[n - Len(console)]
  BY PrintedWhere
<1>2. ASSUME NEW j \in DOMAIN console', k <= j PROVE console'[j] \in B
  <2>1. CASE j \in DOMAIN console
    BY <1>1, <1>2, <2>1 DEF From
  <2>2. CASE j > Len(console)
    BY <1>1, <2>2 DEF Range
  <2> QED
    BY <1>1, <2>1, <2>2, PrintedWhere
<1> QED
  BY <1>2 DEF From

(* Whole panics are printed, and what cannot be got past remains.          *)
LEMMA PrintedPanic ==
  ASSUME console \in Seq(Message), NEW ms \in Seq(Message), Prints(ms), PanicGoesOn,
         \A i \in DOMAIN ms : ms[i] = "PANIC" => i + 1 \in DOMAIN ms /\ ms[i + 1] = "PANIC_KDB"
  PROVE  PanicGoesOn' /\ (Doomed => Doomed')
<1>1. /\ Len(console) \in Nat /\ DOMAIN console = 1 .. Len(console)
      /\ DOMAIN console' = 1 .. Len(console) + Len(ms)
      /\ \A n \in DOMAIN console : n \in DOMAIN console' /\ console'[n] = console[n]
      /\ \A n \in DOMAIN console' : n > Len(console) =>
           n - Len(console) \in DOMAIN ms /\ console'[n] = ms[n - Len(console)]
      /\ DOMAIN ms = 1 .. Len(ms) /\ Len(ms) \in Nat
  BY PrintedWhere
<1>2. ASSUME NEW i \in DOMAIN console', console'[i] = "PANIC"
      PROVE  i + 1 \in DOMAIN console' /\ console'[i + 1] = "PANIC_KDB"
  <2>1. CASE i <= Len(console)
    <3>1. i \in DOMAIN console /\ console[i] = "PANIC"
      BY <1>1, <1>2, <2>1
    <3> QED
      BY <1>1, <3>1 DEF PanicGoesOn
  <2>2. CASE i > Len(console)
    <3> PICK n : n = i - Len(console)
      OBVIOUS
    <3>1. n \in DOMAIN ms /\ ms[n] = "PANIC"
      BY <1>1, <1>2, <2>2
    <3>2. n + 1 \in DOMAIN ms /\ ms[n + 1] = "PANIC_KDB"
      BY <3>1
    <3>3. i + 1 \in DOMAIN console' /\ (i + 1) - Len(console) = n + 1 /\ i + 1 > Len(console)
      BY <1>1, <2>2, <3>2
    <3> QED
      BY <1>1, <3>2, <3>3
  <2> QED
    BY <1>1, <2>1, <2>2
<1>3. ASSUME Doomed PROVE Doomed'
  <2>1. 1 \in DOMAIN console
    BY <1>1, <1>3, EmptySeq DEF Doomed
  <2>2. 1 \in DOMAIN console' /\ console'[1] = "PANIC_KDB"
    BY <1>1, <1>3, <2>1 DEF Doomed
  <2>3. DOMAIN <<>> = {}
    OBVIOUS
  <2> QED
    BY <2>2, <2>3 DEF Doomed
<1> QED
  BY <1>2, <1>3 DEF PanicGoesOn

(* What does not look like a panic keeps what there is of one.             *)
LEMMA NoPanicPrinted ==
  ASSUME console \in Seq(Message), NEW ms \in Seq(Message), Prints(ms), PanicGoesOn,
         Range(ms) \cap Panics = {}
  PROVE  PanicGoesOn' /\ (Doomed => Doomed')
<1>1. \A i \in DOMAIN ms : ms[i] # "PANIC"
  BY TwoPanics DEF Range
<1> QED
  BY <1>1, PrintedPanic

(* A panic leaves what is known of the messages before it.                 *)
OnlyPanics ==
  /\ Shown' \subseteq Shown \cup Panics /\ PanicGoesOn' /\ (Doomed => Doomed')
  /\ \A k \in {1, 2} : \A A, B : Panics \subseteq B /\ A \cap Panics = {} =>
       /\ After(k, A, B) => After(k, A, B)'
       /\ From(k, B) => From(k, B)'

(* A guest that dies prints a panic or nothing.                            *)
LEMMA CrashPrints ==
  ASSUME console \in Seq(Message), PanicGoesOn, KernelPanic \/ QemuDies
  PROVE  OnlyPanics
<1>1. CASE QemuDies
  <2>1. console' = console
    BY <1>1 DEF QemuDies, tty
  <2> QED
    BY <2>1 DEF OnlyPanics, Shown, PanicGoesOn, Doomed, After, From
<1>2. CASE KernelPanic
  <2>1. PICK first \in Panics : Prints(<<first, "PANIC_KDB">>)
    BY <1>2 DEF KernelPanic
  <2>2. first \in Message /\ "PANIC_KDB" \in Message
    BY Output, TwoPanics DEF BootOutput
  <2> DEFINE ms == <<first, "PANIC_KDB">>
  <2>3. ms \in Seq(Message) /\ Range(ms) \subseteq Panics /\ Prints(ms)
    BY <2>1, <2>2, Tuples, TwoPanics
  <2>4. Shown' \subseteq Shown \cup Panics
    BY <2>3, Printed
  <2>5. DOMAIN ms = 1 .. 2 /\ ms[1] = first /\ ms[2] = "PANIC_KDB"
    OBVIOUS
  <2> HIDE DEF ms
  <2>6. PanicGoesOn' /\ (Doomed => Doomed')
    <3>1. ASSUME NEW i \in DOMAIN ms, ms[i] = "PANIC"
          PROVE  i + 1 \in DOMAIN ms /\ ms[i + 1] = "PANIC_KDB"
      BY <2>5, <3>1
    <3> QED
      BY <2>3, <3>1, PrintedPanic
  <2>7. ASSUME NEW k \in {1, 2}, NEW A, NEW B, Panics \subseteq B, A \cap Panics = {},
               After(k, A, B)
        PROVE  After(k, A, B)'
    <3>1. Range(ms) \subseteq B /\ \A i \in DOMAIN ms : ms[i] \notin A
      BY <2>3, <2>7 DEF Range
    <3> QED
      BY <2>3, <2>7, <3>1, PrintedAfter
  <2>8. ASSUME NEW k \in {1, 2}, NEW B, Panics \subseteq B, From(k, B)
        PROVE  From(k, B)'
    <3>1. Range(ms) \subseteq B
      BY <2>3, <2>8
    <3> QED
      BY <2>3, <2>8, <3>1, PrintedFrom
  <2> QED
    BY <2>4, <2>6, <2>7, <2>8 DEF OnlyPanics
<1> QED
  BY <1>1, <1>2

-----------------------------------------------------------------------------
(* The messages that script and shell go by.                               *)
LEMMA OtherThanPanics ==
  /\ (Answers \cup Complaints) \cap Panics = {}
  /\ "__COMMAND SUCCESSFUL__" \notin Complaints /\ "__COMMAND FAILED__" \notin Complaints
  /\ "PEXPECT_PROMPT" \notin Complaints
BY TwoPanics DEF Answers, Complaints

(* Script and shell, as they were, with at most a panic after them.        *)
ShellIsStill ==
  /\ pc' = pc /\ wait' = wait /\ outcome' = outcome /\ dir' = dir /\ test' = test
  /\ commands' = commands /\ running' = running /\ mounts' = mounts
  /\ delivered' = delivered /\ canUseSmb' = canUseSmb /\ typed' = typed

(* A panic does not part script and shell.                                 *)
LEMMA PanicInStep ==
  ASSUME InStep, OnlyPanics, ShellIsStill, phase' = phase \/ Crashed'
  PROVE  InStep'
<1>1. /\ pc' = pc /\ wait' = wait /\ outcome' = outcome /\ dir' = dir /\ test' = test
      /\ commands' = commands /\ running' = running /\ mounts' = mounts
      /\ delivered' = delivered /\ canUseSmb' = canUseSmb /\ typed' = typed
  BY DEF ShellIsStill
<1>2. Shown' \subseteq Shown \cup Panics
  BY DEF OnlyPanics
<1>3. \A m \in Answers \cup Complaints : m \in Shown' => m \in Shown
  BY <1>2, OtherThanPanics
<1>4. /\ After(1, {"__COMMAND SUCCESSFUL__"}, {"PEXPECT_PROMPT"} \cup Panics)
         => After(1, {"__COMMAND SUCCESSFUL__"}, {"PEXPECT_PROMPT"} \cup Panics)'
      /\ After(2, {"__COMMAND SUCCESSFUL__"}, Panics)
         => After(2, {"__COMMAND SUCCESSFUL__"}, Panics)'
      /\ After(1, Complaints, {"__COMMAND FAILED__", "PEXPECT_PROMPT"} \cup Panics)
         => After(1, Complaints, {"__COMMAND FAILED__", "PEXPECT_PROMPT"} \cup Panics)'
      /\ After(1, {"__COMMAND FAILED__"}, {"PEXPECT_PROMPT"} \cup Panics)
         => After(1, {"__COMMAND FAILED__"}, {"PEXPECT_PROMPT"} \cup Panics)'
      /\ After(1, {"PEXPECT_PROMPT"}, Panics) => After(1, {"PEXPECT_PROMPT"}, Panics)'
  <2>1. /\ {"__COMMAND SUCCESSFUL__"} \cap Panics = {} /\ {"__COMMAND FAILED__"} \cap Panics = {}
        /\ {"PEXPECT_PROMPT"} \cap Panics = {} /\ Complaints \cap Panics = {}
    BY OtherThanPanics DEF Answers
  <2>2. ASSUME NEW k \in {1, 2}, NEW A, NEW B, Panics \subseteq B, A \cap Panics = {},
               After(k, A, B)
        PROVE  After(k, A, B)'
    BY <2>2 DEF OnlyPanics
  <2> QED
    BY <2>1, <2>2
<1>5. /\ From(1, {"PEXPECT_PROMPT"} \cup Panics) => From(1, {"PEXPECT_PROMPT"} \cup Panics)'
      /\ From(2, Panics) => From(2, Panics)'
  <2>1. ASSUME NEW k \in {1, 2}, NEW B, Panics \subseteq B, From(k, B)
        PROVE  From(k, B)'
    <3>1. {} \cap Panics = {}
      OBVIOUS
    <3> QED
      BY <2>1, <3>1 DEF OnlyPanics
  <2> QED
    BY <2>1
<1>6. /\ Quiet => Quiet'
      /\ FailureOnly => FailureOnly'
      /\ Failed => Failed'
      /\ Done => Done'
      /\ Calm => Calm'
  <2>1. (Quiet => Quiet') /\ (FailureOnly => FailureOnly') /\ (Done => Done')
    BY <1>1, <1>2 DEF Quiet, FailureOnly, Done
  <2>2. Calm => Calm'
    BY <1>1, <1>2, <2>1 DEF Calm
  <2> QED
    BY <1>1, <2>1, <2>2 DEF Failed
<1>7. Executed => Executed'
  <2> SUFFICES ASSUME Executed PROVE Executed'
    OBVIOUS
  <2>1. Shown' \subseteq Answers \cup Complaints \cup Panics
    BY <1>2 DEF Executed
  <2>2. Shown' \cap Complaints # {} => Shown \cap Complaints # {}
    BY <1>3
  <2>3. /\ "__COMMAND SUCCESSFUL__" \in Shown' => "__COMMAND SUCCESSFUL__" \in Shown
        /\ "__COMMAND FAILED__" \in Shown' => "__COMMAND FAILED__" \in Shown
    BY <1>3 DEF Answers
  <2>4. /\ running # Idle => /\ running.name = pc /\ (running.ok => Done)
                             /\ "__COMMAND SUCCESSFUL__" \notin Shown
                             /\ pc \notin Retrying => "__COMMAND FAILED__" \notin Shown
                             /\ Shown \cap Complaints # {} => ~running.ok
        /\ "__COMMAND SUCCESSFUL__" \in Shown => Done
    BY DEF Executed
  <2>5. /\ After(1, {"__COMMAND SUCCESSFUL__"}, {"PEXPECT_PROMPT"} \cup Panics)'
        /\ After(2, {"__COMMAND SUCCESSFUL__"}, Panics)'
        /\ After(1, Complaints, {"__COMMAND FAILED__", "PEXPECT_PROMPT"} \cup Panics)'
        /\ pc \notin Retrying =>
             After(1, {"__COMMAND FAILED__"}, {"PEXPECT_PROMPT"} \cup Panics)'
    BY <1>4 DEF Executed
  <2> QED
    BY <1>1, <1>6, <2>1, <2>2, <2>3, <2>4, <2>5 DEF Executed
<1>8. CheckedInStep => CheckedInStep'
  <2>1. Current' = Current
    BY <1>1 DEF Current
  <2> QED
    BY <1>1, <1>6, <1>7, <2>1 DEF CheckedInStep
<1>9. PlainInStep => PlainInStep'
  <2>1. Current' = Current
    BY <1>1 DEF Current
  <2>2. "PEXPECT_PROMPT" \in Shown' => "PEXPECT_PROMPT" \in Shown
    BY <1>3 DEF Answers
  <2> QED
    BY <1>1, <1>4, <2>1, <2>2 DEF PlainInStep
<1>10. Succeeded => Succeeded'
  BY <1>1, <1>5, <1>6 DEF Succeeded
<1>11. CommandInStep => CommandInStep'
  BY <1>1, <1>6, <1>8, <1>9, <1>10 DEF CommandInStep
<1>12. phase' \in {"sh", "halted"} \/ Crashed'
  BY DEF InStep, Crashed
<1> QED
  BY <1>1, <1>6, <1>9, <1>11, <1>12 DEF InStep

-----------------------------------------------------------------------------
(* The prompt of the script, while it boots.                               *)
LEMMA PromptPoints ==
  /\ BeforePrompt \subseteq BootPoints
  /\ {"setPrompt", "dhclient", "bound", "noInterface", "netPrompt", "booted", "exit 1"}
       \cap BeforePrompt = {}
BY Points DEF BeforePrompt, BeforeLogin, ForKernel, AfterLogin

(* Where the points of a boot lead, and what is typed there.               *)
BootPath ==
  \/ /\ pc \in BeforePrompt /\ pc' \in BeforePrompt
     /\ typed' = typed \/ \E line \in Line \ PromptLines : Send(line)
  \/ pc \in BeforePrompt /\ pc' = "setPrompt" /\ Send("PS1=")
  \/ pc = "setPrompt" /\ pc' = "dhclient" /\ Send("dhclient")
  \/ pc \in {"dhclient", "bound"} /\ pc' \in {"bound", "noInterface", "netPrompt"}
     /\ typed' = typed
  \/ pc \in {"setPrompt", "netPrompt"} /\ pc' = "booted" /\ typed' = typed

(* The ways from one point of the boot to another.                         *)
LEMMA BootPaths ==
  ASSUME BootStep, pc' # "exit 1"
  PROVE  BootPath /\ Returned(Patterns[pc]) # {}
<1>1. \A p, m : m \in Awaited(p) => pc = p /\ m \in Returned(Patterns[pc])
  BY DEF Awaited
<1>2. /\ {"loader", "loaderPrompt", "kernel", "rootfs", "login", "loginOnly", "firstPrompt",
           "posixPrompt", "rcPrompt", "cshPrompt", "minimal"} = BeforePrompt
      /\ {"escape", "enter", "boot", "root", "sh"} = Line \ PromptLines
  BY DEF BeforePrompt, BeforeLogin, ForKernel, Line, PromptLines
<1>3. CASE AwaitLoader
  <2>1. PICK m \in Awaited("loader") :
          \/ pc' \in {"loaderPrompt", "kernel"} /\ typed' = typed
          \/ /\ pc' \in {"loaderPrompt", "kernel"}
             /\ \E line \in {"escape", "enter", "boot"} : Send(line)
          \/ pc' \in {"login", "rootfs"} /\ typed' = typed
    BY <1>3 DEF AwaitLoader, Goto, Continue
  <2>2. pc = "loader" /\ Returned(Patterns[pc]) # {}
    BY <1>1, <2>1
  <2>3. pc \in BeforePrompt /\ pc' \in BeforePrompt
    BY <1>2, <2>1, <2>2
  <2> QED
    BY <1>2, <2>1, <2>2, <2>3 DEF BootPath
<1>4. CASE AwaitLoaderPrompt
  <2>1. PICK m \in Awaited("loaderPrompt") : pc' = "kernel" /\ Send("boot")
    BY <1>4 DEF AwaitLoaderPrompt, Goto
  <2>2. pc = "loaderPrompt" /\ Returned(Patterns[pc]) # {}
    BY <1>1, <2>1
  <2>3. pc \in BeforePrompt /\ pc' \in BeforePrompt
    BY <1>2, <2>1, <2>2
  <2> QED
    BY <1>2, <2>1, <2>2, <2>3 DEF BootPath
<1>5. CASE AwaitKernel \/ AwaitRootfs
  <2>1. PICK p \in {"kernel", "rootfs"} : \E m \in Awaited(p) :
          pc' \in {"login", "rootfs"} /\ typed' = typed
    BY <1>5 DEF AwaitKernel, AwaitRootfs, Goto, Continue
  <2>2. pc = p /\ Returned(Patterns[pc]) # {}
    BY <1>1, <2>1
  <2>3. pc \in BeforePrompt /\ pc' \in BeforePrompt
    BY <1>2, <2>1, <2>2
  <2> QED
    BY <2>1, <2>2, <2>3 DEF BootPath
<1>6. CASE AwaitLogin
  <2>1. PICK p \in {"login", "loginOnly"} : \E m \in Awaited(p) :
          \/ pc' \in {"loginOnly", "rcPrompt", "cshPrompt"} /\ typed' = typed
          \/ pc' = "firstPrompt" /\ Send("root")
    BY <1>6 DEF AwaitLogin, LoggedIn, Goto
  <2>2. pc = p /\ Returned(Patterns[pc]) # {}
    BY <1>1, <2>1
  <2>3. pc \in BeforePrompt /\ pc' \in BeforePrompt
    BY <1>2, <2>1, <2>2
  <2> QED
    BY <1>2, <2>1, <2>2, <2>3 DEF BootPath
<1>7. CASE AwaitShell
  <2>1. PICK p \in {"firstPrompt", "cshPrompt", "posixPrompt", "rcPrompt", "minimal"} :
           \E m \in Awaited(p) :
          \/ pc' \in {"posixPrompt", "minimal"} /\ Send("sh")
          \/ pc' = "setPrompt" /\ Send("PS1=")
    BY <1>7 DEF AwaitShell, Goto
  <2>2. pc = p /\ Returned(Patterns[pc]) # {}
    BY <1>1, <2>1
  <2>3. pc \in BeforePrompt
    BY <1>2, <2>2
  <2> QED
    BY <1>2, <2>1, <2>2, <2>3 DEF BootPath
<1>8. CASE AwaitOwnPrompt
  <2>1. PICK m \in Awaited("setPrompt") :
          \/ pc' = "booted" /\ typed' = typed
          \/ pc' = "dhclient" /\ Send("dhclient")
    BY <1>8 DEF AwaitOwnPrompt, Goto
  <2>2. pc = "setPrompt" /\ Returned(Patterns[pc]) # {}
    BY <1>1, <2>1
  <2> QED
    BY <2>1, <2>2 DEF BootPath
<1>9. CASE AwaitDhclient
  <2>1. PICK p \in {"dhclient", "bound", "noInterface", "netPrompt"} : \E m \in Awaited(p) :
          /\ typed' = typed
          /\ \/ p \in {"dhclient", "bound"} /\ pc' \in {"bound", "noInterface", "netPrompt"}
             \/ p = "netPrompt" /\ pc' = "booted"
    BY <1>9 DEF AwaitDhclient, Goto
  <2>2. pc = p /\ Returned(Patterns[pc]) # {}
    BY <1>1, <2>1
  <2> QED
    BY <2>1, <2>2 DEF BootPath
<1>10. CASE ExpectFails
  BY <1>10 DEF ExpectFails, Goto
<1> QED
  BY <1>3, <1>4, <1>5, <1>6, <1>7, <1>8, <1>9, <1>10 DEF BootStep

(* The line that was sent is the last one.                                 *)
LEMMA SentWhere ==
  ASSUME typed \in Seq(Line), NEW line \in Line, Send(line), NEW i \in DOMAIN typed'
  PROVE  i = Len(typed') \/ (i \in DOMAIN typed /\ typed'[i] = typed[i])
<1>1. /\ typed' = Append(typed, line) /\ Len(typed') = Len(typed) + 1 /\ Len(typed) \in Nat
      /\ DOMAIN typed' = 1 .. Len(typed) + 1 /\ DOMAIN typed = 1 .. Len(typed)
      /\ \A j \in DOMAIN typed : typed'[j] = typed[j]
  BY DEF Send
<1> QED
  BY <1>1

(* The prompt still comes last when the script has read on.                *)
LEMMA BootStepPrompt ==
  ASSUME IInv, BootStep, pc' # "exit 1", PanicGoesOn, Doomed \/ PromptComesLast
  PROVE  PanicGoesOn' /\ (Doomed' \/ PromptComesLast')
<1>1. /\ console \in Seq(Message) /\ typed \in Seq(Line)
  BY DEF IInv, Types, BootTypes
<1>2. PICK m : m \in Returned(Patterns[pc])
  BY BootPaths
<1>3. pc \in BootPoints /\ Consume(Patterns[pc])
  BY DEF BootStep
<1>4. Patterns[pc] \subseteq Message \cup {"TIMEOUT", "EOF"}
  BY <1>3, PointPatterns
<1>5. /\ ~Doomed /\ PanicGoesOn' /\ Shown' \subseteq Shown
      /\ m = "PANIC" => Doomed'
      /\ m \in {"TIMEOUT", "EOF"} => m \in Patterns[pc]
      /\ m \notin {"TIMEOUT", "EOF"} => m \in Shown /\ m \in Patterns[pc] \cup {"PANIC"}
      /\ After(1, {"PEXPECT_PROMPT"}, Panics) => After(1, {"PEXPECT_PROMPT"}, Panics)'
      /\ After(1, {"PEXPECT_PROMPT"}, Panics) /\ m = "PEXPECT_PROMPT" => From(1, Panics)'
  BY <1>1, <1>2, <1>3, <1>4, Reading
<1> SUFFICES ASSUME m # "PANIC" PROVE PromptComesLast'
  BY <1>5
<1>6. PromptComesLast
  BY <1>5
<1>7. After(1, {"PEXPECT_PROMPT"}, Panics)'
  BY <1>5, <1>6 DEF PromptComesLast
<1>8. ASSUME pc \in BeforePrompt
      PROVE  "PEXPECT_PROMPT" \notin Shown' /\ Range(typed) \cap PromptLines = {}
  BY <1>5, <1>6, <1>8 DEF PromptComesLast
<1>9. CASE /\ pc \in BeforePrompt /\ pc' \in BeforePrompt
           /\ typed' = typed \/ \E line \in Line \ PromptLines : Send(line)
  <2>1. Range(typed') \cap PromptLines = {} /\ typed' \in Seq(Line)
    BY <1>1, <1>8, <1>9, Sent
  <2>2. \A i \in DOMAIN typed' : typed'[i] \notin PromptLines
    BY <2>1 DEF Range
  <2>3. pc' # "booted"
    BY <1>9, PromptPoints
  <2> QED
    BY <1>7, <1>8, <1>9, <2>1, <2>2, <2>3 DEF PromptComesLast
<1>10. CASE pc \in BeforePrompt /\ pc' = "setPrompt" /\ Send("PS1=")
  <2>1. \A i \in DOMAIN typed' :
          i = Len(typed') \/ (i \in DOMAIN typed /\ typed'[i] = typed[i])
    BY <1>1, <1>10, SentWhere DEF Line
  <2>2. \A i \in DOMAIN typed : typed[i] \notin PromptLines
    BY <1>8, <1>10 DEF Range
  <2>3. \A i \in DOMAIN typed' : typed'[i] \in PromptLines => i = Len(typed')
    BY <2>1, <2>2, Zenon
  <2>4. pc' \notin BeforePrompt /\ pc' # "booted"
    BY <1>10, PromptPoints
  <2> QED
    BY <1>7, <1>8, <1>10, <2>3, <2>4 DEF PromptComesLast
<1>11. ASSUME pc \in {"setPrompt", "netPrompt"}
       PROVE  typed = <<>> /\ Shown' \subseteq Panics
  <2>1. Patterns[pc] = {"PEXPECT_PROMPT"}
    BY <1>11, PatternsAre
  <2>2. m = "PEXPECT_PROMPT" /\ m \in Shown
    BY <1>5, <2>1
  <2>3. From(1, Panics)'
    BY <1>5, <1>6, <2>2 DEF PromptComesLast
  <2>4. console' \in Seq(Message)
    BY <1>1, <1>3, <1>4, Expected
  <2>5. From(1, Panics)' <=> Shown' \subseteq Panics
    <3>1. \A j \in DOMAIN console' : 1 <= j
      BY <2>4, ShortOnes, Zenon
    <3> QED
      BY <3>1, Zenon DEF From, Shown, Range
  <2> QED
    BY <1>6, <2>2, <2>3, <2>5 DEF PromptComesLast
<1>12. CASE pc = "setPrompt" /\ pc' = "dhclient" /\ Send("dhclient")
  <2>1. typed' = <<"dhclient">>
    BY <1>11, <1>12 DEF Send
  <2>2. \A i \in DOMAIN typed' : i = Len(typed')
    BY <2>1, ShortOnes, Zenon
  <2>3. "PEXPECT_PROMPT" \notin Shown'
    BY <1>11, <1>12, TwoPanics
  <2>4. pc' \notin BeforePrompt /\ pc' # "booted"
    BY <1>12, PromptPoints
  <2> QED
    BY <1>7, <2>2, <2>3, <2>4 DEF PromptComesLast
<1>13. CASE pc \in {"dhclient", "bound"} /\ pc' \in {"bound", "noInterface", "netPrompt"}
            /\ typed' = typed
  <2>1. pc' \notin BeforePrompt /\ pc' # "booted"
    BY <1>13, PromptPoints
  <2> QED
    BY <1>5, <1>6, <1>7, <1>13, <2>1 DEF PromptComesLast
<1>14. CASE pc \in {"setPrompt", "netPrompt"} /\ pc' = "booted" /\ typed' = typed
  <2>1. pc' \notin BeforePrompt
    BY <1>14, PromptPoints
  <2>2. typed' = <<>> /\ Shown' \subseteq Panics
    BY <1>11, <1>14
  <2>3. DOMAIN typed' = {}
    BY <2>2, ShortOnes, Zenon
  <2> QED
    BY <1>7, <2>1, <2>2, <2>3 DEF PromptComesLast
<1> QED
  BY <1>9, <1>10, <1>12, <1>13, <1>14, BootPaths DEF BootPath

(* The members of a triple.                                                *)
LEMMA Triple ==
  ASSUME NEW x, NEW y, NEW z
  PROVE  DOMAIN <<x, y, z>> = 1 .. 3 /\ <<x, y, z>>[1] = x /\ <<x, y, z>>[2] = y
OBVIOUS

(* What the shell says to the lines of a boot ends in a prompt.            *)
LEMMA PromptIsLast ==
  ASSUME NEW ms \in { <<x>> : x \in InitialPrompts } \cup
                    { <<"PEXPECT_PROMPT">>, <<"DHCPACK", "bound to", "PEXPECT_PROMPT">>,
                      <<"already running", "PEXPECT_PROMPT">>,
                      <<"no interface", "PEXPECT_PROMPT">> }
  PROVE  /\ ms \in Seq(Message)
         /\ \A i, j \in DOMAIN ms : i + 1 <= j => ms[i] # "PEXPECT_PROMPT"
         /\ ms \in { <<x>> : x \in InitialPrompts } => "PEXPECT_PROMPT" \notin Range(ms)
<1>1. /\ InitialPrompts \subseteq Message /\ "PEXPECT_PROMPT" \notin InitialPrompts
      /\ {"PEXPECT_PROMPT", "DHCPACK", "bound to", "already running", "no interface"}
           \subseteq Message
  BY Output DEF InitialPrompts, BootOutput
<1>2. ASSUME NEW x \in InitialPrompts \cup {"PEXPECT_PROMPT"}, ms = <<x>>
      PROVE  ms \in Seq(Message) /\ \A i, j \in DOMAIN ms : i + 1 <= j => ms[i] # "PEXPECT_PROMPT"
  <2>1. DOMAIN ms = {1} /\ x \in Message
    BY <1>1, <1>2, ShortOnes
  <2> QED
    BY <1>2, <2>1, Short
<1>3. ASSUME NEW x \in {"already running", "no interface"}, ms = <<x, "PEXPECT_PROMPT">>
      PROVE  ms \in Seq(Message) /\ \A i, j \in DOMAIN ms : i + 1 <= j => ms[i] # "PEXPECT_PROMPT"
  <2>1. DOMAIN ms = 1 .. 2 /\ ms[1] = x /\ x # "PEXPECT_PROMPT"
    BY <1>3, ShortOnes, Zenon
  <2>2. ms \in Seq(Message)
    BY <1>1, <1>3, Short
  <2>3. \A i, j \in DOMAIN ms : i + 1 <= j => i = 1
    BY <2>1, ShortOnes, Zenon
  <2> QED
    BY <2>1, <2>2, <2>3, Zenon
<1>4. ASSUME NEW x \in {"DHCPACK"}, NEW y \in {"bound to"}, ms = <<x, y, "PEXPECT_PROMPT">>
      PROVE  ms \in Seq(Message) /\ \A i, j \in DOMAIN ms : i + 1 <= j => ms[i] # "PEXPECT_PROMPT"
  <2>1. DOMAIN ms = 1 .. 3 /\ ms[1] = x /\ ms[2] = y
    <3> PICK z : z = "PEXPECT_PROMPT"
      OBVIOUS
    <3>1. DOMAIN <<x, y, z>> = 1 .. 3 /\ <<x, y, z>>[1] = x /\ <<x, y, z>>[2] = y
      BY Triple, Zenon
    <3> QED
      BY <1>4, <3>1
  <2>2. ms \in Seq(Message)
    BY <1>1, <1>4, Short
  <2>3. \A i, j \in DOMAIN ms : i + 1 <= j => i \in {1, 2}
    BY <2>1, ShortOnes, Zenon
  <2>4. ms[1] # "PEXPECT_PROMPT" /\ ms[2] # "PEXPECT_PROMPT"
    BY <2>1
  <2> QED
    BY <2>2, <2>3, <2>4, Zenon
<1>5. ASSUME NEW x \in InitialPrompts, ms = <<x>> PROVE "PEXPECT_PROMPT" \notin Range(ms)
  BY <1>1, <1>5, Tuples
<1> QED
  BY <1>2, <1>3, <1>4, <1>5

(* What is read of the lines leaves the last one last.                     *)
LEMMA LinesRead ==
  ASSUME typed \in Seq(Line),
         \A i \in DOMAIN typed : typed[i] \in PromptLines => i = Len(typed),
         typed' \in {typed, <<>>} \/ (typed # <<>> /\ typed' = Tail(typed))
  PROVE  /\ \A i \in DOMAIN typed' : typed'[i] \in PromptLines => i = Len(typed')
         /\ Range(typed') \subseteq Range(typed)
         /\ typed # <<>> => NextLine = typed[1] /\ NextLine \in Range(typed)
         /\ typed # <<>> /\ typed' = Tail(typed) /\ NextLine \in PromptLines => typed' = <<>>
<1>1. DOMAIN typed = 1 .. Len(typed) /\ Len(typed) \in Nat
  OBVIOUS
<1>2. ASSUME typed # <<>>
      PROVE  /\ DOMAIN Tail(typed) = 1 .. Len(typed) - 1 /\ Len(Tail(typed)) = Len(typed) - 1
             /\ \A i \in 1 .. Len(typed) - 1 :
                  Tail(typed)[i] = typed[i + 1] /\ i + 1 \in DOMAIN typed
             /\ Tail(typed) \in Seq(Line)
             /\ 1 \in DOMAIN typed /\ NextLine = typed[1] /\ NextLine \in Range(typed)
  <2>1. NextLine = typed[1] /\ NextLine \in Range(typed) /\ Tail(typed) \in Seq(Line)
    BY <1>2, Typed DEF NextLine
  <2>2. Len(typed) # 0
    BY <1>2, EmptySeq
  <2> QED
    BY <1>1, <1>2, <2>1, <2>2
<1>3. typed' \in {typed, <<>>} => /\ \A i \in DOMAIN typed' : typed'[i] \in PromptLines => i = Len(typed')
                                 /\ Range(typed') \subseteq Range(typed)
  BY ShortOnes, Tuples
<1>4. CASE typed # <<>> /\ typed' = Tail(typed)
  <2>1. ASSUME NEW i \in DOMAIN Tail(typed), Tail(typed)[i] \in PromptLines
        PROVE  i = Len(Tail(typed))
    <3>1. i + 1 = Len(typed)
      BY <1>2, <1>4, <2>1
    <3>2. Len(Tail(typed)) = Len(typed) - 1 /\ i \in 1 .. Len(typed) - 1
      BY <1>2, <1>4, <2>1
    <3> HIDE <2>1, <1>4
    <3> QED
      BY <1>1, <3>1, <3>2
  <2>2. ASSUME NextLine \in PromptLines PROVE Tail(typed) = <<>>
    <3>1. Len(typed) = 1
      BY <1>2, <1>4, <2>2
    <3>2. Len(Tail(typed)) = 0
      BY <1>2, <1>4, <3>1
    <3> QED
      BY <1>2, <1>4, <3>2, EmptySeq
  <2> QED
    BY <1>2, <1>4, <2>1, <2>2, Typed
<1>5. ~(typed # <<>> /\ typed' = Tail(typed)) \/ (typed # <<>> /\ typed' = Tail(typed))
  OBVIOUS
<1> QED
  BY <1>2, <1>3, <1>4, <1>5, Zenon

(* A guest that reads its lines while it boots.                            *)
LEMMA GuestBootPrompt ==
  ASSUME IInv, AtBoot, GuestBoots, PanicGoesOn, Doomed \/ PromptComesLast
  PROVE  PanicGoesOn' /\ PromptComesLast'
<1>1. /\ console \in Seq(Message) /\ typed \in Seq(Line) /\ Types
      /\ ShellIsOurs /\ PanicIsKnown
  BY DEF IInv, Types, BootTypes, Booting
<1>2. /\ pc' = pc /\ config' = config /\ ~Crashed
      /\ \E ms \in Seq(Message) :
           Prints(ms) /\ Range(ms) \cap Panics = {}
  <2>1. pc' = pc /\ config' = config
    BY DEF GuestBoots, runner
  <2> QED
    BY <1>1, <2>1, GuestPrints DEF Crashed
<1>3. PanicGoesOn'
  BY <1>1, <1>2, NoPanicPrinted
<1>4. ~Doomed
  <2>1. ASSUME Doomed PROVE FALSE
    <3>1. Len(console) \in Nat /\ DOMAIN console = 1 .. Len(console)
      BY <1>1
    <3>2. 1 \in DOMAIN console
      BY <1>1, <2>1, <3>1, EmptySeq DEF Doomed
    <3>3. "PANIC_KDB" \in Shown
      BY <2>1, <3>2 DEF Doomed, Shown, Range
    <3> QED
      BY <1>1, <1>2, <3>3, TwoPanics DEF PanicIsKnown
  <2> QED
    BY <2>1
<1>5. PromptComesLast
  BY <1>4
<1>6. ShellIsOurs'
  BY GuestStepBoots, <1>2 DEF Booting, AtBoot
<1>7. CASE ShellLine
  <2>1. typed # <<>> /\ typed' = Tail(typed)
    BY <1>7 DEF ShellLine, NextLine
  <2>2. "PEXPECT_PROMPT" \notin Shown /\ pc # "booted"
    BY <1>5, <2>1 DEF PromptComesLast
  <2>3. /\ \A i \in DOMAIN typed' : typed'[i] \in PromptLines => i = Len(typed')
        /\ Range(typed') \subseteq Range(typed)
        /\ NextLine \in Range(typed)
        /\ NextLine \in PromptLines => typed' = <<>>
    BY <1>1, <1>5, <2>1, LinesRead DEF PromptComesLast
  <2>4. PICK ms \in { <<x>> : x \in InitialPrompts } \cup
                    { <<"PEXPECT_PROMPT">>, <<"DHCPACK", "bound to", "PEXPECT_PROMPT">>,
                      <<"already running", "PEXPECT_PROMPT">>,
                      <<"no interface", "PEXPECT_PROMPT">> } :
          Prints(ms) /\ (NextLine \notin PromptLines => ms \in { <<x>> : x \in InitialPrompts })
    <3>1. CASE NextLine = "enter"
      BY <1>7, <3>1 DEF ShellLine, InitialPrompts, PromptLines
    <3>2. CASE NextLine = "sh"
      BY <1>7, <3>2 DEF ShellLine, InitialPrompts, PromptLines
    <3>3. CASE NextLine = "PS1="
      BY <1>7, <3>3 DEF ShellLine, InitialPrompts, PromptLines
    <3>4. CASE NextLine = "dhclient"
      BY <1>7, <3>4 DEF ShellLine, InitialPrompts, PromptLines
    <3> QED
      BY <1>7, <3>1, <3>2, <3>3, <3>4 DEF ShellLine
  <2>5. /\ ms \in Seq(Message)
        /\ \A i, j \in DOMAIN ms : i + 1 <= j => ms[i] # "PEXPECT_PROMPT"
        /\ ms \in { <<x>> : x \in InitialPrompts } => "PEXPECT_PROMPT" \notin Range(ms)
    BY PromptIsLast
  <2>6. After(1, {"PEXPECT_PROMPT"}, Panics)'
    <3>1. After(1, {"PEXPECT_PROMPT"}, Panics)
      BY <1>5 DEF PromptComesLast
    <3>2. Shown \cap {"PEXPECT_PROMPT"} = {}
      BY <2>2
    <3>3. \A i, j \in DOMAIN ms : i + 1 <= j /\ ms[i] \in {"PEXPECT_PROMPT"} => ms[j] \in Panics
      BY <2>5
    <3> HIDE <1>7, <2>1, <2>2
    <3> QED
      BY <1>1, <2>4, <2>5, <3>1, <3>2, <3>3, PrintedAfter
  <2>7. "PEXPECT_PROMPT" \in Shown' => NextLine \in PromptLines
    BY <1>1, <2>2, <2>4, <2>5, Printed
  <2>8. pc \in BeforePrompt =>
          "PEXPECT_PROMPT" \notin Shown' /\ Range(typed') \cap PromptLines = {}
    BY <1>5, <2>3, <2>7 DEF PromptComesLast
  <2> QED
    BY <1>2, <1>3, <2>2, <2>3, <2>6, <2>7, <2>8 DEF PromptComesLast
<1>8. CASE Firmware \/ Autoboot \/ LoaderCommand \/ MountRoot \/ RunCommands \/ LogIn
  <2>1. /\ typed' \in {typed, <<>>} \/ (typed # <<>> /\ typed' = Tail(typed))
        /\ ownPrompt' = ownPrompt /\ phase # "sh"
    BY <1>8 DEF Firmware, Autoboot, LoaderCommand, MountRoot, RunCommands, LogIn, NextLine
  <2>2. ~ownPrompt /\ "PEXPECT_PROMPT" \notin Shown'
    BY <1>1, <1>2, <1>6, <2>1 DEF ShellIsOurs
  <2>3. After(1, {"PEXPECT_PROMPT"}, Panics)'
    BY <2>2 DEF After, Shown, Range
  <2>4. /\ \A i \in DOMAIN typed' : typed'[i] \in PromptLines => i = Len(typed')
        /\ Range(typed') \subseteq Range(typed)
    BY <1>1, <1>5, <2>1, LinesRead DEF PromptComesLast
  <2>5. pc # "booted"
    BY <1>1, <1>2, <2>2 DEF ShellIsOurs
  <2> QED
    BY <1>2, <1>3, <1>5, <2>2, <2>3, <2>4, <2>5 DEF PromptComesLast
<1> QED
  BY <1>7, <1>8 DEF GuestBoots

(* A guest that crashes while it boots.                                    *)
LEMMA CrashBootPrompt ==
  ASSUME console \in Seq(Message), KernelPanic \/ QemuDies, PanicGoesOn,
         Doomed \/ PromptComesLast
  PROVE  PanicGoesOn' /\ (Doomed' \/ PromptComesLast')
<1>1. OnlyPanics /\ pc' = pc /\ typed' = typed
  BY CrashPrints DEF KernelPanic, QemuDies, runner, tty
<1>2. PanicGoesOn' /\ (Doomed => Doomed') /\ Shown' \subseteq Shown \cup Panics
  BY <1>1 DEF OnlyPanics
<1>3. ASSUME PromptComesLast PROVE PromptComesLast'
  <2>1. "PEXPECT_PROMPT" \notin Panics
    BY TwoPanics
  <2>2. "PEXPECT_PROMPT" \in Shown' => "PEXPECT_PROMPT" \in Shown
    BY <1>2, <2>1
  <2>3. After(1, {"PEXPECT_PROMPT"}, Panics)'
    <3>1. Panics \subseteq Panics /\ {"PEXPECT_PROMPT"} \cap Panics = {} /\ 1 \in {1, 2}
      BY <2>1
    <3>2. After(1, {"PEXPECT_PROMPT"}, Panics)
      BY <1>3 DEF PromptComesLast
    <3> QED
      BY <1>1, <3>1, <3>2 DEF OnlyPanics
  <2> QED
    BY <1>1, <1>2, <1>3, <2>2, <2>3 DEF PromptComesLast
<1> QED
  BY <1>2, <1>3

-----------------------------------------------------------------------------
(* The guest's steps, once the script has a shell.                         *)

(* A script past the boot that has not ended is at a command.              *)
LEMMA WhereTheScriptIs ==
  ASSUME IInv, ~AtBoot, StillRuns
  PROVE  pc \in Commands \cup {"exitcode", "poweroff"}
<1>1. pc \in BootPoints \cup {"booted", "exit 1"} \cup Mounting \cup Testing
  BY DEF IInv, Types, ScriptTypes
<1> QED
  BY <1>1 DEF AtBoot, StillRuns, Mounting, Testing, InTest, Commands, Checked, Plain

(* A queue of one command.                                                 *)
LEMMA OneCommand ==
  ASSUME NEW c, commands = <<c>>
  PROVE  Head(commands) = c /\ Tail(commands) = <<>> /\ commands # <<>>
OBVIOUS

(* A command that is executed is the one that the script is at.            *)
LEMMA StartsCurrent ==
  ASSUME IInv, InStep, ShellStarts, StillRuns
  PROVE  pc \in Commands /\ wait = "answer" /\ commands = <<Current>> /\ ~AtBoot
<1>1. /\ commands # <<>> /\ commands' = Tail(commands) /\ Head(commands).name \in Commands
      /\ ShellTypes /\ ~AtBoot
  BY DEF ShellStarts, IInv, Types, NothingToDo
<1>2. pc \in Commands \cup {"exitcode", "poweroff"}
  BY <1>1, WhereTheScriptIs
<1>3. "exitcode" \notin Commands /\ "poweroff" \notin Commands
  BY DEF Commands, Checked, Plain
<1>4. pc # "poweroff"
  <2>1. Head(commands) = commands[1] /\ 1 \in DOMAIN commands
    BY <1>1, FirstCommand
  <2>2. pc = "poweroff" => \A i \in DOMAIN commands : commands[i].name = "poweroff"
    BY DEF InStep
  <2> QED
    BY <1>1, <1>3, <2>1, <2>2, Zenon
<1>5. commands = <<Current>> => Head(commands).name = pc
  BY OneCommand DEF Current
<1>6. pc # "exitcode"
  <2>1. pc = "exitcode" => commands = <<Current>>
    BY <1>1 DEF InStep, Quiet, PlainInStep
  <2> QED
    BY <1>1, <1>3, <1>5, <2>1
<1>7. pc \in Commands /\ CommandInStep
  BY <1>2, <1>4, <1>6 DEF InStep
<1>8. wait \in {"send", "answer", "prompt", "drain", "ended"}
  BY DEF IInv, Types, ScriptTypes
<1>9. wait = "answer"
  BY <1>1, <1>7, <1>8 DEF CommandInStep, Succeeded, Failed, Quiet
<1>10. commands = <<Current>>
  <2>1. IF pc \in Checked THEN CheckedInStep ELSE PlainInStep
    BY <1>7, <1>9 DEF CommandInStep
  <2> QED
    BY <1>1, <2>1 DEF CheckedInStep, PlainInStep
<1> QED
  BY <1>1, <1>7, <1>9, <1>10

(* What a command that is executed does to the mounts and the results.     *)
LEMMA EffectIsDone ==
  ASSUME ShellTypes, ScriptTypes, pc \in Commands, dir' = dir, pc' = pc, test' = test,
         pc \in Testing => dir = NumDirs + 1,
         \A d \in Dirs : d < dir => mounts[d] # <<>>,
         NEW ok \in BOOLEAN,
         Effect([name |-> pc, dir |-> dir, test |-> test, ok |-> ok])
  PROVE  /\ \A d \in Dirs : d < dir => mounts'[d] # <<>>
         /\ ok => Done'
         /\ delivered \subseteq delivered'
<1>1. /\ dir \in 1 .. NumDirs + 1 /\ mounts \in [Dirs -> Seq({"p9fs", "smbfs"})]
      /\ pc \in Mounting => dir <= NumDirs
      /\ NumDirs \in Nat \ {0} /\ Dirs = 1 .. NumDirs
  BY SessionAssumption DEF ScriptTypes, ShellTypes, Dirs, SessionAssumption
<1>2. /\ mounts' =
           CASE ok /\ pc \in {"p9fs", "smbfs"} -> [mounts EXCEPT ![dir] = Append(@, pc)]
             [] ok /\ pc = "umount" /\ mounts[dir] # <<>> ->
                  [mounts EXCEPT ![dir] = SubSeq(@, 1, Len(@) - 1)]
             [] OTHER -> mounts
      /\ delivered' = IF pc = "mv" /\ ok /\ mounts[ResultsDir] # <<>>
                      THEN delivered \cup {test}
                      ELSE delivered
  BY DEF Effect
<1>3. \A d \in Dirs : d # dir => mounts'[d] = mounts[d]
  BY <1>1, <1>2
<1>4. \A d \in Dirs : d < dir => mounts'[d] # <<>>
  <2>1. \A d \in Dirs : d < dir => d # dir
    BY <1>1
  <2> QED
    BY <1>3, <2>1
<1>5. ok /\ pc = "smbfs" => mounts'[dir] # <<>>
  <2> SUFFICES ASSUME ok, pc = "smbfs" PROVE mounts'[dir] # <<>>
    OBVIOUS
  <2>1. pc \in Mounting
    BY DEF Mounting
  <2>2. dir \in Dirs
    <3> HIDE <1>2
    <3>1. dir <= NumDirs
      BY <1>1, <2>1
    <3> QED
      BY <1>1, <3>1
  <2>3. mounts' = [mounts EXCEPT ![dir] = Append(@, pc)]
    BY <1>2
  <2>4. mounts'[dir] = Append(mounts[dir], pc) /\ mounts[dir] \in Seq({"p9fs", "smbfs"})
    BY <1>1, <2>2, <2>3
  <2>5. Append(mounts[dir], pc) # <<>>
    BY <2>4, AppendProperties
  <2> QED
    BY <2>4, <2>5
<1>6. ok /\ pc = "mv" => test' \in delivered'
  <2> SUFFICES ASSUME ok, pc = "mv" PROVE test' \in delivered'
    OBVIOUS
  <2>1. dir = NumDirs + 1
    BY DEF Testing, InTest
  <2>2. NumDirs \in Dirs /\ NumDirs < dir
    <3> HIDE <1>2
    <3> QED
      BY <1>1, <2>1
  <2>3. mounts[ResultsDir] # <<>>
    BY <2>2 DEF ResultsDir
  <2> QED
    BY <1>2, <2>3
<1>7. delivered \subseteq delivered'
  BY <1>2
<1> QED
  BY <1>4, <1>5, <1>6, <1>7 DEF Done

(* A command starts, and may complain.                                     *)
LEMMA ShellStartsInStep ==
  ASSUME IInv, InStep, ShellStarts, StillRuns
  PROVE  InStep'
<1>1. /\ console \in Seq(Message) /\ ShellTypes /\ ScriptTypes
      /\ pc \in Commands /\ wait = "answer" /\ commands = <<Current>>
  BY StartsCurrent DEF IInv, Types, BootTypes
<1>2. /\ pc' = pc /\ wait' = wait /\ outcome' = outcome /\ dir' = dir /\ canUseSmb' = canUseSmb
      /\ typed' = typed /\ phase' = phase /\ running = Idle /\ commands' = <<>>
      /\ test' = test
  BY <1>1, OneCommand DEF ShellStarts, runner, script, mounting, testing
<1>3. /\ Current.name = pc /\ Current.dir = dir /\ Current.test = test
      /\ Head(commands) = Current
  BY <1>1, OneCommand DEF Current
<1>4. PICK ok \in BOOLEAN, ms \in {<<>>, <<"CHERI_TRAP">>, <<"unable to open connection">>} :
        /\ running' = [name |-> pc, dir |-> dir, test |-> test, ok |-> ok]
        /\ Prints(ms) /\ (ms # <<>> => ~ok)
  BY <1>3 DEF ShellStarts
<1>5. Effect([name |-> pc, dir |-> dir, test |-> test, ok |-> ok])
  BY <1>4 DEF ShellStarts
<1>6. /\ \A d \in Dirs : d < dir => mounts'[d] # <<>>
      /\ ok => Done'
      /\ \A t \in Tests : t < test => t \in delivered'
      /\ pc = "fsync" => test \in delivered'
      /\ canUseSmb /\ pc # "pwd" /\ typed = <<>> /\ (phase \in {"sh", "halted"} \/ Crashed)
      /\ pc \in Testing => dir = NumDirs + 1
      /\ pc \notin {"exitcode", "poweroff", "exit 0"}
      /\ IF pc \in Checked THEN Calm ELSE PlainInStep
  <2>1. /\ \A d \in Dirs : d < dir => mounts[d] # <<>>
        /\ canUseSmb /\ pc # "pwd" /\ typed = <<>> /\ (phase \in {"sh", "halted"} \/ Crashed)
        /\ pc \in Testing => dir = NumDirs + 1
        /\ CommandInStep
        /\ \A t \in Tests : t < test => t \in delivered
        /\ pc = "fsync" => test \in delivered
    BY <1>1 DEF InStep
  <2>2. pc \notin {"exitcode", "poweroff", "exit 0"}
    BY <1>1 DEF Commands, Checked, Plain
  <2>3. IF pc \in Checked THEN Calm ELSE PlainInStep
    <3>1. commands # <<>>
      BY <1>1, OneCommand
    <3> QED
      BY <1>1, <2>1, <3>1 DEF CommandInStep, CheckedInStep
  <2>4. /\ \A d \in Dirs : d < dir => mounts'[d] # <<>>
        /\ ok => Done'
        /\ delivered \subseteq delivered'
    BY <1>1, <1>2, <1>5, <2>1, EffectIsDone
  <2> QED
    BY <2>1, <2>2, <2>3, <2>4
<1>7. running'.name = pc /\ running'.ok = ok
  BY <1>4
<1>8. /\ ms \in Seq(Message) /\ Range(ms) \subseteq Complaints
      /\ Range(ms) # {} => ~ok
      /\ \A i, j \in DOMAIN ms : ~(i + 1 <= j)
  <2>1. "CHERI_TRAP" \in Message /\ "unable to open connection" \in Message
    BY Output DEF BootOutput, SessionOutput
  <2>2. CASE ms = <<>>
    <3>1. DOMAIN ms = {} /\ Range(ms) = {}
      BY <2>2, ShortOnes, Tuples
    <3> QED
      BY <2>2, <3>1
  <2>3. ASSUME NEW x \in {"CHERI_TRAP", "unable to open connection"}, ms = <<x>>
        PROVE  /\ ms \in Seq(Message) /\ Range(ms) \subseteq Complaints /\ ms # <<>>
               /\ \A i, j \in DOMAIN ms : ~(i + 1 <= j)
    <3>1. Range(ms) = {x} /\ x \in Complaints /\ ms # <<>>
      BY <2>3, Tuples DEF Complaints
    <3>2. \A i, j \in DOMAIN ms : ~(i + 1 <= j)
      <4>1. DOMAIN ms = {1}
        BY <2>3, ShortOnes, Zenon
      <4>2. \A i, j \in {1} : ~(i + 1 <= j)
        BY ShortOnes, Zenon
      <4> QED
        BY <4>1, <4>2, Zenon
    <3>3. ms \in Seq(Message)
      BY <2>1, <2>3, Short
    <3> QED
      BY <3>1, <3>2, <3>3
  <2> QED
    BY <1>4, <2>2, <2>3
<1>9. Shown' = Shown \cup Range(ms)
  BY <1>1, <1>4, <1>8, Printed
<1>10. CASE pc \in Checked
  <2>1. Calm
    BY <1>6, <1>10
  <2>2. /\ Shown \subseteq {"__COMMAND FAILED__", "PEXPECT_PROMPT"} \cup Panics
        /\ pc \notin Retrying => Shown \subseteq Panics
    BY <2>1 DEF Calm, FailureOnly
  <2>3. /\ "__COMMAND SUCCESSFUL__" \notin Shown' /\ Shown \cap Complaints = {}
        /\ pc \notin Retrying => "__COMMAND FAILED__" \notin Shown'
        /\ Shown' \subseteq Answers \cup Complaints \cup Panics
    BY <1>8, <1>9, <2>2, OtherThanPanics DEF Answers
  <2>4. Shown' \cap Complaints # {} => ~ok
    BY <1>8, <1>9, <2>3
  <2>5. /\ After(1, {"__COMMAND SUCCESSFUL__"}, {"PEXPECT_PROMPT"} \cup Panics)'
        /\ After(2, {"__COMMAND SUCCESSFUL__"}, Panics)'
        /\ pc \notin Retrying =>
             After(1, {"__COMMAND FAILED__"}, {"PEXPECT_PROMPT"} \cup Panics)'
    BY <2>3 DEF After, Shown, Range
  <2>6. After(1, Complaints, {"__COMMAND FAILED__", "PEXPECT_PROMPT"} \cup Panics)'
    <3>1. After(1, Complaints, {"__COMMAND FAILED__", "PEXPECT_PROMPT"} \cup Panics)
      BY <2>3, NoneShown
    <3> QED
      BY <1>1, <1>4, <1>8, <2>3, <3>1, PrintedAfter
  <2>7. Executed'
    BY <1>2, <1>6, <1>7, <2>3, <2>4, <2>5, <2>6 DEF Executed
  <2>8. CommandInStep'
    BY <1>1, <1>2, <1>10, <2>7 DEF CommandInStep, CheckedInStep
  <2> QED
    BY <1>1, <1>2, <1>6, <2>8 DEF InStep, Crashed
<1>11. CASE pc \notin Checked
  <2>1. pc \in Plain /\ PlainInStep
    BY <1>1, <1>6, <1>11 DEF Commands
  <2>2. "PEXPECT_PROMPT" \notin Shown
    <3>1. commands # <<>>
      BY <1>1, OneCommand
    <3> QED
      BY <2>1, <3>1 DEF PlainInStep
  <2>3. "PEXPECT_PROMPT" \notin Shown'
    BY <1>8, <1>9, <2>2, OtherThanPanics
  <2>4. After(1, {"PEXPECT_PROMPT"}, Panics)'
    BY <2>3 DEF After, Shown, Range
  <2>5. PlainInStep'
    BY <1>2, <1>7, <2>1, <2>3, <2>4 DEF PlainInStep
  <2>6. CommandInStep'
    BY <1>1, <1>2, <1>11, <2>5 DEF CommandInStep
  <2> QED
    BY <1>1, <1>2, <1>6, <2>6 DEF InStep, Crashed
<1> QED
  BY <1>10, <1>11

(* What the answer of a command holds.                                     *)
LEMMA AnswerIs ==
  ASSUME NEW name, NEW ok \in BOOLEAN, NEW c, c.name = name, c.ok = ok
  PROVE  /\ Answer(c) \in Seq(Message)
         /\ name \in Checked /\ ok => Range(Answer(c)) = {"__COMMAND SUCCESSFUL__", "PEXPECT_PROMPT"}
         /\ name \in Checked /\ ~ok => Range(Answer(c)) = {"__COMMAND FAILED__", "PEXPECT_PROMPT"}
         /\ name \notin Checked => Range(Answer(c)) = {"PEXPECT_PROMPT"}
         /\ \A i, j \in DOMAIN Answer(c) :
              /\ i + 1 <= j => Answer(c)[j] = "PEXPECT_PROMPT" /\ Answer(c)[i] # "PEXPECT_PROMPT"
              /\ ~(i + 2 <= j)
<1>1. {"__COMMAND SUCCESSFUL__", "__COMMAND FAILED__", "PEXPECT_PROMPT"} \subseteq Message
  BY Output DEF BootOutput, SessionOutput
<1>2. ASSUME NEW x \in {"__COMMAND SUCCESSFUL__", "__COMMAND FAILED__"}, NEW ms,
             ms = <<x, "PEXPECT_PROMPT">>
      PROVE  /\ ms \in Seq(Message) /\ Range(ms) = {x, "PEXPECT_PROMPT"}
             /\ \A i, j \in DOMAIN ms :
                  /\ i + 1 <= j => ms[j] = "PEXPECT_PROMPT" /\ ms[i] # "PEXPECT_PROMPT"
                  /\ ~(i + 2 <= j)
  <2>1. ms \in Seq(Message) /\ Range(ms) = {x, "PEXPECT_PROMPT"}
    BY <1>1, <1>2, Short, Tuples
  <2>2. DOMAIN ms = 1 .. 2 /\ ms[1] = x /\ ms[2] = "PEXPECT_PROMPT" /\ x # "PEXPECT_PROMPT"
    BY <1>2, ShortOnes, Zenon
  <2>3. \A i, j \in 1 .. 2 : (i + 1 <= j => i = 1 /\ j = 2) /\ ~(i + 2 <= j)
    BY ShortOnes, Zenon
  <2> QED
    BY <2>1, <2>2, <2>3, Zenon
<1>3. ASSUME NEW ms, ms = <<"PEXPECT_PROMPT">>
      PROVE  /\ ms \in Seq(Message) /\ Range(ms) = {"PEXPECT_PROMPT"}
             /\ \A i, j \in DOMAIN ms : ~(i + 1 <= j) /\ ~(i + 2 <= j)
  <2>1. ms \in Seq(Message) /\ Range(ms) = {"PEXPECT_PROMPT"}
    BY <1>1, <1>3, Short, Tuples
  <2>2. DOMAIN ms = {1}
    BY <1>3, ShortOnes, Zenon
  <2>3. \A i, j \in {1} : ~(i + 1 <= j) /\ ~(i + 2 <= j)
    BY ShortOnes, Zenon
  <2> QED
    BY <2>1, <2>2, <2>3, Zenon
<1>4. Answer(c) = IF name \in Checked
                  THEN <<IF ok THEN "__COMMAND SUCCESSFUL__" ELSE "__COMMAND FAILED__",
                         "PEXPECT_PROMPT">>
                  ELSE <<"PEXPECT_PROMPT">>
  BY DEF Answer
<1> DEFINE ms == Answer(c)
<1>5. CASE name \in Checked /\ ok
  <2>1. ms = <<"__COMMAND SUCCESSFUL__", "PEXPECT_PROMPT">>
    BY <1>4, <1>5
  <2> HIDE DEF ms
  <2>2. /\ ms \in Seq(Message) /\ Range(ms) = {"__COMMAND SUCCESSFUL__", "PEXPECT_PROMPT"}
        /\ \A i, j \in DOMAIN ms :
             /\ i + 1 <= j => ms[j] = "PEXPECT_PROMPT" /\ ms[i] # "PEXPECT_PROMPT"
             /\ ~(i + 2 <= j)
    BY <1>2, <2>1
  <2> QED
    BY <1>5, <2>2, Zenon DEF ms
<1>6. CASE name \in Checked /\ ~ok
  <2>1. ms = <<"__COMMAND FAILED__", "PEXPECT_PROMPT">>
    BY <1>4, <1>6
  <2> HIDE DEF ms
  <2>2. /\ ms \in Seq(Message) /\ Range(ms) = {"__COMMAND FAILED__", "PEXPECT_PROMPT"}
        /\ \A i, j \in DOMAIN ms :
             /\ i + 1 <= j => ms[j] = "PEXPECT_PROMPT" /\ ms[i] # "PEXPECT_PROMPT"
             /\ ~(i + 2 <= j)
    BY <1>2, <2>1
  <2> QED
    BY <1>6, <2>2, Zenon DEF ms
<1>7. CASE name \notin Checked
  <2>1. ms = <<"PEXPECT_PROMPT">>
    BY <1>4, <1>7
  <2> HIDE DEF ms
  <2>2. /\ ms \in Seq(Message) /\ Range(ms) = {"PEXPECT_PROMPT"}
        /\ \A i, j \in DOMAIN ms : ~(i + 1 <= j) /\ ~(i + 2 <= j)
    BY <1>3, <2>1
  <2> QED
    BY <1>7, <2>2, Zenon DEF ms
<1> QED
  BY <1>5, <1>6, <1>7

(* A command ends, with an answer.                                         *)
LEMMA ShellEndsInStep ==
  ASSUME IInv, InStep, ShellEnds, StillRuns
  PROVE  InStep'
<1>1. /\ console \in Seq(Message) /\ ShellTypes /\ ~AtBoot
      /\ running # Idle /\ running' = Idle /\ Prints(Answer(running))
  BY DEF IInv, Types, BootTypes, ShellEnds, NothingToDo
<1>2. /\ pc' = pc /\ wait' = wait /\ outcome' = outcome /\ dir' = dir /\ canUseSmb' = canUseSmb
      /\ typed' = typed /\ phase' = phase /\ commands' = commands
      /\ mounts' = mounts /\ delivered' = delivered /\ test' = test
  BY DEF ShellEnds, runner, script, mounting, testing
<1>3. pc \in Commands \cup {"exitcode", "poweroff"}
  BY <1>1, WhereTheScriptIs
<1>4. PICK ms : ms = Answer(running)
  OBVIOUS
<1>5. /\ ms \in Seq(Message) /\ Prints(ms)
      /\ running.name \in Checked /\ running.ok =>
           Range(ms) = {"__COMMAND SUCCESSFUL__", "PEXPECT_PROMPT"}
      /\ running.name \in Checked /\ ~running.ok =>
           Range(ms) = {"__COMMAND FAILED__", "PEXPECT_PROMPT"}
      /\ running.name \notin Checked => Range(ms) = {"PEXPECT_PROMPT"}
      /\ \A i, j \in DOMAIN ms :
           /\ i + 1 <= j => ms[j] = "PEXPECT_PROMPT" /\ ms[i] # "PEXPECT_PROMPT"
           /\ ~(i + 2 <= j)
  <2>1. running.ok \in BOOLEAN
    BY <1>1 DEF ShellTypes
  <2> QED
    BY <1>1, <1>4, <2>1, AnswerIs
<1>6. Shown' = Shown \cup Range(ms)
  BY <1>1, <1>5, Printed
<1>7. Done => Done'
  BY <1>2 DEF Done
<1>8. ASSUME FailureOnly PROVE FailureOnly'
  <2>1. Range(ms) = {"__COMMAND FAILED__", "PEXPECT_PROMPT"}
    BY <1>1, <1>5, <1>8 DEF FailureOnly
  <2>2. Shown \subseteq {"__COMMAND FAILED__", "PEXPECT_PROMPT"} \cup Panics
    BY <1>8 DEF FailureOnly
  <2> QED
    BY <1>1, <1>6, <2>1, <2>2 DEF FailureOnly
<1>9. ASSUME PlainInStep PROVE PlainInStep'
  <2>1. /\ running.name \in Plain /\ commands = <<>> /\ "PEXPECT_PROMPT" \notin Shown
        /\ After(1, {"PEXPECT_PROMPT"}, Panics)
    BY <1>1, <1>9 DEF PlainInStep
  <2>2. \A i, j \in DOMAIN ms : i + 1 <= j /\ ms[i] \in {"PEXPECT_PROMPT"} => ms[j] \in Panics
    BY <1>5
  <2>3. After(1, {"PEXPECT_PROMPT"}, Panics)'
    <3>1. Shown \cap {"PEXPECT_PROMPT"} = {}
      BY <2>1
    <3> QED
      BY <1>1, <1>5, <2>1, <2>2, <3>1, PrintedAfter
  <2> QED
    BY <1>1, <1>2, <2>1, <2>3 DEF PlainInStep
<1>10. ASSUME pc \in Checked, Executed PROVE Executed'
  <2>1. /\ running.name = pc /\ (running.ok => Done)
        /\ "__COMMAND SUCCESSFUL__" \notin Shown
        /\ pc \notin Retrying => "__COMMAND FAILED__" \notin Shown
        /\ Shown \cap Complaints # {} => ~running.ok
        /\ Shown \subseteq Answers \cup Complaints \cup Panics
        /\ After(1, {"__COMMAND SUCCESSFUL__"}, {"PEXPECT_PROMPT"} \cup Panics)
        /\ After(2, {"__COMMAND SUCCESSFUL__"}, Panics)
        /\ After(1, Complaints, {"__COMMAND FAILED__", "PEXPECT_PROMPT"} \cup Panics)
        /\ pc \notin Retrying =>
             After(1, {"__COMMAND FAILED__"}, {"PEXPECT_PROMPT"} \cup Panics)
    BY <1>1, <1>10 DEF Executed
  <2>2. /\ "__COMMAND SUCCESSFUL__" \in Shown' => running.ok
        /\ Shown' \subseteq Answers \cup Complaints \cup Panics
    BY <1>5, <1>6, <1>10, <2>1 DEF Answers
  <2>3. /\ \A i, j \in DOMAIN ms : i + 1 <= j => ms[j] \in {"PEXPECT_PROMPT"} \cup Panics
        /\ \A i, j \in DOMAIN ms : i + 1 <= j =>
             ms[j] \in {"__COMMAND FAILED__", "PEXPECT_PROMPT"} \cup Panics
        /\ \A i, j \in DOMAIN ms : ~(i + 2 <= j)
    BY <1>5
  <2>4. Shown \cap {"__COMMAND SUCCESSFUL__"} = {}
    BY <2>1
  <2>5. After(1, {"__COMMAND SUCCESSFUL__"}, {"PEXPECT_PROMPT"} \cup Panics)'
    BY <1>1, <1>5, <2>1, <2>3, <2>4, PrintedAfter
  <2>6. After(2, {"__COMMAND SUCCESSFUL__"}, Panics)'
    BY <1>1, <1>5, <2>1, <2>3, <2>4, PrintedAfter
  <2>7. After(1, Complaints, {"__COMMAND FAILED__", "PEXPECT_PROMPT"} \cup Panics)'
    <3>1. Shown \cap Complaints = {}
          \/ Range(ms) \subseteq {"__COMMAND FAILED__", "PEXPECT_PROMPT"} \cup Panics
      BY <1>5, <1>10, <2>1
    <3> QED
      BY <1>1, <1>5, <2>1, <2>3, <3>1, PrintedAfter
  <2>8. ASSUME pc \notin Retrying
        PROVE  After(1, {"__COMMAND FAILED__"}, {"PEXPECT_PROMPT"} \cup Panics)'
    <3>1. Shown \cap {"__COMMAND FAILED__"} = {}
          /\ After(1, {"__COMMAND FAILED__"}, {"PEXPECT_PROMPT"} \cup Panics)
      BY <2>1, <2>8
    <3> QED
      BY <1>1, <1>5, <2>3, <3>1, PrintedAfter
  <2> QED
    BY <1>1, <1>2, <1>7, <2>1, <2>2, <2>5, <2>6, <2>7, <2>8 DEF Executed
<1>11. ASSUME Calm PROVE Calm'
  <2>1. pc \in Retrying /\ FailureOnly
    BY <1>1, <1>11 DEF Calm
  <2> QED
    BY <1>2, <1>8, <2>1 DEF Calm
<1>12. Current' = Current
  BY <1>2 DEF Current
<1>13. ASSUME pc \in Commands, CommandInStep PROVE CommandInStep'
  <2>1. wait \in {"send", "answer", "prompt", "drain", "ended"}
    BY DEF IInv, Types, ScriptTypes
  <2>2. CASE wait = "send"
    BY <1>2, <1>11, <1>13, <2>2 DEF CommandInStep
  <2>3. CASE wait = "answer"
    <3>1. pc \in Checked => CheckedInStep'
      <4>1. pc \in Checked => CheckedInStep
        BY <1>13, <2>3 DEF CommandInStep
      <4> QED
        BY <1>2, <1>10, <1>11, <1>12, <4>1 DEF CheckedInStep
    <3>2. pc \notin Checked => PlainInStep'
      BY <1>9, <1>13, <2>3 DEF CommandInStep
    <3> QED
      BY <1>2, <2>3, <3>1, <3>2 DEF CommandInStep
  <2>4. CASE wait = "prompt"
    BY <1>1, <1>13, <2>4 DEF CommandInStep, Succeeded
  <2>5. CASE wait = "drain"
    BY <1>2, <1>8, <1>13, <2>5 DEF CommandInStep, Failed
  <2>6. CASE wait = "ended"
    BY <1>1, <1>2, <1>8, <1>13, <2>6 DEF CommandInStep, Failed, Quiet
  <2> QED
    BY <2>1, <2>2, <2>3, <2>4, <2>5, <2>6
<1>14. pc = "exitcode" => IF wait' = "send" THEN Quiet' ELSE PlainInStep'
  <2>1. pc = "exitcode" => wait # "send" /\ PlainInStep
    BY <1>1 DEF InStep, Quiet
  <2> QED
    BY <1>2, <1>9, <2>1
<1>15. pc # "poweroff"
  BY <1>1 DEF InStep
<1>16. pc \in Commands => CommandInStep'
  BY <1>13 DEF InStep
<1> QED
  BY <1>2, <1>14, <1>15, <1>16 DEF InStep, Crashed

(* The shell says what the exit code is, or ends.                          *)
LEMMA ShellBuiltinInStep ==
  ASSUME IInv, InStep, ShellBuiltin, StillRuns
  PROVE  InStep'
<1>1. /\ console \in Seq(Message) /\ ShellTypes /\ ~AtBoot
      /\ commands # <<>> /\ running = Idle /\ commands' = Tail(commands)
      /\ Head(commands).name \in {"exitcode", "poweroff"}
  BY DEF IInv, Types, BootTypes, ShellBuiltin, NothingToDo
<1>2. /\ pc' = pc /\ wait' = wait /\ outcome' = outcome /\ dir' = dir /\ canUseSmb' = canUseSmb
      /\ typed' = typed /\ phase' \in {"sh", "halted"} /\ running' = running
      /\ mounts' = mounts /\ delivered' = delivered /\ test' = test
  BY DEF ShellBuiltin, runner, script, mounting, testing, shell
<1>3. pc \in Commands \cup {"exitcode", "poweroff"}
  BY <1>1, WhereTheScriptIs
<1>4. commands = <<Current>> => Head(commands).name = pc /\ commands' = <<>>
  BY <1>1, OneCommand DEF Current
<1>5. pc \notin Commands
  <2>1. wait \in {"send", "answer", "prompt", "drain", "ended"}
    BY DEF IInv, Types, ScriptTypes
  <2>2. ASSUME pc \in Commands PROVE commands = <<Current>>
    <3>1. CommandInStep
      BY <2>2 DEF InStep
    <3>2. wait = "answer"
      BY <1>1, <2>1, <3>1 DEF CommandInStep, Succeeded, Failed, Quiet
    <3> QED
      BY <1>1, <3>1, <3>2 DEF CommandInStep, CheckedInStep, PlainInStep
  <2>3. "exitcode" \notin Commands /\ "poweroff" \notin Commands
    BY DEF Commands, Checked, Plain
  <2> QED
    BY <1>1, <1>4, <2>2, <2>3
<1>6. CASE pc = "exitcode"
  <2>1. wait # "send" /\ PlainInStep /\ commands = <<Current>>
    BY <1>1, <1>6 DEF InStep, Quiet, PlainInStep
  <2>2. Head(commands).name = "exitcode" /\ commands' = <<>>
    BY <1>4, <1>6, <2>1
  <2>3. PICK ms : ms = <<ExitCode(lastStatus), "PEXPECT_PROMPT">>
    OBVIOUS
  <2>4. Prints(ms)
    BY <2>2, <2>3 DEF ShellBuiltin
  <2>5. PICK x : x = ExitCode(lastStatus)
    OBVIOUS
  <2>6. ms = <<x, "PEXPECT_PROMPT">> /\ x \in Message /\ "PEXPECT_PROMPT" \in Message
        /\ x # "PEXPECT_PROMPT"
    BY <2>3, <2>5, Output DEF ExitCode, BootOutput, SessionOutput
  <2>7. ms \in Seq(Message)
    BY <2>6, Short
  <2>8. \A i, j \in DOMAIN ms : i + 1 <= j => ms[i] # "PEXPECT_PROMPT"
    <3>1. DOMAIN ms = 1 .. 2 /\ ms[1] = x
      BY <2>6, ShortOnes, Zenon
    <3>2. \A i, j \in 1 .. 2 : i + 1 <= j => i = 1
      BY ShortOnes, Zenon
    <3> QED
      BY <2>6, <3>1, <3>2, Zenon
  <2>9. After(1, {"PEXPECT_PROMPT"}, Panics)'
    <3>1. "PEXPECT_PROMPT" \notin Shown /\ After(1, {"PEXPECT_PROMPT"}, Panics)
      BY <1>1, <2>1 DEF PlainInStep
    <3>2. Shown \cap {"PEXPECT_PROMPT"} = {}
      BY <3>1
    <3>3. \A i, j \in DOMAIN ms : i + 1 <= j /\ ms[i] \in {"PEXPECT_PROMPT"} => ms[j] \in Panics
      BY <2>8
    <3> QED
      BY <1>1, <2>4, <2>7, <3>1, <3>2, <3>3, PrintedAfter
  <2>10. PlainInStep'
    BY <1>1, <1>2, <2>2, <2>9 DEF PlainInStep
  <2> QED
    BY <1>2, <1>5, <1>6, <2>1, <2>10 DEF InStep
<1>7. CASE pc = "poweroff"
  <2>1. \A i \in DOMAIN commands' : commands'[i].name = "poweroff"
    <3>1. \A i \in DOMAIN commands' :
            i + 1 \in DOMAIN commands /\ commands'[i] = commands[i + 1]
      BY <1>1, FirstCommand
    <3>2. \A i \in DOMAIN commands : commands[i].name = "poweroff"
      BY <1>7 DEF InStep
    <3> QED
      BY <3>1, <3>2, Zenon
  <2> QED
    BY <1>1, <1>2, <1>5, <1>7, <2>1 DEF InStep
<1> QED
  BY <1>3, <1>5, <1>6, <1>7

(* The shell does not print what looks like a panic.                       *)
LEMMA ShellPrints ==
  ASSUME Types, ShellStarts \/ ShellEnds \/ ShellBuiltin
  PROVE  \E ms \in Seq(Message) : Prints(ms) /\ Range(ms) \cap Panics = {}
<1>1. /\ {"CHERI_TRAP", "unable to open connection", "Uptime: ", "EXITCODE=0", "EXITCODE=1",
          "Please press any key to reboot.", "PEXPECT_PROMPT", "__COMMAND SUCCESSFUL__",
          "__COMMAND FAILED__"} \subseteq Message \ Panics
  BY Output, TwoPanics DEF BootOutput, SessionOutput
<1>2. ASSUME NEW x \in Message \ Panics
      PROVE  <<x>> \in Seq(Message) /\ Range(<<x>>) \cap Panics = {}
  BY Short, Tuples
<1>3. ASSUME NEW x \in Message \ Panics, NEW y \in Message \ Panics
      PROVE  <<x, y>> \in Seq(Message) /\ Range(<<x, y>>) \cap Panics = {}
  BY Short, Tuples
<1>4. CASE ShellStarts
  <2>1. PICK ms \in {<<>>, <<"CHERI_TRAP">>, <<"unable to open connection">>} : Prints(ms)
    BY <1>4 DEF ShellStarts
  <2>2. <<>> \in Seq(Message) /\ Range(<<>>) \cap Panics = {}
    BY Tuples, EmptySeq, Zenon
  <2>3. ms \in Seq(Message) /\ Range(ms) \cap Panics = {}
    BY <1>1, <1>2, <2>1, <2>2
  <2> QED
    BY <2>1, <2>3
<1>5. CASE ShellEnds
  <2>1. running.ok \in BOOLEAN /\ Prints(Answer(running))
    BY <1>5 DEF ShellEnds, Types, ShellTypes
  <2>2. /\ Answer(running) \in Seq(Message)
        /\ Range(Answer(running)) \subseteq
             {"__COMMAND SUCCESSFUL__", "__COMMAND FAILED__", "PEXPECT_PROMPT"}
    <3> PICK name : name = running.name
      OBVIOUS
    <3> PICK ok \in BOOLEAN : ok = running.ok
      BY <2>1
    <3>1. /\ Answer(running) \in Seq(Message)
          /\ name \in Checked /\ ok =>
               Range(Answer(running)) = {"__COMMAND SUCCESSFUL__", "PEXPECT_PROMPT"}
          /\ name \in Checked /\ ~ok =>
               Range(Answer(running)) = {"__COMMAND FAILED__", "PEXPECT_PROMPT"}
          /\ name \notin Checked => Range(Answer(running)) = {"PEXPECT_PROMPT"}
      BY AnswerIs
    <3> QED
      BY <3>1
  <2> QED
    BY <1>1, <2>1, <2>2
<1>6. CASE ShellBuiltin
  <2>1. PICK x \in Message \ Panics, y \in Message \ Panics : Prints(<<x, y>>)
    BY <1>1, <1>6 DEF ShellBuiltin, ExitCode
  <2> QED
    BY <1>3, <2>1
<1> QED
  BY <1>4, <1>5, <1>6

(* A panic that has been printed, and is next.                             *)
LEMMA DoomedCrashed ==
  ASSUME console \in Seq(Message), PanicIsKnown, Doomed
  PROVE  Crashed
<1>1. Len(console) \in Nat /\ DOMAIN console = 1 .. Len(console)
  OBVIOUS
<1>2. 1 \in DOMAIN console
  BY <1>1, EmptySeq DEF Doomed
<1>3. "PANIC_KDB" \in Shown
  BY <1>2 DEF Doomed, Shown, Range
<1> QED
  BY <1>3, TwoPanics DEF PanicIsKnown

(* Every step of the guest.                                                *)
LEMMA GuestInStep ==
  ASSUME IInv, StepInv, GuestWorks
  PROVE  StepInv'
<1>1. /\ StillRuns /\ pc' = pc /\ wait' = wait /\ outcome' = outcome
      /\ dir' = dir /\ canUseSmb' = canUseSmb /\ gaveUp' = gaveUp
      /\ testsSuccessful' = testsSuccessful /\ sharedMountFailed' = sharedMountFailed
  <2>1. StillRuns /\ pc' = pc /\ UNCHANGED script /\ gaveUp' = gaveUp
    BY DEF GuestWorks, StillRuns, ShellStarts, ShellEnds, ShellBuiltin, GuestBoots,
           KernelPanic, QemuDies, sessionVars, runner
  <2> QED
    BY <2>1 DEF script, mounting, testing
<1>2. /\ console \in Seq(Message) /\ Types /\ PanicIsKnown /\ PanicGoesOn
      /\ BootInStep /\ ScriptInStep /\ pc # "exit 0"
  BY <1>1 DEF IInv, Types, BootTypes, StepInv, StillRuns
<1>3. (AtBoot' <=> AtBoot) /\ (Trusted' <=> Trusted) /\ (GivesUp' <=> GivesUp)
  <2>1. AtBoot' <=> AtBoot
    BY <1>1 DEF AtBoot
  <2> QED
    BY <1>1, <2>1 DEF Trusted, GivesUp, Recovers
<1>4. CASE ShellStarts \/ ShellEnds \/ ShellBuiltin
  <2>1. PanicGoesOn' /\ (Doomed => Doomed')
    BY <1>2, <1>4, ShellPrints, NoPanicPrinted
  <2>2. ~AtBoot
    <3>1. commands # <<>> \/ running # Idle
      BY <1>4 DEF ShellStarts, ShellEnds, ShellBuiltin
    <3> QED
      BY <3>1 DEF IInv, NothingToDo
  <2>3. InStep => InStep'
    BY <1>1, <1>4, ShellStartsInStep, ShellEndsInStep, ShellBuiltinInStep
  <2> QED
    BY <1>1, <1>2, <1>3, <2>1, <2>2, <2>3 DEF StepInv, BootInStep, ScriptInStep
<1>5. CASE GuestBoots /\ UNCHANGED sessionVars
  <2>1. ~Crashed /\ phase # "halted" /\ ~Doomed
        /\ \E ms \in Seq(Message) : Prints(ms) /\ Range(ms) \cap Panics = {}
    BY <1>2, <1>5, GuestPrints, DoomedCrashed DEF Crashed
  <2>2. PanicGoesOn'
    BY <1>2, <2>1, NoPanicPrinted
  <2>3. AtBoot => PromptComesLast'
    BY <1>2, <1>5, GuestBootPrompt DEF BootInStep
  <2>4. ~InStep
    <3>1. ASSUME InStep PROVE FALSE
      <4>1. phase = "sh" /\ NextLine = ""
        BY <2>1, <3>1 DEF InStep, NextLine
      <4> QED
        BY <1>5, <4>1 DEF GuestBoots, Firmware, Autoboot, LoaderCommand, MountRoot, RunCommands,
                          LogIn, ShellLine
    <3> QED
      BY <3>1
  <2> QED
    BY <1>1, <1>2, <1>3, <2>1, <2>2, <2>3, <2>4 DEF StepInv, BootInStep, ScriptInStep
<1>6. CASE (KernelPanic \/ QemuDies) /\ UNCHANGED sessionVars
  <2>1. OnlyPanics
    BY <1>2, <1>6, CrashPrints
  <2>2. PanicGoesOn' /\ (Doomed => Doomed')
    BY <2>1 DEF OnlyPanics
  <2>3. AtBoot => Doomed' \/ PromptComesLast'
    BY <1>2, <1>6, CrashBootPrompt DEF BootInStep
  <2>4. ShellIsStill /\ Crashed'
    BY <1>6 DEF ShellIsStill, Crashed, KernelPanic, QemuDies, runner, tty, sessionVars, script,
                mounting, testing, shell
  <2>5. InStep => InStep'
    BY <2>1, <2>4, PanicInStep
  <2> QED
    BY <1>1, <1>2, <1>3, <2>2, <2>3, <2>5 DEF StepInv, BootInStep, ScriptInStep
<1> QED
  BY <1>4, <1>5, <1>6 DEF GuestWorks

-----------------------------------------------------------------------------
(* The script's steps.                                                     *)

(* What an expect() leaves of a panic goes on, even if the script does not. *)
LEMMA ConsumeGoesOn ==
  ASSUME console \in Seq(Message), PanicGoesOn, NEW P, Consume(P)
  PROVE  PanicGoesOn'
<1>1. Len(console) \in Nat /\ DOMAIN console = 1 .. Len(console)
  OBVIOUS
<1>2. CASE Matches(P) = {}
  BY <1>2 DEF Consume, PanicGoesOn
<1>3. CASE Matches(P) # {}
  <2> DEFINE first == FirstMatch(P)
  <2>1. Matches(P) \subseteq 1 .. Len(console)
    BY <1>1 DEF Matches
  <2>2. first \in Matches(P)
    <3>1. Matches(P) \subseteq Nat
      BY <2>1
    <3>2. \E n \in Matches(P) : \A k \in Matches(P) : n <= k
      BY <1>3, <3>1, Least
    <3> QED
      BY <3>2 DEF FirstMatch
  <2>3. console' = SubSeq(console, first + 1, Len(console)) /\ first \in 1 .. Len(console)
    BY <1>3, <2>1, <2>2 DEF Consume
  <2> HIDE DEF first
  <2>4. /\ console' \in Seq(Message)
        /\ Len(console') = Len(console) - first
        /\ \A i \in 1 .. Len(console) - first : console'[i] = console[first + i]
    BY <2>3, Suffix
  <2>5. Cut(first)
    <3>1. DOMAIN console' = 1 .. Len(console) - first
      BY <2>4
    <3>2. \A i \in 1 .. Len(console) - first : first + i \in DOMAIN console
      BY <1>1, <2>3
    <3> QED
      BY <1>1, <2>3, <2>4, <3>1, <3>2 DEF Cut
  <2> QED
    BY <2>5, CutPanic
<1> QED
  BY <1>2, <1>3

(* After the boot only this is to be shown.                                *)
LEMMA StaysInStep ==
  ASSUME pc' \in Mounting \cup Testing \cup {"exit 1"}, pc' # "exit 0",
         PanicGoesOn', Trusted' => Doomed' \/ GivesUp' \/ InStep'
  PROVE  StepInv'
<1>1. ~AtBoot'
  BY AfterBoot
<1> QED
  BY <1>1 DEF StepInv, BootInStep, ScriptInStep

(* The script boots, or gives up.                                          *)
LEMMA BootStepInStep ==
  ASSUME IInv, StepInv, BootStep, UNCHANGED sessionVars
  PROVE  StepInv'
<1>1. /\ console \in Seq(Message) /\ PanicGoesOn /\ BootInStep /\ AtBoot
      /\ pc \in BootPoints /\ Consume(Patterns[pc])
  BY DEF IInv, Types, BootTypes, StepInv, BootStep, AtBoot
<1>2. PanicGoesOn'
  BY <1>1, ConsumeGoesOn
<1>3. /\ pc' \in BootPoints \cup {"booted", "exit 1"}
      /\ canUseSmb' = canUseSmb /\ dir' = dir
  BY BootStepMoves DEF sessionVars, script, mounting
<1>4. "exit 0" \notin BootPoints \cup {"booted", "exit 1"}
  BY Places DEF Testing, InTest
<1>5. CASE pc' = "exit 1"
  BY <1>2, <1>5, StaysInStep DEF Trusted
<1>6. CASE pc' # "exit 1"
  <2>1. Doomed' \/ PromptComesLast'
    BY <1>1, <1>6, BootStepPrompt DEF BootInStep
  <2>2. AtBoot'
    BY <1>3, <1>6 DEF AtBoot
  <2> QED
    BY <1>1, <1>2, <1>3, <1>4, <2>1, <2>2 DEF StepInv, BootInStep, ScriptInStep, Trusted
<1> QED
  BY <1>5, <1>6

(* What stays as it is known, when the script alone goes on.               *)
Untouched ==
  /\ console' = console /\ typed' = typed /\ phase' = phase
  /\ commands' = commands /\ running' = running /\ mounts' = mounts
  /\ delivered' = delivered

(* Facts about what the guest has are left alone by the script alone.      *)
LEMMA UntouchedStays ==
  ASSUME Untouched
  PROVE  /\ Shown' = Shown /\ (PanicGoesOn => PanicGoesOn') /\ (Doomed => Doomed')
         /\ (Crashed' <=> Crashed) /\ (Quiet' <=> Quiet) /\ (FailureOnly' <=> FailureOnly)
         /\ \A k, A, B : After(k, A, B)' <=> After(k, A, B)
BY DEF Untouched, Shown, PanicGoesOn, Doomed, Crashed, Quiet, FailureOnly, After

(* The next command is to be sent.                                         *)
LEMMA RunInStep ==
  ASSUME InStep, Untouched, NEW c \in Commands \ {"pwd"}, Run(c), commands = <<>>,
         Quiet \/ (c \in Retrying /\ FailureOnly),
         canUseSmb' = TRUE,
         c \in Testing => dir' = NumDirs + 1,
         \A d \in Dirs : d < dir' => mounts[d] # <<>>,
         \A t \in Tests : t < test' => t \in delivered,
         c = "fsync" => test' \in delivered
  PROVE  InStep'
<1>1. pc' = c /\ wait' = "send" /\ c \notin {"exitcode", "poweroff", "exit 0"}
  BY DEF Run, Commands, Checked, Plain
<1>2. (Quiet' <=> Quiet) /\ (FailureOnly' <=> FailureOnly)
  BY UntouchedStays
<1>3. Quiet' => Calm' /\ FailureOnly'
  BY DEF Quiet, Calm, FailureOnly
<1>4. Calm'
  BY <1>1, <1>2, <1>3 DEF Calm
<1>5. CommandInStep'
  BY <1>1, <1>4 DEF CommandInStep, Untouched
<1> QED
  BY <1>1, <1>5 DEF InStep, Untouched, Crashed

(* The boot is over, and what is there to be read is at most a panic.      *)
LEMMA SetUpInStep ==
  ASSUME IInv, StepInv, SetUp
  PROVE  StepInv'
<1>1. /\ pc = "booted" /\ AtBoot /\ pc' = "mkdir" /\ wait' = "send" /\ Untouched
      /\ dir' = dir /\ canUseSmb' = canUseSmb /\ test' = test
  BY DEF SetUp, AtBoot, Run, Untouched, tty, mounting, testing, shell
<1>2. /\ PanicGoesOn /\ BootInStep /\ ShellIsOurs /\ commands = <<>> /\ running = Idle
      /\ canUseSmb /\ dir = 1 /\ test = 1
  BY <1>1 DEF IInv, StepInv, Booting, NothingToDo, BootInStep, TestsAreCounted, Untested
<1>3. PanicGoesOn' /\ (Doomed => Doomed')
  BY <1>1, <1>2, UntouchedStays
<1>4. pc' \in Mounting /\ pc' \in Commands /\ pc' \notin Testing /\ pc' \notin Retrying
  BY <1>1 DEF Mounting, Commands, Checked, Plain, Testing, InTest, Retrying
<1>5. ASSUME PromptComesLast PROVE InStep'
  <2>1. typed = <<>> /\ Shown \subseteq Panics /\ (phase = "sh" \/ Crashed)
    BY <1>1, <1>2, <1>5 DEF PromptComesLast, ShellIsOurs
  <2>2. typed' = <<>> /\ (phase' = "sh" \/ Crashed') /\ commands' = <<>>
    BY <1>1, <1>2, <2>1 DEF Untouched, Crashed
  <2>3. Quiet'
    BY <1>1, <1>2, <2>1, UntouchedStays DEF Quiet
  <2>4. CommandInStep'
    BY <1>1, <1>4, <2>2, <2>3 DEF CommandInStep, Calm, Quiet
  <2>5. \A d \in Dirs : ~(d < dir')
    BY <1>1, <1>2, SessionAssumption DEF Dirs, SessionAssumption
  <2>6. \A t \in Tests : ~(t < test')
    BY <1>1, <1>2 DEF Tests
  <2> QED
    BY <1>1, <1>2, <1>4, <2>2, <2>4, <2>5, <2>6 DEF InStep
<1> QED
  BY <1>1, <1>2, <1>3, <1>4, <1>5, StaysInStep DEF BootInStep

(* A command is sent.                                                      *)
LEMMA SendInStep ==
  ASSUME IInv, StepInv, SendCommand \/ SendPlain
  PROVE  StepInv'
<1>1. /\ pc \in Commands \cup {"exitcode", "poweroff"} /\ wait = "send" /\ wait' = "answer"
      /\ pc' = pc /\ console' = console /\ typed' = typed /\ phase' = phase
      /\ outcome' = outcome /\ dir' = dir /\ canUseSmb' = canUseSmb
      /\ sharedMountFailed' = sharedMountFailed /\ testsSuccessful' = testsSuccessful
      /\ running' = running /\ mounts' = mounts /\ delivered' = delivered
      /\ gaveUp' = gaveUp /\ test' = test
      /\ commands' = Append(commands, Current)
  BY DEF SendCommand, SendPlain, Current, bootVars, runner, tty, guest, mounting, testing,
         shell
<1>2. PanicGoesOn /\ ScriptInStep
  BY DEF StepInv
<1>3. PanicGoesOn' /\ (Doomed => Doomed') /\ Shown' = Shown
  BY <1>1, <1>2 DEF PanicGoesOn, Doomed, Shown
<1>4. pc' \in Mounting \cup Testing \cup {"exit 1"} /\ pc' # "exit 0"
  BY <1>1, Places DEF Commands, Checked, Plain
<1>5. Trusted' => Trusted
  BY <1>1 DEF Trusted, AtBoot
<1>6. ~GivesUp
  BY <1>1 DEF GivesUp
<1>7. ASSUME InStep PROVE InStep'
  <2>1. commands = <<>> => commands' = <<Current>> /\ Current' = Current
    BY <1>1 DEF Current
  <2>2. CASE pc \in Commands
    <3>1. commands = <<>> /\ Calm
      BY <1>1, <1>7, <2>2 DEF InStep, CommandInStep
    <3>2. Calm'
      BY <1>1, <1>3, <3>1 DEF Calm, FailureOnly
    <3>3. pc \notin Checked => PlainInStep'
      <4>1. ASSUME pc \notin Checked PROVE PlainInStep'
        <5>1. running = Idle /\ "PEXPECT_PROMPT" \notin Shown'
          <6>1. pc \notin Retrying
            BY <4>1 DEF Retrying, Checked
          <6> QED
            BY <1>3, <3>1, <6>1, OtherThanPanics DEF Calm, Answers
        <5>2. After(1, {"PEXPECT_PROMPT"}, Panics)'
          BY <5>1 DEF After, Shown, Range
        <5> QED
          BY <1>1, <2>1, <3>1, <5>1, <5>2 DEF PlainInStep
      <4> QED
        BY <4>1
    <3>4. CommandInStep'
      BY <1>1, <2>1, <3>1, <3>2, <3>3 DEF CommandInStep, CheckedInStep
    <3>5. pc \notin {"exitcode", "poweroff", "exit 0"}
      BY <2>2 DEF Commands, Checked, Plain
    <3> QED
      BY <1>1, <1>7, <3>4, <3>5 DEF InStep, Crashed
  <2>3. CASE pc = "exitcode"
    <3>1. Quiet /\ pc \notin Commands
      BY <1>1, <1>7, <2>3 DEF InStep, Commands, Checked, Plain
    <3>2. "PEXPECT_PROMPT" \notin Shown'
      BY <1>3, <3>1, OtherThanPanics DEF Quiet, Answers
    <3>3. After(1, {"PEXPECT_PROMPT"}, Panics)'
      BY <3>2 DEF After, Shown, Range
    <3>4. PlainInStep'
      BY <1>1, <2>1, <3>1, <3>2, <3>3 DEF PlainInStep, Quiet
    <3> QED
      BY <1>1, <1>7, <2>3, <3>1, <3>4 DEF InStep, Crashed
  <2>4. CASE pc = "poweroff"
    <3>1. \A i \in DOMAIN commands' : commands'[i].name = "poweroff"
      <4>1. Current \in CommandType /\ ShellTypes
        <5>1. dir \in 1 .. NumDirs + 1 /\ test \in 1 .. NumTests + 1
          BY DEF IInv, Types, ScriptTypes
        <5> QED
          BY <2>4, <5>1 DEF Current, CommandType, IInv, Types
      <4>2. /\ DOMAIN commands = 1 .. Len(commands) /\ Len(commands) \in Nat
            /\ DOMAIN commands' = 1 .. Len(commands) + 1
            /\ commands'[Len(commands) + 1] = Current
            /\ \A i \in DOMAIN commands : commands'[i] = commands[i]
        BY <1>1, <4>1, Appended
      <4>3. \A i \in DOMAIN commands' : i \in DOMAIN commands \/ i = Len(commands) + 1
        <5> HIDE <1>1, <1>4, <2>4
        <5> QED
          BY <4>2
      <4>4. \A i \in DOMAIN commands : commands[i].name = "poweroff"
        BY <1>7, <2>4 DEF InStep
      <4>5. Current.name = "poweroff"
        BY <2>4 DEF Current
      <4> QED
        BY <4>2, <4>3, <4>4, <4>5, Zenon
    <3>2. pc \notin Commands
      BY <2>4 DEF Commands, Checked, Plain
    <3> QED
      BY <1>1, <1>7, <2>4, <3>1, <3>2 DEF InStep, Crashed
  <2> QED
    BY <1>1, <2>2, <2>3, <2>4
<1> QED
  BY <1>1, <1>2, <1>3, <1>4, <1>5, <1>6, <1>7, StaysInStep DEF ScriptInStep

(* A message that is read is one of those that were waited for.            *)
LEMMA AnswersAwaited ==
  /\ wait = "prompt" => CommandPatterns = {"PEXPECT_PROMPT"}
  /\ wait = "drain" => CommandPatterns = {"PEXPECT_PROMPT", "TIMEOUT"}
  /\ wait = "answer" /\ pc \in Checked =>
       CommandPatterns \subseteq {"TIMEOUT", "__COMMAND SUCCESSFUL__", "__COMMAND FAILED__"}
                                   \cup Complaints
  /\ wait = "answer" /\ pc \in Plain =>
       CommandPatterns \subseteq {"TIMEOUT", "PEXPECT_PROMPT", "CHERI_TRAP"}
BY DEF CommandPatterns, AnswerPatterns, Checked, Plain, Complaints

(* An answer that is read is that of the command, or the script gives up.  *)
LEMMA ReadCommandInStep ==
  ASSUME IInv, StepInv, ReadCommand
  PROVE  StepInv'
<1>1. /\ pc \in Commands /\ wait \in {"answer", "prompt", "drain"} /\ Consume(CommandPatterns)
      /\ typed' = typed /\ phase' = phase /\ dir' = dir /\ canUseSmb' = canUseSmb
      /\ commands' = commands /\ running' = running /\ mounts' = mounts
      /\ delivered' = delivered /\ test' = test
      /\ gaveUp' = gaveUp /\ testsSuccessful' = testsSuccessful
      /\ sharedMountFailed' = sharedMountFailed
  BY DEF ReadCommand, mounting, testing, shell, guest
<1>2. /\ console \in Seq(Message) /\ PanicGoesOn /\ ScriptInStep
      /\ CommandPatterns \subseteq Message \cup {"TIMEOUT", "EOF"}
  BY <1>1, CommandReads DEF IInv, Types, BootTypes, StepInv
<1>3. PanicGoesOn'
  BY <1>1, <1>2, ConsumeGoesOn
<1>4. CASE pc' = "exit 1"
  BY <1>3, <1>4, StaysInStep DEF Trusted
<1>5. CASE pc' # "exit 1"
  <2>1. PICK m \in Returned(CommandPatterns) :
          IF wait = "answer" THEN AnswerRead(m) ELSE Ends(outcome)
    BY <1>5 DEF ReadCommand, Dies
  <2>2. /\ ~Doomed /\ Shown' \subseteq Shown
        /\ m = "PANIC" => Doomed'
        /\ m \in {"TIMEOUT", "EOF"} => m \in CommandPatterns
        /\ m \notin {"TIMEOUT", "EOF"} => m \in Shown /\ m \in CommandPatterns \cup {"PANIC"}
        /\ \A k \in {1, 2} : \A A, B :
             After(k, A, B) /\ m \in A \ {"TIMEOUT", "EOF"} => From(k, B)'
        /\ \A B : From(2, B) /\ m \notin {"TIMEOUT", "EOF"} => From(1, B)'
    BY <1>1, <1>2, <2>1, Reading
  <2>3. pc' = pc
    BY <1>5, <2>1 DEF AnswerRead, Ends, ReadsOn, Dies
  <2>4. pc' \in Mounting \cup Testing \cup {"exit 1"} /\ pc' # "exit 0"
    BY <1>1, <2>3, Places DEF Commands, Checked, Plain
  <2>5. CASE m = "PANIC"
    BY <1>3, <2>2, <2>4, <2>5, StaysInStep
  <2>6. CASE m # "PANIC"
    <3>1. Trusted' => Trusted
      BY <1>1, <2>3 DEF Trusted, AtBoot
    <3>2. /\ Done => Done'
          /\ running = Idle <=> running' = Idle
          /\ FailureOnly => FailureOnly'
      BY <1>1, <2>2, <2>3 DEF Done, FailureOnly
    <3>3. \A B : From(1, B)' <=> Shown' \subseteq B
      <4>1. \A j \in DOMAIN console' : 1 <= j
        <5>1. console' \in Seq(Message)
          BY <1>1, <1>2, Expected
        <5> QED
          BY <5>1, ShortOnes, Zenon
      <4> QED
        BY <4>1, Zenon DEF From, Shown, Range
    <3>4. ASSUME GivesUp PROVE GivesUp'
      <4>1. wait = "drain" /\ pc \in Plain /\ outcome # "ok"
        BY <1>1, <3>4 DEF GivesUp
      <4>2. wait' = "ended" /\ outcome' = outcome
        BY <2>1, <4>1 DEF Ends
      <4>3. pc' \notin {"p9fs", "check2617", "smbfs"}
        BY <2>3, <4>1 DEF Plain
      <4> QED
        BY <1>1, <2>3, <4>1, <4>2, <4>3 DEF GivesUp, Recovers
    <3>5. ASSUME CommandInStep PROVE GivesUp' \/ CommandInStep'
      <4>1. CASE wait = "answer" /\ pc \in Checked
        <5>1. CheckedInStep /\ AnswerRead(m)
          BY <2>1, <3>5, <4>1 DEF CommandInStep
        <5>2. m \in {"TIMEOUT", "__COMMAND SUCCESSFUL__", "__COMMAND FAILED__"} \cup Complaints
          BY <2>2, <2>6, <4>1, AnswersAwaited
        <5>3. CASE m = "TIMEOUT"
          <6>1. wait' = "ended" /\ outcome' = "timeout"
            BY <5>1, <5>3 DEF AnswerRead, Ends, Complaints
          <6> QED
            BY <1>1, <2>3, <6>1 DEF GivesUp, Recovers
        <5>4. CASE m = "__COMMAND SUCCESSFUL__"
          <6>1. wait' = "prompt" /\ outcome' = "ok"
            BY <5>1, <5>4 DEF AnswerRead, ReadsOn
          <6>2. m \in Shown /\ m \notin Panics
            BY <2>2, <5>4, OtherThanPanics DEF Answers
          <6>3. commands = <<>> /\ Executed
            BY <5>1, <5>4, <6>2 DEF CheckedInStep, Calm, FailureOnly
          <6>4. running = Idle /\ Done
            BY <5>4, <6>2, <6>3 DEF Executed
          <6>5. From(1, {"PEXPECT_PROMPT"} \cup Panics)' /\ From(2, Panics)'
            <7>1. m \in {"__COMMAND SUCCESSFUL__"} \ {"TIMEOUT", "EOF"}
              BY <5>4
            <7> QED
              BY <2>2, <6>3, <7>1 DEF Executed
          <6> QED
            BY <1>1, <3>2, <6>1, <6>3, <6>4, <6>5 DEF CommandInStep, Succeeded
        <5>5. CASE m = "__COMMAND FAILED__"
          <6>1. wait' = "ended" /\ outcome' = "failed"
            BY <5>1, <5>5 DEF AnswerRead, Ends
          <6>2. ASSUME pc \in {"p9fs", "check2617"} PROVE Failed'
            <7>1. m \in Shown /\ m \notin Panics /\ pc \notin Retrying
              BY <2>2, <5>5, <6>2, OtherThanPanics DEF Answers, Retrying
            <7>2. commands = <<>> /\ Executed
              BY <5>1, <7>1 DEF CheckedInStep, Calm
            <7>3. running = Idle
              BY <5>5, <7>1, <7>2 DEF Executed
            <7>4. From(1, {"PEXPECT_PROMPT"} \cup Panics)'
              <8>1. m \in {"__COMMAND FAILED__"} \ {"TIMEOUT", "EOF"}
                BY <5>5
              <8> QED
                BY <2>2, <7>1, <7>2, <8>1 DEF Executed
            <7> QED
              BY <1>1, <3>2, <3>3, <7>2, <7>3, <7>4 DEF Failed, FailureOnly
          <6> QED
            BY <1>1, <2>3, <6>1, <6>2 DEF GivesUp, Recovers, CommandInStep
        <5>6. CASE m \in Complaints
          <6>1. wait' = "drain" /\ outcome' # "ok"
            BY <5>1, <5>6 DEF AnswerRead, ReadsOn, Complaints
          <6>2. m \in Shown /\ m \notin Panics /\ m \notin Answers
            <7>1. m \notin {"TIMEOUT", "EOF"}
              BY <5>6 DEF Complaints
            <7> QED
              BY <2>2, <5>6, <7>1, OtherThanPanics DEF Answers
          <6>3. commands = <<>> /\ Executed
            BY <5>1, <6>2 DEF CheckedInStep, Calm, FailureOnly, Answers
          <6>4. running # Idle => ~running.ok /\ running.name \in Checked
            BY <4>1, <5>6, <6>2, <6>3 DEF Executed
          <6>5. From(1, {"__COMMAND FAILED__", "PEXPECT_PROMPT"} \cup Panics)'
            <7>1. m \in Complaints \ {"TIMEOUT", "EOF"}
              BY <5>6 DEF Complaints
            <7> QED
              BY <2>2, <6>3, <7>1 DEF Executed
          <6> QED
            BY <1>1, <3>3, <6>1, <6>3, <6>4, <6>5 DEF CommandInStep, Failed, FailureOnly
        <5> QED
          BY <5>2, <5>3, <5>4, <5>5, <5>6
      <4>2. CASE wait = "answer" /\ pc \in Plain
        <5>1. PlainInStep /\ AnswerRead(m)
          <6>1. pc \notin Checked
            BY <4>2 DEF Plain, Checked
          <6> QED
            BY <2>1, <3>5, <4>2, <6>1 DEF CommandInStep
        <5>2. m \in {"TIMEOUT", "PEXPECT_PROMPT", "CHERI_TRAP"}
          BY <2>2, <2>6, <4>2, AnswersAwaited
        <5>3. pc' \notin {"p9fs", "check2617", "smbfs", "mv"}
          BY <2>3, <4>2 DEF Plain
        <5>4. CASE m = "TIMEOUT"
          <6>1. wait' = "ended" /\ outcome' = "timeout"
            BY <5>1, <5>4 DEF AnswerRead, Ends
          <6> QED
            BY <1>1, <2>3, <5>3, <6>1 DEF GivesUp, Recovers
        <5>5. CASE m = "CHERI_TRAP"
          <6>1. wait' = "drain" /\ outcome' = "failed"
            BY <5>1, <5>5 DEF AnswerRead, ReadsOn
          <6> QED
            BY <1>1, <2>3, <4>2, <6>1 DEF GivesUp
        <5>6. CASE m = "PEXPECT_PROMPT"
          <6>1. wait' = "ended" /\ outcome' = "ok"
            BY <5>1, <5>6 DEF AnswerRead, Ends
          <6>2. commands = <<>> /\ running = Idle
            BY <2>2, <5>1, <5>6 DEF PlainInStep
          <6>3. From(1, Panics)'
            <7>1. m \in {"PEXPECT_PROMPT"} \ {"TIMEOUT", "EOF"}
              BY <5>6
            <7> QED
              BY <2>2, <5>1, <7>1 DEF PlainInStep
          <6> QED
            BY <1>1, <3>3, <5>3, <6>1, <6>2, <6>3 DEF CommandInStep, Quiet, Done
        <5> QED
          BY <5>2, <5>4, <5>5, <5>6
      <4>3. CASE wait = "prompt"
        <5>1. Succeeded /\ wait' = "ended" /\ outcome' = outcome
          BY <2>1, <3>5, <4>3 DEF CommandInStep, Ends
        <5>2. m \notin {"TIMEOUT", "EOF"}
          BY <2>2, <4>3, AnswersAwaited
        <5>3. From(1, Panics)'
          BY <2>2, <5>1, <5>2 DEF Succeeded
        <5> QED
          BY <1>1, <3>2, <3>3, <5>1, <5>3 DEF CommandInStep, Succeeded, Quiet
      <4>4. CASE wait = "drain"
        <5>1. Failed /\ outcome # "ok" /\ wait' = "ended" /\ outcome' = outcome
          BY <2>1, <3>5, <4>4 DEF CommandInStep, Ends
        <5> QED
          BY <1>1, <3>2, <5>1 DEF CommandInStep, Failed
      <4> QED
        BY <1>1, <4>1, <4>2, <4>3, <4>4 DEF Commands
    <3>6. ASSUME InStep PROVE GivesUp' \/ InStep'
      <4>1. GivesUp' \/ CommandInStep'
        BY <1>1, <3>5, <3>6 DEF InStep
      <4>2. pc \notin {"exitcode", "poweroff", "exit 0"}
        BY <1>1 DEF Commands, Checked, Plain
      <4> QED
        BY <1>1, <2>3, <3>6, <4>1, <4>2 DEF InStep, Crashed
    <3> QED
      BY <1>2, <1>3, <2>2, <2>4, <3>1, <3>4, <3>6, StaysInStep DEF ScriptInStep
  <2> QED
    BY <2>5, <2>6
<1> QED
  BY <1>4, <1>5

(* A mount that has failed stays known.                                    *)
LEMMA MountFailureStays ==
  ASSUME MountStep
  PROVE  sharedMountFailed => sharedMountFailed'
<1>1. ASSUME DirIsDone PROVE sharedMountFailed => sharedMountFailed'
  BY <1>1 DEF DirIsDone, SharedMountFails
<1>2. ASSUME ThenSmb PROVE sharedMountFailed => sharedMountFailed'
  BY <1>1, <1>2 DEF ThenSmb
<1>3. ASSUME UNCHANGED mounting PROVE sharedMountFailed' = sharedMountFailed
  BY <1>3 DEF mounting
<1>4. CASE AfterMkdir
  BY <1>2, <1>3, <1>4 DEF AfterMkdir
<1>5. CASE AfterP9fs
  BY <1>2, <1>5 DEF AfterP9fs, P9fsFails
<1>6. CASE AfterCheck2617
  BY <1>2, <1>6 DEF AfterCheck2617
<1>7. CASE AfterUnmounting
  BY <1>2, <1>3, <1>7 DEF AfterUnmounting, P9fsFails
<1>8. CASE AfterSmb
  BY <1>1, <1>3, <1>8 DEF AfterSmb
<1>9. CASE AfterSettling
  BY <1>3, <1>9 DEF AfterSettling
<1> QED
  BY <1>4, <1>5, <1>6, <1>7, <1>8, <1>9 DEF MountStep

(* What a step of _do_test_setup() starts from.                            *)
MountsInStep ==
  /\ InStep /\ Untouched /\ wait = "ended" /\ test' = test
  /\ pc \in Mounting => dir <= NumDirs

(* Where a step of _do_test_setup() begins.                                *)
LEMMA MountStarts ==
  ASSUME MountsInStep, pc \in Commands
  PROVE  /\ commands = <<>> /\ canUseSmb
         /\ IF outcome = "ok" THEN Quiet /\ Done ELSE FailureOnly
         /\ Quiet => FailureOnly
         /\ \A d \in Dirs : d < dir => mounts[d] # <<>>
         /\ \A t \in Tests : t < test' => t \in delivered
<1>1. /\ CommandInStep /\ canUseSmb /\ \A d \in Dirs : d < dir => mounts[d] # <<>>
      /\ \A t \in Tests : t < test' => t \in delivered
  BY DEF MountsInStep, InStep
<1>2. IF outcome = "ok" THEN Quiet /\ Done ELSE Failed
  BY <1>1 DEF MountsInStep, CommandInStep
<1> QED
  BY <1>1, <1>2 DEF Failed, Quiet, FailureOnly

(* The next command for the same directory.                                *)
LEMMA SameDir ==
  ASSUME MountsInStep, pc \in Commands, NEW c \in Mounting, Run(c), dir' = dir, canUseSmb' = TRUE,
         outcome = "ok" \/ c \in Retrying
  PROVE  InStep'
<1>1. c \in Commands \ {"pwd"} /\ c \notin Testing /\ c # "fsync"
  BY DEF Mounting, Commands, Checked, Plain, Testing, InTest
<1>2. /\ commands = <<>> /\ \A d \in Dirs : d < dir => mounts[d] # <<>>
      /\ Quiet \/ (c \in Retrying /\ FailureOnly)
      /\ \A t \in Tests : t < test' => t \in delivered
  BY MountStarts
<1> QED
  BY <1>1, <1>2, RunInStep DEF MountsInStep

(* p9fs has been tried, and smbfs comes next.                              *)
LEMMA SmbNext ==
  ASSUME MountsInStep, pc \in Commands, ThenSmb, canUseSmb' = canUseSmb
  PROVE  InStep'
<1>1. canUseSmb
  BY MountStarts
<1>2. Run("smbfs") /\ dir' = dir
  BY <1>1 DEF ThenSmb
<1>3. "smbfs" \in Mounting /\ "smbfs" \in Retrying
  BY DEF Mounting, Retrying
<1>4. canUseSmb' = TRUE
  BY <1>1 DEF MountsInStep, InStep
<1> QED
  BY <1>2, <1>3, <1>4, SameDir

(* A step of _do_test_setup() that goes on has recovered.                  *)
LEMMA MountRecovers ==
  ASSUME MountStep, pc' # "exit 1", outcome # "timeout"
  PROVE  Recovers /\ pc \in Commands /\ wait = "ended"
<1>1. CASE AfterMkdir
  BY <1>1 DEF AfterMkdir, Ended, Dies, Recovers, Commands, Plain
<1>2. CASE AfterP9fs
  BY <1>2 DEF AfterP9fs, Ended, Recovers, Commands, Checked
<1>3. CASE AfterCheck2617
  BY <1>3 DEF AfterCheck2617, Ended, Recovers, Commands, Checked
<1>4. CASE AfterUnmounting
  BY <1>4 DEF AfterUnmounting, Ended, OnlyAfter, Dies, Recovers, Commands, Checked
<1>5. CASE AfterSmb
  BY <1>5 DEF AfterSmb, Ended, Dies, Recovers, Commands, Checked
<1>6. CASE AfterSettling
  BY <1>6 DEF AfterSettling, Ended, OnlyAfter, Dies, Recovers, Commands, Plain
<1> QED
  BY <1>1, <1>2, <1>3, <1>4, <1>5, <1>6 DEF MountStep

(* A directory is done: it is mounted, or the tests will count as failed.  *)
LEMMA DirInStep ==
  ASSUME MountsInStep, ScriptTypes, pc = "smbfs", DirIsDone, canUseSmb' = TRUE, outcome = "ok"
  PROVE  InStep'
<1>1. /\ pc \in Commands /\ pc \in Mounting /\ dir <= NumDirs
      /\ dir \in 1 .. NumDirs + 1 /\ dir' = dir + 1 /\ MountNext(dir')
      /\ NumDirs \in Nat /\ Dirs = 1 .. NumDirs
  BY SessionAssumption DEF Commands, Checked, Mounting, MountsInStep, ScriptTypes, DirIsDone,
                           Dirs, SessionAssumption
<1>2. /\ commands = <<>> /\ Quiet /\ mounts[dir] # <<>>
      /\ \A d \in Dirs : d < dir => mounts[d] # <<>>
      /\ \A t \in Tests : t < test' => t \in delivered
  BY <1>1, MountStarts DEF Done
<1>3. \A d \in Dirs : d < dir' => d < dir \/ d = dir
  BY <1>1
<1>4. \A d \in Dirs : d < dir' => mounts[d] # <<>>
  BY <1>2, <1>3
<1>5. PICK c \in {"settle", "mkdir"} : Run(c) /\ (c = "settle" => dir' > NumDirs)
  BY <1>1 DEF MountNext
<1>6. c \in Commands \ {"pwd"} /\ c # "fsync"
  BY DEF Commands, Plain
<1>7. c \in Testing => dir' = NumDirs + 1
  <2>1. "mkdir" \notin Testing
    BY DEF Testing, InTest
  <2>2. dir' > NumDirs => dir' = NumDirs + 1
    BY <1>1
  <2> QED
    BY <1>5, <2>1, <2>2
<1> QED
  BY <1>2, <1>4, <1>5, <1>6, <1>7, RunInStep DEF MountsInStep

(* While directories are mounted, the loop is at one of them.              *)
LEMMA MountDir ==
  ASSUME ScriptTypes, pc \in Mounting
  PROVE  dir \in Dirs
<1>1. dir \in 1 .. NumDirs + 1 /\ dir <= NumDirs
  BY DEF ScriptTypes
<1>2. NumDirs \in Nat /\ Dirs = 1 .. NumDirs
  BY SessionAssumption DEF Dirs, SessionAssumption
<1> QED
  BY <1>1, <1>2

(* All steps of _do_test_setup() that go on.                               *)
LEMMA MountsOn ==
  ASSUME MountsInStep, ScriptTypes, MountStep, pc \in Commands,
         pc' # "exit 1", ~sharedMountFailed', outcome # "timeout"
  PROVE  InStep'
<1>1. canUseSmb = TRUE
  BY DEF MountsInStep, InStep, ScriptTypes
<1>2. {"mkdir", "p9fs", "check2617", "rm", "umount", "smbfs"} = Mounting
      /\ "rm" \in Retrying /\ "smbfs" \in Retrying
  BY DEF Mounting, Retrying
<1>3. UNCHANGED mounting => dir' = dir /\ canUseSmb' = canUseSmb
  BY DEF mounting
<1>4. CASE AfterMkdir
  <2>1. outcome = "ok"
    BY <1>4 DEF AfterMkdir, Dies
  <2>2. CASE Run("p9fs") /\ UNCHANGED mounting
    BY <1>1, <1>2, <1>3, <2>1, <2>2, SameDir
  <2>3. CASE ThenSmb /\ canUseSmb' = canUseSmb
    BY <2>3, SmbNext
  <2> QED
    BY <1>4, <2>1, <2>2, <2>3 DEF AfterMkdir
<1>5. CASE AfterP9fs
  <2>1. canUseSmb' = canUseSmb
    BY <1>5 DEF AfterP9fs
  <2>2. CASE ThenSmb
    BY <2>1, <2>2, SmbNext
  <2>3. CASE outcome = "ok" /\ Run("check2617") /\ dir' = dir
    BY <1>1, <1>2, <2>1, <2>3, SameDir
  <2> QED
    BY <1>5, <2>2, <2>3 DEF AfterP9fs, P9fsFails
<1>6. CASE AfterCheck2617
  <2>1. canUseSmb' = canUseSmb
    BY <1>6 DEF AfterCheck2617
  <2>2. CASE ThenSmb
    BY <2>1, <2>2, SmbNext
  <2>3. CASE Run("rm") /\ dir' = dir
    BY <1>1, <1>2, <2>1, <2>3, SameDir
  <2> QED
    BY <1>6, <2>2, <2>3 DEF AfterCheck2617
<1>7. CASE AfterUnmounting
  <2>1. CASE Ended("rm")
    <3>1. outcome = "ok" /\ Run("umount") /\ UNCHANGED mounting
      BY <1>7, <2>1 DEF AfterUnmounting, OnlyAfter, Ended, Dies
    <3> QED
      BY <1>1, <1>2, <1>3, <3>1, SameDir
  <2>2. CASE Ended("umount")
    <3>1. ThenSmb /\ canUseSmb' = canUseSmb
      BY <1>7, <2>2 DEF AfterUnmounting, Ended, Dies, P9fsFails
    <3> QED
      BY <3>1, SmbNext
  <2> QED
    BY <1>7, <2>1, <2>2 DEF AfterUnmounting
<1>8. CASE AfterSmb
  <2>1. CASE /\ Run("smbfs") /\ dir' = dir /\ canUseSmb' = canUseSmb
    BY <1>1, <1>2, <2>1, SameDir
  <2>2. CASE /\ mounted' = [mounted EXCEPT ![dir] = (outcome = "ok")]
             /\ canUseSmb' = (outcome = "ok") /\ DirIsDone
    <3>1. pc = "smbfs" /\ pc \in Mounting
      BY <1>2, <1>8 DEF AfterSmb, Ended
    <3>2. dir \in Dirs
      BY <3>1, MountDir
    <3>3. mounted'[dir] = (outcome = "ok")
      BY <2>2, <3>2 DEF ScriptTypes
    <3>4. outcome = "ok"
      BY <2>2, <3>3 DEF DirIsDone, SharedMountFails
    <3> QED
      BY <2>2, <3>1, <3>4, DirInStep
  <2> QED
    BY <1>8, <2>1, <2>2 DEF AfterSmb, Dies
<1>9. CASE AfterSettling
  <2>1. pc = "settle" /\ outcome = "ok" /\ Run("su") /\ UNCHANGED mounting
    BY <1>9 DEF AfterSettling, Ended, OnlyAfter, Dies
  <2>2. "su" \in Commands \ {"pwd"} /\ pc \in Testing
    BY <2>1 DEF Commands, Checked, Testing, InTest
  <2>3. dir' = NumDirs + 1 /\ canUseSmb' = TRUE
    BY <1>1, <1>3, <2>1, <2>2 DEF MountsInStep, InStep
  <2>4. /\ commands = <<>> /\ Quiet /\ \A d \in Dirs : d < dir => mounts[d] # <<>>
        /\ \A t \in Tests : t < test' => t \in delivered
    BY <2>1, MountStarts
  <2> QED
    BY <1>3, <2>1, <2>2, <2>3, <2>4, RunInStep DEF MountsInStep
<1> QED
  BY <1>4, <1>5, <1>6, <1>7, <1>8, <1>9 DEF MountStep

(* Every step of _do_test_setup().                                         *)
LEMMA MountStepInStep ==
  ASSUME IInv, StepInv, MountStep
  PROVE  StepInv'
<1>1. /\ ScriptTypes /\ PanicGoesOn /\ ScriptInStep
  BY DEF IInv, Types, StepInv
<1>2. /\ Untouched /\ gaveUp' = (gaveUp \/ outcome = "timeout")
      /\ pc \in Mounting \cup {"settle"} /\ testsSuccessful' = testsSuccessful
      /\ test' = test
      /\ pc' \in Mounting \cup {"settle", "su", "exit 1"}
  BY <1>1, MountStepMoves DEF MountStep, Untouched, guest, tty, shell, testing, MovesOn
<1>3. PanicGoesOn' /\ (Doomed => Doomed')
  BY <1>1, <1>2, UntouchedStays
<1>4. pc' \in Mounting \cup Testing \cup {"exit 1"} /\ pc' # "exit 0"
  BY <1>2 DEF Mounting, Testing, InTest
<1>5. ASSUME Trusted' PROVE Doomed' \/ InStep'
  <2>1. /\ pc' # "exit 1" /\ ~gaveUp /\ outcome # "timeout" /\ testsSuccessful
        /\ ~sharedMountFailed' /\ ~sharedMountFailed
    BY <1>2, <1>5, MountFailureStays DEF Trusted
  <2>2. Trusted
    <3>1. pc \notin {"exit 1", "exit 2", "pwd"} /\ pc \in Mounting \cup Testing
      BY <1>2 DEF Mounting, Testing, InTest
    <3>2. ~AtBoot
      BY <3>1, Places DEF AtBoot
    <3> QED
      BY <2>1, <3>1, <3>2 DEF Trusted
  <2>3. Recovers /\ pc \in Commands /\ wait = "ended"
    BY <2>1, MountRecovers
  <2>4. ~GivesUp
    BY <2>3 DEF GivesUp
  <2>5. ASSUME InStep PROVE InStep'
    <3>1. MountsInStep
      BY <1>1, <1>2, <2>3, <2>5 DEF MountsInStep, ScriptTypes
    <3> QED
      BY <1>1, <2>1, <2>3, <3>1, MountsOn
  <2> QED
    BY <1>1, <1>3, <2>2, <2>4, <2>5 DEF ScriptInStep
<1> QED
  BY <1>3, <1>4, <1>5, StaysInStep

(* A test has passed, and its results are on the host: the next one, or the *)
(* end of the session.                                                     *)
LEMMA ReturnInStep ==
  ASSUME ScriptTypes, InStep, Untouched, pc = "fsync", wait = "ended", outcome = "ok",
         dir' = dir, canUseSmb' = canUseSmb, NEW ok, TestReturns(ok)
  PROVE  InStep'
<1>1. /\ pc \in Commands /\ pc \in Testing /\ pc \in InTest
  BY DEF Commands, Plain, Testing, InTest
<1>2. /\ commands = <<>> /\ running = Idle /\ Quiet /\ dir = NumDirs + 1
      /\ canUseSmb /\ (\A d \in Dirs : d < dir => mounts[d] # <<>>)
      /\ test \in delivered /\ (\A t \in Tests : t < test => t \in delivered)
  BY <1>1 DEF InStep, CommandInStep, Quiet
<1>3. test' = test + 1 /\ (Run("poweroff") \/ Run("rmxml"))
  BY DEF TestReturns, NextTest
<1>4. \A t \in Tests : t < test' => t \in delivered
  <2>1. test \in Tests /\ Tests \subseteq Nat
    BY <1>1 DEF ScriptTypes, Tests
  <2>2. \A t \in Tests : t < test + 1 => t < test \/ t = test
    BY <2>1
  <2> QED
    BY <1>2, <1>3, <2>2
<1>5. CASE Run("rmxml")
  <2>1. "rmxml" \in Commands \ {"pwd"} /\ canUseSmb' = TRUE
    BY <1>2 DEF Commands, Checked, ScriptTypes
  <2> QED
    BY <1>2, <1>4, <1>5, <2>1, RunInStep
<1>6. CASE Run("poweroff")
  <2>1. pc' = "poweroff" /\ pc' \notin Commands
    BY <1>6 DEF Run, Commands, Checked, Plain
  <2>2. running' = Idle /\ DOMAIN commands' = {}
    BY <1>2, ShortOnes DEF Untouched
  <2> QED
    BY <1>2, <1>4, <2>1, <2>2 DEF InStep, Untouched, Crashed
<1> QED
  BY <1>3, <1>5, <1>6

(* The tests, as long as they have not failed.                             *)
LEMMA TestStepInStep ==
  ASSUME IInv, TestEnds, StepInv, TestStep
  PROVE  StepInv'
<1>1. /\ wait = "ended" /\ pc \in {"su", "rmxml", "cheribsdtest", "mv", "fsync", "pwd"}
      /\ typed' = typed /\ phase' = phase /\ mounts' = mounts /\ delivered' = delivered
      /\ dir' = dir /\ canUseSmb' = canUseSmb /\ sharedMountFailed' = sharedMountFailed
      /\ gaveUp' = gaveUp
  BY DEF TestStep, AfterSu, AfterFsync, AfterPwd, AfterTestCommand, Ended, guest, mounting
<1>2. PanicGoesOn /\ ScriptInStep /\ ScriptTypes /\ TestsAreCounted
  BY DEF StepInv, IInv, Types
<1>3. pc' \in InTest \cup {"poweroff", "exit 1", "exit 2"}
  BY <1>2, TestStepMoves DEF Interrupt, NextTest, TestReturns, Run, InTest
<1>4. pc' \in Mounting \cup Testing \cup {"exit 1"} /\ pc' # "exit 0"
  BY <1>3 DEF Testing, InTest
<1>5. PanicGoesOn'
  <2>1. CASE console' = console
    BY <1>2, <2>1 DEF PanicGoesOn
  <2>2. ASSUME NEW prompts \in {<<"PEXPECT_PROMPT">>, <<"PEXPECT_PROMPT", "PEXPECT_PROMPT">>},
               console' = console \o prompts
        PROVE  PanicGoesOn'
    <3>1. console \in Seq(Message) /\ "PEXPECT_PROMPT" \in Message
      BY Output DEF IInv, Types, BootTypes, BootOutput
    <3>2. prompts \in Seq(Message) /\ Range(prompts) \cap Panics = {}
      <4>1. CASE prompts = <<"PEXPECT_PROMPT">>
        BY <3>1, <4>1, Short, Tuples, TwoPanics
      <4>2. CASE prompts = <<"PEXPECT_PROMPT", "PEXPECT_PROMPT">>
        BY <3>1, <4>2, Short, Tuples, TwoPanics
      <4> QED
        BY <2>2, <4>1, <4>2
    <3>3. Prints(prompts)
      BY <2>2 DEF Prints
    <3> QED
      BY <1>2, <3>1, <3>2, <3>3, NoPanicPrinted
  <2> QED
    BY <1>2, <2>1, <2>2, TestStepMoves DEF Interrupt, NoInterrupt
<1>6. ASSUME Trusted' PROVE Doomed' \/ InStep'
  <2>1. testsSuccessful' /\ pc' \notin {"exit 1", "exit 2", "pwd"}
    BY <1>6 DEF Trusted
  <2>2. /\ outcome = "ok" /\ testsSuccessful /\ NoInterrupt
        /\ \/ pc = "su" /\ Run("rmxml") /\ test' = test
           \/ pc = "rmxml" /\ Run("cheribsdtest") /\ test' = test
           \/ pc = "cheribsdtest" /\ Run("exitcode") /\ test' = test
           \/ pc = "mv" /\ Run("fsync") /\ test' = test
           \/ pc = "fsync" /\ \E ok : TestReturns(ok)
    <3>1. ASSUME NEW ok, TestReturns(ok) PROVE ok /\ testsSuccessful
      BY <2>1, <3>1 DEF TestReturns, AllSoFar
    <3>2. ~Interrupt
      BY <2>1 DEF Interrupt, Run
    <3>3. CASE AfterSu
      <4>1. ~Dies
        BY <2>1 DEF Dies
      <4>2. /\ pc = "su" /\ NextTest(test) /\ testsSuccessful' \in {FALSE, outcome = "ok"}
            /\ test' = test /\ NoInterrupt
        BY <3>3, <4>1 DEF AfterSu, Ended
      <4>3. Untested
        BY <4>2 DEF Untested
      <4>4. testsSuccessful /\ Run("rmxml")
        BY <1>2, <4>2, <4>3, FirstTest DEF TestsAreCounted, NextTest, Run
      <4> QED
        BY <2>1, <4>2, <4>4
    <3>4. CASE AfterPwd
      <4>1. TestReturns(FALSE)
        BY <2>1, <3>4 DEF AfterPwd
      <4> QED
        BY <3>1, <4>1
    <3>5. CASE AfterFsync
      <4>1. pc = "fsync" /\ TestReturns(exitCode /\ outcome = "ok") /\ NoInterrupt
        BY <3>2, <3>5 DEF AfterFsync, Ended
      <4> DEFINE ok == exitCode /\ outcome = "ok"
      <4>2. TestReturns(ok)
        BY <4>1
      <4>3. ok => outcome = "ok"
        OBVIOUS
      <4> HIDE DEF ok
      <4> QED
        BY <3>1, <4>1, <4>2, <4>3
    <3>6. ASSUME NEW command, NEW next, AfterTestCommand(command, next)
          PROVE  /\ outcome = "ok" /\ testsSuccessful /\ NoInterrupt
                 /\ pc = command /\ Run(next) /\ test' = test
      <4>1. ~TestReturns(FALSE)
        BY <3>1
      <4>2. /\ pc = command /\ outcome = "ok" /\ Run(next) /\ UNCHANGED testing /\ NoInterrupt
        BY <3>2, <3>6, <4>1 DEF AfterTestCommand, Ended
      <4> QED
        BY <2>1, <4>2 DEF testing
    <3> QED
      BY <3>3, <3>4, <3>5, <3>6 DEF TestStep
  <2>3. Untouched
    BY <1>1, <2>2 DEF Untouched, NoInterrupt
  <2>4. Trusted
    <3>1. ~AtBoot
      <4>1. pc \in Mounting \cup Testing
        BY <1>1 DEF Testing, InTest
      <4> QED
        BY <4>1, Places DEF AtBoot
    <3>2. pc \notin {"exit 1", "exit 2", "pwd"}
      BY <2>2
    <3> QED
      BY <1>1, <1>6, <2>2, <3>1, <3>2 DEF Trusted
  <2>5. ~GivesUp
    BY <1>1, <2>2 DEF GivesUp, Recovers
  <2>6. Doomed => Doomed'
    BY <2>3, UntouchedStays
  <2>7. ASSUME InStep PROVE InStep'
    <3>1. pc \in Commands /\ pc \in Testing /\ pc # "pwd"
      BY <1>1, <2>7 DEF InStep, Commands, Checked, Plain, Testing, InTest
    <3>2. /\ commands = <<>> /\ running = Idle /\ Quiet /\ Done /\ dir = NumDirs + 1
          /\ canUseSmb /\ (\A d \in Dirs : d < dir => mounts[d] # <<>>)
          /\ \A t \in Tests : t < test => t \in delivered
      BY <1>1, <2>2, <2>7, <3>1 DEF InStep, CommandInStep, Quiet
    <3>3. CASE pc \in {"su", "rmxml", "mv"}
      <4>1. /\ test' = test
            /\ \E c \in {"rmxml", "cheribsdtest", "fsync"} :
                 Run(c) /\ (c = "fsync" => pc = "mv")
        BY <2>2, <3>3
      <4>2. PICK c \in {"rmxml", "cheribsdtest", "fsync"} :
              Run(c) /\ (c = "fsync" => pc = "mv")
        BY <4>1
      <4>3. c \in Commands \ {"pwd"} /\ canUseSmb' = TRUE
        BY <1>1, <1>2, <3>2 DEF ScriptTypes, Commands, Checked, Plain
      <4>4. dir' = NumDirs + 1 /\ \A d \in Dirs : d < dir' => mounts[d] # <<>>
        BY <1>1, <3>2
      <4>5. /\ \A t \in Tests : t < test' => t \in delivered
            /\ c = "fsync" => test' \in delivered
        BY <3>2, <4>1, <4>2 DEF Done
      <4> QED
        BY <2>3, <2>7, <3>2, <4>2, <4>3, <4>4, <4>5, RunInStep
    <3>4. CASE pc = "cheribsdtest"
      <4>1. pc' = "exitcode" /\ wait' = "send" /\ pc' \notin Commands /\ test' = test
        BY <2>2, <3>4 DEF Run, Commands, Checked, Plain
      <4>2. Quiet'
        BY <2>3, <3>2, UntouchedStays
      <4> QED
        BY <1>1, <2>3, <2>7, <3>2, <4>1, <4>2 DEF InStep, Untouched, Crashed
    <3>5. CASE pc = "fsync"
      BY <1>1, <1>2, <2>2, <2>3, <2>7, <3>5, ReturnInStep
    <3> QED
      BY <2>2, <3>3, <3>4, <3>5
  <2> QED
    BY <1>2, <2>4, <2>5, <2>6, <2>7 DEF ScriptInStep
<1> QED
  BY <1>4, <1>5, <1>6, StaysInStep

(* The exit code, the results and the shutdown.                            *)
LEMMA FinishStepInStep ==
  ASSUME IInv, StepInv, FinishStep
  PROVE  StepInv'
<1>1. /\ pc \in {"exitcode", "poweroff"} /\ pc \notin Commands
      /\ typed' = typed /\ phase' = phase /\ dir' = dir /\ canUseSmb' = canUseSmb
      /\ commands' = commands /\ running' = running /\ mounts' = mounts
      /\ gaveUp' = gaveUp /\ sharedMountFailed' = sharedMountFailed
  BY DEF FinishStep, ReadExitCode, CopyResults, AwaitPoweroff, AwaitShutdown, guest, mounting,
         shell, Commands, Checked, Plain
<1>2. /\ console \in Seq(Message) /\ PanicGoesOn /\ ScriptInStep
  BY DEF IInv, Types, BootTypes, StepInv
<1>3. /\ "PEXPECT_PROMPT" \notin {"TIMEOUT", "EOF"}
      /\ \A P \in {ExitCodes, {"PEXPECT_PROMPT"}, PoweroffPatterns, ShutdownPatterns} :
           P \subseteq Message \cup {"TIMEOUT", "EOF"}
  BY FinishReads
<1>4. PanicGoesOn'
  <2>1. PICK P : Consume(P)
    BY DEF FinishStep, ReadExitCode, CopyResults, AwaitPoweroff, AwaitShutdown
  <2> QED
    BY <1>2, <2>1, ConsumeGoesOn
<1>5. ~AtBoot /\ "exit 0" \notin Commands
  <2>1. pc \in Mounting \cup Testing
    BY <1>1 DEF Testing, InTest
  <2> QED
    BY <2>1, Places DEF AtBoot, Commands, Checked, Plain
<1>6. ASSUME testsSuccessful' => testsSuccessful, Trusted' PROVE Trusted
  BY <1>1, <1>5, <1>6 DEF Trusted
<1>7. ~GivesUp
  BY <1>1 DEF GivesUp
<1>8. ASSUME NEW P \in {ExitCodes, {"PEXPECT_PROMPT"}, PoweroffPatterns, ShutdownPatterns},
             Consume(P), NEW m \in Returned(P)
      PROVE  /\ ~Doomed /\ Shown' \subseteq Shown /\ (m = "PANIC" => Doomed')
             /\ m \in {"TIMEOUT", "EOF"} => m \in P
             /\ m \notin {"TIMEOUT", "EOF"} => m \in Shown /\ m \in P \cup {"PANIC"}
             /\ After(1, {"PEXPECT_PROMPT"}, Panics) => After(1, {"PEXPECT_PROMPT"}, Panics)'
             /\ After(1, {"PEXPECT_PROMPT"}, Panics) /\ m = "PEXPECT_PROMPT"
                  => From(1, Panics)'
  BY <1>2, <1>3, <1>8, Reading
<1>9. CASE ReadExitCode
  <2>1. pc = "exitcode" /\ wait = "answer" /\ Consume(ExitCodes) /\ outcome' = outcome
        /\ delivered' = delivered /\ test' = test /\ testsSuccessful' = testsSuccessful
    BY <1>9 DEF ReadExitCode
  <2>2. CASE pc' = "exit 1"
    BY <1>4, <2>2, StaysInStep DEF Trusted
  <2>3. ASSUME NEW m \in Returned(ExitCodes), pc' = pc, wait' = "prompt"
        PROVE  StepInv'
    <3>1. /\ ~Doomed /\ Shown' \subseteq Shown
          /\ After(1, {"PEXPECT_PROMPT"}, Panics) => After(1, {"PEXPECT_PROMPT"}, Panics)'
      BY <1>8, <2>1
    <3>2. ASSUME InStep PROVE InStep'
      <4>1. PlainInStep
        BY <2>1, <3>2 DEF InStep
      <4>2. PlainInStep'
        BY <1>1, <2>1, <2>3, <3>1, <4>1 DEF PlainInStep, Current
      <4> QED
        BY <1>1, <2>1, <2>3, <3>2, <4>2 DEF InStep, Crashed
    <3>3. Trusted' => Trusted
      BY <1>6, <2>1
    <3>4. pc' \in Mounting \cup Testing \cup {"exit 1"} /\ pc' # "exit 0"
      BY <2>1, <2>3 DEF Testing, InTest
    <3> QED
      BY <1>2, <1>4, <1>7, <3>1, <3>2, <3>3, <3>4, StaysInStep DEF ScriptInStep
  <2> QED
    BY <1>9, <2>2, <2>3 DEF ReadExitCode
<1>10. CASE CopyResults
  <2>1. /\ pc = "exitcode" /\ wait = "prompt" /\ Consume({"PEXPECT_PROMPT"})
        /\ pc' \in {"exit 1", "mv", "rmxml", "poweroff"}
        /\ testsSuccessful' => testsSuccessful
    <3>1. pc = "exitcode" /\ wait = "prompt" /\ Consume({"PEXPECT_PROMPT"})
      BY <1>10 DEF CopyResults
    <3>2. CASE Dies /\ UNCHANGED testing
      BY <3>1, <3>2 DEF Dies, testing
    <3>3. CASE Run("mv") /\ UNCHANGED testing
      BY <3>1, <3>3 DEF Run, testing
    <3>4. CASE TestReturns(exitCode)
      <4>1. testsSuccessful' => testsSuccessful
        BY <3>4, Zenon DEF TestReturns, AllSoFar
      <4>2. Run("poweroff") \/ Run("rmxml")
        BY <3>4, Zenon DEF TestReturns, NextTest
      <4> QED
        BY <3>1, <4>1, <4>2 DEF Run
    <3> QED
      BY <1>10, <3>2, <3>3, <3>4 DEF CopyResults
  <2>2. pc' \in Mounting \cup Testing \cup {"exit 1"} /\ pc' # "exit 0"
    BY <2>1 DEF Testing, InTest
  <2>3. ASSUME Trusted' PROVE Doomed' \/ InStep'
    <3>1. ~sharedMountFailed /\ pc' # "exit 1" /\ Trusted
      BY <1>1, <1>6, <2>1, <2>3 DEF Trusted
    <3>2. PICK m \in Returned({"PEXPECT_PROMPT"}) : Run("mv") /\ delivered' = delivered /\ test' = test
      BY <1>10, <3>1 DEF CopyResults, Dies, testing
    <3>3. /\ ~Doomed /\ Shown' \subseteq Shown /\ (m = "PANIC" => Doomed')
          /\ m \in {"TIMEOUT", "EOF"} => m \in {"PEXPECT_PROMPT"}
          /\ m \notin {"TIMEOUT", "EOF"} => m \in Shown /\ m \in {"PEXPECT_PROMPT"} \cup {"PANIC"}
          /\ After(1, {"PEXPECT_PROMPT"}, Panics) /\ m = "PEXPECT_PROMPT" => From(1, Panics)'
      BY <1>8, <2>1
    <3>4. m \notin {"TIMEOUT", "EOF"}
      BY <1>3, <3>3
    <3>5. InStep
      BY <1>2, <1>7, <3>1, <3>3 DEF ScriptInStep
    <3>6. ASSUME m = "PEXPECT_PROMPT" PROVE InStep'
      <4>1. PlainInStep /\ dir = NumDirs + 1
        BY <2>1, <3>5 DEF InStep, Testing, InTest
      <4>2. commands = <<>> /\ running = Idle /\ From(1, Panics)'
        BY <3>3, <3>4, <3>6, <4>1 DEF PlainInStep
      <4>3. Shown' \subseteq Panics
        <5>1. \A j \in DOMAIN console' : 1 <= j
          <6>1. console' \in Seq(Message)
            BY <1>2, <1>3, <2>1, Expected
          <6> QED
            BY <6>1, ShortOnes, Zenon
        <5> QED
          BY <4>2, <5>1, Zenon DEF From, Shown, Range
      <4>4. pc' = "mv" /\ wait' = "send" /\ pc' \notin Retrying /\ pc' \in Commands
            /\ pc' \notin {"exitcode", "poweroff", "exit 0", "pwd"}
        BY <3>2 DEF Run, Retrying, Commands, Checked
      <4>5. CommandInStep'
        BY <1>1, <4>2, <4>3, <4>4 DEF CommandInStep, Calm
      <4>6. /\ canUseSmb' /\ pc' # "pwd"
            /\ typed' = <<>> /\ (phase' \in {"sh", "halted"} \/ Crashed')
        BY <1>1, <3>5, <4>4 DEF InStep, Crashed
      <4>7. /\ dir' = NumDirs + 1
            /\ \A d \in Dirs : d < dir' => mounts'[d] # <<>>
            /\ \A t \in Tests : t < test' => t \in delivered'
        BY <1>1, <3>2, <3>5, <4>1 DEF InStep
      <4> QED
        BY <3>2, <4>4, <4>5, <4>6, <4>7 DEF InStep, Run
    <3> QED
      BY <3>3, <3>4, <3>6
  <2> QED
    BY <1>4, <2>2, <2>3, StaysInStep
<1>11. CASE AwaitPoweroff
  <2>1. /\ pc = "poweroff" /\ wait = "answer" /\ Consume(PoweroffPatterns)
        /\ testsSuccessful' = testsSuccessful /\ delivered' = delivered /\ test' = test
        /\ pc' \in {"exit 1", "exit 2", "poweroff"}
        /\ pc' = "poweroff" => Returned(PoweroffPatterns) # {}
    BY <1>11 DEF AwaitPoweroff, Dies, ReadsOn, testing
  <2>2. pc' \in Mounting \cup Testing \cup {"exit 1"} /\ pc' # "exit 0"
    BY <2>1 DEF Testing, InTest
  <2>3. ASSUME Trusted' PROVE InStep'
    <3>1. pc' = "poweroff" /\ Trusted
      BY <1>6, <2>1, <2>3 DEF Trusted
    <3>2. ~Doomed
      BY <1>8, <2>1, <3>1
    <3>3. InStep
      BY <1>2, <1>7, <3>1, <3>2 DEF ScriptInStep
    <3> QED
      BY <1>1, <2>1, <3>1, <3>3 DEF InStep, Crashed
  <2> QED
    BY <1>4, <2>2, <2>3, StaysInStep
<1>12. CASE AwaitShutdown
  <2>1. /\ pc = "poweroff" /\ wait = "prompt" /\ Consume(ShutdownPatterns)
        /\ testsSuccessful' = testsSuccessful /\ delivered' = delivered /\ test' = test
        /\ pc' \in {"exit 0", "exit 1", "exit 2"}
        /\ pc' = "exit 0" =>
             Returned(ShutdownPatterns) # {} /\ testsSuccessful /\ ~sharedMountFailed
    BY <1>12 DEF AwaitShutdown, Dies, testing
  <2>2. pc' \in Mounting \cup Testing \cup {"exit 1"} /\ ~AtBoot'
    BY <2>1, AfterBoot DEF Testing, InTest
  <2>3. ASSUME Trusted' PROVE InStep'
    <3>1. pc' = "exit 0" /\ Trusted
      BY <1>6, <2>1, <2>3 DEF Trusted
    <3>2. ~Doomed
      BY <1>8, <2>1, <3>1
    <3>3. InStep /\ pc \in Testing /\ pc' \in Testing
      BY <1>2, <1>7, <2>1, <3>1, <3>2 DEF ScriptInStep, Testing, InTest
    <3> QED
      BY <1>1, <1>5, <2>1, <3>1, <3>3 DEF InStep, Crashed
  <2> QED
    BY <1>1, <1>4, <2>1, <2>2, <2>3 DEF StepInv, BootInStep, ScriptInStep
<1> QED
  BY <1>9, <1>10, <1>11, <1>12 DEF FinishStep

(* Before the first step there is nothing to be read.                      *)
LEMMA StartInStep ==
  ASSUME Init
  PROVE  StepInv
<1>1. /\ pc = "loader" /\ console = <<>> /\ typed = <<>> /\ canUseSmb = TRUE /\ dir = 1
  BY DEF Init, BootInit
<1>2. Shown = {} /\ Range(typed) = {} /\ DOMAIN console = {} /\ DOMAIN typed = {}
  BY <1>1, Tuples, ShortOnes DEF Shown
<1>3. AtBoot /\ pc \notin {"booted", "exit 0"}
  <2>1. pc \in BootPoints
    BY <1>1, Points DEF BeforeLogin, ForKernel
  <2> QED
    BY <1>1, <2>1 DEF AtBoot
<1>4. PromptComesLast
  BY <1>1, <1>2, <1>3 DEF PromptComesLast, After
<1> QED
  BY <1>1, <1>2, <1>3, <1>4 DEF StepInv, PanicGoesOn, BootInStep, ScriptInStep, Trusted

(* While nothing happens, nothing gets out of step.                        *)
LEMMA StutterInStep ==
  ASSUME StepInv, UNCHANGED vars
  PROVE  StepInv'
<1>1. /\ ShellIsStill /\ console' = console /\ phase' = phase
      /\ gaveUp' = gaveUp /\ testsSuccessful' = testsSuccessful
      /\ sharedMountFailed' = sharedMountFailed
  BY DEF vars, bootVars, runner, guest, tty, sessionVars, script, shell, mounting, testing,
         ShellIsStill
<1>2. OnlyPanics \/ ~PanicGoesOn
  BY <1>1 DEF OnlyPanics, Shown, PanicGoesOn, Doomed, After, From
<1>3. /\ (AtBoot' <=> AtBoot) /\ (Trusted' <=> Trusted) /\ (GivesUp' <=> GivesUp)
      /\ (Doomed' <=> Doomed) /\ (PromptComesLast' <=> PromptComesLast)
  BY <1>1 DEF ShellIsStill, AtBoot, Trusted, GivesUp, Recovers, Doomed, PromptComesLast, Shown,
              After
<1>4. InStep => InStep'
  BY <1>1, <1>2, PanicInStep DEF StepInv
<1> QED
  BY <1>1, <1>2, <1>3, <1>4 DEF StepInv, BootInStep, ScriptInStep, OnlyPanics, ShellIsStill

(* Every step of the script and of the guest leaves the two in step, or    *)
(* the script with a reason to exit with a failure.                        *)
THEOREM StaysMatched ==
  Spec => []StepInv
<1>1. IInv /\ TestEnds /\ StepInv /\ [Next]_vars => StepInv'
  <2> SUFFICES ASSUME IInv, TestEnds, StepInv, [Next]_vars PROVE StepInv'
    OBVIOUS
  <2>1. CASE GuestWorks
    BY <2>1, GuestInStep
  <2>2. CASE BootStep /\ UNCHANGED sessionVars
    BY <2>2, BootStepInStep
  <2>3. CASE SetUp
    BY <2>3, SetUpInStep
  <2>4. CASE SendCommand \/ SendPlain
    BY <2>4, SendInStep
  <2>5. CASE ReadCommand
    BY <2>5, ReadCommandInStep
  <2>6. CASE MountStep
    BY <2>6, MountStepInStep
  <2>7. CASE TestStep
    BY <2>7, TestStepInStep
  <2>8. CASE FinishStep
    BY <2>8, FinishStepInStep
  <2>9. CASE UNCHANGED vars
    BY <2>9, StutterInStep
  <2> QED
    BY <2>1, <2>2, <2>3, <2>4, <2>5, <2>6, <2>7, <2>8, <2>9 DEF Next
<1>2. Init => StepInv
  BY StartInStep
<1> QED
  BY <1>1, <1>2, Inductive, PTL DEF Spec

(* After the last test, every test lies behind.                            *)
LEMMA TestsAreNumbered ==
  \A t \in Tests : t < NumTests + 1
<1>1. NumTests \in Nat
  BY SessionAssumption DEF SessionAssumption
<1> QED
  BY <1>1 DEF Tests

(* Exit code 0 means that the results of every test have left the guest,    *)
(* unless a command was given up after a timeout.                          *)
THEOREM ResultsReachHost ==
  Spec => []ResultsAreKept
<1>1. IInv /\ StepInv => ResultsAreKept
  <2> SUFFICES ASSUME IInv, StepInv, pc = "exit 0", ~gaveUp PROVE delivered = Tests
    BY DEF ResultsAreKept
  <2>1. ~AtBoot /\ pc \notin Commands
    <3>1. pc \in Testing
      BY DEF Testing, InTest
    <3> QED
      BY <3>1, Places DEF AtBoot, Commands, Checked, Plain
  <2>2. Trusted
    BY <2>1 DEF Trusted, StepInv
  <2>3. InStep
    BY <2>1, <2>2 DEF StepInv, ScriptInStep, GivesUp
  <2>4. test = NumTests + 1 /\ delivered \subseteq Tests
    BY DEF IInv, Types, ShellTypes, TestsAreCounted
  <2>5. \A t \in Tests : t < test
    BY <2>4, TestsAreNumbered
  <2>6. Tests \subseteq delivered
    BY <2>3, <2>5 DEF InStep
  <2> QED
    BY <2>4, <2>6
<1> QED
  BY <1>1, StaysMatched, Inductive, PTL
================================================================================
