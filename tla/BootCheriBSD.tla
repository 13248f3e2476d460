---------------------------- MODULE BootCheriBSD ----------------------------
(***************************************************************************)
(* boot_and_login(): a script that waits for what a guest prints, and types *)
(* answers, until it has a shell with a prompt of its own.                  *)
(*                                                                         *)
(* The guest runs ahead of the script: "console" is what it has printed and *)
(* no expect() has consumed.  expect() takes the first message in it that   *)
(* is one of its patterns, drops everything before it, and adds the         *)
(* patterns of a kernel panic to those of its caller.  What the guest does  *)
(* is external: any order of messages a CheriBSD boot can show, any speed,  *)
(* a panic or the end of QEMU at any point.                                 *)
(***************************************************************************)
EXTENDS Integers, Sequences, FiniteSets

CONSTANTS
  Abis,         (* CHERI kernel ABIs, named by the message that announces them *)
  Configs       (* the configurations the model ranges over                    *)

(* What a guest prints while it boots, the names of the ABIs apart; the     *)
(* messages are named as the constants of the module.                      *)
BootOutput ==
  {"AUTOBOOT_PROMPT", "BOOT_LOADER_PROMPT", "TRYING_TO_MOUNT_ROOT", "STARTING_INIT",
   "CHERI_TRAP", "BOOT_FAILURE", "BOOT_FAILURE3", "LOGIN", "LOGIN_AS_ROOT_MINIMAL",
   "SHELL_OPEN", "INITIAL_PROMPT_CSH", "INITIAL_PROMPT_SH", "PEXPECT_PROMPT", "PANIC",
   "PANIC_KDB", "DHCPACK", "bound to", "already running", "no interface"}

ASSUME BootAssumption ==
  /\ IsFiniteSet(Abis)
  /\ Abis \cap (BootOutput \cup {"TIMEOUT", "EOF", "none", "any"}) = {}
  /\ Configs \subseteq
       [ loaderKernelDir: BOOLEAN,       \* an alternate kernel was asked for
         abi: Abis \cup {"any"},         \* --expected-kernel-abi
         networkInterface: BOOLEAN ]     \* there is one to set up

VARIABLES
  config,       (* what the script was asked for                               *)
  pc,           (* the expect() it is at                                       *)
  ranManualBoot, haveDhclient,
  phase,        (* guest: what runs                                            *)
  kernel,       (* guest: which kernel was loaded                              *)
  net,          (* guest: "down", "dhclient" (running) or "up"                 *)
  ownPrompt,    (* guest: PS1 is the script's                                  *)
  console,      (* printed, and not yet consumed by an expect()                *)
  typed         (* sent to the guest, and not yet read by it                   *)

runner == <<pc, ranManualBoot, haveDhclient>>
guest == <<phase, kernel, net, ownPrompt>>
tty == <<console, typed>>
bootVars == <<config, runner, guest, tty>>

-----------------------------------------------------------------------------
(* The lists of messages that the script waits for.                        *)
BootFailures == {"BOOT_FAILURE", "BOOT_FAILURE3"}
InitMessages ==
  {"STARTING_INIT", "CHERI_TRAP"} \cup BootFailures \cup Abis
BootMessages == InitMessages \cup {"TRYING_TO_MOUNT_ROOT"}
LoaderBootPromptMessages == BootMessages \cup {"BOOT_LOADER_PROMPT"}
LoaderBootMessages == LoaderBootPromptMessages \cup {"AUTOBOOT_PROMPT"}
BootExpectStrings == {"LOGIN", "LOGIN_AS_ROOT_MINIMAL", "SHELL_OPEN"} \cup BootFailures
InitialPrompts == {"INITIAL_PROMPT_CSH", "INITIAL_PROMPT_SH"}

(* The patterns of a panic, in their order; the second stands for all but  *)
(* the first: page faults, capability aborts, the debugger, backtraces.    *)
PanicRegexes == <<"PANIC", "PANIC_KDB">>
Panics == { PanicRegexes[n] : n \in DOMAIN PanicRegexes }

(* The patterns of the expect() at each point; the exceptions that a       *)
(* caller lists are results, and others are raised.                        *)
Patterns ==
  [ loader       |-> LoaderBootMessages,
    loaderPrompt |-> LoaderBootPromptMessages,
    kernel       |-> BootMessages,
    rootfs       |-> BootMessages,
    login        |-> BootExpectStrings \cup {"DHCPACK", "CHERI_TRAP"},
    loginOnly    |-> BootExpectStrings \cup {"CHERI_TRAP"},
    firstPrompt  |-> InitialPrompts,
    posixPrompt  |-> InitialPrompts,
    rcPrompt     |-> {"INITIAL_PROMPT_SH"},
    cshPrompt    |-> {"INITIAL_PROMPT_SH"},
    minimal      |-> {"INITIAL_PROMPT_SH"},
    setPrompt    |-> {"PEXPECT_PROMPT"},
    dhclient     |-> {"TIMEOUT", "DHCPACK", "already running", "no interface"},
    bound        |-> {"TIMEOUT", "bound to"},
    noInterface  |-> {"PEXPECT_PROMPT"},
    netPrompt    |-> {"PEXPECT_PROMPT"} ]

BootPoints == DOMAIN Patterns
NoKernel == [abi |-> "none", alternate |-> FALSE]

(* What expect() with these patterns may return or raise, and what it      *)
(* leaves.  The time can be up whenever nothing matches.                   *)
Matches(patterns) ==
  { n \in DOMAIN console : console[n] \in patterns \cup Panics }

FirstMatch(patterns) ==
  CHOOSE n \in Matches(patterns) : \A k \in Matches(patterns) : n <= k

Outcomes(patterns) ==
  IF Matches(patterns) # {} THEN { console[FirstMatch(patterns)] }
  ELSE {"TIMEOUT"} \cup (IF phase = "dead" THEN {"EOF"} ELSE {})

Consume(patterns) ==
  console' = IF Matches(patterns) = {} THEN console
             ELSE SubSeq(console, FirstMatch(patterns) + 1, Len(console))

(* A mutant: also overlook the second of the patterns.                     *)
DetectsLate(index, options) == index > options + 1

(* "if i > len(options)": the panic patterns are numbered from             *)
(* len(options) on, after the caller's.                                    *)
Detects(index, options) == index > options

Raises(patterns, m) ==
  \/ m \in {"TIMEOUT", "EOF"} \ patterns
  \/ \E n \in DOMAIN PanicRegexes :
       /\ m = PanicRegexes[n]
       /\ Detects(Cardinality(patterns) + n - 1, Cardinality(patterns))

Returned(patterns) == { m \in Outcomes(patterns) : ~Raises(patterns, m) }
Awaited(point) == IF pc = point THEN Returned(Patterns[point]) ELSE {}

Send(line) == typed' = Append(typed, line)

-----------------------------------------------------------------------------
(* The guest, from the firmware to a shell.                                *)
NextLine == IF typed = <<>> THEN "" ELSE Head(typed)
Prints(messages) == console' = console \o messages

StartKernel(alternate) ==
  \E abi \in Abis \cup {"none"} :
    /\ phase' = "kernel"
    /\ kernel' = [abi |-> abi, alternate |-> alternate]
    /\ Prints(IF abi = "none" THEN <<>> ELSE <<abi>>)

Firmware ==
  /\ phase = "firmware"
  /\ \/ phase' = "autoboot" /\ Prints(<<"AUTOBOOT_PROMPT">>) /\ UNCHANGED kernel
     \/ phase' = "loader" /\ Prints(<<"BOOT_LOADER_PROMPT">>) /\ UNCHANGED kernel
     \/ StartKernel(FALSE)
  /\ UNCHANGED <<net, ownPrompt, typed>>

(* The countdown ends, or a key ends it: too late if the kernel is loaded. *)
Autoboot ==
  /\ phase = "autoboot"
  /\ \/ /\ NextLine = "escape"
        /\ phase' = "loader"
        /\ Prints(<<"BOOT_LOADER_PROMPT">>)
        /\ UNCHANGED kernel
     \/ StartKernel(FALSE)
  /\ typed' = <<>>
  /\ UNCHANGED <<net, ownPrompt>>

LoaderCommand ==
  /\ phase = "loader"
  /\ NextLine = "boot"
  /\ StartKernel(config.loaderKernelDir)
  /\ typed' = Tail(typed)
  /\ UNCHANGED <<net, ownPrompt>>

MountRoot ==
  /\ phase = "kernel"
  /\ \/ phase' = "failed" /\ Prints(<<"TRYING_TO_MOUNT_ROOT", "BOOT_FAILURE3">>)
     \/ phase' = "rc" /\ Prints(<<"TRYING_TO_MOUNT_ROOT">>)
     \/ phase' = "rc" /\ Prints(<<"TRYING_TO_MOUNT_ROOT", "STARTING_INIT">>)
  /\ UNCHANGED <<kernel, net, ownPrompt, typed>>

(* /etc/rc starts dhclient or does not, services may trap, and a login     *)
(* prompt or one of two kinds of shell comes up.                           *)
RunCommands ==
  /\ phase = "rc"
  /\ \E trap \in {<<>>, <<"CHERI_TRAP">>}, network \in {"down", "dhclient", "up"} :
       /\ net' = network
       /\ LET before == trap \o (IF network = "up" THEN <<"DHCPACK">> ELSE <<>>)
          IN \/ phase' = "failed" /\ Prints(before \o <<"BOOT_FAILURE">>)
             \/ phase' = "login" /\ Prints(before \o <<"LOGIN">>)
             \/ phase' = "sh" /\ Prints(before \o <<"SHELL_OPEN", "INITIAL_PROMPT_SH">>)
             \/ phase' = "csh"
                /\ Prints(before \o <<"LOGIN_AS_ROOT_MINIMAL", "INITIAL_PROMPT_SH">>)
  /\ UNCHANGED <<kernel, ownPrompt, typed>>

LogIn ==
  /\ phase = "login"
  /\ \/ NextLine = "root" /\ phase' = "csh" /\ Prints(<<"INITIAL_PROMPT_CSH">>)
     \/ NextLine = "root" /\ phase' = "sh" /\ Prints(<<"INITIAL_PROMPT_SH">>)
     \/ NextLine = "enter" /\ phase' = phase /\ Prints(<<"LOGIN">>)
  /\ typed' = Tail(typed)
  /\ UNCHANGED <<kernel, net, ownPrompt>>

(* What a line typed in the shell does; csh does not know PS1.             *)
ShellLine ==
  /\ phase \in {"csh", "sh"}
  /\ \/ /\ NextLine = "enter"
        /\ Prints(<<"INITIAL_PROMPT_SH">>)
        /\ UNCHANGED <<phase, net, ownPrompt>>
     \/ /\ NextLine = "sh"
        /\ phase' = "sh"
        /\ \E prompt \in InitialPrompts : Prints(<<prompt>>)
        /\ UNCHANGED <<net, ownPrompt>>
     \/ /\ NextLine = "PS1="
        /\ ownPrompt' = (phase = "sh")
        /\ Prints(<<IF phase = "sh" THEN "PEXPECT_PROMPT" ELSE "INITIAL_PROMPT_CSH">>)
        /\ UNCHANGED <<phase, net>>
     \/ /\ NextLine = "dhclient"
        /\ \/ net' = "up" /\ Prints(<<"DHCPACK", "bound to", "PEXPECT_PROMPT">>)
           \/ net = "dhclient" /\ net' = net /\ Prints(<<"already running", "PEXPECT_PROMPT">>)
           \/ net' = net /\ Prints(<<"no interface", "PEXPECT_PROMPT">>)
        /\ UNCHANGED <<phase, ownPrompt>>
  /\ typed' = Tail(typed)
  /\ UNCHANGED kernel

(* A panic begins with any of the patterns; the debugger or a backtrace    *)
(* follows.  A process of QEMU that ends leaves EOF.                       *)
KernelPanic ==
  /\ phase \notin {"firmware", "autoboot", "loader", "panicked", "dead"}
  /\ phase' = "panicked"
  /\ \E first \in Panics : Prints(<<first, "PANIC_KDB">>)
  /\ UNCHANGED <<config, runner, kernel, net, ownPrompt, typed>>

QemuDies ==
  /\ phase # "dead"
  /\ phase' = "dead"
  /\ UNCHANGED <<config, runner, kernel, net, ownPrompt, tty>>

GuestBoots ==
  /\ Firmware \/ Autoboot \/ LoaderCommand \/ MountRoot \/ RunCommands \/ LogIn \/ ShellLine
  /\ UNCHANGED <<config, runner>>

(* The end of the script is the end of QEMU.                               *)
GuestStep == pc # "exit 1" /\ (GuestBoots \/ KernelPanic \/ QemuDies)

-----------------------------------------------------------------------------
(* The script.  failure(exit=True), a panic that is detected and an        *)
(* exception that nobody catches all end it with exit code 1.              *)
Goto(point) == pc' = point

ExpectFails ==
  /\ Outcomes(Patterns[pc]) # Returned(Patterns[pc])
  /\ Goto("exit 1")
  /\ UNCHANGED <<ranManualBoot, haveDhclient, typed>>

(* A mutant of the next one: also wait for the root file system if any      *)
(* kernel will do.                                                         *)
ContinueLate(m) ==
  IF config.abi \in {"any", m} THEN Goto("rootfs") ELSE Goto("exit 1")

(* The kernel has to be of the kind that was asked for.                    *)
Continue(m) ==
  IF config.abi = "any" THEN Goto("login") ELSE
  IF m = config.abi THEN Goto("rootfs") ELSE Goto("exit 1")

AwaitLoader ==
  \E m \in Awaited("loader") :
    /\ \/ m = "AUTOBOOT_PROMPT" /\ config.loaderKernelDir
          /\ Send("escape") /\ Goto("loaderPrompt") /\ UNCHANGED ranManualBoot
       \/ m = "AUTOBOOT_PROMPT" /\ ~config.loaderKernelDir
          /\ Send("enter") /\ Goto("kernel") /\ UNCHANGED ranManualBoot
       \/ m = "BOOT_LOADER_PROMPT"
          /\ Send("boot") /\ Goto("kernel") /\ ranManualBoot' = TRUE
       \/ m = "PANIC" /\ Goto("kernel") /\ UNCHANGED <<typed, ranManualBoot>>
       \/ m \in BootMessages /\ UNCHANGED <<typed, ranManualBoot>> /\
            IF config.loaderKernelDir THEN Goto("exit 1") ELSE Continue(m)
    /\ UNCHANGED haveDhclient

AwaitLoaderPrompt ==
  \E m \in Awaited("loaderPrompt") :
    /\ \/ m # "BOOT_LOADER_PROMPT" /\ Goto("exit 1") /\ UNCHANGED <<typed, ranManualBoot>>
       \/ m = "BOOT_LOADER_PROMPT"
          /\ Send("boot") /\ Goto("kernel") /\ ranManualBoot' = TRUE
    /\ UNCHANGED haveDhclient

AwaitKernel ==
  \E m \in Awaited("kernel") :
    /\ IF config.loaderKernelDir /\ ~ranManualBoot THEN Goto("exit 1") ELSE Continue(m)
    /\ UNCHANGED <<ranManualBoot, haveDhclient, typed>>

AwaitRootfs ==
  \E m \in Awaited("rootfs") :
    /\ Goto("login")
    /\ UNCHANGED <<ranManualBoot, haveDhclient, typed>>

LoggedIn(m) ==
  \/ m = "LOGIN" /\ Send("root") /\ Goto("firstPrompt")
  \/ m = "SHELL_OPEN" /\ Goto("rcPrompt") /\ UNCHANGED typed
  \/ m = "LOGIN_AS_ROOT_MINIMAL" /\ Goto("cshPrompt") /\ UNCHANGED typed
  \/ m \in BootFailures \cup {"CHERI_TRAP", "PANIC"} /\ Goto("exit 1") /\ UNCHANGED typed

AwaitLogin ==
  \E m \in Awaited("login") \cup Awaited("loginOnly") :
    /\ IF m = "DHCPACK"
       THEN haveDhclient' = TRUE /\ Goto("loginOnly") /\ UNCHANGED typed
       ELSE LoggedIn(m) /\ UNCHANGED haveDhclient
    /\ UNCHANGED ranManualBoot

(* Whatever shell there is, end up in a POSIX shell, and set its prompt.   *)
AwaitShell ==
  /\ \/ \E m \in Awaited("firstPrompt") :
          IF m = "INITIAL_PROMPT_CSH"
          THEN Send("sh") /\ Goto("posixPrompt")
          ELSE Send("PS1=") /\ Goto("setPrompt")
     \/ Awaited("cshPrompt") # {} /\ Send("sh") /\ Goto("minimal")
     \/ /\ Awaited("posixPrompt") \cup Awaited("rcPrompt") \cup Awaited("minimal") # {}
        /\ Send("PS1=") /\ Goto("setPrompt")
  /\ UNCHANGED <<ranManualBoot, haveDhclient>>

(* A mutant of the next one: the test of the interface is inverted.        *)
NoneOrSome == haveDhclient \/ config.networkInterface

NeedsNoDhclient == haveDhclient \/ ~config.networkInterface

AwaitOwnPrompt ==
  \E m \in Awaited("setPrompt") :
    /\ IF NeedsNoDhclient
       THEN Goto("booted") /\ UNCHANGED typed
       ELSE Send("dhclient") /\ Goto("dhclient")
    /\ UNCHANGED <<ranManualBoot, haveDhclient>>

(* start_dhclient().                                                       *)
AwaitDhclient ==
  /\ \/ \E m \in Awaited("dhclient") :
          \/ m = "TIMEOUT" /\ Goto("exit 1")
          \/ m = "DHCPACK" /\ Goto("bound")
          \/ m = "no interface" /\ Goto("noInterface")
          \/ m \in {"already running", "PANIC"} /\ Goto("netPrompt")
     \/ \E m \in Awaited("bound") :
          IF m = "TIMEOUT" THEN Goto("exit 1") ELSE Goto("netPrompt")
     \/ Awaited("noInterface") # {} /\ Goto("exit 1")
     \/ Awaited("netPrompt") # {} /\ Goto("booted")
  /\ UNCHANGED <<ranManualBoot, haveDhclient, typed>>

BootStep ==
  /\ pc \in BootPoints
  /\ Consume(Patterns[pc])
  /\ \/ ExpectFails \/ AwaitLoader \/ AwaitLoaderPrompt \/ AwaitKernel \/ AwaitRootfs
     \/ AwaitLogin \/ AwaitShell \/ AwaitOwnPrompt \/ AwaitDhclient
  /\ UNCHANGED <<config, guest>>

BootInit ==
  /\ config \in Configs
  /\ pc = "loader"
  /\ ranManualBoot = FALSE /\ haveDhclient = FALSE
  /\ phase = "firmware" /\ kernel = NoKernel
  /\ net = "down" /\ ownPrompt = FALSE
  /\ console = <<>> /\ typed = <<>>

BootNext == GuestStep \/ BootStep
BootSpec == BootInit /\ [][BootNext]_bootVars

-----------------------------------------------------------------------------
BootTypeOK ==
  /\ config \in Configs
  /\ ranManualBoot \in BOOLEAN /\ haveDhclient \in BOOLEAN
  /\ phase \in {"firmware", "autoboot", "loader", "kernel", "rc", "login", "csh", "sh",
                "failed", "panicked", "halted", "dead"}
  /\ kernel \in [abi: Abis \cup {"none"}, alternate: BOOLEAN]
  /\ net \in {"down", "dhclient", "up"} /\ ownPrompt \in BOOLEAN
  /\ typed \in Seq({"escape", "enter", "boot", "root", "sh", "PS1=", "dhclient"})

(* When boot_and_login() returns, a guest that has not crashed since has a  *)
(* POSIX shell with the script's prompt and, if there is an interface, a   *)
(* dhclient; it runs the kernel, and the kind of kernel, that was asked    *)
(* for, whichever of the loader's and login's ways it came.                *)
BootedIsReady ==
  pc = "booted" /\ phase \notin {"panicked", "dead"} =>
    /\ phase = "sh" /\ ownPrompt
    /\ config.networkInterface => net # "down"
    /\ config.loaderKernelDir => kernel.alternate
    /\ config.abi # "any" => kernel.abi = config.abi

(* The messages of a boot that has failed are also in the lists of the      *)
(* expect() calls that wait for the kernel and the root file system, whose *)
(* results are not looked at.  None of them eats such a message, so that   *)
(* the login prompt is not waited for in vain for 90 minutes.              *)
FailureIsNoticed ==
  phase = "failed" /\ pc \in BootPoints =>
    \E n \in DOMAIN console : console[n] \in BootFailures

(* A panic prints two of the patterns and then nothing.  The script cannot *)
(* have read both without giving up, wherever it was.                      *)
PanicIsNoticed == phase = "panicked" /\ console = <<>> => pc = "exit 1"

(* "EXITING DUE TO KERNEL PANIC!": a panic that was read ends the script.  *)
PanicIsFatal == phase = "panicked" /\ Len(console) < 2 => pc = "exit 1"
=============================================================================
