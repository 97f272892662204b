----------------------------- MODULE Supervisor -----------------------------
(***************************************************************************)
(* One robotd daemon and the Master processes it supervises.               *)
(*                                                                         *)
(* robot::daemon::monitor_proc forks a Master, waits for signals, restarts *)
(* a Master that died, reloads the configuration on SIGHUP and forwards    *)
(* the SIGHUP, and on any other watched signal sends SIGTERM to the Master *)
(* and leaves its loop.  robot::master::work_proc runs in the child: it    *)
(* boots, then waits for SIGHUP (reload) and SIGTERM (stop).  Command-line *)
(* clients write the path of a configuration to CONFIG_LOAD and send       *)
(* SIGHUP.  Every watched signal is blocked in both processes, so a signal *)
(* is a member of a pending set until sigwaitinfo or sigwait takes it.     *)
(***************************************************************************)
EXTENDS Naturals, FiniteSets

CONSTANTS
  Pid,         (* process ids the kernel gives to Masters                   *)
  NoPid,       (* the value of daemon::pid while there is no Master         *)
  User,        (* concurrently running `robotd load` commands               *)
  Config,      (* configuration files, by name and content                  *)
  Kind,        (* what daemon_load_config makes of each of them             *)
  Blank,       (* CONFIG_LOAD after fopen("w"), before its line is flushed  *)
  NoConf,      (* loader statics of a process that does not exist           *)
  EnvSignals,  (* signals that reach the daemon from outside                *)
  Faults,      (* the faults of the environment this instance allows        *)
  Debug        (* built with -DDEBUG                                        *)

(* "valid" states every setting and is applied in full; "sparse" leaves    *)
(* out an optional setting, which keeps the value it had; "partial" fails  *)
(* after its first settings were assigned, "unreadable" before; "throws"   *)
(* lacks a section, or has a port too large under a level that lets the    *)
(* warning of it through, and nothing between the exception this raises    *)
(* and monitor_proc() throw() or work_proc() throw() catches it.           *)
Kinds == {"valid", "sparse", "partial", "unreadable", "throws"}

AllFaults == {"fork", "boot", "crash", "hang", "eintr", "jobcontrol", "sigkill"}

(* The signals of the daemon's set, monitor_proc's sigaddset calls.        *)
Watched == {"SIGQUIT", "SIGINT", "SIGTERM", "SIGCHLD", "SIGHUP"}

ASSUME PidAssumption == NoPid \notin Pid
ASSUME ConfigAssumption == /\ Kind \in [Config -> Kinds]
                           /\ Blank \notin Config
ASSUME EnvAssumption == /\ EnvSignals \subseteq Watched \ {"SIGCHLD"}
                        /\ Faults \subseteq AllFaults
                        /\ Debug \in BOOLEAN

VARIABLES
  dpc,        (* where the daemon is in monitor_proc                        *)
  needStart,  (* need_start                                                 *)
  pid,        (* daemon::pid                                                *)
  signo,      (* siginfo.si_signo, uninitialised before the first signal    *)
  dpending,   (* signals pending for the daemon                             *)
  pidFile,    (* the PID file written by set_pid_file exists                *)
  master,     (* the state of each Master process                           *)
  mpending,   (* signals pending for each Master                            *)
  code,       (* WEXITSTATUS of each Master that has not been reaped        *)
  halted,     (* Masters stopped by job control                             *)
  confFile,   (* the configuration CONFIG_LOAD names                        *)
  dconf,      (* the daemon's loader statics                                *)
  mconf,      (* each Master's loader statics                               *)
  upc, uconf  (* where each `robotd load` is, and the file it loads         *)

dvars == <<dpc, needStart, pid, signo>>
mvars == <<master, mpending, code, halted, mconf>>
uvars == <<upc, uconf>>
vars  == <<dvars, dpending, pidFile, mvars, confFile, dconf, uvars>>
-----------------------------------------------------------------------------
(* Exit codes.  A Master killed by a signal has WEXITSTATUS 0.             *)
CHILD_NEED_TERMINATE == 2
CHILD_NEED_WORK      == 3
KILLED               == 0

(* self_debug, the handler of SIGFPE, SIGILL, SIGSEGV and SIGBUS, exits    *)
(* with the first code or, when backtrace fails, the second; SIGABRT and   *)
(* SIGKILL have no handler.                                                *)
CrashCodes == {IF Debug THEN CHILD_NEED_TERMINATE ELSE CHILD_NEED_WORK,
               CHILD_NEED_WORK, KILLED}

(* Boot ends early with CHILD_NEED_TERMINATE (a signal or rlimit call      *)
(* failed, or the port is taken in a debug build), CHILD_NEED_WORK         *)
(* (RLIMIT_STACK, or the port in a release build) or an exception of the   *)
(* resolver that terminates the process.                                   *)
BootCodes == {CHILD_NEED_TERMINATE, CHILD_NEED_WORK, KILLED}

(* The loader statics, by the file they were last taken from: `early` are  *)
(* the optional ones daemon_load_config assigns as it goes (thread_count), *)
(* `late` the last it assigns, the slave's.  Module Loader has them all.   *)
LoaderState == [early : Config, late : Config]
Full(c) == [early |-> c, late |-> c]

(* Mutant: an empty CONFIG_LOAD passes for a configuration.                *)
KindOfBlankValid(c) == IF c = Blank THEN "valid" ELSE Kind[c]

KindOf(c) == IF c = Blank THEN "unreadable" ELSE Kind[c]

Loaded(c, st) == CASE KindOf(c) = "valid"   -> Full(c)
                   [] KindOf(c) = "sparse"  -> [st EXCEPT !.late = c]
                   [] KindOf(c) = "partial" -> [st EXCEPT !.early = c]
                   [] OTHER                 -> st

Live(p) == master[p] \in {"boot", "ready", "reload", "hung"}
Runs(p) == Live(p) /\ p \notin halted

(* kill(p, s): a zombie takes the signal without effect.                   *)
Kill(p, s) == mpending' = [mpending EXCEPT ![p] = IF Live(p) THEN @ \cup {s} ELSE @]

(* A Master process ends.  Its parent keeps a zombie and gets SIGCHLD;     *)
(* init reaps it at once when the daemon is gone.                          *)
Exit(p, c) ==
  /\ IF dpc = "gone"
     THEN /\ master' = [master EXCEPT ![p] = "free"]
          /\ UNCHANGED <<code, dpending>>
     ELSE /\ master' = [master EXCEPT ![p] = "zombie"]
          /\ code' = [code EXCEPT ![p] = c]
          /\ dpending' = dpending \cup {"SIGCHLD"}
  /\ mpending' = [mpending EXCEPT ![p] = {}]
  /\ mconf' = [mconf EXCEPT ![p] = NoConf]
  /\ halted' = halted \ {p}

(* The daemon process ends: nothing is pending for it any more, and init   *)
(* inherits its children and reaps the zombies.                            *)
DaemonEnds ==
  /\ dpc' = "gone"
  /\ dpending' = {}
  /\ master' = [p \in Pid |-> IF master[p] = "zombie" THEN "free" ELSE master[p]]
  /\ code' = [p \in Pid |-> KILLED]
  /\ UNCHANGED <<needStart, pid, signo, mpending, halted, mconf, confFile, dconf, uvars>>
-----------------------------------------------------------------------------
(* monitor_proc: the top of the loop.                                      *)

(* need_start is set: fork.  The child inherits the loader statics and the *)
(* blocked mask; its pending set is empty.                                 *)
Fork(p) ==
  /\ dpc = "top" /\ needStart
  /\ master[p] = "free"
  /\ pid' = p
  /\ dpc' = "sigwait"
  /\ master' = [master EXCEPT ![p] = "boot"]
  /\ mconf' = [mconf EXCEPT ![p] = dconf]
  /\ UNCHANGED <<needStart, signo, dpending, pidFile, mpending, code, halted,
                 confFile, dconf, uvars>>

(* A SIGHUP was handled: keep the child; need_start = 1 for the next turn. *)
KeepMaster ==
  /\ dpc = "top" /\ ~needStart
  /\ needStart' = TRUE
  /\ dpc' = "sigwait"
  /\ UNCHANGED <<pid, signo, dpending, pidFile, mvars, confFile, dconf, uvars>>

(* fork returned -1: exit(EXIT_FAILURE), which does not run ~daemon.       *)
ForkFails ==
  /\ "fork" \in Faults
  /\ dpc = "top" /\ needStart
  /\ DaemonEnds
  /\ UNCHANGED pidFile

(* Mutant: the signal is looked at and stays pending.                      *)
SigWaitInfoPeeks(s) ==
  /\ dpc = "sigwait"
  /\ s \in dpending
  /\ signo' = s
  /\ dpc' = "dispatch"
  /\ UNCHANGED <<needStart, pid, dpending, pidFile, mvars, confFile, dconf, uvars>>

(* sigwaitinfo takes one pending signal, in no specified order.            *)
SigWaitInfo(s) ==
  /\ dpc = "sigwait"
  /\ s \in dpending
  /\ signo' = s
  /\ dpending' = dpending \ {s}
  /\ dpc' = "dispatch"
  /\ UNCHANGED <<needStart, pid, pidFile, mvars, confFile, dconf, uvars>>

(* sigwaitinfo returned -1 (EINTR after the daemon was stopped and         *)
(* continued): the error is logged and the old siginfo is dispatched.      *)
SigWaitInfoFails ==
  /\ "eintr" \in Faults
  /\ dpc = "sigwait"
  /\ dpc' = "dispatch"
  /\ UNCHANGED <<needStart, pid, signo, dpending, pidFile, mvars, confFile, dconf, uvars>>
-----------------------------------------------------------------------------
(* monitor_proc: the three branches on si_signo.                           *)

(* Mutant: SIGCHLD takes the way of SIGHUP and keeps the child.            *)
OnSigChldKeeps ==
  /\ dpc = "dispatch" /\ signo = "SIGCHLD"
  /\ needStart' = FALSE
  /\ dpc' = "top"
  /\ UNCHANGED <<pid, signo, dpending, pidFile, mvars, confFile, dconf, uvars>>

(* SIGCHLD: the daemon calls wait(&status) and blocks in it.               *)
OnSigChld ==
  /\ dpc = "dispatch" /\ signo = "SIGCHLD"
  /\ dpc' = "wait"
  /\ UNCHANGED <<needStart, pid, signo, dpending, pidFile, mvars, confFile, dconf, uvars>>

(* wait returns with a dead child.  POSIX lets it clear the SIGCHLD of     *)
(* that child from the pending set; Linux leaves it.                       *)
Reap(p) ==
  /\ dpc = "wait"
  /\ master[p] = "zombie"
  /\ dpending' \in {dpending, dpending \ {"SIGCHLD"}}
  /\ master' = [master EXCEPT ![p] = "free"]
  /\ code' = [code EXCEPT ![p] = KILLED]
  /\ dpc' = IF code[p] = CHILD_NEED_TERMINATE THEN "leave" ELSE "top"
  /\ UNCHANGED <<needStart, pid, signo, pidFile, mpending, halted, mconf,
                 confFile, dconf, uvars>>

(* Mutant: the reload is left to the Master.                               *)
OnSigHupUnread ==
  /\ dpc = "dispatch" /\ signo = "SIGHUP"
  /\ KindOf(confFile) # "throws"
  /\ dpc' = "forward"
  /\ UNCHANGED <<needStart, pid, signo, dpending, pidFile, mvars, confFile, dconf, uvars>>

(* SIGHUP: reload_config reads CONFIG_LOAD and loads the file it names.    *)
OnSigHup ==
  /\ dpc = "dispatch" /\ signo = "SIGHUP"
  /\ KindOf(confFile) # "throws"
  /\ dconf' = Loaded(confFile, dconf)
  /\ dpc' = "forward"
  /\ UNCHANGED <<needStart, pid, signo, dpending, pidFile, mvars, confFile, uvars>>

(* ... and when an exception leaves it, monitor_proc() throw() aborts.     *)
OnSigHupThrows ==
  /\ dpc = "dispatch" /\ signo = "SIGHUP"
  /\ KindOf(confFile) = "throws"
  /\ DaemonEnds
  /\ UNCHANGED pidFile

(* Mutants: need_start is not cleared; the child is not told.              *)
ForwardAndFork ==
  /\ dpc = "forward"
  /\ Kill(pid, "SIGHUP")
  /\ dpc' = "top"
  /\ UNCHANGED <<needStart, pid, signo, dpending, pidFile, master, code, halted, mconf,
                 confFile, dconf, uvars>>
ForwardUnsent ==
  /\ dpc = "forward"
  /\ needStart' = FALSE
  /\ dpc' = "top"
  /\ UNCHANGED <<pid, signo, dpending, pidFile, mvars, confFile, dconf, uvars>>

(* The SIGHUP is forwarded whether or not the reload succeeded.            *)
Forward ==
  /\ dpc = "forward"
  /\ Kill(pid, "SIGHUP")
  /\ needStart' = FALSE
  /\ dpc' = "top"
  /\ UNCHANGED <<pid, signo, dpending, pidFile, master, code, halted, mconf,
                 confFile, dconf, uvars>>

(* Mutant: the Master is not told to stop.                                 *)
OnStopSignalUnsent ==
  /\ dpc = "dispatch" /\ signo \notin {"SIGCHLD", "SIGHUP"}
  /\ dpc' = "leave"
  /\ UNCHANGED <<needStart, pid, signo, dpending, pidFile, mvars, confFile, dconf, uvars>>

(* Any other value of si_signo: SIGTERM to the Master, break.              *)
OnStopSignal ==
  /\ dpc = "dispatch" /\ signo \notin {"SIGCHLD", "SIGHUP"}
  /\ Kill(pid, "SIGTERM")
  /\ dpc' = "leave"
  /\ UNCHANGED <<needStart, pid, signo, dpending, pidFile, master, code, halted,
                 mconf, confFile, dconf, uvars>>

(* monitor_proc returned, main returns: ~daemon unlinks the PID file.      *)
Destroy ==
  /\ dpc = "leave"
  /\ DaemonEnds
  /\ pidFile' = FALSE

(* The daemon is killed outright.                                          *)
DaemonKilled ==
  /\ "sigkill" \in Faults
  /\ dpc # "gone"
  /\ DaemonEnds
  /\ UNCHANGED pidFile
-----------------------------------------------------------------------------
(* work_proc, in the child.                                                *)

(* Constructor, handlers, mask, limits, services and threads, up to the    *)
(* first sigwait.                                                          *)
Boot(p) ==
  /\ master[p] = "boot" /\ Runs(p)
  /\ master' = [master EXCEPT ![p] = "ready"]
  /\ UNCHANGED <<dvars, dpending, pidFile, mpending, code, halted, mconf,
                 confFile, dconf, uvars>>

BootFails(p) ==
  /\ "boot" \in Faults
  /\ master[p] = "boot" /\ Runs(p)
  /\ \E c \in BootCodes : Exit(p, c)
  /\ UNCHANGED <<dvars, pidFile, confFile, dconf, uvars>>

TakeSigHup(p) ==
  /\ master[p] = "ready" /\ Runs(p)
  /\ "SIGHUP" \in mpending[p]
  /\ mpending' = [mpending EXCEPT ![p] = @ \ {"SIGHUP"}]
  /\ master' = [master EXCEPT ![p] = "reload"]
  /\ UNCHANGED <<dvars, dpending, pidFile, code, halted, mconf, confFile, dconf, uvars>>

(* The Master's own reload_config reads CONFIG_LOAD again.                 *)
ReloadConfig(p) ==
  /\ master[p] = "reload" /\ Runs(p)
  /\ KindOf(confFile) # "throws"
  /\ mconf' = [mconf EXCEPT ![p] = Loaded(confFile, @)]
  /\ master' = [master EXCEPT ![p] = "ready"]
  /\ UNCHANGED <<dvars, dpending, pidFile, mpending, code, halted, confFile, dconf, uvars>>

ReloadConfigThrows(p) ==
  /\ master[p] = "reload" /\ Runs(p)
  /\ KindOf(confFile) = "throws"
  /\ Exit(p, KILLED)
  /\ UNCHANGED <<dvars, pidFile, confFile, dconf, uvars>>

TakeSigTerm(p) ==
  /\ master[p] = "ready" /\ Runs(p)
  /\ "SIGTERM" \in mpending[p]
  /\ Exit(p, CHILD_NEED_TERMINATE)
  /\ UNCHANGED <<dvars, pidFile, confFile, dconf, uvars>>

(* A fatal signal; only SIGKILL ends a halted or a hung Master.            *)
Crash(p) ==
  /\ "crash" \in Faults
  /\ Live(p)
  /\ \E c \in CrashCodes : /\ c # KILLED => Runs(p) /\ master[p] # "hung"
                           /\ Exit(p, c)
  /\ UNCHANGED <<dvars, pidFile, confFile, dconf, uvars>>

(* self_debug logs and allocates inside the signal handler: when the fault *)
(* hit a thread holding the sink's or the allocator's mutex it never       *)
(* returns, and every later log call blocks behind it.                     *)
Hang(p) ==
  /\ "hang" \in Faults
  /\ Runs(p) /\ master[p] # "hung"
  /\ master' = [master EXCEPT ![p] = "hung"]
  /\ UNCHANGED <<dvars, dpending, pidFile, mpending, code, halted, mconf,
                 confFile, dconf, uvars>>

(* SIGSTOP or SIGCONT sent to a Master; the kernel reports either change   *)
(* to the parent with SIGCHLD, since nothing sets SA_NOCLDSTOP.            *)
JobControl(p) ==
  /\ "jobcontrol" \in Faults
  /\ Live(p)
  /\ halted' = IF p \in halted THEN halted \ {p} ELSE halted \cup {p}
  /\ dpending' = IF dpc = "gone" THEN dpending ELSE dpending \cup {"SIGCHLD"}
  /\ UNCHANGED <<dvars, pidFile, master, mpending, code, mconf, confFile, dconf, uvars>>
-----------------------------------------------------------------------------
(* `robotd load c` while the daemon runs: option_load truncates CONFIG_LOAD, *)
(* then writes the path, then parse_options sends SIGHUP.                  *)
LoadOpen(u, c) ==
  /\ upc[u] = "idle"
  /\ dpc # "gone"
  /\ confFile' = Blank
  /\ uconf' = [uconf EXCEPT ![u] = c]
  /\ upc' = [upc EXCEPT ![u] = "opened"]
  /\ UNCHANGED <<dvars, dpending, pidFile, mvars, dconf>>

LoadWrite(u) ==
  /\ upc[u] = "opened"
  /\ confFile' = uconf[u]
  /\ upc' = [upc EXCEPT ![u] = "written"]
  /\ UNCHANGED <<dvars, dpending, pidFile, mvars, dconf, uconf>>

LoadSignal(u) ==
  /\ upc[u] = "written"
  /\ dpending' = IF dpc = "gone" THEN dpending ELSE dpending \cup {"SIGHUP"}
  /\ upc' = [upc EXCEPT ![u] = "idle"]
  /\ uconf' = [uconf EXCEPT ![u] = NoConf]
  /\ UNCHANGED <<dvars, pidFile, mvars, confFile, dconf>>

(* A signal from `robotd reload`, `stop`, `restart` or any other sender.   *)
Signal(s) ==
  /\ dpc # "gone"
  /\ dpending' = dpending \cup {s}
  /\ UNCHANGED <<dvars, pidFile, mvars, confFile, dconf, uvars>>
-----------------------------------------------------------------------------
(* daemonize has returned 0 in the child: the PID file is written, the     *)
(* configuration is loaded, over the defaults where it is silent, and      *)
(* siginfo holds whatever the stack did.                                   *)
Init ==
  /\ dpc = "top" /\ needStart = TRUE /\ pid = NoPid
  /\ signo \in Watched \cup {"other"}
  /\ dpending = {}
  /\ pidFile = TRUE
  /\ master = [p \in Pid |-> "free"]
  /\ mpending = [p \in Pid |-> {}]
  /\ code = [p \in Pid |-> KILLED]
  /\ halted = {}
  /\ confFile \in {c \in Config : Kind[c] \in {"valid", "sparse"}}
  /\ dconf = Full(confFile)
  /\ mconf = [p \in Pid |-> NoConf]
  /\ upc = [u \in User |-> "idle"]
  /\ uconf = [u \in User |-> NoConf]

(* The steps of the program, and the faults and inputs of its environment. *)
DaemonStep ==
  \/ \E p \in Pid : Fork(p) \/ Reap(p)
  \/ \E s \in Watched : SigWaitInfo(s)
  \/ KeepMaster \/ OnSigChld \/ OnSigHup \/ OnSigHupThrows
  \/ Forward \/ OnStopSignal \/ Destroy

MasterStep(p) ==
  Boot(p) \/ TakeSigHup(p) \/ ReloadConfig(p) \/ ReloadConfigThrows(p) \/ TakeSigTerm(p)

FaultStep ==
  \/ ForkFails \/ SigWaitInfoFails \/ DaemonKilled
  \/ \E p \in Pid : BootFails(p) \/ Crash(p) \/ Hang(p) \/ JobControl(p)

UserStep ==
  \/ \E u \in User : (\E c \in Config : LoadOpen(u, c)) \/ LoadWrite(u) \/ LoadSignal(u)
  \/ \E s \in EnvSignals : Signal(s)

Next == DaemonStep \/ (\E p \in Pid : MasterStep(p)) \/ FaultStep \/ UserStep

Spec == Init /\ [][Next]_vars

(* The processes are scheduled, and sigwaitinfo does not pass over a       *)
(* pending SIGCHLD or stop signal for ever (Linux takes the lowest number  *)
(* first, so only SIGHUP can delay them).                                  *)
Fairness ==
  /\ WF_vars(DaemonStep)
  /\ \A s \in Watched \ {"SIGHUP"} : SF_vars(SigWaitInfo(s))
  /\ \A p \in Pid : WF_vars(MasterStep(p))

FairSpec == Spec /\ Fairness
-----------------------------------------------------------------------------
(* PROPERTIES *)

(* The states the variables range over.                                    *)
TypeOK ==
  /\ dpc \in {"top", "sigwait", "dispatch", "wait", "forward", "leave", "gone"}
  /\ needStart \in BOOLEAN
  /\ pid \in Pid \cup {NoPid}
  /\ signo \in Watched \cup {"other"}
  /\ dpending \subseteq Watched
  /\ pidFile \in BOOLEAN
  /\ master \in [Pid -> {"free", "boot", "ready", "reload", "hung", "zombie"}]
  /\ mpending \in [Pid -> SUBSET {"SIGHUP", "SIGTERM"}]
  /\ code \in [Pid -> {CHILD_NEED_TERMINATE, CHILD_NEED_WORK, KILLED}]
  /\ halted \subseteq Pid
  /\ confFile \in Config \cup {Blank}
  /\ dconf \in LoaderState
  /\ mconf \in [Pid -> LoaderState \cup {NoConf}]
  /\ upc \in [User -> {"idle", "opened", "written"}]
  /\ uconf \in [User -> Config \cup {NoConf}]

(* need_start, pid and the process table agree: while the daemon is alive  *)
(* its only child, dead or alive, is `pid`; it exists whenever the daemon  *)
(* waits or sends a signal (so kill never meets a recycled pid and wait    *)
(* never fails with ECHILD), and the daemon is about to fork exactly when  *)
(* it has been reaped.                                                     *)
OneMaster ==
  /\ dpc # "gone" => \A p \in Pid : master[p] # "free" => p = pid
  /\ dpc \in {"sigwait", "dispatch", "wait", "forward"} =>
       pid \in Pid /\ master[pid] # "free"
  /\ dpc = "top" => (needStart <=> \A p \in Pid : master[p] = "free")

(* The death of a Master is not lost among the other signals: while the    *)
(* daemon may block with a dead child, a SIGCHLD is there to wake it.      *)
NoLostExit ==
  (dpc = "sigwait" /\ \E p \in Pid : master[p] = "zombie") => "SIGCHLD" \in dpending

(* The wait() of the SIGCHLD branch is meant to collect a child that is    *)
(* already dead; a daemon blocked in it hears no other signal.  Holds when *)
(* neither job control nor EINTR brings it there.                          *)
WaitNeverBlocks ==
  dpc = "wait" => \E p \in Pid : master[p] = "zombie"

(* Daemon and Master read CONFIG_LOAD at different times, and SIGHUPs      *)
(* merge.  At rest they agree all the same: with no load under way and no  *)
(* SIGHUP pending, both hold the configuration CONFIG_LOAD names, provided *)
(* it states every setting.                                                *)
AtRest(p) ==
  /\ dpc = "sigwait" /\ "SIGHUP" \notin dpending
  /\ master[p] = "ready" /\ "SIGHUP" \notin mpending[p]
  /\ \A u \in User : upc[u] = "idle"
AgreeAtRest ==
  \A p \in Pid : AtRest(p) /\ KindOf(confFile) = "valid" =>
    dconf = Full(confFile) /\ mconf[p] = Full(confFile)

(* A daemon that removed its PID file has told its Master to stop: no      *)
(* Master is left serving that nobody will ever signal.                    *)
NoForgottenMaster ==
  ~pidFile => \A p \in Pid : Live(p) => "SIGTERM" \in mpending[p]

(* The implementation relation: the processes are a Supervision.           *)
Slot == IF dpc \in {"leave", "gone"} THEN NoPid
        ELSE IF \E p \in Pid : master[p] # "free" THEN pid ELSE NoPid
Abs == INSTANCE Supervision WITH
         worker  <- Slot,
         dead    <- Slot # NoPid /\ master[Slot] = "zombie",
         stopped <- dpc \in {"leave", "gone"}
ImplementsSupervision == Abs!Spec

(* Liveness.  Linux hands out the lowest pending signal first, and SIGHUP  *)
(* is the lowest: while SIGHUPs keep coming nothing is promised.           *)
HupsCease == <>[]("SIGHUP" \notin dpending)

(* A dead Master is replaced, unless the daemon goes too.                  *)
RestartsMaster ==
  HupsCease => (dpc = "sigwait" /\ (\E p \in Pid : master[p] = "zombie")
                  ~> dpc = "gone" \/ \E p \in Pid : Live(p))

(* `robotd stop`: a pending stop signal ends the daemon.                   *)
StopIsHonoured ==
  HupsCease => \A s \in {"SIGQUIT", "SIGINT", "SIGTERM"} :
                 s \in dpending ~> dpc = "gone"

(* A daemon that stopped in good order takes its Master with it.           *)
MastersFollow ==
  ~pidFile ~> \A p \in Pid : master[p] = "free"

(* When the loading stops at a full configuration, the Master that serves  *)
(* ends up with it for good, whatever merged, crashed or was read early.   *)
ReloadReachesMaster ==
  <>[](/\ \A u \in User : upc[u] = "idle"
       /\ "SIGHUP" \notin dpending
       /\ KindOf(confFile) = "valid")
  => <>[](dpc # "gone" => \A p \in Pid : Live(p) => mconf[p] = Full(confFile))
=============================================================================
