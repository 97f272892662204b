------------------------------ MODULE Instances ------------------------------
(***************************************************************************)
(* Invocations of robotd on one host.                                      *)
(*                                                                         *)
(* parse_options decides from the PID file and /proc whether a daemon      *)
(* runs, and then reports, signals it, or falls through to main, which     *)
(* turns the invocation into a daemon.  All of them share PID_FILE,        *)
(* CONFIG_LOAD and the TCP port of the Master.  A daemon and its Master    *)
(* are here what Supervisor shows them to be: one Master, restarted when   *)
(* it dies, told to stop when the daemon stops.                            *)
(***************************************************************************)
EXTENDS Naturals, FiniteSets

CONSTANTS
  Proc,      (* invocations, each with the pid of the daemon it may become  *)
  NoProc,    (* no process: no PID file, an empty PID file, a free port     *)
  Commands,  (* the commands that are typed                                 *)
  Wide,      (* the pids above 65535                                        *)
  Patient,   (* nobody types a command before the last one has settled      *)
  Faults,    (* "kill": a daemon dies of SIGKILL or an uncaught exception;  *)
             (* "crash": a Master dies; "conf": a configuration is missing  *)
  Debug      (* built with -DDEBUG                                          *)

ASSUME ProcAssumption == NoProc \notin Proc /\ Wide \subseteq Proc
ASSUME CommandAssumption ==
  /\ Commands \subseteq {"load", "reload", "restart", "stop", "status"}
  /\ Faults \subseteq {"kill", "crash", "conf"}
  /\ Patient \in BOOLEAN /\ Debug \in BOOLEAN

VARIABLES
  pc, cmd,   (* where each invocation is, and its command                   *)
  target,    (* the pid parse_options read                                  *)
  daemon,    (* the state of the daemon an invocation became                *)
  stop,      (* SIGTERM is pending for it                                   *)
  master,    (* the state of its Master                                     *)
  mstop,     (* SIGTERM is pending for the Master                           *)
  port,      (* whose Master listens on the port                            *)
  link,      (* the file PID_FILE names, identified by who created it       *)
  text,      (* the pid each of these files contains                        *)
  fd,        (* the one each daemon has open                                *)
  blank      (* CONFIG_LOAD is truncated and not yet written                *)

dvars == <<daemon, stop, master, mstop, port>>
fvars == <<link, text, fd>>
vars  == <<pc, cmd, target, dvars, fvars, blank>>
-----------------------------------------------------------------------------
Starting == {"born", "unlinked", "opened", "unmasked"}
Up(c)    == daemon[c] \in Starting \cup {"run"}
Alive(c) == daemon[c] \in Starting \cup {"run", "leave"}

Step(c, from, to) == pc[c] = from /\ pc' = [pc EXCEPT ![c] = to]

(* A failing command returns errno, which main takes for success; when     *)
(* errno happens to be 0, main goes on and becomes a daemon.               *)
ReturnErrno(c, from) == Step(c, from, "done") \/ Step(c, from, "daemonize")

(* Before monitor_proc blocks them, SIGHUP and SIGTERM kill a daemon; then *)
(* SIGHUP reloads (see Supervisor) and SIGTERM stops it.                   *)
Signal(p, sig) ==
  /\ daemon' = [daemon EXCEPT ![p] = IF @ \in Starting THEN "killed" ELSE @]
  /\ stop' = [stop EXCEPT ![p] = @ \/ (daemon[p] = "run" /\ sig = "SIGTERM")]
  /\ UNCHANGED <<master, mstop, port>>

(* Nothing is under way: no command, no start, no stop.                    *)
Settled ==
  /\ \A c \in Proc : pc[c] \in {"idle", "done"}
  /\ \A c \in Proc : /\ daemon[c] \in {"none", "gone", "killed"} \/
                          (daemon[c] = "run" /\ master[c] = "serving" /\ ~stop[c])
                     /\ ~mstop[c]
-----------------------------------------------------------------------------
(* parse_options                                                           *)

Type(c, k) ==
  /\ Patient => Settled
  /\ Step(c, "idle", "read")
  /\ cmd' = [cmd EXCEPT ![c] = k]
  /\ UNCHANGED <<target, dvars, fvars, blank>>

(* The PID file is opened and read into a uint16_t, which cuts a wide pid  *)
(* down to one that no robotd process has.                                 *)
ReadPidFile(c) ==
  /\ \/ link = NoProc /\ Step(c, "read", "absent") /\ UNCHANGED target
     \/ link # NoProc /\ text[link] = NoProc /\ ReturnErrno(c, "read") /\ UNCHANGED target
     \/ /\ link # NoProc /\ text[link] # NoProc
        /\ Step(c, "read", "scan")
        /\ target' = [target EXCEPT ![c] = IF text[link] \in Wide THEN NoProc ELSE text[link]]
  /\ UNCHANGED <<cmd, dvars, fvars, blank>>

(* /proc has a process of the pid that was read.                           *)
InProc(c) == target[c] # NoProc /\ Alive(target[c])

ScanFinds(c) ==
  /\ InProc(c)
  /\ Step(c, "scan", IF cmd[c] = "status" THEN "done" ELSE "found")
  /\ UNCHANGED <<cmd, target, dvars, fvars, blank>>

(* It has none: PID_FILE, whatever it is by now, is unlinked.              *)
ScanFails(c) ==
  /\ ~InProc(c)
  /\ IF link = NoProc THEN Step(c, "scan", "done") ELSE Step(c, "scan", "absent")
  /\ link' = NoProc
  /\ target' = [target EXCEPT ![c] = NoProc]
  /\ UNCHANGED <<cmd, dvars, text, fd, blank>>

(* no_daemon_process: load, reload and restart all start one.              *)
NoDaemonProcess(c) ==
  /\ Step(c, "absent", IF cmd[c] \in {"stop", "status"} THEN "done" ELSE "open")
  /\ UNCHANGED <<cmd, target, dvars, fvars, blank>>

(* CONFIG_LOAD cannot be read: it is rewritten with the default.           *)
RepairConfigLoad(c) ==
  /\ blank
  /\ ReturnErrno(c, "found")
  /\ blank' = FALSE
  /\ UNCHANGED <<cmd, target, dvars, fvars>>

(* load needs the name of a file when a daemon runs.                       *)
FoundLoad(c) ==
  /\ ~blank /\ cmd[c] = "load"
  /\ Step(c, "found", "open") \/ Step(c, "found", "done")
  /\ UNCHANGED <<cmd, target, dvars, fvars, blank>>

(* reload, stop and restart signal the pid; kill fails when it is gone.    *)
FoundSignal(c) ==
  /\ ~blank /\ cmd[c] \in {"reload", "stop", "restart"}
  /\ Step(c, "found", IF cmd[c] = "restart" /\ Alive(target[c]) THEN "daemonize" ELSE "done")
  /\ Signal(target[c], IF cmd[c] = "reload" THEN "SIGHUP" ELSE "SIGTERM")
  /\ UNCHANGED <<cmd, target, fvars, blank>>

(* option_load: the configuration exists and CONFIG_LOAD is truncated ...  *)
OptionLoadOpens(c) ==
  /\ Step(c, "open", "write")
  /\ blank' = TRUE
  /\ UNCHANGED <<cmd, target, dvars, fvars>>

(* ... or it is missing.                                                   *)
OptionLoadFails(c) ==
  /\ "conf" \in Faults
  /\ Step(c, "open", "done")
  /\ UNCHANGED <<cmd, target, dvars, fvars, blank>>

(* Mutant: the running daemon is forgotten.                                *)
OptionLoadWritesAndStarts(c) ==
  /\ Step(c, "write", "daemonize")
  /\ blank' = FALSE
  /\ UNCHANGED <<cmd, target, dvars, fvars>>

OptionLoadWrites(c) ==
  /\ Step(c, "write", IF target[c] = NoProc THEN "daemonize" ELSE "signal")
  /\ blank' = FALSE
  /\ UNCHANGED <<cmd, target, dvars, fvars>>

LoadSignals(c) ==
  /\ Step(c, "signal", "done")
  /\ Signal(target[c], "SIGHUP")
  /\ UNCHANGED <<cmd, target, fvars, blank>>
-----------------------------------------------------------------------------
(* The daemon's constructor and destructor.                                *)

(* The configuration loads and daemonize forks; the invocation returns to  *)
(* the shell.                                                              *)
Daemonize(c) ==
  /\ Step(c, "daemonize", "done")
  /\ daemon' = [daemon EXCEPT ![c] = "born"]
  /\ UNCHANGED <<cmd, target, stop, master, mstop, port, fvars, blank>>

LoadConfigFails(c) ==
  /\ "conf" \in Faults
  /\ Step(c, "daemonize", "done")
  /\ UNCHANGED <<cmd, target, dvars, fvars, blank>>

Advance(c, from, to) == daemon[c] = from /\ daemon' = [daemon EXCEPT ![c] = to]

(* set_pid_file unlinks an old PID file, creates (or, when another daemon  *)
(* was faster, truncates) a new one, and writes its pid to what it opened. *)
UnlinkOld(c) ==
  /\ Advance(c, "born", "unlinked")
  /\ link' = NoProc
  /\ UNCHANGED <<pc, cmd, target, stop, master, mstop, port, text, fd, blank>>

CreatePidFile(c) ==
  /\ Advance(c, "unlinked", "opened")
  /\ link' = IF link = NoProc THEN c ELSE link
  /\ fd' = [fd EXCEPT ![c] = link']
  /\ text' = [text EXCEPT ![link'] = NoProc]
  /\ UNCHANGED <<pc, cmd, target, stop, master, mstop, port, blank>>

WritePidFile(c) ==
  /\ Advance(c, "opened", "unmasked")
  /\ text' = [text EXCEPT ![fd[c]] = c]
  /\ UNCHANGED <<pc, cmd, target, stop, master, mstop, port, link, fd, blank>>

(* monitor_proc blocks the signals and forks the first Master.             *)
Monitor(c) ==
  /\ Advance(c, "unmasked", "run")
  /\ master' = [master EXCEPT ![c] = "boot"]
  /\ UNCHANGED <<pc, cmd, target, stop, mstop, port, fvars, blank>>

OnSigTerm(c) ==
  /\ stop[c]
  /\ Advance(c, "run", "leave")
  /\ mstop' = [mstop EXCEPT ![c] = master[c] # "none"]
  /\ UNCHANGED <<pc, cmd, target, stop, master, port, fvars, blank>>

(* Mutant: the PID file stays.                                             *)
DestroyKeepsFile(c) ==
  /\ Advance(c, "leave", "gone")
  /\ stop' = [stop EXCEPT ![c] = FALSE]
  /\ UNCHANGED <<pc, cmd, target, master, mstop, port, fvars, blank>>

(* ~daemon unlinks PID_FILE by name.                                       *)
Destroy(c) ==
  /\ Advance(c, "leave", "gone")
  /\ stop' = [stop EXCEPT ![c] = FALSE]
  /\ link' = NoProc
  /\ UNCHANGED <<pc, cmd, target, master, mstop, port, text, fd, blank>>

DaemonDies(c) ==
  /\ "kill" \in Faults
  /\ Alive(c)
  /\ daemon' = [daemon EXCEPT ![c] = "killed"]
  /\ stop' = [stop EXCEPT ![c] = FALSE]
  /\ UNCHANGED <<pc, cmd, target, master, mstop, port, fvars, blank>>
-----------------------------------------------------------------------------
(* The Master: the port is what tcp_server's constructor binds.            *)

MasterListens(c) ==
  /\ master[c] = "boot" /\ port = NoProc
  /\ master' = [master EXCEPT ![c] = "serving"]
  /\ port' = c
  /\ UNCHANGED <<pc, cmd, target, daemon, stop, mstop, fvars, blank>>

(* Mutant: the daemon takes no notice of the exit.                         *)
MasterCannotBindUnseen(c) ==
  /\ master[c] = "boot" /\ port # NoProc
  /\ master' = [master EXCEPT ![c] = "zombie"]
  /\ UNCHANGED <<pc, cmd, target, daemon, stop, mstop, port, fvars, blank>>

(* The port is taken.  A debug build exits with CHILD_NEED_TERMINATE and   *)
(* the daemon leaves; a release build's daemon forks the next Master.      *)
MasterCannotBind(c) ==
  /\ master[c] = "boot" /\ port # NoProc
  /\ master' = [master EXCEPT ![c] = IF ~Debug /\ daemon[c] = "run" THEN "boot" ELSE "none"]
  /\ daemon' = [daemon EXCEPT ![c] = IF Debug /\ @ = "run" THEN "leave" ELSE @]
  /\ mstop' = [mstop EXCEPT ![c] = FALSE]
  /\ UNCHANGED <<pc, cmd, target, stop, port, fvars, blank>>

(* Mutant: the port is not given back.                                     *)
MasterStopsListening(c) ==
  /\ master[c] = "serving" /\ mstop[c]
  /\ master' = [master EXCEPT ![c] = "none"]
  /\ mstop' = [mstop EXCEPT ![c] = FALSE]
  /\ UNCHANGED <<pc, cmd, target, daemon, stop, port, fvars, blank>>

MasterStops(c) ==
  /\ master[c] = "serving" /\ mstop[c]
  /\ master' = [master EXCEPT ![c] = "none"]
  /\ mstop' = [mstop EXCEPT ![c] = FALSE]
  /\ port' = NoProc
  /\ UNCHANGED <<pc, cmd, target, daemon, stop, fvars, blank>>

(* A crashed Master loses the port; a daemon that runs forks another.      *)
MasterCrashes(c) ==
  /\ "crash" \in Faults
  /\ master[c] = "serving"
  /\ master' = [master EXCEPT ![c] = IF daemon[c] = "run" THEN "boot" ELSE "none"]
  /\ mstop' = [mstop EXCEPT ![c] = FALSE]
  /\ port' = NoProc
  /\ UNCHANGED <<pc, cmd, target, daemon, stop, fvars, blank>>
-----------------------------------------------------------------------------
Init ==
  /\ pc = [c \in Proc |-> "idle"] /\ cmd = [c \in Proc |-> "status"]
  /\ target = [c \in Proc |-> NoProc]
  /\ daemon = [c \in Proc |-> "none"] /\ stop = [c \in Proc |-> FALSE]
  /\ master = [c \in Proc |-> "none"] /\ mstop = [c \in Proc |-> FALSE]
  /\ port = NoProc
  /\ link = NoProc /\ text = [c \in Proc |-> NoProc] /\ fd = [c \in Proc |-> NoProc]
  /\ blank = FALSE

ClientStep(c) ==
  \/ ReadPidFile(c) \/ ScanFinds(c) \/ ScanFails(c) \/ NoDaemonProcess(c)
  \/ RepairConfigLoad(c) \/ FoundLoad(c) \/ FoundSignal(c)
  \/ OptionLoadOpens(c) \/ OptionLoadWrites(c) \/ LoadSignals(c) \/ Daemonize(c)

DaemonStep(c) ==
  \/ UnlinkOld(c) \/ CreatePidFile(c) \/ WritePidFile(c) \/ Monitor(c)
  \/ OnSigTerm(c) \/ Destroy(c)

MasterStep(c) == MasterListens(c) \/ MasterCannotBind(c) \/ MasterStops(c)

FaultStep(c) ==
  OptionLoadFails(c) \/ LoadConfigFails(c) \/ DaemonDies(c) \/ MasterCrashes(c)

Next ==
  \E c \in Proc : \/ \E k \in Commands : Type(c, k)
                  \/ ClientStep(c) \/ DaemonStep(c) \/ MasterStep(c) \/ FaultStep(c)

Spec == Init /\ [][Next]_vars

(* Every process is scheduled.                                             *)
FairSpec ==
  /\ Spec
  /\ \A c \in Proc : WF_vars(ClientStep(c)) /\ WF_vars(DaemonStep(c)) /\ WF_vars(MasterStep(c))
-----------------------------------------------------------------------------
(* PROPERTIES *)

(* The states the variables range over.                                    *)
TypeOK ==
  /\ pc \in [Proc -> {"idle", "read", "scan", "absent", "found", "open", "write",
                      "signal", "daemonize", "done"}]
  /\ cmd \in [Proc -> Commands \cup {"status"}]
  /\ target \in [Proc -> Proc \cup {NoProc}]
  /\ daemon \in [Proc -> Starting \cup {"none", "run", "leave", "gone", "killed"}]
  /\ stop \in [Proc -> BOOLEAN] /\ mstop \in [Proc -> BOOLEAN]
  /\ master \in [Proc -> {"none", "boot", "serving"}]
  /\ port \in Proc \cup {NoProc} /\ link \in Proc \cup {NoProc}
  /\ text \in [Proc -> Proc \cup {NoProc}] /\ fd \in [Proc -> Proc \cup {NoProc}]
  /\ blank \in BOOLEAN

(* However invocations race, a PID file's creator has not exited in good   *)
(* order: set_pid_file and ~daemon leave no stale file behind unless a     *)
(* daemon is killed.                                                       *)
LinkHasOwner ==
  link # NoProc => daemon[link] \in {"opened", "unmasked", "run", "leave", "killed"}

(* "It can be only one copy of the daemon run in the system."              *)
OnlyOneDaemon == Cardinality({c \in Proc : Up(c)}) <= 1

(* The commands find the daemon that runs: PID_FILE names it.              *)
Findable == \A c \in Proc : daemon[c] = "run" => link # NoProc /\ text[link] = c

(* Two daemons started at once do not last in a debug build: the port lets *)
(* one Master live, and the daemon of the other leaves.                    *)
SettlesToOne == <>[]OnlyOneDaemon

(* No daemon is ever killed: a killed one leaves a Master on the port that *)
(* nobody will stop.                                                       *)
NobodyIsKilled == [](\A c \in Proc : daemon[c] # "killed")

(* `load` with no daemon about ends with the service listening.            *)
LoadServes ==
  NobodyIsKilled =>
    \A c \in Proc : (pc[c] = "read" /\ cmd[c] = "load" /\ \A d \in Proc : ~Up(d))
                      ~> (daemon[c] = "run" /\ port = c)

(* `stop` ends with no daemon running and the port free.                   *)
StopStops ==
  NobodyIsKilled =>
    \A c \in Proc : (pc[c] = "read" /\ cmd[c] = "stop")
                      ~> (port = NoProc /\ \A d \in Proc : ~Up(d))

(* "restart daemon with the same configuration": a daemon serves again.    *)
RestartServes ==
  \A c \in Proc : (pc[c] = "read" /\ cmd[c] = "restart") ~> (daemon[c] = "run" /\ port = c)
=============================================================================
