-------------------------- MODULE SupervisorProofs --------------------------
(***************************************************************************)
(* Theorems about Supervisor, for every set of Masters, clients and        *)
(* configurations, every fault and every signal.                           *)
(***************************************************************************)
EXTENDS Supervisor, TLAPS

(* A live Master has loader statics, and a client that has truncated       *)
(* CONFIG_LOAD has a file to name in it.                                   *)
TypeInv ==
  /\ TypeOK
  /\ \A p \in Pid : Live(p) => mconf[p] \in LoaderState
  /\ \A u \in User : upc[u] \in {"opened", "written"} => uconf[u] \in Config

(* Loading a file leaves the statics a pair of configurations.             *)
LEMMA LoadedType ==
  ASSUME NEW c \in Config \cup {Blank}, NEW st \in LoaderState
  PROVE  Loaded(c, st) \in LoaderState
BY SMT DEF Loaded, KindOf, LoaderState, Full

LEMMA ExitType ==
  ASSUME TypeInv, NEW p \in Pid, NEW c \in {CHILD_NEED_TERMINATE, CHILD_NEED_WORK, KILLED},
         Exit(p, c), UNCHANGED <<dvars, pidFile, confFile, dconf, uvars>>
  PROVE  TypeInv'
<1>1. CASE dpc = "gone"
  BY <1>1 DEF TypeInv, TypeOK, Exit, Live, dvars, uvars
<1>2. CASE dpc # "gone"
  <2>1. dpending' \subseteq Watched
    BY <1>2 DEF TypeInv, TypeOK, Exit, Watched
  <2>2. code' \in [Pid -> {CHILD_NEED_TERMINATE, CHILD_NEED_WORK, KILLED}]
    BY <1>2 DEF TypeInv, TypeOK, Exit
  <2> QED
    BY <1>2, <2>1, <2>2 DEF TypeInv, TypeOK, Exit, Live, dvars, uvars
<1> QED
  BY <1>1, <1>2

LEMMA DaemonEndsType ==
  ASSUME TypeInv, DaemonEnds, pidFile' \in BOOLEAN
  PROVE  TypeInv'
BY DEF TypeInv, TypeOK, DaemonEnds, Live, uvars, KILLED

LEMMA TypeInit == Init => TypeInv
BY ConfigAssumption DEF Init, TypeInv, TypeOK, Live, LoaderState, Full, Watched

LEMMA TypeDaemon == TypeInv /\ DaemonStep => TypeInv'
<1> SUFFICES ASSUME TypeInv, DaemonStep PROVE TypeInv'
  OBVIOUS
<1>1. ASSUME NEW p \in Pid, Fork(p) PROVE TypeInv'
  BY <1>1 DEF TypeInv, TypeOK, Fork, Live, uvars
<1>2. ASSUME NEW p \in Pid, Reap(p) PROVE TypeInv'
  BY <1>2 DEF TypeInv, TypeOK, Reap, Live, uvars, KILLED
<1>3. ASSUME NEW s \in Watched, SigWaitInfo(s) PROVE TypeInv'
  BY <1>3 DEF TypeInv, TypeOK, SigWaitInfo, Live, mvars, uvars
<1>4. CASE KeepMaster
  BY <1>4 DEF TypeInv, TypeOK, KeepMaster, Live, mvars, uvars
<1>5. CASE OnSigChld
  BY <1>5 DEF TypeInv, TypeOK, OnSigChld, Live, mvars, uvars
<1>6. CASE OnSigHup
  <2>1. dconf' \in LoaderState
    BY <1>6, LoadedType DEF TypeInv, TypeOK, OnSigHup
  <2> QED
    BY <1>6, <2>1 DEF TypeInv, TypeOK, OnSigHup, Live, mvars, uvars
<1>7. CASE OnSigHupThrows
  BY <1>7, DaemonEndsType DEF OnSigHupThrows, TypeInv, TypeOK
<1>8. CASE Forward
  BY <1>8 DEF TypeInv, TypeOK, Forward, Kill, Live, uvars
<1>9. CASE OnStopSignal
  BY <1>9 DEF TypeInv, TypeOK, OnStopSignal, Kill, Live, uvars
<1>10. CASE Destroy
  BY <1>10, DaemonEndsType DEF Destroy
<1> QED
  BY <1>1, <1>2, <1>3, <1>4, <1>5, <1>6, <1>7, <1>8, <1>9, <1>10 DEF DaemonStep

LEMMA TypeMaster == \A p \in Pid : TypeInv /\ MasterStep(p) => TypeInv'
<1> SUFFICES ASSUME NEW p \in Pid, TypeInv, MasterStep(p) PROVE TypeInv'
  OBVIOUS
<1>1. CASE Boot(p)
  BY <1>1 DEF TypeInv, TypeOK, Boot, Runs, Live, dvars, uvars
<1>2. CASE TakeSigHup(p)
  BY <1>2 DEF TypeInv, TypeOK, TakeSigHup, Runs, Live, dvars, uvars
<1>3. CASE ReloadConfig(p)
  <2>1. mconf[p] \in LoaderState /\ confFile \in Config \cup {Blank}
    BY <1>3 DEF TypeInv, TypeOK, ReloadConfig, Runs
  <2>2. Loaded(confFile, mconf[p]) \in LoaderState
    BY <2>1, LoadedType
  <2> QED
    BY <1>3, <2>2 DEF TypeInv, TypeOK, ReloadConfig, Runs, Live, dvars, uvars
<1>4. CASE ReloadConfigThrows(p)
  BY <1>4, ExitType DEF ReloadConfigThrows
<1>5. CASE TakeSigTerm(p)
  BY <1>5, ExitType DEF TakeSigTerm
<1> QED
  BY <1>1, <1>2, <1>3, <1>4, <1>5 DEF MasterStep

LEMMA TypeFault == TypeInv /\ FaultStep => TypeInv'
<1> SUFFICES ASSUME TypeInv, FaultStep PROVE TypeInv'
  OBVIOUS
<1>1. CASE ForkFails
  BY <1>1, DaemonEndsType DEF ForkFails, TypeInv, TypeOK
<1>2. CASE SigWaitInfoFails
  BY <1>2 DEF TypeInv, TypeOK, SigWaitInfoFails, Live, mvars, uvars
<1>3. CASE DaemonKilled
  BY <1>3, DaemonEndsType DEF DaemonKilled, TypeInv, TypeOK
<1>4. ASSUME NEW p \in Pid, BootFails(p) PROVE TypeInv'
  BY <1>4, ExitType DEF BootFails, BootCodes
<1>5. ASSUME NEW p \in Pid, Crash(p) PROVE TypeInv'
  BY <1>5, ExitType DEF Crash, CrashCodes
<1>6. ASSUME NEW p \in Pid, Hang(p) PROVE TypeInv'
  BY <1>6 DEF TypeInv, TypeOK, Hang, Runs, Live, dvars, uvars
<1>7. ASSUME NEW p \in Pid, JobControl(p) PROVE TypeInv'
  BY <1>7 DEF TypeInv, TypeOK, JobControl, Live, dvars, uvars, Watched
<1> QED
  BY <1>1, <1>2, <1>3, <1>4, <1>5, <1>6, <1>7 DEF FaultStep

LEMMA TypeUser == TypeInv /\ UserStep => TypeInv'
<1> SUFFICES ASSUME TypeInv, UserStep PROVE TypeInv'
  OBVIOUS
<1>1. ASSUME NEW u \in User, NEW c \in Config, LoadOpen(u, c) PROVE TypeInv'
  BY <1>1 DEF TypeInv, TypeOK, LoadOpen, Live, dvars, mvars
<1>2. ASSUME NEW u \in User, LoadWrite(u) PROVE TypeInv'
  BY <1>2 DEF TypeInv, TypeOK, LoadWrite, Live, dvars, mvars
<1>3. ASSUME NEW u \in User, LoadSignal(u) PROVE TypeInv'
  BY <1>3 DEF TypeInv, TypeOK, LoadSignal, Live, dvars, mvars, Watched
<1>4. ASSUME NEW s \in EnvSignals, Signal(s) PROVE TypeInv'
  BY <1>4, EnvAssumption DEF TypeInv, TypeOK, Signal, Live, dvars, mvars, uvars
<1> QED
  BY <1>1, <1>2, <1>3, <1>4 DEF UserStep

LEMMA TypeStep == TypeInv /\ [Next]_vars => TypeInv'
<1>1. CASE UNCHANGED vars
  BY <1>1 DEF TypeInv, TypeOK, Live, vars, dvars, mvars, uvars
<1> QED
  BY <1>1, TypeDaemon, TypeMaster, TypeFault, TypeUser DEF Next

LEMMA TypeInvariant == Spec => []TypeInv
BY TypeInit, TypeStep, PTL DEF Spec

(* Every reachable state is well typed.                                    *)
THEOREM TypeCorrect == Spec => []TypeOK
<1>1. TypeInv => TypeOK
  BY DEF TypeInv
<1> QED
  BY <1>1, TypeInvariant, PTL
-----------------------------------------------------------------------------
(* need_start is FALSE only between a forwarded SIGHUP and the next wait.  *)
OneMasterInv ==
  /\ OneMaster
  /\ dpc \in {"sigwait", "dispatch", "wait", "forward"} => needStart

(* Steps that leave the daemon where it is and change the state of at most *)
(* one Master, without giving or taking its place in the process table.    *)
SamePlaces ==
  /\ UNCHANGED <<dpc, needStart, pid>>
  /\ dpc # "gone" => \A p \in Pid : (master[p] = "free") <=> (master'[p] = "free")

LEMMA OneMasterSame ==
  ASSUME OneMasterInv, SamePlaces PROVE OneMasterInv'
BY DEF OneMasterInv, OneMaster, SamePlaces

LEMMA ExitSame ==
  ASSUME TypeInv, NEW p \in Pid, NEW c, Live(p), Exit(p, c), UNCHANGED dvars
  PROVE  SamePlaces
BY DEF TypeInv, TypeOK, SamePlaces, Exit, Live, dvars

LEMMA MasterSame ==
  ASSUME TypeInv, NEW p \in Pid, MasterStep(p) PROVE SamePlaces
<1>1. CASE Boot(p)
  BY <1>1 DEF TypeInv, TypeOK, SamePlaces, Boot, dvars
<1>2. CASE TakeSigHup(p)
  BY <1>2 DEF TypeInv, TypeOK, SamePlaces, TakeSigHup, dvars
<1>3. CASE ReloadConfig(p)
  BY <1>3 DEF TypeInv, TypeOK, SamePlaces, ReloadConfig, dvars
<1>4. CASE ReloadConfigThrows(p)
  BY <1>4, ExitSame DEF ReloadConfigThrows, Runs
<1>5. CASE TakeSigTerm(p)
  BY <1>5, ExitSame DEF TakeSigTerm, Runs
<1> QED
  BY <1>1, <1>2, <1>3, <1>4, <1>5 DEF MasterStep

LEMMA MasterFaultSame ==
  ASSUME TypeInv, NEW p \in Pid, BootFails(p) \/ Crash(p) \/ Hang(p) \/ JobControl(p)
  PROVE  SamePlaces
<1>1. CASE BootFails(p)
  BY <1>1, ExitSame DEF BootFails, Runs
<1>2. CASE Crash(p)
  BY <1>2, ExitSame DEF Crash
<1>3. CASE Hang(p)
  BY <1>3 DEF TypeInv, TypeOK, SamePlaces, Hang, Runs, Live, dvars
<1>4. CASE JobControl(p)
  BY <1>4 DEF SamePlaces, JobControl, dvars
<1> QED
  BY <1>1, <1>2, <1>3, <1>4

LEMMA UserSame == UserStep => SamePlaces
BY DEF UserStep, LoadOpen, LoadWrite, LoadSignal, Signal, SamePlaces, dvars, mvars

LEMMA OneMasterInit == Init => OneMasterInv
BY PidAssumption DEF Init, OneMasterInv, OneMaster

LEMMA OneMasterStep == TypeInv /\ OneMasterInv /\ [Next]_vars => OneMasterInv'
<1> SUFFICES ASSUME TypeInv, OneMasterInv, [Next]_vars PROVE OneMasterInv'
  OBVIOUS
<1> USE DEF OneMasterInv, OneMaster
<1>1. ASSUME NEW p \in Pid, Fork(p) PROVE OneMasterInv'
  BY <1>1 DEF Fork, TypeInv, TypeOK
<1>2. ASSUME NEW p \in Pid, Reap(p) PROVE OneMasterInv'
  BY <1>2 DEF Reap, TypeInv, TypeOK
<1>3. ASSUME NEW s \in Watched, SigWaitInfo(s) PROVE OneMasterInv'
  BY <1>3 DEF SigWaitInfo, mvars
<1>4. CASE KeepMaster
  BY <1>4 DEF KeepMaster, mvars, TypeInv, TypeOK
<1>5. CASE OnSigChld
  BY <1>5 DEF OnSigChld, mvars
<1>6. CASE OnSigHup
  BY <1>6 DEF OnSigHup, mvars
<1>7. CASE Forward
  BY <1>7 DEF Forward
<1>8. CASE OnStopSignal
  BY <1>8 DEF OnStopSignal
<1>9. CASE SigWaitInfoFails
  BY <1>9 DEF SigWaitInfoFails, mvars
<1>10. CASE OnSigHupThrows \/ Destroy \/ ForkFails \/ DaemonKilled
  BY <1>10 DEF OnSigHupThrows, Destroy, ForkFails, DaemonKilled, DaemonEnds
<1>11. CASE \E p \in Pid : MasterStep(p) \/ BootFails(p) \/ Crash(p) \/ Hang(p) \/ JobControl(p)
  BY <1>11, MasterSame, MasterFaultSame, OneMasterSame
<1>12. CASE UserStep
  BY <1>12, UserSame, OneMasterSame
<1>13. CASE UNCHANGED vars
  BY <1>13 DEF vars, dvars, mvars
<1> QED
  BY <1>1, <1>2, <1>3, <1>4, <1>5, <1>6, <1>7, <1>8, <1>9, <1>10, <1>11, <1>12, <1>13
  DEF Next, DaemonStep, FaultStep

LEMMA OneMasterInvariant == Spec => []OneMasterInv
BY TypeInvariant, OneMasterInit, OneMasterStep, PTL DEF Spec

(* The daemon has one Master at most, and the one it believes it has:      *)
(* need_start and pid agree with the process table under every fault.      *)
THEOREM OneMasterAlways == Spec => []OneMaster
<1>1. OneMasterInv => OneMaster
  BY DEF OneMasterInv
<1> QED
  BY <1>1, OneMasterInvariant, PTL
-----------------------------------------------------------------------------
(* A dead Master is announced by a pending SIGCHLD until the SIGCHLD       *)
(* branch has begun.                                                       *)
Zombie == \E p \in Pid : master[p] = "zombie"
NoLostInv ==
  /\ dpc \in {"top", "sigwait", "forward"} /\ Zombie => "SIGCHLD" \in dpending
  /\ dpc = "dispatch" /\ Zombie => "SIGCHLD" \in dpending \/ signo = "SIGCHLD"

(* The daemon stays where it is, and a Master dies with a SIGCHLD or not   *)
(* at all.                                                                 *)
Announced ==
  /\ UNCHANGED <<dpc, signo>>
  /\ "SIGCHLD" \in dpending => "SIGCHLD" \in dpending'
  /\ dpc # "gone" /\ ~Zombie /\ Zombie' => "SIGCHLD" \in dpending'

LEMMA AnnouncedStep == ASSUME NoLostInv, Announced PROVE NoLostInv'
BY DEF NoLostInv, Announced

LEMMA ExitAnnounced ==
  ASSUME TypeInv, NEW p \in Pid, NEW c, Exit(p, c), UNCHANGED dvars
  PROVE  Announced
BY DEF TypeInv, TypeOK, Announced, Exit, dvars, Zombie

LEMMA MasterAnnounced ==
  ASSUME TypeInv, NEW p \in Pid,
         MasterStep(p) \/ BootFails(p) \/ Crash(p) \/ Hang(p) \/ JobControl(p)
  PROVE  Announced
<1>1. CASE Boot(p)
  BY <1>1 DEF TypeInv, TypeOK, Announced, Boot, dvars, Zombie
<1>2. CASE TakeSigHup(p)
  BY <1>2 DEF TypeInv, TypeOK, Announced, TakeSigHup, dvars, Zombie
<1>3. CASE ReloadConfig(p)
  BY <1>3 DEF TypeInv, TypeOK, Announced, ReloadConfig, dvars, Zombie
<1>4. CASE Hang(p)
  BY <1>4 DEF TypeInv, TypeOK, Announced, Hang, dvars, Zombie
<1>5. CASE JobControl(p)
  BY <1>5 DEF Announced, JobControl, dvars, Zombie
<1> QED
  BY <1>1, <1>2, <1>3, <1>4, <1>5, ExitAnnounced
  DEF MasterStep, ReloadConfigThrows, TakeSigTerm, BootFails, Crash

LEMMA UserAnnounced == UserStep => Announced
BY DEF UserStep, LoadOpen, LoadWrite, LoadSignal, Signal, Announced, dvars, mvars, Zombie

LEMMA NoLostStep ==
  TypeInv /\ OneMasterInv /\ NoLostInv /\ [Next]_vars => NoLostInv'
<1> SUFFICES ASSUME TypeInv, OneMasterInv, NoLostInv, [Next]_vars PROVE NoLostInv'
  OBVIOUS
<1>1. ASSUME NEW p \in Pid, Fork(p) PROVE NoLostInv'
  <2>1. ~Zombie'
    BY <1>1 DEF Fork, TypeInv, TypeOK, OneMasterInv, OneMaster, Zombie
  <2> QED
    BY <2>1 DEF NoLostInv
<1>2. ASSUME NEW p \in Pid, Reap(p) PROVE NoLostInv'
  <2>1. ~Zombie'
    BY <1>2 DEF Reap, TypeInv, TypeOK, OneMasterInv, OneMaster, Zombie
  <2> QED
    BY <2>1 DEF NoLostInv
<1>3. ASSUME NEW s \in Watched, SigWaitInfo(s) PROVE NoLostInv'
  BY <1>3 DEF SigWaitInfo, mvars, NoLostInv, Zombie
<1>4. CASE KeepMaster \/ SigWaitInfoFails \/ OnSigChld \/ OnSigHup
  BY <1>4 DEF KeepMaster, SigWaitInfoFails, OnSigChld, OnSigHup, mvars, NoLostInv, Zombie
<1>5. CASE Forward \/ OnStopSignal
  BY <1>5 DEF Forward, OnStopSignal, NoLostInv, Zombie
<1>6. CASE OnSigHupThrows \/ Destroy \/ ForkFails \/ DaemonKilled
  BY <1>6 DEF OnSigHupThrows, Destroy, ForkFails, DaemonKilled, DaemonEnds, NoLostInv
<1>7. CASE \E p \in Pid : MasterStep(p) \/ BootFails(p) \/ Crash(p) \/ Hang(p) \/ JobControl(p)
  BY <1>7, MasterAnnounced, AnnouncedStep
<1>8. CASE UserStep
  BY <1>8, UserAnnounced, AnnouncedStep
<1>9. CASE UNCHANGED vars
  BY <1>9 DEF vars, dvars, mvars, NoLostInv, Zombie
<1> QED
  BY <1>1, <1>2, <1>3, <1>4, <1>5, <1>6, <1>7, <1>8, <1>9 DEF Next, DaemonStep, FaultStep

(* While the daemon waits for signals with a dead Master, a SIGCHLD is     *)
(* pending: no order of signals, deaths and reloads loses the restart.     *)
THEOREM NoLostExitAlways == Spec => []NoLostExit
<1>1. Init => NoLostInv
  BY DEF Init, NoLostInv, Zombie
<1>2. NoLostInv => NoLostExit
  BY DEF NoLostInv, NoLostExit, Zombie
<1> QED
  BY <1>1, <1>2, NoLostStep, TypeInvariant, OneMasterInvariant, PTL DEF Spec
-----------------------------------------------------------------------------
(* From the moment the daemon breaks off its loop, no Master is live that  *)
(* has not been sent SIGTERM.                                              *)
StoppingInv ==
  /\ ~pidFile => dpc = "gone"
  /\ dpc = "leave" \/ ~pidFile => \A p \in Pid : Live(p) => "SIGTERM" \in mpending[p]

(* No live Master appears, and none takes a SIGTERM and lives.             *)
NoneEscapes ==
  /\ UNCHANGED <<dpc, pidFile>>
  /\ \A p \in Pid : Live(p)' =>
       /\ Live(p)
       /\ "SIGTERM" \in mpending[p] => "SIGTERM" \in mpending'[p]

LEMMA NoneEscapesStep == ASSUME StoppingInv, NoneEscapes PROVE StoppingInv'
<1>1. dpc' = dpc /\ pidFile' = pidFile
  BY DEF NoneEscapes
<1>2. ASSUME dpc = "leave" \/ ~pidFile, NEW p \in Pid, Live(p)'
      PROVE  "SIGTERM" \in mpending'[p]
  BY <1>2 DEF StoppingInv, NoneEscapes
<1> QED
  BY <1>1, <1>2 DEF StoppingInv

LEMMA ExitEscapes ==
  ASSUME TypeInv, NEW p \in Pid, NEW c, Exit(p, c), UNCHANGED <<dvars, pidFile>>
  PROVE  NoneEscapes
BY DEF TypeInv, TypeOK, NoneEscapes, Exit, Live, dvars

LEMMA MasterEscapes ==
  ASSUME TypeInv, NEW p \in Pid,
         MasterStep(p) \/ BootFails(p) \/ Crash(p) \/ Hang(p) \/ JobControl(p)
  PROVE  NoneEscapes
<1>1. CASE Boot(p)
  BY <1>1 DEF TypeInv, TypeOK, NoneEscapes, Boot, Live, dvars
<1>2. CASE TakeSigHup(p)
  BY <1>2 DEF TypeInv, TypeOK, NoneEscapes, TakeSigHup, Live, dvars
<1>3. CASE ReloadConfig(p)
  BY <1>3 DEF TypeInv, TypeOK, NoneEscapes, ReloadConfig, Live, dvars
<1>4. CASE Hang(p)
  BY <1>4 DEF TypeInv, TypeOK, NoneEscapes, Hang, Runs, Live, dvars
<1>5. CASE JobControl(p)
  BY <1>5 DEF NoneEscapes, JobControl, Live, dvars
<1> QED
  BY <1>1, <1>2, <1>3, <1>4, <1>5, ExitEscapes
  DEF MasterStep, ReloadConfigThrows, TakeSigTerm, BootFails, Crash, dvars

LEMMA UserEscapes == UserStep => NoneEscapes
BY DEF UserStep, LoadOpen, LoadWrite, LoadSignal, Signal, NoneEscapes, Live, dvars, mvars

LEMMA DaemonEndsKeepsLive ==
  ASSUME TypeInv, DaemonEnds, NEW p \in Pid, Live(p)'
  PROVE  Live(p) /\ mpending'[p] = mpending[p]
BY DEF TypeInv, TypeOK, DaemonEnds, Live

LEMMA StoppingStep ==
  TypeInv /\ OneMasterInv /\ StoppingInv /\ [Next]_vars => StoppingInv'
<1> SUFFICES ASSUME TypeInv, OneMasterInv, StoppingInv, [Next]_vars PROVE StoppingInv'
  OBVIOUS
<1>1. ASSUME NEW p \in Pid, Fork(p) PROVE StoppingInv'
  BY <1>1 DEF Fork, StoppingInv
<1>2. ASSUME NEW p \in Pid, Reap(p) PROVE StoppingInv'
  BY <1>2 DEF Reap, StoppingInv, TypeInv, TypeOK, OneMasterInv, OneMaster, Live
<1>3. CASE OnStopSignal
  BY <1>3 DEF OnStopSignal, Kill, StoppingInv, TypeInv, TypeOK, OneMasterInv, OneMaster, Live
<1>4. CASE \/ KeepMaster \/ SigWaitInfoFails \/ OnSigChld \/ OnSigHup \/ Forward
           \/ \E s \in Watched : SigWaitInfo(s)
  BY <1>4 DEF KeepMaster, SigWaitInfoFails, OnSigChld, OnSigHup, Forward, SigWaitInfo, StoppingInv
<1>5. CASE Destroy
  BY <1>5, DaemonEndsKeepsLive DEF Destroy, DaemonEnds, StoppingInv
<1>6. CASE OnSigHupThrows \/ ForkFails
  BY <1>6 DEF OnSigHupThrows, ForkFails, DaemonEnds, StoppingInv
<1>7. CASE DaemonKilled
  BY <1>7 DEF DaemonKilled, DaemonEnds, StoppingInv
<1>8. CASE \E p \in Pid : MasterStep(p) \/ BootFails(p) \/ Crash(p) \/ Hang(p) \/ JobControl(p)
  BY <1>8, MasterEscapes, NoneEscapesStep
<1>9. CASE UserStep
  BY <1>9, UserEscapes, NoneEscapesStep
<1>10. CASE UNCHANGED vars
  BY <1>10 DEF vars, dvars, mvars, StoppingInv, Live
<1> QED
  BY <1>1, <1>2, <1>3, <1>4, <1>5, <1>6, <1>7, <1>8, <1>9, <1>10
  DEF Next, DaemonStep, FaultStep

(* A daemon that removes its PID file leaves no Master that was not told   *)
(* to stop.                                                                *)
THEOREM NoForgottenMasterAlways == Spec => []NoForgottenMaster
<1>1. Init => StoppingInv
  BY DEF Init, StoppingInv
<1>2. StoppingInv => NoForgottenMaster
  BY DEF StoppingInv, NoForgottenMaster
<1> QED
  BY <1>1, <1>2, StoppingStep, TypeInvariant, OneMasterInvariant, PTL DEF Spec
-----------------------------------------------------------------------------
(* Builds and hosts where nobody stops and continues the daemon or its     *)
(* Master.                                                                 *)
NoJobControl == "jobcontrol" \notin Faults /\ "eintr" \notin Faults

(* A SIGCHLD, pending or being handled, then stands for one dead Master.   *)
OneSigChldInv ==
  dpc # "gone" =>
    /\ "SIGCHLD" \in dpending => Zombie
    /\ dpc = "wait" \/ (dpc = "dispatch" /\ signo = "SIGCHLD") =>
         Zombie /\ "SIGCHLD" \notin dpending

(* Steps of others that neither make a SIGCHLD nor take a dead Master.     *)
NoNews ==
  /\ UNCHANGED <<dpc, signo>>
  /\ ("SIGCHLD" \in dpending') <=> ("SIGCHLD" \in dpending)
  /\ Zombie => Zombie'

LEMMA NoNewsStep == ASSUME OneSigChldInv, NoNews PROVE OneSigChldInv'
BY DEF OneSigChldInv, NoNews

LEMMA ExitSigChld ==
  ASSUME TypeInv, OneMasterInv, OneSigChldInv, NEW p \in Pid, NEW c, Live(p),
         Exit(p, c), UNCHANGED dvars
  PROVE  OneSigChldInv'
<1>1. CASE dpc = "gone"
  BY <1>1 DEF OneSigChldInv, dvars
<1>2. CASE dpc # "gone"
  <2>1. ~Zombie
    BY <1>2 DEF OneMasterInv, OneMaster, Zombie, Live
  <2>2. Zombie'
    BY <1>2 DEF TypeInv, TypeOK, Exit, Zombie
  <2> QED
    BY <1>2, <2>1, <2>2 DEF OneSigChldInv, dvars
<1> QED
  BY <1>1, <1>2

LEMMA MasterSigChld ==
  ASSUME NoJobControl, TypeInv, OneMasterInv, OneSigChldInv, NEW p \in Pid,
         MasterStep(p) \/ BootFails(p) \/ Crash(p) \/ Hang(p) \/ JobControl(p)
  PROVE  OneSigChldInv'
<1>1. CASE Boot(p)
  BY <1>1, NoNewsStep DEF TypeInv, TypeOK, NoNews, Boot, dvars, Zombie
<1>2. CASE TakeSigHup(p)
  BY <1>2, NoNewsStep DEF TypeInv, TypeOK, NoNews, TakeSigHup, dvars, Zombie
<1>3. CASE ReloadConfig(p)
  BY <1>3, NoNewsStep DEF TypeInv, TypeOK, NoNews, ReloadConfig, dvars, Zombie
<1>4. CASE Hang(p)
  BY <1>4, NoNewsStep DEF TypeInv, TypeOK, NoNews, Hang, Runs, Live, dvars, Zombie
<1>5. CASE ReloadConfigThrows(p) \/ TakeSigTerm(p) \/ BootFails(p) \/ Crash(p)
  BY <1>5, ExitSigChld
  DEF ReloadConfigThrows, TakeSigTerm, BootFails, Crash, Runs, dvars
<1> QED
  BY <1>1, <1>2, <1>3, <1>4, <1>5 DEF MasterStep, JobControl, NoJobControl

LEMMA UserNoNews == UserStep => NoNews
BY EnvAssumption
DEF UserStep, LoadOpen, LoadWrite, LoadSignal, Signal, NoNews, dvars, mvars, Zombie

LEMMA OneSigChldStep ==
  ASSUME NoJobControl
  PROVE  TypeInv /\ OneMasterInv /\ OneSigChldInv /\ [Next]_vars => OneSigChldInv'
<1> SUFFICES ASSUME TypeInv, OneMasterInv, OneSigChldInv, [Next]_vars PROVE OneSigChldInv'
  OBVIOUS
<1>1. ASSUME NEW p \in Pid, Fork(p) PROVE OneSigChldInv'
  <2>1. "SIGCHLD" \notin dpending
    BY <1>1 DEF Fork, OneMasterInv, OneMaster, OneSigChldInv, Zombie
  <2> QED
    BY <1>1, <2>1 DEF Fork, OneSigChldInv
<1>2. ASSUME NEW p \in Pid, Reap(p) PROVE OneSigChldInv'
  BY <1>2 DEF Reap, OneSigChldInv
<1>3. ASSUME NEW s \in Watched, SigWaitInfo(s) PROVE OneSigChldInv'
  BY <1>3 DEF SigWaitInfo, OneSigChldInv, mvars, Zombie
<1>4. CASE KeepMaster \/ OnSigChld \/ OnSigHup
  BY <1>4 DEF KeepMaster, OnSigChld, OnSigHup, OneSigChldInv, mvars, Zombie
<1>5. CASE Forward \/ OnStopSignal
  BY <1>5 DEF Forward, OnStopSignal, OneSigChldInv, Zombie
<1>6. CASE OnSigHupThrows \/ Destroy \/ ForkFails \/ DaemonKilled
  BY <1>6 DEF OnSigHupThrows, Destroy, ForkFails, DaemonKilled, DaemonEnds, OneSigChldInv
<1>7. CASE \E p \in Pid : MasterStep(p) \/ BootFails(p) \/ Crash(p) \/ Hang(p) \/ JobControl(p)
  BY <1>7, MasterSigChld
<1>8. CASE UserStep
  BY <1>8, UserNoNews, NoNewsStep
<1>9. CASE UNCHANGED vars
  BY <1>9 DEF vars, dvars, mvars, OneSigChldInv, Zombie
<1> QED
  BY <1>1, <1>2, <1>3, <1>4, <1>5, <1>6, <1>7, <1>8, <1>9
  DEF Next, DaemonStep, FaultStep, SigWaitInfoFails, NoJobControl

(* Without job control the daemon is never stuck in wait(): every SIGCHLD  *)
(* it handles finds a dead Master to collect.                              *)
THEOREM WaitNeverBlocksAlways ==
  ASSUME NoJobControl PROVE Spec => []WaitNeverBlocks
<1>1. Init => OneSigChldInv
  BY DEF Init, OneSigChldInv
<1>2. OneSigChldInv => WaitNeverBlocks
  BY DEF OneSigChldInv, WaitNeverBlocks, Zombie
<1> QED
  BY <1>1, <1>2, OneSigChldStep, TypeInvariant, OneMasterInvariant, PTL DEF Spec
-----------------------------------------------------------------------------
(* A full configuration that CONFIG_LOAD names has reached the daemon, or  *)
(* something is under way that will make the daemon read it.               *)
Loading == \E u \in User : upc[u] # "idle"
Requested == Loading \/ "SIGHUP" \in dpending \/ (dpc = "dispatch" /\ signo = "SIGHUP")

DaemonCovered == Requested \/ dconf = Full(confFile)

(* ... and likewise its Master.                                            *)
MasterCovered(p) ==
  \/ Requested
  \/ dpc = "forward"
  \/ "SIGHUP" \in mpending[p]
  \/ master[p] = "reload"
  \/ mconf[p] = Full(confFile)

Serves(p) == master[p] \in {"boot", "ready", "reload"}

CoverInv ==
  dpc # "gone" /\ KindOf(confFile) = "valid" =>
    DaemonCovered /\ \A p \in Pid : Serves(p) => MasterCovered(p)

(* Steps after which every promise still stands.                           *)
KeepsPromises ==
  /\ UNCHANGED <<confFile, dconf>>
  /\ dpc' # "gone" => dpc # "gone"
  /\ Requested => Requested'
  /\ \A p \in Pid : Serves(p)' =>
       /\ Serves(p)
       /\ MasterCovered(p) => MasterCovered(p)'

LEMMA KeepsPromisesStep == ASSUME CoverInv, KeepsPromises PROVE CoverInv'
<1> SUFFICES ASSUME dpc' # "gone", KindOf(confFile)' = "valid"
             PROVE  DaemonCovered' /\ \A p \in Pid : Serves(p)' => MasterCovered(p)'
  BY DEF CoverInv
<1>1. dpc # "gone" /\ KindOf(confFile) = "valid"
  BY DEF KeepsPromises, KindOf
<1>2. DaemonCovered'
  BY <1>1 DEF CoverInv, KeepsPromises, DaemonCovered
<1>3. ASSUME NEW p \in Pid, Serves(p)' PROVE MasterCovered(p)'
  BY <1>1, <1>3 DEF CoverInv, KeepsPromises
<1> QED
  BY <1>2, <1>3

LEMMA ExitPromises ==
  ASSUME TypeInv, NEW p \in Pid, NEW c, Exit(p, c),
         UNCHANGED <<dvars, confFile, dconf, uvars>>
  PROVE  KeepsPromises
<1>1. Requested => Requested'
  BY DEF Exit, dvars, uvars, Requested, Loading
<1>2. ASSUME NEW q \in Pid, Serves(q)' PROVE q # p
  BY <1>2 DEF TypeInv, TypeOK, Exit, Serves
<1>3. ASSUME NEW q \in Pid, Serves(q)'
      PROVE  Serves(q) /\ (MasterCovered(q) => MasterCovered(q)')
  BY <1>1, <1>2, <1>3 DEF TypeInv, TypeOK, Exit, Serves, MasterCovered, dvars
<1> QED
  BY <1>1, <1>3 DEF KeepsPromises, dvars

LEMMA MasterPromises ==
  ASSUME TypeInv, NEW p \in Pid,
         \/ Boot(p) \/ TakeSigHup(p) \/ ReloadConfigThrows(p) \/ TakeSigTerm(p)
         \/ BootFails(p) \/ Crash(p) \/ Hang(p) \/ JobControl(p)
  PROVE  KeepsPromises
<1>1. CASE Boot(p)
  BY <1>1 DEF TypeInv, TypeOK, KeepsPromises, Boot, Requested, Loading, Serves,
              MasterCovered, dvars, uvars
<1>2. CASE TakeSigHup(p)
  BY <1>2 DEF TypeInv, TypeOK, KeepsPromises, TakeSigHup, Requested, Loading, Serves,
              MasterCovered, dvars, uvars
<1>3. CASE Hang(p)
  BY <1>3 DEF TypeInv, TypeOK, KeepsPromises, Hang, Requested, Loading, Serves,
              MasterCovered, dvars, uvars
<1>4. CASE JobControl(p)
  BY <1>4 DEF KeepsPromises, JobControl, Requested, Loading, Serves,
              MasterCovered, dvars, uvars
<1> QED
  BY <1>1, <1>2, <1>3, <1>4, ExitPromises
  DEF ReloadConfigThrows, TakeSigTerm, BootFails, Crash, dvars, uvars

(* The Master's own reload is what its SIGHUP promised.                    *)
LEMMA ReloadCovers ==
  ASSUME TypeInv, CoverInv, NEW p \in Pid, ReloadConfig(p) PROVE CoverInv'
<1> SUFFICES ASSUME dpc # "gone", KindOf(confFile) = "valid" PROVE CoverInv'
  BY DEF ReloadConfig, CoverInv, KindOf, dvars
<1>1. DaemonCovered'
  BY DEF ReloadConfig, CoverInv, DaemonCovered, Requested, Loading, dvars, uvars
<1>2. mconf'[p] = Full(confFile)
  BY DEF ReloadConfig, Loaded, TypeInv, TypeOK
<1>3. ASSUME NEW q \in Pid, q # p, Serves(q)' PROVE MasterCovered(q)'
  BY <1>3 DEF ReloadConfig, CoverInv, Serves, MasterCovered, Requested, Loading,
              TypeInv, TypeOK, dvars, uvars
<1> QED
  BY <1>1, <1>2, <1>3 DEF CoverInv, MasterCovered, ReloadConfig, Full

LEMMA UserCovers == ASSUME TypeInv, CoverInv, UserStep PROVE CoverInv'
<1>1. ASSUME NEW u \in User, NEW c \in Config, LoadOpen(u, c) PROVE CoverInv'
  <2>1. Requested'
    BY <1>1 DEF LoadOpen, Requested, Loading, TypeInv, TypeOK
  <2> QED
    BY <2>1 DEF CoverInv, DaemonCovered, MasterCovered
<1>2. ASSUME NEW u \in User, LoadWrite(u) PROVE CoverInv'
  <2>1. Requested'
    BY <1>2 DEF LoadWrite, Requested, Loading, TypeInv, TypeOK
  <2> QED
    BY <2>1 DEF CoverInv, DaemonCovered, MasterCovered
<1>3. ASSUME NEW u \in User, LoadSignal(u) PROVE CoverInv'
  <2>1. dpc' # "gone" => Requested'
    BY <1>3 DEF LoadSignal, Requested, dvars
  <2> QED
    BY <2>1 DEF CoverInv, DaemonCovered, MasterCovered
<1>4. ASSUME NEW s \in EnvSignals, Signal(s) PROVE CoverInv'
  BY <1>4, KeepsPromisesStep
  DEF Signal, KeepsPromises, Requested, Loading, Serves, MasterCovered, dvars, mvars, uvars
<1> QED
  BY <1>1, <1>2, <1>3, <1>4 DEF UserStep
LEMMA DaemonCovers ==
  ASSUME TypeInv, OneMasterInv, CoverInv, DaemonStep \/ SigWaitInfoFails
  PROVE  CoverInv'
<1>1. ASSUME NEW p \in Pid, Fork(p) PROVE CoverInv'
  BY <1>1 DEF Fork, CoverInv, DaemonCovered, MasterCovered, Requested, Loading, Serves,
              TypeInv, TypeOK, uvars
<1>2. ASSUME NEW p \in Pid, Reap(p) PROVE CoverInv'
  BY <1>2 DEF Reap, CoverInv, DaemonCovered, MasterCovered, Requested, Loading, Serves,
              TypeInv, TypeOK, uvars
<1>3. ASSUME NEW s \in Watched, SigWaitInfo(s) PROVE CoverInv'
  BY <1>3 DEF SigWaitInfo, CoverInv, DaemonCovered, MasterCovered, Requested, Loading,
              Serves, mvars, uvars
<1>4. CASE KeepMaster \/ SigWaitInfoFails \/ OnSigChld
  BY <1>4 DEF KeepMaster, SigWaitInfoFails, OnSigChld, CoverInv, DaemonCovered,
              MasterCovered, Requested, Loading, Serves, mvars, uvars
<1>5. CASE OnSigHup
  BY <1>5 DEF OnSigHup, CoverInv, DaemonCovered, MasterCovered, Loaded
<1>6. CASE Forward
  <2>1. ASSUME NEW p \in Pid, Serves(p)' PROVE "SIGHUP" \in mpending'[p]
    BY <1>6, <2>1 DEF Forward, Kill, Live, Serves, OneMasterInv, OneMaster, TypeInv, TypeOK
  <2>2. DaemonCovered => DaemonCovered'
    BY <1>6 DEF Forward, DaemonCovered, Requested, Loading, uvars
  <2> QED
    BY <1>6, <2>1, <2>2 DEF Forward, CoverInv, MasterCovered
<1>7. CASE OnStopSignal
  <2>1. Requested => Requested'
    BY <1>7 DEF OnStopSignal, Requested, Loading, uvars
  <2>2. ASSUME NEW p \in Pid, Serves(p)' PROVE Serves(p) /\ (MasterCovered(p) => MasterCovered(p)')
    BY <1>7, <2>1, <2>2 DEF OnStopSignal, Kill, Serves, MasterCovered, TypeInv, TypeOK
  <2> QED
    BY <1>7, <2>1, <2>2, KeepsPromisesStep DEF OnStopSignal, KeepsPromises
<1>8. CASE OnSigHupThrows \/ Destroy
  BY <1>8 DEF OnSigHupThrows, Destroy, DaemonEnds, CoverInv
<1> QED
  BY <1>1, <1>2, <1>3, <1>4, <1>5, <1>6, <1>7, <1>8 DEF DaemonStep

LEMMA CoverStep ==
  TypeInv /\ OneMasterInv /\ CoverInv /\ [Next]_vars => CoverInv'
<1> SUFFICES ASSUME TypeInv, OneMasterInv, CoverInv, [Next]_vars PROVE CoverInv'
  OBVIOUS
<1>1. CASE DaemonStep \/ SigWaitInfoFails
  BY <1>1, DaemonCovers
<1>2. CASE ForkFails \/ DaemonKilled
  BY <1>2 DEF ForkFails, DaemonKilled, DaemonEnds, CoverInv
<1>3. ASSUME NEW p \in Pid,
             MasterStep(p) \/ BootFails(p) \/ Crash(p) \/ Hang(p) \/ JobControl(p)
      PROVE  CoverInv'
  BY <1>3, ReloadCovers, MasterPromises, KeepsPromisesStep DEF MasterStep
<1>4. CASE UserStep
  BY <1>4, UserCovers
<1>5. CASE UNCHANGED vars
  BY <1>5, KeepsPromisesStep
  DEF vars, dvars, mvars, uvars, KeepsPromises, Requested, Loading, Serves, MasterCovered
<1> QED
  BY <1>1, <1>2, <1>3, <1>4, <1>5 DEF Next, FaultStep

(* At rest daemon and Master hold the configuration CONFIG_LOAD names,     *)
(* however loads, merged SIGHUPs, crashes and restarts interleaved.        *)
THEOREM AgreeAtRestAlways == Spec => []AgreeAtRest
<1>1. Init => CoverInv
  BY ConfigAssumption
  DEF Init, CoverInv, DaemonCovered, Serves
<1>2. CoverInv => AgreeAtRest
  BY DEF CoverInv, AgreeAtRest, AtRest, DaemonCovered, MasterCovered, Requested,
         Loading, Serves
<1> QED
  BY <1>1, <1>2, CoverStep, TypeInvariant, OneMasterInvariant, PTL DEF Spec
-----------------------------------------------------------------------------
(* The steps of Supervisor are steps of Supervision.                       *)
Stopped == dpc \in {"leave", "gone"}

LEMMA SlotIs ==
  ASSUME TypeInv, OneMasterInv, ~Stopped, NEW p \in Pid, master[p] # "free"
  PROVE  Slot = p /\ Slot # NoPid
BY PidAssumption DEF Slot, Stopped, OneMasterInv, OneMaster

LEMMA StutterStep ==
  ASSUME TypeInv, OneMasterInv, UNCHANGED pid, Stopped <=> Stopped',
         \A p \in Pid : /\ (master[p] = "free") <=> (master'[p] = "free")
                        /\ (master[p] = "zombie") <=> (master'[p] = "zombie")
  PROVE  UNCHANGED Abs!vars
<1>1. Slot' = Slot
  BY DEF Slot, Stopped
<1>2. Slot # NoPid => Slot \in Pid
  BY DEF Slot, TypeInv, TypeOK
<1> QED
  BY <1>1, <1>2 DEF Abs!vars, Stopped

LEMMA ExitStep ==
  ASSUME TypeInv, OneMasterInv, NEW p \in Pid, NEW c, Live(p), Exit(p, c), UNCHANGED dvars
  PROVE  [Abs!Next]_(Abs!vars)
<1>1. CASE Stopped
  BY <1>1 DEF Abs!vars, Slot, Stopped, dvars
<1>2. CASE ~Stopped
  <2>1. Slot = p /\ Slot # NoPid
    BY <1>2, SlotIs DEF Live
  <2>2. master'[p] = "zombie"
    BY <1>2 DEF Exit, Stopped, TypeInv, TypeOK
  <2>3. Slot' = p
    BY <1>2, <2>1, <2>2 DEF Slot, Stopped, dvars
  <2>4. Abs!Die
    BY <1>2, <2>1, <2>2, <2>3 DEF Abs!Die, Live, Stopped, dvars
  <2> QED
    BY <2>4 DEF Abs!Next
<1> QED
  BY <1>1, <1>2

LEMMA StopStep ==
  ASSUME ~Stopped, Stopped' PROVE Abs!Next
<1>1. Slot' = NoPid
  BY DEF Slot, Stopped
<1> QED
  BY <1>1 DEF Abs!Next, Abs!Stop, Stopped

LEMMA RefineDaemon ==
  ASSUME TypeInv, OneMasterInv, DaemonStep PROVE [Abs!Next]_(Abs!vars)
<1>1. ASSUME NEW p \in Pid, Fork(p) PROVE Abs!Start(p)
  <2>1. Slot = NoPid
    BY <1>1 DEF Fork, Slot, OneMasterInv, OneMaster
  <2>2. Slot' = p /\ master'[p] = "boot"
    BY <1>1 DEF Fork, Slot, TypeInv, TypeOK
  <2> QED
    BY <1>1, <2>1, <2>2 DEF Fork, Abs!Start
<1>2. ASSUME NEW p \in Pid, Reap(p) PROVE Abs!Next
  <2>1. CASE dpc' = "leave"
    BY <1>2, <2>1, StopStep DEF Reap, Stopped
  <2>2. CASE dpc' = "top"
    <3>1. Slot = p /\ Slot # NoPid /\ ~Stopped
      BY <1>2, SlotIs DEF Reap, Stopped
    <3>2. Slot' = NoPid
      BY <1>2, <2>2 DEF Reap, Slot, OneMasterInv, OneMaster, TypeInv, TypeOK
    <3>3. Abs!Collect
      BY <1>2, <2>2, <3>1, <3>2 DEF Reap, Abs!Collect, Stopped
    <3> QED
      BY <3>3 DEF Abs!Next
  <2> QED
    BY <1>2, <2>1, <2>2 DEF Reap
<1>3. CASE \/ \E s \in Watched : SigWaitInfo(s)
           \/ KeepMaster \/ OnSigChld \/ OnSigHup \/ Forward
  BY <1>3, StutterStep
  DEF SigWaitInfo, KeepMaster, OnSigChld, OnSigHup, Forward, Stopped, mvars
<1>4. CASE OnStopSignal \/ OnSigHupThrows
  BY <1>4, StopStep DEF OnStopSignal, OnSigHupThrows, DaemonEnds, Stopped
<1>5. CASE Destroy
  BY <1>5 DEF Destroy, DaemonEnds, Abs!vars, Slot
<1> QED
  BY <1>1, <1>2, <1>3, <1>4, <1>5 DEF DaemonStep, Abs!Next

LEMMA RefineMaster ==
  ASSUME TypeInv, OneMasterInv, NEW p \in Pid,
         MasterStep(p) \/ BootFails(p) \/ Crash(p) \/ Hang(p) \/ JobControl(p)
  PROVE  [Abs!Next]_(Abs!vars)
<1>1. CASE Boot(p) \/ TakeSigHup(p)
  BY <1>1, StutterStep DEF Boot, TakeSigHup, TypeInv, TypeOK, Stopped, dvars
<1>2. CASE ReloadConfig(p)
  BY <1>2, StutterStep DEF ReloadConfig, TypeInv, TypeOK, Stopped, dvars
<1>3. CASE Hang(p)
  BY <1>3, StutterStep DEF Hang, Runs, Live, TypeInv, TypeOK, Stopped, dvars
<1>4. CASE JobControl(p)
  BY <1>4, StutterStep DEF JobControl, Stopped, dvars
<1> QED
  BY <1>1, <1>2, <1>3, <1>4, ExitStep
  DEF MasterStep, ReloadConfigThrows, TakeSigTerm, BootFails, Crash, Runs, dvars

LEMMA RefineStep ==
  TypeInv /\ OneMasterInv /\ [Next]_vars => [Abs!Next]_(Abs!vars)
<1> SUFFICES ASSUME TypeInv, OneMasterInv, [Next]_vars PROVE [Abs!Next]_(Abs!vars)
  OBVIOUS
<1>1. CASE SigWaitInfoFails \/ UserStep \/ UNCHANGED vars
  BY <1>1, StutterStep
  DEF SigWaitInfoFails, UserStep, LoadOpen, LoadWrite, LoadSignal, Signal, Stopped,
      vars, dvars, mvars
<1>2. CASE ForkFails \/ DaemonKilled
  <2>1. CASE Stopped
    BY <1>2, <2>1 DEF ForkFails, DaemonKilled, DaemonEnds, Abs!vars, Slot, Stopped
  <2>2. CASE ~Stopped
    BY <1>2, <2>2, StopStep DEF ForkFails, DaemonKilled, DaemonEnds, Stopped
  <2> QED
    BY <2>1, <2>2
<1> QED
  BY <1>1, <1>2, RefineDaemon, RefineMaster DEF Next, FaultStep

(* At most one Master, each collected before the next is started, none     *)
(* after the daemon has decided to stop.                                   *)
THEOREM SupervisorImplementsSupervision == Spec => ImplementsSupervision
<1>1. Init => Abs!Init
  BY DEF Init, Abs!Init, Slot
<1> QED
  BY <1>1, RefineStep, TypeInvariant, OneMasterInvariant, PTL
  DEF Spec, ImplementsSupervision, Abs!Spec
=============================================================================
