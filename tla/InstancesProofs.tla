--------------------------- MODULE InstancesProofs ---------------------------
(***************************************************************************)
(* Theorems about Instances, for any number of invocations and every       *)
(* fault: of the PID file for any commands, patient or not; of one daemon  *)
(* at a time for those that wait for each other.                           *)
(***************************************************************************)
EXTENDS Instances, FiniteSetTheorems, TLAPS

(* An invocation that has not returned to the shell is no daemon yet.      *)
OwnerInv ==
  /\ TypeOK
  /\ LinkHasOwner
  /\ \A c \in Proc : pc[c] # "done" => daemon[c] = "none"

LEMMA OwnerInit == Init => OwnerInv
<1> SUFFICES ASSUME Init PROVE OwnerInv
  OBVIOUS
<1>1. TypeOK
  BY DEF Init, TypeOK
<1>2. LinkHasOwner
  BY DEF Init, LinkHasOwner
<1>3. \A c \in Proc : daemon[c] = "none"
  BY DEF Init
<1> QED
  BY <1>1, <1>2, <1>3 DEF OwnerInv

(* Client steps that touch no daemon and no PID file.                      *)
LEMMA QuietStep ==
  ASSUME OwnerInv, NEW c \in Proc, NEW a, NEW b \in {"read", "scan", "absent", "found",
           "open", "write", "signal", "daemonize", "done"}, Step(c, a, b), a # "done",
         cmd' \in [Proc -> Commands \cup {"status"}],
         target' \in [Proc -> Proc \cup {NoProc}], blank' \in BOOLEAN,
         UNCHANGED <<dvars, fvars>>
  PROVE  OwnerInv'
BY DEF OwnerInv, TypeOK, LinkHasOwner, Step, dvars, fvars

(* A signal kills a daemon that has not blocked it, and never un-creates a *)
(* PID file.                                                               *)
LEMMA SignalStep ==
  ASSUME OwnerInv, NEW c \in Proc, NEW p \in Proc \cup {NoProc}, NEW s, NEW a,
         NEW b \in {"daemonize", "done"}, Step(c, a, b), a # "done", Signal(p, s),
         UNCHANGED <<cmd, target, fvars, blank>>
  PROVE  OwnerInv'
<1>1. TypeOK'
  BY DEF OwnerInv, TypeOK, Signal, Step, fvars, Starting
<1>2. LinkHasOwner'
  BY ProcAssumption DEF OwnerInv, TypeOK, LinkHasOwner, Signal, fvars, Starting
<1>3. \A d \in Proc : pc'[d] # "done" => daemon'[d] = "none"
  BY DEF OwnerInv, TypeOK, Signal, Step, Starting
<1> QED
  BY <1>1, <1>2, <1>3 DEF OwnerInv

LEMMA ClientKeepsOwner == ASSUME OwnerInv, NEW c \in Proc, ClientStep(c) PROVE OwnerInv'
<1>1. CASE ReadPidFile(c)
  BY <1>1, QuietStep DEF ReadPidFile, ReturnErrno, OwnerInv, TypeOK
<1>2. CASE ScanFinds(c)
  BY <1>2, QuietStep DEF ScanFinds, OwnerInv, TypeOK
<1>3. CASE ScanFails(c)
  BY <1>3 DEF ScanFails, Step, OwnerInv, TypeOK, LinkHasOwner, dvars
<1>4. CASE NoDaemonProcess(c)
  BY <1>4, QuietStep DEF NoDaemonProcess, OwnerInv, TypeOK
<1>5. CASE RepairConfigLoad(c)
  BY <1>5, QuietStep DEF RepairConfigLoad, ReturnErrno, OwnerInv, TypeOK
<1>6. CASE FoundLoad(c)
  BY <1>6, QuietStep DEF FoundLoad, OwnerInv, TypeOK
<1>7. CASE FoundSignal(c)
  BY <1>7, SignalStep DEF FoundSignal, OwnerInv, TypeOK
<1>8. CASE OptionLoadOpens(c)
  BY <1>8, QuietStep DEF OptionLoadOpens, OwnerInv, TypeOK
<1>9. CASE OptionLoadWrites(c)
  BY <1>9, QuietStep DEF OptionLoadWrites, OwnerInv, TypeOK
<1>10. CASE LoadSignals(c)
  BY <1>10, SignalStep DEF LoadSignals, OwnerInv, TypeOK
<1>11. CASE Daemonize(c)
  <2>1. link # c
    BY <1>11, ProcAssumption DEF Daemonize, Step, OwnerInv, LinkHasOwner
  <2> QED
    BY <1>11, <2>1 DEF Daemonize, Step, OwnerInv, TypeOK, LinkHasOwner, fvars, Starting
<1> QED
  BY <1>1, <1>2, <1>3, <1>4, <1>5, <1>6, <1>7, <1>8, <1>9, <1>10, <1>11 DEF ClientStep

(* A daemon's own steps: set_pid_file up to the fopen, and ~daemon, are    *)
(* the only ones that change whose file PID_FILE names.                    *)
LEMMA DaemonKeepsOwner == ASSUME OwnerInv, NEW c \in Proc, DaemonStep(c) PROVE OwnerInv'
<1>1. CASE UnlinkOld(c)
  BY <1>1 DEF UnlinkOld, Advance, OwnerInv, TypeOK, LinkHasOwner, Starting
<1>2. CASE CreatePidFile(c)
  <2>1. link' \in Proc
    BY <1>2 DEF CreatePidFile, OwnerInv, TypeOK
  <2>2. daemon'[link'] \in {"opened", "unmasked", "run", "leave", "killed"}
    BY <1>2 DEF CreatePidFile, Advance, OwnerInv, TypeOK, LinkHasOwner
  <2>3. \A d \in Proc : pc'[d] # "done" => daemon'[d] = "none"
    BY <1>2 DEF CreatePidFile, Advance, OwnerInv, TypeOK
  <2> QED
    BY <1>2, <2>1, <2>2, <2>3 DEF CreatePidFile, Advance, OwnerInv, TypeOK, LinkHasOwner, Starting
<1>3. CASE WritePidFile(c)
  BY <1>3 DEF WritePidFile, Advance, OwnerInv, TypeOK, LinkHasOwner, Starting
<1>4. CASE Monitor(c)
  BY <1>4 DEF Monitor, Advance, OwnerInv, TypeOK, LinkHasOwner, fvars
<1>5. CASE OnSigTerm(c)
  BY <1>5 DEF OnSigTerm, Advance, OwnerInv, TypeOK, LinkHasOwner, fvars
<1>6. CASE Destroy(c)
  BY <1>6 DEF Destroy, Advance, OwnerInv, TypeOK, LinkHasOwner
<1> QED
  BY <1>1, <1>2, <1>3, <1>4, <1>5, <1>6 DEF DaemonStep

LEMMA MasterKeepsOwner == ASSUME OwnerInv, NEW c \in Proc, MasterStep(c) PROVE OwnerInv'
<1>1. CASE MasterListens(c)
  BY <1>1 DEF MasterListens, OwnerInv, TypeOK, LinkHasOwner, fvars
<1>2. CASE MasterCannotBind(c)
  BY <1>2 DEF MasterCannotBind, OwnerInv, TypeOK, LinkHasOwner, fvars
<1>3. CASE MasterStops(c)
  BY <1>3 DEF MasterStops, OwnerInv, TypeOK, LinkHasOwner, fvars
<1> QED
  BY <1>1, <1>2, <1>3 DEF MasterStep

LEMMA FaultKeepsOwner == ASSUME OwnerInv, NEW c \in Proc, FaultStep(c) PROVE OwnerInv'
<1>1. CASE OptionLoadFails(c)
  BY <1>1, QuietStep DEF OptionLoadFails, OwnerInv, TypeOK
<1>2. CASE LoadConfigFails(c)
  BY <1>2, QuietStep DEF LoadConfigFails, OwnerInv, TypeOK
<1>3. CASE DaemonDies(c)
  BY <1>3 DEF DaemonDies, Alive, Starting, OwnerInv, TypeOK, LinkHasOwner, fvars
<1>4. CASE MasterCrashes(c)
  BY <1>4 DEF MasterCrashes, OwnerInv, TypeOK, LinkHasOwner, fvars
<1> QED
  BY <1>1, <1>2, <1>3, <1>4 DEF FaultStep

LEMMA OwnerStep == OwnerInv /\ [Next]_vars => OwnerInv'
<1> SUFFICES ASSUME OwnerInv, [Next]_vars PROVE OwnerInv'
  OBVIOUS
<1>1. ASSUME NEW c \in Proc, NEW k \in Commands, Type(c, k) PROVE OwnerInv'
  BY <1>1, QuietStep DEF Type, OwnerInv, TypeOK
<1>2. CASE UNCHANGED vars
  BY <1>2 DEF vars, dvars, fvars, OwnerInv, TypeOK, LinkHasOwner
<1> QED
  BY <1>1, <1>2, ClientKeepsOwner, DaemonKeepsOwner, MasterKeepsOwner, FaultKeepsOwner DEF Next

LEMMA OwnerInvariant == Spec => []OwnerInv
BY OwnerInit, OwnerStep, PTL DEF Spec

(* Every reachable state is well typed.                                    *)
THEOREM InstancesTypeCorrect == Spec => []TypeOK
<1>1. OwnerInv => TypeOK
  BY DEF OwnerInv
<1> QED
  BY <1>1, OwnerInvariant, PTL

(* Whatever starts, stops and signals race, the PID file that exists was   *)
(* created by a daemon that has not exited in good order.                  *)
THEOREM LinkHasOwnerAlways == Spec => []LinkHasOwner
<1>1. OwnerInv => LinkHasOwner
  BY DEF OwnerInv
<1> QED
  BY <1>1, OwnerInvariant, PTL

-----------------------------------------------------------------------------
(***************************************************************************)
(* One daemon at a time.  It holds of commands that wait for each other,   *)
(* with pids that fit uint16_t, and without "restart", which starts a      *)
(* daemon before the old one has left.                                     *)
(***************************************************************************)
Careful == Patient /\ Wide = {} /\ "restart" \notin Commands

Active(c) == pc[c] \notin {"idle", "done"}

(* The invocations that found no daemon and are on their way to start one. *)
Founding(c) == \/ pc[c] \in {"absent", "daemonize"}
               \/ pc[c] \in {"open", "write"} /\ target[c] = NoProc

OneCommand == \A c, d \in Proc : Active(c) /\ Active(d) => c = d
OneAlive   == \A c, d \in Proc : Alive(c) /\ Alive(d) => c = d

(* No command meets a daemon that is being started, and none starts one    *)
(* while another daemon lives, be it one that leaves.                      *)
NoneStarts == \A c, d \in Proc : Active(c) => daemon[d] \notin Starting
NoneToFind == \A c, d \in Proc : Founding(c) => ~Alive(d)

(* What parse_options read is still what the PID file says when it scans   *)
(* /proc, and a target found there is a pid.                               *)
ReadIsTrue ==
  \A c \in Proc :
    pc[c] = "scan" => target[c] # NoProc /\ (link # NoProc => text[link] = target[c])
FoundIsOne == \A c \in Proc : pc[c] = "found" => target[c] # NoProc

(* CONFIG_LOAD is blank only within option_load.                           *)
BlankIsOpen == blank => \E c \in Proc : pc[c] = "write"

(* From its fopen to its unlink the PID file is the daemon's own.          *)
OpenedIt == \A c \in Proc : daemon[c] = "opened" => link # NoProc /\ fd[c] = link
Named ==
  \A c \in Proc :
    daemon[c] \in {"unmasked", "run", "leave"} => link # NoProc /\ text[link] = c

Patience ==
  /\ OneCommand /\ OneAlive /\ NoneStarts /\ NoneToFind
  /\ ReadIsTrue /\ FoundIsOne /\ BlankIsOpen /\ OpenedIt /\ Named

PatientInv == OwnerInv /\ Patience

LEMMA PatientInit == Init => PatientInv
<1> SUFFICES ASSUME Init PROVE Patience
  BY OwnerInit DEF PatientInv
<1> QED
  BY DEF Init, Patience, OneCommand, OneAlive, NoneStarts, NoneToFind, ReadIsTrue, FoundIsOne,
         BlankIsOpen, OpenedIt, Named, Active, Founding, Alive, Starting

(* A command is typed when nothing is under way.                           *)
LEMMA TypeIsPatient ==
  ASSUME Careful, PatientInv, NEW c \in Proc, NEW k \in Commands, Type(c, k)
  PROVE  Patience'
<1>1. Settled
  BY DEF Type, Careful
<1>2. OneCommand' /\ NoneStarts' /\ NoneToFind'
  BY <1>1 DEF Settled, Type, Step, OneCommand, NoneStarts, NoneToFind, Active, Founding, Starting,
              PatientInv, Patience, OwnerInv, TypeOK, dvars
<1>3. OneAlive' /\ OpenedIt' /\ Named'
  BY DEF Type, OneAlive, OpenedIt, Named, Alive, Starting, PatientInv, Patience, dvars, fvars
<1>4. ReadIsTrue' /\ FoundIsOne' /\ BlankIsOpen'
  BY <1>1 DEF Settled, Type, Step, ReadIsTrue, FoundIsOne, BlankIsOpen, PatientInv, Patience,
              OwnerInv, TypeOK, dvars, fvars
<1> QED
  BY <1>2, <1>3, <1>4 DEF Patience

(* The command alone is under way: whoever it finds, or fails to find, is  *)
(* what it will deal with.                                                 *)
LEMMA ClientIsPatient == ASSUME Careful, PatientInv, NEW c \in Proc, ClientStep(c) PROVE Patience'
<1> USE DEF PatientInv, Patience, OneCommand, OneAlive, NoneStarts, NoneToFind, ReadIsTrue, FoundIsOne, BlankIsOpen,
            OpenedIt, Named, OwnerInv, TypeOK, Active, Founding, Alive, Starting, dvars, fvars
<1>1. CASE ReadPidFile(c)
  BY <1>1, ProcAssumption DEF ReadPidFile, Step, ReturnErrno, Careful
<1>2. CASE ScanFinds(c)
  BY <1>2, ProcAssumption DEF ScanFinds, Step, InProc
<1>3. CASE ScanFails(c)
  BY <1>3, ProcAssumption DEF ScanFails, Step, InProc
<1>4. CASE NoDaemonProcess(c)
  BY <1>4, ProcAssumption DEF NoDaemonProcess, Step
<1>5. CASE RepairConfigLoad(c)
  BY <1>5, ProcAssumption DEF RepairConfigLoad, Step, ReturnErrno
<1>6. CASE FoundLoad(c)
  BY <1>6, ProcAssumption DEF FoundLoad, Step
<1>7. CASE FoundSignal(c)
  BY <1>7, ProcAssumption DEF FoundSignal, Step, Signal, Careful
<1>8. CASE OptionLoadOpens(c)
  BY <1>8, ProcAssumption DEF OptionLoadOpens, Step
<1>9. CASE OptionLoadWrites(c)
  BY <1>9, ProcAssumption DEF OptionLoadWrites, Step
<1>10. CASE LoadSignals(c)
  BY <1>10, ProcAssumption DEF LoadSignals, Step, Signal
<1>11. CASE Daemonize(c)
  BY <1>11, ProcAssumption DEF Daemonize, Step
<1> QED
  BY <1>1, <1>2, <1>3, <1>4, <1>5, <1>6, <1>7, <1>8, <1>9, <1>10, <1>11 DEF ClientStep

(* set_pid_file, alone with PID_FILE, and ~daemon, which unlinks its own.  *)
LEMMA DaemonIsPatient == ASSUME Careful, PatientInv, NEW c \in Proc, DaemonStep(c) PROVE Patience'
<1> USE DEF PatientInv, Patience, OneCommand, OneAlive, NoneStarts, NoneToFind, ReadIsTrue, FoundIsOne, BlankIsOpen,
            OpenedIt, Named, OwnerInv, TypeOK, Active, Founding, Alive, Starting, dvars, fvars
<1>1. CASE UnlinkOld(c)
  BY <1>1, ProcAssumption DEF UnlinkOld, Advance
<1>2. CASE CreatePidFile(c)
  BY <1>2, ProcAssumption DEF CreatePidFile, Advance
<1>3. CASE WritePidFile(c)
  BY <1>3, ProcAssumption DEF WritePidFile, Advance
<1>4. CASE Monitor(c)
  BY <1>4, ProcAssumption DEF Monitor, Advance
<1>5. CASE OnSigTerm(c)
  BY <1>5, ProcAssumption DEF OnSigTerm, Advance
<1>6. CASE Destroy(c)
  BY <1>6, ProcAssumption DEF Destroy, Advance
<1> QED
  BY <1>1, <1>2, <1>3, <1>4, <1>5, <1>6 DEF DaemonStep

(* A Master may make its daemon leave (the port), and starts none.         *)
LEMMA MasterIsPatient == ASSUME Careful, PatientInv, NEW c \in Proc, MasterStep(c) PROVE Patience'
<1> USE DEF PatientInv, Patience, OneCommand, OneAlive, NoneStarts, NoneToFind, ReadIsTrue, FoundIsOne, BlankIsOpen,
            OpenedIt, Named, OwnerInv, TypeOK, Active, Founding, Alive, Starting, dvars, fvars
<1>1. CASE MasterListens(c)
  BY <1>1, ProcAssumption DEF MasterListens
<1>2. CASE MasterCannotBind(c)
  BY <1>2, ProcAssumption DEF MasterCannotBind
<1>3. CASE MasterStops(c)
  BY <1>3, ProcAssumption DEF MasterStops
<1> QED
  BY <1>1, <1>2, <1>3 DEF MasterStep

(* A fault ends processes and commands.                                    *)
LEMMA FaultIsPatient == ASSUME Careful, PatientInv, NEW c \in Proc, FaultStep(c) PROVE Patience'
<1> USE DEF PatientInv, Patience, OneCommand, OneAlive, NoneStarts, NoneToFind, ReadIsTrue, FoundIsOne, BlankIsOpen,
            OpenedIt, Named, OwnerInv, TypeOK, Active, Founding, Alive, Starting, dvars, fvars
<1>1. CASE OptionLoadFails(c)
  BY <1>1, ProcAssumption DEF OptionLoadFails, Step
<1>2. CASE LoadConfigFails(c)
  BY <1>2, ProcAssumption DEF LoadConfigFails, Step
<1>3. CASE DaemonDies(c)
  BY <1>3, ProcAssumption DEF DaemonDies
<1>4. CASE MasterCrashes(c)
  BY <1>4, ProcAssumption DEF MasterCrashes
<1> QED
  BY <1>1, <1>2, <1>3, <1>4 DEF FaultStep

LEMMA PatientStep == Careful /\ PatientInv /\ [Next]_vars => PatientInv'
<1> SUFFICES ASSUME Careful, PatientInv, [Next]_vars PROVE Patience'
  BY OwnerStep DEF PatientInv
<1>1. CASE UNCHANGED vars
  BY <1>1 DEF PatientInv, Patience, OneCommand, OneAlive, NoneStarts, NoneToFind, ReadIsTrue,
              FoundIsOne, BlankIsOpen, OpenedIt, Named, Active, Founding, Alive, Starting,
              vars, dvars, fvars
<1> QED
  BY <1>1, TypeIsPatient, ClientIsPatient, DaemonIsPatient, MasterIsPatient, FaultIsPatient
     DEF Next

LEMMA PatientInvariant == Careful => (Spec => []PatientInv)
<1> SUFFICES ASSUME Careful PROVE Spec => []PatientInv
  OBVIOUS
<1>1. PatientInv /\ [Next]_vars => PatientInv'
  BY PatientStep
<1> QED
  BY <1>1, PatientInit, PTL DEF Spec

(* "It can be only one copy of the daemon run in the system": it holds,    *)
(* from the first start to the last kill, when commands are not typed over *)
(* each other and restart is not used.                                     *)
THEOREM OneDaemonAtATime == Careful => (Spec => []OnlyOneDaemon)
<1> SUFFICES ASSUME Careful PROVE Spec => []OnlyOneDaemon
  OBVIOUS
<1>1. ASSUME PatientInv PROVE OnlyOneDaemon
  <2> DEFINE U == {c \in Proc : Up(c)}
  <2>1. \A c, d \in U : c = d
    BY <1>1 DEF PatientInv, Patience, OneAlive, Alive, Up
  <2>2. CASE U = {}
    BY <2>2, FS_EmptySet DEF OnlyOneDaemon
  <2>3. CASE U # {}
    <3>1. PICK c \in U : TRUE
      BY <2>3
    <3>2. U = {c}
      BY <2>1, <3>1
    <3>3. Cardinality({c}) = 1
      BY FS_Singleton
    <3> QED
      BY <3>2, <3>3 DEF OnlyOneDaemon
  <2> QED
    BY <2>2, <2>3
<1> QED
  BY <1>1, PatientInvariant, PTL

(* Under the same conditions every command finds the daemon that runs: the *)
(* PID file names it, whatever daemons were killed and left theirs behind. *)
THEOREM FindableAlways == Careful => (Spec => []Findable)
<1> SUFFICES ASSUME Careful PROVE Spec => []Findable
  OBVIOUS
<1>1. PatientInv => Findable
  BY DEF PatientInv, Patience, Named, Findable
<1> QED
  BY <1>1, PatientInvariant, PTL
=============================================================================
