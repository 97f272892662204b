--------------------------- MODULE MasterThreads ---------------------------
(***************************************************************************)
(* The threads of a Master that was booted: the main thread, which waits   *)
(* for signals and reloads the configuration, the workers of the thread    *)
(* group, and the handler self_debug, which runs on the thread that        *)
(* faulted.  What they share is the log: me->log of the Master, the log of *)
(* the slave, and the mutex of each sink, which is not recursive.          *)
(*                                                                         *)
(* A sink is named by the load that made it.  The slave keeps sink 0, the  *)
(* Master's log has the latest; each log belongs to one sink.  The lines   *)
(* of a TRACE build stand for what a worker logs.                          *)
(***************************************************************************)
EXTENDS Integers, Sequences

CONSTANTS
  Worker,   (* the threads of tg                                            *)
  Main,     (* the thread in sigwait                                        *)
  None,     (* no owner of a mutex                                          *)
  Debug,    (* built with -DDEBUG                                           *)
  Frames,   (* the lines of a backtrace                                     *)
  Loads,    (* bound: how many reloads succeed                              *)
  Faults    (* bound: how many threads fault                                *)

Thread == Worker \cup {Main}

ASSUME ThreadAssumption == Main \notin Worker /\ None \notin Thread
ASSUME BoundAssumption ==
  Debug \in BOOLEAN /\ Frames \in Nat /\ Loads \in Nat /\ Faults \in Nat

CHILD_NEED_TERMINATE == "terminate"
CHILD_NEED_WORK == "work"
KILLED == "killed"

(* Levels that let log->error through, and those above it.                 *)
Level == {"info", "alert"}
Shown(l) == l = "info"

(* What self_debug does: the lines it logs, and the code it exits with.    *)
Line == {"signal", "begin", "frame", "end", "stopped", "nobacktrace",
         CHILD_NEED_TERMINATE, CHILD_NEED_WORK}
Code == IF Debug THEN CHILD_NEED_TERMINATE ELSE CHILD_NEED_WORK
Backtrace == <<"begin">> \o [i \in 1 .. Frames |-> "frame"] \o <<"end">>
Reports == {<<"signal">> \o Backtrace \o <<"stopped", Code>>,
            <<"signal", "stopped", Code>>,
            <<"signal", "nobacktrace", CHILD_NEED_WORK>>}

VARIABLES
  main,       (* where the main thread is in work_proc                      *)
  pc,         (* of each thread: "run", or where it is in a log call        *)
  logger,     (* of each thread: the log it took for the call               *)
  heap,       (* the threads that faulted inside the allocator              *)
  todo,       (* of each thread in self_debug: the lines it has yet to log  *)
  lock,       (* the owner of the mutex of each sink                        *)
  gen,        (* me->log, that is the latest load                           *)
  lev, logLevel, slaveLevel, (* of the loader, of me->log, of the slave     *)
  faults, process

control == <<main, pc, logger, heap, todo>>
levels == <<lev, logLevel, slaveLevel>>
vars == <<control, lock, gen, levels, faults, process>>

Reporting(t) == t \in DOMAIN todo

TypeOK ==
  /\ main \in {"wait", "load", "failed", "update", "told", "stop", "exit"}
  /\ pc \in [Thread -> {"run", "read", "use", "write", "stuck"}]
  /\ logger \in [Thread -> 0 .. Loads] /\ heap \subseteq Thread
  /\ \A t \in DOMAIN todo :
       /\ t \in Thread /\ todo[t] \in Seq(Line)
       /\ Len(todo[t]) >= (IF pc[t] = "run" THEN 1 ELSE 2)
       /\ todo[t][Len(todo[t])] \in {CHILD_NEED_TERMINATE, CHILD_NEED_WORK}
  /\ lock \in [0 .. Loads -> Thread \cup {None}] /\ gen \in 0 .. Loads
  /\ {lev, logLevel, slaveLevel} \subseteq Level
  /\ faults \in 0 .. Faults
  /\ process \in {"up", CHILD_NEED_TERMINATE, CHILD_NEED_WORK, KILLED}

Init ==
  /\ main = "wait" /\ pc = [t \in Thread |-> "run"]
  /\ logger = [t \in Thread |-> 0] /\ heap = {} /\ todo = <<>>
  /\ lock = [s \in 0 .. Loads |-> None] /\ gen = 0
  /\ lev \in Level /\ logLevel = lev /\ slaveLevel = lev
  /\ faults = 0 /\ process = "up"
-----------------------------------------------------------------------------
(* A log call: line_logger, logger::_log_msg, base_sink::log               *)

Up == process = "up"

(* Mutant: the handler on a worker logs through the slave's log.           *)
ReadOwn(t) ==
  /\ Up /\ pc[t] = "read"
  /\ logger' = [logger EXCEPT ![t] = IF t \in Worker THEN 0 ELSE gen]
  /\ pc' = [pc EXCEPT ![t] = "use"]
  /\ UNCHANGED <<main, heap, todo, lock, gen, levels, faults, process>>

(* The thread takes the log to call; a slave's log never changes.          *)
Read(t) ==
  /\ Up /\ pc[t] = "read"
  /\ logger' = [logger EXCEPT ![t] = IF t \in Worker /\ ~Reporting(t) THEN 0 ELSE gen]
  /\ pc' = [pc EXCEPT ![t] = "use"]
  /\ UNCHANGED <<main, heap, todo, lock, gen, levels, faults, process>>

LevelOf(t) == IF t \in Worker /\ ~Reporting(t) THEN slaveLevel ELSE logLevel

(* The call is over; a handler goes on to its next line.                   *)
Over(t) ==
  /\ logger' = [logger EXCEPT ![t] = 0]
  /\ IF Reporting(t)
     THEN /\ todo' = [todo EXCEPT ![t] = Tail(@)]
          /\ pc' = [pc EXCEPT ![t] = IF Len(todo[t]) > 2 THEN "read" ELSE "run"]
          /\ UNCHANGED main
     ELSE /\ pc' = [pc EXCEPT ![t] = "run"]
          /\ main' = IF t # Main THEN main
                     ELSE CASE main = "failed" -> "update"
                            [] main = "told" -> "wait"
                            [] OTHER -> "exit"
          /\ UNCHANGED todo

(* A level that is not enabled makes the line_logger do nothing.           *)
Skip(t) ==
  /\ Up /\ pc[t] = "use" /\ ~Shown(LevelOf(t))
  /\ Over(t)
  /\ UNCHANGED <<heap, lock, gen, levels, faults, process>>

(* A handler on a worker read me->log, and a reload has freed it since.    *)
UseFreed(t) ==
  /\ Up /\ pc[t] = "use" /\ Reporting(t) /\ logger[t] # gen
  /\ process' = KILLED
  /\ UNCHANGED <<control, lock, gen, levels, faults>>

(* std::mutex::lock: a thread that owns the mutex waits for itself.        *)
Lock(t) ==
  /\ Up /\ pc[t] = "use" /\ Shown(LevelOf(t)) /\ lock[logger[t]] = None
  /\ lock' = [lock EXCEPT ![logger[t]] = t]
  /\ pc' = [pc EXCEPT ![t] = "write"]
  /\ UNCHANGED <<main, logger, heap, todo, gen, levels, faults, process>>

Write(t) ==
  /\ Up /\ pc[t] = "write"
  /\ lock' = [lock EXCEPT ![logger[t]] = None]
  /\ Over(t)
  /\ UNCHANGED <<heap, gen, levels, faults, process>>
-----------------------------------------------------------------------------
(* The workers                                                             *)

WorkerLogs(t) ==
  /\ Up /\ t \in Worker /\ pc[t] = "run" /\ ~Reporting(t)
  /\ pc' = [pc EXCEPT ![t] = "read"]
  /\ UNCHANGED <<main, logger, heap, todo, lock, gen, levels, faults, process>>
-----------------------------------------------------------------------------
(* The main thread: work_proc and reload_config                            *)

MainAt(place) == Up /\ main = place /\ pc[Main] = "run" /\ ~Reporting(Main)

(* A signal may come at any time.                                          *)
TakeSigHup ==
  /\ MainAt("wait")
  /\ main' = "load"
  /\ UNCHANGED <<pc, logger, heap, todo, lock, gen, levels, faults, process>>

TakeSigTerm ==
  /\ MainAt("wait")
  /\ main' = "stop"
  /\ pc' = [pc EXCEPT ![Main] = "read"]
  /\ UNCHANGED <<logger, heap, todo, lock, gen, levels, faults, process>>

(* sink and log are made anew, the old log is freed.                       *)
LoadSucceeds(l) ==
  /\ MainAt("load") /\ gen < Loads
  /\ gen' = gen + 1 /\ lev' = l /\ logLevel' = l
  /\ main' = "update"
  /\ UNCHANGED <<pc, logger, heap, todo, lock, slaveLevel, faults, process>>

(* The load fails and warns: before the level was read, or after.          *)
LoadFails(l) ==
  /\ MainAt("load")
  /\ lev' = l
  /\ main' = "failed" /\ pc' = [pc EXCEPT ![Main] = "read"]
  /\ UNCHANGED <<logger, heap, todo, lock, gen, logLevel, slaveLevel, faults, process>>

(* An exception of the load leaves work_proc, which is declared throw().   *)
LoadThrows ==
  /\ MainAt("load")
  /\ process' = KILLED
  /\ UNCHANGED <<control, lock, gen, levels, faults>>

(* Mutant: the slaves are updated from the Master's own log.               *)
UpdateFromLog ==
  /\ MainAt("update")
  /\ slaveLevel' = logLevel
  /\ main' = "told" /\ pc' = [pc EXCEPT ![Main] = "read"]
  /\ UNCHANGED <<logger, heap, todo, lock, gen, lev, logLevel, faults, process>>

(* update_all_loggers also runs when the load failed.                      *)
UpdateAllLoggers ==
  /\ MainAt("update")
  /\ slaveLevel' = lev
  /\ main' = "told" /\ pc' = [pc EXCEPT ![Main] = "read"]
  /\ UNCHANGED <<logger, heap, todo, lock, gen, lev, logLevel, faults, process>>

Stopped ==
  /\ MainAt("exit")
  /\ process' = CHILD_NEED_TERMINATE
  /\ UNCHANGED <<control, lock, gen, levels, faults>>
-----------------------------------------------------------------------------
(* self_debug                                                              *)

(* A thread faults where it is: what it holds stays held.                  *)
Fault(t) ==
  /\ Up /\ faults < Faults /\ ~Reporting(t)
  /\ pc[t] \in {"run", "use", "write"} /\ (t = Main => main # "wait")
  /\ \E r \in Reports :
       todo' = [u \in DOMAIN todo \cup {t} |-> IF u = t THEN r ELSE todo[u]]
  /\ heap' \in {heap, heap \cup {t}}
  /\ pc' = [pc EXCEPT ![t] = "read"] /\ faults' = faults + 1
  /\ UNCHANGED <<main, logger, lock, gen, levels, process>>

(* A handler that allocates inside the allocator may wait for itself.      *)
HeapBlocks(t) ==
  /\ Up /\ Reporting(t) /\ t \in heap /\ pc[t] = "read"
  /\ pc' = [pc EXCEPT ![t] = "stuck"]
  /\ UNCHANGED <<main, logger, heap, todo, lock, gen, levels, faults, process>>

Exit(t) ==
  /\ Up /\ Reporting(t) /\ Len(todo[t]) = 1
  /\ process' = Head(todo[t])
  /\ UNCHANGED <<control, lock, gen, levels, faults>>
-----------------------------------------------------------------------------
LogStep(t) == Read(t) \/ Skip(t) \/ Lock(t) \/ Write(t) \/ Exit(t)

MainStep ==
  \/ UpdateAllLoggers \/ Stopped \/ LoadThrows
  \/ \E l \in Level : LoadSucceeds(l) \/ LoadFails(l)

Next ==
  \/ TakeSigHup \/ TakeSigTerm \/ MainStep
  \/ \E t \in Thread : \/ LogStep(t) \/ WorkerLogs(t)
                       \/ Fault(t) \/ HeapBlocks(t) \/ UseFreed(t)

(* Every thread is scheduled, and a mutex that is free again and again is  *)
(* had in the end.                                                         *)
Fairness ==
  /\ WF_vars(MainStep)
  /\ \A t \in Thread : WF_vars(LogStep(t)) /\ SF_vars(Lock(t))

Spec == Init /\ [][Next]_vars /\ Fairness
-----------------------------------------------------------------------------
(* A thread faulted inside the allocator, or with the mutex of the sink    *)
(* that me->log has.                                                       *)
Held == \E t \in Thread : Reporting(t) /\ (t \in heap \/ (lock[gen] = t /\ pc[t] # "write"))

(* A fault ends the process so that the daemon can start another one, and  *)
(* so does SIGTERM, whatever the other threads do, unless a thread faulted *)
(* inside the allocator or inside the sink of the Master's own log.  After *)
(* a reload a fault inside the slave's log no longer blocks the report.    *)
EndsUnlessHeld ==
  []~Held => /\ (\E t \in Thread : Reporting(t)) ~> ~Up
             /\ main = "stop" ~> ~Up

(* Between reloads the slaves log at the level read last, also when that   *)
(* reload failed and the Master's own log kept its level.                  *)
SlavesFollow == main = "wait" => slaveLevel = lev
=============================================================================
