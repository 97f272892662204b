------------------------ MODULE MasterThreadsProofs ------------------------
(***************************************************************************)
(* Proofs about the threads of a Master: the type invariant, and that the  *)
(* slaves log at the level read last, for any number of worker threads,    *)
(* reloads, faults and lines of a backtrace.                               *)
(***************************************************************************)
EXTENDS MasterThreads, SequenceTheorems, TLAPS

(* From update_all_loggers on the slaves have the level, until the next    *)
(* load reads another one.                                                 *)
Told == main \in {"wait", "told"} => slaveLevel = lev

IInv == TypeOK /\ Told

(* The end of a sequence is the end of the last part of it.                *)
LEMMA LastOfConcat ==
  ASSUME NEW S, NEW s \in Seq(S), NEW e \in Seq(S), Len(e) = 2
  PROVE  /\ s \o e \in Seq(S) /\ Len(s \o e) = Len(s) + 2
         /\ (s \o e)[Len(s \o e)] = e[2]
<1>1. /\ s \o e \in Seq(S) /\ Len(s \o e) = Len(s) + Len(e)
      /\ \A i \in 1 .. Len(s) + Len(e) :
           (s \o e)[i] = IF i <= Len(s) THEN s[i] ELSE e[i - Len(s)]
  BY ConcatProperties, Zenon
<1>2. Len(s) \in Nat
  OBVIOUS
<1> QED BY <1>1, <1>2

(* What a handler has to log is at least three lines, the last of which is *)
(* the code to exit with.                                                  *)
LEMMA ReportsTyped ==
  ASSUME NEW r \in Reports
  PROVE  /\ r \in Seq(Line) /\ Len(r) >= 3
         /\ r[Len(r)] \in {CHILD_NEED_TERMINATE, CHILD_NEED_WORK}
<1> DEFINE F == [i \in 1 .. Frames |-> "frame"]
<1>1. F \in Seq(Line)
  <2>1. F \in [1 .. Frames -> Line]
    BY DEF Line
  <2> QED BY <2>1, SeqDef, BoundAssumption
<1>2. /\ <<"signal">> \in Seq(Line) /\ <<"begin">> \in Seq(Line) /\ <<"end">> \in Seq(Line)
      /\ <<"stopped", Code>> \in Seq(Line)
  BY DEF Code, CHILD_NEED_TERMINATE, CHILD_NEED_WORK, Line
<1> HIDE DEF F
<1>3. Backtrace \in Seq(Line)
  BY <1>1, <1>2 DEF Backtrace, F
<1>4. CASE r = <<"signal">> \o Backtrace \o <<"stopped", Code>>
  <2> DEFINE b == <<"signal">> \o Backtrace
             e == <<"stopped", Code>>
  <2>1. b \in Seq(Line) /\ Len(b) = 1 + Len(Backtrace) /\ Len(Backtrace) \in Nat
    BY <1>2, <1>3, ConcatProperties, LenProperties
  <2>2. e \in Seq(Line) /\ Len(e) = 2 /\ e[2] = Code
    BY <1>2
  <2>3. r = b \o e
    BY <1>4
  <2> HIDE DEF b, e
  <2>4. r \in Seq(Line) /\ Len(r) = Len(b) + 2 /\ r[Len(r)] = Code
    BY <2>1, <2>2, <2>3, LastOfConcat
  <2> QED BY <2>1, <2>4 DEF Code
<1>5. CASE r = <<"signal", "stopped", Code>>
  BY <1>5 DEF Code, CHILD_NEED_TERMINATE, CHILD_NEED_WORK, Line
<1>6. CASE r = <<"signal", "nobacktrace", CHILD_NEED_WORK>>
  BY <1>6 DEF CHILD_NEED_TERMINATE, CHILD_NEED_WORK, Line
<1>7. \/ r = <<"signal">> \o Backtrace \o <<"stopped", Code>>
      \/ r = <<"signal", "stopped", Code>>
      \/ r = <<"signal", "nobacktrace", CHILD_NEED_WORK>>
  BY DEF Reports
<1> QED BY <1>4, <1>5, <1>6, <1>7

LEMMA InitIInv == Init => IInv
BY ThreadAssumption, BoundAssumption
DEF Init, IInv, TypeOK, Told, Thread, Level, CHILD_NEED_TERMINATE, CHILD_NEED_WORK

(* The end of a log call, alone or as the last part of Skip and Write.     *)
LEMMA OverIInv ==
  ASSUME IInv, NEW t \in Thread, pc[t] \in {"use", "write"}, Over(t),
         UNCHANGED <<heap, gen, levels, faults, process>>,
         lock' \in [0 .. Loads -> Thread \cup {None}]
  PROVE  IInv'
<1>1. CASE Reporting(t)
  <2>1. todo[t] \in Seq(Line) /\ Len(todo[t]) >= 2
    BY <1>1 DEF IInv, TypeOK, Reporting
  <2>2. /\ Tail(todo[t]) \in Seq(Line) /\ Len(Tail(todo[t])) = Len(todo[t]) - 1
        /\ Tail(todo[t])[Len(todo[t]) - 1] = todo[t][Len(todo[t])]
    BY <2>1, HeadTailProperties
  <2>3. todo' = [todo EXCEPT ![t] = Tail(@)] /\ UNCHANGED main
        /\ logger' = [logger EXCEPT ![t] = 0]
        /\ pc' = [pc EXCEPT ![t] = IF Len(todo[t]) > 2 THEN "read" ELSE "run"]
    BY <1>1 DEF Over
  <2>4. \A u \in DOMAIN todo' :
          /\ u \in Thread /\ todo'[u] \in Seq(Line)
          /\ Len(todo'[u]) >= (IF pc'[u] = "run" THEN 1 ELSE 2)
          /\ todo'[u][Len(todo'[u])] \in {CHILD_NEED_TERMINATE, CHILD_NEED_WORK}
    <3> SUFFICES ASSUME NEW u \in DOMAIN todo
        PROVE /\ u \in Thread /\ todo'[u] \in Seq(Line)
              /\ Len(todo'[u]) >= (IF pc'[u] = "run" THEN 1 ELSE 2)
              /\ todo'[u][Len(todo'[u])] \in {CHILD_NEED_TERMINATE, CHILD_NEED_WORK}
      BY <2>3
    <3>1. CASE u = t
      <4>1. todo'[u] = Tail(todo[t]) /\ pc'[u] = (IF Len(todo[t]) > 2 THEN "read" ELSE "run")
        BY <2>3, <3>1 DEF IInv, TypeOK
      <4> QED BY <4>1, <2>1, <2>2, <3>1 DEF IInv, TypeOK
    <3>2. CASE u # t
      BY <3>2, <2>3 DEF IInv, TypeOK
    <3> QED BY <3>1, <3>2
  <2> QED BY <2>3, <2>4, BoundAssumption DEF IInv, TypeOK, Told, levels
<1>2. CASE ~Reporting(t)
  <2>1. /\ logger' = [logger EXCEPT ![t] = 0] /\ pc' = [pc EXCEPT ![t] = "run"]
        /\ UNCHANGED todo
    BY <1>2 DEF Over
  <2>2. main' = IF t # Main THEN main
                ELSE CASE main = "failed" -> "update" [] main = "told" -> "wait"
                       [] OTHER -> "exit"
    BY <1>2 DEF Over
  <2>3. main' \in {"wait", "load", "failed", "update", "told", "stop", "exit"}
    BY <2>2 DEF IInv, TypeOK
  <2>4. Told'
    BY <2>2 DEF IInv, Told, levels
  <2> QED BY <1>2, <2>1, <2>3, <2>4, BoundAssumption DEF IInv, TypeOK, Reporting, levels
<1> QED BY <1>1, <1>2

LEMMA NextIInv == ASSUME IInv, [Next]_vars PROVE IInv'
<1> USE DEF IInv
<1>1. CASE UNCHANGED vars
  BY <1>1 DEF vars, control, levels, TypeOK, Told
<1>2. CASE TakeSigHup
  BY <1>2 DEF TakeSigHup, TypeOK, Told, levels
<1>3. CASE TakeSigTerm
  BY <1>3 DEF TakeSigTerm, MainAt, Reporting, TypeOK, Told, levels
<1>4. CASE UpdateAllLoggers
  BY <1>4 DEF UpdateAllLoggers, MainAt, Reporting, TypeOK, Told, levels
<1>5. CASE Stopped
  BY <1>5 DEF Stopped, TypeOK, Told, levels, control
<1>6. CASE LoadThrows
  BY <1>6 DEF LoadThrows, TypeOK, Told, levels, control
<1>7. ASSUME NEW l \in Level, LoadSucceeds(l) PROVE IInv'
  BY <1>7, BoundAssumption DEF LoadSucceeds, TypeOK, Told, levels
<1>8. ASSUME NEW l \in Level, LoadFails(l) PROVE IInv'
  BY <1>8 DEF LoadFails, MainAt, Reporting, TypeOK, Told, levels
<1>9. ASSUME NEW t \in Thread, Read(t) PROVE IInv'
  BY <1>9, BoundAssumption DEF Read, TypeOK, Told, levels
<1>10. ASSUME NEW t \in Thread, Skip(t) PROVE IInv'
  BY <1>10, OverIInv DEF Skip, TypeOK
<1>11. ASSUME NEW t \in Thread, Lock(t) PROVE IInv'
  BY <1>11 DEF Lock, TypeOK, Told, levels
<1>12. ASSUME NEW t \in Thread, Write(t) PROVE IInv'
  BY <1>12, OverIInv DEF Write, TypeOK
<1>13. ASSUME NEW t \in Thread, Exit(t) PROVE IInv'
  <2>1. process' \in {CHILD_NEED_TERMINATE, CHILD_NEED_WORK}
    BY <1>13 DEF Exit, Reporting, TypeOK
  <2> QED BY <1>13, <2>1 DEF Exit, TypeOK, Told, levels, control
<1>14. ASSUME NEW t \in Thread, WorkerLogs(t) PROVE IInv'
  BY <1>14 DEF WorkerLogs, Reporting, TypeOK, Told, levels
<1>15. ASSUME NEW t \in Thread, Fault(t) PROVE IInv'
  <2>1. PICK r \in Reports :
          todo' = [u \in DOMAIN todo \cup {t} |-> IF u = t THEN r ELSE todo[u]]
    BY <1>15 DEF Fault
  <2>2. /\ r \in Seq(Line) /\ Len(r) >= 3
        /\ r[Len(r)] \in {CHILD_NEED_TERMINATE, CHILD_NEED_WORK}
    BY ReportsTyped
  <2> QED BY <1>15, <2>1, <2>2, BoundAssumption DEF Fault, TypeOK, Told, levels
<1>16. ASSUME NEW t \in Thread, HeapBlocks(t) PROVE IInv'
  BY <1>16 DEF HeapBlocks, Reporting, TypeOK, Told, levels
<1>17. ASSUME NEW t \in Thread, UseFreed(t) PROVE IInv'
  BY <1>17 DEF UseFreed, TypeOK, Told, levels, control
<1> QED BY <1>1, <1>2, <1>3, <1>4, <1>5, <1>6, <1>7, <1>8, <1>9, <1>10, <1>11, <1>12,
           <1>13, <1>14, <1>15, <1>16, <1>17 DEF Next, MainStep, LogStep

LEMMA SpecIInv == Spec => []IInv
BY InitIInv, NextIInv, PTL DEF Spec

(* Every variable has its type; a thread in self_debug has lines left to   *)
(* log, and the code it exits with is the last of them.                    *)
THEOREM ThreadsTypeCorrect == Spec => []TypeOK
BY SpecIInv, PTL DEF IInv

(* The slaves log at the level that was read last whenever the Master      *)
(* waits for a signal, though loads fail, throw and reports interfere.     *)
THEOREM SlavesFollowAlways == Spec => []SlavesFollow
<1>1. IInv => SlavesFollow
  BY DEF IInv, Told, SlavesFollow
<1> QED BY <1>1, SpecIInv, PTL
=============================================================================
