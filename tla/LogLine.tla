------------------------------ MODULE LogLine ------------------------------
(***************************************************************************)
(* One log statement after another through spdlog::logger and line_logger: *)
(* log->warn("...{}", x) << y; builds a line_logger, writes to its buffer, *)
(* moves it out of the call and logs it when the temporary is destroyed,   *)
(* or when an exception destroys it.  What is written and shown are        *)
(* parameters here; LogText composes this with the formatter.              *)
(***************************************************************************)
EXTENDS Integers, Sequences

CONSTANTS
  Case,       (* statements, each with the pattern and the time it meets    *)
  Levels,     (* what the level of the logger may be set to                 *)
  Sinks,      (* the kinds of its sinks in order, "stream" or "syslog"      *)
  Inline,     (* INLINE_BUFFER_SIZE                                         *)
  SinkThrows, (* whether sinks may fail                                     *)
  Name, Tid,  (* of the logger and of the thread                            *)
  Text(_),         (* the characters of a format string                     *)
  Written(_, _),   (* what MemoryWriter::write makes of a text and of       *)
                   (* arguments: out, and whether it throws (err)           *)
  Shown(_, _, _)   (* the line for a pattern, a message and a time          *)

ASSUME SinkAssumption ==
  Sinks \in Seq({"stream", "syslog"}) /\ Len(Sinks) > 0 /\ Inline \in Nat \ {0}

ASSUME CaseAssumption ==
  \A c \in Case :
    /\ c.more \in Seq(STRING) /\ Text(c.pieces) \in Seq(STRING)
    /\ c.args # <<>> => /\ Written(Text(c.pieces), c.args).out \in Seq(STRING)
                        /\ Written(Text(c.pieces), c.args).err \in BOOLEAN

VARIABLES
  pc,     (* the place in the statement                                     *)
  case,   (* the case in hand                                               *)
  level,  (* of the logger; other threads change it                         *)
  line,   (* the line_logger that the statement holds                       *)
  old,    (* the one it was moved from, until that is destroyed             *)
  rec,    (* the message on its way through the sinks                       *)
  due,    (* what should_log, or force_log, had said                        *)
  threw,  (* whether the call threw spdlog_ex                               *)
  sunk    (* the records of this statement in each sink                     *)

vars == <<pc, case, level, line, old, rec, due, threw, sunk>>

(* The last of the levels: only a moved or new line_logger has it.         *)
off == 9
-----------------------------------------------------------------------------
(* MemoryBuffer: txt is its content, cap its capacity_, and heap says that *)
(* ptr_ is not the inline array.                                           *)
Buffer0 == [txt |-> <<>>, cap |-> Inline, heap |-> FALSE]
Room(b) == IF b.heap THEN b.cap ELSE Inline

(* Mutant: a buffer grows by half, enough or not.                          *)
GrowHalf(b, size) == [b EXCEPT !.cap = @ + @ \div 2, !.heap = TRUE]

Grow(b, size) ==
  [b EXCEPT !.cap = IF size > @ + @ \div 2 THEN size ELSE @ + @ \div 2, !.heap = TRUE]

Put(b, txt) == [(IF Len(txt) > b.cap THEN Grow(b, Len(txt)) ELSE b) EXCEPT !.txt = txt]

(* move() leaves the source its capacity, with ptr_ at the inline array,   *)
(* and log_msg's move constructor clears it.                               *)
MovedFrom(b) == [b EXCEPT !.heap = FALSE, !.txt = <<>>]

Line0 == [on |-> FALSE, lvl |-> off, raw |-> Buffer0]
NoCase == [pattern |-> <<>>]
NoRec == [raw |-> <<>>, text |-> <<>>, lvl |-> off, to |-> 1, then |-> "done"]
Empty == [s \in DOMAIN Sinks |-> <<>>]

Init == /\ pc = "idle" /\ case = NoCase /\ level \in Levels /\ line = Line0 /\ old = Line0
        /\ rec = NoRec /\ due = FALSE /\ threw = FALSE /\ sunk = Empty

(* set_level, by a reload or another thread.                               *)
SetLevel(l) == level' = l /\ UNCHANGED <<pc, case, line, old, rec, due, threw, sunk>>

(* The level functions, _log_if_enabled and force_log: the line is made.   *)
Call(c) ==
  /\ pc = "idle"
  /\ pc' = "write" /\ case' = c
  /\ due' = (c.force \/ c.level >= level)
  /\ line' = [on |-> due', lvl |-> c.level, raw |-> Buffer0]
  /\ UNCHANGED <<level, old, rec, threw, sunk>>

Disabled == /\ pc = "write" /\ ~line.on
            /\ pc' = "return"
            /\ UNCHANGED <<case, level, line, old, rec, due, threw, sunk>>

(* A text without arguments, and a message streamed, are written as they   *)
(* are.                                                                    *)
WriteText ==
  /\ pc = "write" /\ line.on /\ case.args = <<>>
  /\ pc' = "return"
  /\ line' = [line EXCEPT !.raw = Put(@, Text(case.pieces))]
  /\ UNCHANGED <<case, level, old, rec, due, threw, sunk>>

(* What was written before a FormatError stays in the line.                *)
WriteFormat ==
  /\ pc = "write" /\ line.on /\ case.args # <<>>
  /\ LET q == Written(Text(case.pieces), case.args)
     IN  /\ line' = [line EXCEPT !.raw = Put(@, q.out)]
         /\ threw' = q.err
         /\ pc' = IF q.err THEN "unwind" ELSE "return"
  /\ UNCHANGED <<case, level, old, rec, due, sunk>>

(* Returning by value elides the move, or moves.                           *)
Elide == /\ pc = "return"
         /\ pc' = "more"
         /\ UNCHANGED <<case, level, line, old, rec, due, threw, sunk>>

(* Mutant: the source stays enabled.                                       *)
MoveEnabled ==
  /\ pc = "return"
  /\ pc' = "old"
  /\ old' = [on |-> line.on, lvl |-> off, raw |-> MovedFrom(line.raw)]
  /\ UNCHANGED <<case, level, line, rec, due, threw, sunk>>

Move ==
  /\ pc = "return"
  /\ pc' = "old"
  /\ old' = [on |-> FALSE, lvl |-> off, raw |-> MovedFrom(line.raw)]
  /\ UNCHANGED <<case, level, line, rec, due, threw, sunk>>

(* ~line_logger and _log_msg up to the sinks.                              *)
Destroy(l, then) ==
  IF l.on
  THEN LET msg == [name |-> Name, tid |-> Tid, level |-> l.lvl, raw |-> l.raw.txt]
       IN  /\ pc' = "sink"
           /\ rec' = [raw |-> msg.raw, text |-> Shown(case.pattern, msg, case.tm),
                      lvl |-> l.lvl, to |-> 1, then |-> then]
  ELSE pc' = then /\ UNCHANGED rec

DestroyOld == /\ pc = "old"
              /\ Destroy(old, "more")
              /\ old' = Line0
              /\ UNCHANGED <<case, level, line, due, threw, sunk>>

(* operator<< on the line that was returned.                               *)
Stream ==
  /\ pc = "more"
  /\ pc' = "end"
  /\ line' = IF line.on THEN [line EXCEPT !.raw = Put(@, @.txt \o case.more)] ELSE line
  /\ UNCHANGED <<case, level, old, rec, due, threw, sunk>>

(* The end of the statement, or the unwinding of the call.                 *)
DestroyLine == /\ pc \in {"end", "unwind"}
               /\ Destroy(line, "done")
               /\ line' = Line0
               /\ UNCHANGED <<case, level, old, due, threw, sunk>>

(* syslog_sink's table.                                                    *)
Priority(l) ==
  <<"DEBUG", "DEBUG", "INFO", "NOTICE", "WARNING", "ERR", "CRIT", "ALERT", "EMERG", "INFO">>[l + 1]

NoTag == ""

(* A sink takes the line; ostream_sink all of it, syslog_sink its text.    *)
Sink ==
  /\ pc = "sink"
  /\ sunk' = [sunk EXCEPT ![rec.to] = Append(@,
       IF Sinks[rec.to] = "syslog" THEN [tag |-> Priority(rec.lvl), text |-> rec.raw]
       ELSE [tag |-> NoTag, text |-> rec.text])]
  /\ rec' = IF rec.to = Len(Sinks) THEN NoRec ELSE [rec EXCEPT !.to = @ + 1]
  /\ pc' = IF rec.to = Len(Sinks) THEN rec.then ELSE "sink"
  /\ UNCHANGED <<case, level, line, old, due, threw>>

(* An exception leaves a destructor: std::terminate.                       *)
SinkFails == /\ pc = "sink" /\ SinkThrows
             /\ pc' = "terminated"
             /\ UNCHANGED <<case, level, line, old, rec, due, threw, sunk>>

(* The next statement.                                                     *)
Over == /\ pc = "done"
        /\ pc' = "idle" /\ case' = NoCase /\ due' = FALSE /\ threw' = FALSE /\ sunk' = Empty
        /\ UNCHANGED <<level, line, old, rec>>

Next ==
  \/ \E l \in Levels : SetLevel(l)
  \/ \E c \in Case : Call(c)
  \/ Disabled \/ WriteText \/ WriteFormat \/ Elide \/ Move \/ DestroyOld
  \/ Stream \/ DestroyLine \/ Sink \/ SinkFails \/ Over

Spec == Init /\ [][Next]_vars
-----------------------------------------------------------------------------
(* A statement that is due leaves exactly one record in every sink, also   *)
(* when its format is wrong and whichever way the line left the call; one  *)
(* that is not due leaves none and throws nothing.  The sinks get it in    *)
(* their order.                                                            *)
OneRecord ==
  /\ pc = "done" => \A s \in DOMAIN Sinks : Len(sunk[s]) = IF due THEN 1 ELSE 0
  /\ threw => due
  /\ \A s, t \in DOMAIN Sinks : s <= t => Len(sunk[t]) <= Len(sunk[s])

(* No buffer holds more than its storage, and no two own one block: a line *)
(* that was moved is not written to.                                       *)
SafeStorage ==
  /\ \A b \in {line.raw, old.raw} : Len(b.txt) <= Room(b)
  /\ ~(line.raw.heap /\ old.raw.heap)
=============================================================================
