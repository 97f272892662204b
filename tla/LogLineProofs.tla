--------------------------- MODULE LogLineProofs ---------------------------
(***************************************************************************)
(* Proofs about a log statement, for any statements, sinks and formatter:  *)
(* a statement that is due leaves one record in every sink, whichever way  *)
(* its line is moved and destroyed, and no buffer holds more than its      *)
(* storage or shares it.  And about the numbers in a line: count_digits is *)
(* exact, and write_int writes what it should in its field.                *)
(***************************************************************************)
EXTENDS LogLine, Writers, SequenceTheorems, TLAPS

Place == {"idle", "write", "return", "old", "more", "end", "unwind", "sink", "done", "terminated"}

(* The fields that the steps change.                                       *)
Types ==
  /\ pc \in Place /\ due \in BOOLEAN /\ threw \in BOOLEAN /\ line.on \in BOOLEAN
  /\ line = [on |-> line.on, lvl |-> line.lvl, raw |-> line.raw]
  /\ rec = [raw |-> rec.raw, text |-> rec.text, lvl |-> rec.lvl, to |-> rec.to, then |-> rec.then]
  /\ pc # "idle" => case \in Case

(* While the statement holds its line, that is enabled just when it is     *)
(* due; the one it was moved from never is.                                *)
Held ==
  /\ ~old.on
  /\ pc \in {"write", "return", "old", "more", "end"} => (line.on <=> due)
  /\ pc = "unwind" => line.on /\ due
  /\ pc \in {"idle", "sink", "done", "terminated"} => ~line.on

(* Only a statement that is due throws.                                    *)
Thrown == (threw => due) /\ (pc = "idle" => ~threw)

(* The message goes from the first sink to the last, and with it the       *)
(* statement ends.                                                         *)
Passing ==
  /\ pc \in {"sink", "terminated"} => rec.to \in 1 .. Len(Sinks) /\ due
  /\ pc = "sink" => rec.then = "done"

(* The sinks that have got their record, once and in their order.          *)
Served(s) ==
  \/ pc \in {"sink", "terminated"} /\ s < rec.to
  \/ pc = "done" /\ due

Logged ==
  /\ sunk = [s \in 1 .. Len(Sinks) |-> sunk[s]]
  /\ \A s \in 1 .. Len(Sinks) : IF Served(s) THEN sunk[s] = <<sunk[s][1]>> ELSE sunk[s] = <<>>

(* A text fits its buffer, which has the inline array's capacity until it  *)
(* grows.  A moved line has that array, and nothing in it.                 *)
Buffer == [txt : Seq(STRING), cap : Nat, heap : BOOLEAN]
Stored ==
  /\ line.raw \in Buffer /\ Len(line.raw.txt) <= line.raw.cap
  /\ ~line.raw.heap => line.raw.cap = Inline
  /\ old.raw.txt = <<>> /\ ~old.raw.heap

IInv == Types /\ Held /\ Thrown /\ Passing /\ Logged /\ Stored
-----------------------------------------------------------------------------
(* Buffers                                                                 *)

(* Putting a text into a buffer makes room for it.                         *)
LEMMA PutFits ==
  ASSUME NEW b \in Buffer, ~b.heap => b.cap = Inline, NEW txt \in Seq(STRING)
  PROVE  /\ Put(b, txt) \in Buffer /\ Put(b, txt).txt = txt /\ Len(txt) <= Put(b, txt).cap
         /\ ~Put(b, txt).heap => Put(b, txt).cap = Inline
<1>1. Len(txt) \in Nat /\ b.cap \in Nat /\ b.cap \div 2 \in Nat
  BY DEF Buffer
<1>2. CASE Len(txt) > b.cap
  <2> DEFINE n == IF Len(txt) > b.cap + b.cap \div 2 THEN Len(txt) ELSE b.cap + b.cap \div 2
             g == Grow(b, Len(txt))
  <2>1. g = [txt |-> b.txt, cap |-> n, heap |-> TRUE]
    <3>1. b = [txt |-> b.txt, cap |-> b.cap, heap |-> b.heap]
      BY DEF Buffer
    <3>2. /\ DOMAIN g = {"txt", "cap", "heap"}
          /\ g.txt = b.txt /\ g.cap = n /\ g.heap = TRUE
      BY <3>1 DEF Grow
    <3>3. g = [x \in {"txt", "cap", "heap"} |-> g[x]]
      BY <3>2 DEF Grow
    <3> QED BY <3>2, <3>3
  <2>2. n \in Nat /\ Len(txt) <= n
    BY <1>1
  <2> HIDE DEF n
  <2>3. g \in Buffer /\ g.heap = TRUE
    BY <2>1, <2>2 DEF Buffer
  <2>4. Put(b, txt) = [g EXCEPT !.txt = txt]
    BY <1>2 DEF Put
  <2>5. Len(txt) <= g.cap
    BY <2>1, <2>2
  <2> HIDE DEF g
  <2> QED BY <2>3, <2>4, <2>5 DEF Buffer
<1>3. CASE ~(Len(txt) > b.cap)
  <2>1. Put(b, txt) = [b EXCEPT !.txt = txt]
    BY <1>3 DEF Put
  <2> QED BY <1>1, <1>3, <2>1 DEF Buffer
<1> QED BY <1>2, <1>3

(* The one record that a sink without any gets.                            *)
LEMMA AppendOne == ASSUME NEW e PROVE Append(<<>>, e) = <<e>>
<1>1. <<>> \in Seq({e}) /\ e \in {e}
  OBVIOUS
<1>2. Append(<<>>, e) \in Seq({e}) /\ Len(Append(<<>>, e)) = 1 /\ Append(<<>>, e)[1] = e
  BY <1>1, AppendProperties
<1> QED BY <1>2
-----------------------------------------------------------------------------
(* The steps                                                               *)

LEMMA InitIInv == Init => IInv
<1> SUFFICES ASSUME Init PROVE IInv
  OBVIOUS
<1> USE SinkAssumption DEF Init
<1>1. Types /\ Held /\ Thrown /\ Passing
  BY DEF Types, Place, Held, Thrown, Passing, Line0, NoRec
<1>2. Logged
  BY DEF Logged, Served, Empty
<1>3. Stored
  BY DEF Stored, Line0, Buffer0, Buffer
<1> QED BY <1>1, <1>2, <1>3 DEF IInv

(* Steps in front of the sinks leave them as they are.                     *)
LEMMA LoggedStep ==
  ASSUME IInv, UNCHANGED sunk, pc \notin {"sink", "done", "terminated"},
         pc' \notin {"sink", "done", "terminated"}
  PROVE  Logged'
BY DEF IInv, Logged, Served

LEMMA CallStep == ASSUME IInv, NEW c \in Case, Call(c) PROVE IInv'
<1>1. Types' /\ Held' /\ Thrown' /\ Passing'
  BY DEF Call, IInv, Types, Place, Held, Thrown, Passing
<1>2. Logged'
  BY LoggedStep DEF Call
<1>3. Stored'
  BY SinkAssumption DEF Call, IInv, Stored, Buffer0, Buffer
<1> QED BY <1>1, <1>2, <1>3 DEF IInv

(* What writes a text into the line that the statement holds.              *)
LEMMA WriteStep ==
  ASSUME IInv, NEW txt \in Seq(STRING), line' = [line EXCEPT !.raw = Put(@, txt)],
         UNCHANGED <<case, old, rec, due, sunk>>, pc \in {"write", "more"}, line.on,
         threw' \in BOOLEAN, pc' \in {"return", "end", "unwind"}
  PROVE  IInv'
<1>1. line'.on = line.on /\ line'.lvl = line.lvl /\ line'.raw = Put(line.raw, txt)
      /\ line' = [on |-> line'.on, lvl |-> line'.lvl, raw |-> line'.raw]
  BY DEF IInv, Types
<1>2. Types' /\ Held' /\ Thrown' /\ Passing'
  BY <1>1 DEF IInv, Types, Place, Held, Thrown, Passing
<1>3. Logged'
  BY LoggedStep
<1>4. Stored'
  <2>1. line.raw \in Buffer /\ (~line.raw.heap => line.raw.cap = Inline)
    BY DEF IInv, Stored
  <2> QED BY <1>1, <2>1, PutFits DEF IInv, Stored
<1> QED BY <1>2, <1>3, <1>4 DEF IInv

LEMMA TextStep == ASSUME IInv, WriteText PROVE IInv'
<1>1. Text(case.pieces) \in Seq(STRING)
  BY CaseAssumption DEF IInv, Types, WriteText
<1>2. line' = [line EXCEPT !.raw = Put(@, Text(case.pieces))]
  BY DEF WriteText
<1>3. /\ threw' \in BOOLEAN /\ pc = "write" /\ pc' = "return" /\ line.on
      /\ UNCHANGED <<case, old, rec, due, sunk>>
  BY DEF WriteText, IInv, Types
<1> QED BY <1>1, <1>2, <1>3, WriteStep

LEMMA FormatStep == ASSUME IInv, WriteFormat PROVE IInv'
<1> DEFINE q == Written(Text(case.pieces), case.args)
<1>1. q.out \in Seq(STRING) /\ q.err \in BOOLEAN
  BY CaseAssumption DEF IInv, Types, WriteFormat
<1>2. /\ line' = [line EXCEPT !.raw = Put(@, q.out)] /\ threw' = q.err
      /\ pc' = (IF q.err THEN "unwind" ELSE "return") /\ pc = "write" /\ line.on
      /\ UNCHANGED <<case, old, rec, due, sunk>>
  BY DEF WriteFormat
<1> HIDE DEF q
<1>3. threw' \in BOOLEAN /\ pc' \in {"return", "unwind"}
  BY <1>1, <1>2
<1> QED BY <1>1, <1>2, <1>3, WriteStep

LEMMA StreamStep == ASSUME IInv, Stream PROVE IInv'
<1>1. CASE line.on
  <2>1. line.raw.txt \in Seq(STRING) /\ case.more \in Seq(STRING)
    BY CaseAssumption DEF IInv, Types, Stored, Buffer, Stream
  <2>2. line.raw.txt \o case.more \in Seq(STRING)
    BY <2>1
  <2>3. line' = [line EXCEPT !.raw = Put(@, line.raw.txt \o case.more)]
    BY <1>1 DEF Stream, IInv, Types
  <2>4. threw' \in BOOLEAN /\ pc = "more" /\ pc' = "end" /\ UNCHANGED <<case, old, rec, due, sunk>>
    BY DEF Stream, IInv, Types
  <2> QED BY <1>1, <2>2, <2>3, <2>4, WriteStep
<1>2. CASE ~line.on
  <2>1. UNCHANGED <<line, case, old, rec, due, threw, sunk>> /\ pc = "more" /\ pc' = "end"
    BY <1>2 DEF Stream
  <2> QED BY <2>1, LoggedStep DEF IInv, Types, Place, Held, Thrown, Passing, Stored
<1> QED BY <1>1, <1>2

(* The source of a move has the inline array, and is not enabled.          *)
LEMMA MoveStep == ASSUME IInv, Move PROVE IInv'
<1>1. /\ pc = "return" /\ pc' = "old" /\ UNCHANGED <<case, line, rec, due, threw, sunk>>
      /\ old'.on = FALSE /\ old'.raw = MovedFrom(line.raw)
  BY DEF Move
<1>2. MovedFrom(line.raw).txt = <<>> /\ ~MovedFrom(line.raw).heap
  BY DEF MovedFrom, IInv, Stored, Buffer
<1> QED BY <1>1, <1>2, LoggedStep DEF IInv, Types, Place, Held, Thrown, Passing, Stored

(* Its destructor logs nothing.                                            *)
LEMMA DestroyOldStep == ASSUME IInv, DestroyOld PROVE IInv'
<1>1. /\ pc = "old" /\ pc' = "more" /\ UNCHANGED <<case, line, rec, due, threw, sunk>>
      /\ old' = Line0
  BY DEF DestroyOld, Destroy, IInv, Held
<1> QED BY <1>1, LoggedStep DEF IInv, Types, Place, Held, Thrown, Passing, Stored, Line0, Buffer0

(* That of the line hands a due message to the first sink.                 *)
LEMMA DestroyLineStep == ASSUME IInv, DestroyLine PROVE IInv'
<1>1. /\ pc \in {"end", "unwind"} /\ line' = Line0 /\ (line.on <=> due)
      /\ UNCHANGED <<case, old, due, threw, sunk>>
  BY DEF DestroyLine, IInv, Held
<1>2. /\ rec' = [raw |-> rec'.raw, text |-> rec'.text, lvl |-> rec'.lvl,
                to |-> rec'.to, then |-> rec'.then]
      /\ IF due THEN pc' = "sink" /\ rec'.to = 1 /\ rec'.then = "done" ELSE pc' = "done"
  BY <1>1 DEF DestroyLine, Destroy, IInv, Types
<1>3. Types' /\ Held' /\ Thrown' /\ Passing'
  BY <1>1, <1>2, SinkAssumption DEF IInv, Types, Place, Held, Thrown, Passing, Line0
<1>4. Logged'
  BY <1>1, <1>2 DEF IInv, Logged, Served
<1>5. Stored'
  BY <1>1, SinkAssumption DEF IInv, Stored, Line0, Buffer0, Buffer
<1> QED BY <1>3, <1>4, <1>5 DEF IInv

(* A sink gets its record, the next one has none yet.                      *)
LEMMA SinkStep == ASSUME IInv, Sink PROVE IInv'
<1> DEFINE e == IF Sinks[rec.to] = "syslog" THEN [tag |-> Priority(rec.lvl), text |-> rec.raw]
                ELSE [tag |-> NoTag, text |-> rec.text]
<1>1. /\ pc = "sink" /\ sunk' = [sunk EXCEPT ![rec.to] = Append(@, e)]
      /\ rec' = IF rec.to = Len(Sinks) THEN NoRec ELSE [rec EXCEPT !.to = @ + 1]
      /\ pc' = IF rec.to = Len(Sinks) THEN rec.then ELSE "sink"
      /\ UNCHANGED <<case, line, old, due, threw>>
  BY DEF Sink
<1> HIDE DEF e
<1>2. rec.to \in 1 .. Len(Sinks) /\ due /\ rec.then = "done" /\ Len(Sinks) \in Nat
  BY <1>1, SinkAssumption DEF IInv, Passing
<1>3. sunk[rec.to] = <<>>
  BY <1>1, <1>2 DEF IInv, Logged, Served
<1>4. /\ sunk' = [s \in 1 .. Len(Sinks) |-> sunk'[s]] /\ sunk'[rec.to] = <<e>>
      /\ \A s \in 1 .. Len(Sinks) : s # rec.to => sunk'[s] = sunk[s]
  BY <1>1, <1>2, <1>3, AppendOne DEF IInv, Logged
<1>5. /\ rec' = [raw |-> rec'.raw, text |-> rec'.text, lvl |-> rec'.lvl,
                to |-> rec'.to, then |-> rec'.then]
      /\ IF rec.to = Len(Sinks) THEN pc' = "done"
         ELSE pc' = "sink" /\ rec'.to = rec.to + 1 /\ rec'.then = "done"
  BY <1>1, <1>2 DEF IInv, Types, NoRec
<1>6. Types' /\ Held' /\ Thrown' /\ Passing'
  BY <1>1, <1>2, <1>5 DEF IInv, Types, Place, Held, Thrown, Passing
<1>7. Logged'
  <2> SUFFICES ASSUME NEW s \in 1 .. Len(Sinks)
               PROVE IF Served(s)' THEN sunk'[s] = <<sunk'[s][1]>> ELSE sunk'[s] = <<>>
    BY <1>4 DEF Logged
  <2>1. CASE s = rec.to
    <3>1. Served(s)'
      BY <1>1, <1>2, <1>5, <2>1 DEF Served
    <3> QED BY <1>4, <2>1, <3>1
  <2>2. CASE s # rec.to
    <3>1. Served(s)' <=> Served(s)
      BY <1>1, <1>2, <1>5, <2>2 DEF Served
    <3> QED BY <1>4, <2>2, <3>1 DEF IInv, Logged
  <2> QED BY <2>1, <2>2
<1>8. Stored'
  BY <1>1 DEF IInv, Stored
<1> QED BY <1>6, <1>7, <1>8 DEF IInv

LEMMA SinkFailsStep == ASSUME IInv, SinkFails PROVE IInv'
<1>1. /\ pc = "sink" /\ pc' = "terminated"
      /\ UNCHANGED <<case, line, old, rec, due, threw, sunk>>
  BY DEF SinkFails
<1> QED BY <1>1 DEF IInv, Types, Place, Held, Thrown, Passing, Logged, Served, Stored

LEMMA OverStep == ASSUME IInv, Over PROVE IInv'
<1>1. /\ pc = "done" /\ pc' = "idle" /\ due' = FALSE /\ threw' = FALSE
      /\ sunk' = Empty /\ UNCHANGED <<line, old, rec>>
  BY DEF Over
<1>2. Logged'
  BY <1>1, SinkAssumption DEF Logged, Served, Empty
<1> QED BY <1>1, <1>2 DEF IInv, Types, Place, Held, Thrown, Passing, Stored

LEMMA NextStep == IInv /\ [Next]_vars => IInv'
<1> SUFFICES ASSUME IInv, [Next]_vars PROVE IInv'
  OBVIOUS
<1>1. CASE UNCHANGED <<pc, case, line, old, rec, due, threw, sunk>>
  BY <1>1 DEF IInv, Types, Held, Thrown, Passing, Logged, Served, Stored
<1>2. ASSUME NEW c \in Case, Call(c) PROVE IInv'
  BY <1>2, CallStep
<1>3. CASE Disabled
  BY <1>3, LoggedStep DEF Disabled, IInv, Types, Place, Held, Thrown, Passing, Stored
<1>4. CASE Elide
  BY <1>4, LoggedStep DEF Elide, IInv, Types, Place, Held, Thrown, Passing, Stored
<1> QED
  BY <1>1, <1>2, <1>3, <1>4, TextStep, FormatStep, MoveStep, DestroyOldStep, StreamStep,
     DestroyLineStep, SinkStep, SinkFailsStep, OverStep
     DEF Next, SetLevel, vars

THEOREM Invariant == Spec => []IInv
<1> QED BY InitIInv, NextStep, PTL DEF Spec
-----------------------------------------------------------------------------
(* The properties                                                          *)

(* A statement that is due leaves exactly one record in every sink, also   *)
(* when its format throws and whether the line is moved out of the call or *)
(* not; one that is not leaves none, and throws nothing.  Whatever the     *)
(* formatter makes of it, and for any number of sinks.                     *)
THEOREM OneRecordAlways == Spec => []OneRecord
<1>1. IInv => OneRecord
  <2> SUFFICES ASSUME IInv PROVE OneRecord
    OBVIOUS
  <2>1. DOMAIN Sinks = 1 .. Len(Sinks) /\ Len(Sinks) \in Nat
    BY SinkAssumption
  <2>2. \A s \in DOMAIN Sinks : Len(sunk[s]) = IF Served(s) THEN 1 ELSE 0
    <3> SUFFICES ASSUME NEW s \in 1 .. Len(Sinks) PROVE Len(sunk[s]) = IF Served(s) THEN 1 ELSE 0
      BY <2>1
    <3>1. IF Served(s) THEN sunk[s] = <<sunk[s][1]>> ELSE sunk[s] = <<>>
      BY DEF IInv, Logged
    <3>2. Len(<<sunk[s][1]>>) = 1 /\ Len(<<>>) = 0
      OBVIOUS
    <3> QED BY <3>1, <3>2
  <2>3. pc = "done" => \A s \in DOMAIN Sinks : Len(sunk[s]) = IF due THEN 1 ELSE 0
    BY <2>2 DEF Served
  <2>4. \A s, t \in DOMAIN Sinks : s <= t /\ Served(t) => Served(s)
    BY <2>1 DEF Served, IInv, Passing
  <2> QED BY <2>2, <2>3, <2>4 DEF OneRecord, IInv, Thrown
<1> QED BY <1>1, Invariant, PTL

(* No buffer holds more than its storage, whatever is formatted into it or *)
(* streamed to it, and after a move only one line has the block.           *)
THEOREM SafeStorageAlways == Spec => []SafeStorage
<1>1. IInv => SafeStorage
  BY SinkAssumption DEF IInv, Stored, SafeStorage, Room, Buffer
<1> QED BY <1>1, Invariant, PTL
-----------------------------------------------------------------------------
(* Decimal numbers                                                         *)

(* Powers as operators of their own: the prover takes ^ for arithmetic,    *)
(* which it can do with numbers only.                                      *)
Pow2(k)  == 2 ^ k
Pow10(k) == 10 ^ k

(* What an unsigned holds.                                                 *)
Unsigned == 0 .. Pow2(32) - 1

LEMMA Powers2 ==
  /\ Pow2(0) = 1 /\ Pow2(1) = 2 /\ Pow2(2) = 4
  /\ Pow2(3) = 8 /\ Pow2(4) = 16 /\ Pow2(5) = 32
  /\ Pow2(6) = 64 /\ Pow2(7) = 128 /\ Pow2(8) = 256
  /\ Pow2(9) = 512 /\ Pow2(10) = 1024 /\ Pow2(11) = 2048
  /\ Pow2(12) = 4096 /\ Pow2(13) = 8192 /\ Pow2(14) = 16384
  /\ Pow2(15) = 32768 /\ Pow2(16) = 65536 /\ Pow2(17) = 131072
  /\ Pow2(18) = 262144 /\ Pow2(19) = 524288 /\ Pow2(20) = 1048576
  /\ Pow2(21) = 2097152 /\ Pow2(22) = 4194304 /\ Pow2(23) = 8388608
  /\ Pow2(24) = 16777216 /\ Pow2(25) = 33554432 /\ Pow2(26) = 67108864
  /\ Pow2(27) = 134217728 /\ Pow2(28) = 268435456 /\ Pow2(29) = 536870912
  /\ Pow2(30) = 1073741824 /\ Pow2(31) = 2147483648 /\ Pow2(32) = 4294967296
BY SMT DEF Pow2

LEMMA Powers10 ==
  /\ Pow10(0) = 1 /\ Pow10(1) = 10 /\ Pow10(2) = 100
  /\ Pow10(3) = 1000 /\ Pow10(4) = 10000 /\ Pow10(5) = 100000
  /\ Pow10(6) = 1000000 /\ Pow10(7) = 10000000 /\ Pow10(8) = 100000000
  /\ Pow10(9) = 1000000000 /\ Pow10(10) = 10000000000
BY SMT DEF Pow10

(* n is a number of k bits, zero being one of one.                         *)
HasBits(n, k) == n < Pow2(k) /\ (k = 1 \/ n >= Pow2(k - 1))

LEMMA BitsExist == ASSUME NEW n \in Unsigned PROVE \E k \in 1 .. 32 : HasBits(n, k)
<1>1. n \in Nat /\ n < Pow2(32)
  BY Powers2, SMT DEF Unsigned
<1> QED
  BY <1>1, Powers2, SMT DEF HasBits

LEMMA BitLengthHas ==
  ASSUME NEW n \in Unsigned PROVE BitLength(n) \in 1 .. 32 /\ HasBits(n, BitLength(n))
<1>1. BitLength(n) = CHOOSE k \in 1 .. 32 : HasBits(n, k)
  BY Zenon DEF BitLength, HasBits, Pow2
<1> QED
  BY <1>1, BitsExist, Zenon

(* The binary logarithm times 1233 / 4096 is the decimal one, or one less. *)
Estimate(k) == (k * 1233) \div 4096

LEMMA EstimateClose ==
  ASSUME NEW k \in 1 .. 32
  PROVE  /\ Estimate(k) \in 0 .. 9
         /\ Pow2(k) <= Pow10(Estimate(k) + 1)
         /\ Estimate(k) > 0 => Pow10(Estimate(k) - 1) <= Pow2(k - 1)
<1>0. CASE k \in {1, 2, 3}
  <2>1. Estimate(k) = 0
    BY <1>0, SMT DEF Estimate
  <2> QED
    BY <1>0, <2>1, Powers2, Powers10, SMT
<1>1. CASE k \in {4, 5, 6}
  <2>1. Estimate(k) = 1
    BY <1>1, SMT DEF Estimate
  <2> QED
    BY <1>1, <2>1, Powers2, Powers10, SMT
<1>2. CASE k \in {7, 8, 9}
  <2>1. Estimate(k) = 2
    BY <1>2, SMT DEF Estimate
  <2> QED
    BY <1>2, <2>1, Powers2, Powers10, SMT
<1>3. CASE k \in {10, 11, 12, 13}
  <2>1. Estimate(k) = 3
    BY <1>3, SMT DEF Estimate
  <2> QED
    BY <1>3, <2>1, Powers2, Powers10, SMT
<1>4. CASE k \in {14, 15, 16}
  <2>1. Estimate(k) = 4
    BY <1>4, SMT DEF Estimate
  <2> QED
    BY <1>4, <2>1, Powers2, Powers10, SMT
<1>5. CASE k \in {17, 18, 19}
  <2>1. Estimate(k) = 5
    BY <1>5, SMT DEF Estimate
  <2> QED
    BY <1>5, <2>1, Powers2, Powers10, SMT
<1>6. CASE k \in {20, 21, 22, 23}
  <2>1. Estimate(k) = 6
    BY <1>6, SMT DEF Estimate
  <2> QED
    BY <1>6, <2>1, Powers2, Powers10, SMT
<1>7. CASE k \in {24, 25, 26}
  <2>1. Estimate(k) = 7
    BY <1>7, SMT DEF Estimate
  <2> QED
    BY <1>7, <2>1, Powers2, Powers10, SMT
<1>8. CASE k \in {27, 28, 29}
  <2>1. Estimate(k) = 8
    BY <1>8, SMT DEF Estimate
  <2> QED
    BY <1>8, <2>1, Powers2, Powers10, SMT
<1>9. CASE k \in {30, 31, 32}
  <2>1. Estimate(k) = 9
    BY <1>9, SMT DEF Estimate
  <2> QED
    BY <1>9, <2>1, Powers2, Powers10, SMT
<1> QED
  BY <1>0, <1>1, <1>2, <1>3, <1>4, <1>5, <1>6, <1>7, <1>8, <1>9, SMT

(* count_digits is exact: no power of ten is taken for a digit more or     *)
(* less, though the estimate comes from the length in bits.                *)
LEMMA CountIsExact ==
  ASSUME NEW n \in Unsigned
  PROVE  LET c == CountDigits(n)
         IN  c \in 1 .. 10 /\ n < Pow10(c) /\ (c > 1 => n >= Pow10(c - 1))
<1> DEFINE k == BitLength(n)
           t == Estimate(k)
           c == CountDigits(n)
<1>1. n \in Nat
  BY Powers2, SMT DEF Unsigned
<1>2. k \in 1 .. 32 /\ HasBits(n, k)
  BY BitLengthHas
<1>3. /\ t \in 0 .. 9 /\ Pow2(k) <= Pow10(t + 1)
      /\ t > 0 => Pow10(t - 1) <= Pow2(k - 1)
  BY <1>2, EstimateClose
<1>4. PowersOf10[t] = IF t = 0 THEN 0 ELSE Pow10(t)
  BY <1>3, Zenon DEF PowersOf10, Pow10
<1>5. c = t - (IF n < PowersOf10[t] THEN 1 ELSE 0) + 1
  BY SMT DEF CountDigits, Estimate
<1>6. /\ \A j \in 0 .. 32 : Pow2(j) \in Nat
      /\ \A j \in 0 .. 10 : Pow10(j) \in Nat
      /\ Estimate(1) = 0
  BY Powers2, Powers10, SMT DEF Estimate
<1>7. n < Pow10(t + 1) /\ (t > 0 => n >= Pow10(t - 1))
  BY <1>1, <1>2, <1>3, <1>6, SMT DEF HasBits
<1> HIDE DEF k, t, c
<1>8. c \in 1 .. 10 /\ n < Pow10(c) /\ (c > 1 => n >= Pow10(c - 1))
  <2>1. CASE t = 0
    BY <1>1, <1>4, <1>5, <1>7, <2>1, SMT
  <2>2. CASE t > 0 /\ n < Pow10(t)
    BY <1>1, <1>3, <1>4, <1>5, <1>7, <2>2, SMT
  <2>3. CASE t > 0 /\ ~(n < Pow10(t))
    BY <1>1, <1>3, <1>4, <1>5, <1>6, <1>7, <2>3, SMT
  <2> QED
    BY <1>3, <2>1, <2>2, <2>3, SMT
<1> QED
  BY <1>8 DEF c

(* Division, with its remainder.                                           *)
LEMMA Quotient ==
  ASSUME NEW n \in Nat, NEW m \in Nat \ {0}
  PROVE  n \div m \in Nat /\ n % m \in 0 .. m - 1 /\ n = (n \div m) * m + (n % m)
BY SMT

LEMMA QuotientIs ==
  ASSUME NEW m \in Nat \ {0}, NEW a \in Nat, NEW r \in 0 .. m - 1
  PROVE  (a * m + r) \div m = a
BY SMT

(* Dividing by a tenth of a number gives one digit more.                    *)
LEMMA DivideOnce ==
  ASSUME NEW n \in Nat, NEW m \in Nat \ {0}
  PROVE  n \div m = 10 * (n \div (10 * m)) + ((n \div m) % 10)
<1> DEFINE q == n \div m
           r == n % m
           a == q \div 10
           e == q % 10
<1>1. q \in Nat /\ r \in 0 .. m - 1 /\ n = q * m + r
  BY Quotient, Zenon
<1> HIDE DEF q, r
<1>2. a \in Nat /\ e \in 0 .. 9 /\ q = 10 * a + e
  BY <1>1, SMT
<1> HIDE DEF a, e
<1>3. e * m + r \in 0 .. 10 * m - 1
  BY <1>1, <1>2, SMT
<1>4. n = a * (10 * m) + (e * m + r)
  BY <1>1, <1>2, SMT
<1>5. n \div (10 * m) = a
  <2> DEFINE M == 10 * m
             R == e * m + r
  <2>1. M \in Nat \ {0} /\ R \in 0 .. M - 1 /\ n = a * M + R
    BY <1>3, <1>4, SMT
  <2> HIDE DEF M, R
  <2>2. n \div M = a
    BY <1>2, <2>1, QuotientIs
  <2> QED
    BY <2>2 DEF M
<1>6. q = 10 * a + e
  BY <1>2
<1> QED
  BY <1>5, <1>6, SMT DEF q, e

LEMMA PowStep ==
  /\ \A j \in 0 .. 9 : Pow10(j + 1) = 10 * Pow10(j)
  /\ \A j \in 0 .. 10 : Pow10(j) \in Nat \ {0}
BY Powers10, SMT

LEMMA ShiftStep ==
  ASSUME NEW n \in Nat, NEW j \in 0 .. 9
  PROVE  n \div Pow10(j) = 10 * (n \div Pow10(j + 1)) + ((n \div Pow10(j)) % 10)
<1> DEFINE m == Pow10(j)
<1>1. m \in Nat \ {0} /\ Pow10(j + 1) = 10 * m
  BY PowStep
<1> HIDE DEF m
<1>2. n \div m = 10 * (n \div (10 * m)) + ((n \div m) % 10)
  BY <1>1, DivideOnce
<1> QED
  BY <1>1, <1>2, Zenon DEF m

-----------------------------------------------------------------------------
(* A numeral, read from the left, has the value n, and does not start with *)
(* a zero unless that is all.                                              *)
Spells(text, n) ==
  /\ Len(text) > 0
  /\ Len(text) > 1 => text[1] # "0"
  /\ \E v \in [0 .. Len(text) -> Nat] :
       /\ v[0] = 0 /\ v[Len(text)] = n
       /\ \A i \in 1 .. Len(text) :
            \E d \in 0 .. 9 : text[i] = Digit[d + 1] /\ v[i] = 10 * v[i - 1] + d

LEMMA DigitZero == \A d \in 1 .. 9 : Digit[d + 1] # "0"
BY DEF Digit

(* Every number that an unsigned holds is written as the decimal numeral   *)
(* that spells it: count_digits and format_decimal agree on its length.    *)
THEOREM DecimalSpells ==
  ASSUME NEW n \in Unsigned PROVE Spells(FormatDecimal(n, CountDigits(n)), n)
<1> DEFINE c == CountDigits(n)
           text == FormatDecimal(n, c)
           v == [i \in 0 .. c |-> n \div Pow10(c - i)]
<1>1. n \in Nat
  BY Powers2, SMT DEF Unsigned
<1>2. c \in 1 .. 10 /\ n < Pow10(c) /\ (c > 1 => n >= Pow10(c - 1))
  BY CountIsExact
<1>3. text = [i \in 1 .. c |-> Digit[1 + ((n \div Pow10(c - i)) % 10)]]
  BY Zenon DEF FormatDecimal, Pow10
<1> HIDE DEF c, text
<1>4. Len(text) = c
  BY <1>2, <1>3, SMT
<1>5. \A j \in 0 .. 10 : n \div Pow10(j) \in Nat
  BY <1>1, PowStep, Quotient
<1>6. v \in [0 .. c -> Nat]
  BY <1>2, <1>5, SMT
<1>7. v[0] = 0
  <2>1. Pow10(c) \in Nat /\ n < Pow10(c)
    BY <1>2, Powers10, SMT
  <2>2. n \div Pow10(c) = 0
    BY <1>1, <2>1, SMT
  <2> QED
    BY <1>2, <2>2, SMT
<1>8. v[c] = n
  <2>1. n \div Pow10(0) = n
    BY <1>1, Powers10, SMT
  <2> QED
    BY <1>2, <2>1, SMT
<1>9. ASSUME NEW i \in 1 .. c
      PROVE  \E d \in 0 .. 9 : text[i] = Digit[d + 1] /\ v[i] = 10 * v[i - 1] + d
  <2> DEFINE d == v[i] % 10
  <2>1. v[i] = n \div Pow10(c - i) /\ v[i - 1] = n \div Pow10((c - i) + 1) /\ c - i \in 0 .. 9
    BY <1>2, <1>9, SMT
  <2>2. v[i] \in Nat /\ v[i] = 10 * v[i - 1] + d
    <3>1. n \div Pow10(c - i) \in Nat
      <4>1. c - i \in 0 .. 10
        BY <2>1, SMT
      <4> QED
        BY <1>5, <4>1, Zenon
    <3>2. n \div Pow10(c - i) = 10 * (n \div Pow10((c - i) + 1)) + ((n \div Pow10(c - i)) % 10)
      BY <1>1, <2>1, ShiftStep, Zenon
    <3> QED
      BY <2>1, <3>1, <3>2, Zenon
  <2>3. text[i] = Digit[d + 1] /\ d \in 0 .. 9
    BY <1>3, <1>9, <2>1, <2>2, SMT
  <2> QED
    BY <2>2, <2>3
<1>10. ASSUME c > 1 PROVE text[1] # "0"
  <2> DEFINE m == Pow10(c - 1)
  <2>1. m \in Nat \ {0} /\ n >= m
    BY <1>2, <1>10, PowStep
  <2>2. v[1] = n \div m
    BY <1>2, SMT
  <2> HIDE DEF m, v
  <2>3. v[1] >= 1 /\ v[1] \in Nat
    <3>1. n \div m \in Nat /\ n % m \in 0 .. m - 1 /\ n = (n \div m) * m + (n % m)
      BY <1>1, <2>1, Quotient
    <3>2. n \div m # 0
      BY <1>1, <2>1, <3>1, SMT
    <3> QED
      BY <2>2, <3>1, <3>2, SMT
  <2>4. PICK d \in 0 .. 9 : text[1] = Digit[d + 1] /\ v[1] = 10 * v[0] + d
    <3>1. 1 \in 1 .. c /\ 1 - 1 = 0
      BY <1>2, SMT
    <3> QED
      BY <1>9, <3>1, Zenon
  <2>5. d >= 1
    BY <1>7, <2>3, <2>4, SMT
  <2> QED
    BY <2>4, <2>5, DigitZero, SMT
<1> HIDE DEF v
<1>11. /\ Len(text) > 0 /\ (Len(text) > 1 => text[1] # "0")
       /\ v \in [0 .. Len(text) -> Nat] /\ v[0] = 0 /\ v[Len(text)] = n
       /\ \A i \in 1 .. Len(text) :
            \E d \in 0 .. 9 : text[i] = Digit[d + 1] /\ v[i] = 10 * v[i - 1] + d
  BY <1>2, <1>4, <1>6, <1>7, <1>8, <1>9, <1>10, SMT
<1>12. Spells(text, n)
  BY <1>11, Zenon DEF Spells
<1> QED
  BY <1>12 DEF c, text

(* The characters of a number in a field that is filled with c.            *)
Digits == {Digit[i] : i \in 1 .. 10}
Chars(c) == Digits \cup {"-", "+", " ", c}

LEMMA Signs == ASSUME NEW neg, NEW spec, NEW c PROVE SignOf(neg, spec) \in Seq(Chars(c))
<1>1. \A x \in Chars(c) : <<x>> \in Seq(Chars(c))
  OBVIOUS
<1>2. "-" \in Chars(c) /\ "+" \in Chars(c) /\ " " \in Chars(c)
  BY DEF Chars
<1>3. <<>> \in Seq(Chars(c))
  OBVIOUS
<1>4. SignOf(neg, spec) \in {<<>>, <<"-">>, <<"+">>, <<" ">>}
  BY DEF SignOf
<1> QED
  BY <1>1, <1>2, <1>3, <1>4

LEMMA RepSeq == ASSUME NEW X, NEW c \in X, NEW i \in Nat PROVE Rep(c, i) \in Seq(X)
BY DEF Rep

(* Padding of no length, and its places around two texts.                  *)
LEMMA NoPadding ==
  ASSUME NEW X, NEW s \in Seq(X), NEW c
  PROVE  Rep(c, 0) \o s = s /\ s \o Rep(c, 0) = s
<1>1. Rep(c, 0) = <<>>
  BY DEF Rep
<1> QED
  BY <1>1, ConcatEmptySeq

(* A sign s and digits t with a, b and d characters of fill c before,       *)
(* between and behind them.                                                *)
Field(c, s, t, a, b, d) == Rep(c, a) \o s \o Rep(c, b) \o t \o Rep(c, d)

(* Where the fill of a number goes, and an odd one behind: in front unless *)
(* spec says otherwise.                                                    *)
Aligned(align, a, b, c) ==
  CASE align = "NUMERIC" -> a = 0 /\ c = 0
    [] align = "LEFT"    -> a = 0 /\ b = 0
    [] align = "CENTER"  -> b = 0 /\ c \in {a, a + 1}
    [] OTHER             -> b = 0 /\ c = 0

(* A text that is such a field, aligned and as wide as spec asks for.      *)
Pad(spec, size) == IF spec.width > size THEN spec.width - size ELSE 0
Placed(text, spec, s, t) ==
  \E a, b, c \in Nat : /\ text = Field(spec.fill, s, t, a, b, c)
                      /\ a + b + c = Pad(spec, Len(s) + Len(t))
                      /\ Aligned(spec.align, a, b, c)

(* prepare_int_buffer, and write_str behind it.                            *)
LEMMA FieldPlaced ==
  ASSUME NEW X, NEW spec, spec.fill \in X, spec.width \in Nat, NEW s \in Seq(X), NEW t \in Seq(X)
  PROVE  Placed(PrepareIntBuffer(spec, s, t), spec, s, t)
<1> DEFINE pad == Pad(spec, Len(s) + Len(t))
           text == PrepareIntBuffer(spec, s, t)
           fill == spec.fill
<1>1. pad \in Nat
  BY DEF Pad
<1>2. spec.align = "NUMERIC" => text = s \o Rep(fill, pad) \o t
  BY Zenon DEF PrepareIntBuffer, Pad
<1>3. ASSUME spec.align \in {"LEFT", "CENTER"}
      PROVE  \E left \in 0 .. pad : /\ text = Rep(fill, left) \o (s \o t) \o Rep(fill, pad - left)
                                    /\ Aligned(spec.align, left, 0, pad - left)
  <2> DEFINE left == IF spec.align = "CENTER" THEN Center(pad) ELSE 0
  <2>1. left \in 0 .. pad /\ Aligned(spec.align, left, 0, pad - left)
    <3> HIDE DEF pad
    <3>1. CASE spec.align = "CENTER"
      BY <1>1, <3>1, SMT DEF Center, Aligned
    <3>2. CASE spec.align = "LEFT"
      BY <1>1, <3>2, SMT DEF Aligned
    <3> QED
      BY <1>3, <3>1, <3>2
  <2>2. spec.align # "NUMERIC" /\ spec.align # "RIGHT"
    BY <1>3
  <2>3. text = WriteStr(spec, s \o t)
    BY <1>3, <2>2, Zenon DEF PrepareIntBuffer
  <2>4. Len(s \o t) = Len(s) + Len(t)
    OBVIOUS
  <2>5. WriteStr(spec, s \o t) = Rep(fill, left) \o (s \o t) \o Rep(fill, pad - left)
    BY <2>2, <2>4, Zenon DEF WriteStr, Pad
  <2> HIDE DEF left, text, pad
  <2> QED
    BY <2>1, <2>3, <2>5, Zenon
<1>4. ASSUME spec.align \notin {"NUMERIC", "LEFT", "CENTER"}
      PROVE  text = Rep(fill, pad) \o s \o t
  <2>1. spec.align # "NUMERIC"
    BY <1>4
  <2> QED
    BY <1>4, <2>1, Zenon DEF PrepareIntBuffer, Pad
<1>5. fill \in X /\ 0 \in Nat
  OBVIOUS
<1>6. ASSUME NEW a \in Nat, NEW b \in Nat, NEW c \in Nat, a + b + c = pad,
             Aligned(spec.align, a, b, c),
             text = Field(fill, s, t, a, b, c)
      PROVE  Placed(text, spec, s, t)
  <2> HIDE DEF text
  <2> QED
    BY <1>6, Zenon DEF Placed
<1> HIDE DEF text, pad, fill
<1>7. ASSUME spec.align = "NUMERIC" PROVE Placed(text, spec, s, t)
  <2>1. s \o Rep(fill, pad) \o t = Field(fill, s, t, 0, pad, 0)
    <3>1. s \o Rep(fill, pad) \o t \in Seq(X)
      BY <1>1, <1>5, RepSeq, ConcatProperties
    <3>2. Rep(fill, 0) \o s = s
      BY NoPadding
    <3>3. (s \o Rep(fill, pad) \o t) \o Rep(fill, 0) = s \o Rep(fill, pad) \o t
      BY <3>1, NoPadding
    <3> QED
      BY <3>2, <3>3, Zenon DEF Field
  <2>2. 0 + pad + 0 = pad /\ Aligned(spec.align, 0, pad, 0)
    BY <1>1, <1>7 DEF Aligned
  <2>3. text = Field(fill, s, t, 0, pad, 0)
    BY <1>2, <1>7, <2>1, Zenon
  <2> QED
    BY <1>1, <1>5, <1>6, <2>2, <2>3, Zenon
<1>8. ASSUME spec.align \in {"LEFT", "CENTER"} PROVE Placed(text, spec, s, t)
  <2>1. PICK left \in 0 .. pad : /\ text = Rep(fill, left) \o (s \o t) \o Rep(fill, pad - left)
                                 /\ Aligned(spec.align, left, 0, pad - left)
    BY <1>3, <1>8, Zenon
  <2>2. left \in Nat /\ pad - left \in Nat /\ left + 0 + (pad - left) = pad
    BY <1>1, SMT
  <2>3. Rep(fill, left) \o (s \o t) \o Rep(fill, pad - left)
          = Field(fill, s, t, left, 0, pad - left)
    <3>1. Rep(fill, left) \in Seq(X) /\ Rep(fill, left) \o s \in Seq(X)
      BY <1>5, <2>2, RepSeq, ConcatProperties
    <3>2. (Rep(fill, left) \o s) \o Rep(fill, 0) = Rep(fill, left) \o s
      BY <3>1, NoPadding
    <3>3. Rep(fill, left) \o (s \o t) = (Rep(fill, left) \o s) \o t
      <4> DEFINE r == Rep(fill, left)
      <4>1. r \in Seq(X)
        BY <3>1
      <4> HIDE DEF r
      <4>2. (r \o s) \o t = r \o (s \o t)
        BY <4>1, SMT
      <4> QED
        BY <4>2 DEF r
    <3> QED
      BY <3>2, <3>3, Zenon DEF Field
  <2>4. text = Field(fill, s, t, left, 0, pad - left)
    BY <2>1, <2>3, Zenon
  <2> QED
    BY <1>5, <1>6, <2>1, <2>2, <2>4, Zenon
<1>9. ASSUME spec.align \notin {"NUMERIC", "LEFT", "CENTER"} PROVE Placed(text, spec, s, t)
  <2>1. Rep(fill, pad) \o s \o t = Field(fill, s, t, pad, 0, 0)
    <3>1. Rep(fill, pad) \o s \in Seq(X) /\ Rep(fill, pad) \o s \o t \in Seq(X)
      BY <1>1, <1>5, RepSeq, ConcatProperties
    <3>2. /\ (Rep(fill, pad) \o s) \o Rep(fill, 0) = Rep(fill, pad) \o s
          /\ (Rep(fill, pad) \o s \o t) \o Rep(fill, 0) = Rep(fill, pad) \o s \o t
      BY <3>1, NoPadding
    <3> QED
      BY <3>2, Zenon DEF Field
  <2>2. pad + 0 + 0 = pad /\ Aligned(spec.align, pad, 0, 0)
    BY <1>1, <1>9 DEF Aligned
  <2>3. text = Field(fill, s, t, pad, 0, 0)
    BY <1>4, <1>9, <2>1, Zenon
  <2> QED
    BY <1>1, <1>5, <1>6, <2>2, <2>3, Zenon
<1>10. Placed(text, spec, s, t)
  BY <1>7, <1>8, <1>9
<1> QED
  BY <1>10 DEF text

(* All of them are digits.                                                 *)
LEMMA DecimalDigits == ASSUME NEW n \in Unsigned PROVE FormatDecimal(n, CountDigits(n)) \in Seq(Digits)
<1> DEFINE digits == FormatDecimal(n, CountDigits(n))
<1>1. \A i \in 1 .. 10 : Digit[i] \in Digits
  BY DEF Digits
<1>2. CountDigits(n) \in 1 .. 10
  BY CountIsExact
<1>3. \A i \in 1 .. CountDigits(n) : ((n \div 10 ^ (CountDigits(n) - i)) % 10) \in 0 .. 9
  <2> SUFFICES ASSUME NEW i \in 1 .. CountDigits(n)
               PROVE  ((n \div Pow10(CountDigits(n) - i)) % 10) \in 0 .. 9
    BY Zenon DEF Pow10
  <2>1. n \in Nat /\ CountDigits(n) - i \in 0 .. 10
    BY <1>2, Powers2, SMT DEF Unsigned
  <2>2. n \div Pow10(CountDigits(n) - i) \in Nat
    BY <2>1, PowStep, Quotient
  <2> QED
    BY <2>2, SMT
<1> HIDE DEF digits
<1>4. digits = [i \in 1 .. CountDigits(n) |-> Digit[1 + ((n \div 10 ^ (CountDigits(n) - i)) % 10)]]
  BY Zenon DEF FormatDecimal, digits
<1>5. \A i \in 1 .. CountDigits(n) :
        Digit[1 + ((n \div 10 ^ (CountDigits(n) - i)) % 10)] \in Digits
  BY <1>1, <1>3, SMT
<1>6. digits \in Seq(Digits)
  BY <1>2, <1>4, <1>5, SMT
<1> QED
  BY <1>6 DEF digits

(* A number in a field keeps its sign and then all of its digits, and the  *)
(* rest of the width is the fill, where the alignment wants it.            *)
Shows(text, spec, sign, n) ==
  \E digits \in Seq(Digits) : Placed(text, spec, sign, digits) /\ Spells(digits, n)

(* write_int shows every number that an unsigned holds, with the sign that *)
(* it has, as spec asks for.                                               *)
THEOREM IntegerShown ==
  ASSUME NEW n \in Unsigned, NEW neg \in BOOLEAN, NEW spec, spec.width \in Nat
  PROVE  Shows(PrepareIntBuffer(spec, SignOf(neg, spec), FormatDecimal(n, CountDigits(n))),
               spec, SignOf(neg, spec), n)
<1> DEFINE sign == SignOf(neg, spec)
           digits == FormatDecimal(n, CountDigits(n))
<1>1. sign \in Seq(Chars(spec.fill))
  BY Signs
<1>2. digits \in Seq(Digits)
  BY DecimalDigits
<1>3. Spells(digits, n)
  BY DecimalSpells
<1>4. Digits \subseteq Chars(spec.fill) /\ spec.fill \in Chars(spec.fill)
  BY DEF Chars
<1>5. digits \in Seq(Chars(spec.fill))
  <2> HIDE DEF digits
  <2> QED
    BY <1>2, <1>4, SeqMonotonic
<1>6. Placed(PrepareIntBuffer(spec, sign, digits), spec, sign, digits)
  <2> HIDE DEF sign, digits
  <2> QED
    BY <1>1, <1>4, <1>5, FieldPlaced
<1> QED
  BY <1>2, <1>3, <1>6, Zenon DEF Shows
=============================================================================
