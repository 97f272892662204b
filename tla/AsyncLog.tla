------------------------------ MODULE AsyncLog ------------------------------
(***************************************************************************)
(* spdlog::details::async_log_helper over mpmc_bounded_queue: threads that *)
(* log, one worker thread that writes to the sinks, and the owner whose    *)
(* destructor asks the worker to end.                                      *)
(*                                                                         *)
(* Each atomic access of the queue is a step.  The positions do not wrap:  *)
(* a size_t outlives the Jobs of a run.  The time that sleep_or_yield      *)
(* passes is not modelled.                                                 *)
(***************************************************************************)
EXTENDS Integers, Sequences, SequencesExt

CONSTANTS
  Producer,  (* the threads that log or flush                               *)
  Owner,     (* the thread that destroys the logger                         *)
  Size,      (* the cells of the queue                                      *)
  Jobs,      (* Jobs[p]: the kinds of the messages p sends, in order        *)
  Policy,    (* the overflow policies to consider                           *)
  Interval,  (* _flush_interval_ms is not zero                              *)
  Faults     (* how often a sink may throw                                  *)

Caller == Producer \cup {Owner}
Kind == {"log", "flush", "terminate"}

(* mpmc_bounded_queue's constructor throws unless this holds.              *)
ASSUME SizeAssumption == Size \in Nat /\ Size >= 2 /\ \E k \in 1 .. Size : Size = 2 ^ k
ASSUME JobsAssumption ==
  /\ Owner \notin Producer
  /\ Jobs \in [Caller -> Seq(Kind)] /\ Jobs[Owner] = <<"terminate">>
  /\ \A p \in Producer : \A i \in DOMAIN Jobs[p] : Jobs[p][i] # "terminate"
ASSUME PolicyAssumption ==
  /\ Policy \subseteq {"block_retry", "discard_log_msg"}
  /\ Interval \in BOOLEAN /\ Faults \in Nat

(* A message is its caller and its place among the caller's messages.      *)
Message == UNION {[from : {p}, n : DOMAIN Jobs[p]] : p \in Caller}
NoMessage == [from |-> Owner, n |-> 0]
KindOf(m) == Jobs[m.from][m.n]

VARIABLES
  cells,     (* buffer_: the sequence and the data of each cell             *)
  enqueue_pos, dequeue_pos,
  pc, pos,   (* of each caller: where in push_msg it is, and its position   *)
  sent,      (* the messages each caller is done with, pushed or not        *)
  worker,    (* where in process_next_msg the worker is                     *)
  hand,      (* the message it popped                                       *)
  flush_requested, terminate_requested,
  exception, (* _last_workerthread_ex is set                                *)
  written,   (* what the sinks got                                          *)
  flushed,   (* how much of it they had got when they were last flushed     *)
  popped,    (* history: every message the worker took out of a cell        *)
  policy,    (* _overflow_policy                                            *)
  faults,    (* exceptions of the sinks so far                              *)
  process    (* "up", "crashed", or "destroyed": the destructor returned    *)

queue  == <<cells, enqueue_pos, dequeue_pos>>
callers == <<pc, pos, sent>>
thread == <<worker, hand, flush_requested, terminate_requested>>
output == <<written, flushed, popped, faults>>
vars == <<queue, callers, thread, exception, output, policy, process>>

Index(n) == n % Size
Current(p) == [from |-> p, n |-> sent[p] + 1]

Slot == Message \cup {NoMessage}

TypeOK ==
  /\ cells \in [0 .. Size - 1 -> [seq : Nat, data : Slot]]
  /\ enqueue_pos \in Nat /\ dequeue_pos \in Nat
  /\ pc \in [Caller -> {"idle", "throw", "load", "probe", "cas", "fill", "join"}]
  /\ pos \in [Caller -> Nat] /\ sent \in [Caller -> Nat]
  /\ \A p \in Caller : pc[p] \notin {"idle", "join"} => sent[p] < Len(Jobs[p])
  /\ worker \in {"pop", "take", "work", "idle", "ended", "dead"}
  /\ hand \in Slot
  /\ flush_requested \in BOOLEAN /\ terminate_requested \in BOOLEAN
  /\ exception \in BOOLEAN
  /\ written \in Seq(Slot) /\ popped \in Seq(Slot)
  /\ flushed \in Nat /\ faults \in 0 .. Faults /\ policy \in Policy
  /\ process \in {"up", "crashed", "destroyed"}

Init ==
  /\ cells = [i \in 0 .. Size - 1 |-> [seq |-> i, data |-> NoMessage]]
  /\ enqueue_pos = 0 /\ dequeue_pos = 0
  /\ pc = [p \in Caller |-> "idle"]
  /\ pos = [p \in Caller |-> 0] /\ sent = [p \in Caller |-> 0]
  /\ worker = "pop" /\ hand = NoMessage
  /\ flush_requested = FALSE /\ terminate_requested = FALSE
  /\ exception = FALSE
  /\ written = <<>> /\ flushed = 0 /\ popped = <<>> /\ faults = 0
  /\ policy \in Policy /\ process = "up"
-----------------------------------------------------------------------------
(* push_msg                                                                *)

Go(p, from, to) == process = "up" /\ pc[p] = from /\ pc' = [pc EXCEPT ![p] = to]

(* The call of p is over, with its message in the queue or without.        *)
Return(p) ==
  /\ sent' = [sent EXCEPT ![p] = @ + 1]
  /\ pc' = [pc EXCEPT ![p] = IF p = Owner THEN "join" ELSE "idle"]

(* The logger is destroyed when the last thread has let go of it.          *)
MayCall(p) ==
  /\ sent[p] < Len(Jobs[p])
  /\ p = Owner => \A q \in Producer : sent[q] = Len(Jobs[q]) /\ pc[q] = "idle"

(* throw_if_bad_worker looks at the pointer, and takes it only afterwards. *)
Call(p) ==
  /\ MayCall(p)
  /\ Go(p, "idle", IF exception THEN "throw" ELSE "load")
  /\ UNCHANGED <<queue, pos, sent, thread, exception, output, policy, process>>

(* Only flush hands the exception to its caller.  A log call throws it     *)
(* from ~line_logger, which is noexcept; the destructor swallows it and    *)
(* then destroys a thread that was not joined.  A second thread that saw   *)
(* the pointer dereferences null.                                          *)
Throw(p) ==
  /\ process = "up" /\ pc[p] = "throw"
  /\ exception' = FALSE
  /\ process' = IF exception /\ KindOf(Current(p)) = "flush" THEN process ELSE "crashed"
  /\ Return(p)
  /\ UNCHANGED <<queue, pos, thread, output, policy>>

Load(p) ==
  /\ Go(p, "load", "probe")
  /\ pos' = [pos EXCEPT ![p] = enqueue_pos]
  /\ UNCHANGED <<queue, sent, thread, exception, output, policy, process>>

(* Mutant: a cell that was not read yet is written again.                  *)
DistanceFull(p) == IF cells[Index(pos[p])].seq < pos[p] THEN 0 ELSE cells[Index(pos[p])].seq - pos[p]

Distance(p) == cells[Index(pos[p])].seq - pos[p]

ProbeFree(p) ==
  /\ Distance(p) = 0
  /\ Go(p, "probe", "cas")
  /\ UNCHANGED <<queue, pos, sent, thread, exception, output, policy, process>>

ProbeBehind(p) ==
  /\ Distance(p) > 0
  /\ Go(p, "probe", "load")
  /\ UNCHANGED <<queue, pos, sent, thread, exception, output, policy, process>>

(* The queue is full: the message is dropped, or tried again for ever.     *)
Full(p) ==
  /\ Distance(p) < 0
  /\ process = "up" /\ pc[p] = "probe"
  /\ IF policy = "discard_log_msg" THEN Return(p)
     ELSE pc' = [pc EXCEPT ![p] = "load"] /\ UNCHANGED sent
  /\ UNCHANGED <<queue, pos, thread, exception, output, policy, process>>

(* Mutant: the position is loaded and stored, not exchanged.               *)
ExchangeBlind(p) ==
  /\ Go(p, "cas", "fill")
  /\ enqueue_pos' = pos[p] + 1
  /\ UNCHANGED <<cells, dequeue_pos, pos, sent, thread, exception, output, policy, process>>

(* A compare_exchange that fails leaves the actual position in pos.        *)
Exchange(p) ==
  /\ Go(p, "cas", IF enqueue_pos = pos[p] THEN "fill" ELSE "probe")
  /\ IF enqueue_pos = pos[p]
     THEN enqueue_pos' = enqueue_pos + 1 /\ UNCHANGED pos
     ELSE pos' = [pos EXCEPT ![p] = enqueue_pos] /\ UNCHANGED enqueue_pos
  /\ UNCHANGED <<cells, dequeue_pos, sent, thread, exception, output, policy, process>>

Fill(p) ==
  /\ process = "up" /\ pc[p] = "fill"
  /\ cells' = [cells EXCEPT ![Index(pos[p])] = [seq |-> pos[p] + 1, data |-> Current(p)]]
  /\ Return(p)
  /\ UNCHANGED <<enqueue_pos, dequeue_pos, pos, thread, exception, output, policy, process>>

(* join returns when the worker has ended, also by an exception.           *)
Join ==
  /\ pc[Owner] = "join" /\ process = "up"
  /\ worker \in {"ended", "dead"}
  /\ process' = "destroyed"
  /\ UNCHANGED <<queue, callers, thread, exception, output, policy>>
-----------------------------------------------------------------------------
(* worker_loop and process_next_msg                                        *)

Ready == cells[Index(dequeue_pos)].seq = dequeue_pos + 1

(* The worker is the only consumer: its compare_exchange succeeds.         *)
Dequeue ==
  /\ process = "up" /\ worker = "pop"
  /\ IF Ready THEN worker' = "take" /\ dequeue_pos' = dequeue_pos + 1
              ELSE worker' = "idle" /\ UNCHANGED dequeue_pos
  /\ UNCHANGED <<cells, enqueue_pos, callers, hand, flush_requested, terminate_requested,
                 exception, output, policy, process>>

(* Mutant: the cell is given back for the round that just ended.           *)
TakeRound ==
  /\ process = "up" /\ worker = "take"
  /\ LET i == Index(dequeue_pos - 1) IN
       /\ hand' = cells[i].data
       /\ popped' = Append(popped, cells[i].data)
       /\ cells' = [cells EXCEPT ![i].seq = dequeue_pos - 1]
  /\ worker' = "work"
  /\ UNCHANGED <<enqueue_pos, dequeue_pos, callers, flush_requested, terminate_requested,
                 exception, written, flushed, faults, policy, process>>

(* The data is moved out and the cell given back for the next round.       *)
Take ==
  /\ process = "up" /\ worker = "take"
  /\ LET i == Index(dequeue_pos - 1) IN
       /\ hand' = cells[i].data
       /\ popped' = Append(popped, cells[i].data)
       /\ cells' = [cells EXCEPT ![i].seq = dequeue_pos - 1 + Size]
  /\ worker' = "work"
  /\ UNCHANGED <<enqueue_pos, dequeue_pos, callers, flush_requested, terminate_requested,
                 exception, written, flushed, faults, policy, process>>

(* Mutants: terminate does not ask for a flush; a message that is not a    *)
(* flush forgets the one before it.                                        *)
HandleNoFlush ==
  /\ process = "up" /\ worker = "work"
  /\ flush_requested' = (flush_requested \/ KindOf(hand) = "flush")
  /\ terminate_requested' = (terminate_requested \/ KindOf(hand) = "terminate")
  /\ written' = IF KindOf(hand) = "log" THEN Append(written, hand) ELSE written
  /\ worker' = "pop"
  /\ UNCHANGED <<queue, callers, hand, exception, flushed, popped, faults, policy, process>>
HandleForgets ==
  /\ process = "up" /\ worker = "work"
  /\ flush_requested' = (KindOf(hand) \in {"flush", "terminate"})
  /\ terminate_requested' = (terminate_requested \/ KindOf(hand) = "terminate")
  /\ written' = IF KindOf(hand) = "log" THEN Append(written, hand) ELSE written
  /\ worker' = "pop"
  /\ UNCHANGED <<queue, callers, hand, exception, flushed, popped, faults, policy, process>>

Handle ==
  /\ process = "up" /\ worker = "work"
  /\ flush_requested' = (flush_requested \/ KindOf(hand) \in {"flush", "terminate"})
  /\ terminate_requested' = (terminate_requested \/ KindOf(hand) = "terminate")
  /\ written' = IF KindOf(hand) = "log" THEN Append(written, hand) ELSE written
  /\ worker' = "pop"
  /\ UNCHANGED <<queue, callers, hand, exception, flushed, popped, faults, policy, process>>

(* On an empty queue, and only there, the sinks are flushed and the worker *)
(* ends.  An interval may be over at any time.                             *)
FlushDue == flush_requested \/ Interval

Empty ==
  /\ process = "up" /\ worker = "idle"
  /\ \/ FlushDue /\ flush_requested' = FALSE /\ flushed' = Len(written)
     \/ ~flush_requested /\ UNCHANGED <<flush_requested, flushed>>
  /\ worker' = IF terminate_requested THEN "ended" ELSE "pop"
  /\ UNCHANGED <<queue, callers, hand, terminate_requested, exception, written, popped,
                 faults, policy, process>>

(* The formatter or a sink throws while it writes or flushes: the worker   *)
(* is gone, and its exception waits for the next caller.                   *)
SinkThrows ==
  /\ process = "up"
  /\ \/ worker = "work" /\ KindOf(hand) = "log"
     \/ worker = "idle" /\ FlushDue
  /\ faults < Faults
  /\ faults' = faults + 1
  /\ exception' = TRUE /\ worker' = "dead"
  /\ UNCHANGED <<queue, callers, hand, flush_requested, terminate_requested, written,
                 flushed, popped, policy, process>>
-----------------------------------------------------------------------------
CallerStep(p) ==
  \/ Call(p) \/ Throw(p) \/ Load(p) \/ ProbeFree(p) \/ ProbeBehind(p)
  \/ Full(p) \/ Exchange(p) \/ Fill(p)

WorkerStep == Dequeue \/ Take \/ Handle \/ Empty

Next == (\E p \in Caller : CallerStep(p)) \/ Join \/ WorkerStep \/ SinkThrows

(* The scheduler runs every thread again and again.                        *)
Fairness == /\ \A p \in Caller : WF_vars(CallerStep(p))
            /\ WF_vars(WorkerStep) /\ WF_vars(Join)

Spec == Init /\ [][Next]_vars /\ Fairness
-----------------------------------------------------------------------------
Filled(i) == \A p \in Caller : ~(pc[p] = "fill" /\ pos[p] = i)

(* The message at a position that was claimed: in its cell, or still with  *)
(* the caller that is about to move it there.                              *)
At(i) == IF Filled(i) THEN cells[Index(i)].data
         ELSE Current(CHOOSE p \in Caller : pc[p] = "fill" /\ pos[p] = i)

Abstract == INSTANCE LogQueue WITH
  Capacity <- Size,
  queue <- [i \in 1 .. enqueue_pos - dequeue_pos |-> At(dequeue_pos + i - 1)],
  taken <- IF worker = "take" THEN Append(popped, cells[Index(dequeue_pos - 1)].data)
                              ELSE popped

(* The lock-free queue is a bounded FIFO queue: no message is lost,        *)
(* duplicated or overtaken between push_msg and the worker, whatever way   *)
(* the atomic accesses of the threads interleave.                          *)
IsQueue == Abstract!Spec

(* No two threads, callers or worker, move data into or out of one cell at *)
(* the same time: data_ is not atomic.                                     *)
NoSharedCell ==
  \A p \in Caller : pc[p] = "fill" =>
    /\ \A q \in Caller \ {p} : pc[q] = "fill" => Index(pos[p]) # Index(pos[q])
    /\ worker = "take" => Index(pos[p]) # Index(dequeue_pos - 1)

(* How many of the first i messages of s are to be written.                *)
Rank(s, i) == Cardinality({j \in 1 .. i : KindOf(s[j]) = "log"})

(* The sinks got the log messages among the first k that were popped, each *)
(* once and in order, and nothing else.                                    *)
WroteLogs(k) ==
  /\ Len(written) = Rank(popped, k)
  /\ \A i \in 1 .. k : KindOf(popped[i]) = "log" => written[Rank(popped, i)] = popped[i]

(* When the worker ends on request, every message that went into the queue *)
(* has been written, in order, and flushed: "this is the only place where  *)
(* the queue can terminate or flush to avoid losing messages".             *)
EndsDrained ==
  worker = "ended" => /\ enqueue_pos = Len(popped)
                      /\ WroteLogs(Len(popped))
                      /\ flushed = Len(written)

(* A flush message flushes everything its sender logged before it, once    *)
(* the queue was empty: no flush is forgotten.                             *)
FlushCovers ==
  worker = "pop" /\ ~flush_requested =>
    \A i \in DOMAIN popped : KindOf(popped[i]) = "flush" => flushed >= Rank(popped, i)

(* Without failing sinks, block_retry makes every call return and the      *)
(* destructor end: nobody waits for a cell or for the worker for ever.     *)
DestructorEnds ==
  policy = "block_retry" /\ [](faults = 0) => <>(process = "destroyed")
=============================================================================
