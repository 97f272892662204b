--------------------------- MODULE AsyncLogProofs ---------------------------
(***************************************************************************)
(* Proofs about the asynchronous logger, for any number of callers and any *)
(* messages, and for a queue of any size: the type invariant; that the     *)
(* sequence numbers of the cells keep two threads out of one cell; that    *)
(* the lock-free queue implements LogQueue, a message being in the queue   *)
(* from the exchange of enqueue_pos until that of dequeue_pos; and above   *)
(* the queue, that the worker ends drained and forgets no flush.           *)
(***************************************************************************)
EXTENDS AsyncLog, SequenceTheorems, FiniteSetTheorems, TLAPS

(* The oldest position that is still in use, by the worker if by no other. *)
Oldest == IF worker = "take" THEN dequeue_pos - 1 ELSE dequeue_pos

(* What is in use never overlaps itself in the ring.                       *)
Window ==
  Oldest \in Nat /\ Oldest <= enqueue_pos /\ enqueue_pos <= Oldest + Size

(* A cell tells whether its position is claimed, written or free.          *)
Numbered ==
  /\ \A n \in Oldest .. enqueue_pos - 1 : cells[Index(n)].seq \in {n, n + 1}
  /\ \A n \in enqueue_pos .. Oldest + Size - 1 : cells[Index(n)].seq = n

(* A caller that may write has claimed a position, and has it alone.       *)
Claimed ==
  \A p \in Caller : pc[p] = "fill" =>
    /\ pos[p] \in Oldest .. enqueue_pos - 1 /\ cells[Index(pos[p])].seq = pos[p]
    /\ \A q \in Caller \ {p} : pc[q] = "fill" => pos[q] # pos[p]

(* A caller that is about to claim a position knows that it is free.       *)
Wanted ==
  \A p \in Caller :
    pos[p] <= enqueue_pos /\ (pc[p] = "cas" => pos[p] < Oldest + Size)

(* The worker reads what has been written.                                 *)
Taking ==
  worker = "take" => Oldest < enqueue_pos /\ cells[Index(Oldest)].seq = Oldest + 1

Ring == Window /\ Numbered /\ Claimed /\ Wanted /\ Taking

IInv == TypeOK /\ Ring
-----------------------------------------------------------------------------
(* The index of a position                                                 *)

LEMMA IndexInRange == ASSUME NEW n \in Nat PROVE Index(n) \in 0 .. Size - 1
BY SizeAssumption DEF Index

LEMMA Division ==
  ASSUME NEW n \in Nat
  PROVE  n \div Size \in Nat /\ n = Size * (n \div Size) + Index(n)
<1>0. Size \in Int /\ Size > 0 /\ n \in Int
  BY SizeAssumption
<1>1. n = Size * (n \div Size) + (n % Size)
  BY <1>0
<1>2. n \div Size \in Int
  BY <1>0
<1>3. n \div Size >= 0
  BY <1>0
<1> QED BY <1>1, <1>2, <1>3 DEF Index

LEMMA Remainder ==
  ASSUME NEW q \in Nat, NEW r \in 0 .. Size - 1
  PROVE  Index(Size * q + r) = r
BY SizeAssumption DEF Index

LEMMA Multiple ==
  ASSUME NEW a \in Nat, NEW b \in Nat, a < b
  PROVE  Size * a + Size <= Size * b
BY SizeAssumption 

LEMMA IndexDistinct ==
  ASSUME NEW m \in Nat, NEW n \in Nat, m < n, n < m + Size
  PROVE  Index(m) # Index(n)
<1> DEFINE a == m \div Size
           b == n \div Size
<1>1. a \in Nat /\ b \in Nat /\ m = Size * a + Index(m) /\ n = Size * b + Index(n)
  BY Division
<1>2. Index(m) \in Nat /\ Index(n) \in Nat
  BY IndexInRange
<1>3. Size * a \in Nat /\ Size * b \in Nat
  BY <1>1, SizeAssumption
<1> HIDE DEF a, b
<1>4. SUFFICES ASSUME Index(m) = Index(n) PROVE FALSE
  OBVIOUS
<1>5. CASE a < b
  BY <1>1, <1>2, <1>3, <1>4, <1>5, Multiple, SizeAssumption
<1>6. CASE b < a
  BY <1>1, <1>2, <1>3, <1>4, <1>6, Multiple, SizeAssumption
<1>7. CASE a = b
  BY <1>1, <1>2, <1>3, <1>4, <1>7
<1> QED BY <1>1, <1>5, <1>6, <1>7

LEMMA IndexAgain == ASSUME NEW n \in Nat PROVE Index(n + Size) = Index(n)
<1> DEFINE q == n \div Size
<1>1. q \in Nat /\ n = Size * q + Index(n) /\ Index(n) \in 0 .. Size - 1
  BY Division, IndexInRange
<1> HIDE DEF q
<1>2. n + Size = Size * (q + 1) + Index(n)
  BY <1>1, SizeAssumption
<1>3. Index(Size * (q + 1) + Index(n)) = Index(n)
  BY <1>1, Remainder
<1> QED BY <1>2, <1>3
-----------------------------------------------------------------------------
(* Types                                                                   *)

LEMMA CurrentTyped ==
  ASSUME TypeOK, NEW p \in Caller, pc[p] \notin {"idle", "join"}
  PROVE  Current(p) \in Message
<1>1. sent[p] \in Nat /\ sent[p] < Len(Jobs[p]) /\ Jobs[p] \in Seq(Kind)
  BY JobsAssumption DEF TypeOK
<1>2. sent[p] + 1 \in DOMAIN Jobs[p]
  BY <1>1
<1> QED BY <1>2 DEF Current, Message

LEMMA InitType == Init => TypeOK
<1> SUFFICES ASSUME Init PROVE TypeOK
  OBVIOUS
<1>1. NoMessage \in Slot
  BY DEF Slot
<1>2. cells \in [0 .. Size - 1 -> [seq : Nat, data : Slot]]
  BY <1>1, SizeAssumption DEF Init
<1>3. 0 \in 0 .. Faults
  BY PolicyAssumption
<1>4. /\ pc \in [Caller -> {"idle", "throw", "load", "probe", "cas", "fill", "join"}]
      /\ pos \in [Caller -> Nat] /\ sent \in [Caller -> Nat]
      /\ \A p \in Caller : pc[p] \notin {"idle", "join"} => sent[p] < Len(Jobs[p])
  BY DEF Init
<1>5. enqueue_pos \in Nat /\ dequeue_pos \in Nat /\ flushed \in Nat /\ faults \in 0 .. Faults
  BY <1>3 DEF Init
<1>6. written \in Seq(Slot) /\ popped \in Seq(Slot) /\ hand \in Slot
  BY <1>1 DEF Init
<1>7. /\ worker \in {"pop", "take", "work", "idle", "ended", "dead"}
      /\ process \in {"up", "crashed", "destroyed"} /\ policy \in Policy
      /\ flush_requested \in BOOLEAN /\ terminate_requested \in BOOLEAN /\ exception \in BOOLEAN
  BY DEF Init
<1> QED BY <1>2, <1>4, <1>5, <1>6, <1>7 DEF TypeOK

LEMMA ReturnTyped ==
  ASSUME TypeOK, NEW p \in Caller,
         sent' = [sent EXCEPT ![p] = @ + 1],
         pc' = [pc EXCEPT ![p] = IF p = Owner THEN "join" ELSE "idle"]
  PROVE  /\ pc' \in [Caller -> {"idle", "throw", "load", "probe", "cas", "fill", "join"}]
         /\ sent' \in [Caller -> Nat]
         /\ \A q \in Caller : pc'[q] \notin {"idle", "join"} => sent'[q] < Len(Jobs[q])
<1>1. pc' \in [Caller -> {"idle", "throw", "load", "probe", "cas", "fill", "join"}]
  BY DEF TypeOK
<1>2. sent' \in [Caller -> Nat]
  BY DEF TypeOK
<1> QED BY <1>1, <1>2 DEF TypeOK

LEMMA CallerType ==
  ASSUME TypeOK, NEW p \in Caller, CallerStep(p)
  PROVE  TypeOK'
<1>1. CASE Call(p)
  BY <1>1 DEF Call, Go, MayCall, TypeOK, queue, thread, output
<1>2. CASE Throw(p)
  <2>1. /\ sent' = [sent EXCEPT ![p] = @ + 1]
        /\ pc' = [pc EXCEPT ![p] = IF p = Owner THEN "join" ELSE "idle"]
    BY <1>2 DEF Throw, Return
  <2>2. process' \in {"up", "crashed", "destroyed"}
    BY <1>2 DEF Throw, TypeOK
  <2>3. /\ exception' = FALSE /\ UNCHANGED <<queue, pos, thread, output, policy>>
    BY <1>2 DEF Throw
  <2> QED BY <2>1, <2>2, <2>3, ReturnTyped DEF TypeOK, queue, thread, output
<1>3. CASE Load(p)
  BY <1>3 DEF Load, Go, TypeOK, queue, thread, output
<1>4. CASE ProbeFree(p)
  BY <1>4 DEF ProbeFree, Go, TypeOK, queue, thread, output
<1>5. CASE ProbeBehind(p)
  BY <1>5 DEF ProbeBehind, Go, TypeOK, queue, thread, output
<1>6. CASE Full(p)
  <2>1. CASE policy = "discard_log_msg"
    <3>1. /\ sent' = [sent EXCEPT ![p] = @ + 1]
          /\ pc' = [pc EXCEPT ![p] = IF p = Owner THEN "join" ELSE "idle"]
      BY <1>6, <2>1 DEF Full, Return
    <3> QED BY <1>6, <3>1, ReturnTyped DEF Full, TypeOK, queue, thread, output
  <2>2. CASE policy # "discard_log_msg"
    BY <1>6, <2>2 DEF Full, TypeOK, queue, thread, output
  <2> QED BY <2>1, <2>2
<1>7. CASE Exchange(p)
  <2>1. enqueue_pos' \in Nat /\ pos' \in [Caller -> Nat]
    BY <1>7 DEF Exchange, TypeOK
  <2>2. pc[p] = "cas" /\ \E to \in {"fill", "probe"} : pc' = [pc EXCEPT ![p] = to]
    BY <1>7 DEF Exchange, Go
  <2>3. pc' \in [Caller -> {"idle", "throw", "load", "probe", "cas", "fill", "join"}]
    BY <2>2 DEF TypeOK
  <2>4. \A q \in Caller : pc'[q] \notin {"idle", "join"} => pc[q] \notin {"idle", "join"}
    BY <2>2 DEF TypeOK
  <2> QED BY <1>7, <2>1, <2>3, <2>4 DEF Exchange, TypeOK, thread, output
<1>8. CASE Fill(p)
  <2>1. Current(p) \in Slot /\ pos[p] + 1 \in Nat /\ Index(pos[p]) \in 0 .. Size - 1
    <3>1. pc[p] = "fill" /\ pos[p] \in Nat
      BY <1>8 DEF Fill, TypeOK
    <3>2. Current(p) \in Message
      BY <3>1, CurrentTyped
    <3> QED BY <3>1, <3>2, IndexInRange DEF Slot
  <2>2. cells' \in [0 .. Size - 1 -> [seq : Nat, data : Slot]]
    BY <1>8, <2>1 DEF Fill, TypeOK
  <2>3. /\ sent' = [sent EXCEPT ![p] = @ + 1]
        /\ pc' = [pc EXCEPT ![p] = IF p = Owner THEN "join" ELSE "idle"]
    BY <1>8 DEF Fill, Return
  <2> QED BY <1>8, <2>2, <2>3, ReturnTyped DEF Fill, TypeOK, thread, output
<1> QED BY <1>1, <1>2, <1>3, <1>4, <1>5, <1>6, <1>7, <1>8 DEF CallerStep

LEMMA WorkerType ==
  ASSUME TypeOK, Window, Join \/ WorkerStep \/ SinkThrows
  PROVE  TypeOK'
<1>1. CASE Join
  BY <1>1 DEF Join, TypeOK, queue, callers, thread, output
<1>2. CASE Dequeue
  BY <1>2 DEF Dequeue, TypeOK, callers, output
<1>3. CASE Take
  <2> DEFINE i == Index(dequeue_pos - 1)
  <2>1. dequeue_pos - 1 \in Nat /\ worker = "take"
    BY <1>3 DEF Take, Window, Oldest
  <2>2. i \in 0 .. Size - 1 /\ dequeue_pos - 1 + Size \in Nat
    BY <2>1, IndexInRange, SizeAssumption
  <2>3. /\ hand' = cells[i].data /\ popped' = Append(popped, cells[i].data)
        /\ cells' = [cells EXCEPT ![i].seq = dequeue_pos - 1 + Size]
        /\ worker' = "work"
        /\ UNCHANGED <<enqueue_pos, dequeue_pos, callers, flush_requested, terminate_requested,
                       exception, written, flushed, faults, policy, process>>
    BY <1>3 DEF Take
  <2> HIDE DEF i
  <2>4. cells[i].data \in Slot
    BY <2>2 DEF TypeOK
  <2>5. hand' \in Slot /\ popped' \in Seq(Slot)
    BY <2>3, <2>4 DEF TypeOK
  <2>6. cells' \in [0 .. Size - 1 -> [seq : Nat, data : Slot]]
    BY <2>2, <2>3 DEF TypeOK
  <2> QED BY <2>3, <2>5, <2>6 DEF TypeOK, callers
<1>4. CASE Handle
  <2>1. written' \in Seq(Slot)
    BY <1>4 DEF Handle, TypeOK
  <2>2. flush_requested' \in BOOLEAN /\ terminate_requested' \in BOOLEAN
    BY <1>4 DEF Handle, TypeOK
  <2> QED BY <1>4, <2>1, <2>2 DEF Handle, TypeOK, queue, callers
<1>5. CASE Empty
  <2>1. flushed' \in Nat /\ flush_requested' \in BOOLEAN
    <3>1. Len(written) \in Nat
      BY DEF TypeOK
    <3> QED BY <1>5, <3>1 DEF Empty, TypeOK
  <2> QED BY <1>5, <2>1 DEF Empty, TypeOK, queue, callers
<1>6. CASE SinkThrows
  <2>1. faults' \in 0 .. Faults
    BY <1>6, PolicyAssumption DEF SinkThrows, TypeOK
  <2> QED BY <1>6, <2>1 DEF SinkThrows, TypeOK, queue, callers
<1> QED BY <1>1, <1>2, <1>3, <1>4, <1>5, <1>6 DEF WorkerStep
-----------------------------------------------------------------------------
(* The ring                                                                *)

LEMMA InitRing == Init => Ring
<1> SUFFICES ASSUME Init PROVE Ring
  OBVIOUS
<1>1. Oldest = 0 /\ enqueue_pos = 0
  BY DEF Init, Oldest
<1>2. \A n \in 0 .. Size - 1 : Index(n) = n
  <2> SUFFICES ASSUME NEW n \in 0 .. Size - 1 PROVE Index(n) = n
    OBVIOUS
  <2>1. Index(Size * 0 + n) = n
    BY Remainder
  <2> QED BY <2>1, SizeAssumption
<1>3. Numbered
  BY <1>1, <1>2, SizeAssumption DEF Numbered, Init
<1>4. Window
  BY <1>1, SizeAssumption DEF Window
<1> QED BY <1>1, <1>3, <1>4, SizeAssumption DEF Ring, Claimed, Wanted, Taking, Init

(* Steps that leave the queue alone: the caller p may have a new position. *)
LEMMA QuietRing ==
  ASSUME TypeOK, TypeOK', Ring, UNCHANGED <<cells, enqueue_pos>>, Oldest' = Oldest,
         worker' = "take" => worker = "take",
         \A p \in Caller : pc'[p] = "fill" => pc[p] = "fill" /\ pos'[p] = pos[p],
         Wanted'
  PROVE  Ring'
BY DEF Ring, Window, Numbered, Claimed, Taking

LEMMA CallerRing ==
  ASSUME TypeOK, TypeOK', Ring, NEW p \in Caller, CallerStep(p)
  PROVE  Ring'
<1>1. CASE Call(p) \/ Throw(p) \/ Full(p) \/ ProbeBehind(p)
  <2>1. /\ UNCHANGED <<cells, enqueue_pos, dequeue_pos, pos, worker>>
        /\ \A q \in Caller \ {p} : pc'[q] = pc[q]
        /\ pc'[p] \notin {"cas", "fill"}
    BY <1>1 DEF Call, Throw, Full, ProbeBehind, Go, Return, TypeOK, queue, thread
  <2>2. Oldest' = Oldest
    BY <2>1 DEF Oldest
  <2>3. Wanted'
    BY <2>1, <2>2 DEF Ring, Wanted
  <2> QED BY <2>1, <2>2, <2>3, QuietRing
<1>2. CASE Load(p)
  <2>1. /\ UNCHANGED <<cells, enqueue_pos, dequeue_pos, worker>>
        /\ \A q \in Caller \ {p} : pc'[q] = pc[q] /\ pos'[q] = pos[q]
        /\ pc'[p] = "probe" /\ pos'[p] = enqueue_pos
    BY <1>2 DEF Load, Go, TypeOK, queue, thread
  <2>2. Oldest' = Oldest
    BY <2>1 DEF Oldest
  <2>3. Wanted'
    <3>1. enqueue_pos <= enqueue_pos
      BY DEF TypeOK
    <3>2. \A q \in Caller : pos[q] <= enqueue_pos /\ (pc[q] = "cas" => pos[q] < Oldest + Size)
      BY DEF Ring, Wanted
    <3> QED BY <2>1, <2>2, <3>1, <3>2 DEF Wanted
  <2> QED BY <2>1, <2>2, <2>3, QuietRing
<1>3. CASE ProbeFree(p)
  <2>1. /\ UNCHANGED <<cells, enqueue_pos, dequeue_pos, pos, worker>>
        /\ \A q \in Caller \ {p} : pc'[q] = pc[q]
        /\ pc'[p] = "cas" /\ cells[Index(pos[p])].seq - pos[p] = 0
    BY <1>3 DEF ProbeFree, Distance, Go, TypeOK, queue, thread
  <2>2. Oldest' = Oldest
    BY <2>1 DEF Oldest
  <2>3. pos[p] \in Nat /\ pos[p] <= enqueue_pos /\ cells[Index(pos[p])].seq \in Nat
    BY IndexInRange DEF TypeOK, Ring, Wanted
  <2>4. Oldest \in Nat /\ Oldest <= enqueue_pos /\ enqueue_pos <= Oldest + Size /\ enqueue_pos \in Nat
    BY DEF Ring, Window, TypeOK
  <2>5. pos[p] < Oldest + Size
    <3> SUFFICES ASSUME pos[p] = Oldest + Size PROVE FALSE
      BY <2>3, <2>4, SizeAssumption
    <3>1. Index(pos[p]) = Index(Oldest)
      BY <2>4, IndexAgain
    <3>2. Oldest \in Oldest .. enqueue_pos - 1
      BY <2>3, <2>4, SizeAssumption
    <3>3. cells[Index(Oldest)].seq \in {Oldest, Oldest + 1}
      BY <3>2 DEF Ring, Numbered
    <3> QED BY <2>1, <2>3, <2>4, <3>1, <3>3, SizeAssumption
  <2>6. Wanted'
    BY <2>1, <2>2, <2>5 DEF Ring, Wanted
  <2> QED BY <2>1, <2>2, <2>6, QuietRing
<1>4. CASE Exchange(p) /\ enqueue_pos # pos[p]
  <2>1. /\ UNCHANGED <<cells, enqueue_pos, dequeue_pos, worker>>
        /\ \A q \in Caller \ {p} : pc'[q] = pc[q] /\ pos'[q] = pos[q]
        /\ pc'[p] = "probe" /\ pos'[p] = enqueue_pos
    BY <1>4 DEF Exchange, Go, TypeOK, thread
  <2>2. Oldest' = Oldest
    BY <2>1 DEF Oldest
  <2>3. Wanted'
    <3>1. enqueue_pos <= enqueue_pos
      BY DEF TypeOK
    <3>2. \A q \in Caller : pos[q] <= enqueue_pos /\ (pc[q] = "cas" => pos[q] < Oldest + Size)
      BY DEF Ring, Wanted
    <3> QED BY <2>1, <2>2, <3>1, <3>2 DEF Wanted
  <2> QED BY <2>1, <2>2, <2>3, QuietRing
<1>5. CASE Exchange(p) /\ enqueue_pos = pos[p]
  <2>1. /\ UNCHANGED <<cells, dequeue_pos, pos, worker>> /\ enqueue_pos' = enqueue_pos + 1
        /\ \A q \in Caller \ {p} : pc'[q] = pc[q]
        /\ pc[p] = "cas" /\ pc'[p] = "fill" /\ pos[p] = enqueue_pos
    BY <1>5 DEF Exchange, Go, TypeOK, thread
  <2>2. Oldest' = Oldest
    BY <2>1 DEF Oldest
  <2>3. /\ Oldest \in Nat /\ Oldest <= enqueue_pos /\ enqueue_pos < Oldest + Size
        /\ enqueue_pos \in Nat
    BY <2>1 DEF Ring, Window, Wanted, TypeOK
  <2>4. Window'
    BY <2>1, <2>2, <2>3, SizeAssumption DEF Window
  <2>5. cells[Index(enqueue_pos)].seq = enqueue_pos
    <3>1. enqueue_pos \in enqueue_pos .. Oldest + Size - 1
      BY <2>3, SizeAssumption
    <3> QED BY <3>1 DEF Ring, Numbered
  <2>6. Numbered'
    <3>1. \A n \in Oldest .. enqueue_pos : n = enqueue_pos \/ n \in Oldest .. enqueue_pos - 1
      BY <2>3
    <3>2. \A n \in enqueue_pos + 1 .. Oldest + Size - 1 : n \in enqueue_pos .. Oldest + Size - 1
      BY <2>3, SizeAssumption
    <3> QED BY <2>1, <2>2, <2>3, <2>5, <3>1, <3>2 DEF Ring, Numbered
  <2>7. Claimed'
    <3>1. \A q \in Caller : pc[q] = "fill" =>
            pos[q] \in Oldest .. enqueue_pos /\ pos[q] # enqueue_pos /\ cells[Index(pos[q])].seq = pos[q]
      BY <2>3 DEF Ring, Claimed
    <3>2. enqueue_pos \in Oldest .. enqueue_pos
      BY <2>3
    <3>3. enqueue_pos' - 1 = enqueue_pos
      BY <2>1, <2>3
    <3> QED BY <2>1, <2>2, <2>5, <3>1, <3>2, <3>3 DEF Ring, Claimed
  <2>8. Wanted'
    BY <2>1, <2>2, <2>3 DEF Ring, Wanted, TypeOK
  <2>9. Taking'
    BY <2>1, <2>2, <2>3 DEF Ring, Taking
  <2> QED BY <2>4, <2>6, <2>7, <2>8, <2>9 DEF Ring
<1>6. CASE Fill(p)
  <2> DEFINE i == Index(pos[p])
  <2>1. /\ UNCHANGED <<enqueue_pos, dequeue_pos, pos, worker>>
        /\ cells' = [cells EXCEPT ![i] = [seq |-> pos[p] + 1, data |-> Current(p)]]
        /\ \A q \in Caller \ {p} : pc'[q] = pc[q]
        /\ pc[p] = "fill" /\ pc'[p] \notin {"cas", "fill"}
    BY <1>6 DEF Fill, Return, TypeOK, thread
  <2>2. Oldest' = Oldest
    BY <2>1 DEF Oldest
  <2>3. /\ Oldest \in Nat /\ Oldest <= enqueue_pos /\ enqueue_pos <= Oldest + Size
        /\ enqueue_pos \in Nat /\ pos[p] \in Oldest .. enqueue_pos - 1 /\ pos[p] \in Nat
        /\ cells[i].seq = pos[p]
    BY <2>1 DEF Ring, Window, Claimed, TypeOK
  <2>4. \A n \in Oldest .. Oldest + Size - 1 : n # pos[p] => Index(n) # i
    <3> SUFFICES ASSUME NEW n \in Oldest .. Oldest + Size - 1, n # pos[p] PROVE Index(n) # Index(pos[p])
      OBVIOUS
    <3>1. n \in Nat
      BY <2>3, SizeAssumption
    <3>2. CASE n < pos[p]
      <4>1. pos[p] < n + Size
        BY <2>3, <3>1, SizeAssumption
      <4> QED BY <2>3, <3>1, <3>2, <4>1, IndexDistinct
    <3>3. CASE pos[p] < n
      <4>1. n < pos[p] + Size
        BY <2>3, <3>1, SizeAssumption
      <4> QED BY <2>3, <3>1, <3>3, <4>1, IndexDistinct
    <3> QED BY <2>3, <3>1, <3>2, <3>3
  <2>5. i \in 0 .. Size - 1
    BY <2>3, IndexInRange
  <2> HIDE DEF i
  <2>6. cells'[i].seq = pos[p] + 1 /\ \A j \in 0 .. Size - 1 : j # i => cells'[j] = cells[j]
    BY <2>1, <2>5 DEF TypeOK
  <2>7. \A n \in Oldest .. Oldest + Size - 1 : n # pos[p] => cells'[Index(n)] = cells[Index(n)]
    <3> SUFFICES ASSUME NEW n \in Oldest .. Oldest + Size - 1, n # pos[p]
                 PROVE  cells'[Index(n)] = cells[Index(n)]
      OBVIOUS
    <3>1. Index(n) \in 0 .. Size - 1 /\ Index(n) # i
      BY <2>3, <2>4, IndexInRange, SizeAssumption
    <3> QED BY <2>6, <3>1
  <2>8. Numbered'
    <3>1. \A n \in Oldest .. enqueue_pos - 1 : n \in Oldest .. Oldest + Size - 1
      BY <2>3, SizeAssumption
    <3>2. \A n \in enqueue_pos .. Oldest + Size - 1 : n \in Oldest .. Oldest + Size - 1 /\ n # pos[p]
      BY <2>3, SizeAssumption
    <3>3. cells'[Index(pos[p])].seq = pos[p] + 1
      BY <2>6 DEF i
    <3> QED BY <2>1, <2>2, <2>7, <3>1, <3>2, <3>3 DEF Ring, Numbered
  <2>9. Claimed'
    <3> SUFFICES ASSUME NEW q \in Caller, pc'[q] = "fill"
                 PROVE  /\ pos[q] \in Oldest .. enqueue_pos - 1 /\ cells'[Index(pos[q])].seq = pos[q]
                        /\ \A r \in Caller \ {q} : pc'[r] = "fill" => pos[r] # pos[q]
      BY <2>1, <2>2 DEF Claimed
    <3>1. q # p /\ pc[q] = "fill"
      BY <2>1
    <3>2. /\ pos[q] \in Oldest .. enqueue_pos - 1 /\ cells[Index(pos[q])].seq = pos[q]
          /\ \A r \in Caller \ {q} : pc[r] = "fill" => pos[r] # pos[q]
      BY <3>1 DEF Ring, Claimed
    <3>3. pos[q] # pos[p] /\ pos[q] \in Oldest .. Oldest + Size - 1
      BY <2>1, <2>3, <3>1, <3>2, SizeAssumption
    <3>4. cells'[Index(pos[q])] = cells[Index(pos[q])]
      BY <2>7, <3>3
    <3> QED BY <2>1, <3>2, <3>4
  <2>10. Wanted' /\ Window'
    BY <2>1, <2>2 DEF Ring, Wanted, Window
  <2>11. Taking'
    <3> SUFFICES ASSUME worker = "take"
                 PROVE  Oldest < enqueue_pos /\ cells'[Index(Oldest)].seq = Oldest + 1
      BY <2>1, <2>2 DEF Taking
    <3>1. Oldest < enqueue_pos /\ cells[Index(Oldest)].seq = Oldest + 1
      BY DEF Ring, Taking
    <3>2. Oldest # pos[p] /\ Oldest \in Oldest .. Oldest + Size - 1
      BY <2>3, <3>1, SizeAssumption DEF i
    <3>3. cells'[Index(Oldest)] = cells[Index(Oldest)]
      BY <2>7, <3>2
    <3> QED BY <3>1, <3>3
  <2> QED BY <2>8, <2>9, <2>10, <2>11 DEF Ring
<1> QED BY <1>1, <1>2, <1>3, <1>4, <1>5, <1>6 DEF CallerStep

LEMMA WorkerRing ==
  ASSUME TypeOK, TypeOK', Ring, Join \/ WorkerStep \/ SinkThrows
  PROVE  Ring'
<1>1. CASE Join \/ Handle \/ Empty \/ SinkThrows
  <2>1. /\ UNCHANGED <<cells, enqueue_pos, dequeue_pos, pc, pos>>
        /\ worker' = worker \/ (worker # "take" /\ worker' # "take")
    BY <1>1 DEF Join, Handle, Empty, SinkThrows, queue, callers, thread
  <2>2. Oldest' = Oldest
    BY <2>1 DEF Oldest
  <2>3. Wanted'
    BY <2>1, <2>2 DEF Ring, Wanted
  <2> QED BY <2>1, <2>2, <2>3, QuietRing
<1>2. CASE Dequeue /\ ~Ready
  <2>1. /\ UNCHANGED <<cells, enqueue_pos, dequeue_pos, pc, pos>>
        /\ worker # "take" /\ worker' # "take"
    BY <1>2 DEF Dequeue, callers
  <2>2. Oldest' = Oldest
    BY <2>1 DEF Oldest
  <2>3. Wanted'
    BY <2>1, <2>2 DEF Ring, Wanted
  <2> QED BY <2>1, <2>2, <2>3, QuietRing
<1>3. CASE Dequeue /\ Ready
  <2>1. /\ UNCHANGED <<cells, enqueue_pos, pc, pos>> /\ dequeue_pos' = dequeue_pos + 1
        /\ worker = "pop" /\ worker' = "take"
        /\ cells[Index(dequeue_pos)].seq = dequeue_pos + 1
    BY <1>3 DEF Dequeue, Ready, callers
  <2>2. Oldest' = Oldest /\ Oldest = dequeue_pos
    BY <2>1 DEF Oldest, TypeOK
  <2>3. Window' /\ Numbered' /\ Claimed' /\ Wanted'
    BY <2>1, <2>2 DEF Ring, Window, Numbered, Claimed, Wanted
  <2>4. Oldest < enqueue_pos
    <3> SUFFICES ASSUME Oldest = enqueue_pos PROVE FALSE
      BY DEF Ring, Window, TypeOK
    <3>1. Oldest \in enqueue_pos .. Oldest + Size - 1
      BY SizeAssumption DEF TypeOK
    <3>2. cells[Index(Oldest)].seq = Oldest
      BY <3>1 DEF Ring, Numbered
    <3> QED BY <2>1, <2>2, <3>2 DEF TypeOK
  <2> QED BY <2>1, <2>2, <2>3, <2>4 DEF Ring, Taking
<1>4. CASE Take
  <2> DEFINE o == Oldest
             i == Index(o)
  <2>1. /\ UNCHANGED <<enqueue_pos, dequeue_pos, pc, pos>>
        /\ worker = "take" /\ worker' = "work" /\ o = dequeue_pos - 1
        /\ cells' = [cells EXCEPT ![i].seq = o + Size]
    BY <1>4 DEF Take, callers, Oldest
  <2>2. Oldest' = o + 1
    BY <2>1 DEF Oldest, TypeOK
  <2>3. o \in Nat /\ o < enqueue_pos /\ enqueue_pos <= o + Size /\ enqueue_pos \in Nat
        /\ cells[i].seq = o + 1
    BY <2>1 DEF Ring, Window, Taking, TypeOK
  <2>4. \A n \in o + 1 .. o + Size - 1 : Index(n) # i
    <3> SUFFICES ASSUME NEW n \in o + 1 .. o + Size - 1 PROVE Index(n) # Index(o)
      OBVIOUS
    <3>1. n \in Nat /\ o < n /\ n < o + Size
      BY <2>3, SizeAssumption
    <3> QED BY <2>3, <3>1, IndexDistinct
  <2>5. i \in 0 .. Size - 1 /\ Index(o + Size) = i
    BY <2>3, IndexInRange, IndexAgain
  <2> HIDE DEF i
  <2>6. cells'[i].seq = o + Size /\ \A j \in 0 .. Size - 1 : j # i => cells'[j] = cells[j]
    BY <2>1, <2>5 DEF TypeOK
  <2>7. \A n \in o + 1 .. o + Size - 1 : cells'[Index(n)] = cells[Index(n)]
    <3> SUFFICES ASSUME NEW n \in o + 1 .. o + Size - 1
                 PROVE  cells'[Index(n)] = cells[Index(n)]
      OBVIOUS
    <3>1. Index(n) \in 0 .. Size - 1 /\ Index(n) # i
      BY <2>3, <2>4, IndexInRange, SizeAssumption
    <3> QED BY <2>6, <3>1
  <2>8. Numbered'
    <3>1. \A n \in o + 1 .. enqueue_pos - 1 : n \in o .. enqueue_pos - 1 /\ n \in o + 1 .. o + Size - 1
      BY <2>3, SizeAssumption
    <3>2. \A n \in enqueue_pos .. o + Size :
            \/ n = o + Size
            \/ n \in enqueue_pos .. o + Size - 1 /\ n \in o + 1 .. o + Size - 1
      BY <2>3, SizeAssumption
    <3>3. o + 1 + Size - 1 = o + Size
      BY <2>3, SizeAssumption
    <3>4. \A n \in o + 1 .. enqueue_pos - 1 : cells'[Index(n)].seq \in {n, n + 1}
      BY <2>7, <3>1 DEF Ring, Numbered
    <3>5. \A n \in enqueue_pos .. o + Size : cells'[Index(n)].seq = n
      BY <2>5, <2>6, <2>7, <3>2 DEF Ring, Numbered
    <3> QED BY <2>1, <2>2, <3>3, <3>4, <3>5 DEF Numbered
  <2>9. Claimed'
    <3> SUFFICES ASSUME NEW p \in Caller, pc[p] = "fill"
                 PROVE  /\ pos[p] \in o + 1 .. enqueue_pos - 1 /\ cells'[Index(pos[p])].seq = pos[p]
                        /\ \A q \in Caller \ {p} : pc[q] = "fill" => pos[q] # pos[p]
      BY <2>1, <2>2 DEF Claimed
    <3>1. /\ pos[p] \in o .. enqueue_pos - 1 /\ cells[Index(pos[p])].seq = pos[p]
          /\ \A q \in Caller \ {p} : pc[q] = "fill" => pos[q] # pos[p]
      BY DEF Ring, Claimed
    <3>2. pos[p] # o
      BY <2>3, <3>1 DEF i
    <3>3. pos[p] \in o + 1 .. enqueue_pos - 1 /\ pos[p] \in o + 1 .. o + Size - 1
      BY <2>3, <3>1, <3>2, SizeAssumption
    <3> QED BY <2>7, <3>1, <3>3
  <2>10. Wanted'
    <3>1. \A p \in Caller : pos[p] \in Nat /\ pos[p] <= enqueue_pos /\ (pc[p] = "cas" => pos[p] < o + Size)
      BY DEF Ring, Wanted, TypeOK
    <3> QED BY <2>1, <2>2, <2>3, <3>1, SizeAssumption DEF Wanted
  <2>11. Window' /\ Taking'
    BY <2>1, <2>2, <2>3, SizeAssumption DEF Window, Taking
  <2> QED BY <2>8, <2>9, <2>10, <2>11 DEF Ring
<1> QED BY <1>1, <1>2, <1>3, <1>4 DEF WorkerStep

LEMMA InitIInv == Init => IInv
BY InitType, InitRing DEF IInv

LEMMA NextIInv == ASSUME IInv, [Next]_vars PROVE IInv'
<1>1. CASE UNCHANGED vars
  BY <1>1 DEF vars, queue, callers, thread, output, IInv, TypeOK, Ring, Window, Numbered,
              Claimed, Wanted, Taking, Oldest
<1>2. ASSUME NEW p \in Caller, CallerStep(p) PROVE IInv'
  <2>1. TypeOK'
    BY <1>2, CallerType DEF IInv
  <2> QED BY <1>2, <2>1, CallerRing DEF IInv
<1>3. CASE Join \/ WorkerStep \/ SinkThrows
  <2>1. TypeOK'
    BY <1>3, WorkerType DEF IInv, Ring
  <2> QED BY <1>3, <2>1, WorkerRing DEF IInv
<1> QED BY <1>1, <1>2, <1>3 DEF Next

LEMMA SpecIInv == Spec => []IInv
BY InitIInv, NextIInv, PTL DEF Spec

(* Two positions in use are never in one cell, and a caller that writes    *)
(* and the worker that reads are at different positions.                   *)
LEMMA RingShares == IInv => NoSharedCell
<1> SUFFICES ASSUME IInv, NEW p \in Caller, pc[p] = "fill"
             PROVE  /\ \A q \in Caller \ {p} : pc[q] = "fill" => Index(pos[p]) # Index(pos[q])
                    /\ worker = "take" => Index(pos[p]) # Index(dequeue_pos - 1)
  BY DEF NoSharedCell
<1>1. Oldest \in Nat /\ enqueue_pos \in Nat /\ enqueue_pos <= Oldest + Size
  BY DEF IInv, TypeOK, Ring, Window
<1>2. \A m, n \in Oldest .. enqueue_pos - 1 : m # n => Index(m) # Index(n)
  <2> SUFFICES ASSUME NEW m \in Oldest .. enqueue_pos - 1, NEW n \in Oldest .. enqueue_pos - 1, m < n
               PROVE  Index(m) # Index(n)
    BY <1>1
  <2>1. m \in Nat /\ n \in Nat /\ n < m + Size
    BY <1>1, SizeAssumption
  <2> QED BY <2>1, IndexDistinct
<1>3. pos[p] \in Oldest .. enqueue_pos - 1 /\ cells[Index(pos[p])].seq = pos[p]
  BY DEF IInv, Ring, Claimed
<1>4. ASSUME NEW q \in Caller \ {p}, pc[q] = "fill" PROVE Index(pos[p]) # Index(pos[q])
  <2>1. pos[q] \in Oldest .. enqueue_pos - 1 /\ pos[q] # pos[p]
    BY <1>4 DEF IInv, Ring, Claimed
  <2> QED BY <1>2, <1>3, <2>1
<1>5. ASSUME worker = "take" PROVE Index(pos[p]) # Index(dequeue_pos - 1)
  <2>1. /\ Oldest = dequeue_pos - 1 /\ Oldest < enqueue_pos
        /\ cells[Index(Oldest)].seq = Oldest + 1
    BY <1>5 DEF Oldest, IInv, Ring, Taking
  <2>2. pos[p] # Oldest
    BY <1>1, <1>3, <2>1
  <2>3. Oldest \in Oldest .. enqueue_pos - 1
    BY <1>1, <2>1
  <2> QED BY <1>2, <1>3, <2>1, <2>2, <2>3
<1> QED BY <1>4, <1>5

(* Every variable has its type, and a call under way has a message.        *)
THEOREM AsyncTypeCorrect == Spec => []TypeOK
BY SpecIInv, PTL DEF IInv

(* The data of a cell is never moved in and out, or in twice, at once,     *)
(* though nothing but the sequence number of the cell protects it.         *)
THEOREM CellsAreNotShared == Spec => []NoSharedCell
BY SpecIInv, RingShares, PTL
-----------------------------------------------------------------------------
(* The queue                                                               *)

Queued == [i \in 1 .. enqueue_pos - dequeue_pos |-> At(dequeue_pos + i - 1)]
Taken == IF worker = "take" THEN Append(popped, cells[Index(dequeue_pos - 1)].data)
                            ELSE popped

(* A message that its caller has pushed already, or is about to fill in.   *)
Old(m) == \/ m.n <= sent[m.from]
          \/ pc[m.from] = "fill" /\ m.n <= sent[m.from] + 1

(* So nobody has pushed the message that he is still to push.              *)
Fresh == /\ \A n \in Oldest .. enqueue_pos - 1 : Old(At(n))
         /\ \A i \in DOMAIN popped : Old(popped[i])
-----------------------------------------------------------------------------
(* The message at a position                                               *)

LEMMA SlotParts == ASSUME NEW m \in Slot PROVE m.from \in Caller /\ m.n \in Nat
<1>1. CASE m = NoMessage
  BY <1>1 DEF NoMessage, Caller
<1>2. ASSUME NEW p \in Caller, m \in [from : {p}, n : DOMAIN Jobs[p]] PROVE m.from \in Caller /\ m.n \in Nat
  <2>1. DOMAIN Jobs[p] = 1 .. Len(Jobs[p]) /\ Len(Jobs[p]) \in Nat
    BY JobsAssumption
  <2> QED BY <1>2, <2>1
<1> QED BY <1>1, <1>2 DEF Slot, Message

LEMMA TheOne ==
  ASSUME NEW f, NEW g, NEW n, NEW p \in Caller, f[p] = "fill", g[p] = n,
         \A q \in Caller \ {p} : f[q] = "fill" => g[q] # n
  PROVE  (CHOOSE q \in Caller : f[q] = "fill" /\ g[q] = n) = p
OBVIOUS

LEMMA AtFill ==
  ASSUME IInv, NEW p \in Caller, pc[p] = "fill"
  PROVE  At(pos[p]) = Current(p)
<1>1. \A q \in Caller \ {p} : pc[q] = "fill" => pos[q] # pos[p]
  BY DEF IInv, Ring, Claimed
<1>2. (CHOOSE q \in Caller : pc[q] = "fill" /\ pos[q] = pos[p]) = p
  BY <1>1, TheOne
<1>3. ~Filled(pos[p])
  BY DEF Filled
<1> QED BY <1>2, <1>3 DEF At

LEMMA AtFillNext ==
  ASSUME IInv', NEW p \in Caller, NEW n, pc'[p] = "fill", pos'[p] = n
  PROVE  At(n)' = [from |-> p, n |-> sent'[p] + 1]
<1>1. \A q \in Caller \ {p} : pc'[q] = "fill" => pos'[q] # n
  BY DEF IInv, Ring, Claimed
<1>2. (CHOOSE q \in Caller : pc'[q] = "fill" /\ pos'[q] = n) = p
  BY <1>1, TheOne
<1>3. ~Filled(n)'
  BY DEF Filled
<1> QED BY <1>2, <1>3 DEF At, Current

LEMMA AtSlot ==
  ASSUME IInv, NEW n \in Oldest .. enqueue_pos - 1
  PROVE  At(n) \in Slot
<1>1. CASE Filled(n)
  <2>1. n \in Nat
    BY DEF IInv, Ring, Window
  <2>2. Index(n) \in 0 .. Size - 1
    BY <2>1, IndexInRange
  <2> QED BY <1>1, <2>2 DEF At, IInv, TypeOK
<1>2. CASE ~Filled(n)
  <2>1. PICK p \in Caller : pc[p] = "fill" /\ pos[p] = n
    BY <1>2 DEF Filled
  <2>2. At(n) = Current(p)
    BY <2>1, AtFill
  <2>3. Current(p) \in Message
    BY <2>1, CurrentTyped DEF IInv
  <2> QED BY <2>2, <2>3 DEF Slot
<1> QED BY <1>1, <1>2

(* A position keeps its message while its claimant and its cell do.        *)
LEMMA AtSame ==
  ASSUME IInv, IInv', NEW n,
         \A q \in Caller : (pc[q] = "fill" /\ pos[q] = n) <=> (pc'[q] = "fill" /\ pos'[q] = n),
         \A q \in Caller : pc[q] = "fill" /\ pos[q] = n => sent'[q] = sent[q],
         Filled(n) => cells'[Index(n)].data = cells[Index(n)].data
  PROVE  At(n)' = At(n)
<1>1. CASE Filled(n)
  <2>1. Filled(n)'
    BY <1>1 DEF Filled
  <2> QED BY <1>1, <2>1 DEF At, Index
<1>2. CASE ~Filled(n)
  <2>1. PICK p \in Caller : pc[p] = "fill" /\ pos[p] = n
    BY <1>2 DEF Filled
  <2>2. At(n) = [from |-> p, n |-> sent[p] + 1]
    BY <2>1, AtFill DEF Current
  <2>3. At(n)' = [from |-> p, n |-> sent'[p] + 1]
    BY <2>1, AtFillNext
  <2> QED BY <2>1, <2>2, <2>3
<1> QED BY <1>1, <1>2
-----------------------------------------------------------------------------
(* Steps                                                                   *)

LEMMA OldStays ==
  ASSUME TypeOK, TypeOK',
         \A q \in Caller : \/ sent'[q] = sent[q] /\ (pc[q] = "fill" => pc'[q] = "fill")
                          \/ sent'[q] = sent[q] + 1,
         NEW m \in Slot, Old(m)
  PROVE  m.n <= sent'[m.from] \/ (pc'[m.from] = "fill" /\ m.n <= sent'[m.from] + 1)
<1>1. m.from \in Caller /\ m.n \in Nat
  BY SlotParts
<1>2. sent[m.from] \in Nat /\ sent'[m.from] \in Nat
  BY <1>1 DEF TypeOK
<1> QED BY <1>1, <1>2 DEF Old

(* Steps that touch neither the positions nor the data in the ring.        *)
LEMMA QuietStep ==
  ASSUME IInv, IInv', UNCHANGED <<enqueue_pos, dequeue_pos, popped>>,
         worker' = "take" <=> worker = "take",
         \A i \in 0 .. Size - 1 : cells'[i].data = cells[i].data,
         \A q \in Caller : pc[q] = "fill" <=> pc'[q] = "fill",
         \A q \in Caller : sent'[q] \in {sent[q], sent[q] + 1},
         \A q \in Caller : pc[q] = "fill" => pos'[q] = pos[q] /\ sent'[q] = sent[q],
         Fresh
  PROVE  Fresh' /\ UNCHANGED <<Queued, Taken>>
<1>1. /\ Oldest' = Oldest /\ Oldest \in Nat /\ enqueue_pos \in Nat
      /\ dequeue_pos \in Nat /\ Oldest <= dequeue_pos
  BY DEF Oldest, IInv, TypeOK, Ring, Window
<1>2. \A n \in Oldest .. enqueue_pos - 1 : At(n)' = At(n)
  <2> SUFFICES ASSUME NEW n \in Oldest .. enqueue_pos - 1 PROVE At(n)' = At(n)
    OBVIOUS
  <2>1. Index(n) \in 0 .. Size - 1
    BY <1>1, IndexInRange
  <2> QED BY <2>1, AtSame
<1>3. Queued' = Queued
  <2>1. \A i \in 1 .. enqueue_pos - dequeue_pos : dequeue_pos + i - 1 \in Oldest .. enqueue_pos - 1
    BY <1>1
  <2> QED BY <1>2, <2>1 DEF Queued
<1>4. Taken' = Taken
  <2>1. CASE worker = "take"
    <3>1. dequeue_pos - 1 \in Nat
      BY <1>1, <2>1 DEF Oldest
    <3>2. Index(dequeue_pos - 1) \in 0 .. Size - 1
      BY <3>1, IndexInRange
    <3> QED BY <2>1, <3>2 DEF Taken, Index
  <2>2. CASE worker # "take"
    BY <2>2 DEF Taken
  <2> QED BY <2>1, <2>2
<1>5. \A m \in Slot : Old(m) => m.n <= sent'[m.from] \/ (pc'[m.from] = "fill" /\ m.n <= sent'[m.from] + 1)
  BY OldStays DEF IInv
<1>6. \A n \in Oldest .. enqueue_pos - 1 : At(n) \in Slot /\ Old(At(n))
  BY AtSlot DEF Fresh
<1>7. \A i \in DOMAIN popped : popped[i] \in Slot /\ Old(popped[i])
  BY DEF Fresh, IInv, TypeOK
<1>8. \A n \in Oldest .. enqueue_pos - 1 : Old(At(n))'
  BY <1>2, <1>5, <1>6 DEF Old
<1>9. \A i \in DOMAIN popped : Old(popped[i])'
  BY <1>5, <1>7 DEF Old
<1> QED BY <1>1, <1>3, <1>4, <1>8, <1>9 DEF Fresh

(* The quiet steps of the callers, and those of the worker.                *)
LEMMA QuietCaller ==
  ASSUME IInv, IInv', Fresh, NEW p \in Caller,
         \/ Call(p) \/ Throw(p) \/ Load(p) \/ ProbeFree(p) \/ ProbeBehind(p) \/ Full(p)
         \/ Exchange(p) /\ enqueue_pos # pos[p]
  PROVE  Fresh' /\ UNCHANGED <<Queued, Taken>>
<1>1. /\ UNCHANGED <<cells, enqueue_pos, dequeue_pos, popped, worker>>
      /\ pc[p] # "fill" /\ pc'[p] # "fill"
      /\ \A q \in Caller \ {p} : pc'[q] = pc[q] /\ pos'[q] = pos[q] /\ sent'[q] = sent[q]
      /\ sent'[p] = sent[p] \/ sent'[p] = sent[p] + 1
  BY DEF Call, Throw, Load, ProbeFree, ProbeBehind, Full, Exchange, Go, Return, queue, thread, output,
         IInv, TypeOK
<1> QED BY <1>1, QuietStep

LEMMA QuietWorker ==
  ASSUME IInv, IInv', Fresh,
         Join \/ Handle \/ Empty \/ SinkThrows \/ (Dequeue /\ ~Ready) \/ UNCHANGED vars
  PROVE  Fresh' /\ UNCHANGED <<Queued, Taken>>
<1>1. /\ UNCHANGED <<cells, enqueue_pos, dequeue_pos, popped, pc, pos, sent>>
      /\ worker' = "take" <=> worker = "take"
  BY DEF Join, Handle, Empty, SinkThrows, Dequeue, vars, queue, callers, thread, output
<1> QED BY <1>1, QuietStep

(* The data that Fill moves was the caller's own message.                  *)
LEMMA FillStep ==
  ASSUME IInv, IInv', Fresh, NEW p \in Caller, Fill(p)
  PROVE  Fresh' /\ UNCHANGED <<Queued, Taken>>
<1>0. PICK k \in Nat : k = pos[p]
  BY DEF IInv, TypeOK
<1>1. /\ UNCHANGED <<enqueue_pos, dequeue_pos, popped, worker, pos>>
      /\ cells' = [cells EXCEPT ![Index(k)] = [seq |-> k + 1, data |-> Current(p)]]
      /\ pc[p] = "fill" /\ pc'[p] # "fill" /\ sent'[p] = sent[p] + 1
      /\ \A q \in Caller \ {p} : pc'[q] = pc[q] /\ sent'[q] = sent[q]
  BY <1>0 DEF Fill, Return, thread, output, IInv, TypeOK
<1>2. /\ Oldest' = Oldest /\ Oldest \in Nat /\ enqueue_pos \in Nat /\ enqueue_pos <= Oldest + Size
      /\ dequeue_pos \in Nat /\ Oldest <= dequeue_pos
      /\ worker = "take" => Oldest = dequeue_pos - 1
  BY <1>1 DEF Oldest, IInv, TypeOK, Ring, Window
<1>3. /\ k \in Oldest .. enqueue_pos - 1 /\ cells[Index(k)].seq = k
      /\ \A q \in Caller \ {p} : pc[q] = "fill" => pos[q] # k
  BY <1>0, <1>1 DEF IInv, Ring, Claimed
<1>4. Index(k) \in 0 .. Size - 1 /\ k \in Nat
  BY IndexInRange
<1>5. \A n \in Oldest .. enqueue_pos - 1 : n # k => cells'[Index(n)] = cells[Index(n)]
  <2> SUFFICES ASSUME NEW n \in Oldest .. enqueue_pos - 1, n # k PROVE cells'[Index(n)] = cells[Index(n)]
    OBVIOUS
  <2>1. n \in Nat /\ n < k + Size /\ k < n + Size /\ (n < k \/ k < n)
    BY <1>2, <1>3, <1>4, SizeAssumption
  <2>2. Index(n) # Index(k)
    BY <1>4, <2>1, IndexDistinct
  <2> QED BY <1>1, <1>4, <2>1, <2>2, IndexInRange DEF IInv, TypeOK
<1>6. cells'[Index(k)].data = Current(p)
  BY <1>1, <1>4 DEF IInv, TypeOK
<1>7. At(k)' = At(k)
  <2>1. Filled(k)'
    BY <1>0, <1>1, <1>3 DEF Filled
  <2>2. At(k)' = cells'[Index(k)].data
    BY <2>1 DEF At, Index
  <2> QED BY <1>0, <1>1, <1>6, <2>2, AtFill
<1>8. \A n \in Oldest .. enqueue_pos - 1 : At(n)' = At(n)
  <2> SUFFICES ASSUME NEW n \in Oldest .. enqueue_pos - 1, n # k PROVE At(n)' = At(n)
    BY <1>7
  <2>1. \A q \in Caller : (pc[q] = "fill" /\ pos[q] = n) <=> (pc'[q] = "fill" /\ pos'[q] = n)
    BY <1>0, <1>1
  <2>2. \A q \in Caller : pc[q] = "fill" /\ pos[q] = n => sent'[q] = sent[q]
    BY <1>0, <1>1
  <2> QED BY <1>5, <2>1, <2>2, AtSame
<1>9. Queued' = Queued
  <2>1. \A i \in 1 .. enqueue_pos - dequeue_pos : dequeue_pos + i - 1 \in Oldest .. enqueue_pos - 1
    BY <1>2
  <2> QED BY <1>1, <1>8, <2>1 DEF Queued
<1>10. Taken' = Taken
  <2>1. CASE worker = "take"
    <3>1. Oldest < enqueue_pos /\ cells[Index(Oldest)].seq = Oldest + 1
      BY <2>1 DEF IInv, Ring, Taking
    <3>2. Oldest # k /\ Oldest \in Oldest .. enqueue_pos - 1
      BY <1>2, <1>3, <1>4, <3>1
    <3>3. cells'[Index(dequeue_pos - 1)] = cells[Index(dequeue_pos - 1)]
      BY <1>2, <1>5, <2>1, <3>2
    <3> QED BY <1>1, <2>1, <3>3 DEF Taken, Index
  <2>2. CASE worker # "take"
    BY <1>1, <2>2 DEF Taken
  <2> QED BY <2>1, <2>2
<1>11. \A m \in Slot : Old(m) => m.n <= sent'[m.from] \/ (pc'[m.from] = "fill" /\ m.n <= sent'[m.from] + 1)
  BY <1>1, OldStays DEF IInv
<1>12. \A n \in Oldest .. enqueue_pos - 1 : Old(At(n))'
  <2>1. \A n \in Oldest .. enqueue_pos - 1 : At(n) \in Slot /\ Old(At(n))
    BY AtSlot DEF Fresh
  <2> QED BY <1>8, <1>11, <2>1 DEF Old
<1>13. \A i \in DOMAIN popped : Old(popped[i])'
  <2>1. \A i \in DOMAIN popped : popped[i] \in Slot /\ Old(popped[i])
    BY DEF Fresh, IInv, TypeOK
  <2> QED BY <1>1, <1>11, <2>1 DEF Old
<1> QED BY <1>1, <1>2, <1>9, <1>10, <1>12, <1>13 DEF Fresh
-----------------------------------------------------------------------------
(* The sequences                                                           *)

LEMMA Listing ==
  ASSUME NEW S, NEW k \in Nat, NEW f \in [1 .. k -> S]
  PROVE  f \in Seq(S) /\ Len(f) = k
OBVIOUS

LEMMA Longer ==
  ASSUME NEW S, NEW s \in Seq(S), NEW t \in Seq(S), NEW m \in S, Len(t) = Len(s) + 1,
         \A i \in 1 .. Len(s) : t[i] = s[i], t[Len(s) + 1] = m
  PROVE  t = Append(s, m)
<1>1. /\ Append(s, m) \in Seq(S) /\ Len(Append(s, m)) = Len(s) + 1
      /\ \A i \in 1 .. Len(s) : Append(s, m)[i] = s[i]
      /\ Append(s, m)[Len(s) + 1] = m
  BY AppendProperties
<1>2. Len(s) \in Nat
  OBVIOUS
<1>3. \A i \in 1 .. Len(t) : t[i] = Append(s, m)[i]
  BY <1>1, <1>2
<1> QED BY <1>1, <1>3, SeqEqual

LEMMA Shorter ==
  ASSUME NEW S, NEW s \in Seq(S), NEW t \in Seq(S), Len(s) = Len(t) + 1,
         \A i \in 1 .. Len(t) : t[i] = s[i + 1]
  PROVE  s # <<>> /\ t = Tail(s) /\ Head(s) = s[1]
<1>1. s # <<>> /\ Len(t) \in Nat
  OBVIOUS
<1>2. /\ Tail(s) \in Seq(S) /\ Len(Tail(s)) = Len(s) - 1
      /\ \A i \in 1 .. Len(Tail(s)) : Tail(s)[i] = s[i + 1]
  BY <1>1, HeadTailProperties
<1>3. Len(Tail(s)) = Len(t)
  BY <1>1, <1>2
<1>4. t = Tail(s)
  BY <1>2, <1>3, SeqEqual
<1> QED BY <1>1, <1>4

LEMMA Written ==
  ASSUME IInv, NEW n \in Nat, cells[Index(n)].seq = n + 1
  PROVE  Filled(n) /\ At(n) = cells[Index(n)].data
<1>1. Filled(n)
  BY DEF Filled, IInv, Ring, Claimed
<1> QED BY <1>1 DEF At

(* The queue and what was taken are sequences of messages already pushed.  *)
Pushed == {m \in Slot : Old(m)}

LEMMA QueuePushed ==
  ASSUME IInv, Fresh
  PROVE  /\ enqueue_pos - dequeue_pos \in Nat
         /\ Queued \in Seq(Pushed) /\ Len(Queued) = enqueue_pos - dequeue_pos
<1>1. /\ enqueue_pos - dequeue_pos \in Nat /\ dequeue_pos \in Nat /\ enqueue_pos \in Nat
      /\ Oldest <= dequeue_pos /\ Oldest \in Nat
  BY DEF Oldest, IInv, TypeOK, Ring, Window, Taking
<1>2. \A n \in Oldest .. enqueue_pos - 1 : At(n) \in Pushed
  BY AtSlot DEF Fresh, Pushed
<1>3. \A i \in 1 .. enqueue_pos - dequeue_pos : dequeue_pos + i - 1 \in Oldest .. enqueue_pos - 1
  BY <1>1
<1>4. Queued \in [1 .. enqueue_pos - dequeue_pos -> Pushed]
  BY <1>2, <1>3 DEF Queued
<1> QED BY <1>1, <1>4, Listing

LEMMA TakenPushed ==
  ASSUME IInv, Fresh
  PROVE  Taken \in Seq(Pushed)
<1>1. popped \in Seq(Pushed)
  <2>1. popped \in Seq(Slot)
    BY DEF IInv, TypeOK
  <2>2. popped \in [1 .. Len(popped) -> Pushed] /\ Len(popped) \in Nat
    BY <2>1 DEF Fresh, Pushed
  <2> QED BY <2>2, Listing
<1>2. CASE worker = "take"
  <2>1. /\ Oldest = dequeue_pos - 1 /\ Oldest \in Nat /\ Oldest < enqueue_pos
        /\ cells[Index(Oldest)].seq = Oldest + 1 /\ enqueue_pos \in Nat
    BY <1>2 DEF Oldest, IInv, TypeOK, Ring, Window, Taking
  <2>2. At(Oldest) = cells[Index(Oldest)].data
    BY <2>1, Written
  <2>3. Oldest \in Oldest .. enqueue_pos - 1
    BY <2>1
  <2>4. At(Oldest) \in Pushed
    BY <2>3, AtSlot DEF Fresh, Pushed
  <2> QED BY <1>1, <1>2, <2>1, <2>2, <2>4 DEF Taken
<1> QED BY <1>1, <1>2 DEF Taken
-----------------------------------------------------------------------------
(* The steps that LogQueue sees                                            *)

(* An exchange that succeeds puts the caller's message into the queue.     *)
LEMMA ExchangeStep ==
  ASSUME IInv, IInv', Fresh, NEW p \in Caller, Exchange(p), enqueue_pos = pos[p]
  PROVE  Fresh' /\ Abstract!Put(Current(p)) /\ Current(p) \in Message
<1>0. PICK e \in Nat : e = enqueue_pos
  BY DEF IInv, TypeOK
<1>1. /\ UNCHANGED <<cells, dequeue_pos, pos, sent, worker, popped>>
      /\ enqueue_pos' = e + 1 /\ pos[p] = e /\ pc[p] = "cas" /\ pc'[p] = "fill"
      /\ \A q \in Caller \ {p} : pc'[q] = pc[q]
  BY <1>0 DEF Exchange, Go, thread, output, IInv, TypeOK
<1>2. /\ Oldest' = Oldest /\ Oldest \in Nat /\ Oldest <= e /\ e < Oldest + Size
      /\ dequeue_pos \in Nat /\ Oldest <= dequeue_pos
  BY <1>0, <1>1 DEF Oldest, IInv, TypeOK, Ring, Window, Wanted
<1>3. \A n \in Oldest .. e - 1 : At(n)' = At(n)
  <2> SUFFICES ASSUME NEW n \in Oldest .. e - 1 PROVE At(n)' = At(n)
    OBVIOUS
  <2>1. n # e
    BY <1>2
  <2> QED BY <1>1, <2>1, AtSame
<1>4. At(e)' = Current(p)
  BY <1>1, AtFillNext DEF Current
<1>5. \A m \in Slot : Old(m) => m.n <= sent'[m.from] \/ (pc'[m.from] = "fill" /\ m.n <= sent'[m.from] + 1)
  BY <1>1, OldStays DEF IInv
<1>6. Current(p) \in Message /\ Current(p) \in Slot /\ ~Old(Current(p)) /\ sent[p] \in Nat
  <2>1. Current(p) \in Message
    BY <1>1, CurrentTyped DEF IInv
  <2> QED BY <1>1, <2>1 DEF Slot, Old, Current, IInv, TypeOK
<1>7. Fresh'
  <2>1. \A n \in Oldest .. e : n = e \/ n \in Oldest .. e - 1
    BY <1>2
  <2>2. Old(Current(p))'
    BY <1>1, <1>6 DEF Old, Current
  <2>3. \A n \in Oldest .. e - 1 : Old(At(n))'
    <3>1. \A n \in Oldest .. e - 1 : At(n) \in Slot /\ Old(At(n))
      BY <1>0, AtSlot DEF Fresh
    <3> QED BY <1>3, <1>5, <3>1 DEF Old
  <2>4. Old(At(e))'
    BY <1>1, <1>4, <1>6 DEF Old, Current
  <2>5. \A i \in DOMAIN popped : Old(popped[i])'
    <3>1. \A i \in DOMAIN popped : popped[i] \in Slot /\ Old(popped[i])
      BY DEF Fresh, IInv, TypeOK
    <3> QED BY <1>1, <1>5, <3>1 DEF Old
  <2>6. enqueue_pos' - 1 = e
    BY <1>0, <1>1
  <2> QED BY <1>1, <1>2, <2>1, <2>3, <2>4, <2>5, <2>6 DEF Fresh
<1>8. /\ e - dequeue_pos \in Nat /\ Queued \in Seq(Pushed) /\ Taken \in Seq(Pushed)
      /\ Len(Queued) = e - dequeue_pos
  BY <1>0, QueuePushed, TakenPushed
<1>9. Len(Queued) < Size
  BY <1>2, <1>8, SizeAssumption
<1>10. Current(p) \notin ToSet(Queued \o Taken)
  <2>1. \A s \in Seq(Pushed) : ToSet(s) \subseteq Pushed
    BY DEF ToSet
  <2>2. Queued \o Taken \in Seq(Pushed)
    BY <1>8
  <2>3. Current(p) \notin Pushed
    BY <1>6 DEF Pushed
  <2> QED BY <2>1, <2>2, <2>3
<1>11. Queued' = Append(Queued, Current(p))
  <2>0. PICK d \in Nat : d = dequeue_pos
    BY <1>2
  <2>1. PICK k \in Nat : k = e - d
    BY <1>8, <2>0
  <2>2. /\ Queued = [i \in 1 .. k |-> At(d + i - 1)]
        /\ Queued' = [i \in 1 .. k + 1 |-> At(d + i - 1)']
    <3>1. enqueue_pos - dequeue_pos = k /\ enqueue_pos' - dequeue_pos' = k + 1
      BY <1>0, <1>1, <2>0, <2>1
    <3> QED BY <1>1, <2>0, <3>1 DEF Queued
  <2>3. \A i \in 1 .. k : d + i - 1 \in Oldest .. e - 1 /\ i \in 1 .. k + 1
    BY <1>2, <2>0, <2>1
  <2>4. d + (k + 1) - 1 = e /\ k + 1 \in 1 .. k + 1 /\ k + 1 \in Nat
    BY <2>1
  <2>5. \A i \in 1 .. k : Queued'[i] = Queued[i]
    BY <1>3, <2>2, <2>3
  <2>6. Queued'[k + 1] = Current(p)
    <3>1. Queued'[k + 1] = At(d + (k + 1) - 1)'
      BY <2>2, <2>4
    <3> QED BY <1>4, <2>4, <3>1
  <2>7. Queued \in Seq(Slot) /\ Len(Queued) = k
    BY <1>8, <2>0, <2>1 DEF Pushed
  <2>8. Queued' \in [1 .. k + 1 -> Slot]
    <3>1. \A i \in 1 .. k + 1 : i = k + 1 \/ i \in 1 .. k
      BY <2>1
    <3>2. \A i \in 1 .. k : Queued[i] \in Slot
      BY <2>7
    <3>3. \A i \in 1 .. k + 1 : Queued'[i] \in Slot
      BY <1>6, <2>5, <2>6, <3>1, <3>2
    <3> QED BY <2>2, <3>3
  <2>9. Queued' \in Seq(Slot) /\ Len(Queued') = k + 1
    BY <2>4, <2>8, Listing
  <2> QED BY <1>6, <2>5, <2>6, <2>7, <2>9, Longer
<1>12. Taken' = Taken
  BY <1>1 DEF Taken, Index
<1> QED BY <1>6, <1>7, <1>9, <1>10, <1>11, <1>12 DEF Abstract!Put, Abstract!ToSet, ToSet, Queued, Taken

(* An exchange of the worker that succeeds takes the head of the queue.    *)
LEMMA DequeueStep ==
  ASSUME IInv, IInv', Fresh, Dequeue, Ready
  PROVE  Fresh' /\ Abstract!Get
<1>0. PICK d \in Nat : d = dequeue_pos
  BY DEF IInv, TypeOK
<1>1. /\ UNCHANGED <<cells, enqueue_pos, pc, pos, sent, popped>>
      /\ dequeue_pos' = d + 1 /\ worker = "pop" /\ worker' = "take"
      /\ cells[Index(d)].seq = d + 1
  BY <1>0 DEF Dequeue, Ready, callers, output
<1>2. Oldest' = d /\ Oldest = d
  BY <1>0, <1>1 DEF Oldest
<1>3. d < enqueue_pos /\ enqueue_pos \in Nat
  <2>1. worker' = "take" => Oldest' < enqueue_pos'
    BY DEF IInv, Ring, Taking
  <2> QED BY <1>1, <1>2, <2>1 DEF IInv, TypeOK
<1>4. \A n \in d .. enqueue_pos - 1 : At(n)' = At(n)
  BY <1>1, AtSame
<1>5. Fresh'
  BY <1>1, <1>2, <1>4 DEF Fresh, Old
<1>6. PICK k \in Nat : enqueue_pos - d = k + 1
  BY <1>3
<1>7. /\ Queued = [i \in 1 .. k + 1 |-> At(d + i - 1)]
      /\ Queued' = [i \in 1 .. k |-> At(d + 1 + i - 1)']
  <2>1. enqueue_pos - dequeue_pos = k + 1 /\ enqueue_pos' - dequeue_pos' = k
    BY <1>0, <1>1, <1>3, <1>6
  <2> QED BY <1>0, <1>1, <2>1 DEF Queued
<1>8. \A i \in 1 .. k : Queued'[i] = Queued[i + 1]
  <2> SUFFICES ASSUME NEW i \in 1 .. k PROVE Queued'[i] = Queued[i + 1]
    OBVIOUS
  <2>1. /\ d + 1 + i - 1 = d + i /\ d + (i + 1) - 1 = d + i
        /\ i + 1 \in 1 .. k + 1 /\ d + i \in d .. enqueue_pos - 1
    BY <1>3, <1>6
  <2>2. Queued'[i] = At(d + i)' /\ Queued[i + 1] = At(d + i)
    BY <1>7, <2>1
  <2> QED BY <1>4, <2>1, <2>2
<1>9. Queued \in Seq(Slot) /\ Len(Queued) = k + 1
  BY <1>0, <1>6, QueuePushed DEF Pushed
<1>10. Queued' \in Seq(Slot) /\ Len(Queued') = k
  <2>1. \A i \in 1 .. k : i + 1 \in 1 .. k + 1
    BY <1>6
  <2>2. \A i \in 1 .. k : Queued'[i] \in Slot
    BY <1>8, <1>9, <2>1
  <2>3. Queued' \in [1 .. k -> Slot]
    BY <1>7, <2>2
  <2> QED BY <1>6, <2>3, Listing
<1>11. Queued # <<>> /\ Queued' = Tail(Queued) /\ Head(Queued) = Queued[1]
  BY <1>8, <1>9, <1>10, Shorter
<1>12. Head(Queued) = cells[Index(d)].data
  <2>1. At(d) = cells[Index(d)].data
    BY <1>1, Written
  <2>2. d + 1 - 1 = d /\ 1 \in 1 .. k + 1
    BY <1>6
  <2>3. Queued[1] = At(d + 1 - 1)
    BY <1>7, <2>2
  <2> QED BY <1>11, <2>1, <2>2, <2>3
<1>13. Taken = popped /\ Taken' = Append(popped, cells[Index(d)].data)
  <2>1. d + 1 - 1 = d
    OBVIOUS
  <2> QED BY <1>1, <2>1 DEF Taken, Index
<1>14. Taken' = Append(Taken, Head(Queued))
  BY <1>12, <1>13
<1> QED BY <1>5, <1>11, <1>14 DEF Abstract!Get, Queued, Taken

(* Moving the data out is hidden: it was taken with the exchange.          *)
LEMMA TakeStep ==
  ASSUME IInv, IInv', Fresh, Take
  PROVE  Fresh' /\ UNCHANGED <<Queued, Taken>>
<1>0. PICK o \in Nat : o = Oldest
  BY DEF IInv, Ring, Window
<1>1. /\ UNCHANGED <<enqueue_pos, dequeue_pos, pc, pos, sent>>
      /\ worker = "take" /\ worker' = "work" /\ o = dequeue_pos - 1
      /\ cells' = [cells EXCEPT ![Index(o)].seq = o + Size]
      /\ popped' = Append(popped, cells[Index(o)].data)
  BY <1>0 DEF Take, callers, Oldest
<1>2. /\ Oldest' = o + 1 /\ dequeue_pos = o + 1
      /\ o < enqueue_pos /\ enqueue_pos \in Nat
  BY <1>0, <1>1 DEF Oldest, IInv, TypeOK, Ring, Taking
<1>3. \A i \in 0 .. Size - 1 : cells'[i].data = cells[i].data
  BY <1>1 DEF IInv, TypeOK
<1>4. \A n \in o .. enqueue_pos - 1 : At(n)' = At(n)
  <2> SUFFICES ASSUME NEW n \in o .. enqueue_pos - 1 PROVE At(n)' = At(n)
    OBVIOUS
  <2>1. Index(n) \in 0 .. Size - 1
    BY IndexInRange
  <2> QED BY <1>1, <1>3, <2>1, AtSame
<1>5. Queued' = Queued
  <2>1. \A i \in 1 .. enqueue_pos - dequeue_pos : dequeue_pos + i - 1 \in o .. enqueue_pos - 1
    BY <1>2
  <2> QED BY <1>1, <1>4, <2>1 DEF Queued
<1>6. Taken = popped' /\ Taken' = popped'
  BY <1>1 DEF Taken
<1>7. \A i \in DOMAIN popped' : Old(popped[i])'
  <2>1. popped' \in Seq(Pushed)
    BY <1>6, TakenPushed
  <2>2. \A i \in DOMAIN popped' : Old(popped'[i])
    BY <2>1 DEF Pushed
  <2> QED BY <1>1, <2>2 DEF Old
<1>8. \A n \in o + 1 .. enqueue_pos - 1 : Old(At(n))'
  <2>1. \A n \in o + 1 .. enqueue_pos - 1 : n \in o .. enqueue_pos - 1
    BY <1>2
  <2> QED BY <1>0, <1>1, <1>4, <2>1 DEF Fresh, Old
<1> QED BY <1>1, <1>2, <1>5, <1>6, <1>7, <1>8 DEF Fresh

LEMMA InitFresh == Init => Fresh /\ Abstract!Init
<1> SUFFICES ASSUME Init PROVE Fresh /\ Abstract!Init
  OBVIOUS
<1>1. enqueue_pos = 0 /\ dequeue_pos = 0 /\ worker = "pop" /\ popped = <<>> /\ Oldest = 0
  BY DEF Init, Oldest
<1>2. Fresh
  BY <1>1 DEF Fresh
<1>3. Queued = <<>>
  BY <1>1 DEF Queued
<1> QED BY <1>1, <1>2, <1>3 DEF Abstract!Init, Queued

LEMMA NextFresh ==
  ASSUME IInv, IInv', Fresh, [Next]_vars
  PROVE  Fresh' /\ [Abstract!Next]_<<Queued, Taken>>
<1>1. ASSUME NEW p \in Caller, CallerStep(p)
      PROVE  Fresh' /\ [Abstract!Next]_<<Queued, Taken>>
  <2>1. CASE Exchange(p) /\ enqueue_pos = pos[p]
    BY <2>1, ExchangeStep DEF Abstract!Next
  <2>2. CASE Fill(p)
    BY <2>2, FillStep
  <2>3. CASE \/ Call(p) \/ Throw(p) \/ Load(p) \/ ProbeFree(p) \/ ProbeBehind(p) \/ Full(p)
             \/ Exchange(p) /\ enqueue_pos # pos[p]
    BY <2>3, QuietCaller
  <2> QED BY <1>1, <2>1, <2>2, <2>3 DEF CallerStep
<1>2. CASE Dequeue /\ Ready
  BY <1>2, DequeueStep DEF Abstract!Next
<1>3. CASE Take
  BY <1>3, TakeStep
<1>4. CASE Join \/ Handle \/ Empty \/ SinkThrows \/ (Dequeue /\ ~Ready) \/ UNCHANGED vars
  BY <1>4, QuietWorker
<1> QED BY <1>1, <1>2, <1>3, <1>4 DEF Next, WorkerStep

(* The lock-free queue loses, duplicates and reorders no message between   *)
(* push_msg and the worker, and never holds more than its size: every step *)
(* of a caller or of the worker is a step of the bounded FIFO queue, or    *)
(* one that it does not see.                                               *)
THEOREM AsyncImplementsQueue == Spec => IsQueue
<1>1. Init /\ [][Next]_vars /\ []IInv => [](Fresh /\ IInv) /\ Abstract!Init
                                     /\ [][Abstract!Next]_<<Queued, Taken>>
  BY InitFresh, NextFresh, PTL
<1>2. Abstract!Init /\ [][Abstract!Next]_<<Queued, Taken>> => Abstract!Spec
  BY PTL DEF Abstract!Spec, Queued, Taken
<1> QED BY <1>1, <1>2, SpecIInv, PTL DEF Spec, IsQueue
-----------------------------------------------------------------------------
(***************************************************************************)
(* What the worker does with the messages                                  *)
(***************************************************************************)

(* How many of the popped messages the worker is done with.                *)
Done == IF worker = "work" THEN Len(popped) - 1 ELSE Len(popped)

(* The owner's call is the last one ...                                    *)
OwnerIsLast ==
  pc[Owner] # "idle" => \A q \in Producer : sent[q] = Len(Jobs[q]) /\ pc[q] = "idle"

(* ... and so is its message: nothing is queued behind it.                 *)
Messages == Queued \in Seq(Message) /\ Taken \in Seq(Message)
OwnerCloses ==
  /\ \A i \in 1 .. Len(Queued) :
       Queued[i].from = Owner => i = Len(Queued) /\ pc[Owner] \in {"fill", "join"}
  /\ \A i \in 1 .. Len(Taken) :
       Taken[i].from = Owner => i = Len(Taken) /\ Queued = <<>> /\ pc[Owner] \in {"fill", "join"}

Closing == OwnerIsLast /\ Messages /\ OwnerCloses

(* The worker counts, holds what it popped last, and wrote the others.     *)
Counted == Oldest = Len(popped) /\ flushed <= Len(written)
InHand  == worker = "work" => popped # <<>> /\ hand = popped[Len(popped)]
Wrote   == worker # "dead" => WroteLogs(Done)

(* What asked for a flush has been flushed, unless that is still due.      *)
FlushedIt ==
  worker # "dead" /\ ~flush_requested =>
    \A i \in 1 .. Done :
      KindOf(popped[i]) \in {"flush", "terminate"} => flushed >= Rank(popped, i)

(* It ends because it was told to.                                         *)
Told ==
  /\ terminate_requested => \E i \in 1 .. Done : KindOf(popped[i]) = "terminate"
  /\ worker = "ended" => terminate_requested /\ ~flush_requested

Ledger == Counted /\ InHand /\ Wrote /\ FlushedIt /\ Told

(* Ranks                                                                   *)

LEMMA RankTyped == ASSUME NEW s, NEW i \in Nat PROVE Rank(s, i) \in Nat
<1>1. IsFiniteSet(1 .. i)
  BY FS_Interval
<1>2. {j \in 1 .. i : KindOf(s[j]) = "log"} \in SUBSET (1 .. i)
  OBVIOUS
<1> QED
  BY <1>1, <1>2, FS_Subset, FS_CardinalityType DEF Rank

LEMMA RankNone == ASSUME NEW s PROVE Rank(s, 0) = 0
<1>1. {j \in 1 .. 0 : KindOf(s[j]) = "log"} = {}
  OBVIOUS
<1> QED
  BY <1>1, FS_EmptySet DEF Rank

(* The next message adds one to the rank if it is to be written.           *)
LEMMA RankNext ==
  ASSUME NEW s, NEW i \in Nat
  PROVE  Rank(s, i + 1) = IF KindOf(s[i + 1]) = "log" THEN Rank(s, i) + 1 ELSE Rank(s, i)
<1> DEFINE L(k) == {j \in 1 .. k : KindOf(s[j]) = "log"}
<1>1. \A j : j \in 1 .. i + 1 <=> j \in 1 .. i \/ j = i + 1
  OBVIOUS
<1>2. i + 1 \notin L(i)
  OBVIOUS
<1>3. IsFiniteSet(L(i))
  <2>1. IsFiniteSet(1 .. i)
    BY FS_Interval
  <2>2. L(i) \in SUBSET (1 .. i)
    OBVIOUS
  <2> QED
    BY <2>1, <2>2, FS_Subset
<1>4. CASE KindOf(s[i + 1]) = "log"
  <2>1. L(i + 1) = L(i) \cup {i + 1}
    BY <1>1, <1>4
  <2> HIDE DEF L
  <2>2. Cardinality(L(i + 1)) = Cardinality(L(i)) + 1
    BY <1>2, <1>3, <2>1, FS_AddElement
  <2> QED
    BY <1>4, <2>2 DEF Rank, L
<1>5. CASE KindOf(s[i + 1]) # "log"
  <2>1. L(i + 1) = L(i)
    BY <1>1, <1>5
  <2> QED
    BY <1>5, <2>1 DEF Rank
<1> QED
  BY <1>4, <1>5

LEMMA RankGrows ==
  ASSUME NEW s, NEW i \in Nat, NEW k \in Nat, i <= k
  PROVE  Rank(s, i) <= Rank(s, k)
<1> DEFINE L(n) == {j \in 1 .. n : KindOf(s[j]) = "log"}
<1>1. IsFiniteSet(1 .. k)
  BY FS_Interval
<1>2. L(k) \in SUBSET (1 .. k) /\ L(i) \in SUBSET L(k)
  OBVIOUS
<1>3. IsFiniteSet(L(k))
  BY <1>1, <1>2, FS_Subset
<1>4. Cardinality(L(i)) <= Cardinality(L(k))
  BY <1>2, <1>3, FS_Subset
<1> QED
  BY <1>4 DEF Rank

(* A log message has a rank of its own, which is not 0.                    *)
LEMMA RankOfLog ==
  ASSUME NEW s, NEW k \in Nat, NEW i \in 1 .. k, KindOf(s[i]) = "log"
  PROVE  Rank(s, i) \in 1 .. Rank(s, k)
<1>1. i - 1 \in Nat /\ i - 1 + 1 = i /\ i \in Nat /\ i <= k
  OBVIOUS
<1>2. Rank(s, i) = Rank(s, i - 1) + 1
  BY <1>1, RankNext
<1>3. Rank(s, i - 1) \in Nat /\ Rank(s, i) \in Nat /\ Rank(s, k) \in Nat
  BY <1>1, RankTyped
<1>4. Rank(s, i) <= Rank(s, k)
  BY <1>1, RankGrows
<1> QED
  BY <1>2, <1>3, <1>4

LEMMA RankSame ==
  ASSUME NEW s, NEW t, NEW i \in Nat, \A j \in 1 .. i : t[j] = s[j]
  PROVE  Rank(t, i) = Rank(s, i)
<1>1. {j \in 1 .. i : KindOf(t[j]) = "log"} = {j \in 1 .. i : KindOf(s[j]) = "log"}
  OBVIOUS
<1> QED
  BY <1>1 DEF Rank
-----------------------------------------------------------------------------
(* The owner's message is the last                                         *)

LEMMA OwnerWaits ==
  ASSUME IInv, OwnerIsLast, NEW p \in Caller, CallerStep(p)
  PROVE  /\ OwnerIsLast'
         /\ pc[Owner] \in {"fill", "join"} => pc'[Owner] \in {"fill", "join"}
<1>1. \A q \in Caller \ {p} : pc'[q] = pc[q] /\ sent'[q] = sent[q]
  BY DEF CallerStep, Call, Throw, Load, ProbeFree, ProbeBehind, Full, Exchange, Fill, Go, Return,
         IInv, TypeOK
<1>2. pc[p] = "idle" => MayCall(p) /\ sent'[p] = sent[p]
  BY DEF CallerStep, Call, Throw, Load, ProbeFree, ProbeBehind, Full, Exchange, Fill, Go
<1>3. \A q \in Producer : q \in Caller /\ q # Owner /\ Len(Jobs[q]) \in Nat
  BY JobsAssumption DEF Caller
<1>4. CASE p = Owner
  <2>1. \A q \in Producer : pc'[q] = pc[q] /\ sent'[q] = sent[q]
    BY <1>1, <1>3, <1>4
  <2>2. \A q \in Producer : sent[q] = Len(Jobs[q]) /\ pc[q] = "idle"
    BY <1>2, <1>4 DEF OwnerIsLast, MayCall
  <2>3. pc[Owner] \in {"fill", "join"} => pc'[Owner] \in {"fill", "join"}
    BY <1>4 DEF CallerStep, Call, Throw, Load, ProbeFree, ProbeBehind, Full, Exchange, Fill, Go, Return,
                IInv, TypeOK
  <2> QED
    BY <2>1, <2>2, <2>3 DEF OwnerIsLast
<1>5. CASE p # Owner
  <2>1. pc'[Owner] = pc[Owner]
    BY <1>1, <1>5 DEF Caller
  <2>2. p \in Producer
    BY <1>5 DEF Caller
  <2>3. pc[Owner] = "idle"
    <3> SUFFICES ASSUME pc[Owner] # "idle" PROVE FALSE
      OBVIOUS
    <3>1. sent[p] = Len(Jobs[p]) /\ pc[p] = "idle"
      BY <2>2 DEF OwnerIsLast
    <3> QED
      BY <1>2, <1>3, <2>2, <3>1 DEF MayCall
  <2> QED
    BY <2>1, <2>3 DEF OwnerIsLast
<1> QED
  BY <1>4, <1>5

LEMMA CallerCloses ==
  ASSUME IInv, IInv', Fresh, Closing, NEW p \in Caller, CallerStep(p)
  PROVE  Closing'
<1>1. /\ OwnerIsLast'
      /\ pc[Owner] \in {"fill", "join"} => pc'[Owner] \in {"fill", "join"}
  BY OwnerWaits DEF Closing
<1>2. CASE UNCHANGED <<Queued, Taken>>
  BY <1>1, <1>2 DEF Closing, Messages, OwnerCloses
<1>3. CASE Exchange(p) /\ enqueue_pos = pos[p]
  <2>1. PICK m \in Message : m = Current(p)
    BY <1>3, ExchangeStep
  <2>2. Queued' = Append(Queued, m) /\ Taken' = Taken
    BY <1>3, <2>1, ExchangeStep DEF Abstract!Put, Queued, Taken
  <2>3. m.from = p /\ pc[p] = "cas" /\ pc'[p] = "fill"
    BY <1>3, <2>1 DEF Current, Exchange, Go, IInv, TypeOK
  <2>4. Queued \in Seq(Message) /\ Taken \in Seq(Message)
    BY DEF Closing, Messages
  <2>5. pc[Owner] \notin {"fill", "join"}
    <3>1. CASE p = Owner
      BY <2>3, <3>1
    <3>2. CASE p # Owner
      BY <2>3, <3>2 DEF Closing, OwnerIsLast, Caller
    <3> QED
      BY <3>1, <3>2
  <2>6. /\ \A i \in 1 .. Len(Queued) : Queued[i].from # Owner
        /\ \A i \in 1 .. Len(Taken) : Taken[i].from # Owner
    BY <2>5 DEF Closing, OwnerCloses
  <2>7. Messages'
    BY <2>2, <2>4 DEF Messages
  <2>8. Len(Append(Queued, m)) = Len(Queued) + 1 /\ Len(Queued) \in Nat
        /\ \A i \in 1 .. Len(Queued) : Append(Queued, m)[i] = Queued[i]
    BY <2>4
  <2>9. OwnerCloses'
    <3>1. \A i \in 1 .. Len(Queued) + 1 : i \in 1 .. Len(Queued) \/ i = Len(Queued) + 1
      BY <2>8
    <3>2. ASSUME NEW i \in 1 .. Len(Queued'), Queued'[i].from = Owner
          PROVE  i = Len(Queued') /\ pc'[Owner] \in {"fill", "join"}
      <4>1. i = Len(Queued) + 1
        BY <2>2, <2>6, <2>8, <3>1, <3>2
      <4>2. Queued'[i] = m
        BY <2>2, <2>4, <4>1
      <4> QED
        BY <2>2, <2>3, <2>8, <3>2, <4>1, <4>2
    <3>3. \A i \in 1 .. Len(Taken') : Taken'[i].from # Owner
      BY <2>2, <2>6
    <3> QED
      BY <3>2, <3>3 DEF OwnerCloses
  <2> QED
    BY <1>1, <2>7, <2>9 DEF Closing
<1>4. CASE \/ Call(p) \/ Throw(p) \/ Load(p) \/ ProbeFree(p) \/ ProbeBehind(p) \/ Full(p)
           \/ Exchange(p) /\ enqueue_pos # pos[p]
  BY <1>2, <1>4, QuietCaller
<1>5. CASE Fill(p)
  BY <1>2, <1>5, FillStep
<1> QED
  BY <1>3, <1>4, <1>5 DEF CallerStep

LEMMA WorkerCloses ==
  ASSUME IInv, IInv', Fresh, Closing, Join \/ WorkerStep \/ SinkThrows \/ UNCHANGED vars
  PROVE  Closing'
<1>1. UNCHANGED <<pc, sent>>
  BY DEF Join, WorkerStep, Dequeue, Take, Handle, Empty, SinkThrows, vars, callers
<1>2. OwnerIsLast'
  BY <1>1 DEF Closing, OwnerIsLast
<1>3. CASE UNCHANGED <<Queued, Taken>>
  BY <1>1, <1>2, <1>3 DEF Closing, Messages, OwnerCloses
<1>4. CASE Dequeue /\ Ready
  <2>1. Queued # <<>> /\ Taken' = Append(Taken, Head(Queued)) /\ Queued' = Tail(Queued)
    BY <1>4, DequeueStep DEF Abstract!Get, Queued, Taken
  <2>2. Queued \in Seq(Message) /\ Taken \in Seq(Message)
    BY DEF Closing, Messages
  <2>3. Messages'
    BY <2>1, <2>2 DEF Messages
  <2>4. \A i \in 1 .. Len(Taken) : Taken[i].from # Owner
    BY <2>1 DEF Closing, OwnerCloses
  <2>5. /\ Len(Queued') = Len(Queued) - 1 /\ Len(Queued) \in Nat \ {0}
        /\ \A i \in 1 .. Len(Queued') : Queued'[i] = Queued[i + 1]
        /\ Len(Taken') = Len(Taken) + 1 /\ Len(Taken) \in Nat
        /\ \A i \in 1 .. Len(Taken) : Taken'[i] = Taken[i]
        /\ Taken'[Len(Taken) + 1] = Queued[1]
    BY <2>1, <2>2
  <2>6. ASSUME NEW i \in 1 .. Len(Queued'), Queued'[i].from = Owner
        PROVE  i = Len(Queued') /\ pc'[Owner] \in {"fill", "join"}
    <3>1. i + 1 \in 1 .. Len(Queued) /\ Queued[i + 1].from = Owner
      BY <2>5, <2>6
    <3> QED
      BY <1>1, <2>5, <3>1 DEF Closing, OwnerCloses
  <2>7. ASSUME NEW i \in 1 .. Len(Taken'), Taken'[i].from = Owner
        PROVE  i = Len(Taken') /\ Queued' = <<>> /\ pc'[Owner] \in {"fill", "join"}
    <3>1. i = Len(Taken) + 1
      BY <2>4, <2>5, <2>7
    <3>2. 1 \in 1 .. Len(Queued) /\ Queued[1].from = Owner
      BY <2>5, <2>7, <3>1
    <3>3. Len(Queued) = 1 /\ pc[Owner] \in {"fill", "join"}
      BY <3>2 DEF Closing, OwnerCloses
    <3>4. Queued' = <<>>
      BY <2>1, <2>2, <2>5, <3>3
    <3> QED
      BY <1>1, <2>5, <3>1, <3>3, <3>4
  <2> QED
    BY <1>2, <2>3, <2>6, <2>7 DEF Closing, OwnerCloses
<1>5. CASE Take
  BY <1>3, <1>5, TakeStep
<1>6. CASE Join \/ Handle \/ Empty \/ SinkThrows \/ (Dequeue /\ ~Ready) \/ UNCHANGED vars
  BY <1>3, <1>6, QuietWorker
<1> QED
  BY <1>4, <1>5, <1>6 DEF WorkerStep
-----------------------------------------------------------------------------
(* What the worker wrote                                                   *)

(* A longer list of popped messages: what was said of the first k stands.  *)
LEMMA StillWrote ==
  ASSUME NEW k \in Nat, \A i \in 1 .. k : popped'[i] = popped[i], UNCHANGED <<written, flushed>>
  PROVE  /\ WroteLogs(k) => WroteLogs(k)'
         /\ \A i \in 1 .. k : Rank(popped, i)' = Rank(popped, i)
<1>1. \A i \in 0 .. k : Rank(popped', i) = Rank(popped, i)
  <2> SUFFICES ASSUME NEW i \in 0 .. k PROVE Rank(popped', i) = Rank(popped, i)
    OBVIOUS
  <2>1. \A j \in 1 .. i : popped'[j] = popped[j]
    OBVIOUS
  <2> QED
    BY <2>1, RankSame
<1>2. \A i \in 1 .. k : i \in 0 .. k
  OBVIOUS
<1> QED
  BY <1>1, <1>2 DEF WroteLogs

LEMMA InitLedger == Init => Ledger /\ Closing
<1> SUFFICES ASSUME Init PROVE Ledger /\ Closing
  OBVIOUS
<1>1. /\ worker = "pop" /\ popped = <<>> /\ written = <<>> /\ flushed = 0 /\ pc[Owner] = "idle"
      /\ enqueue_pos = 0 /\ dequeue_pos = 0 /\ terminate_requested = FALSE
  BY DEF Init, Caller
<1>2. Len(popped) = 0 /\ Len(written) = 0 /\ Done = 0 /\ Oldest = 0
  BY <1>1 DEF Done, Oldest
<1>3. Wrote
  BY <1>2, RankNone DEF Wrote, WroteLogs
<1>4. Queued = <<>> /\ Taken = <<>>
  BY <1>1 DEF Queued, Taken
<1> QED
  BY <1>1, <1>2, <1>3, <1>4 DEF Ledger, Counted, InHand, FlushedIt, Told, Closing, OwnerIsLast,
                               Messages, OwnerCloses

LEMMA SameLedger ==
  ASSUME Ledger, UNCHANGED <<thread, output, dequeue_pos>>
  PROVE  Ledger'
BY DEF Ledger, Counted, InHand, Wrote, FlushedIt, Told, Done, Oldest, WroteLogs, Rank, KindOf,
       thread, output

LEMMA CallerLedger ==
  ASSUME Ledger, NEW p \in Caller, CallerStep(p)
  PROVE  Ledger'
<1>1. UNCHANGED <<thread, output, dequeue_pos>>
  BY DEF CallerStep, Call, Throw, Load, ProbeFree, ProbeBehind, Full, Exchange, Fill, queue
<1> QED
  BY <1>1, SameLedger

(* The message in hand becomes one that the worker is done with.           *)
LEMMA HandleLedger == ASSUME TypeOK, Ledger, Handle PROVE Ledger'
<1>0. popped # <<>> /\ popped \in Seq(Slot)
  BY DEF Handle, Ledger, InHand, TypeOK
<1>1. PICK k \in Nat : Len(popped) = k + 1
  <2>1. Len(popped) \in Nat /\ Len(popped) # 0
    BY <1>0
  <2>2. Len(popped) - 1 \in Nat /\ Len(popped) = Len(popped) - 1 + 1
    BY <2>1
  <2> QED
    BY <2>2
<1>2. /\ worker = "work" /\ worker' = "pop" /\ hand = popped[k + 1]
      /\ UNCHANGED <<popped, flushed, dequeue_pos>>
      /\ flush_requested' = (flush_requested \/ KindOf(hand) \in {"flush", "terminate"})
      /\ terminate_requested' = (terminate_requested \/ KindOf(hand) = "terminate")
      /\ written' = IF KindOf(hand) = "log" THEN Append(written, hand) ELSE written
  BY <1>1 DEF Handle, Ledger, InHand, queue
<1>3. Done = k /\ Done' = k + 1 /\ \A i \in 1 .. k + 1 : i \in 1 .. k \/ i = k + 1
  BY <1>1, <1>2 DEF Done
<1>4. /\ Len(written) = Rank(popped, k)
      /\ \A i \in 1 .. k : KindOf(popped[i]) = "log" => written[Rank(popped, i)] = popped[i]
  BY <1>2, <1>3 DEF Ledger, Wrote, WroteLogs
<1>5. Rank(popped, k + 1) = IF KindOf(hand) = "log" THEN Rank(popped, k) + 1 ELSE Rank(popped, k)
  BY <1>2, RankNext
<1>6. written \in Seq(Slot) /\ hand \in Slot /\ Len(written) \in Nat
  BY DEF TypeOK
<1>7. WroteLogs(k + 1)'
  <2>1. CASE KindOf(hand) = "log"
    <3>1. /\ written' = Append(written, hand) /\ Len(written') = Len(written) + 1
          /\ written'[Len(written) + 1] = hand
          /\ \A j \in 1 .. Len(written) : written'[j] = written[j]
      BY <1>2, <1>6, <2>1
    <3>2. \A i \in 1 .. k : KindOf(popped[i]) = "log" => written'[Rank(popped, i)] = popped[i]
      BY <1>4, <3>1, RankOfLog
    <3>3. written'[Rank(popped, k + 1)] = popped[k + 1]
      BY <1>2, <1>4, <1>5, <2>1, <3>1
    <3>4. Len(written') = Rank(popped, k + 1)
      BY <1>4, <1>5, <2>1, <3>1
    <3> QED
      BY <1>2, <1>3, <3>2, <3>3, <3>4 DEF WroteLogs, Rank, KindOf
  <2>2. CASE KindOf(hand) # "log"
    BY <1>2, <1>3, <1>4, <1>5, <2>2 DEF WroteLogs, Rank, KindOf
  <2> QED
    BY <2>1, <2>2
<1>8. Counted'
  <2>1. Len(written) <= Len(written')
    BY <1>2, <1>6
  <2> QED
    BY <1>2, <1>6, <2>1 DEF Counted, Oldest, Ledger, TypeOK
<1>9. FlushedIt'
  <2> SUFFICES ASSUME ~flush_requested', NEW i \in 1 .. k + 1,
                      KindOf(popped[i]) \in {"flush", "terminate"}
               PROVE  flushed >= Rank(popped, i)
    BY <1>2, <1>3 DEF FlushedIt, Rank, KindOf
  <2>1. ~flush_requested /\ i \in 1 .. k
    BY <1>2, <1>3
  <2> QED
    BY <1>2, <1>3, <2>1 DEF Ledger, FlushedIt
<1>10. Told'
  <2>1. terminate_requested => \E i \in 1 .. k : KindOf(popped[i]) = "terminate"
    BY <1>3 DEF Ledger, Told
  <2>2. k + 1 \in 1 .. k + 1 /\ \A i \in 1 .. k : i \in 1 .. k + 1
    BY <1>1
  <2>3. terminate_requested' => \E i \in 1 .. k + 1 : KindOf(popped[i]) = "terminate"
    BY <1>2, <2>1, <2>2
  <2> QED
    BY <1>2, <1>3, <2>3 DEF Told, KindOf
<1> QED
  BY <1>2, <1>3, <1>7, <1>8, <1>9, <1>10 DEF Ledger, InHand, Wrote

LEMMA TakeLedger == ASSUME IInv, Ledger, Take PROVE Ledger'
<1>1. PICK k \in Nat : Len(popped) = k
  BY DEF IInv, TypeOK
<1>2. PICK m \in Slot : m = cells[Index(dequeue_pos - 1)].data
  <2>1. dequeue_pos - 1 \in Nat
    BY DEF Take, Oldest, IInv, Ring, Window
  <2> QED
    BY <2>1, IndexInRange DEF IInv, TypeOK
<1>3. /\ worker = "take" /\ worker' = "work" /\ popped' = Append(popped, m) /\ hand' = m
      /\ UNCHANGED <<dequeue_pos, flush_requested, terminate_requested, written, flushed>>
  BY <1>2 DEF Take
<1>4. /\ Len(popped') = k + 1 /\ popped'[k + 1] = m /\ popped' # <<>>
      /\ \A i \in 1 .. k : popped'[i] = popped[i]
  <2>1. popped \in Seq(Slot)
    BY DEF IInv, TypeOK
  <2>2. Append(popped, m) \in Seq(Slot) /\ Len(Append(popped, m)) = k + 1
    BY <1>1, <2>1, AppendProperties
  <2>3. Append(popped, m)[k + 1] = m /\ \A i \in 1 .. k : Append(popped, m)[i] = popped[i]
    BY <1>1, <2>1, AppendProperties
  <2>4. Append(popped, m) # <<>>
    BY <2>2
  <2> QED
    BY <1>3, <2>2, <2>3, <2>4
<1>5. Done = k /\ Done' = k
  BY <1>1, <1>3, <1>4 DEF Done
<1>6. Counted' /\ InHand'
  BY <1>1, <1>3, <1>4 DEF Ledger, Counted, InHand, Oldest, IInv, TypeOK
<1>7. Wrote'
  BY <1>3, <1>4, <1>5, StillWrote DEF Ledger, Wrote, WroteLogs
<1>8. FlushedIt' /\ Told'
  BY <1>3, <1>4, <1>5, StillWrote DEF Ledger, FlushedIt, Told, KindOf
<1> QED
  BY <1>6, <1>7, <1>8 DEF Ledger

(* An empty queue: what is written is flushed, or nobody has asked for it. *)
LEMMA EmptyLedger == ASSUME TypeOK, Ledger, Empty PROVE Ledger'
<1>1. PICK k \in Nat : Len(popped) = k
  BY DEF TypeOK
<1>2. /\ worker = "idle" /\ worker' \in {"ended", "pop"} /\ (worker' = "ended" => terminate_requested)
      /\ UNCHANGED <<dequeue_pos, popped, written, terminate_requested>>
      /\ flush_requested' = FALSE
      /\ flushed' = Len(written) \/ (~flush_requested /\ flushed' = flushed)
  BY DEF Empty, queue, TypeOK
<1>3. Done = k /\ Done' = k
  BY <1>1, <1>2 DEF Done
<1>4. Counted' /\ InHand' /\ Told'
  BY <1>2, <1>3 DEF Ledger, Counted, InHand, Told, Oldest, KindOf, TypeOK
<1>5. WroteLogs(k)
  BY <1>2, <1>3 DEF Ledger, Wrote
<1>6. Wrote'
  BY <1>2, <1>3, <1>5 DEF Wrote, WroteLogs, Rank, KindOf
<1>7. FlushedIt'
  <2> SUFFICES ASSUME NEW i \in 1 .. k, KindOf(popped[i]) \in {"flush", "terminate"}
               PROVE  flushed' >= Rank(popped, i)
    BY <1>2, <1>3 DEF FlushedIt, Rank, KindOf
  <2>1. CASE flushed' = Len(written)
    <3>1. Rank(popped, i) <= Rank(popped, k) /\ Len(written) = Rank(popped, k)
      BY <1>5, RankGrows DEF WroteLogs
    <3>2. Rank(popped, i) \in Nat /\ Rank(popped, k) \in Nat
      BY RankTyped
    <3> QED
      BY <2>1, <3>1, <3>2
  <2>2. CASE ~flush_requested /\ flushed' = flushed
    BY <1>2, <1>3, <2>2 DEF Ledger, FlushedIt
  <2> QED
    BY <1>2, <2>1, <2>2
<1> QED
  BY <1>4, <1>6, <1>7 DEF Ledger

LEMMA WorkerLedger ==
  ASSUME IInv, Ledger, Join \/ WorkerStep \/ SinkThrows \/ UNCHANGED vars
  PROVE  Ledger'
<1>1. CASE Join \/ UNCHANGED vars
  <2>1. UNCHANGED <<thread, output, dequeue_pos>>
    BY <1>1 DEF Join, vars, queue
  <2> QED
    BY <2>1, SameLedger
<1>2. CASE Dequeue
  <2>1. /\ worker = "pop" /\ UNCHANGED <<popped, written, flushed, hand>>
        /\ UNCHANGED <<flush_requested, terminate_requested>>
        /\ \/ worker' = "take" /\ dequeue_pos' = dequeue_pos + 1
           \/ worker' = "idle" /\ dequeue_pos' = dequeue_pos
    BY <1>2 DEF Dequeue, output
  <2>2. Oldest' = Oldest
    <3>1. dequeue_pos \in Nat
      BY DEF IInv, TypeOK
    <3> QED BY <2>1, <3>1 DEF Oldest
  <2>3. Done' = Done
    BY <2>1 DEF Done
  <2>4. Counted' /\ InHand'
    BY <2>1, <2>2 DEF Ledger, Counted, InHand
  <2>5. Wrote'
    BY <2>1, <2>3 DEF Ledger, Wrote, WroteLogs
  <2>6. FlushedIt'
    BY <2>1, <2>3 DEF Ledger, FlushedIt
  <2>7. Told'
    BY <2>1, <2>3 DEF Ledger, Told
  <2> QED
    BY <2>4, <2>5, <2>6, <2>7 DEF Ledger
<1>3. CASE Take
  BY <1>3, TakeLedger
<1>4. CASE Handle
  BY <1>4, HandleLedger DEF IInv
<1>5. CASE Empty
  BY <1>5, EmptyLedger DEF IInv
<1>6. CASE SinkThrows
  <2>1. /\ worker # "take" /\ worker' = "dead"
        /\ UNCHANGED <<dequeue_pos, flush_requested, terminate_requested, written, flushed, popped>>
    BY <1>6 DEF SinkThrows, queue
  <2>2. Oldest' = Oldest /\ \A i \in 1 .. Done : i \in 1 .. Done'
    BY <2>1 DEF Oldest, Done, IInv, TypeOK
  <2> QED
    BY <2>1, <2>2 DEF Ledger, Counted, InHand, Wrote, FlushedIt, Told, KindOf
<1> QED
  BY <1>1, <1>2, <1>3, <1>4, <1>5, <1>6 DEF WorkerStep

LEMMA SpecLedger == Spec => [](IInv /\ Fresh /\ Closing /\ Ledger)
<1>1. ASSUME IInv, IInv', Fresh, Closing, Ledger, [Next]_vars PROVE Fresh' /\ Closing' /\ Ledger'
  <2>1. Fresh'
    BY <1>1, NextFresh
  <2>2. ASSUME NEW p \in Caller, CallerStep(p) PROVE Closing' /\ Ledger'
    BY <1>1, <2>2, CallerCloses, CallerLedger
  <2>3. CASE Join \/ WorkerStep \/ SinkThrows \/ UNCHANGED vars
    <3>1. Closing'
      BY <1>1, <2>3, WorkerCloses
    <3>2. Ledger'
      BY <1>1, <2>3, WorkerLedger
    <3> QED
      BY <2>1, <3>1, <3>2
  <2> QED
    BY <1>1, <2>1, <2>2, <2>3 DEF Next
<1> QED
  BY <1>1, InitLedger, InitFresh, SpecIInv, PTL DEF Spec

(* When the worker ends on request nothing was lost: every message that    *)
(* entered the queue, whoever sent it and however the callers interleaved, *)
(* has been handled, each log message was written once and in order, and   *)
(* the sinks were flushed after the last one.                              *)
THEOREM AsyncEndsDrained == Spec => []EndsDrained
<1>1. ASSUME IInv, Fresh, Closing, Ledger, worker = "ended"
      PROVE  /\ enqueue_pos = Len(popped) /\ WroteLogs(Len(popped)) /\ flushed = Len(written)
  <2>1. /\ Done = Len(popped) /\ Taken = popped /\ Len(popped) = dequeue_pos
        /\ Len(popped) \in Nat /\ enqueue_pos \in Nat /\ flushed \in Nat
    BY <1>1 DEF Done, Taken, Ledger, Counted, Oldest, IInv, TypeOK
  <2>2. PICK i \in 1 .. Len(popped) : KindOf(popped[i]) = "terminate"
    BY <1>1, <2>1 DEF Ledger, Told
  <2>3. popped[i].from = Owner
    <3>1. popped[i] \in Message
      BY <1>1, <2>1 DEF Closing, Messages
    <3>2. PICK p \in Caller : popped[i] \in [from : {p}, n : DOMAIN Jobs[p]]
      BY <3>1 DEF Message
    <3>3. p \notin Producer
      BY <2>2, <3>2, JobsAssumption DEF KindOf
    <3> QED
      BY <3>2, <3>3 DEF Caller
  <2>4. i = Len(popped) /\ Queued = <<>>
    BY <1>1, <2>1, <2>3 DEF Closing, OwnerCloses
  <2>5. enqueue_pos = Len(popped)
    BY <1>1, <2>1, <2>4, QueuePushed
  <2>6. WroteLogs(Len(popped))
    BY <1>1, <2>1 DEF Ledger, Wrote
  <2>7. flushed >= Rank(popped, Len(popped)) /\ flushed <= Len(written)
    BY <1>1, <2>1, <2>2, <2>4 DEF Ledger, Told, FlushedIt, Counted
  <2> QED
    BY <2>1, <2>5, <2>6, <2>7 DEF WroteLogs
<1>2. IInv /\ Fresh /\ Closing /\ Ledger => EndsDrained
  BY <1>1 DEF EndsDrained
<1> QED
  BY <1>2, SpecLedger, PTL

(* Once the queue has run empty after a flush message, the sinks have been *)
(* flushed after everything that was queued before that message; a flush   *)
(* is not forgotten over the messages that arrive behind it.               *)
THEOREM AsyncFlushCovers == Spec => []FlushCovers
<1>1. IInv /\ Fresh /\ Closing /\ Ledger => FlushCovers
  <2> SUFFICES ASSUME IInv, Ledger, worker = "pop", ~flush_requested,
                      NEW i \in DOMAIN popped, KindOf(popped[i]) = "flush"
               PROVE  flushed >= Rank(popped, i)
    BY DEF FlushCovers
  <2>1. i \in 1 .. Done
    BY DEF Done, IInv, TypeOK
  <2> QED
    BY <2>1 DEF Ledger, FlushedIt
<1> QED
  BY <1>1, SpecLedger, PTL
=============================================================================
