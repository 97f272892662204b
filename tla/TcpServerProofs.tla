-------------------------- MODULE TcpServerProofs --------------------------
(***************************************************************************)
(* Proofs about the TCP server, for any clients, threads and descriptors:  *)
(* one accept, one operation or handler per connection, and an answer for  *)
(* whoever sends its request whole.                                        *)
(*                                                                         *)
(* Accepting is treated as one more connection, that of NoClient: its      *)
(* operation is async_accept, its handler handle_accept.                   *)
(***************************************************************************)
EXTENDS TcpServer, SequenceTheorems, FiniteSetTheorems, TLAPS

Tasks == {h \in Handler : h.op \in {"accept", "rearm"} <=> h.conn = NoClient}
Waiting == {h \in Tasks : h.op # "rearm"}

Types ==
  /\ phase \in {"new", "listening", "up", "exited"}
  /\ armed \in BOOLEAN /\ held \in Client \cup {NoClient}
  /\ backlog \in Seq(Client)
  /\ sock \in [Client -> {"none", "backlog", "open", "shut", "closed"}]
  /\ op \in [Client -> {"none", "read", "write"}]
  /\ ready \in Seq(Waiting) /\ thread \in [Thread -> Tasks \cup {Idle}]
  /\ cli \in [Client -> {"connect", "write", "status", "done", "failed", "left"}]

On(t, c) == thread[t] # Idle /\ thread[t].conn = c
Due(i, c) == ready[i].conn = c
Outstanding(c) == IF c = NoClient THEN armed ELSE op[c] # "none"

Nothing(c) ==
  /\ ~Outstanding(c)
  /\ \A t \in Thread : ~On(t, c)
  /\ \A i \in DOMAIN ready : ~Due(i, c)

(* At most one operation or handler of each connection.                    *)
AtMostOne(c) ==
  /\ \A t, u \in Thread : On(t, c) /\ On(u, c) => t = u
  /\ \A i, j \in DOMAIN ready : Due(i, c) /\ Due(j, c) => i = j
  /\ \A t \in Thread : On(t, c) => \A i \in DOMAIN ready : ~Due(i, c)
  /\ Outstanding(c) => /\ \A t \in Thread : ~On(t, c)
                       /\ \A i \in DOMAIN ready : ~Due(i, c)

Alone == \A c \in Client \cup {NoClient} : AtMostOne(c)

Accepting == phase = "up" => ~Nothing(NoClient)

Down ==
  phase # "up" => \A c \in Client \cup {NoClient} : Nothing(c)

(* A socket that nobody has accepted is used by nobody.                    *)
Unused ==
  \A c \in Client : sock[c] \in {"none", "backlog"} => held # c /\ Nothing(c)

(* The backlog holds each connection once, and none that was accepted.     *)
Backlogged ==
  \A i \in DOMAIN backlog :
    /\ sock[backlog[i]] = "backlog"
    /\ \A j \in DOMAIN backlog : backlog[i] = backlog[j] => i = j

Unconnected == \A c \in Client : cli[c] = "connect" => sock[c] = "none"

(* Until handle_accept runs, the new connection has not started.           *)
Success(h) == h.op = "accept" /\ h.ok
Unstarted ==
  (\/ \E t \in Thread : thread[t] # Idle /\ Success(thread[t])
   \/ \E i \in DOMAIN ready : Success(ready[i])) => held \in Client /\ Nothing(held)

IInv == Types /\ Alone /\ Accepting /\ Down /\ Unused /\ Backlogged /\ Unconnected /\ Unstarted
-----------------------------------------------------------------------------
(* Sequences and tasks                                                     *)

LEMMA Appended ==
  ASSUME NEW S, NEW s \in Seq(S), NEW h \in S
  PROVE  /\ Append(s, h) \in Seq(S)
         /\ DOMAIN Append(s, h) = DOMAIN s \cup {Len(s) + 1} /\ Len(s) + 1 \notin DOMAIN s
         /\ Append(s, h)[Len(s) + 1] = h
         /\ \A i \in DOMAIN s : Append(s, h)[i] = s[i]
<1>1. Len(s) \in Nat /\ DOMAIN s = 1 .. Len(s)
  OBVIOUS
<1>2. /\ Append(s, h) \in Seq(S) /\ Len(Append(s, h)) = Len(s) + 1
      /\ \A i \in 1 .. Len(s) : Append(s, h)[i] = s[i]
      /\ Append(s, h)[Len(s) + 1] = h
  BY AppendProperties
<1>3. DOMAIN Append(s, h) = 1 .. Len(s) + 1
  BY <1>2
<1> QED BY <1>1, <1>2, <1>3

(* What is left has kept its order and was there before.                   *)
LEMMA Removed ==
  ASSUME NEW S, NEW s \in Seq(S), NEW k \in DOMAIN s
  PROVE  /\ RemoveAt(s, k) \in Seq(S)
         /\ \A i \in DOMAIN s \ {k} : \E j \in DOMAIN RemoveAt(s, k) : RemoveAt(s, k)[j] = s[i]
         /\ \A j \in DOMAIN RemoveAt(s, k) :
              \/ j \in DOMAIN s \ {k} /\ j < k /\ RemoveAt(s, k)[j] = s[j]
              \/ j + 1 \in DOMAIN s \ {k} /\ j >= k /\ j \in Nat /\ RemoveAt(s, k)[j] = s[j + 1]
<1> DEFINE a == SubSeq(s, 1, k - 1)
           b == SubSeq(s, k + 1, Len(s))
<1>1. Len(s) \in Nat /\ DOMAIN s = 1 .. Len(s) /\ k \in 1 .. Len(s)
  OBVIOUS
<1>2. a \in Seq(S) /\ Len(a) = k - 1 /\ \A i \in 1 .. k - 1 : a[i] = s[i]
  <2>1. \A i \in 1 .. k - 1 : s[i] \in S
    BY <1>1
  <2>2. k - 1 \in Int /\ 1 \in Int /\ (k - 1) - 1 + 1 = k - 1
    BY <1>1
  <2>3. /\ a \in Seq(S) /\ Len(a) = IF 1 <= k - 1 THEN (k - 1) - 1 + 1 ELSE 0
        /\ \A i \in 1 .. (k - 1) - 1 + 1 : a[i] = s[1 + i - 1]
    BY <2>1, <2>2, SubSeqProperties
  <2>4. \A i \in 1 .. k - 1 : 1 + i - 1 = i
    BY <1>1
  <2> QED BY <1>1, <2>2, <2>3, <2>4
<1>3. /\ b \in Seq(S) /\ Len(b) = Len(s) - k
      /\ \A i \in 1 .. Len(s) - k : b[i] = s[k + i]
  <2>1. \A i \in k + 1 .. Len(s) : s[i] \in S
    BY <1>1
  <2>2. k + 1 \in Int /\ Len(s) \in Int /\ Len(s) - (k + 1) + 1 = Len(s) - k
    BY <1>1
  <2>3. /\ b \in Seq(S) /\ Len(b) = IF k + 1 <= Len(s) THEN Len(s) - (k + 1) + 1 ELSE 0
        /\ \A i \in 1 .. Len(s) - (k + 1) + 1 : b[i] = s[k + 1 + i - 1]
    BY <2>1, <2>2, SubSeqProperties
  <2>4. \A i \in 1 .. Len(s) - k : k + 1 + i - 1 = k + i
    BY <1>1
  <2> QED BY <1>1, <2>2, <2>3, <2>4
<1> HIDE DEF a, b
<1>4. /\ a \o b \in Seq(S) /\ Len(a \o b) = Len(s) - 1
      /\ \A j \in 1 .. Len(s) - 1 : (a \o b)[j] = IF j < k THEN s[j] ELSE s[j + 1]
  <2>1. /\ a \o b \in Seq(S) /\ Len(a \o b) = Len(a) + Len(b)
        /\ \A j \in 1 .. Len(a) + Len(b) : (a \o b)[j] = IF j <= Len(a) THEN a[j] ELSE b[j - Len(a)]
    BY <1>2, <1>3, ConcatProperties
  <2>2. Len(a) + Len(b) = Len(s) - 1
    BY <1>1, <1>2, <1>3
  <2> SUFFICES ASSUME NEW j \in 1 .. Len(s) - 1
               PROVE  (a \o b)[j] = IF j < k THEN s[j] ELSE s[j + 1]
    BY <2>1, <2>2
  <2>3. CASE j < k
    <3>1. j <= Len(a) /\ j \in 1 .. k - 1
      BY <1>1, <1>2, <2>3
    <3> QED BY <1>2, <2>1, <2>2, <2>3, <3>1
  <2>4. CASE ~(j < k)
    <3>1. ~(j <= Len(a)) /\ j - Len(a) \in 1 .. Len(s) - k /\ k + (j - Len(a)) = j + 1
      BY <1>1, <1>2, <2>4
    <3>2. (a \o b)[j] = b[j - Len(a)]
      BY <2>1, <2>2, <3>1
    <3> QED BY <1>3, <2>4, <3>1, <3>2
  <2> QED BY <2>3, <2>4
<1>5. RemoveAt(s, k) = a \o b
  BY DEF RemoveAt, a, b
<1>6. DOMAIN RemoveAt(s, k) = 1 .. Len(s) - 1
  <2>1. \A q \in Seq(S) : DOMAIN q = 1 .. Len(q)
    OBVIOUS
  <2>2. DOMAIN (a \o b) = 1 .. Len(a \o b)
    BY <1>4, <2>1
  <2> QED BY <1>4, <1>5, <2>2
<1>7. \A i \in DOMAIN s \ {k} : \E j \in DOMAIN RemoveAt(s, k) : RemoveAt(s, k)[j] = s[i]
  <2> SUFFICES ASSUME NEW i \in DOMAIN s \ {k}
               PROVE  \E j \in 1 .. Len(s) - 1 : (IF j < k THEN s[j] ELSE s[j + 1]) = s[i]
    BY <1>4, <1>5, <1>6
  <2>1. CASE i < k
    <3>1. i \in 1 .. Len(s) - 1
      BY <1>1, <2>1
    <3> QED BY <2>1, <3>1
  <2>2. CASE ~(i < k)
    <3>1. i - 1 \in 1 .. Len(s) - 1 /\ ~(i - 1 < k) /\ (i - 1) + 1 = i
      BY <1>1, <2>2
    <3> QED BY <3>1
  <2> QED BY <2>1, <2>2
<1>8. \A j \in 1 .. Len(s) - 1 :
        \/ j \in DOMAIN s \ {k} /\ j < k /\ RemoveAt(s, k)[j] = s[j]
        \/ j + 1 \in DOMAIN s \ {k} /\ j >= k /\ j \in Nat /\ RemoveAt(s, k)[j] = s[j + 1]
  BY <1>1, <1>4, <1>5
<1> QED BY <1>4, <1>5, <1>6, <1>7, <1>8

LEMMA Tasked == \A h \in Tasks : h # Idle /\ h \in Handler /\ h.conn \in Client \cup {NoClient}
BY IdleAssumption DEF Tasks, Handler

LEMMA Elements ==
  ASSUME Types
  PROVE  /\ \A t \in Thread : thread[t] # Idle => thread[t] \in Tasks
         /\ \A i \in DOMAIN ready : ready[i] \in Waiting /\ ready[i] \in Tasks
BY DEF Types, Waiting

-----------------------------------------------------------------------------
(* Where the operations and handlers of a connection are                   *)

(* An operation completes: its handler is queued in its place.             *)
LEMMA AppendStep ==
  ASSUME Types, Alone, NEW h \in Waiting, ready' = Append(ready, h), thread' = thread,
         Outstanding(h.conn), ~Outstanding(h.conn)',
         \A c \in Client \cup {NoClient} : c # h.conn => (Outstanding(c)' <=> Outstanding(c))
  PROVE  Alone' /\ \A c \in Client \cup {NoClient} : Nothing(c)' <=> Nothing(c)
<1>0. PICK n : n = Len(ready) + 1
  OBVIOUS
<1>1. /\ DOMAIN ready' = DOMAIN ready \cup {n} /\ n \notin DOMAIN ready /\ ready'[n] = h
      /\ \A i \in DOMAIN ready : ready'[i] = ready[i]
  BY <1>0, Appended DEF Types
<1> SUFFICES ASSUME NEW c \in Client \cup {NoClient}
             PROVE  AtMostOne(c)' /\ (Nothing(c)' <=> Nothing(c))
  BY DEF Alone
<1>2. AtMostOne(c)
  BY DEF Alone
<1>3. \A t \in Thread : On(t, c)' <=> On(t, c)
  BY DEF On
<1>4. \A i \in DOMAIN ready : Due(i, c)' <=> Due(i, c)
  BY <1>1 DEF Due
<1>5. Due(n, c)' <=> h.conn = c
  BY <1>1 DEF Due
<1>6. CASE h.conn = c
  BY <1>1, <1>2, <1>3, <1>4, <1>5, <1>6 DEF AtMostOne, Nothing
<1>7. CASE h.conn # c
  BY <1>1, <1>2, <1>3, <1>4, <1>5, <1>7 DEF AtMostOne, Nothing
<1> QED BY <1>6, <1>7

(* A thread takes a handler from the queue.                                *)
LEMMA PickStep ==
  ASSUME Types, Alone, NEW t \in Thread, Pick(t)
  PROVE  /\ Alone' /\ \A c \in Client \cup {NoClient} : Nothing(c)' <=> Nothing(c)
         /\ ready' \in Seq(Waiting) /\ thread' \in [Thread -> Tasks \cup {Idle}]
         /\ \A i \in DOMAIN ready' : \E j \in DOMAIN ready : ready'[i] = ready[j]
         /\ \A u \in Thread : thread'[u] # Idle =>
              thread'[u] = thread[u] \/ \E j \in DOMAIN ready : thread'[u] = ready[j]
<1>1. PICK k \in DOMAIN ready : ready' = RemoveAt(ready, k) /\ thread' = [thread EXCEPT ![t] = ready[k]]
  BY DEF Pick
<1>2. /\ thread[t] = Idle /\ UNCHANGED <<armed, op>>
      /\ thread'[t] = ready[k] /\ \A u \in Thread \ {t} : thread'[u] = thread[u]
      /\ ready[k] \in Tasks /\ ready[k] # Idle
  BY <1>1, Elements, Tasked DEF Pick, Types
<1>3. /\ ready' \in Seq(Waiting)
      /\ \A i \in DOMAIN ready \ {k} : \E j \in DOMAIN ready' : ready'[j] = ready[i]
      /\ \A j \in DOMAIN ready' :
           \/ j \in DOMAIN ready \ {k} /\ j < k /\ ready'[j] = ready[j]
           \/ j + 1 \in DOMAIN ready \ {k} /\ j >= k /\ j \in Nat /\ ready'[j] = ready[j + 1]
  BY <1>1, Removed DEF Types
<1>4. thread' \in [Thread -> Tasks \cup {Idle}]
  BY <1>1, <1>2 DEF Types
<1>5. ASSUME NEW c \in Client \cup {NoClient}
      PROVE  AtMostOne(c)' /\ (Nothing(c)' <=> Nothing(c))
  <2>1. AtMostOne(c)
    BY DEF Alone
  <2>2. Outstanding(c)' <=> Outstanding(c)
    BY <1>2 DEF Outstanding
  <2>3. \A u \in Thread \ {t} : On(u, c)' <=> On(u, c)
    BY <1>2 DEF On
  <2>4. ~On(t, c) /\ (On(t, c)' <=> Due(k, c))
    BY <1>2 DEF On, Due
  <2>5. \A j \in DOMAIN ready' : Due(j, c)' => \E i \in DOMAIN ready \ {k} : Due(i, c)
    BY <1>3 DEF Due
  <2>6. \A i \in DOMAIN ready \ {k} : Due(i, c) => \E j \in DOMAIN ready' : Due(j, c)'
    BY <1>3 DEF Due
  <2>7. \A i, j \in DOMAIN ready' : Due(i, c)' /\ Due(j, c)' => i = j
    <3> SUFFICES ASSUME NEW i \in DOMAIN ready', NEW j \in DOMAIN ready', ready'[i].conn = c, ready'[j].conn = c
                 PROVE  i = j
      BY DEF Due
    <3>0. ASSUME NEW m \in DOMAIN ready'
          PROVE  \E x \in DOMAIN ready \ {k} :
                   ready'[m] = ready[x] /\ ((x = m /\ m < k) \/ (x = m + 1 /\ m >= k /\ m \in Nat))
      <4>1. CASE m \in DOMAIN ready \ {k} /\ m < k /\ ready'[m] = ready[m]
        BY <4>1
      <4>2. CASE m + 1 \in DOMAIN ready \ {k} /\ m >= k /\ m \in Nat /\ ready'[m] = ready[m + 1]
        BY <4>2
      <4> QED BY <1>3, <4>1, <4>2
    <3>1. PICK x \in DOMAIN ready \ {k} :
            ready'[i] = ready[x] /\ ((x = i /\ i < k) \/ (x = i + 1 /\ i >= k /\ i \in Nat))
      BY <3>0
    <3>2. PICK y \in DOMAIN ready \ {k} :
            ready'[j] = ready[y] /\ ((y = j /\ j < k) \/ (y = j + 1 /\ j >= k /\ j \in Nat))
      BY <3>0
    <3>3. x = y
      BY <2>1, <3>1, <3>2 DEF AtMostOne, Due
    <3>4. DOMAIN ready = 1 .. Len(ready) /\ k \in Nat
      BY DEF Types
    <3> QED BY <3>1, <3>2, <3>3, <3>4
  <2>8. CASE Due(k, c)
    <3>1. /\ \A j \in DOMAIN ready' : ~Due(j, c)'
          /\ \A u \in Thread \ {t} : ~On(u, c)'
          /\ ~Outstanding(c)'
      BY <2>1, <2>2, <2>3, <2>5, <2>8 DEF AtMostOne
    <3> QED BY <2>4, <2>8, <3>1 DEF AtMostOne, Nothing
  <2>9. CASE ~Due(k, c)
    <3>1. \A u \in Thread : On(u, c)' <=> On(u, c)
      BY <2>3, <2>4, <2>9
    <3>2. (\A j \in DOMAIN ready' : ~Due(j, c)') <=> (\A i \in DOMAIN ready : ~Due(i, c))
      BY <2>5, <2>6, <2>9
    <3> QED BY <2>1, <2>2, <2>7, <3>1, <3>2 DEF AtMostOne, Nothing
  <2> QED BY <2>8, <2>9
<1> QED BY <1>2, <1>3, <1>4, <1>5 DEF Alone

(* A handler ends, and may have started the next operation.                *)
LEMMA EndStep ==
  ASSUME Types, Alone, NEW t \in Thread, NEW d \in Client \cup {NoClient}, On(t, d),
         thread' = [thread EXCEPT ![t] = Idle], ready' = ready,
         \A c \in Client \cup {NoClient} : c # d => (Outstanding(c)' <=> Outstanding(c))
  PROVE  /\ Alone' /\ thread' \in [Thread -> Tasks \cup {Idle}]
         /\ \A c \in Client \cup {NoClient} : c # d => (Nothing(c)' <=> Nothing(c))
         /\ Nothing(d)' <=> ~Outstanding(d)'
<1>0. thread[t] # Idle /\ d = thread[t].conn
  BY DEF On
<1>1. thread'[t] = Idle /\ \A u \in Thread \ {t} : thread'[u] = thread[u]
  BY DEF Types
<1>2. ASSUME NEW c \in Client \cup {NoClient}
      PROVE  /\ AtMostOne(c)' /\ (c # d => (Nothing(c)' <=> Nothing(c)))
             /\ c = d => (Nothing(c)' <=> ~Outstanding(c)')
  <2>1. AtMostOne(c)
    BY DEF Alone
  <2>2. \A u \in Thread \ {t} : On(u, c)' <=> On(u, c)
    BY <1>1 DEF On
  <2>3. ~On(t, c)' /\ (On(t, c) <=> c = d)
    BY <1>0, <1>1 DEF On
  <2>4. \A i \in DOMAIN ready' : i \in DOMAIN ready /\ (Due(i, c)' <=> Due(i, c))
    BY DEF Due
  <2>5. CASE c = d
    BY <2>1, <2>2, <2>3, <2>4, <2>5 DEF AtMostOne, Nothing
  <2>6. CASE c # d
    <3>1. Outstanding(c)' <=> Outstanding(c)
      BY <1>0, <2>6
    <3>2. \A u \in Thread : On(u, c)' <=> On(u, c)
      BY <2>2, <2>3, <2>6
    <3> QED BY <2>1, <2>4, <2>6, <3>1, <3>2 DEF AtMostOne, Nothing
  <2> QED BY <2>5, <2>6
<1>3. Alone'
  BY <1>2 DEF Alone
<1>4. thread' \in [Thread -> Tasks \cup {Idle}]
  BY DEF Types
<1> QED BY <1>0, <1>2, <1>3, <1>4

(* A step that moves no operation and no handler.                          *)
LEMMA StillStep ==
  ASSUME Alone, UNCHANGED <<armed, op, ready, thread>>
  PROVE  Alone' /\ \A c \in Client \cup {NoClient} : Nothing(c)' <=> Nothing(c)
BY DEF Alone, AtMostOne, Nothing, Outstanding, On, Due
-----------------------------------------------------------------------------
(* The sockets                                                             *)

LEMMA Sockets ==
  ASSUME Types, Unused, Backlogged, Unconnected, UNCHANGED <<backlog, cli>>,
         held' \in {held, NoClient},
         \A d \in Client : \/ sock'[d] = sock[d]
                           \/ sock[d] \notin {"none", "backlog"} /\ sock'[d] \notin {"none", "backlog"},
         \A c \in Client : Nothing(c) /\ held # c => Nothing(c)'
  PROVE  Unused' /\ Backlogged' /\ Unconnected'
<1>1. \A c \in Client : c # NoClient
  BY ServerAssumption
<1>2. Unused'
  BY <1>1 DEF Unused
<1>3. Backlogged'
  <2>1. \A i \in DOMAIN backlog : backlog[i] \in Client
    BY DEF Types
  <2> QED BY <2>1 DEF Backlogged
<1>4. Unconnected'
  BY DEF Unconnected
<1> QED BY <1>2, <1>3, <1>4

LEMMA Closing ==
  ASSUME NEW s \in [Client -> {"none", "backlog", "open", "shut", "closed"}], Release(s)
  PROVE  /\ sock' \in [Client -> {"none", "backlog", "open", "shut", "closed"}]
         /\ \A d \in Client : sock'[d] = s[d] \/ (s[d] \in {"open", "shut"} /\ sock'[d] = "closed")
BY DEF Release

(* A handler that succeeded in accepting belongs to the chain of NoClient. *)
LEMMA SuccessIsAccept ==
  ASSUME NEW h \in Tasks, Success(h) PROVE h.conn = NoClient
BY DEF Success, Tasks
-----------------------------------------------------------------------------
(* The steps                                                               *)

LEMMA InitIInv == Init => IInv
<1> SUFFICES ASSUME Init PROVE IInv
  OBVIOUS
<1>1. Types
  <2>1. backlog \in Seq(Client) /\ ready \in Seq(Waiting)
    BY DEF Init
  <2>2. thread \in [Thread -> Tasks \cup {Idle}]
    BY DEF Init
  <2> QED BY <2>1, <2>2 DEF Init, Types
<1>2. \A c \in Client \cup {NoClient} : Nothing(c)
  BY DEF Init, Nothing, Outstanding, On, Due
<1>3. Alone
  BY <1>2 DEF Alone, AtMostOne, Nothing
<1>4. Accepting /\ Backlogged /\ Unconnected /\ Unstarted
  BY DEF Init, Accepting, Backlogged, Unconnected, Unstarted
<1>5. Down
  BY <1>2 DEF Down
<1>6. Unused
  BY <1>2, ServerAssumption DEF Init, Unused
<1> QED BY <1>1, <1>3, <1>4, <1>5, <1>6 DEF IInv

LEMMA ConstructIInv == ASSUME IInv, Construct PROVE IInv'
<1>1. UNCHANGED <<armed, held, sock, op, ready, thread, backlog, cli>> /\ phase # "up" /\ phase' # "up"
      /\ phase' \in {"listening", "exited"}
  BY DEF Construct, clients
<1>2. Alone' /\ \A c \in Client \cup {NoClient} : Nothing(c)' <=> Nothing(c)
  BY <1>1, StillStep DEF IInv
<1>3. Types'
  BY <1>1 DEF IInv, Types
<1>4. Unused' /\ Backlogged' /\ Unconnected'
  BY <1>1, <1>2, Sockets DEF IInv
<1>5. Accepting' /\ Down'
  BY <1>1, <1>2 DEF IInv, Accepting, Down
<1>6. Unstarted'
  BY <1>1, <1>2 DEF IInv, Unstarted
<1> QED BY <1>2, <1>3, <1>4, <1>5, <1>6 DEF IInv

LEMMA RunServicesIInv == ASSUME IInv, RunServices PROVE IInv'
<1>1. /\ UNCHANGED <<held, sock, op, ready, thread, backlog, cli>>
      /\ phase # "up" /\ phase' = "up" /\ armed' = TRUE
  BY DEF RunServices, clients
<1>2. \A c \in Client \cup {NoClient} : Nothing(c)
  BY <1>1 DEF IInv, Down
<1>3. Types'
  BY <1>1 DEF IInv, Types
<1>4. \A c \in Client : Nothing(c)'
  BY <1>1, <1>2, ServerAssumption DEF Nothing, Outstanding, On, Due
<1>5. Outstanding(NoClient)'
  BY <1>1 DEF Outstanding
<1>6. /\ \A t \in Thread : ~On(t, NoClient)'
      /\ \A i \in DOMAIN ready' : ~Due(i, NoClient)'
  BY <1>1, <1>2 DEF Nothing, On, Due
<1>7. Alone'
  BY <1>4, <1>5, <1>6 DEF Alone, AtMostOne, Nothing
<1>8. Unused' /\ Backlogged' /\ Unconnected'
  BY <1>1, <1>4, Sockets DEF IInv
<1>9. Accepting' /\ Down'
  BY <1>1, <1>5 DEF Accepting, Down, Nothing
<1>10. Unstarted'
  <2>1. Types
    BY DEF IInv
  <2>2. \A t \in Thread : thread[t] # Idle => ~Success(thread[t])
    BY <1>2, <2>1, Elements, SuccessIsAccept DEF Nothing, On
  <2>3. \A i \in DOMAIN ready : ~Success(ready[i])
    BY <1>2, <2>1, Elements, SuccessIsAccept DEF Nothing, Due
  <2> QED BY <1>1, <2>2, <2>3 DEF Unstarted
<1> QED BY <1>3, <1>7, <1>8, <1>9, <1>10 DEF IInv

LEMMA ExitIInv == ASSUME IInv, Exit PROVE IInv'
<1>1. /\ phase' = "exited" /\ armed' = FALSE /\ held' = NoClient /\ backlog' = <<>>
      /\ sock' = [c \in Client |-> IF sock[c] = "none" THEN "none" ELSE "closed"]
      /\ op' = [c \in Client |-> "none"]
      /\ ready' = <<>> /\ thread' = [t \in Thread |-> Idle] /\ cli' = cli
  BY DEF Exit, clients
<1>2. Types'
  <2>1. backlog' \in Seq(Client) /\ ready' \in Seq(Waiting)
    BY <1>1
  <2>2. thread' \in [Thread -> Tasks \cup {Idle}]
    BY <1>1
  <2> QED BY <1>1, <2>1, <2>2 DEF IInv, Types
<1>3. \A c \in Client \cup {NoClient} : Nothing(c)'
  BY <1>1 DEF Nothing, Outstanding, On, Due
<1>4. Alone'
  BY <1>3 DEF Alone, AtMostOne, Nothing
<1>5. Accepting' /\ Down' /\ Backlogged' /\ Unstarted'
  BY <1>1, <1>3 DEF Accepting, Down, Backlogged, Unstarted
<1>6. Unused'
  BY <1>1, <1>3, ServerAssumption DEF Unused
<1>7. Unconnected'
  BY <1>1 DEF IInv, Types, Unconnected
<1> QED BY <1>2, <1>4, <1>5, <1>6, <1>7 DEF IInv

(* The socket that is accepted was in the backlog, so nothing uses it yet. *)
LEMMA CompleteAcceptIInv == ASSUME IInv, CompleteAccept PROVE IInv'
<1>0. PICK ok \in BOOLEAN : ready' = Append(ready, Task("accept", NoClient, ok))
               /\ IF ok THEN /\ held' = Head(backlog) /\ backlog' = Tail(backlog)
                            /\ sock' = [sock EXCEPT ![Head(backlog)] = "open"]
                        ELSE UNCHANGED <<held, backlog, sock>>
  BY DEF CompleteAccept
<1> DEFINE h == Task("accept", NoClient, ok)
<1>1. /\ UNCHANGED <<phase, op, thread, cli>> /\ armed /\ armed' = FALSE /\ backlog # <<>>
  BY DEF CompleteAccept, clients
<1>2. h \in Waiting /\ h.conn = NoClient /\ h.op = "accept" /\ h.ok = ok
  BY DEF Task, Waiting, Tasks, Handler
<1> HIDE DEF h
<1>3. /\ Outstanding(NoClient) /\ ~Outstanding(NoClient)'
      /\ \A c \in Client \cup {NoClient} : c # NoClient => (Outstanding(c)' <=> Outstanding(c))
  BY <1>1 DEF Outstanding
<1>4. ready' = Append(ready, h) /\ thread' = thread /\ Types /\ Alone
  BY <1>0, <1>1 DEF h, IInv
<1>5. Alone' /\ \A c \in Client \cup {NoClient} : Nothing(c)' <=> Nothing(c)
  BY <1>2, <1>3, <1>4, AppendStep
<1>6. /\ ready' \in Seq(Waiting)
      /\ \A i \in DOMAIN ready' : (i \in DOMAIN ready /\ ready'[i] = ready[i]) \/ ready'[i] = h
  BY <1>2, <1>4, Appended DEF Types
<1>7. phase = "up"
  BY <1>3 DEF IInv, Down, Nothing
<1>8. Accepting' /\ Down'
  BY <1>1, <1>5, <1>7 DEF IInv, Accepting, Down
<1>9. /\ \A t \in Thread : thread[t] # Idle => ~Success(thread[t])
      /\ \A i \in DOMAIN ready : ~Success(ready[i])
  <2>1. AtMostOne(NoClient)
    BY <1>4 DEF Alone
  <2>2. /\ \A t \in Thread : ~On(t, NoClient)
        /\ \A i \in DOMAIN ready : ~Due(i, NoClient)
    BY <1>3, <2>1 DEF AtMostOne
  <2> QED BY <1>4, <2>2, Elements, SuccessIsAccept DEF On, Due
<1>10. CASE ~ok
  <2>1. UNCHANGED <<held, backlog, sock>>
    BY <1>0, <1>10
  <2>2. Types'
    BY <1>1, <1>4, <1>6, <2>1 DEF Types
  <2>3. Unused' /\ Backlogged' /\ Unconnected'
    BY <1>1, <1>4, <1>5, <2>1, Sockets DEF IInv
  <2>4. Unstarted'
    BY <1>1, <1>2, <1>6, <1>9, <1>10 DEF Unstarted, Success
  <2> QED BY <1>5, <1>8, <2>2, <2>3, <2>4 DEF IInv
<1>11. CASE ok
  <2>0. PICK b \in Client : b = Head(backlog) /\ b = backlog[1]
    BY <1>1, <1>4, HeadTailProperties DEF Types
  <2>1. held' = b /\ backlog' = Tail(backlog) /\ sock' = [sock EXCEPT ![b] = "open"]
    BY <1>0, <1>11, <2>0
  <2>2. /\ backlog' \in Seq(Client) /\ 1 \in DOMAIN backlog
        /\ \A i \in DOMAIN backlog' : i + 1 \in DOMAIN backlog /\ i + 1 # 1 /\ backlog'[i] = backlog[i + 1]
    <3>1. /\ Tail(backlog) \in Seq(Client) /\ Len(Tail(backlog)) = Len(backlog) - 1
          /\ \A i \in 1 .. Len(Tail(backlog)) : Tail(backlog)[i] = backlog[i + 1]
      BY <1>1, <1>4, HeadTailProperties DEF Types
    <3>2. backlog \in Seq(Client) /\ Len(backlog) \in Nat /\ Len(backlog) > 0
      BY <1>1, <1>4 DEF Types
    <3>3. DOMAIN backlog = 1 .. Len(backlog) /\ DOMAIN Tail(backlog) = 1 .. Len(backlog) - 1
      BY <3>1, <3>2
    <3> QED BY <2>1, <3>1, <3>2, <3>3
  <2>3. /\ sock[b] = "backlog" /\ Nothing(b) /\ b # NoClient
        /\ \A i \in DOMAIN backlog : i # 1 => backlog[i] # b /\ sock[backlog[i]] = "backlog"
    BY <2>0, <2>2, ServerAssumption DEF IInv, Backlogged, Unused
  <2>4. sock'[b] = "open" /\ \A c \in Client : c # b => sock'[c] = sock[c]
    BY <1>4, <2>1 DEF Types
  <2>5. Types'
    BY <1>1, <1>4, <1>6, <2>1, <2>2 DEF Types
  <2>6. Unused'
    BY <1>5, <2>1, <2>4 DEF IInv, Unused
  <2>7. Backlogged'
    <3>0. \A i \in DOMAIN backlog' : i \in Nat /\ backlog'[i] \in Client
      BY <2>2
    <3>1. \A i \in DOMAIN backlog' : sock'[backlog'[i]] = "backlog"
      BY <2>2, <2>3, <2>4, <3>0
    <3>2. ASSUME NEW i \in DOMAIN backlog', NEW j \in DOMAIN backlog', backlog'[i] = backlog'[j] PROVE i = j
      <4>1. i + 1 = j + 1
        BY <2>2, <3>2 DEF IInv, Backlogged
      <4> QED BY <3>0, <4>1
    <3> QED BY <3>1, <3>2 DEF Backlogged
  <2>8. Unconnected'
    BY <1>1, <2>3, <2>4 DEF IInv, Unconnected
  <2>9. Unstarted'
    BY <1>5, <2>1, <2>3 DEF Unstarted
  <2> QED BY <1>5, <1>8, <2>5, <2>6, <2>7, <2>8, <2>9 DEF IInv
<1> QED BY <1>10, <1>11

(* A read or a write of a connection completes.                            *)
LEMMA CompleteIInv ==
  ASSUME IInv, NEW c \in Client, NEW h \in {Task("read", c, TRUE), Task("read", c, FALSE),
                                         Task("write", c, TRUE), Task("write", c, FALSE)},
         op[c] # "none", op' = [op EXCEPT ![c] = "none"], ready' = Append(ready, h),
         UNCHANGED <<phase, armed, held, sock, thread, backlog, cli>>
  PROVE  IInv'
<1>0. c # NoClient /\ Types /\ Alone
  BY ServerAssumption DEF IInv
<1>1. h \in Waiting /\ h.conn = c /\ ~Success(h)
  <2>0. PICK o \in {"read", "write"}, k \in BOOLEAN : h = Task(o, c, k)
    OBVIOUS
  <2>1. h \in Handler /\ h.conn = c /\ h.op \in {"read", "write"}
    BY <2>0 DEF Task, Handler
  <2> QED BY <1>0, <2>1 DEF Waiting, Tasks, Success
<1>2. op'[c] = "none" /\ \A d \in Client : d # c => op'[d] = op[d]
  BY <1>0 DEF Types
<1>3. /\ Outstanding(c) /\ ~Outstanding(c)'
      /\ \A d \in Client \cup {NoClient} : d # c => (Outstanding(d)' <=> Outstanding(d))
  BY <1>0, <1>2 DEF Outstanding
<1>4. Alone' /\ \A d \in Client \cup {NoClient} : Nothing(d)' <=> Nothing(d)
  BY <1>0, <1>1, <1>3, AppendStep
<1>5. /\ ready' \in Seq(Waiting)
      /\ \A i \in DOMAIN ready' : (i \in DOMAIN ready /\ ready'[i] = ready[i]) \/ ready'[i] = h
  BY <1>0, <1>1, Appended DEF Types
<1>6. Types'
  BY <1>0, <1>5 DEF Types
<1>7. Unused' /\ Backlogged' /\ Unconnected'
  BY <1>0, <1>4, Sockets DEF IInv
<1>8. Accepting' /\ Down'
  BY <1>4 DEF IInv, Accepting, Down
<1>9. Unstarted'
  BY <1>1, <1>4, <1>5 DEF IInv, Unstarted
<1> QED BY <1>4, <1>6, <1>7, <1>8, <1>9 DEF IInv

LEMMA PickIInv == ASSUME IInv, NEW t \in Thread, Pick(t) PROVE IInv'
<1>1. UNCHANGED <<phase, armed, held, sock, op, backlog, cli>> /\ Types /\ Alone
  BY DEF Pick, clients, IInv
<1>2. /\ Alone' /\ \A c \in Client \cup {NoClient} : Nothing(c)' <=> Nothing(c)
      /\ ready' \in Seq(Waiting) /\ thread' \in [Thread -> Tasks \cup {Idle}]
      /\ \A i \in DOMAIN ready' : \E j \in DOMAIN ready : ready'[i] = ready[j]
      /\ \A u \in Thread : thread'[u] # Idle =>
           thread'[u] = thread[u] \/ \E j \in DOMAIN ready : thread'[u] = ready[j]
  BY <1>1, PickStep
<1>3. Types'
  BY <1>1, <1>2 DEF Types
<1>4. Unused' /\ Backlogged' /\ Unconnected'
  BY <1>1, <1>2, Sockets DEF IInv
<1>5. Accepting' /\ Down'
  BY <1>1, <1>2 DEF IInv, Accepting, Down
<1>6. Unstarted'
  <2> SUFFICES ASSUME \/ \E u \in Thread : thread'[u] # Idle /\ Success(thread'[u])
                      \/ \E i \in DOMAIN ready' : Success(ready'[i])
               PROVE  held \in Client /\ Nothing(held)
    BY <1>1, <1>2 DEF Unstarted, Success
  <2> QED BY <1>2 DEF IInv, Unstarted
<1> QED BY <1>2, <1>3, <1>4, <1>5, <1>6 DEF IInv

LEMMA HandleAcceptIInv == ASSUME IInv, NEW t \in Thread, HandleAccept(t) PROVE IInv'
<1> DEFINE h == Task("rearm", NoClient, TRUE)
<1>0. /\ UNCHANGED <<phase, armed, held, sock, ready, backlog, cli>>
      /\ thread' = [thread EXCEPT ![t] = h]
      /\ op' = IF thread[t].ok THEN [op EXCEPT ![held] = "read"] ELSE op
      /\ thread[t] # Idle /\ thread[t].op = "accept"
  BY DEF HandleAccept, Runs, clients
<1>1. Types /\ Alone /\ AtMostOne(NoClient)
  BY DEF IInv, Alone
<1>2. h \in Tasks /\ h # Idle /\ h.conn = NoClient /\ ~Success(h)
  <2>1. h \in Handler /\ h.conn = NoClient /\ h.op = "rearm"
    BY DEF Task, Handler
  <2> QED BY <2>1, IdleAssumption DEF Tasks, Success
<1> HIDE DEF h
<1>3. /\ On(t, NoClient)
      /\ thread[t].ok => held \in Client /\ Nothing(held) /\ held # NoClient
  <2>1. thread[t] \in Tasks
    BY <1>0, <1>1, Elements
  <2>2. thread[t].conn = NoClient /\ (thread[t].ok => Success(thread[t]))
    BY <1>0, <2>1 DEF Tasks, Success
  <2> QED BY <1>0, <2>2, ServerAssumption DEF On, IInv, Unstarted
<1>4. thread'[t] = h /\ \A u \in Thread \ {t} : thread'[u] = thread[u]
  BY <1>0, <1>1 DEF Types
<1>5. \A c \in Client \cup {NoClient} :
        /\ \A u \in Thread : On(u, c)' <=> On(u, c)
        /\ \A i \in DOMAIN ready' : i \in DOMAIN ready /\ (Due(i, c)' <=> Due(i, c))
  <2>1. \A c \in Client \cup {NoClient} : On(t, c)' <=> On(t, c)
    BY <1>2, <1>3, <1>4 DEF On
  <2> QED BY <1>0, <1>4, <2>1 DEF On, Due
<1>6. \A c \in Client \cup {NoClient} :
        (Outstanding(c)' <=> Outstanding(c)) \/ (thread[t].ok /\ c = held)
  BY <1>0, <1>1, <1>3 DEF Outstanding, Types
<1>7. ASSUME NEW c \in Client \cup {NoClient}
      PROVE  AtMostOne(c)' /\ ((Nothing(c)' <=> Nothing(c)) \/ (thread[t].ok /\ c = held))
  <2>1. AtMostOne(c)
    BY <1>1 DEF Alone
  <2>2. CASE Outstanding(c)' <=> Outstanding(c)
    BY <1>0, <1>5, <2>1, <2>2 DEF AtMostOne, Nothing
  <2>3. CASE thread[t].ok /\ c = held
    <3>1. Nothing(c)
      BY <1>3, <2>3
    <3> QED BY <1>0, <1>5, <2>1, <2>3, <3>1 DEF AtMostOne, Nothing
  <2> QED BY <1>6, <2>2, <2>3
<1>8. Alone'
  BY <1>7 DEF Alone
<1>9. Types'
  <2>1. thread' \in [Thread -> Tasks \cup {Idle}]
    BY <1>0, <1>1, <1>2 DEF Types
  <2>2. op' \in [Client -> {"none", "read", "write"}]
    BY <1>0, <1>1, <1>3 DEF Types
  <2> QED BY <1>0, <1>1, <2>1, <2>2 DEF Types
<1>10. ~Nothing(NoClient) /\ ~Nothing(NoClient)'
  BY <1>3, <1>5 DEF Nothing
<1>11. Accepting' /\ Down'
  BY <1>0, <1>10 DEF IInv, Accepting, Down
<1>12. Unused' /\ Backlogged' /\ Unconnected'
  BY <1>0, <1>1, <1>7, Sockets DEF IInv
<1>13. Unstarted'
  <2>1. \A u \in Thread \ {t} : ~On(u, NoClient)
    BY <1>1, <1>3 DEF AtMostOne
  <2>2. \A i \in DOMAIN ready : ~Due(i, NoClient)
    BY <1>1, <1>3 DEF AtMostOne
  <2>3. \A u \in Thread \ {t} : thread[u] # Idle => ~Success(thread[u])
    BY <1>1, <2>1, Elements, SuccessIsAccept DEF On
  <2>4. \A i \in DOMAIN ready : ~Success(ready[i])
    BY <1>1, <2>2, Elements, SuccessIsAccept DEF Due
  <2> QED BY <1>0, <1>2, <1>4, <2>3, <2>4 DEF Unstarted
<1> QED BY <1>8, <1>9, <1>11, <1>12, <1>13 DEF IInv

LEMMA StartAcceptIInv == ASSUME IInv, NEW t \in Thread, StartAccept(t) PROVE IInv'
<1>0. /\ UNCHANGED <<phase, op, ready, backlog, cli>> /\ Release(sock)
      /\ thread' = [thread EXCEPT ![t] = Idle] /\ held' = NoClient /\ armed' = TRUE
      /\ thread[t] # Idle /\ thread[t].op = "rearm"
  BY DEF StartAccept, Runs, clients
<1>1. Types /\ Alone /\ On(t, NoClient)
  BY <1>0, Elements DEF IInv, On, Tasks
<1>2. \A c \in Client \cup {NoClient} : c # NoClient => (Outstanding(c)' <=> Outstanding(c))
  BY <1>0 DEF Outstanding
<1>3. Outstanding(NoClient)'
  BY <1>0 DEF Outstanding
<1>4. /\ Alone' /\ thread' \in [Thread -> Tasks \cup {Idle}]
      /\ \A c \in Client \cup {NoClient} : c # NoClient => (Nothing(c)' <=> Nothing(c))
  BY <1>0, <1>1, <1>2, EndStep
<1>5. /\ sock' \in [Client -> {"none", "backlog", "open", "shut", "closed"}]
      /\ \A d \in Client : sock'[d] = sock[d] \/ (sock[d] \in {"open", "shut"} /\ sock'[d] = "closed")
  BY <1>0, <1>1, Closing DEF Types
<1>6. Types'
  BY <1>0, <1>1, <1>4, <1>5 DEF Types
<1>7. Unused' /\ Backlogged' /\ Unconnected'
  BY <1>0, <1>1, <1>4, <1>5, Sockets, ServerAssumption DEF IInv
<1>8. Accepting' /\ Down'
  BY <1>0, <1>1, <1>3 DEF IInv, Accepting, Down, Nothing
<1>9. Unstarted'
  <2>1. AtMostOne(NoClient)
    BY <1>1 DEF Alone
  <2>2. /\ \A u \in Thread \ {t} : ~On(u, NoClient)
        /\ \A i \in DOMAIN ready : ~Due(i, NoClient)
    BY <1>1, <2>1 DEF AtMostOne
  <2>3. \A u \in Thread \ {t} : thread[u] # Idle => ~Success(thread[u])
    BY <1>1, <2>2, Elements, SuccessIsAccept DEF On
  <2>4. \A i \in DOMAIN ready : ~Success(ready[i])
    BY <1>1, <2>2, Elements, SuccessIsAccept DEF Due
  <2>5. thread'[t] = Idle /\ \A u \in Thread \ {t} : thread'[u] = thread[u]
    BY <1>0, <1>1 DEF Types
  <2> QED BY <1>0, <2>3, <2>4, <2>5 DEF Unstarted
<1> QED BY <1>4, <1>6, <1>7, <1>8, <1>9 DEF IInv

(* The handlers of a connection: one operation may follow.                 *)
LEMMA ConnectionIInv ==
  ASSUME IInv, NEW t \in Thread, HandleRead(t) \/ HandleWrite(t) PROVE IInv'
<1>0. /\ UNCHANGED <<phase, armed, held, ready, backlog, cli>>
      /\ thread' = [thread EXCEPT ![t] = Idle]
      /\ thread[t] # Idle /\ thread[t].op \in {"read", "write"}
  BY DEF HandleRead, HandleWrite, Runs, clients
<1>1. Types /\ Alone /\ thread[t] \in Tasks
  BY <1>0, Elements DEF IInv
<1>2. PICK d \in Client : d = thread[t].conn /\ On(t, d) /\ d # NoClient
  <2>1. thread[t].conn \in Client /\ thread[t].conn # NoClient
    BY <1>0, <1>1 DEF Tasks, Handler
  <2> QED BY <1>0, <2>1 DEF On
<1>3. op' \in [Client -> {"none", "read", "write"}] /\ \A c \in Client : c # d => op'[c] = op[c]
  BY <1>1, <1>2 DEF HandleRead, HandleWrite, Types
<1>4. \A c \in Client \cup {NoClient} : c # d => (Outstanding(c)' <=> Outstanding(c))
  BY <1>0, <1>3 DEF Outstanding
<1>5. /\ Alone' /\ thread' \in [Thread -> Tasks \cup {Idle}]
      /\ \A c \in Client \cup {NoClient} : c # d => (Nothing(c)' <=> Nothing(c))
  BY <1>0, <1>1, <1>2, <1>4, EndStep
<1>6. ~Nothing(d) /\ sock[d] \notin {"none", "backlog"}
  BY <1>2 DEF IInv, Unused, Nothing
<1>7. PICK s \in [Client -> {"none", "backlog", "open", "shut", "closed"}] :
        Release(s) /\ \A c \in Client : s[c] = sock[c] \/ (c = d /\ s[c] = "shut")
  <2>1. CASE HandleRead(t)
    BY <1>1, <2>1 DEF HandleRead, Types
  <2>2. CASE HandleWrite(t) /\ ~thread[t].ok
    BY <1>1, <2>2 DEF HandleWrite, Types
  <2>3. CASE HandleWrite(t) /\ thread[t].ok
    <3>1. Release([sock EXCEPT ![d] = "shut"])
      BY <1>2, <2>3 DEF HandleWrite
    <3>2. /\ [sock EXCEPT ![d] = "shut"] \in [Client -> {"none", "backlog", "open", "shut", "closed"}]
          /\ \A c \in Client : [sock EXCEPT ![d] = "shut"][c] = IF c = d THEN "shut" ELSE sock[c]
      BY <1>1 DEF Types
    <3> QED BY <3>1, <3>2
  <2> QED BY <2>1, <2>2, <2>3
<1>8. /\ sock' \in [Client -> {"none", "backlog", "open", "shut", "closed"}]
      /\ \A c \in Client : sock'[c] = s[c] \/ (s[c] \in {"open", "shut"} /\ sock'[c] = "closed")
  BY <1>7, Closing
<1>9. \A c \in Client : \/ sock'[c] = sock[c]
                        \/ sock[c] \notin {"none", "backlog"} /\ sock'[c] \notin {"none", "backlog"}
  BY <1>6, <1>7, <1>8
<1>10. Types'
  BY <1>0, <1>1, <1>3, <1>5, <1>8 DEF Types
<1>11. Unused' /\ Backlogged' /\ Unconnected'
  BY <1>0, <1>1, <1>5, <1>6, <1>9, Sockets DEF IInv
<1>12. Accepting' /\ Down'
  BY <1>0, <1>2, <1>5, <1>6 DEF IInv, Accepting, Down
<1>13. Unstarted'
  <2>1. thread'[t] = Idle /\ \A u \in Thread \ {t} : thread'[u] = thread[u]
    BY <1>0, <1>1 DEF Types
  <2> SUFFICES ASSUME \/ \E u \in Thread \ {t} : thread[u] # Idle /\ Success(thread[u])
                      \/ \E i \in DOMAIN ready : Success(ready[i])
               PROVE  held \in Client /\ Nothing(held)'
    BY <1>0, <2>1 DEF Unstarted
  <2>2. held \in Client /\ Nothing(held)
    BY DEF IInv, Unstarted
  <2>3. held # d
    BY <1>6, <2>2
  <2> QED BY <1>0, <1>5, <2>2, <2>3
<1> QED BY <1>5, <1>10, <1>11, <1>12, <1>13 DEF IInv

LEMMA HandleConnectIInv == ASSUME IInv, NEW c \in Client, HandleConnect(c) PROVE IInv'
<1>0. /\ UNCHANGED <<phase, armed, held, op, ready, thread>>
      /\ cli[c] = "connect" /\ cli' \in {[cli EXCEPT ![c] = "write"], [cli EXCEPT ![c] = "left"]}
  BY DEF HandleConnect
<1>1. Types /\ Alone /\ sock[c] = "none"
  BY <1>0 DEF IInv, Unconnected
<1>2. Alone' /\ \A d \in Client \cup {NoClient} : Nothing(d)' <=> Nothing(d)
  BY <1>0, <1>1, StillStep
<1>3. /\ cli' \in [Client -> {"connect", "write", "status", "done", "failed", "left"}]
      /\ cli'[c] # "connect" /\ \A d \in Client : d # c => cli'[d] = cli[d]
  BY <1>0, <1>1 DEF Types
<1>4. Accepting' /\ Down' /\ Unstarted'
  BY <1>0, <1>2 DEF IInv, Accepting, Down, Unstarted
<1>5. CASE UNCHANGED <<sock, backlog>>
  <2>1. Types'
    BY <1>0, <1>1, <1>3, <1>5 DEF Types
  <2>2. Unused'
    BY <1>0, <1>2, <1>5 DEF IInv, Unused
  <2>3. Backlogged' /\ Unconnected'
    BY <1>3, <1>5 DEF IInv, Backlogged, Unconnected
  <2> QED BY <1>2, <1>4, <2>1, <2>2, <2>3 DEF IInv
<1>6. CASE sock' = [sock EXCEPT ![c] = "backlog"] /\ backlog' = Append(backlog, c)
  <2>1. sock'[c] = "backlog" /\ \A d \in Client : d # c => sock'[d] = sock[d]
    BY <1>1, <1>6 DEF Types
  <2>2. Types'
    BY <1>0, <1>1, <1>3, <1>6 DEF Types
  <2>3. Unused'
    BY <1>0, <1>1, <1>2, <2>1 DEF IInv, Unused
  <2>4. Unconnected'
    BY <1>3, <2>1 DEF IInv, Unconnected
  <2>5. Backlogged'
    <3>0. PICK n : n = Len(backlog) + 1
      OBVIOUS
    <3>1. /\ DOMAIN backlog' = DOMAIN backlog \cup {n} /\ backlog'[n] = c
          /\ \A i \in DOMAIN backlog : backlog'[i] = backlog[i] /\ backlog[i] \in Client
      BY <1>1, <1>6, <3>0, Appended DEF Types
    <3>2. \A i \in DOMAIN backlog : sock[backlog[i]] = "backlog" /\ backlog[i] # c
      BY <1>1 DEF IInv, Backlogged
    <3> QED BY <2>1, <3>1, <3>2 DEF IInv, Backlogged
  <2> QED BY <1>2, <1>4, <2>2, <2>3, <2>4, <2>5 DEF IInv
<1> QED BY <1>5, <1>6 DEF HandleConnect

(* What else a client does is seen by the server only when it reads.       *)
LEMMA ClientIInv ==
  ASSUME IInv, NEW c \in Client,
         HandleWriteRequest(c) \/ HandleReadStatusLine(c) \/ Leave(c)
  PROVE  IInv'
<1>1. /\ UNCHANGED <<phase, armed, held, sock, op, ready, thread, backlog>>
      /\ cli' = cli \/ \E x \in {"write", "status", "done", "failed", "left"} : cli' = [cli EXCEPT ![c] = x]
  BY DEF HandleWriteRequest, HandleReadStatusLine, Leave, server
<1>2. Types /\ Alone
  BY DEF IInv
<1>3. Alone' /\ \A d \in Client \cup {NoClient} : Nothing(d)' <=> Nothing(d)
  BY <1>1, <1>2, StillStep
<1>4. /\ cli' \in [Client -> {"connect", "write", "status", "done", "failed", "left"}]
      /\ \A d \in Client : cli'[d] = "connect" => cli[d] = "connect"
  BY <1>1, <1>2 DEF Types
<1>5. Types'
  BY <1>1, <1>2, <1>4 DEF Types
<1>6. Accepting' /\ Down' /\ Unused' /\ Unstarted'
  BY <1>1, <1>3 DEF IInv, Accepting, Down, Unused, Unstarted
<1>7. Backlogged' /\ Unconnected'
  BY <1>1, <1>4 DEF IInv, Backlogged, Unconnected
<1> QED BY <1>3, <1>5, <1>6, <1>7 DEF IInv

LEMMA NextIInv == ASSUME IInv, [Next]_vars PROVE IInv'
<1>1. CASE UNCHANGED vars
  <2>1. UNCHANGED <<phase, armed, held, sock, op, ready, thread, backlog, cli>>
    BY <1>1 DEF vars, server, clients
  <2>2. Alone' /\ \A d \in Client \cup {NoClient} : Nothing(d)' <=> Nothing(d)
    BY <2>1, StillStep DEF IInv
  <2>3. Types' /\ Backlogged' /\ Unconnected'
    BY <2>1 DEF IInv, Types, Backlogged, Unconnected
  <2>4. Accepting' /\ Down' /\ Unused' /\ Unstarted'
    BY <2>1, <2>2 DEF IInv, Accepting, Down, Unused, Unstarted
  <2> QED BY <2>2, <2>3, <2>4 DEF IInv
<1>2. ASSUME NEW c \in Client, CompleteRead(c) PROVE IInv'
  BY <1>2, CompleteIInv DEF CompleteRead
<1>3. ASSUME NEW c \in Client, CompleteWrite(c) PROVE IInv'
  BY <1>3, CompleteIInv DEF CompleteWrite
<1>4. ASSUME NEW c \in Client, ClientStep(c) \/ Leave(c) PROVE IInv'
  BY <1>4, HandleConnectIInv, ClientIInv DEF ClientStep
<1>5. ASSUME NEW t \in Thread, Pick(t) \/ Run(t) PROVE IInv'
  BY <1>5, PickIInv, HandleAcceptIInv, StartAcceptIInv, ConnectionIInv DEF Run
<1>6. CASE Construct \/ RunServices \/ Exit \/ CompleteAccept
  BY <1>6, ConstructIInv, RunServicesIInv, ExitIInv, CompleteAcceptIInv
<1> QED BY <1>1, <1>2, <1>3, <1>4, <1>5, <1>6 DEF Next

LEMMA SpecIInv == Spec => []IInv
BY InitIInv, NextIInv, PTL DEF Spec
-----------------------------------------------------------------------------
(* Counting                                                                *)

LEMMA NoneOrOne ==
  ASSUME NEW S, \A x, y \in S : x = y
  PROVE  \/ S = {} /\ Cardinality(S) = 0
         \/ S # {} /\ Cardinality(S) = 1
<1>1. CASE S = {}
  BY <1>1, FS_EmptySet
<1>2. CASE S # {}
  <2>1. PICK x \in S : S = {x}
    BY <1>2
  <2> QED BY <1>2, <2>1, FS_Singleton
<1> QED BY <1>1, <1>2

LEMMA Count ==
  ASSUME NEW c, AtMostOne(c)
  PROVE  /\ Cardinality({t \in Thread : On(t, c)}) + Cardinality({i \in DOMAIN ready : Due(i, c)})
              + (IF Outstanding(c) THEN 1 ELSE 0) <= 1
         /\ ~Nothing(c) =>
            Cardinality({t \in Thread : On(t, c)}) + Cardinality({i \in DOMAIN ready : Due(i, c)})
              + (IF Outstanding(c) THEN 1 ELSE 0) = 1
<1> DEFINE T == {t \in Thread : On(t, c)}
           R == {i \in DOMAIN ready : Due(i, c)}
<1>1. \/ T = {} /\ Cardinality(T) = 0
      \/ T # {} /\ Cardinality(T) = 1
  <2>1. \A x, y \in T : x = y
    BY DEF AtMostOne
  <2> QED BY <2>1, NoneOrOne
<1>2. \/ R = {} /\ Cardinality(R) = 0
      \/ R # {} /\ Cardinality(R) = 1
  <2>1. \A x, y \in R : x = y
    BY DEF AtMostOne
  <2> QED BY <2>1, NoneOrOne
<1>3. (T = {} \/ R = {}) /\ (Outstanding(c) => T = {} /\ R = {})
  BY DEF AtMostOne
<1>4. ~Nothing(c) => Outstanding(c) \/ T # {} \/ R # {}
  BY DEF Nothing
<1> HIDE DEF T, R
<1>5. /\ Cardinality(T) + Cardinality(R) + (IF Outstanding(c) THEN 1 ELSE 0) <= 1
      /\ ~Nothing(c) => Cardinality(T) + Cardinality(R) + (IF Outstanding(c) THEN 1 ELSE 0) = 1
  BY <1>1, <1>2, <1>3, <1>4
<1> QED BY <1>5 DEF T, R

LEMMA CountAccepts == IInv => OneAccept
<1> SUFFICES ASSUME IInv, phase = "up" PROVE OneAccept
  BY DEF OneAccept
<1>1. AtMostOne(NoClient) /\ ~Nothing(NoClient) /\ Types
  BY DEF IInv, Alone, Accepting
<1>2. {t \in Thread : Runs(t, "accept") \/ Runs(t, "rearm")} = {t \in Thread : On(t, NoClient)}
  BY <1>1, Elements DEF Runs, On, Tasks
<1>3. {i \in DOMAIN ready : ready[i].op = "accept"} = {i \in DOMAIN ready : Due(i, NoClient)}
  BY <1>1, Elements DEF Due, Waiting, Tasks, Handler
<1>4. Outstanding(NoClient) <=> armed
  BY DEF Outstanding
<1> QED BY <1>1, <1>2, <1>3, <1>4, Count DEF OneAccept

LEMMA CountOperations == IInv => Serial
<1> SUFFICES ASSUME IInv, NEW c \in Client
             PROVE  Cardinality({t \in Thread : On(t, c)}) + Cardinality({i \in DOMAIN ready : Due(i, c)})
                      + (IF op[c] = "none" THEN 0 ELSE 1) <= 1
  BY DEF Serial, On, Due
<1>1. AtMostOne(c)
  BY DEF IInv, Alone
<1>2. Outstanding(c) <=> op[c] # "none"
  BY ServerAssumption DEF Outstanding
<1> QED BY <1>1, <1>2, Count

(* From the moment the server runs exactly one accept is outstanding, due  *)
(* or being handled: the port neither goes deaf after an error nor is      *)
(* new_connection_ shared by two accepts.                                  *)
THEOREM OneAcceptAlways == Spec => []OneAccept
BY SpecIInv, CountAccepts, PTL

(* The buffers of a connection are never used by two operations or         *)
(* handlers at once.  The proof does not use the strand: a connection      *)
(* starts its next operation only in the handler of the one before.        *)
THEOREM SerialAlways == Spec => []Serial
BY SpecIInv, CountOperations, PTL
-----------------------------------------------------------------------------
(***************************************************************************)
(* Nobody is hung up on                                                    *)
(***************************************************************************)

InFlight == {ready[i] : i \in DOMAIN ready} \cup {thread[t] : t \in {u \in Thread : thread[u] # Idle}}

Status == {0, 200, 400, 404, 500}

Data ==
  /\ unsent \in [Client -> Nat] /\ inbox \in [Client -> Nat]
  /\ reply \in [Client -> Status] /\ wire \in [Client -> Seq(Status)]

(* The server owes the client nothing: it is gone, or has its answer.      *)
Finished(c) == Gone(c) \/ wire[c] # <<>>

(* A connection without an operation or a handler has not started, or it   *)
(* is finished; a socket that was shut or closed is.                       *)
Pending == \E h \in InFlight : Success(h)
Chained(c) ==
  phase = "up" => /\ sock[c] = "open" /\ Nothing(c) => Finished(c) \/ (held = c /\ Pending)
                  /\ sock[c] \in {"shut", "closed"} => Finished(c)

(* What a handler was told: an error is the client's doing, and an answer  *)
(* that was sent is on the wire.                                           *)
Truthful ==
  \A h \in InFlight : h.conn \in Client =>
    /\ ~h.ok => Gone(h.conn)
    /\ h.op = "write" /\ h.ok => wire[h.conn] # <<>>

(* The server answers after a segment that it took: a part of the request  *)
(* is then neither unsent nor unread.                                      *)
Answering(c) ==
  \/ wire[c] # <<>> \/ op[c] = "write"
  \/ \E h \in InFlight : h.conn = c /\ (h.op = "write" \/ h.ok)
Counted(c) ==
  /\ unsent[c] + inbox[c] <= Pieces[c]
  /\ Answering(c) => unsent[c] + inbox[c] < Pieces[c]
  /\ cli[c] \in {"connect", "write"} => unsent[c] > 0

(* Before it is up the server has accepted nobody.                         *)
Before ==
  phase \in {"new", "listening"} => \A c \in Client : sock[c] \in {"none", "backlog"}

Unfailed(c) == phase # "exited" /\ Pieces[c] = 1 => cli[c] # "failed"

Serves ==
  /\ Data /\ Before /\ Truthful
  /\ \A c \in Client : Chained(c) /\ Counted(c) /\ Unfailed(c)
-----------------------------------------------------------------------------
(* What is in flight                                                       *)

LEMMA Carried ==
  ASSUME Types, NEW h \in InFlight
  PROVE  h \in Tasks /\ ~Nothing(h.conn)
<1>1. CASE \E t \in Thread : thread[t] # Idle /\ h = thread[t]
  BY <1>1, Elements DEF Nothing, On
<1>2. CASE \E i \in DOMAIN ready : h = ready[i]
  BY <1>2, Elements DEF Nothing, Due
<1> QED BY <1>1, <1>2 DEF InFlight

LEMMA AppendFlight ==
  ASSUME Types, NEW h \in Waiting, ready' = Append(ready, h), thread' = thread
  PROVE  InFlight' = InFlight \cup {h}
<1>0. PICK n : n = Len(ready) + 1
  OBVIOUS
<1>1. /\ DOMAIN ready' = DOMAIN ready \cup {n} /\ n \notin DOMAIN ready /\ ready'[n] = h
      /\ \A i \in DOMAIN ready : ready'[i] = ready[i]
  BY <1>0, Appended DEF Types
<1>2. {ready'[i] : i \in DOMAIN ready'} = {ready[i] : i \in DOMAIN ready} \cup {h}
  BY <1>1
<1> QED BY <1>2 DEF InFlight

LEMMA PickFlight ==
  ASSUME Types, NEW t \in Thread, Pick(t)
  PROVE  InFlight' = InFlight
<1>1. PICK k \in DOMAIN ready : ready' = RemoveAt(ready, k) /\ thread' = [thread EXCEPT ![t] = ready[k]]
  BY DEF Pick
<1>2. /\ thread[t] = Idle /\ thread'[t] = ready[k] /\ \A u \in Thread \ {t} : thread'[u] = thread[u]
      /\ ready[k] # Idle
  BY <1>1, Elements, Tasked DEF Pick, Types
<1>3. /\ \A i \in DOMAIN ready \ {k} : \E j \in DOMAIN ready' : ready'[j] = ready[i]
      /\ \A j \in DOMAIN ready' : \E i \in DOMAIN ready \ {k} : ready'[j] = ready[i]
  <2>1. /\ \A i \in DOMAIN ready \ {k} : \E j \in DOMAIN ready' : ready'[j] = ready[i]
        /\ \A j \in DOMAIN ready' :
             \/ j \in DOMAIN ready \ {k} /\ j < k /\ ready'[j] = ready[j]
             \/ j + 1 \in DOMAIN ready \ {k} /\ j >= k /\ j \in Nat /\ ready'[j] = ready[j + 1]
    BY <1>1, Removed DEF Types
  <2> QED BY <2>1
<1>4. \A h : h \in InFlight' => h \in InFlight
  BY <1>2, <1>3 DEF InFlight
<1>5. \A h : h \in InFlight => h \in InFlight'
  <2> SUFFICES ASSUME NEW h, h \in InFlight PROVE h \in InFlight'
    OBVIOUS
  <2>1. CASE \E u \in Thread : thread[u] # Idle /\ h = thread[u]
    BY <1>2, <2>1 DEF InFlight
  <2>2. CASE h = ready[k]
    BY <1>2, <2>2 DEF InFlight
  <2>3. CASE \E i \in DOMAIN ready \ {k} : h = ready[i]
    BY <1>3, <2>3 DEF InFlight
  <2> QED BY <2>1, <2>2, <2>3 DEF InFlight
<1> HIDE DEF InFlight
<1> QED BY <1>4, <1>5

(* A thread puts x, a handler or Idle, in the place of the one it ran.     *)
LEMMA RunFlight ==
  ASSUME Types, NEW t \in Thread, NEW x, thread' = [thread EXCEPT ![t] = x], ready' = ready
  PROVE  \A h \in InFlight' : h \in InFlight \/ (h = x /\ x # Idle)
<1>1. thread'[t] = x /\ \A u \in Thread \ {t} : thread'[u] = thread[u]
  BY DEF Types
<1> QED BY <1>1 DEF InFlight

(* While the accept of the server is elsewhere, no socket waits to start.  *)
LEMMA NotPending ==
  ASSUME IInv, armed \/ \E t \in Thread : On(t, NoClient) /\ ~Success(thread[t])
  PROVE  ~Pending
<1> SUFFICES ASSUME NEW h \in InFlight, Success(h) PROVE FALSE
  BY DEF Pending
<1>1. Types /\ AtMostOne(NoClient) /\ (Outstanding(NoClient) <=> armed)
  BY DEF IInv, Alone, Outstanding
<1>2. h.conn = NoClient
  BY <1>1, Carried, SuccessIsAccept
<1>3. CASE \E u \in Thread : thread[u] # Idle /\ h = thread[u]
  BY <1>1, <1>2, <1>3 DEF AtMostOne, On
<1>4. CASE \E i \in DOMAIN ready : h = ready[i]
  BY <1>1, <1>2, <1>4 DEF AtMostOne, Due
<1> QED BY <1>3, <1>4 DEF InFlight

LEMMA NotOwned ==
  ASSUME NEW c \in Client, ~Owned(c)'
  PROVE  Nothing(c)' /\ held' # c
BY ServerAssumption DEF Owned, Nothing, Outstanding, On, Due

(* A step of the server that writes nothing and reads nothing.             *)
LEMMA ServerStep ==
  ASSUME Serves, UNCHANGED <<unsent, inbox, wire, cli>>, reply' \in [Client -> Status],
         \A h \in InFlight' : h \in InFlight \/ h.conn = NoClient,
         \A c \in Client : op'[c] = "write" => Answering(c),
         phase' # "exited" => phase # "exited"
  PROVE  Data' /\ Truthful' /\ \A c \in Client : Counted(c)' /\ Unfailed(c)'
<1>1. Data'
  BY DEF Serves, Data
<1>2. NoClient \notin Client
  BY ServerAssumption
<1>3. Truthful'
  BY <1>2 DEF Serves, Truthful, Gone
<1>4. ASSUME NEW c \in Client PROVE Counted(c)' /\ Unfailed(c)'
  <2>1. Counted(c) /\ Unfailed(c)
    BY DEF Serves
  <2>2. Answering(c)' => Answering(c)
    BY <1>2 DEF Answering
  <2> QED BY <2>1, <2>2 DEF Counted, Unfailed
<1> QED BY <1>1, <1>3, <1>4

(* The connection d had a handler that ends; the others are as before.     *)
LetsGo(s, d) ==
  \A c \in Client :
    /\ c = d => /\ Nothing(c)' => Finished(c)
                /\ s[c] = sock[c] \/ (s[c] = "shut" /\ Finished(c))
    /\ c # d => s[c] = sock[c] /\ (Nothing(c)' => Nothing(c))

LEMMA ReleaseStep ==
  ASSUME Serves, UNCHANGED <<phase, cli, wire>>,
         NEW s \in [Client -> {"none", "backlog", "open", "shut", "closed"}], Release(s),
         held' = held \/ ~Pending, Pending => Pending', NEW d, LetsGo(s, d)
  PROVE  \A c \in Client : Chained(c)'
<1> SUFFICES ASSUME NEW c \in Client, phase = "up" PROVE Chained(c)'
  BY DEF Chained
<1>1. Chained(c) /\ (Finished(c)' <=> Finished(c)) /\ LetsGo(s, d)
  BY DEF Serves, Finished, Gone
<1>2. sock'[c] = IF s[c] \in {"open", "shut"} /\ ~Owned(c)' THEN "closed" ELSE s[c]
  BY DEF Release
<1>3. ~Owned(c)' => Nothing(c)' /\ held' # c
  BY NotOwned
<1>4. Nothing(c)' /\ s[c] = "open" => Finished(c) \/ (c # d /\ held = c /\ Pending)
  BY <1>1 DEF Chained, LetsGo
<1>5. s[c] \in {"shut", "closed"} => Finished(c)
  BY <1>1 DEF Chained, LetsGo
<1>6. sock'[c] = "open" /\ Nothing(c)' => Finished(c)' \/ (held' = c /\ Pending')
  BY <1>1, <1>2, <1>4
<1>7. sock'[c] \in {"shut", "closed"} => Finished(c)'
  BY <1>1, <1>2, <1>3, <1>4, <1>5
<1> QED BY <1>6, <1>7 DEF Chained
-----------------------------------------------------------------------------
(* The steps                                                               *)

LEMMA InitServes == Init => Serves
<1> SUFFICES ASSUME Init PROVE Serves
  OBVIOUS
<1>1. InFlight = {}
  BY DEF Init, InFlight
<1>2. Data
  BY ServerAssumption DEF Init, Data, Status
<1>3. Before /\ Truthful
  BY <1>1 DEF Init, Before, Truthful
<1>4. ASSUME NEW c \in Client PROVE Chained(c) /\ Counted(c) /\ Unfailed(c)
  <2>1. Pieces[c] \in Nat \ {0}
    BY ServerAssumption
  <2>2. Counted(c)
    BY <1>1, <2>1 DEF Init, Counted, Answering
  <2>3. Chained(c) /\ Unfailed(c)
    BY DEF Init, Chained, Unfailed
  <2> QED BY <2>2, <2>3
<1> QED BY <1>2, <1>3, <1>4 DEF Serves

LEMMA MasterServes ==
  ASSUME IInv, Serves, Construct \/ RunServices \/ Exit PROVE Serves'
<1>1. /\ UNCHANGED <<unsent, inbox, wire, cli, reply>>
      /\ phase # "exited"
      /\ \A h \in InFlight' : h \in InFlight
      /\ \A c \in Client : op'[c] = "write" => op[c] = "write"
  <2>1. CASE Construct \/ RunServices
    BY <2>1 DEF Construct, RunServices, clients, InFlight
  <2>2. CASE Exit
    BY <2>2 DEF Exit, clients, InFlight
  <2> QED BY <2>1, <2>2
<1>2. Data' /\ Truthful' /\ \A c \in Client : Counted(c)' /\ Unfailed(c)'
  <2>1. reply' \in [Client -> Status]
    BY <1>1 DEF Serves, Data
  <2> QED BY <1>1, <2>1, ServerStep DEF Answering
<1>3. Before' /\ \A c \in Client : Chained(c)'
  <2>1. CASE Construct
    BY <2>1 DEF Construct, Serves, Before, Chained
  <2>2. CASE RunServices
    BY <2>2 DEF RunServices, Serves, Before, Chained
  <2>3. CASE Exit
    BY <2>3 DEF Exit, Before, Chained
  <2> QED BY <2>1, <2>2, <2>3
<1> QED BY <1>2, <1>3 DEF Serves

(* The new connection has not started, but its handler is on the way.      *)
LEMMA CompleteAcceptServes ==
  ASSUME IInv, Serves, CompleteAccept PROVE Serves'
<1>0. PICK ok \in BOOLEAN : ready' = Append(ready, Task("accept", NoClient, ok))
               /\ IF ok THEN /\ held' = Head(backlog) /\ sock' = [sock EXCEPT ![Head(backlog)] = "open"]
                        ELSE UNCHANGED <<held, sock>>
  BY DEF CompleteAccept
<1> DEFINE h == Task("accept", NoClient, ok)
<1>1. /\ UNCHANGED <<phase, op, thread, reply, unsent, inbox, wire, cli>>
      /\ armed /\ armed' = FALSE /\ backlog # <<>>
  BY DEF CompleteAccept, clients
<1>2. h \in Waiting /\ h.conn = NoClient /\ (ok => Success(h))
  BY DEF Task, Waiting, Tasks, Handler, Success
<1> HIDE DEF h
<1>3. Types /\ Alone /\ ready' = Append(ready, h)
  BY <1>0 DEF IInv, h
<1>4. InFlight' = InFlight \cup {h}
  BY <1>1, <1>2, <1>3, AppendFlight
<1>5. \A c \in Client \cup {NoClient} : Nothing(c)' <=> Nothing(c)
  <2>1. /\ Outstanding(NoClient) /\ ~Outstanding(NoClient)'
        /\ \A c \in Client \cup {NoClient} : c # NoClient => (Outstanding(c)' <=> Outstanding(c))
    BY <1>1 DEF Outstanding
  <2> QED BY <1>1, <1>2, <1>3, <2>1, AppendStep
<1>6. phase = "up"
  BY <1>1 DEF IInv, Down, Nothing, Outstanding
<1>7. Data' /\ Truthful' /\ \A c \in Client : Counted(c)' /\ Unfailed(c)'
  <2>1. reply' \in [Client -> Status]
    BY <1>1 DEF Serves, Data
  <2> QED BY <1>1, <1>2, <1>4, <1>6, <2>1, ServerStep DEF Answering
<1>8. Before'
  BY <1>1, <1>6 DEF Before
<1>9. ASSUME NEW c \in Client PROVE Chained(c)'
  <2>1. Chained(c) /\ ~Pending /\ (Finished(c)' <=> Finished(c))
    BY <1>1, NotPending DEF Serves, Finished, Gone
  <2>2. CASE sock'[c] = sock[c]
    BY <1>1, <1>5, <2>1, <2>2 DEF Chained
  <2>3. CASE sock'[c] # sock[c]
    <3>1. ok
      BY <1>0, <2>3
    <3>2. c = Head(backlog) /\ sock'[c] = "open"
      BY <1>0, <1>3, <2>3, <3>1 DEF Types
    <3>3. held' = c /\ Pending'
      BY <1>0, <1>2, <1>4, <3>1, <3>2 DEF Pending
    <3> QED BY <3>2, <3>3 DEF Chained
  <2> QED BY <2>2, <2>3
<1> QED BY <1>7, <1>8, <1>9 DEF Serves

(* The segment that was read is no longer in the inbox.                    *)
LEMMA CompleteServes ==
  ASSUME IInv, Serves, NEW c \in Client, CompleteRead(c) \/ CompleteWrite(c) PROVE Serves'
<1>0. PICK o \in {"read", "write"}, k \in BOOLEAN :
        /\ op[c] = o /\ ready' = Append(ready, Task(o, c, k))
        /\ ~k => Gone(c) /\ UNCHANGED <<inbox, wire>>
        /\ k /\ o = "read" => inbox[c] > 0 /\ inbox' = [inbox EXCEPT ![c] = 0] /\ wire' = wire
        /\ k /\ o = "write" => inbox' = inbox /\ wire' = [wire EXCEPT ![c] = Append(@, reply[c])]
  <2>1. CASE CompleteRead(c)
    BY <2>1 DEF CompleteRead
  <2>2. CASE CompleteWrite(c)
    BY <2>2 DEF CompleteWrite
  <2> QED BY <2>1, <2>2
<1>1. /\ UNCHANGED <<phase, armed, held, sock, thread, reply, cli, unsent>>
      /\ op' = [op EXCEPT ![c] = "none"]
  BY DEF CompleteRead, CompleteWrite
<1> DEFINE h == Task(o, c, k)
<1>2. h \in Waiting /\ h.conn = c /\ h.op = o /\ h.ok = k /\ ~Success(h)
  BY ServerAssumption DEF Task, Waiting, Tasks, Handler, Success
<1> HIDE DEF h
<1>3. Types /\ Alone /\ ready' = Append(ready, h) /\ c # NoClient /\ Data
  BY <1>0, ServerAssumption DEF IInv, Serves, h
<1>4. InFlight' = InFlight \cup {h}
  BY <1>1, <1>2, <1>3, AppendFlight
<1>5. \A d \in Client \cup {NoClient} : Nothing(d)' <=> Nothing(d)
  <2>1. op'[c] = "none" /\ \A d \in Client : d # c => op'[d] = op[d]
    BY <1>1, <1>3 DEF Types
  <2>2. /\ Outstanding(c) /\ ~Outstanding(c)'
        /\ \A d \in Client \cup {NoClient} : d # c => (Outstanding(d)' <=> Outstanding(d))
    BY <1>0, <1>1, <1>3, <2>1 DEF Outstanding
  <2> QED BY <1>1, <1>2, <1>3, <2>2, AppendStep
<1>6. /\ wire' \in [Client -> Seq(Status)] /\ inbox' \in [Client -> Nat]
      /\ \A d \in Client : d # c => wire'[d] = wire[d] /\ inbox'[d] = inbox[d]
      /\ \A d \in Client : wire[d] # <<>> => wire'[d] # <<>>
      /\ k /\ o = "write" => wire'[c] # <<>>
  <2>1. wire[c] \in Seq(Status) /\ reply[c] \in Status
    BY <1>3 DEF Data
  <2>2. Append(wire[c], reply[c]) \in Seq(Status) /\ Append(wire[c], reply[c]) # <<>>
    BY <2>1
  <2>3. CASE ~k
    BY <1>0, <1>3, <2>3 DEF Data
  <2>4. CASE k /\ o = "read"
    <3>1. /\ wire' = wire /\ inbox' = [inbox EXCEPT ![c] = 0] /\ o # "write"
          /\ wire \in [Client -> Seq(Status)] /\ inbox \in [Client -> Nat]
      BY <1>0, <1>3, <2>4 DEF Data
    <3>2. inbox' \in [Client -> Nat] /\ \A d \in Client : d # c => inbox'[d] = inbox[d]
      BY <3>1
    <3> QED BY <3>1, <3>2
  <2>5. CASE k /\ o = "write"
    BY <1>0, <1>3, <2>2, <2>5 DEF Data
  <2> QED BY <2>3, <2>4, <2>5
<1>7. Data' /\ Before'
  BY <1>1, <1>3, <1>6 DEF Serves, Data, Before
<1>8. Truthful'
  BY <1>0, <1>1, <1>2, <1>4, <1>6 DEF Serves, Truthful, Gone
<1>9. ASSUME NEW d \in Client PROVE Chained(d)' /\ Unfailed(d)'
  <2>1. Chained(d) /\ Unfailed(d) /\ (Finished(d) => Finished(d)')
    BY <1>1, <1>6 DEF Serves, Finished, Gone
  <2>2. Pending => Pending'
    BY <1>4 DEF Pending
  <2> QED BY <1>1, <1>5, <2>1, <2>2 DEF Chained, Unfailed
<1>10. ASSUME NEW d \in Client PROVE Counted(d)'
  <2>1. /\ Counted(d) /\ unsent[d] \in Nat /\ inbox[d] \in Nat /\ Pieces[d] \in Nat
        /\ inbox'[d] \in Nat /\ unsent' = unsent /\ cli' = cli
    BY <1>1, <1>3, <1>6, ServerAssumption DEF Serves, Data
  <2>2. CASE d = c /\ k /\ o = "read"
    <3>1. inbox[d] > 0 /\ inbox'[d] = 0
      BY <1>0, <1>3, <2>2 DEF Data
    <3> QED BY <2>1, <3>1 DEF Counted
  <2>3. CASE ~(d = c /\ k /\ o = "read")
    <3>1. inbox'[d] = inbox[d]
      BY <1>0, <1>6, <2>3
    <3>2. Answering(d)' => Answering(d)
      <4>1. CASE d = c /\ o = "write"
        BY <1>0, <4>1 DEF Answering
      <4>2. CASE d # c
        BY <1>1, <1>2, <1>3, <1>4, <1>6, <4>2 DEF Answering, Types
      <4>3. CASE d = c /\ o = "read" /\ ~k
        BY <1>0, <1>1, <1>2, <1>3, <1>4, <4>3 DEF Answering, Types
      <4> QED BY <2>3, <4>1, <4>2, <4>3
    <3> QED BY <2>1, <3>1, <3>2 DEF Counted
  <2> QED BY <2>2, <2>3
<1> QED BY <1>7, <1>8, <1>9, <1>10 DEF Serves

LEMMA PickServes == ASSUME IInv, Serves, NEW t \in Thread, Pick(t) PROVE Serves'
<1>1. UNCHANGED <<phase, armed, held, sock, op, reply, unsent, inbox, wire, cli>> /\ Types /\ Alone
  BY DEF Pick, clients, IInv
<1>2. InFlight' = InFlight
  BY <1>1, PickFlight
<1>3. \A c \in Client \cup {NoClient} : Nothing(c)' <=> Nothing(c)
  BY <1>1, PickStep
<1>4. Data' /\ Truthful' /\ \A c \in Client : Counted(c)' /\ Unfailed(c)'
  <2>1. reply' \in [Client -> Status]
    BY <1>1 DEF Serves, Data
  <2> QED BY <1>1, <1>2, <2>1, ServerStep DEF Answering
<1>5. Before' /\ \A c \in Client : Chained(c)'
  BY <1>1, <1>2, <1>3 DEF Serves, Before, Chained, Pending, Finished, Gone
<1> QED BY <1>4, <1>5 DEF Serves

(* The connection starts: from now on it always has something to do.       *)
LEMMA HandleAcceptServes ==
  ASSUME IInv, IInv', Serves, NEW t \in Thread, HandleAccept(t) PROVE Serves'
<1>1. /\ UNCHANGED <<phase, armed, held, sock, ready, reply, unsent, inbox, wire, cli>>
      /\ thread' = [thread EXCEPT ![t] = Task("rearm", NoClient, TRUE)]
      /\ op' = IF thread[t].ok THEN [op EXCEPT ![held] = "read"] ELSE op
      /\ thread[t] # Idle /\ thread[t].op = "accept"
  BY DEF HandleAccept, Runs, clients
<1>2. Types /\ thread[t] \in Tasks /\ On(t, NoClient) /\ (thread[t].ok <=> Success(thread[t]))
  BY <1>1, Elements DEF IInv, On, Tasks, Success
<1>3. thread[t].ok => held \in Client
  BY <1>1, <1>2 DEF IInv, Unstarted
<1>4. \A h \in InFlight' : h \in InFlight \/ h.conn = NoClient
  <2>1. Task("rearm", NoClient, TRUE).conn = NoClient
    BY DEF Task
  <2> QED BY <1>1, <1>2, <2>1, RunFlight
<1>5. Data' /\ Truthful' /\ \A c \in Client : Counted(c)' /\ Unfailed(c)'
  <2>1. reply' \in [Client -> Status]
    BY <1>1 DEF Serves, Data
  <2>2. \A c \in Client : op'[c] = "write" => Answering(c)
    BY <1>1, <1>2 DEF Types, Answering
  <2> QED BY <1>1, <1>4, <2>1, <2>2, ServerStep
<1>6. Before'
  BY <1>1 DEF Serves, Before
<1>7. ASSUME NEW c \in Client PROVE Chained(c)'
  <2>1. Chained(c) /\ (Finished(c)' <=> Finished(c)) /\ c # NoClient
    BY <1>1, ServerAssumption DEF Serves, Finished, Gone
  <2>2. CASE thread[t].ok /\ c = held
    <3>1. op'[c] = "read"
      BY <1>1, <1>2, <2>2 DEF Types
    <3>2. ~Nothing(c)'
      BY <2>1, <3>1 DEF Nothing, Outstanding
    <3> QED BY <1>1, <2>1, <3>2 DEF Chained
  <2>3. CASE ~(thread[t].ok /\ c = held)
    <3>1. Nothing(c)' => Nothing(c)
      <4>1. op'[c] = op[c]
        BY <1>1, <1>2, <1>3, <2>3 DEF Types
      <4>2. \A u \in Thread : On(u, c) => On(u, c)'
        BY <1>1, <1>2, <2>1 DEF On, Types
      <4> QED BY <1>1, <2>1, <4>1, <4>2 DEF Nothing, Outstanding, Due
    <3>2. ~Pending \/ held # c
      BY <1>2, <2>3, NotPending
    <3> QED BY <1>1, <2>1, <3>1, <3>2 DEF Chained
  <2> QED BY <2>2, <2>3
<1> QED BY <1>5, <1>6, <1>7 DEF Serves

LEMMA StartAcceptServes ==
  ASSUME IInv, Serves, NEW t \in Thread, StartAccept(t) PROVE Serves'
<1>1. /\ UNCHANGED <<phase, op, ready, reply, unsent, inbox, wire, cli>> /\ Release(sock)
      /\ thread' = [thread EXCEPT ![t] = Idle] /\ held' = NoClient
      /\ thread[t] # Idle /\ thread[t].op = "rearm"
  BY DEF StartAccept, Runs, clients
<1>2. Types /\ Alone /\ On(t, NoClient) /\ ~Success(thread[t])
  BY <1>1, Elements DEF IInv, On, Tasks, Success
<1>3. \A h \in InFlight' : h \in InFlight
  BY <1>1, <1>2, RunFlight
<1>4. Data' /\ Truthful' /\ \A c \in Client : Counted(c)' /\ Unfailed(c)'
  <2>1. reply' \in [Client -> Status]
    BY <1>1 DEF Serves, Data
  <2> QED BY <1>1, <1>3, <2>1, ServerStep DEF Answering
<1>5. /\ sock \in [Client -> {"none", "backlog", "open", "shut", "closed"}]
      /\ \A d \in Client : sock'[d] = sock[d] \/ (sock[d] \in {"open", "shut"} /\ sock'[d] = "closed")
  BY <1>1, <1>2, Closing DEF Types
<1>6. Before'
  BY <1>1, <1>5 DEF Serves, Before
<1>7. \A c \in Client : Chained(c)'
  <2>1. ~Pending
    BY <1>2, NotPending
  <2>2. \A c \in Client : c # NoClient /\ (Nothing(c)' => Nothing(c))
    <3>1. \A c \in Client \cup {NoClient} : c # NoClient => (Outstanding(c)' <=> Outstanding(c))
      BY <1>1 DEF Outstanding
    <3> QED BY <1>1, <1>2, <3>1, EndStep, ServerAssumption
  <2>3. LetsGo(sock, NoClient)
    BY <2>2 DEF LetsGo
  <2> QED BY <1>1, <1>5, <2>1, <2>3, ReleaseStep
<1> QED BY <1>4, <1>6, <1>7 DEF Serves

(* The handlers of a connection let go of it only when it is finished: the *)
(* client is gone, or its answer is on the wire.                           *)
LEMMA ConnectionServes ==
  ASSUME IInv, Serves, NEW t \in Thread, HandleRead(t) \/ HandleWrite(t) PROVE Serves'
<1>1. /\ UNCHANGED <<phase, armed, held, ready, unsent, inbox, wire, cli>>
      /\ thread' = [thread EXCEPT ![t] = Idle]
      /\ thread[t] # Idle /\ thread[t].op \in {"read", "write"}
  BY DEF HandleRead, HandleWrite, Runs, clients
<1>2. Types /\ Alone /\ Data /\ thread[t] \in Tasks
  BY <1>1, Elements DEF IInv, Serves
<1>3. PICK d \in Client : d = thread[t].conn /\ On(t, d) /\ d # NoClient
  <2>1. thread[t].conn \in Client /\ thread[t].conn # NoClient
    BY <1>1, <1>2 DEF Tasks, Handler
  <2> QED BY <1>1, <2>1 DEF On
<1>4. /\ ~thread[t].ok => Gone(d)
      /\ HandleWrite(t) /\ thread[t].ok => wire[d] # <<>>
      /\ thread[t].ok => Answering(d)
  <2>1. thread[t] \in InFlight
    BY <1>1 DEF InFlight
  <2> QED BY <1>3, <2>1 DEF Serves, Truthful, HandleWrite, Runs, Answering
<1>5. /\ reply' \in [Client -> Status]
      /\ \A c \in Client : c # d => op'[c] = op[c]
      /\ op'[d] # op[d] => thread[t].ok
      /\ HandleRead(t) /\ thread[t].ok => op'[d] = "write"
  <2>1. StockReply(400) \in Status
    BY DEF StockReply, Status
  <2>2. CASE HandleRead(t)
    BY <1>2, <1>3, <2>1, <2>2 DEF HandleRead, Types, Data
  <2>3. CASE HandleWrite(t) /\ ~HandleRead(t)
    BY <1>2, <2>3 DEF HandleWrite, Data
  <2> QED BY <2>2, <2>3
<1>6. \A h \in InFlight' : h \in InFlight
  BY <1>1, <1>2, RunFlight
<1>7. Data' /\ Truthful' /\ \A c \in Client : Counted(c)' /\ Unfailed(c)'
  <2>1. \A c \in Client : op'[c] = "write" => Answering(c)
    BY <1>4, <1>5 DEF Answering
  <2> QED BY <1>1, <1>5, <1>6, <2>1, ServerStep
<1>8. Nothing(d)' => Finished(d)
  BY <1>3, <1>4, <1>5 DEF Nothing, Outstanding, Finished
<1>9. \A c \in Client : c # d => (Nothing(c)' => Nothing(c))
  <2>1. \A c \in Client \cup {NoClient} : c # d => (Outstanding(c)' <=> Outstanding(c))
    BY <1>1, <1>5 DEF Outstanding
  <2> QED BY <1>1, <1>2, <1>3, <2>1, EndStep
<1>10. PICK s \in [Client -> {"none", "backlog", "open", "shut", "closed"}] :
         Release(s) /\ \A c \in Client : s[c] = sock[c] \/ (c = d /\ s[c] = "shut" /\ Finished(c))
  <2>1. CASE HandleRead(t)
    BY <1>2, <2>1 DEF HandleRead, Types
  <2>2. CASE HandleWrite(t) /\ ~thread[t].ok
    BY <1>2, <2>2 DEF HandleWrite, Types
  <2>3. CASE HandleWrite(t) /\ thread[t].ok
    <3>1. Release([sock EXCEPT ![d] = "shut"])
      BY <1>3, <2>3 DEF HandleWrite
    <3>2. /\ [sock EXCEPT ![d] = "shut"] \in [Client -> {"none", "backlog", "open", "shut", "closed"}]
          /\ \A c \in Client : [sock EXCEPT ![d] = "shut"][c] = IF c = d THEN "shut" ELSE sock[c]
      BY <1>2 DEF Types
    <3> QED BY <1>4, <2>3, <3>1, <3>2 DEF Finished
  <2> QED BY <2>1, <2>2, <2>3
<1>11. \A c \in Client : Chained(c)'
  <2>1. Pending => Pending'
    <3> SUFFICES ASSUME NEW h \in InFlight, Success(h) PROVE h \in InFlight'
      BY DEF Pending
    <3>1. h # thread[t]
      BY <1>1 DEF Success
    <3>2. thread'[t] = Idle /\ \A u \in Thread \ {t} : thread'[u] = thread[u]
      BY <1>1, <1>2 DEF Types
    <3> QED BY <1>1, <3>1, <3>2 DEF InFlight
  <2>2. LetsGo(s, d)
    BY <1>8, <1>9, <1>10 DEF LetsGo
  <2> QED BY <1>1, <1>10, <2>1, <2>2, ReleaseStep
<1>12. Before'
  <2>1. phase = "up"
    BY <1>3 DEF IInv, Down, Nothing
  <2> QED BY <1>1, <2>1 DEF Before
<1> QED BY <1>7, <1>11, <1>12 DEF Serves

(* A client is refused before the server listens, and put in the backlog   *)
(* after.                                                                  *)
LEMMA HandleConnectServes ==
  ASSUME IInv, Serves, NEW c \in Client, HandleConnect(c) PROVE Serves'
<1>1. /\ UNCHANGED <<phase, armed, held, op, reply, ready, thread, unsent, inbox, wire>>
      /\ cli[c] = "connect" /\ cli' \in {[cli EXCEPT ![c] = "write"], [cli EXCEPT ![c] = "left"]}
      /\ sock' = sock \/ sock' = [sock EXCEPT ![c] = "backlog"]
  BY DEF HandleConnect
<1>2. /\ Types /\ InFlight' = InFlight
      /\ \A d \in Client \cup {NoClient} : Nothing(d)' <=> Nothing(d)
  BY <1>1, StillStep DEF IInv, InFlight
<1>3. /\ cli'[c] \in {"write", "left"} /\ \A d \in Client : d # c => cli'[d] = cli[d]
      /\ \A d \in Client : sock'[d] = sock[d] \/ sock'[d] = "backlog"
      /\ \A d \in Client : Gone(d) => Gone(d)'
  BY <1>1, <1>2 DEF Types, Gone
<1>4. Data' /\ Truthful' /\ Before'
  BY <1>1, <1>2, <1>3 DEF Serves, Data, Truthful, Before
<1>5. ASSUME NEW d \in Client PROVE Chained(d)' /\ Counted(d)' /\ Unfailed(d)'
  <2>1. Chained(d) /\ Counted(d) /\ Unfailed(d)
    BY DEF Serves
  <2>2. Chained(d)'
    BY <1>1, <1>2, <1>3, <2>1 DEF Chained, Finished, Pending
  <2>3. Counted(d)' /\ Unfailed(d)'
    BY <1>1, <1>2, <1>3, <2>1 DEF Counted, Unfailed, Answering
  <2> QED BY <2>2, <2>3
<1> QED BY <1>4, <1>5 DEF Serves

(* What a client writes moves into its inbox; it fails only at a socket    *)
(* that is closed, and with its only segment taken that means an answer.   *)
LEMMA ClientServes ==
  ASSUME IInv, Serves, NEW c \in Client,
         HandleWriteRequest(c) \/ HandleReadStatusLine(c) \/ Leave(c)
  PROVE  Serves'
<1>1. /\ UNCHANGED <<phase, armed, held, sock, op, reply, ready, thread, wire>>
      /\ cli[c] \in {"write", "status"}
  BY DEF HandleWriteRequest, HandleReadStatusLine, Leave, server
<1>2. /\ Types /\ Data /\ InFlight' = InFlight
      /\ \A d \in Client \cup {NoClient} : Nothing(d)' <=> Nothing(d)
  BY <1>1, StillStep DEF IInv, Serves, InFlight
<1>3. /\ unsent[c] \in Nat /\ inbox[c] \in Nat /\ Counted(c) /\ Unfailed(c) /\ Chained(c) /\ Pieces[c] \in Nat
  BY <1>2, ServerAssumption DEF Serves, Data
<1>4. /\ unsent' \in [Client -> Nat] /\ inbox' \in [Client -> Nat]
      /\ \A d \in Client : d # c => cli'[d] = cli[d] /\ unsent'[d] = unsent[d] /\ inbox'[d] = inbox[d]
      /\ unsent'[c] + inbox'[c] = unsent[c] + inbox[c]
      /\ cli'[c] \in {"write", "status", "done", "failed", "left"}
      /\ cli'[c] = "write" => unsent'[c] > 0
      /\ cli'[c] = "failed" => HandleReadStatusLine(c)
  <2>1. CASE HandleWriteRequest(c)
    <3>1. unsent[c] > 0 /\ unsent[c] - 1 \in Nat /\ inbox[c] + 1 \in Nat
      BY <1>3, <2>1 DEF HandleWriteRequest, Counted
    <3>2. /\ unsent' \in [Client -> Nat] /\ inbox' \in [Client -> Nat]
          /\ unsent'[c] = unsent[c] - 1 /\ inbox'[c] = inbox[c] + 1
          /\ cli'[c] = IF unsent[c] = 1 THEN "status" ELSE "write"
          /\ \A d \in Client : d # c => cli'[d] = cli[d] /\ unsent'[d] = unsent[d] /\ inbox'[d] = inbox[d]
      BY <1>2, <2>1, <3>1 DEF HandleWriteRequest, Data, Types
    <3> QED BY <1>3, <3>1, <3>2
  <2>2. CASE HandleReadStatusLine(c) \/ Leave(c)
    <3>1. UNCHANGED <<unsent, inbox>> /\ \E x \in {"done", "failed", "left"} : cli' = [cli EXCEPT ![c] = x]
      BY <2>2 DEF HandleReadStatusLine, Leave
    <3>2. cli'[c] = "failed" => HandleReadStatusLine(c)
      BY <1>2, <2>2 DEF Leave, Types
    <3> QED BY <1>2, <3>1, <3>2 DEF Data, Types
  <2> QED BY <2>1, <2>2
<1>5. cli'[c] = "failed" /\ Pieces[c] = 1 => phase = "exited"
  <2> SUFFICES ASSUME cli'[c] = "failed", Pieces[c] = 1, phase # "exited" PROVE FALSE
    OBVIOUS
  <2>1. cli[c] = "status" /\ sock[c] = "closed" /\ (wire[c] = <<>> \/ inbox[c] > 0)
    BY <1>2, <1>4 DEF HandleReadStatusLine, Types
  <2>2. phase = "up"
    BY <1>2, <2>1 DEF Serves, Before, Types
  <2>3. wire[c] # <<>>
    BY <1>3, <2>1, <2>2 DEF Chained, Finished, Gone
  <2> QED BY <1>3, <2>1, <2>3 DEF Counted, Answering
<1>6. \A d \in Client : Gone(d) => Gone(d)'
  BY <1>1, <1>4 DEF Gone
<1>7. Data' /\ Truthful' /\ Before'
  BY <1>1, <1>2, <1>4, <1>6 DEF Serves, Data, Truthful, Before
<1>8. ASSUME NEW d \in Client PROVE Chained(d)' /\ Counted(d)' /\ Unfailed(d)'
  <2>1. Chained(d) /\ Counted(d) /\ Unfailed(d) /\ (Answering(d)' <=> Answering(d))
    BY <1>1, <1>2 DEF Serves, Answering
  <2>2. Chained(d)'
    BY <1>1, <1>2, <1>6, <2>1 DEF Chained, Finished, Pending
  <2>3. Counted(d)' /\ Unfailed(d)'
    BY <1>1, <1>3, <1>4, <1>5, <2>1 DEF Counted, Unfailed
  <2> QED BY <2>2, <2>3
<1> QED BY <1>7, <1>8 DEF Serves

LEMMA NextServes == ASSUME IInv, IInv', Serves, [Next]_vars PROVE Serves'
<1>1. CASE UNCHANGED vars
  <2>1. UNCHANGED <<phase, armed, held, sock, op, reply, ready, thread, cli, unsent, inbox, wire>>
    BY <1>1 DEF vars, server, clients
  <2>2. InFlight' = InFlight /\ \A d \in Client \cup {NoClient} : Nothing(d)' <=> Nothing(d)
    BY <2>1, StillStep DEF IInv, InFlight
  <2>3. Data' /\ Before' /\ Truthful'
    BY <2>1, <2>2 DEF Serves, Data, Before, Truthful, Gone
  <2>4. ASSUME NEW c \in Client PROVE Chained(c)' /\ Counted(c)' /\ Unfailed(c)'
    BY <2>1, <2>2 DEF Serves, Chained, Counted, Unfailed, Answering, Finished, Gone, Pending
  <2> QED BY <2>3, <2>4 DEF Serves
<1>2. ASSUME NEW c \in Client, CompleteRead(c) \/ CompleteWrite(c) PROVE Serves'
  BY <1>2, CompleteServes
<1>3. ASSUME NEW c \in Client, ClientStep(c) \/ Leave(c) PROVE Serves'
  BY <1>3, HandleConnectServes, ClientServes DEF ClientStep
<1>4. ASSUME NEW t \in Thread, Pick(t) \/ Run(t) PROVE Serves'
  BY <1>4, PickServes, HandleAcceptServes, StartAcceptServes, ConnectionServes DEF Run
<1>5. CASE Construct \/ RunServices \/ Exit \/ CompleteAccept
  BY <1>5, MasterServes, CompleteAcceptServes
<1> QED BY <1>1, <1>2, <1>3, <1>4, <1>5 DEF Next

LEMMA ServesNobodyHungUp == Serves => NoHangUp
BY DEF Serves, Chained, Unfailed, Finished, NoHangUp

(* A client with a request of one segment is never hung up on while the    *)
(* Master lives, in whatever order the accept handler and the connection's *)
(* own handlers let go of it, for any clients, threads and descriptors.    *)
THEOREM NoHangUpAlways == Spec => []NoHangUp
<1>1. Init => Serves
  BY InitServes
<1>2. IInv /\ IInv' /\ Serves /\ [Next]_vars => Serves'
  BY NextServes
<1> QED BY <1>1, <1>2, SpecIInv, ServesNobodyHungUp, PTL DEF Spec
=============================================================================
