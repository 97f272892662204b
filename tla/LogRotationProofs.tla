------------------------- MODULE LogRotationProofs -------------------------
(***************************************************************************)
(* Proofs about the rotating sinks, for any limit and any number of sinks, *)
(* records and faults: the type invariant; that without a failing call a   *)
(* rotation throws only when another sink changed the names meanwhile;     *)
(* that a file is never longer than the limit for each sink that wrote to  *)
(* it; and that the latest records of the daemon are never lost while it   *)
(* logs alone.                                                             *)
(***************************************************************************)
EXTENDS LogRotation, SequenceTheorems, FiniteSetTheorems, TLAPS

Content == Seq(0 .. Len(author))
Desc == [file : 1 .. Len(inode), offset : Nat, append : BOOLEAN]
SinkOf(k) == [proc : Process, fd : 0 .. k, size : Nat, pc : Place, alone : BOOLEAN]
Sink == SinkOf(Len(desc))

(* Every process that runs has a sink of its own.                          *)
Running == \A p \in up : uses[p] # 0 /\ sink[uses[p]].proc = p

(* What a sink has seen of the names still holds if nobody else came near. *)
SawNames ==
  \A s \in DOMAIN sink : sink[s].alone =>
    /\ sink[s].pc = "remove" => name[1] # 0
    /\ sink[s].pc = "rename" => name[0] # 0

IInv == TypeOK /\ Running /\ SawNames /\ ThrowsOnlyInRace
-----------------------------------------------------------------------------
(* Writing                                                                 *)

LEMMA FillTyped ==
  ASSUME NEW n \in Nat, NEW c \in Seq(0 .. n), NEW o \in Nat, Len(c) <= o
  PROVE  Fill(c, o) \in Seq(0 .. n)
<1> DEFINE h == [i \in 1 .. o - Len(c) |-> Hole]
<1>1. h \in [1 .. o - Len(c) -> 0 .. n] /\ o - Len(c) \in Nat
  BY DEF Hole
<1>2. h \in Seq(0 .. n)
  BY ZenonT(30), <1>1, SeqDef
<1> HIDE DEF h
<1>3. c \o h \in Seq(0 .. n)
  BY <1>2
<1> QED BY <1>3 DEF Fill, h

LEMMA PutTyped ==
  ASSUME NEW n \in Nat, NEW c \in Seq(0 .. n), NEW o \in Nat
  PROVE  Put(c, o, n + 1) \in Seq(0 .. n + 1)
<1>1. c \in Seq(0 .. n + 1)
  BY SeqMonotonic
<1>2. CASE o < Len(c)
  BY <1>1, <1>2, ExceptSeq DEF Put
<1>3. CASE ~(o < Len(c))
  <2>1. Fill(c, o) \in Seq(0 .. n + 1)
    BY <1>1, <1>3, FillTyped
  <2> QED BY <1>3, <2>1 DEF Put
<1> QED BY <1>2, <1>3

LEMMA Advanced ==
  ASSUME NEW F, NEW r \in [file : F, offset : Nat, append : BOOLEAN], NEW n \in Nat
  PROVE  [r EXCEPT !.offset = n] \in [file : F, offset : Nat, append : BOOLEAN]
OBVIOUS

(* A record is written to an open file.                                    *)
LEMMA WriteTyped ==
  ASSUME author \in Seq(1 .. Len(sink)), NEW s \in 1 .. Len(sink),
         NEW content \in Seq(Content),
         NEW opened \in Seq([file : 1 .. Len(content), offset : Nat, append : BOOLEAN]),
         NEW d \in 1 .. Len(opened), Write(s, d, content, opened)
  PROVE  /\ author' \in Seq(1 .. Len(sink)) /\ Len(author') = Len(author) + 1
         /\ inode' \in Seq(Seq(0 .. Len(author'))) /\ Len(inode') = Len(content)
         /\ desc' \in Seq([file : 1 .. Len(content), offset : Nat, append : BOOLEAN])
         /\ Len(desc') = Len(opened)
<1> DEFINE o == opened[d]
           at == IF o.append THEN Len(content[o.file]) ELSE o.offset
<1>0. o \in [file : 1 .. Len(content), offset : Nat, append : BOOLEAN]
  BY ElementOfSeq
<1>1. author' = Append(author, s) /\ Len(author) \in Nat
  BY DEF Write
<1>2. author' \in Seq(1 .. Len(sink)) /\ Len(author') = Len(author) + 1
  BY <1>1
<1>3. /\ o.file \in 1 .. Len(content) /\ o.offset \in Nat /\ o.append \in BOOLEAN
      /\ content[o.file] \in Content
  <2>1. o.file \in 1 .. Len(content) /\ o.offset \in Nat /\ o.append \in BOOLEAN
    BY <1>0
  <2>2. content[o.file] \in Content
    BY <2>1, ElementOfSeq
  <2> QED BY <2>1, <2>2
<1>4. at \in Nat
  <2> HIDE DEF o
  <2>1. Len(content[o.file]) \in Nat
    BY SMTT(30), <1>3 DEF Content
  <2> QED BY <1>3, <2>1
<1>5. Put(content[o.file], at, Len(author) + 1) \in Seq(0 .. Len(author'))
  BY <1>1, <1>2, <1>3, <1>4, PutTyped DEF Content
<1>6. Content \subseteq Seq(0 .. Len(author'))
  BY <1>1, <1>2, SeqMonotonic DEF Content
<1>7. content \in Seq(Seq(0 .. Len(author')))
  BY <1>6, SeqMonotonic
<1>8. inode' = [content EXCEPT ![o.file] = Put(content[o.file], at, Len(author) + 1)]
  BY DEF Write
<1>9. desc' = [opened EXCEPT ![d].offset = at + 1]
  BY DEF Write
<1> HIDE DEF at
<1>10. inode' \in Seq(Seq(0 .. Len(author'))) /\ Len(inode') = Len(content)
  BY <1>3, <1>5, <1>7, <1>8, ExceptSeq
<1>11. [opened[d] EXCEPT !.offset = at + 1] \in [file : 1 .. Len(content), offset : Nat, append : BOOLEAN]
  <2>1. at + 1 \in Nat
    BY <1>4
  <2> QED BY <1>0, <2>1, Advanced
<1>12. desc' = [opened EXCEPT ![d] = [opened[d] EXCEPT !.offset = at + 1]]
  BY <1>9
<1>13. /\ desc' \in Seq([file : 1 .. Len(content), offset : Nat, append : BOOLEAN])
       /\ Len(desc') = Len(opened)
  BY <1>11, <1>12, ExceptSeq
<1> QED BY <1>2, <1>10, <1>13
-----------------------------------------------------------------------------
(* The sinks                                                               *)

LEMMA Surprised ==
  ASSUME NEW k, NEW r \in SinkOf(k)
  PROVE  LET q == [r EXCEPT !.alone = FALSE] IN
         /\ q \in SinkOf(k) /\ q.fd = r.fd /\ q.pc = r.pc /\ q.proc = r.proc
         /\ q.alone = FALSE
BY DEF SinkOf

(* Only other sinks lose what they have seen.                              *)
LEMMA MeddleTyped ==
  ASSUME TypeOK, NEW k \in Nat, Len(desc) <= k,
         NEW s \in 0 .. Len(sink), NEW new \in SinkOf(k),
         new.fd = 0 <=> new.pc # "ready",
         s # 0 => new.proc = sink[s].proc
  PROVE  LET m == Meddle(s, new) IN
         /\ m \in Seq(SinkOf(k)) /\ Len(m) = Len(sink) /\ DOMAIN m = 1 .. Len(sink)
         /\ \A t \in DOMAIN m : m[t].fd = 0 <=> m[t].pc # "ready"
         /\ \A t \in DOMAIN m : m[t].proc = sink[t].proc /\ (t # s => ~m[t].alone)
         /\ s # 0 => m[s] = new
<1> DEFINE m == Meddle(s, new)
<1>1. sink \in Seq(SinkOf(k)) /\ DOMAIN sink = 1 .. Len(sink) /\ Len(sink) \in Nat
  <2>1. sink \in Seq(Sink) /\ DOMAIN sink = 1 .. Len(sink) /\ Len(sink) \in Nat
    BY DEF TypeOK, Sink, SinkOf
  <2>2. Len(desc) \in Nat
    BY DEF TypeOK
  <2>3. Sink \subseteq SinkOf(k)
    BY <2>2 DEF Sink, SinkOf
  <2> QED BY <2>1, <2>3, SeqMonotonic
<1>2. m \in [1 .. Len(sink) -> SinkOf(k)]
  <2>1. \A t \in 1 .. Len(sink) : [sink[t] EXCEPT !.alone = FALSE] \in SinkOf(k)
    BY <1>1, ElementOfSeq, Surprised
  <2> QED BY <1>1, <2>1 DEF Meddle
<1>3. m \in Seq(SinkOf(k)) /\ Len(m) = Len(sink) /\ DOMAIN m = 1 .. Len(sink)
  BY <1>1, <1>2, SeqDef
<1>4. \A t \in 1 .. Len(sink) :
        /\ t = s => m[t] = new
        /\ t # s => m[t] = [sink[t] EXCEPT !.alone = FALSE]
  BY <1>1 DEF Meddle
<1> HIDE DEF m
<1>5. \A t \in 1 .. Len(sink) :
        /\ m[t].fd = 0 <=> m[t].pc # "ready"
        /\ m[t].proc = sink[t].proc /\ (t # s => ~m[t].alone)
  <2> SUFFICES ASSUME NEW t \in 1 .. Len(sink)
               PROVE  /\ m[t].fd = 0 <=> m[t].pc # "ready"
                      /\ m[t].proc = sink[t].proc /\ (t # s => ~m[t].alone)
    OBVIOUS
  <2>1. sink[t] \in SinkOf(k) /\ (sink[t].fd = 0 <=> sink[t].pc # "ready")
    BY <1>1, ElementOfSeq DEF TypeOK
  <2>2. CASE t = s
    <3>1. m[t] = new
      BY <1>4, <2>2, Zenon
    <3>2. s # 0
      BY <1>1, <2>2
    <3> QED BY <2>2, <3>1, <3>2, Zenon
  <2>3. CASE t # s
    BY ZenonT(30), <1>4, <2>1, <2>3, Surprised
  <2> QED BY <2>2, <2>3
<1>6. s # 0 => m[s] = new
  <2>1. s # 0 => s \in 1 .. Len(sink)
    BY <1>1
  <2> QED BY <1>4, <2>1, Zenon
<1>7. /\ \A t \in DOMAIN m : m[t].fd = 0 <=> m[t].pc # "ready"
      /\ \A t \in DOMAIN m : m[t].proc = sink[t].proc /\ (t # s => ~m[t].alone)
  BY <1>3, <1>5
<1> QED BY <1>3, <1>6, <1>7 DEF m

LEMMA InitIInv == Init => IInv
BY RotationAssumption
DEF Init, IInv, TypeOK, Running, SawNames, ThrowsOnlyInRace, Role
-----------------------------------------------------------------------------
(* A process that is gone, by a signal or by an exception.                 *)
LEMMA GoneIInv ==
  ASSUME IInv, NEW p \in Process, Gone(p),
         UNCHANGED <<inode, name, desc, sink, author>>, faults' \in 0 .. Faults,
         thrown' \subseteq BOOLEAN, ThrowsOnlyInRace'
  PROVE  IInv'
<1>1. uses' \in [Role -> 0 .. Len(sink)] /\ up' \subseteq Process
  BY DEF Gone, IInv, TypeOK
<1>2. TypeOK'
  BY <1>1 DEF IInv, TypeOK
<1>3. Running'
  BY DEF IInv, TypeOK, Running, Gone, Process, Role
<1>4. SawNames'
  BY DEF IInv, SawNames
<1> QED BY <1>2, <1>3, <1>4 DEF IInv

(* A step of sink s that changes its record only, and no name.             *)
LEMMA OneSink ==
  ASSUME IInv, NEW s \in DOMAIN sink, NEW new \in Sink,
         new.fd = 0 <=> new.pc # "ready", new.proc = sink[s].proc,
         new.alone => /\ new.pc = "remove" => name[1] # 0
                      /\ new.pc = "rename" => name[0] # 0,
         sink' = [sink EXCEPT ![s] = new],
         UNCHANGED <<name, uses, up, faults, thrown>>,
         author' \in Seq(1 .. Len(sink)), inode' \in Seq(Seq(0 .. Len(author'))),
         Len(inode') = Len(inode),
         desc' \in Seq(Desc), Len(desc') = Len(desc)
  PROVE  IInv'
<1>1. sink' \in Seq(Sink) /\ Len(sink') = Len(sink) /\ DOMAIN sink' = DOMAIN sink
  BY SMTT(30), ExceptSeq DEF IInv, TypeOK, Sink, SinkOf
<1>2. \A t \in DOMAIN sink : sink'[t] = IF t = s THEN new ELSE sink[t]
  BY DEF IInv, TypeOK
<1>3. TypeOK'
  BY <1>1, <1>2 DEF IInv, TypeOK, Sink, SinkOf, Desc
<1>4. Running'
  <2> SUFFICES ASSUME NEW p \in up PROVE uses[p] # 0 /\ sink'[uses[p]].proc = p
    BY DEF Running
  <2>1. p \in Role /\ uses[p] # 0 /\ sink[uses[p]].proc = p
    BY DEF IInv, TypeOK, Running, Process, Role
  <2>2. uses[p] \in DOMAIN sink
    BY <2>1 DEF IInv, TypeOK
  <2> QED BY <1>2, <2>1, <2>2
<1>5. SawNames'
  BY <1>1, <1>2 DEF IInv, SawNames
<1> QED BY <1>3, <1>4, <1>5 DEF IInv, ThrowsOnlyInRace

LEMMA LoadIInv == ASSUME IInv, NEW p \in Process, Load(p) PROVE IInv'
<1>1. /\ Len(inode) \in Nat /\ Len(desc) \in Nat /\ Len(sink) \in Nat
      /\ name[0] \in 0 .. Len(inode) /\ DOMAIN sink = 1 .. Len(sink)
  BY DEF IInv, TypeOK
<1>2. /\ inode' \in Seq(Seq(0 .. Len(author))) /\ Len(inode) <= Len(inode')
      /\ Len(inode') \in Nat
      /\ File0 \in 1 .. Len(inode')
  <2>1. inode' = (IF name[0] = 0 THEN Append(inode, <<>>) ELSE inode)
    BY DEF Load
  <2>2. inode \in Seq(Seq(0 .. Len(author))) /\ <<>> \in Seq(0 .. Len(author))
    BY DEF IInv, TypeOK
  <2>3. CASE name[0] = 0
    BY <1>1, <2>1, <2>2, <2>3 DEF File0
  <2>4. CASE name[0] # 0
    BY <1>1, <2>1, <2>2, <2>4 DEF File0
  <2> QED BY <2>3, <2>4
<1>3. name' \in [{0, 1} -> 0 .. Len(inode')]
  BY <1>1, <1>2 DEF IInv, TypeOK, Load
<1>4. desc' \in Seq([file : 1 .. Len(inode'), offset : Nat, append : BOOLEAN])
      /\ Len(desc') = Len(desc) + 1
  <2>1. desc \in Seq([file : 1 .. Len(inode'), offset : Nat, append : BOOLEAN])
    <3>1. Desc \subseteq [file : 1 .. Len(inode'), offset : Nat, append : BOOLEAN]
      BY <1>1, <1>2 DEF Desc
    <3> QED BY <3>1, SeqMonotonic DEF IInv, TypeOK, Desc
  <2>2. [file |-> File0, offset |-> 0, append |-> TRUE] \in
          [file : 1 .. Len(inode'), offset : Nat, append : BOOLEAN]
    BY <1>2
  <2> QED BY <2>1, <2>2 DEF Load
<1> DEFINE Sink1 == SinkOf(Len(desc'))
           new == Opened(p)
           old == IF name[0] = 0 THEN Meddle(0, new) ELSE sink
<1>5. new \in Sink1 /\ new.fd # 0 /\ new.pc = "ready" /\ new.proc = p
  BY <1>1, <1>4 DEF IInv, TypeOK, Opened, Size, Place, SinkOf
<1>6. Sink \subseteq Sink1
  BY <1>1, <1>4 DEF Sink, SinkOf
<1>7. /\ old \in Seq(Sink1) /\ Len(old) = Len(sink) /\ DOMAIN old = 1 .. Len(sink)
      /\ \A t \in DOMAIN old : /\ old[t].fd = 0 <=> old[t].pc # "ready"
                               /\ old[t].proc = sink[t].proc
                               /\ old[t].alone => name[0] # 0 /\ old[t] = sink[t]
  <2>1. CASE name[0] = 0
    <3>1. LET m == Meddle(0, new) IN
          /\ m \in Seq(Sink1) /\ Len(m) = Len(sink) /\ DOMAIN m = 1 .. Len(sink)
          /\ \A t \in DOMAIN m : m[t].fd = 0 <=> m[t].pc # "ready"
          /\ \A t \in DOMAIN m : m[t].proc = sink[t].proc /\ (t # 0 => ~m[t].alone)
      <4>1. Len(desc') \in Nat /\ Len(desc) <= Len(desc') /\ 0 \in 0 .. Len(sink)
        BY <1>1, <1>4
      <4> HIDE DEF new
      <4> QED BY <1>5, <4>1, MeddleTyped DEF IInv
    <3>2. old = Meddle(0, new)
      BY <2>1
    <3> HIDE DEF old, new, Sink1
    <3>3. \A t \in DOMAIN old : t # 0
      BY <1>1, <3>1, <3>2
    <3> QED BY <3>1, <3>2, <3>3, Zenon
  <2>2. CASE name[0] # 0
    <3>1. old = sink /\ sink \in Seq(Sink1)
      BY <1>6, <2>2, SeqMonotonic DEF IInv, TypeOK, Sink, SinkOf
    <3> QED BY <1>1, <2>2, <3>1 DEF IInv, TypeOK
  <2> QED BY <2>1, <2>2
<1>8. sink' = Append(old, new)
  BY DEF Load
<1> HIDE DEF old, new, Sink1
<1>10. /\ sink' \in Seq(Sink1) /\ Len(sink') = Len(sink) + 1
       /\ DOMAIN sink' = 1 .. Len(sink) + 1
       /\ \A t \in 1 .. Len(sink) : sink'[t] = old[t]
       /\ sink'[Len(sink) + 1] = new
  BY <1>1, <1>5, <1>7, <1>8
<1>11. uses' \in [Role -> 0 .. Len(sink')] /\ uses'[p] = Len(sink) + 1
       /\ \A q \in Process \ {p} : uses'[q] = uses[q]
  BY SMTT(30), <1>1, <1>10 DEF IInv, TypeOK, Load, Process, Role
<1>12. TypeOK'
  <2>1. author' \in Seq(1 .. Len(sink'))
    <3>1. author' = author /\ author \in Seq(1 .. Len(sink))
      BY DEF Load, IInv, TypeOK
    <3> QED BY <1>1, <1>10, <3>1, SeqMonotonic
  <2>2. \A t \in DOMAIN sink' : sink'[t].fd = 0 <=> sink'[t].pc # "ready"
    BY <1>5, <1>7, <1>10
  <2>3. up' \subseteq Process /\ faults' \in 0 .. Faults /\ thrown' \subseteq BOOLEAN
        /\ inode' \in Seq(Seq(0 .. Len(author')))
    BY <1>2 DEF Load, IInv, TypeOK
  <2> QED BY <1>3, <1>4, <1>10, <1>11, <2>1, <2>2, <2>3 DEF TypeOK, Sink1, SinkOf
<1>13. Running'
  <2> SUFFICES ASSUME NEW q \in up' PROVE uses'[q] # 0 /\ sink'[uses'[q]].proc = q
    BY DEF Running
  <2>1. CASE q = p
    BY <1>1, <1>5, <1>10, <1>11, <2>1
  <2>2. CASE q # p
    <3>1. q \in up /\ q \in Process /\ uses'[q] = uses[q]
      BY <1>11, <2>2 DEF Load, IInv, TypeOK
    <3>2. uses[q] \in 1 .. Len(sink) /\ sink[uses[q]].proc = q
      BY <1>1, <3>1 DEF IInv, TypeOK, Running, Process, Role
    <3> QED BY <1>1, <1>7, <1>10, <3>1, <3>2
  <2> QED BY <2>1, <2>2
<1>14. SawNames'
  <2> SUFFICES ASSUME NEW t \in DOMAIN sink', sink'[t].alone
               PROVE  /\ sink'[t].pc = "remove" => name'[1] # 0
                      /\ sink'[t].pc = "rename" => name'[0] # 0
    BY DEF SawNames
  <2>1. CASE t = Len(sink) + 1
    BY <1>5, <1>10, <2>1
  <2>2. CASE t \in 1 .. Len(sink)
    <3>1. name[0] # 0 /\ sink'[t] = sink[t]
      BY <1>7, <1>10, <2>2
    <3>2. name' = name
      BY <3>1 DEF Load, File0, IInv, TypeOK
    <3> QED BY <1>1, <2>2, <3>1, <3>2 DEF IInv, SawNames
  <2> QED BY <1>1, <1>10, <2>1, <2>2
<1> QED BY <1>12, <1>13, <1>14 DEF IInv, ThrowsOnlyInRace, Load

LEMMA ForkIInv == ASSUME IInv, Fork PROVE IInv'
<1>1. /\ sink \in Seq(Sink) /\ DOMAIN sink = 1 .. Len(sink) /\ Len(sink) \in Nat
      /\ uses["daemon"] \in 1 .. Len(sink)
  BY DEF IInv, TypeOK, Running, Fork, Role, Sink, SinkOf
<1> DEFINE old == sink[uses["daemon"]]
           new == [old EXCEPT !.proc = "master"]
<1>2. /\ old \in Sink /\ (old.fd = 0 <=> old.pc # "ready")
      /\ old.alone => /\ old.pc = "remove" => name[1] # 0
                      /\ old.pc = "rename" => name[0] # 0
  BY <1>1, ElementOfSeq DEF IInv, TypeOK, SawNames
<1> HIDE DEF old
<1>3. /\ new \in Sink /\ new.proc = "master" /\ new.fd = old.fd /\ new.pc = old.pc
      /\ new.alone = old.alone
  BY <1>2 DEF Sink, SinkOf, Process
<1>4. sink' = Append(sink, new)
  BY DEF Fork, old
<1> HIDE DEF new
<1>5. /\ sink' \in Seq(Sink) /\ Len(sink') = Len(sink) + 1 /\ DOMAIN sink' = 1 .. Len(sink) + 1
      /\ \A t \in 1 .. Len(sink) : sink'[t] = sink[t]
      /\ sink'[Len(sink) + 1] = new
  BY <1>1, <1>3, <1>4
<1>6. TypeOK'
  <2>1. author' \in Seq(1 .. Len(sink'))
    <3>1. author' = author /\ author \in Seq(1 .. Len(sink))
      BY DEF Fork, IInv, TypeOK
    <3> QED BY <1>1, <1>5, <3>1, SeqMonotonic
  <2>2. \A t \in DOMAIN sink' : sink'[t].fd = 0 <=> sink'[t].pc # "ready"
    <3> SUFFICES ASSUME NEW t \in DOMAIN sink'
                 PROVE  sink'[t].fd = 0 <=> sink'[t].pc # "ready"
      OBVIOUS
    <3>1. CASE t = Len(sink) + 1
      BY <1>2, <1>3, <1>5, <3>1
    <3>2. CASE t \in 1 .. Len(sink)
      BY <1>1, <1>5, <3>2 DEF IInv, TypeOK
    <3> QED BY <1>1, <1>5, <3>1, <3>2
  <2>3. uses' \in [Role -> 0 .. Len(sink')]
    <3>1. uses' = [uses EXCEPT !["master"] = Len(sink) + 1, !["slave"] = Len(sink) + 1]
      BY DEF Fork
    <3>2. uses \in [Role -> 0 .. Len(sink) + 1] /\ Len(sink) + 1 \in 0 .. Len(sink) + 1
      BY <1>1 DEF IInv, TypeOK
    <3>3. uses' \in [Role -> 0 .. Len(sink) + 1]
      BY <3>1, <3>2
    <3> QED BY <1>5, <3>3
  <2>4. up' \subseteq Process
    BY DEF Fork, IInv, TypeOK, Process
  <2> QED BY <1>5, <2>1, <2>2, <2>3, <2>4 DEF Fork, IInv, TypeOK, Sink, SinkOf
<1>7. Running'
  <2> SUFFICES ASSUME NEW q \in up' PROVE uses'[q] # 0 /\ sink'[uses'[q]].proc = q
    BY DEF Running
  <2>0. q \in {"daemon", "master"}
    BY DEF Fork, IInv, TypeOK, Process
  <2>1. CASE q = "master"
    <3>1. uses'[q] = Len(sink) + 1
      BY <2>1 DEF Fork, IInv, TypeOK, Role
    <3> QED BY <1>1, <1>3, <1>5, <2>1, <3>1
  <2>2. CASE q = "daemon"
    <3>1. uses'[q] = uses[q] /\ sink[uses[q]].proc = q
      BY <2>2 DEF Fork, IInv, TypeOK, Role, Running
    <3> QED BY <1>1, <1>5, <2>2, <3>1
  <2> QED BY <2>0, <2>1, <2>2
<1>8. SawNames'
  <2> SUFFICES ASSUME NEW t \in DOMAIN sink', sink'[t].alone
               PROVE  /\ sink'[t].pc = "remove" => name[1] # 0
                      /\ sink'[t].pc = "rename" => name[0] # 0
    BY DEF SawNames, Fork
  <2>1. CASE t = Len(sink) + 1
    BY <1>2, <1>3, <1>5, <2>1
  <2>2. CASE t \in 1 .. Len(sink)
    BY <1>1, <1>5, <2>2 DEF IInv, SawNames
  <2> QED BY <1>1, <1>5, <2>1, <2>2
<1> QED BY <1>6, <1>7, <1>8 DEF IInv, ThrowsOnlyInRace, Fork

LEMMA DieIInv == ASSUME IInv, NEW p \in Process, Die(p) PROVE IInv'
<1>1. Gone(p) /\ UNCHANGED <<inode, name, desc, sink, author, faults, thrown>>
  BY DEF Die
<1> QED BY <1>1, GoneIInv DEF IInv, TypeOK, ThrowsOnlyInRace

LEMMA BeginsToRotate ==
  ASSUME NEW r \in Sink, NEW n \in Nat
  PROVE  LET q == [r EXCEPT !.size = n, !.fd = 0, !.pc = "stat1", !.alone = TRUE]
         IN  q \in Sink /\ q.proc = r.proc /\ q.fd = 0 /\ q.pc = "stat1"
<1>1. 0 \in 0 .. Len(desc)
  BY DEF Sink, SinkOf
<1> QED BY <1>1 DEF Sink, SinkOf, Place

LEMMA LogIInv == ASSUME IInv, NEW r \in Role, Log(r) PROVE IInv'
<1> DEFINE s == uses[r]
<1>1. /\ s \in 1 .. Len(sink) /\ sink[s].pc = "ready" /\ DOMAIN sink = 1 .. Len(sink)
      /\ sink \in Seq(Sink) /\ author \in Seq(1 .. Len(sink))
      /\ inode \in Seq(Content) /\ desc \in Seq(Desc)
  BY DEF Log, IInv, TypeOK, Sink, SinkOf, Content, Desc
<1>2. sink[s] \in Sink /\ (sink[s].fd = 0 <=> sink[s].pc # "ready")
  BY <1>1, ElementOfSeq DEF IInv, TypeOK
<1>3. Count(s) \in Nat
  BY <1>2 DEF Count, Sink, SinkOf
<1>4. UNCHANGED <<name, uses, up, faults, thrown>>
  BY DEF Log
<1>5. CASE Count(s) > MaxSize
  <2> DEFINE new == [sink[s] EXCEPT !.size = Count(s), !.fd = 0, !.pc = "stat1", !.alone = TRUE]
  <2>1. /\ new \in Sink /\ new.proc = sink[s].proc /\ new.fd = 0 /\ new.pc = "stat1"
    BY <1>2, <1>3, BeginsToRotate
  <2>2. sink' = [sink EXCEPT ![s] = new] /\ UNCHANGED <<inode, desc, author>>
    BY <1>5 DEF Log
  <2> HIDE DEF new, s
  <2> QED BY <1>1, <1>4, <2>1, <2>2, OneSink DEF Content
<1>6. CASE ~(Count(s) > MaxSize)
  <2> DEFINE new == [sink[s] EXCEPT !.size = Count(s)]
  <2>1. /\ new \in Sink /\ new.proc = sink[s].proc /\ new.fd = sink[s].fd /\ new.pc = "ready"
    BY <1>1, <1>2, <1>3 DEF Sink, SinkOf
  <2>2. sink' = [sink EXCEPT ![s] = new] /\ Write(s, sink[s].fd, inode, desc)
    BY <1>6 DEF Log
  <2>3. sink[s].fd \in 1 .. Len(desc)
    BY <1>1, <1>2 DEF Sink, SinkOf
  <2>4. /\ author' \in Seq(1 .. Len(sink)) /\ Len(author') = Len(author) + 1
        /\ inode' \in Seq(Seq(0 .. Len(author'))) /\ Len(inode') = Len(inode)
        /\ desc' \in Seq(Desc) /\ Len(desc') = Len(desc)
    BY <1>1, <2>2, <2>3, WriteTyped DEF Desc
  <2> HIDE DEF new, s
  <2> QED BY <1>1, <1>2, <1>4, <2>1, <2>2, <2>4, OneSink
<1> QED BY <1>5, <1>6
-----------------------------------------------------------------------------
(* The steps of a rotation                                                 *)

(* A step of sink s that changes a name.                                   *)
LEMMA Meddles ==
  ASSUME IInv, NEW s \in DOMAIN sink, NEW new \in SinkOf(Len(desc')),
         new.fd = 0 <=> new.pc # "ready", new.proc = sink[s].proc,
         new.pc \in {"ready", "stat0", "open"},
         sink' = Meddle(s, new), UNCHANGED <<uses, up, faults, thrown>>,
         author' \in Seq(1 .. Len(sink)), inode' \in Seq(Seq(0 .. Len(author'))),
         name' \in [{0, 1} -> 0 .. Len(inode')],
         desc' \in Seq([file : 1 .. Len(inode'), offset : Nat, append : BOOLEAN]),
         Len(desc) <= Len(desc')
  PROVE  IInv'
<1>1. s \in 0 .. Len(sink) /\ s # 0 /\ Len(desc') \in Nat
  BY SMTT(30) DEF IInv, TypeOK
<1>2. /\ sink' \in Seq(SinkOf(Len(desc'))) /\ Len(sink') = Len(sink)
      /\ DOMAIN sink' = 1 .. Len(sink)
      /\ \A t \in DOMAIN sink' : sink'[t].fd = 0 <=> sink'[t].pc # "ready"
      /\ \A t \in DOMAIN sink' : sink'[t].proc = sink[t].proc /\ (t # s => ~sink'[t].alone)
      /\ sink'[s] = new
  BY SMTT(30), <1>1, MeddleTyped DEF IInv
<1>3. TypeOK'
  BY <1>2 DEF IInv, TypeOK, SinkOf
<1>4. Running'
  <2> SUFFICES ASSUME NEW p \in up PROVE uses[p] # 0 /\ sink'[uses[p]].proc = p
    BY DEF Running
  <2>1. p \in Role /\ uses[p] # 0 /\ sink[uses[p]].proc = p
    BY DEF IInv, TypeOK, Running, Process, Role
  <2>2. uses[p] \in 1 .. Len(sink)
    BY <2>1 DEF IInv, TypeOK
  <2> QED BY <1>2, <2>1, <2>2
<1>5. SawNames'
  <2> SUFFICES ASSUME NEW t \in DOMAIN sink', sink'[t].alone
               PROVE  sink'[t].pc # "remove" /\ sink'[t].pc # "rename"
    BY DEF SawNames
  <2>1. t = s
    BY <1>2
  <2>2. sink'[t] = new
    BY <1>2, <2>1, Zenon
  <2> QED BY <2>2
<1> QED BY <1>3, <1>4, <1>5 DEF IInv, ThrowsOnlyInRace

LEMMA Moved ==
  ASSUME NEW r \in Sink, NEW q \in Place
  PROVE  LET new == [r EXCEPT !.pc = q] IN
         /\ new \in Sink /\ new.fd = r.fd /\ new.pc = q
         /\ new.proc = r.proc /\ new.alone = r.alone
BY DEF Sink, SinkOf

(* A rotation at any place: what the steps below rely on.                  *)
LEMMA AtPlace ==
  ASSUME IInv, NEW s \in DOMAIN sink, NEW pc \in Place \ {"ready"}, sink[s].pc = pc
  PROVE  /\ sink[s] \in Sink /\ sink[s].fd = 0 /\ sink[s].proc \in Process
         /\ author \in Seq(1 .. Len(sink)) /\ inode \in Seq(Seq(0 .. Len(author)))
         /\ desc \in Seq(Desc) /\ Len(desc) \in Nat
         /\ \A q \in Place \ {"ready"} :
              LET new == [sink[s] EXCEPT !.pc = q] IN
              /\ new \in Sink /\ new.fd = 0 /\ new.pc = q
              /\ new.proc = sink[s].proc /\ new.alone = sink[s].alone
<1>1. sink \in Seq(Sink) /\ DOMAIN sink = 1 .. Len(sink)
  BY DEF IInv, TypeOK, Sink, SinkOf
<1>2. sink[s] \in Sink
  BY <1>1, ElementOfSeq
<1>3. sink[s].fd = 0
  BY <1>1 DEF IInv, TypeOK
<1>4. sink[s].proc \in Process
  BY <1>2 DEF Sink, SinkOf
<1>5. \A q \in Place \ {"ready"} :
        LET new == [sink[s] EXCEPT !.pc = q] IN
        /\ new \in Sink /\ new.fd = 0 /\ new.pc = q
        /\ new.proc = sink[s].proc /\ new.alone = sink[s].alone
  BY <1>2, <1>3, Moved
<1>6. /\ author \in Seq(1 .. Len(sink)) /\ inode \in Seq(Seq(0 .. Len(author)))
      /\ desc \in Seq(Desc) /\ Len(desc) \in Nat
  BY DEF IInv, TypeOK, Desc
<1> QED BY <1>2, <1>3, <1>4, <1>5, <1>6

LEMMA LookIInv ==
  ASSUME IInv, NEW s \in DOMAIN sink, StatTarget(s) \/ StatSource(s)
  PROVE  IInv'
<1>1. CASE StatTarget(s)
  <2> DEFINE q == IF name[1] = 0 THEN "stat0" ELSE "remove"
             new == [sink[s] EXCEPT !.pc = q]
  <2>1. sink[s].pc = "stat1" /\ sink' = [sink EXCEPT ![s] = new]
        /\ UNCHANGED <<inode, name, desc, uses, up, author, faults, thrown>>
    BY <1>1 DEF StatTarget, Rotating
  <2>2. q \in Place \ {"ready"} /\ "stat1" \in Place \ {"ready"}
    BY DEF Place
  <2>3. q = "remove" => name[1] # 0
    OBVIOUS
  <2>4. q # "rename"
    OBVIOUS
  <2>5. /\ new \in Sink /\ new.fd = 0 /\ new.pc = q
        /\ new.proc = sink[s].proc
        /\ author \in Seq(1 .. Len(sink)) /\ inode \in Seq(Seq(0 .. Len(author)))
        /\ desc \in Seq(Desc)
    <3> HIDE DEF q
    <3> QED BY <2>1, <2>2, AtPlace
  <2>6. q # "ready"
    OBVIOUS
  <2> HIDE DEF q, new
  <2> QED BY <2>1, <2>3, <2>4, <2>5, <2>6, OneSink
<1>2. CASE StatSource(s)
  <2> DEFINE q == IF name[0] = 0 THEN "open" ELSE "rename"
             new == [sink[s] EXCEPT !.pc = q]
  <2>1. sink[s].pc = "stat0" /\ sink' = [sink EXCEPT ![s] = new]
        /\ UNCHANGED <<inode, name, desc, uses, up, author, faults, thrown>>
    BY <1>2 DEF StatSource, Rotating
  <2>2. q \in Place \ {"ready"} /\ "stat0" \in Place \ {"ready"}
    BY DEF Place
  <2>3. q = "rename" => name[0] # 0
    OBVIOUS
  <2>4. q # "remove"
    OBVIOUS
  <2>5. /\ new \in Sink /\ new.fd = 0 /\ new.pc = q
        /\ new.proc = sink[s].proc
        /\ author \in Seq(1 .. Len(sink)) /\ inode \in Seq(Seq(0 .. Len(author)))
        /\ desc \in Seq(Desc)
    <3> HIDE DEF q
    <3> QED BY <2>1, <2>2, AtPlace
  <2>6. q # "ready"
    OBVIOUS
  <2> HIDE DEF q, new
  <2> QED BY <2>1, <2>3, <2>4, <2>5, <2>6, OneSink
<1> QED BY <1>1, <1>2

(* The name that the step needs was there when the sink looked, so that    *)
(* it is missing only if somebody else has changed it.                     *)
LEMMA RemoveIInv == ASSUME IInv, NEW s \in DOMAIN sink, Remove(s) PROVE IInv'
<1>1. sink[s].pc = "remove" /\ "remove" \in Place \ {"ready"} /\ "stat0" \in Place \ {"ready"}
  BY DEF Remove, Rotating, Place
<1>2. CASE name[1] = 0
  <2>1. /\ Gone(sink[s].proc) /\ UNCHANGED <<inode, name, desc, sink, author, faults>>
        /\ thrown' = thrown \cup {sink[s].alone}
    BY <1>2 DEF Remove, Throw
  <2>2. sink[s].alone = FALSE /\ sink[s].proc \in Process
    BY <1>1, <1>2, AtPlace DEF IInv, SawNames, Sink, SinkOf
  <2> QED BY <2>1, <2>2, GoneIInv DEF IInv, TypeOK, ThrowsOnlyInRace
<1>3. CASE name[1] # 0
  <2> DEFINE new == [sink[s] EXCEPT !.pc = "stat0"]
  <2>1. /\ name' = [name EXCEPT ![1] = 0] /\ sink' = Meddle(s, new)
        /\ UNCHANGED <<inode, desc, uses, up, author, faults, thrown>>
    BY <1>3 DEF Remove
  <2>2. name' \in [{0, 1} -> 0 .. Len(inode')]
    BY <2>1 DEF IInv, TypeOK
  <2>3. /\ new \in Sink /\ new.fd = 0 /\ new.pc = "stat0" /\ new.proc = sink[s].proc
        /\ author \in Seq(1 .. Len(sink)) /\ inode \in Seq(Seq(0 .. Len(author)))
        /\ desc \in Seq(Desc) /\ Len(desc) \in Nat
    BY SMTT(30), <1>1, AtPlace
  <2> HIDE DEF new
  <2>4. /\ new \in SinkOf(Len(desc')) /\ Len(desc) <= Len(desc')
        /\ author' \in Seq(1 .. Len(sink)) /\ inode' \in Seq(Seq(0 .. Len(author')))
        /\ desc' \in Seq([file : 1 .. Len(inode'), offset : Nat, append : BOOLEAN])
    BY <2>1, <2>3 DEF Sink, Desc
  <2> QED BY <2>1, <2>2, <2>3, <2>4, Meddles
<1> QED BY <1>2, <1>3

LEMMA RenameIInv == ASSUME IInv, NEW s \in DOMAIN sink, Rename(s) PROVE IInv'
<1>1. sink[s].pc = "rename" /\ "rename" \in Place \ {"ready"} /\ "open" \in Place \ {"ready"}
  BY DEF Rename, Rotating, Place
<1>2. CASE name[0] = 0
  <2>1. /\ Gone(sink[s].proc) /\ UNCHANGED <<inode, name, desc, sink, author, faults>>
        /\ thrown' = thrown \cup {sink[s].alone}
    BY <1>2 DEF Rename, Throw
  <2>2. sink[s].alone = FALSE /\ sink[s].proc \in Process
    BY <1>1, <1>2, AtPlace DEF IInv, SawNames, Sink, SinkOf
  <2> QED BY <2>1, <2>2, GoneIInv DEF IInv, TypeOK, ThrowsOnlyInRace
<1>3. CASE name[0] # 0
  <2> DEFINE new == [sink[s] EXCEPT !.pc = "open"]
  <2>1. /\ name' = [i \in {0, 1} |-> IF i = 1 THEN name[0] ELSE 0] /\ sink' = Meddle(s, new)
        /\ UNCHANGED <<inode, desc, uses, up, author, faults, thrown>>
    BY <1>3 DEF Rename
  <2>2. name' \in [{0, 1} -> 0 .. Len(inode')]
    BY <2>1 DEF IInv, TypeOK
  <2>3. /\ new \in Sink /\ new.fd = 0 /\ new.pc = "open" /\ new.proc = sink[s].proc
        /\ author \in Seq(1 .. Len(sink)) /\ inode \in Seq(Seq(0 .. Len(author)))
        /\ desc \in Seq(Desc) /\ Len(desc) \in Nat
    BY <1>1, AtPlace
  <2> HIDE DEF new
  <2>4. /\ new \in SinkOf(Len(desc')) /\ Len(desc) <= Len(desc')
        /\ author' \in Seq(1 .. Len(sink)) /\ inode' \in Seq(Seq(0 .. Len(author')))
        /\ desc' \in Seq([file : 1 .. Len(inode'), offset : Nat, append : BOOLEAN])
    BY <2>1, <2>3 DEF Sink, Desc
  <2> QED BY <2>1, <2>2, <2>3, <2>4, Meddles
<1> QED BY <1>2, <1>3

LEMMA ReopenIInv == ASSUME IInv, NEW s \in DOMAIN sink, Reopen(s) PROVE IInv'
<1> DEFINE content == IF name[0] = 0 THEN Append(inode, <<>>) ELSE [inode EXCEPT ![File0] = <<>>]
           file == [file |-> File0, offset |-> 0, append |-> FALSE]
           opened == Append(desc, file)
           new == [sink[s] EXCEPT !.pc = "ready", !.size = 1, !.fd = Len(desc) + 1]
           DescOf(n) == [file : 1 .. n, offset : Nat, append : BOOLEAN]
<1>1. /\ sink[s].pc = "open" /\ "open" \in Place \ {"ready"}
      /\ name' = [name EXCEPT ![0] = File0]
      /\ Write(s, Len(desc) + 1, content, opened)
      /\ sink' = Meddle(s, new) /\ UNCHANGED <<uses, up, faults, thrown>>
  BY DEF Reopen, Rotating, Place
<1>2. /\ sink[s] \in Sink /\ author \in Seq(1 .. Len(sink)) /\ inode \in Seq(Content)
      /\ desc \in Seq(Desc) /\ Len(desc) \in Nat /\ Len(inode) \in Nat
      /\ s \in 1 .. Len(sink) /\ name \in [{0, 1} -> 0 .. Len(inode)]
  <2>1. sink[s] \in Sink
    BY <1>1, AtPlace
  <2>2. desc \in Seq(Desc) /\ inode \in Seq(Content)
    BY DEF IInv, TypeOK, Desc, Content
  <2> QED BY <2>1, <2>2 DEF IInv, TypeOK
<1>3. <<>> \in Content
  BY DEF Content
<1>4. /\ content \in Seq(Content) /\ Len(inode) <= Len(content) /\ Len(content) \in Nat
      /\ File0 \in 1 .. Len(content)
  <2>1. CASE name[0] = 0
    BY <1>2, <1>3, <2>1 DEF File0
  <2>2. CASE name[0] # 0
    <3>1. File0 \in 1 .. Len(inode) /\ content = [inode EXCEPT ![File0] = <<>>]
      BY <1>2, <2>2 DEF File0
    <3> HIDE DEF content
    <3> QED BY <1>2, <1>3, <3>1, ExceptSeq
  <2> QED BY <2>1, <2>2
<1> HIDE DEF content
<1>5. opened \in Seq(DescOf(Len(content))) /\ Len(opened) = Len(desc) + 1
  <2>1. Desc \subseteq DescOf(Len(content))
    BY <1>2, <1>4 DEF Desc
  <2>2. desc \in Seq(DescOf(Len(content)))
    BY <1>2, <2>1, SeqMonotonic
  <2>3. file \in DescOf(Len(content))
    BY <1>4
  <2> HIDE DEF file, DescOf
  <2> QED BY <1>2, <2>2, <2>3
<1> HIDE DEF opened
<1>6. Len(desc) + 1 \in 1 .. Len(opened)
  BY <1>2, <1>5
<1>7. /\ author' \in Seq(1 .. Len(sink)) /\ inode' \in Seq(Seq(0 .. Len(author')))
      /\ Len(inode') = Len(content)
      /\ desc' \in Seq(DescOf(Len(content))) /\ Len(desc') = Len(opened)
  BY <1>1, <1>2, <1>4, <1>5, <1>6, WriteTyped
<1>8. name' \in [{0, 1} -> 0 .. Len(inode')]
  <2>1. name \in [{0, 1} -> 0 .. Len(content)] /\ File0 \in 0 .. Len(content)
    BY <1>2, <1>4
  <2> QED BY <1>1, <1>7, <2>1
<1>9. /\ new \in SinkOf(Len(desc')) /\ new.fd # 0 /\ new.pc = "ready"
      /\ new.proc = sink[s].proc
  <2>1. Len(desc) + 1 \in 0 .. Len(desc') /\ Len(desc) + 1 # 0
    BY <1>2, <1>5, <1>7
  <2> QED BY <1>2, <2>1 DEF Sink, SinkOf, Place
<1> HIDE DEF new
<1>10. /\ Len(desc) <= Len(desc')
       /\ desc' \in Seq([file : 1 .. Len(inode'), offset : Nat, append : BOOLEAN])
  BY <1>2, <1>5, <1>7
<1>11. new.fd = 0 <=> new.pc # "ready"
  BY <1>9
<1>12. new.pc \in {"ready", "stat0", "open"}
  BY <1>9
<1> QED BY <1>1, <1>7, <1>8, <1>9, <1>10, <1>11, <1>12, Meddles

LEMMA ReopenFailsIInv == ASSUME IInv, NEW s \in DOMAIN sink, ReopenFails(s) PROVE IInv'
<1>1. sink[s].pc = "open" /\ "open" \in Place \ {"ready"}
  BY DEF ReopenFails, Rotating, Place
<1>2. sink[s].proc \in Process
  BY <1>1, AtPlace
<1>3. /\ Gone(sink[s].proc) /\ UNCHANGED <<inode, name, desc, sink, author, thrown>>
      /\ faults' = faults + 1 /\ faults < Faults
  BY DEF ReopenFails, Throw
<1>4. faults' \in 0 .. Faults
  BY <1>3, RotationAssumption DEF IInv, TypeOK
<1> QED BY <1>2, <1>3, <1>4, GoneIInv DEF IInv, TypeOK, ThrowsOnlyInRace
-----------------------------------------------------------------------------
LEMMA NextIInv == ASSUME IInv, [Next]_vars PROVE IInv'
<1>1. CASE UNCHANGED vars
  BY <1>1 DEF vars, IInv, TypeOK, Running, SawNames, ThrowsOnlyInRace
<1>2. ASSUME NEW p \in Process, Load(p) \/ Die(p) PROVE IInv'
  BY <1>2, LoadIInv, DieIInv
<1>3. CASE Fork
  BY <1>3, ForkIInv
<1>4. ASSUME NEW r \in Role, Log(r) PROVE IInv'
  BY <1>4, LogIInv
<1>5. ASSUME NEW s \in DOMAIN sink, Rotate(s) PROVE IInv'
  BY <1>5, LookIInv, RemoveIInv, RenameIInv, ReopenIInv, ReopenFailsIInv DEF Rotate
<1> QED BY <1>1, <1>2, <1>3, <1>4, <1>5 DEF Next

LEMMA SpecIInv == Spec => []IInv
BY InitIInv, NextIInv, PTL DEF Spec

(* Every variable has its type; a sink has a file open exactly when it is  *)
(* not in the middle of a rotation.                                        *)
THEOREM RotationTypeCorrect == Spec => []TypeOK
BY SpecIInv, PTL DEF IInv

(* Without a failing call, a rotation takes its process down only when     *)
(* another sink has changed a name since it began.                         *)
THEOREM AloneNeverThrows == Spec => []ThrowsOnlyInRace
BY SpecIInv, PTL DEF IInv
-----------------------------------------------------------------------------
(***************************************************************************)
(* The size of a file                                                      *)
(***************************************************************************)

(* Where the sink s has written in the contents c, if a are the authors.   *)
OwnIn(c, a, s) == {k \in DOMAIN c : c[k] # Hole /\ a[c[k]] = s}
Own(s, i) == OwnIn(inode[i], author, s)

(* A sink counts what it has written to its open file, perhaps more: what  *)
(* was there, and what is overwritten or emptied under it.                 *)
OwnCounted ==
  \A s \in DOMAIN sink : sink[s].pc = "ready" =>
    Cardinality(Own(s, desc[sink[s].fd].file)) <= sink[s].size

OwnBounded == \A s \in DOMAIN sink : \A i \in DOMAIN inode : Cardinality(Own(s, i)) <= MaxSize

Sized == OwnCounted /\ OwnBounded

LEMMA OwnFinite ==
  ASSUME NEW S, NEW c \in Seq(S), NEW a, NEW s
  PROVE  IsFiniteSet(OwnIn(c, a, s)) /\ Cardinality(OwnIn(c, a, s)) \in Nat
<1>1. IsFiniteSet(1 .. Len(c)) /\ DOMAIN c = 1 .. Len(c)
  BY FS_Interval
<1>2. OwnIn(c, a, s) \in SUBSET (1 .. Len(c))
  BY <1>1 DEF OwnIn
<1>3. IsFiniteSet(OwnIn(c, a, s))
  BY <1>1, <1>2, FS_Subset
<1> QED BY <1>3, FS_CardinalityType

LEMMA Fewer ==
  ASSUME NEW T, IsFiniteSet(T), NEW S \in SUBSET T
  PROVE  Cardinality(S) <= Cardinality(T)
BY FS_Subset

(* What Put leaves and adds: the record, at its place, and holes.          *)
LEMMA PutContents ==
  ASSUME NEW n \in Nat, NEW c \in Seq(0 .. n), NEW o \in Nat, NEW r \in Nat
  PROVE  \A k \in DOMAIN Put(c, o, r) :
           \/ k = o + 1 /\ Put(c, o, r)[k] = r
           \/ k \in DOMAIN c /\ Put(c, o, r)[k] = c[k]
           \/ k \notin DOMAIN c /\ Put(c, o, r)[k] = Hole
<1>1. Len(c) \in Nat /\ DOMAIN c = 1 .. Len(c)
  OBVIOUS
<1>2. CASE o < Len(c)
  BY <1>1, <1>2 DEF Put
<1>3. CASE ~(o < Len(c))
  <2> DEFINE h == [i \in 1 .. o - Len(c) |-> Hole]
  <2>1. o - Len(c) \in Nat
    BY <1>1, <1>3
  <2>2. h \in Seq({Hole}) /\ Len(h) = o - Len(c) /\ \A i \in 1 .. o - Len(c) : h[i] = Hole
    <3>1. h \in [1 .. o - Len(c) -> {Hole}]
      OBVIOUS
    <3> QED BY <2>1, <3>1, SeqDef
  <2> HIDE DEF h
  <2>3. c \in Seq((0 .. n) \cup {Hole}) /\ h \in Seq((0 .. n) \cup {Hole})
    BY <2>2, SeqMonotonic
  <2>4. /\ c \o h \in Seq((0 .. n) \cup {Hole}) /\ Len(c \o h) = Len(c) + Len(h)
        /\ \A i \in 1 .. Len(c) + Len(h) : (c \o h)[i] = IF i <= Len(c) THEN c[i] ELSE h[i - Len(c)]
    BY <2>3, ConcatProperties
  <2>5. Len(c \o h) = o
    BY <1>1, <2>1, <2>2, <2>4
  <2>6. \A i \in 1 .. o : (c \o h)[i] = IF i \in DOMAIN c THEN c[i] ELSE Hole
    <3> SUFFICES ASSUME NEW i \in 1 .. o PROVE (c \o h)[i] = IF i \in DOMAIN c THEN c[i] ELSE Hole
      OBVIOUS
    <3>1. CASE i <= Len(c)
      BY <1>1, <2>4, <2>5, <3>1
    <3>2. CASE ~(i <= Len(c))
      <4>1. i - Len(c) \in 1 .. o - Len(c) /\ i \notin DOMAIN c
        BY <1>1, <2>1, <3>2
      <4> QED BY <2>2, <2>4, <2>5, <3>2, <4>1
    <3> QED BY <3>1, <3>2
  <2>7. Put(c, o, r) = Append(c \o h, r)
    BY <1>3 DEF Put, Fill, h
  <2>8. /\ DOMAIN Append(c \o h, r) = 1 .. o + 1 /\ Append(c \o h, r)[o + 1] = r
        /\ \A i \in 1 .. o : Append(c \o h, r)[i] = (c \o h)[i]
    <3>1. PICK b : b = c \o h
      OBVIOUS
    <3>2. b \in Seq((0 .. n) \cup {Hole, r}) /\ r \in (0 .. n) \cup {Hole, r} /\ Len(b) = o
      BY <2>4, <2>5, <3>1, SeqMonotonic
    <3>3. /\ Append(b, r) \in Seq((0 .. n) \cup {Hole, r}) /\ Len(Append(b, r)) = o + 1
          /\ Append(b, r)[o + 1] = r /\ \A i \in 1 .. o : Append(b, r)[i] = b[i]
      BY <3>2, AppendProperties
    <3>4. DOMAIN Append(b, r) = 1 .. Len(Append(b, r))
      BY <3>3
    <3> QED BY <3>1, <3>3, <3>4
  <2>9. \A k \in 1 .. o + 1 : k = o + 1 \/ k \in 1 .. o
    OBVIOUS
  <2> QED BY <2>6, <2>7, <2>8, <2>9
<1> QED BY <1>2, <1>3

(* A write adds at most one to what its sink has in the file, and takes    *)
(* from the others.                                                        *)
LEMMA PutOwn ==
  ASSUME NEW m \in Nat, NEW a \in Seq(1 .. m), NEW c \in Seq(0 .. Len(a)), NEW o \in Nat,
         NEW s \in 1 .. m, NEW t,
         NEW c2, c2 = Put(c, o, Len(a) + 1), NEW a2, a2 = Append(a, s)
  PROVE  /\ t # s => Cardinality(OwnIn(c2, a2, t)) <= Cardinality(OwnIn(c, a, t))
         /\ Cardinality(OwnIn(c2, a2, t)) <= Cardinality(OwnIn(c, a, t)) + 1
<1>1. Len(a) \in Nat /\ DOMAIN a = 1 .. Len(a) /\ Len(a) + 1 \in Nat
  OBVIOUS
<1>2. a2[Len(a) + 1] = s /\ \A r \in 1 .. Len(a) : a2[r] = a[r]
  BY AppendProperties
<1>3. \A k \in DOMAIN c2 : \/ k = o + 1 /\ c2[k] = Len(a) + 1
                           \/ k \in DOMAIN c /\ c2[k] = c[k]
                           \/ k \notin DOMAIN c /\ c2[k] = Hole
  BY <1>1, PutContents
<1>4. \A k \in DOMAIN c : c[k] \in 0 .. Len(a)
  OBVIOUS
<1>5. \A k \in OwnIn(c2, a2, t) : k \in OwnIn(c, a, t) \/ (k = o + 1 /\ t = s)
  <2> SUFFICES ASSUME NEW k \in DOMAIN c2, c2[k] # Hole, a2[c2[k]] = t
               PROVE  k \in OwnIn(c, a, t) \/ (k = o + 1 /\ t = s)
    BY DEF OwnIn
  <2>1. CASE k = o + 1 /\ c2[k] = Len(a) + 1
    BY <1>2, <2>1
  <2>2. CASE k \in DOMAIN c /\ c2[k] = c[k]
    <3>1. c[k] \in 1 .. Len(a)
      BY <1>1, <1>4, <2>2 DEF Hole
    <3> QED BY <1>2, <2>2, <3>1 DEF OwnIn
  <2> QED BY <1>3, <2>1, <2>2
<1>6. IsFiniteSet(OwnIn(c, a, t)) /\ Cardinality(OwnIn(c, a, t)) \in Nat
  BY OwnFinite
<1>7. t # s => Cardinality(OwnIn(c2, a2, t)) <= Cardinality(OwnIn(c, a, t))
  <2> SUFFICES ASSUME t # s PROVE OwnIn(c2, a2, t) \subseteq OwnIn(c, a, t)
    BY <1>6, Fewer
  <2> QED BY <1>5
<1>8. Cardinality(OwnIn(c2, a2, t)) <= Cardinality(OwnIn(c, a, t)) + 1
  <2> DEFINE U == OwnIn(c, a, t) \cup {o + 1}
  <2>0. IsFiniteSet(U)
        /\ Cardinality(U) = IF o + 1 \in OwnIn(c, a, t) THEN Cardinality(OwnIn(c, a, t))
                             ELSE Cardinality(OwnIn(c, a, t)) + 1
    BY <1>6, FS_AddElement
  <2>1. IsFiniteSet(U) /\ Cardinality(U) \in Nat /\ Cardinality(U) <= Cardinality(OwnIn(c, a, t)) + 1
    <3> HIDE DEF U
    <3> QED BY <1>6, <2>0
  <2>2. OwnIn(c2, a2, t) \in SUBSET U
    BY <1>5
  <2>3. Cardinality(OwnIn(c2, a2, t)) <= Cardinality(U)
    <3> HIDE DEF U
    <3> QED BY <2>1, <2>2, Fewer
  <2>4. Cardinality(OwnIn(c2, a2, t)) \in Nat
    BY <2>1, <2>2, FS_Subset, FS_CardinalityType
  <2> HIDE DEF U
  <2> QED BY <1>6, <2>1, <2>3, <2>4
<1> QED BY <1>7, <1>8

(* A write to the file i of the given contents: the files of the other     *)
(* descriptors stay what they are.                                         *)
LEMMA WriteOwn ==
  ASSUME author \in Seq(1 .. Len(sink)), NEW s \in 1 .. Len(sink),
         NEW content \in Seq(Content),
         NEW opened \in Seq([file : 1 .. Len(content), offset : Nat, append : BOOLEAN]),
         NEW d \in 1 .. Len(opened), Write(s, d, content, opened)
  PROVE  /\ \A e \in 1 .. Len(opened) : desc'[e].file = opened[e].file
         /\ \A i \in 1 .. Len(content) : \A t :
              LET before == Cardinality(OwnIn(content[i], author, t))
                  after  == Cardinality(OwnIn(inode'[i], author', t))
              IN  /\ t # s \/ i # opened[d].file => after <= before
                  /\ after <= before + 1 /\ before \in Nat /\ after \in Nat
                  /\ content[i] = <<>> => before = 0
<1> DEFINE o == opened[d]
           at == IF o.append THEN Len(content[o.file]) ELSE o.offset
<1>0. o \in [file : 1 .. Len(content), offset : Nat, append : BOOLEAN]
  BY ElementOfSeq
<1>1. /\ author' = Append(author, s) /\ Len(author) \in Nat
      /\ inode' = [content EXCEPT ![o.file] = Put(content[o.file], at, Len(author) + 1)]
      /\ desc' = [opened EXCEPT ![d].offset = at + 1]
  BY DEF Write
<1>2. o.file \in 1 .. Len(content) /\ o.offset \in Nat /\ o.append \in BOOLEAN
  BY <1>0
<1>3. /\ \A i \in 1 .. Len(content) : content[i] \in Seq(0 .. Len(author))
      /\ DOMAIN content = 1 .. Len(content) /\ DOMAIN opened = 1 .. Len(opened)
  BY SMTT(30), ElementOfSeq DEF Content
<1>4. at \in Nat
  <2> HIDE DEF o
  <2>1. Len(content[o.file]) \in Nat
    BY <1>2, <1>3
  <2> QED BY <1>2, <2>1
<1> HIDE DEF o, at
<1>5. \A e \in 1 .. Len(opened) : desc'[e].file = opened[e].file
  BY <1>1, <1>3
<1>6. /\ Len(author') \in Nat /\ Len(inode') = Len(content)
      /\ \A i \in 1 .. Len(content) : inode'[i] \in Seq(0 .. Len(author'))
  <2>1. /\ author' \in Seq(1 .. Len(sink)) /\ Len(author') = Len(author) + 1
        /\ inode' \in Seq(Seq(0 .. Len(author'))) /\ Len(inode') = Len(content)
    BY WriteTyped
  <2>2. \A i \in 1 .. Len(inode') : inode'[i] \in Seq(0 .. Len(author'))
    BY <2>1, ElementOfSeq
  <2> QED BY <1>1, <2>1, <2>2
<1>7. ASSUME NEW i \in 1 .. Len(content), NEW t
      PROVE  LET before == Cardinality(OwnIn(content[i], author, t))
                 after  == Cardinality(OwnIn(inode'[i], author', t))
             IN  /\ t # s \/ i # o.file => after <= before
                 /\ after <= before + 1 /\ before \in Nat /\ after \in Nat
                 /\ content[i] = <<>> => before = 0
  <2> DEFINE before == Cardinality(OwnIn(content[i], author, t))
             after  == Cardinality(OwnIn(inode'[i], author', t))
  <2>1. before \in Nat /\ after \in Nat
    BY <1>3, <1>6, OwnFinite
  <2>2. content[i] = <<>> => before = 0
    <3> SUFFICES ASSUME content[i] = <<>> PROVE OwnIn(content[i], author, t) = {}
      BY FS_EmptySet
    <3> QED BY DEF OwnIn
  <2>3. CASE i = o.file
    <3>1. inode'[i] = Put(content[i], at, Len(author) + 1)
      BY <1>1, <1>2, <1>3, <2>3
    <3>2. (t # s => after <= before) /\ after <= before + 1
      <4>1. Len(sink) \in Nat
        OBVIOUS
      <4>2. content[i] \in Seq(0 .. Len(author))
        BY <1>3
      <4> QED BY <1>1, <1>4, <3>1, <4>1, <4>2, PutOwn
    <3> QED BY <2>1, <2>2, <2>3, <3>2
  <2>4. CASE i # o.file
    <3>1. inode'[i] = content[i]
      BY <1>1, <1>2, <1>3, <2>4
    <3>2. OwnIn(content[i], author', t) = OwnIn(content[i], author, t)
      <4>1. \A k \in DOMAIN content[i] : content[i][k] # Hole => content[i][k] \in 1 .. Len(author)
        <5>1. content[i] \in Seq(0 .. Len(author))
          BY <1>3
        <5>2. \A k \in DOMAIN content[i] : content[i][k] \in 0 .. Len(author)
          BY SMTT(30), <5>1, ElementOfSeq
        <5> QED BY SMTT(30), <1>1, <5>2 DEF Hole
      <4>2. \A r \in 1 .. Len(author) : author'[r] = author[r]
        BY <1>1, AppendProperties
      <4> QED BY <4>1, <4>2 DEF OwnIn
    <3> HIDE DEF before, after
    <3>3. after = before
      BY <3>1, <3>2 DEF before, after
    <3> QED BY <2>1, <2>2, <3>3 DEF before, after
  <2> QED BY <2>3, <2>4
<1> QED BY <1>5, <1>7 DEF o
-----------------------------------------------------------------------------
(* What the types say, element by element.                                 *)
Shape ==
  /\ DOMAIN sink = 1 .. Len(sink) /\ DOMAIN inode = 1 .. Len(inode) /\ DOMAIN desc = 1 .. Len(desc)
  /\ Len(sink) \in Nat /\ Len(inode) \in Nat /\ Len(desc) \in Nat /\ Len(author) \in Nat
  /\ author \in Seq(1 .. Len(sink)) /\ \A r \in 1 .. Len(author) : author[r] \in DOMAIN sink
  /\ \A i \in DOMAIN inode : inode[i] \in Seq(0 .. Len(author))
  /\ \A s \in DOMAIN sink :
       sink[s].size \in Nat /\ (sink[s].pc = "ready" => sink[s].fd \in DOMAIN desc)
  /\ \A d \in DOMAIN desc : desc[d].file \in DOMAIN inode

(* What a sink has written is counted, and a sink that is not there has    *)
(* written nothing.                                                        *)
Owning ==
  \A i \in DOMAIN inode : \A s :
    Cardinality(Own(s, i)) \in Nat /\ (s \notin DOMAIN sink => Cardinality(Own(s, i)) = 0)

LEMMA ShapeOf == IInv => Shape
<1> SUFFICES ASSUME IInv PROVE Shape
  OBVIOUS
<1>1. /\ DOMAIN sink = 1 .. Len(sink) /\ DOMAIN inode = 1 .. Len(inode) /\ DOMAIN desc = 1 .. Len(desc)
      /\ Len(sink) \in Nat /\ Len(inode) \in Nat /\ Len(desc) \in Nat /\ Len(author) \in Nat
      /\ author \in Seq(1 .. Len(sink))
  BY DEF IInv, TypeOK
<1>2. \A r \in 1 .. Len(author) : author[r] \in DOMAIN sink
  BY <1>1, ElementOfSeq
<1>3. \A i \in DOMAIN inode : inode[i] \in Seq(0 .. Len(author))
  BY <1>1, ElementOfSeq DEF IInv, TypeOK
<1>4. \A s \in DOMAIN sink : sink[s] \in Sink /\ (sink[s].fd = 0 <=> sink[s].pc # "ready")
  BY <1>1, ElementOfSeq DEF IInv, TypeOK, Sink, SinkOf
<1>5. \A s \in DOMAIN sink :
        sink[s].size \in Nat /\ (sink[s].pc = "ready" => sink[s].fd \in DOMAIN desc)
  BY <1>1, <1>4 DEF Sink, SinkOf
<1>6. \A d \in DOMAIN desc : desc[d].file \in DOMAIN inode
  <2>1. \A d \in 1 .. Len(desc) : desc[d] \in Desc
    BY ElementOfSeq DEF IInv, TypeOK, Desc
  <2> QED BY <1>1, <2>1 DEF Desc
<1> QED BY <1>1, <1>2, <1>3, <1>5, <1>6 DEF Shape

LEMMA OwningOf == Shape => Owning
<1> SUFFICES ASSUME Shape, NEW i \in DOMAIN inode, NEW s
             PROVE  Cardinality(Own(s, i)) \in Nat /\ (s \notin DOMAIN sink => Cardinality(Own(s, i)) = 0)
  BY DEF Owning
<1>1. inode[i] \in Seq(0 .. Len(author))
  BY DEF Shape
<1>2. Cardinality(Own(s, i)) \in Nat
  BY <1>1, OwnFinite DEF Own
<1>3. ASSUME s \notin DOMAIN sink PROVE Own(s, i) = {}
  <2>1. \A k \in DOMAIN inode[i] : inode[i][k] \in 0 .. Len(author)
    BY <1>1, ElementOfSeq
  <2>2. \A k \in DOMAIN inode[i] : inode[i][k] # Hole => author[inode[i][k]] \in DOMAIN sink
    BY <2>1 DEF Hole, Shape
  <2> QED BY <1>3, <2>2 DEF Own, OwnIn
<1> QED BY <1>2, <1>3, FS_EmptySet

(* The steps that write to no file: a sink that is ready has its file and  *)
(* its count, or is new and has written nothing.                           *)
Kept(s) ==
  /\ s \in DOMAIN sink /\ sink[s].pc = "ready"
  /\ sink'[s].fd = sink[s].fd /\ sink'[s].size = sink[s].size

LEMMA SameFiles ==
  ASSUME Shape, Owning, Shape', Owning', Sized, author' = author,
         DOMAIN sink \subseteq DOMAIN sink', DOMAIN inode \subseteq DOMAIN inode',
         \A i \in DOMAIN inode : inode'[i] = inode[i],
         \A i \in DOMAIN inode' : i \in DOMAIN inode \/ inode'[i] = <<>>,
         \A d \in DOMAIN desc : desc'[d].file = desc[d].file,
         \A s \in DOMAIN sink' : sink'[s].pc = "ready" => s \notin DOMAIN sink \/ Kept(s)
  PROVE  Sized'
<1>1. /\ \A s \in DOMAIN sink : s \in DOMAIN sink'
      /\ \A i \in DOMAIN inode : i \in DOMAIN inode' /\ \A s : Own(s, i)' = Own(s, i)
  BY DEF Own, Shape
<1>2. \A i \in DOMAIN inode' : i \notin DOMAIN inode => \A s : Cardinality(Own(s, i)') = 0
  <2>1. \A i \in DOMAIN inode' : i \notin DOMAIN inode => \A s : Own(s, i)' = {}
    BY DEF Own, OwnIn
  <2> QED BY <2>1, FS_EmptySet
<1>3. ASSUME NEW s \in DOMAIN sink', s \notin DOMAIN sink, NEW i \in DOMAIN inode'
      PROVE  Cardinality(Own(s, i)') = 0
  BY <1>1, <1>2, <1>3 DEF Owning
<1>4. OwnBounded'
  <2> SUFFICES ASSUME NEW s \in DOMAIN sink', NEW i \in DOMAIN inode'
               PROVE  Cardinality(Own(s, i)') <= MaxSize
    BY DEF OwnBounded, Own
  <2>1. CASE s \in DOMAIN sink /\ i \in DOMAIN inode
    BY <1>1, <2>1 DEF Sized, OwnBounded
  <2>2. CASE ~(s \in DOMAIN sink /\ i \in DOMAIN inode)
    BY <1>2, <1>3, <2>2, RotationAssumption
  <2> QED BY <2>1, <2>2
<1>5. OwnCounted'
  <2> SUFFICES ASSUME NEW s \in DOMAIN sink', sink'[s].pc = "ready",
                      NEW i, i = desc'[sink'[s].fd].file
               PROVE  Cardinality(Own(s, i)') <= sink'[s].size
    BY DEF OwnCounted, Own
  <2>0. i \in DOMAIN inode' /\ sink'[s].size \in Nat
    BY DEF Shape
  <2>1. CASE s \notin DOMAIN sink
    BY <1>3, <2>0, <2>1
  <2>2. CASE Kept(s)
    <3>1. /\ s \in DOMAIN sink /\ sink[s].fd \in DOMAIN desc
          /\ i \in DOMAIN inode /\ i = desc[sink[s].fd].file /\ sink'[s].size = sink[s].size
      BY <2>2 DEF Kept, Shape
    <3>2. Cardinality(Own(s, i)) <= sink[s].size
      BY <2>2, <3>1 DEF Kept, Sized, OwnCounted
    <3> QED BY <1>1, <3>1, <3>2
  <2> QED BY <2>1, <2>2
<1> QED BY <1>4, <1>5 DEF Sized

(* A step that writes: the sink counts the record, to a file it has open   *)
(* or that is empty.                                                       *)
LEMMA WriteSized ==
  ASSUME Shape, Shape', Owning, Sized, NEW s \in DOMAIN sink,
         NEW content \in Seq(Content),
         NEW opened \in Seq([file : 1 .. Len(content), offset : Nat, append : BOOLEAN]),
         NEW d \in 1 .. Len(opened), Write(s, d, content, opened),
         DOMAIN sink' = DOMAIN sink, DOMAIN inode' = 1 .. Len(content),
         \A i \in 1 .. Len(content) : content[i] = <<>> \/ (i \in DOMAIN inode /\ content[i] = inode[i]),
         \A e \in DOMAIN desc : e \in 1 .. Len(opened) /\ opened[e].file = desc[e].file,
         sink'[s].fd = d,
         \/ content[opened[d].file] = <<>> /\ sink'[s].size = 1
         \/ /\ sink[s].pc = "ready" /\ sink[s].fd = d
            /\ sink'[s].size = sink[s].size + 1 /\ sink[s].size + 1 <= MaxSize,
         \A t \in DOMAIN sink \ {s} : sink'[t].pc = "ready" => Kept(t)
  PROVE  Sized'
<1> DEFINE Had(t, i) == Cardinality(OwnIn(content[i], author, t))
           Has(t, i) == Cardinality(Own(t, i)')
<1>1. /\ \A e \in 1 .. Len(opened) : desc'[e].file = opened[e].file
      /\ \A i \in 1 .. Len(content) : \A t :
           /\ t # s \/ i # opened[d].file => Has(t, i) <= Had(t, i)
           /\ Has(t, i) <= Had(t, i) + 1 /\ Had(t, i) \in Nat /\ Has(t, i) \in Nat
           /\ content[i] = <<>> => Had(t, i) = 0
  <2>1. author \in Seq(1 .. Len(sink)) /\ s \in 1 .. Len(sink)
    BY DEF Shape
  <2> QED BY <2>1, WriteOwn DEF Own
<1>2. \A i \in 1 .. Len(content) : \A t :
        Had(t, i) = 0 \/ (i \in DOMAIN inode /\ Had(t, i) = Cardinality(Own(t, i)))
  <2> SUFFICES ASSUME NEW i \in 1 .. Len(content), NEW t
               PROVE  Had(t, i) = 0 \/ (i \in DOMAIN inode /\ Had(t, i) = Cardinality(Own(t, i)))
    OBVIOUS
  <2>1. CASE content[i] = <<>>
    BY <1>1, <2>1
  <2>2. CASE i \in DOMAIN inode /\ content[i] = inode[i]
    BY <2>2 DEF Own
  <2> QED BY <2>1, <2>2
<1>3. PICK f \in 1 .. Len(content) : f = opened[d].file
  <2>1. opened[d] \in [file : 1 .. Len(content), offset : Nat, append : BOOLEAN]
    BY ElementOfSeq
  <2> QED BY <2>1
<1> HIDE DEF Had, Has
<1>4. ASSUME NEW t \in DOMAIN sink, NEW i \in 1 .. Len(content) PROVE Had(t, i) <= MaxSize
  <2>1. Had(t, i) = 0 \/ (i \in DOMAIN inode /\ Had(t, i) = Cardinality(Own(t, i)))
    BY <1>2
  <2>2. i \in DOMAIN inode => Cardinality(Own(t, i)) <= MaxSize
    BY DEF Sized, OwnBounded
  <2> QED BY <2>1, <2>2, RotationAssumption
<1>5. Has(s, f) <= sink'[s].size /\ sink'[s].size <= MaxSize /\ sink'[s].size \in Nat
  <2>1. CASE content[f] = <<>> /\ sink'[s].size = 1
    BY <1>1, <1>3, <2>1, RotationAssumption
  <2>2. CASE /\ sink[s].pc = "ready" /\ sink[s].fd = d
             /\ sink'[s].size = sink[s].size + 1 /\ sink[s].size + 1 <= MaxSize
    <3>1. desc[d].file = f /\ d \in DOMAIN desc
      BY <1>3, <2>2 DEF Shape
    <3>2. Cardinality(Own(s, f)) <= sink[s].size
      BY <2>2, <3>1 DEF Sized, OwnCounted
    <3>3. Had(s, f) <= sink[s].size
      <4>1. sink[s].size \in Nat
        BY DEF Shape
      <4>2. Had(s, f) = 0 \/ Had(s, f) = Cardinality(Own(s, f))
        BY <1>2, <1>3
      <4> QED BY <3>2, <4>1, <4>2
    <3>4. sink[s].size \in Nat
      BY DEF Shape
    <3>5. Has(s, f) <= Had(s, f) + 1 /\ Had(s, f) \in Nat /\ Has(s, f) \in Nat
      BY <1>1, <1>3
    <3> QED BY SMTT(30), <2>2, <3>3, <3>4, <3>5
  <2> QED BY <1>3, <2>1, <2>2
<1>6. OwnBounded'
  <2> SUFFICES ASSUME NEW t \in DOMAIN sink, NEW i \in 1 .. Len(content) PROVE Has(t, i) <= MaxSize
    BY DEF OwnBounded, Own, Has
  <2>0. Has(t, i) \in Nat /\ Had(t, i) \in Nat /\ MaxSize \in Nat /\ Had(t, i) <= MaxSize
    BY <1>1, <1>4, RotationAssumption
  <2>1. CASE t = s /\ i = f
    BY <1>5, <2>0, <2>1
  <2>2. CASE t # s \/ i # f
    <3>1. Has(t, i) <= Had(t, i)
      BY <1>1, <1>3, <2>2
    <3> QED BY <2>0, <3>1
  <2> QED BY <2>1, <2>2
<1>7. OwnCounted'
  <2> SUFFICES ASSUME NEW t \in DOMAIN sink, sink'[t].pc = "ready", NEW i, i = desc'[sink'[t].fd].file
               PROVE  Has(t, i) <= sink'[t].size
    BY DEF OwnCounted, Own, Has
  <2>1. CASE t = s
    <3>1. i = f
      BY <1>1, <1>3, <2>1
    <3> QED BY <1>5, <2>1, <3>1
  <2>2. CASE t # s
    <3>1. /\ sink[t].pc = "ready" /\ sink[t].fd \in DOMAIN desc /\ sink'[t].size = sink[t].size
          /\ i = desc[sink[t].fd].file /\ i \in 1 .. Len(content) /\ sink[t].size \in Nat
      BY <1>1, <2>2 DEF Kept, Shape
    <3>2. Cardinality(Own(t, i)) <= sink[t].size
      BY <3>1 DEF Sized, OwnCounted
    <3>3. Has(t, i) <= Had(t, i) /\ Has(t, i) \in Nat /\ Had(t, i) \in Nat
      BY <1>1, <2>2, <3>1
    <3>4. Had(t, i) = 0 \/ Had(t, i) = Cardinality(Own(t, i))
      BY <1>2, <3>1
    <3> QED BY SMTT(30), <3>1, <3>2, <3>3, <3>4
  <2> QED BY <2>1, <2>2
<1> QED BY <1>6, <1>7 DEF Sized

LEMMA SinkTyped ==
  ASSUME IInv
  PROVE  /\ DOMAIN sink = 1 .. Len(sink) /\ Len(sink) \in Nat
         /\ \A s \in DOMAIN sink : sink[s] \in Sink
<1>1. sink \in Seq(Sink) /\ DOMAIN sink = 1 .. Len(sink) /\ Len(sink) \in Nat
  BY DEF IInv, TypeOK, Sink, SinkOf
<1> QED BY <1>1, ElementOfSeq

LEMMA Appending ==
  ASSUME NEW S, NEW q \in Seq(S), NEW x
  PROVE  /\ Len(q) \in Nat /\ DOMAIN q = 1 .. Len(q)
         /\ Len(Append(q, x)) = Len(q) + 1 /\ DOMAIN Append(q, x) = 1 .. Len(q) + 1
         /\ Append(q, x)[Len(q) + 1] = x
         /\ \A i \in DOMAIN q : Append(q, x)[i] = q[i]
<1>1. q \in Seq(S \cup {x}) /\ x \in S \cup {x}
  BY SeqMonotonic
<1>2. /\ Append(q, x) \in Seq(S \cup {x}) /\ Len(Append(q, x)) = Len(q) + 1
      /\ Append(q, x)[Len(q) + 1] = x
      /\ \A i \in 1 .. Len(q) : Append(q, x)[i] = q[i]
  BY <1>1, AppendProperties
<1>3. Len(q) \in Nat /\ DOMAIN q = 1 .. Len(q) /\ DOMAIN Append(q, x) = 1 .. Len(Append(q, x))
  BY <1>2
<1> QED BY <1>2, <1>3

(* The sinks that are surprised lose nothing else.                         *)
LEMMA Meddling ==
  ASSUME IInv, NEW s, NEW new, NEW m, m = Meddle(s, new)
  PROVE  /\ DOMAIN m = DOMAIN sink /\ m \in Seq(Range(m)) /\ Len(m) = Len(sink)
         /\ s \in DOMAIN sink => m[s] = new
         /\ \A t \in DOMAIN sink : t # s =>
              /\ m[t].pc = sink[t].pc /\ m[t].fd = sink[t].fd
              /\ m[t].size = sink[t].size /\ m[t].proc = sink[t].proc
<1>1. DOMAIN sink = 1 .. Len(sink) /\ Len(sink) \in Nat /\ \A t \in DOMAIN sink : sink[t] \in Sink
  BY SinkTyped
<1>2. /\ m = [t \in DOMAIN sink |-> m[t]] /\ DOMAIN m = DOMAIN sink
      /\ s \in DOMAIN sink => m[s] = new
      /\ \A t \in DOMAIN sink : t # s => m[t] = [sink[t] EXCEPT !.alone = FALSE]
  BY DEF Meddle
<1>3. m \in [1 .. Len(sink) -> Range(m)]
  BY <1>1, <1>2 DEF Range
<1>4. m \in Seq(Range(m)) /\ Len(m) = Len(sink)
  BY <1>1, <1>3, SeqDef
<1>5. \A t \in DOMAIN sink : t # s =>
        /\ m[t].pc = sink[t].pc /\ m[t].fd = sink[t].fd
        /\ m[t].size = sink[t].size /\ m[t].proc = sink[t].proc
  BY ZenonT(30), <1>1, <1>2 DEF Sink, SinkOf
<1> QED BY <1>2, <1>4, <1>5

(* One sink is given a new record, quietly or not.                         *)
LEMMA Touched ==
  ASSUME IInv, NEW s \in DOMAIN sink, NEW new,
         sink' = [sink EXCEPT ![s] = new] \/ sink' = Meddle(s, new)
  PROVE  /\ DOMAIN sink' = DOMAIN sink /\ sink'[s] = new
         /\ \A t \in DOMAIN sink : t # s =>
              /\ sink'[t].pc = sink[t].pc /\ sink'[t].fd = sink[t].fd
              /\ sink'[t].size = sink[t].size /\ sink'[t].proc = sink[t].proc
<1>1. CASE sink' = [sink EXCEPT ![s] = new]
  BY <1>1
<1>2. CASE sink' = Meddle(s, new)
  <2>1. PICK m : m = sink'
    OBVIOUS
  <2>2. m = Meddle(s, new)
    BY <1>2, <2>1
  <2>3. /\ DOMAIN m = DOMAIN sink /\ (s \in DOMAIN sink => m[s] = new)
        /\ \A t \in DOMAIN sink : t # s =>
             /\ m[t].pc = sink[t].pc /\ m[t].fd = sink[t].fd
             /\ m[t].size = sink[t].size /\ m[t].proc = sink[t].proc
    BY <2>2, Meddling
  <2> QED BY <2>1, <2>3
<1> QED BY <1>1, <1>2

LEMMA InitSized == Init => Sized
BY DEF Init, Sized, OwnCounted, OwnBounded

LEMMA LoadSized ==
  ASSUME IInv, Shape, Owning, Shape', Owning', Sized, NEW p \in Process, Load(p) PROVE Sized'
<1>0. inode \in Seq(Content) /\ desc \in Seq(Desc) /\ sink \in Seq(Sink)
  BY DEF IInv, TypeOK, Content, Desc, Sink, SinkOf
<1>1. /\ inode' = IF name[0] = 0 THEN Append(inode, <<>>) ELSE inode
      /\ desc' = Append(desc, [file |-> File0, offset |-> 0, append |-> TRUE])
      /\ sink' = Append(IF name[0] = 0 THEN Meddle(0, Opened(p)) ELSE sink, Opened(p))
      /\ author' = author
  BY DEF Load
<1>2. /\ DOMAIN inode \subseteq DOMAIN inode' /\ \A i \in DOMAIN inode : inode'[i] = inode[i]
      /\ \A i \in DOMAIN inode' : i \in DOMAIN inode \/ inode'[i] = <<>>
  <2>1. CASE name[0] = 0
    BY <1>0, <1>1, <2>1, Appending
  <2>2. CASE name[0] # 0
    BY <1>1, <2>2 DEF Shape
  <2> QED BY <2>1, <2>2
<1>3. \A d \in DOMAIN desc : desc'[d].file = desc[d].file
  BY <1>0, <1>1, Appending
<1>4. /\ DOMAIN sink \subseteq DOMAIN sink'
      /\ \A s \in DOMAIN sink' : sink'[s].pc = "ready" => s \notin DOMAIN sink \/ Kept(s)
  <2>1. PICK m : m = IF name[0] = 0 THEN Meddle(0, Opened(p)) ELSE sink
    OBVIOUS
  <2>2. /\ DOMAIN m = DOMAIN sink /\ Len(m) = Len(sink) /\ \E S : m \in Seq(S)
        /\ \A t \in DOMAIN sink :
             m[t].pc = sink[t].pc /\ m[t].fd = sink[t].fd /\ m[t].size = sink[t].size
    <3>1. CASE name[0] = 0
      <4>1. \A t \in DOMAIN sink : t # 0
        BY DEF Shape
      <4>2. m = Meddle(0, Opened(p))
        BY <2>1, <3>1
      <4>3. /\ DOMAIN m = DOMAIN sink /\ m \in Seq(Range(m)) /\ Len(m) = Len(sink)
            /\ \A t \in DOMAIN sink : t # 0 =>
                 m[t].pc = sink[t].pc /\ m[t].fd = sink[t].fd /\ m[t].size = sink[t].size
        BY <4>2, Meddling
      <4> QED BY <4>1, <4>3
    <3>2. CASE name[0] # 0
      BY <1>0, <2>1, <3>2
    <3> QED BY <3>1, <3>2
  <2>3. sink' = Append(m, Opened(p))
    BY <1>1, <2>1
  <2>4. DOMAIN sink \subseteq DOMAIN sink' /\ \A t \in DOMAIN sink : sink'[t] = m[t]
    BY <2>2, <2>3, Appending
  <2> QED BY <2>2, <2>4 DEF Kept, Shape
<1> QED BY <1>1, <1>2, <1>3, <1>4, SameFiles

LEMMA ForkSized ==
  ASSUME IInv, Shape, Owning, Shape', Owning', Sized, Fork PROVE Sized'
<1>1. /\ UNCHANGED <<inode, desc, author>>
      /\ sink' = Append(sink, [sink[uses["daemon"]] EXCEPT !.proc = "master"])
  BY DEF Fork
<1>2. sink \in Seq(Sink)
  BY DEF IInv, TypeOK, Sink, SinkOf
<1>3. DOMAIN sink \subseteq DOMAIN sink' /\ \A s \in DOMAIN sink : sink'[s] = sink[s]
  BY <1>1, <1>2, Appending
<1> QED BY <1>1, <1>3, SameFiles DEF Kept, Shape

(* The steps that leave the files alone.                                   *)
LEMMA QuietSized ==
  ASSUME IInv, Shape, Owning, Shape', Owning', Sized, UNCHANGED <<inode, desc, author>>,
         \/ sink' = sink
         \/ \E s \in DOMAIN sink : \E new :
              new.pc # "ready" /\ (sink' = [sink EXCEPT ![s] = new] \/ sink' = Meddle(s, new))
  PROVE  Sized'
<1>1. CASE sink' = sink
  BY <1>1, SameFiles DEF Kept, Shape
<1>2. ASSUME NEW s \in DOMAIN sink, NEW new, new.pc # "ready",
             sink' = [sink EXCEPT ![s] = new] \/ sink' = Meddle(s, new)
      PROVE  Sized'
  <2>1. /\ DOMAIN sink' = DOMAIN sink /\ sink'[s] = new
        /\ \A t \in DOMAIN sink : t # s =>
             sink'[t].pc = sink[t].pc /\ sink'[t].fd = sink[t].fd /\ sink'[t].size = sink[t].size
    BY <1>2, Touched
  <2>2. \A t \in DOMAIN sink' : sink'[t].pc = "ready" => Kept(t)
    BY <1>2, <2>1 DEF Kept
  <2>3. /\ author' = author /\ DOMAIN sink \subseteq DOMAIN sink' /\ DOMAIN inode \subseteq DOMAIN inode'
        /\ \A i \in DOMAIN inode : inode'[i] = inode[i]
        /\ \A i \in DOMAIN inode' : i \in DOMAIN inode \/ inode'[i] = <<>>
        /\ \A d \in DOMAIN desc : desc'[d].file = desc[d].file
    BY <2>1
  <2>4. \A t \in DOMAIN sink' : sink'[t].pc = "ready" => t \notin DOMAIN sink \/ Kept(t)
    BY <2>2
  <2> QED BY <2>3, <2>4, SameFiles
<1> QED BY <1>1, <1>2

LEMMA LogSized ==
  ASSUME IInv, Shape, Owning, Shape', Owning', Sized, NEW r \in Role, Log(r) PROVE Sized'
<1>1. PICK s : s = uses[r]
  OBVIOUS
<1>2. s \in DOMAIN sink /\ sink[s].pc = "ready" /\ sink[s].fd \in DOMAIN desc /\ sink[s].size \in Nat
  <2>1. s \in DOMAIN sink /\ sink[s].pc = "ready"
    BY <1>1 DEF Log, IInv, TypeOK
  <2> QED BY <2>1 DEF Shape
<1>3. CASE Count(s) > MaxSize
  <2> DEFINE new == [sink[s] EXCEPT !.size = Count(s), !.fd = 0, !.pc = "stat1", !.alone = TRUE]
  <2>1. sink' = [sink EXCEPT ![s] = new] /\ UNCHANGED <<inode, desc, author>>
    BY <1>1, <1>3 DEF Log
  <2>2. new.pc # "ready"
    <3>1. sink[s] \in Sink
      BY <1>2, SinkTyped
    <3>2. Count(s) \in Nat
      BY <1>2 DEF Count
    <3> HIDE DEF new
    <3>3. new.pc = "stat1"
      BY <3>1, <3>2, BeginsToRotate DEF new
    <3> QED BY <3>3
  <2> HIDE DEF new
  <2> QED BY <1>2, <2>1, <2>2, QuietSized
<1>4. CASE ~(Count(s) > MaxSize)
  <2>1. sink' = [sink EXCEPT ![s].size = Count(s)] /\ Write(s, sink[s].fd, inode, desc)
    BY <1>1, <1>4 DEF Log
  <2>2. inode \in Seq(Content) /\ desc \in Seq(Desc) /\ sink[s] \in Sink
    BY <1>2, SinkTyped DEF IInv, TypeOK, Content, Desc
  <2>3. /\ DOMAIN sink' = DOMAIN sink /\ sink'[s].fd = sink[s].fd /\ sink'[s].size = sink[s].size + 1
        /\ \A t \in DOMAIN sink \ {s} : sink'[t] = sink[t]
    BY <1>2, <2>1, <2>2 DEF Count, Sink, SinkOf
  <2>4. sink[s].size + 1 <= MaxSize
    BY <1>2, <1>4, RotationAssumption DEF Count
  <2>5. DOMAIN inode' = 1 .. Len(inode)
    BY <2>1 DEF Write, Shape
  <2> QED BY <1>2, <2>1, <2>2, <2>3, <2>4, <2>5, WriteSized DEF Desc, Shape, Kept
<1> QED BY <1>3, <1>4

LEMMA ReopenSized ==
  ASSUME IInv, Shape, Owning, Shape', Owning', Sized, NEW s \in DOMAIN sink, Reopen(s)
  PROVE  Sized'
<1> DEFINE content == IF name[0] = 0 THEN Append(inode, <<>>) ELSE [inode EXCEPT ![File0] = <<>>]
           file == [file |-> File0, offset |-> 0, append |-> FALSE]
           opened == Append(desc, file)
           new == [sink[s] EXCEPT !.pc = "ready", !.size = 1, !.fd = Len(desc) + 1]
           DescOf(n) == [file : 1 .. n, offset : Nat, append : BOOLEAN]
<1>1. Write(s, Len(desc) + 1, content, opened) /\ sink' = Meddle(s, new)
  BY DEF Reopen
<1>2. /\ inode \in Seq(Content) /\ desc \in Seq(Desc) /\ Len(desc) \in Nat /\ Len(inode) \in Nat
      /\ name[0] \in 0 .. Len(inode) /\ DOMAIN inode = 1 .. Len(inode)
      /\ <<>> \in Content /\ sink[s] \in Sink
  BY SinkTyped DEF IInv, TypeOK, Desc, Content
<1>3. /\ content \in Seq(Content) /\ Len(inode) <= Len(content) /\ Len(content) \in Nat
      /\ File0 \in 1 .. Len(content) /\ content[File0] = <<>>
      /\ \A i \in 1 .. Len(content) : content[i] = <<>> \/ (i \in DOMAIN inode /\ content[i] = inode[i])
  <2>1. CASE name[0] = 0
    <3>1. content = Append(inode, <<>>) /\ File0 = Len(inode) + 1
      BY <2>1 DEF File0
    <3> HIDE DEF content
    <3>2. content \in Seq(Content) /\ Len(content) = Len(inode) + 1
      BY <1>2, <3>1
    <3>3. content[Len(inode) + 1] = <<>> /\ \A i \in DOMAIN inode : content[i] = inode[i]
      BY <1>2, <3>1, Appending
    <3> QED BY <1>2, <3>1, <3>2, <3>3
  <2>2. CASE name[0] # 0
    <3>1. File0 \in 1 .. Len(inode) /\ content = [inode EXCEPT ![File0] = <<>>]
      BY <1>2, <2>2 DEF File0
    <3> HIDE DEF content
    <3>2. content \in Seq(Content) /\ Len(content) = Len(inode)
      BY <1>2, <3>1, ExceptSeq
    <3> QED BY <1>2, <3>1, <3>2
  <2> QED BY <2>1, <2>2
<1> HIDE DEF content
<1>4. /\ opened \in Seq(DescOf(Len(content))) /\ Len(opened) = Len(desc) + 1
      /\ opened[Len(desc) + 1].file = File0
      /\ \A e \in DOMAIN desc : e \in 1 .. Len(opened) /\ opened[e].file = desc[e].file
  <2>1. Desc \subseteq DescOf(Len(content))
    BY <1>2, <1>3 DEF Desc
  <2>2. desc \in Seq(DescOf(Len(content)))
    BY <1>2, <2>1, SeqMonotonic
  <2>3. file \in DescOf(Len(content)) /\ file.file = File0
    BY <1>3
  <2> HIDE DEF file, DescOf
  <2>4. opened \in Seq(DescOf(Len(content))) /\ Len(opened) = Len(desc) + 1
    BY <1>2, <2>2, <2>3
  <2>5. opened[Len(desc) + 1] = file /\ \A e \in DOMAIN desc : opened[e] = desc[e]
    BY <2>2, Appending
  <2>6. DOMAIN desc = 1 .. Len(desc)
    BY DEF Shape
  <2> QED BY <1>2, <2>3, <2>4, <2>5, <2>6
<1> HIDE DEF opened
<1>5. new.fd = Len(desc) + 1 /\ new.size = 1
  BY <1>2 DEF Sink, SinkOf
<1> HIDE DEF new
<1>6. /\ DOMAIN sink' = DOMAIN sink /\ sink'[s] = new
      /\ \A t \in DOMAIN sink : t # s =>
           sink'[t].pc = sink[t].pc /\ sink'[t].fd = sink[t].fd /\ sink'[t].size = sink[t].size
  BY <1>1, Touched
<1>7. \A t \in DOMAIN sink \ {s} : sink'[t].pc = "ready" => Kept(t)
  BY <1>6 DEF Kept
<1>8. DOMAIN inode' = 1 .. Len(content)
  BY <1>1, <1>3 DEF Write
<1>9. Len(desc) + 1 \in 1 .. Len(opened)
  BY <1>2, <1>4
<1>10. PICK d : d = Len(desc) + 1
  OBVIOUS
<1>11. /\ d \in 1 .. Len(opened) /\ Write(s, d, content, opened)
       /\ sink'[s].fd = d /\ sink'[s].size = 1 /\ content[opened[d].file] = <<>>
  BY <1>1, <1>3, <1>4, <1>5, <1>6, <1>9, <1>10
<1> QED BY <1>3, <1>4, <1>6, <1>7, <1>8, <1>11, WriteSized

(* A step of a rotation before the file is open again.                     *)
LEMMA StepSink ==
  ASSUME NEW s \in DOMAIN sink,
         StatTarget(s) \/ Remove(s) \/ StatSource(s) \/ Rename(s) \/ ReopenFails(s)
  PROVE  \/ sink' = sink
         \/ \E pc \in {"remove", "stat0", "rename", "open"} :
              \/ sink' = [sink EXCEPT ![s] = [sink[s] EXCEPT !.pc = pc]]
              \/ sink' = Meddle(s, [sink[s] EXCEPT !.pc = pc])
<1>1. CASE StatTarget(s) \/ StatSource(s)
  BY <1>1 DEF StatTarget, StatSource
<1>2. CASE Remove(s) \/ Rename(s) \/ ReopenFails(s)
  BY <1>2 DEF Remove, Rename, ReopenFails, Throw
<1> QED BY <1>1, <1>2

LEMMA StepSized ==
  ASSUME IInv, Shape, Owning, Shape', Owning', Sized, NEW s \in DOMAIN sink,
         StatTarget(s) \/ Remove(s) \/ StatSource(s) \/ Rename(s) \/ ReopenFails(s)
  PROVE  Sized'
<1>1. UNCHANGED <<inode, desc, author>>
  BY DEF StatTarget, Remove, StatSource, Rename, ReopenFails, Throw
<1>2. \A pc \in {"remove", "stat0", "rename", "open"} : [sink[s] EXCEPT !.pc = pc].pc # "ready"
  BY SinkTyped DEF Sink, SinkOf
<1>3. CASE sink' = sink
  BY <1>1, <1>3, QuietSized
<1>4. ASSUME NEW pc \in {"remove", "stat0", "rename", "open"},
             \/ sink' = [sink EXCEPT ![s] = [sink[s] EXCEPT !.pc = pc]]
             \/ sink' = Meddle(s, [sink[s] EXCEPT !.pc = pc])
      PROVE  Sized'
  <2>1. PICK q : q = [sink[s] EXCEPT !.pc = pc]
    OBVIOUS
  <2>2. q.pc # "ready" /\ (sink' = [sink EXCEPT ![s] = q] \/ sink' = Meddle(s, q))
    BY <1>2, <1>4, <2>1
  <2> QED BY <1>1, <2>2, QuietSized
<1> QED BY <1>3, <1>4, StepSink

LEMMA NextSized ==
  ASSUME IInv, Shape, Owning, Shape', Owning', Sized, [Next]_vars PROVE Sized'
<1>1. CASE UNCHANGED vars
  BY <1>1, QuietSized DEF vars
<1>2. ASSUME NEW p \in Process, Load(p) \/ Die(p) PROVE Sized'
  BY <1>2, LoadSized, QuietSized DEF Die
<1>3. CASE Fork
  BY <1>3, ForkSized
<1>4. ASSUME NEW r \in Role, Log(r) PROVE Sized'
  BY <1>4, LogSized
<1>5. ASSUME NEW s \in DOMAIN sink, Rotate(s) PROVE Sized'
  BY <1>5, StepSized, ReopenSized DEF Rotate
<1> QED BY <1>1, <1>2, <1>3, <1>4, <1>5 DEF Next

LEMMA SpecSized == Spec => [](Shape /\ Owning /\ Sized)
<1>1. IInv => Shape /\ Owning
  BY ShapeOf, OwningOf
<1>2. Init => Sized
  BY InitSized
<1>3. IInv /\ Shape /\ Owning /\ (Shape /\ Owning)' /\ Sized /\ [Next]_vars => Sized'
  BY NextSized
<1> QED BY <1>1, <1>2, <1>3, SpecIInv, PTL DEF Spec
-----------------------------------------------------------------------------
(* What belongs to few owners, each with at most n, is not much.           *)
LEMMA Sharing ==
  ASSUME NEW W \in SUBSET Nat, IsFiniteSet(W), NEW T, IsFiniteSet(T), NEW g \in [W -> T],
         NEW n \in Nat, \A t \in T : Cardinality({k \in W : g[k] = t}) <= n
  PROVE  Cardinality(W) <= n * Cardinality(T)
<1> DEFINE Of(t) == {k \in W : g[k] = t}
           Upto(k) == {j \in Of(g[k]) : j <= k}
           f == [k \in W |-> <<g[k], Cardinality(Upto(k))>>]
<1>1. \A t \in T : IsFiniteSet(Of(t)) /\ Cardinality(Of(t)) \in Nat
  <2> SUFFICES ASSUME NEW t \in T PROVE IsFiniteSet(Of(t)) /\ Cardinality(Of(t)) \in Nat
    OBVIOUS
  <2>1. Of(t) \in SUBSET W
    OBVIOUS
  <2> QED BY <2>1, FS_Subset, FS_CardinalityType
<1>2. \A k \in W : Upto(k) \in SUBSET Of(g[k]) /\ k \in Upto(k)
  OBVIOUS
<1>3. \A k \in W : /\ IsFiniteSet(Upto(k)) /\ Cardinality(Upto(k)) \in 1 .. n
  <2> SUFFICES ASSUME NEW k \in W PROVE IsFiniteSet(Upto(k)) /\ Cardinality(Upto(k)) \in 1 .. n
    OBVIOUS
  <2>0. g[k] \in T /\ Upto(k) \in SUBSET Of(g[k]) /\ k \in Upto(k)
    BY <1>2
  <2>1. IsFiniteSet(Of(g[k])) /\ Cardinality(Of(g[k])) \in Nat /\ Cardinality(Of(g[k])) <= n
    BY <1>1, <2>0
  <2> HIDE DEF Of, Upto
  <2>2. IsFiniteSet(Upto(k)) /\ Cardinality(Upto(k)) <= Cardinality(Of(g[k]))
    BY <2>0, <2>1, FS_Subset
  <2>3. Cardinality(Upto(k)) \in Nat /\ (Cardinality(Upto(k)) = 0 => Upto(k) = {})
    BY <2>2, FS_CardinalityType, FS_EmptySet
  <2> QED BY <2>0, <2>1, <2>2, <2>3
<1>4. ASSUME NEW k \in W, NEW j \in W, g[k] = g[j], Cardinality(Upto(k)) = Cardinality(Upto(j)), j < k
      PROVE  FALSE
  <2>1. Upto(j) \in SUBSET Upto(k) /\ k \notin Upto(j) /\ k \in Upto(k)
    <3>1. k \in Nat /\ j \in Nat /\ Of(g[k]) = Of(g[j]) /\ Of(g[k]) \in SUBSET Nat /\ k \in Of(g[k])
      BY <1>4
    <3> HIDE DEF Of
    <3>2. \A x \in Upto(j) : x \in Upto(k)
      BY <1>4, <3>1
    <3> QED BY <1>4, <3>1, <3>2
  <2> HIDE DEF Upto
  <2>2. Upto(k) = Upto(j)
    BY <1>3, <1>4, <2>1, FS_Subset
  <2> QED BY <2>1, <2>2
<1> HIDE DEF Upto, Of
<1>5. \A k, j \in W : f[k] = f[j] => k = j
  <2> SUFFICES ASSUME NEW k \in W, NEW j \in W, f[k] = f[j] PROVE k = j
    OBVIOUS
  <2>1. g[k] = g[j] /\ Cardinality(Upto(k)) = Cardinality(Upto(j))
    OBVIOUS
  <2>2. k < j \/ j < k \/ k = j
    OBVIOUS
  <2>3. ~(j < k)
    BY <1>4, <2>1
  <2>4. ~(k < j)
    BY <1>4, <2>1
  <2> QED BY <2>2, <2>3, <2>4
<1>6. f \in Injection(W, T \X (1 .. n))
  <2>1. f \in [W -> T \X (1 .. n)]
    BY <1>3
  <2> HIDE DEF f
  <2> QED BY <1>5, <2>1 DEF Injection, IsInjective
<1>7. IsFiniteSet(1 .. n) /\ Cardinality(1 .. n) = n
  BY FS_Interval
<1>8. /\ IsFiniteSet(T \X (1 .. n))
      /\ Cardinality(T \X (1 .. n)) = Cardinality(T) * n
  BY <1>7, FS_Product
<1>9. Cardinality(W) <= Cardinality(T) * n
  BY <1>6, <1>8, FS_Injection
<1>10. Cardinality(T) \in Nat
  BY FS_CardinalityType
<1> QED BY <1>9, <1>10

LEMMA SizedBounds == ASSUME Shape, Sized PROVE SizeBounded
<1> SUFFICES ASSUME NEW i \in DOMAIN inode
             PROVE  Cardinality({k \in DOMAIN inode[i] : inode[i][k] # Hole})
                      <= MaxSize * Cardinality(Writers(i))
  BY DEF SizeBounded
<1> DEFINE W == {k \in DOMAIN inode[i] : inode[i][k] # Hole}
           g == [k \in W |-> author[inode[i][k]]]
<1>1. /\ inode[i] \in Seq(0 .. Len(author)) /\ Len(author) \in Nat /\ DOMAIN author = 1 .. Len(author)
      /\ DOMAIN sink = 1 .. Len(sink) /\ Len(sink) \in Nat
      /\ \A r \in 1 .. Len(author) : author[r] \in DOMAIN sink
  BY DEF Shape
<1>2. \A k \in W : inode[i][k] \in DOMAIN author
  <2>1. \A k \in DOMAIN inode[i] : inode[i][k] \in 0 .. Len(author)
    BY <1>1, ElementOfSeq
  <2> QED BY <1>1, <2>1 DEF Hole
<1>3. W \in SUBSET Nat /\ IsFiniteSet(W)
  <2>1. DOMAIN inode[i] = 1 .. Len(inode[i]) /\ Len(inode[i]) \in Nat
    BY <1>1
  <2>2. IsFiniteSet(1 .. Len(inode[i])) /\ W \in SUBSET (1 .. Len(inode[i]))
    BY <2>1, FS_Interval
  <2> QED BY <2>2, FS_Subset
<1>4. Writers(i) \in SUBSET DOMAIN sink /\ IsFiniteSet(Writers(i))
  <2>1. Writers(i) \in SUBSET (1 .. Len(sink))
    BY <1>1 DEF Writers
  <2>2. IsFiniteSet(1 .. Len(sink))
    BY <1>1, FS_Interval
  <2> QED BY <1>1, <2>1, <2>2, FS_Subset
<1>5. g \in [W -> Writers(i)]
  BY <1>2 DEF Writers
<1>6. \A t \in Writers(i) : Cardinality({k \in W : g[k] = t}) <= MaxSize
  <2> SUFFICES ASSUME NEW t \in Writers(i) PROVE Cardinality({k \in W : g[k] = t}) <= MaxSize
    OBVIOUS
  <2>1. {k \in W : g[k] = t} = Own(t, i)
    BY DEF Own, OwnIn
  <2>2. t \in DOMAIN sink
    BY <1>4
  <2> QED BY <2>1, <2>2 DEF Sized, OwnBounded
<1> HIDE DEF W, g
<1> QED BY <1>3, <1>4, <1>5, <1>6, Sharing, RotationAssumption DEF W

(* However many sinks write to a file, by descriptors that append or that  *)
(* overwrite one another, it has at most MaxSize records for each of them. *)
THEOREM SizeBoundedAlways == Spec => []SizeBounded
<1>1. Shape /\ Sized => SizeBounded
  BY SizedBounds
<1> QED BY <1>1, SpecSized, PTL
-----------------------------------------------------------------------------
(***************************************************************************)
(* The latest records                                                      *)
(***************************************************************************)

(* Each role uses a sink of its own process.                               *)
OwnSink ==
  \A r \in Role : uses[r] # 0 => sink[uses[r]].proc = IF r = "daemon" THEN "daemon" ELSE "master"

(* c0 ends with the last of n records, and c1 has those before it.         *)
Ordered(c1, c0, n) ==
  /\ Len(c0) + Len(c1) <= n
  /\ \A j \in 1 .. Len(c0) : c0[j] = n - Len(c0) + j
  /\ \A j \in 1 .. Len(c1) : c1[j] = n - Len(c0) - Len(c1) + j

Consecutive == Ordered(Contents(name[1]), Contents(name[0]), Len(author))

(* A file is kept under the other name when it is full, and only then.     *)
Filled ==
  /\ Len(Contents(name[0])) <= MaxSize
  /\ IF name[1] = 0 THEN Len(Contents(name[0])) = Len(author) \/ Len(Contents(name[0])) = MaxSize
     ELSE Len(inode[name[1]]) = MaxSize /\ name[1] # name[0]

(* The daemon writes at the end of the file that is named, and knows its   *)
(* size; while it rotates, the full file is there under one of the names.  *)
AtEnd(s) ==
  /\ name[0] # 0 /\ desc[sink[s].fd].file = name[0] /\ sink[s].size = Len(inode[name[0]])
  /\ desc[sink[s].fd].append \/ desc[sink[s].fd].offset = Len(inode[name[0]])

Current(s) ==
  /\ sink[s].pc = "ready" => AtEnd(s)
  /\ sink[s].pc = "open" => Contents(name[0]) = <<>> /\ name[1] # 0
  /\ sink[s].pc \notin {"ready", "open"} => name[0] # 0 /\ Len(inode[name[0]]) = MaxSize

Latest == Consecutive /\ Filled /\ (uses["daemon"] # 0 => Current(uses["daemon"]))

Recent == Sole => Latest
-----------------------------------------------------------------------------
LEMMA Moving ==
  ASSUME NEW c1, NEW c0, NEW n \in Nat, Len(c0) \in Nat, Len(c1) \in Nat, Ordered(c1, c0, n)
  PROVE  Ordered(<<>>, c0, n) /\ Ordered(c0, <<>>, n)
BY DEF Ordered

LEMMA Extending ==
  ASSUME NEW S, NEW c1, NEW c0 \in Seq(S), NEW n \in Nat, Len(c1) \in Nat, Ordered(c1, c0, n)
  PROVE  Ordered(c1, Append(c0, n + 1), n + 1)
<1>1. PICK c : c = Append(c0, n + 1)
  OBVIOUS
<1>2. /\ Len(c0) \in Nat /\ Len(c) = Len(c0) + 1 /\ c[Len(c0) + 1] = n + 1
      /\ \A j \in 1 .. Len(c0) : c[j] = c0[j]
  BY <1>1, Appending
<1>3. PICK l \in Nat, l1 \in Nat : l = Len(c0) /\ l1 = Len(c1)
  BY <1>2
<1>4. /\ n + 1 - (l + 1) = n - l /\ n + 1 - (l + 1) - l1 = n - l - l1
      /\ (l + l1 <= n => l + 1 + l1 <= n + 1) /\ n - l + (l + 1) = n + 1
  OBVIOUS
<1>5. \A j \in 1 .. l + 1 : c[j] = n - l + j
  <2>1. \A j \in 1 .. l : c[j] = n - l + j
    BY <1>2, <1>3 DEF Ordered
  <2>2. \A j \in 1 .. l + 1 : j \in 1 .. l \/ j = l + 1
    OBVIOUS
  <2> QED BY <1>2, <1>3, <1>4, <2>1, <2>2
<1>6. Ordered(c1, c, n + 1)
  <2>1. Len(c) + Len(c1) <= n + 1
    BY <1>2, <1>3, <1>4 DEF Ordered
  <2>2. \A j \in 1 .. Len(c) : c[j] = n + 1 - Len(c) + j
    BY <1>2, <1>3, <1>4, <1>5
  <2>3. \A j \in 1 .. Len(c1) : c1[j] = n + 1 - Len(c) - Len(c1) + j
    BY <1>2, <1>3, <1>4 DEF Ordered
  <2> QED BY <2>1, <2>2, <2>3 DEF Ordered
<1> QED BY <1>1, <1>6

LEMMA PutAtEnd ==
  ASSUME NEW S, NEW c \in Seq(S), NEW r
  PROVE  Put(c, Len(c), r) = Append(c, r)
<1>1. Len(c) \in Nat
  OBVIOUS
<1>2. [i \in 1 .. Len(c) - Len(c) |-> Hole] = <<>>
  <2>1. 1 .. Len(c) - Len(c) = {}
    BY <1>1
  <2>2. [i \in {} |-> Hole] = <<>>
    OBVIOUS
  <2> QED BY <2>1, <2>2
<1>3. Fill(c, Len(c)) = c
  BY <1>2, ConcatEmptySeq DEF Fill
<1> QED BY <1>1, <1>3 DEF Put

(* What the proofs take from the types of the names and the uses.          *)
LEMMA NameTyped ==
  ASSUME IInv
  PROVE  /\ name \in [{0, 1} -> 0 .. Len(inode)] /\ name[0] \in 0 .. Len(inode) /\ name[1] \in 0 .. Len(inode)
         /\ uses \in [Role -> 0 .. Len(sink)] /\ \A r \in Role : uses[r] = 0 \/ uses[r] \in DOMAIN sink
         /\ Len(Contents(name[0])) \in Nat /\ Len(Contents(name[1])) \in Nat
         /\ Contents(name[0]) \in Seq(0 .. Len(author)) /\ Contents(name[1]) \in Seq(0 .. Len(author))
         /\ MaxSize \in Nat \ {0}
         /\ DOMAIN inode = 1 .. Len(inode) /\ Len(inode) \in Nat /\ Len(author) \in Nat
<1>1. /\ name \in [{0, 1} -> 0 .. Len(inode)] /\ uses \in [Role -> 0 .. Len(sink)]
      /\ DOMAIN sink = 1 .. Len(sink) /\ DOMAIN inode = 1 .. Len(inode) /\ Len(inode) \in Nat
      /\ inode \in Seq(Seq(0 .. Len(author))) /\ Len(author) \in Nat /\ Len(sink) \in Nat
  BY DEF IInv, TypeOK
<1>2. \A i \in DOMAIN inode : inode[i] \in Seq(0 .. Len(author))
  BY <1>1, ElementOfSeq
<1>3. Contents(name[0]) \in Seq(0 .. Len(author)) /\ Contents(name[1]) \in Seq(0 .. Len(author))
  <2>1. \A i \in 0 .. Len(inode) : i = 0 \/ i \in DOMAIN inode
    BY <1>1
  <2>2. <<>> \in Seq(0 .. Len(author))
    OBVIOUS
  <2>3. \A i \in 0 .. Len(inode) : Contents(i) \in Seq(0 .. Len(author))
    BY <1>2, <2>1, <2>2 DEF Contents
  <2>4. name[0] \in 0 .. Len(inode) /\ name[1] \in 0 .. Len(inode)
    BY <1>1
  <2> QED BY <2>3, <2>4
<1> QED BY <1>1, <1>3, RotationAssumption
-----------------------------------------------------------------------------
(* Nothing that was written is unwritten, no sink changes its process, and *)
(* a rotation ends with a record of its sink.                              *)
Grows ==
  /\ \A r \in DOMAIN author : r \in DOMAIN author' /\ author'[r] = author[r]
  /\ \A s \in DOMAIN sink : s \in DOMAIN sink' /\ sink'[s].proc = sink[s].proc
  /\ \A s \in DOMAIN sink : sink[s].pc # "ready" =>
       sink'[s].pc # "ready" \/ \E r \in DOMAIN author' : author'[r] = s

LEMMA SoleBefore == ASSUME Shape, Grows, Sole' PROVE Sole
<1>1. ASSUME NEW r \in DOMAIN author PROVE sink[author[r]].proc = "daemon"
  <2>1. author[r] \in DOMAIN sink
    BY DEF Shape
  <2> QED BY <2>1 DEF Grows, Sole
<1>2. ASSUME NEW s \in DOMAIN sink, sink[s].proc = "master" PROVE sink[s].pc = "ready"
  <2>1. s \in DOMAIN sink' /\ sink'[s].proc = "master"
    BY <1>2 DEF Grows
  <2>2. sink'[s].pc = "ready"
    BY <2>1 DEF Sole
  <2>3. \A r \in DOMAIN author' : author'[r] # s
    BY <2>1 DEF Sole
  <2> QED BY <2>2, <2>3 DEF Grows
<1> QED BY <1>1, <1>2 DEF Sole

LEMMA LoadGrows == ASSUME IInv, Shape, NEW p \in Process, Load(p) PROVE Grows
<1>1. /\ sink' = Append(IF name[0] = 0 THEN Meddle(0, Opened(p)) ELSE sink, Opened(p))
      /\ author' = author
  BY DEF Load
<1>2. PICK m : m = IF name[0] = 0 THEN Meddle(0, Opened(p)) ELSE sink
  OBVIOUS
<1>3. /\ DOMAIN m = DOMAIN sink /\ \E S : m \in Seq(S)
      /\ \A t \in DOMAIN sink : m[t].pc = sink[t].pc /\ m[t].proc = sink[t].proc
  <2>1. CASE name[0] = 0
    <3>1. \A t \in DOMAIN sink : t # 0
      BY DEF Shape
    <3>2. m = Meddle(0, Opened(p))
      BY <1>2, <2>1
    <3>3. /\ DOMAIN m = DOMAIN sink /\ m \in Seq(Range(m))
          /\ \A t \in DOMAIN sink : t # 0 => m[t].pc = sink[t].pc /\ m[t].proc = sink[t].proc
      BY <3>2, Meddling
    <3> QED BY <3>1, <3>3
  <2>2. CASE name[0] # 0
    <3>1. sink \in Seq(Sink)
      BY DEF IInv, TypeOK, Sink, SinkOf
    <3> QED BY <1>2, <2>2, <3>1
  <2> QED BY <2>1, <2>2
<1>4. \A t \in DOMAIN sink : t \in DOMAIN sink' /\ sink'[t] = m[t]
  BY <1>1, <1>2, <1>3, Appending
<1> QED BY <1>1, <1>3, <1>4 DEF Grows

LEMMA ForkGrows == ASSUME IInv, Fork PROVE Grows
<1>1. sink \in Seq(Sink) /\ author' = author
      /\ sink' = Append(sink, [sink[uses["daemon"]] EXCEPT !.proc = "master"])
  BY DEF Fork, IInv, TypeOK, Sink, SinkOf
<1>2. \A t \in DOMAIN sink : t \in DOMAIN sink' /\ sink'[t] = sink[t]
  BY <1>1, Appending
<1> QED BY <1>1, <1>2 DEF Grows

LEMMA AuthorGrows ==
  ASSUME Shape, NEW s, author' = Append(author, s)
  PROVE  /\ \A r \in DOMAIN author : r \in DOMAIN author' /\ author'[r] = author[r]
         /\ \E r \in DOMAIN author' : author'[r] = s
<1>1. author \in Seq(1 .. Len(sink))
  BY DEF Shape
<1>2. /\ Len(author) \in Nat /\ DOMAIN author = 1 .. Len(author) /\ DOMAIN author' = 1 .. Len(author) + 1
      /\ author'[Len(author) + 1] = s /\ \A r \in DOMAIN author : author'[r] = author[r]
  BY <1>1, Appending
<1> QED BY <1>2

LEMMA LogGrows == ASSUME IInv, Shape, NEW r \in Role, Log(r) PROVE Grows
<1>1. PICK s : s = uses[r]
  OBVIOUS
<1>2. s \in DOMAIN sink /\ sink[s].pc = "ready"
  BY <1>1 DEF Log, IInv, TypeOK
<1>3. sink[s] \in Sink
  BY <1>2, SinkTyped
<1>4. \E q : sink' = [sink EXCEPT ![s] = q] /\ q.proc = sink[s].proc
  <2>1. \/ sink' = [sink EXCEPT ![s] = [sink[s] EXCEPT !.size = Count(s), !.fd = 0, !.pc = "stat1", !.alone = TRUE]]
        \/ sink' = [sink EXCEPT ![s] = [sink[s] EXCEPT !.size = Count(s)]]
    BY <1>1 DEF Log
  <2>2. /\ [sink[s] EXCEPT !.size = Count(s), !.fd = 0, !.pc = "stat1", !.alone = TRUE].proc = sink[s].proc
        /\ [sink[s] EXCEPT !.size = Count(s)].proc = sink[s].proc
    BY <1>3 DEF Sink, SinkOf
  <2> QED BY <2>1, <2>2
<1>5. author' = author \/ author' = Append(author, s)
  BY <1>1 DEF Log, Write
<1>6. \A q \in DOMAIN author : q \in DOMAIN author' /\ author'[q] = author[q]
  BY <1>5, AuthorGrows
<1> QED BY <1>2, <1>4, <1>6 DEF Grows

LEMMA StepGrows ==
  ASSUME IInv, NEW s \in DOMAIN sink,
         StatTarget(s) \/ Remove(s) \/ StatSource(s) \/ Rename(s) \/ ReopenFails(s)
  PROVE  Grows
<1>1. sink[s] \in Sink /\ author' = author
  BY SinkTyped DEF StatTarget, Remove, StatSource, Rename, ReopenFails, Throw
<1>2. \A pc \in {"remove", "stat0", "rename", "open"} :
        LET q == [sink[s] EXCEPT !.pc = pc] IN q.pc # "ready" /\ q.proc = sink[s].proc
  BY <1>1 DEF Sink, SinkOf
<1>3. CASE sink' = sink
  BY <1>1, <1>3 DEF Grows
<1>4. ASSUME NEW pc \in {"remove", "stat0", "rename", "open"},
             \/ sink' = [sink EXCEPT ![s] = [sink[s] EXCEPT !.pc = pc]]
             \/ sink' = Meddle(s, [sink[s] EXCEPT !.pc = pc])
      PROVE  Grows
  <2>1. PICK q : q = [sink[s] EXCEPT !.pc = pc]
    OBVIOUS
  <2>2. q.pc # "ready" /\ q.proc = sink[s].proc
    BY <1>2, <2>1
  <2>3. sink' = [sink EXCEPT ![s] = q] \/ sink' = Meddle(s, q)
    BY <1>4, <2>1
  <2> QED BY <1>1, <2>2, <2>3, Touched DEF Grows
<1> QED BY <1>3, <1>4, StepSink

LEMMA ReopenGrows == ASSUME IInv, Shape, NEW s \in DOMAIN sink, Reopen(s) PROVE Grows
<1>1. PICK q : q = [sink[s] EXCEPT !.pc = "ready", !.size = 1, !.fd = Len(desc) + 1]
  OBVIOUS
<1>2. sink' = Meddle(s, q) /\ author' = Append(author, s)
  BY <1>1 DEF Reopen, Write
<1>3. q.proc = sink[s].proc
  <2>1. sink[s] \in Sink
    BY SinkTyped
  <2> QED BY <1>1, <2>1 DEF Sink, SinkOf
<1> QED BY <1>2, <1>3, Touched, AuthorGrows DEF Grows

LEMMA NextGrows == ASSUME IInv, Shape, [Next]_vars PROVE Grows
<1>1. CASE UNCHANGED vars
  BY <1>1 DEF vars, Grows
<1>2. ASSUME NEW p \in Process, Load(p) \/ Die(p) PROVE Grows
  BY <1>2, LoadGrows DEF Die, Grows
<1>3. CASE Fork
  BY <1>3, ForkGrows
<1>4. ASSUME NEW r \in Role, Log(r) PROVE Grows
  BY <1>4, LogGrows
<1>5. ASSUME NEW s \in DOMAIN sink, Rotate(s) PROVE Grows
  BY <1>5, StepGrows, ReopenGrows DEF Rotate
<1> QED BY <1>1, <1>2, <1>3, <1>4, <1>5 DEF Next
-----------------------------------------------------------------------------
LEMMA InitRecent == Init => OwnSink /\ Recent
<1> SUFFICES ASSUME Init PROVE OwnSink /\ Latest
  BY DEF Recent
<1>1. OwnSink /\ uses["daemon"] = 0
  BY DEF Init, OwnSink, Role
<1>2. name[0] = 0 /\ name[1] = 0 /\ author = <<>>
  BY DEF Init
<1>3. Contents(name[0]) = <<>> /\ Contents(name[1]) = <<>>
  BY <1>2 DEF Contents
<1> QED BY <1>1, <1>2, <1>3, RotationAssumption DEF Latest, Consecutive, Ordered, Filled

(* A role keeps its sink, loses it, or gets one of its process.            *)
LEMMA UsesOwn ==
  ASSUME IInv, Grows, OwnSink,
         \A r \in Role : \/ uses'[r] = 0 \/ uses'[r] = uses[r]
                         \/ sink'[uses'[r]].proc = IF r = "daemon" THEN "daemon" ELSE "master"
  PROVE  OwnSink'
<1> SUFFICES ASSUME NEW r \in Role, uses'[r] # 0
             PROVE  sink'[uses'[r]].proc = IF r = "daemon" THEN "daemon" ELSE "master"
  BY DEF OwnSink
<1>1. CASE uses'[r] = uses[r]
  <2>1. uses[r] \in DOMAIN sink
    BY <1>1, NameTyped
  <2> QED BY <1>1, <2>1 DEF OwnSink, Grows
<1> QED BY <1>1

LEMMA GoneUses ==
  ASSUME NEW p, Gone(p) PROVE \A r \in Role : uses'[r] = 0 \/ uses'[r] = uses[r]
BY DEF Gone

LEMMA NextOwnSink == ASSUME IInv, Grows, OwnSink, [Next]_vars PROVE OwnSink'
<1>1. CASE uses' = uses
  BY <1>1, UsesOwn
<1>2. ASSUME NEW p, Gone(p) PROVE OwnSink'
  BY <1>2, GoneUses, UsesOwn
<1>3. ASSUME NEW p \in Process, Load(p) PROVE OwnSink'
  <2>1. /\ sink' = Append(IF name[0] = 0 THEN Meddle(0, Opened(p)) ELSE sink, Opened(p))
        /\ uses' = [uses EXCEPT ![p] = Len(sink) + 1]
    BY <1>3 DEF Load
  <2>2. sink'[Len(sink) + 1].proc = p
    <3>1. PICK m : m = IF name[0] = 0 THEN Meddle(0, Opened(p)) ELSE sink
      OBVIOUS
    <3>2. Len(m) = Len(sink) /\ \E S : m \in Seq(S)
      <4>1. CASE name[0] = 0
        <5>1. m = Meddle(0, Opened(p))
          BY <3>1, <4>1
        <5>2. m \in Seq(Range(m)) /\ Len(m) = Len(sink)
          BY <5>1, Meddling
        <5> QED BY <5>2
      <4>2. CASE name[0] # 0
        <5>1. sink \in Seq(Sink)
          BY DEF IInv, TypeOK, Sink, SinkOf
        <5> QED BY <3>1, <4>2, <5>1
      <4> QED BY <4>1, <4>2
    <3>3. sink'[Len(sink) + 1] = Opened(p)
      BY <2>1, <3>1, <3>2, Appending
    <3> QED BY <3>3 DEF Opened
  <2>3. \A r \in Role : r = p \/ uses'[r] = uses[r]
    BY <2>1, NameTyped
  <2>4. uses'[p] = Len(sink) + 1
    BY <2>1, NameTyped DEF Role, Process
  <2> QED BY <2>2, <2>3, <2>4, UsesOwn DEF Process
<1>4. CASE Fork
  <2>1. /\ sink' = Append(sink, [sink[uses["daemon"]] EXCEPT !.proc = "master"])
        /\ uses' = [uses EXCEPT !["master"] = Len(sink) + 1, !["slave"] = Len(sink) + 1]
    BY <1>4 DEF Fork
  <2>2. sink'[Len(sink) + 1].proc = "master"
    <3>1. sink \in Seq(Sink)
      BY DEF IInv, TypeOK, Sink, SinkOf
    <3>2. uses["daemon"] # 0
      BY <1>4 DEF Fork, IInv, Running
    <3>3. sink[uses["daemon"]] \in Sink
      BY <3>2, NameTyped, SinkTyped DEF Role
    <3>4. [sink[uses["daemon"]] EXCEPT !.proc = "master"].proc = "master"
      BY <3>3 DEF Sink, SinkOf
    <3>5. sink'[Len(sink) + 1] = [sink[uses["daemon"]] EXCEPT !.proc = "master"]
      BY <2>1, <3>1, Appending
    <3> QED BY <3>4, <3>5
  <2>3. \A r \in Role : uses'[r] = uses[r] \/ (r # "daemon" /\ uses'[r] = Len(sink) + 1)
    BY <2>1, NameTyped DEF Role
  <2> QED BY <2>2, <2>3, UsesOwn
<1>5. \/ uses' = uses \/ (\E p : Gone(p)) \/ Fork \/ \E p \in Process : Load(p)
  BY DEF Next, vars, Rotate, Die, Log, StatTarget, Remove, StatSource, Rename, Reopen, ReopenFails, Throw
<1> QED BY <1>1, <1>2, <1>3, <1>4, <1>5
-----------------------------------------------------------------------------
(* The steps that leave the files and the daemon's sink alone.             *)
LEMMA SameLatest ==
  ASSUME IInv, Shape, Latest, UNCHANGED <<name, inode, author>>,
         \A d \in DOMAIN desc : desc'[d] = desc[d],
         \/ uses'["daemon"] = 0
         \/ /\ uses'["daemon"] = uses["daemon"]
            /\ \A u \in DOMAIN sink : /\ sink'[u].pc = sink[u].pc /\ sink'[u].fd = sink[u].fd
                                      /\ sink'[u].size = sink[u].size
  PROVE  Latest'
<1>1. Contents(name[0])' = Contents(name[0]) /\ Contents(name[1])' = Contents(name[1])
  BY DEF Contents
<1>2. Consecutive' /\ Filled'
  BY <1>1 DEF Latest, Consecutive, Filled
<1>3. uses'["daemon"] # 0 => Current(uses["daemon"])'
  <2> SUFFICES ASSUME uses'["daemon"] # 0 PROVE Current(uses["daemon"])'
    OBVIOUS
  <2>1. PICK u : u = uses["daemon"]
    OBVIOUS
  <2>2. u \in DOMAIN sink /\ uses'["daemon"] = u
    BY <2>1, NameTyped DEF Role
  <2>3. /\ Current(u) /\ sink'[u].pc = sink[u].pc /\ sink'[u].fd = sink[u].fd
        /\ sink'[u].size = sink[u].size
    BY <2>1, <2>2 DEF Latest
  <2>4. sink[u].pc = "ready" => desc'[sink[u].fd] = desc[sink[u].fd]
    BY <2>2 DEF Shape
  <2> QED BY <1>1, <2>2, <2>3, <2>4 DEF Current, AtEnd
<1> QED BY <1>2, <1>3 DEF Latest

LEMMA GoneLatest ==
  ASSUME IInv, Shape, Latest, NEW p, Gone(p), UNCHANGED <<name, inode, author, desc, sink>>
  PROVE  Latest'
<1>1. uses'["daemon"] = 0 \/ uses'["daemon"] = uses["daemon"]
  BY GoneUses DEF Role
<1> QED BY <1>1, SameLatest

LEMMA ForkLatest == ASSUME IInv, Shape, Latest, Fork PROVE Latest'
<1>1. /\ sink \in Seq(Sink) /\ UNCHANGED <<name, inode, author, desc>>
      /\ sink' = Append(sink, [sink[uses["daemon"]] EXCEPT !.proc = "master"])
      /\ uses' = [uses EXCEPT !["master"] = Len(sink) + 1, !["slave"] = Len(sink) + 1]
  BY DEF Fork, IInv, TypeOK, Sink, SinkOf
<1>2. \A t \in DOMAIN sink : sink'[t] = sink[t]
  BY <1>1, Appending
<1>3. uses'["daemon"] = uses["daemon"]
  BY <1>1, NameTyped DEF Role
<1> QED BY <1>1, <1>2, <1>3, SameLatest

(* The sink that rotates is the one of the daemon.                         *)
LEMMA Turn ==
  ASSUME IInv, Sole, OwnSink, NEW s \in DOMAIN sink, NEW pc \in Place \ {"ready"}, Rotating(s, pc)
  PROVE  uses["daemon"] = s /\ sink[s].pc = pc
<1>1. PICK r \in Role : uses[r] = s /\ sink[s].pc = pc /\ s # 0
  BY SinkTyped DEF Rotating
<1>2. sink[s].proc # "master"
  BY <1>1 DEF Sole
<1> QED BY <1>1, <1>2 DEF OwnSink

LEMMA LoadLatest ==
  ASSUME IInv, Shape, Sole, Latest, NEW p \in Process, Load(p) PROVE Latest'
<1>1. /\ inode' = IF name[0] = 0 THEN Append(inode, <<>>) ELSE inode
      /\ name' = [name EXCEPT ![0] = File0]
      /\ desc' = Append(desc, [file |-> File0, offset |-> 0, append |-> TRUE])
      /\ sink' = Append(IF name[0] = 0 THEN Meddle(0, Opened(p)) ELSE sink, Opened(p))
      /\ uses' = [uses EXCEPT ![p] = Len(sink) + 1]
      /\ author' = author
  BY DEF Load
<1>2. /\ name[0] \in 0 .. Len(inode) /\ name[1] \in 0 .. Len(inode)
      /\ name'[0] = File0 /\ name'[1] = name[1] /\ File0 # 0
      /\ DOMAIN inode = 1 .. Len(inode) /\ Len(inode) \in Nat /\ inode \in Seq(Content) /\ desc \in Seq(Desc)
  BY <1>1, NameTyped DEF File0, IInv, TypeOK, Content, Desc
<1>3. \A i \in DOMAIN inode : inode'[i] = inode[i]
  <2>1. CASE name[0] = 0
    BY <1>1, <1>2, <2>1, Appending
  <2> QED BY <1>1, <2>1
<1>4. inode'[File0] = Contents(name[0])
  <2>1. CASE name[0] = 0
    BY <1>1, <1>2, <2>1, Appending DEF File0, Contents
  <2> QED BY <1>1, <2>1 DEF File0, Contents
<1>5. Contents(name[0])' = Contents(name[0]) /\ Contents(name[1])' = Contents(name[1])
  <2>1. name[1] # 0 => name[1] \in DOMAIN inode
    BY <1>2
  <2> QED BY <1>2, <1>3, <1>4, <2>1 DEF Contents
<1>6. Consecutive'
  BY <1>1, <1>5 DEF Latest, Consecutive
<1>7. Filled'
  <2>1. CASE name[1] = 0
    BY <1>1, <1>2, <1>5, <2>1 DEF Latest, Filled
  <2>2. CASE name[1] # 0
    <3>1. name[1] \in DOMAIN inode /\ Len(inode[name[1]]) = MaxSize /\ name[1] # name[0]
      BY <1>2, <2>2 DEF Latest, Filled
    <3>2. name[1] # File0
      BY <1>2, <3>1 DEF File0
    <3> QED BY <1>1, <1>2, <1>3, <1>5, <2>2, <3>1, <3>2 DEF Latest, Filled
  <2> QED BY <2>1, <2>2
<1>8. /\ \A d \in DOMAIN desc : desc'[d] = desc[d]
      /\ desc'[Len(desc) + 1] = [file |-> File0, offset |-> 0, append |-> TRUE]
  BY <1>1, <1>2, Appending
<1>9. PICK m : m = IF name[0] = 0 THEN Meddle(0, Opened(p)) ELSE sink
  OBVIOUS
<1>10. /\ DOMAIN m = DOMAIN sink /\ Len(m) = Len(sink) /\ \E S : m \in Seq(S)
       /\ \A t \in DOMAIN sink : m[t].pc = sink[t].pc /\ m[t].fd = sink[t].fd /\ m[t].size = sink[t].size
  <2>1. CASE name[0] = 0
    <3>1. m = Meddle(0, Opened(p)) /\ \A t \in DOMAIN sink : t # 0
      BY <1>9, <2>1 DEF Shape
    <3>2. /\ DOMAIN m = DOMAIN sink /\ m \in Seq(Range(m)) /\ Len(m) = Len(sink)
          /\ \A t \in DOMAIN sink : t # 0 =>
               m[t].pc = sink[t].pc /\ m[t].fd = sink[t].fd /\ m[t].size = sink[t].size
      BY <3>1, Meddling
    <3> QED BY <3>1, <3>2
  <2>2. CASE name[0] # 0
    <3>1. sink \in Seq(Sink)
      BY DEF IInv, TypeOK, Sink, SinkOf
    <3> QED BY <1>9, <2>2, <3>1
  <2> QED BY <2>1, <2>2
<1>11. sink'[Len(sink) + 1] = Opened(p) /\ \A t \in DOMAIN sink : sink'[t] = m[t]
  BY <1>1, <1>9, <1>10, Appending
<1>12. CASE p = "daemon"
  <2>1. uses'["daemon"] = Len(sink) + 1
    BY <1>1, <1>12, NameTyped DEF Role
  <2>2. /\ sink'[Len(sink) + 1].pc = "ready" /\ sink'[Len(sink) + 1].fd = Len(desc) + 1
        /\ sink'[Len(sink) + 1].size = Size(name[0])
    BY <1>11 DEF Opened
  <2>3. Size(name[0]) = Len(inode'[File0])
    BY <1>4 DEF Size, Contents
  <2>4. Current(uses["daemon"])'
    BY <1>2, <1>8, <2>1, <2>2, <2>3 DEF Current, AtEnd
  <2> QED BY <1>6, <1>7, <2>4 DEF Latest
<1>13. CASE p = "master"
  <2>1. uses'["daemon"] = uses["daemon"]
    BY <1>1, <1>13, NameTyped DEF Role
  <2>2. ASSUME uses["daemon"] # 0 PROVE Current(uses["daemon"])'
    <3>1. PICK u \in DOMAIN sink : u = uses["daemon"]
      BY <2>2, NameTyped DEF Role
    <3>2. Current(u)
      BY <2>2, <3>1 DEF Latest
    <3>3. sink'[u].pc = sink[u].pc /\ sink'[u].fd = sink[u].fd /\ sink'[u].size = sink[u].size
      BY <1>10, <1>11
    <3>4. CASE sink[u].pc = "ready"
      <4>1. AtEnd(u) /\ sink[u].fd \in DOMAIN desc
        BY <3>2, <3>4 DEF Current, Shape
      <4>2. File0 = name[0] /\ name[0] \in DOMAIN inode /\ inode'[name[0]] = inode[name[0]]
        BY <1>2, <1>3, <4>1 DEF AtEnd, File0
      <4> QED BY <1>2, <1>8, <2>1, <3>1, <3>3, <3>4, <4>1, <4>2 DEF AtEnd, Current
    <3>5. CASE sink[u].pc = "open"
      BY <1>2, <1>5, <2>1, <3>1, <3>2, <3>3, <3>5 DEF Current
    <3>6. CASE sink[u].pc \notin {"ready", "open"}
      <4>1. name[0] # 0 /\ Len(inode[name[0]]) = MaxSize
        BY <3>2, <3>6 DEF Current
      <4>2. File0 = name[0] /\ name[0] \in DOMAIN inode /\ inode'[name[0]] = inode[name[0]]
        BY <1>2, <1>3, <4>1 DEF File0
      <4> QED BY <1>2, <2>1, <3>1, <3>3, <3>6, <4>1, <4>2 DEF Current
    <3> QED BY <3>4, <3>5, <3>6
  <2> QED BY <1>6, <1>7, <2>1, <2>2 DEF Latest
<1> QED BY <1>12, <1>13 DEF Process

(* A look at a name finds the full file where it was.                      *)
LEMMA LookLatest ==
  ASSUME IInv, Shape, Sole, OwnSink, Latest, NEW s \in DOMAIN sink, StatTarget(s) \/ StatSource(s)
  PROVE  Latest'
<1>1. /\ sink[s].pc \in {"stat1", "stat0"} /\ sink[s] \in Sink /\ uses["daemon"] = s
      /\ UNCHANGED <<inode, name, desc, uses, author>>
  <2>1. Rotating(s, "stat1") \/ Rotating(s, "stat0")
    BY DEF StatTarget, StatSource
  <2>2. "stat1" \in Place \ {"ready"} /\ "stat0" \in Place \ {"ready"}
    BY DEF Place
  <2>3. uses["daemon"] = s /\ sink[s].pc \in {"stat1", "stat0"}
    BY <2>1, <2>2, Turn
  <2> QED BY <2>3, SinkTyped DEF StatTarget, StatSource
<1>2. name[0] # 0 /\ Len(inode[name[0]]) = MaxSize /\ s # 0
  <2>1. s # 0
    BY DEF Shape
  <2> QED BY <1>1, <2>1 DEF Latest, Current
<1>3. sink'[s].pc \notin {"ready", "open"}
  <2>1. \A q \in {"stat0", "remove", "rename"} : [sink[s] EXCEPT !.pc = q].pc = q
    BY <1>1 DEF Sink, SinkOf
  <2>2. \E q \in {"stat0", "remove", "rename"} : sink' = [sink EXCEPT ![s] = [sink[s] EXCEPT !.pc = q]]
    BY <1>2 DEF StatTarget, StatSource
  <2> QED BY <2>1, <2>2
<1>4. Contents(name[0])' = Contents(name[0]) /\ Contents(name[1])' = Contents(name[1])
  BY <1>1 DEF Contents
<1>5. Consecutive' /\ Filled'
  BY <1>1, <1>4 DEF Latest, Consecutive, Filled
<1>6. Current(uses["daemon"])'
  BY <1>1, <1>2, <1>3 DEF Current
<1> QED BY <1>5, <1>6 DEF Latest

LEMMA RemoveLatest ==
  ASSUME IInv, Shape, Sole, OwnSink, Latest, NEW s \in DOMAIN sink, Remove(s)
  PROVE  Latest'
<1>1. /\ sink[s].pc = "remove" /\ sink[s] \in Sink /\ uses["daemon"] = s /\ s # 0
      /\ UNCHANGED <<inode, desc, author>>
  <2>1. Rotating(s, "remove") /\ "remove" \in Place \ {"ready"}
    BY DEF Remove, Place
  <2> QED BY <2>1, SinkTyped, Turn DEF Remove, Throw, Shape
<1>2. name[0] # 0 /\ Len(inode[name[0]]) = MaxSize
  BY <1>1 DEF Latest, Current
<1>3. CASE name[1] = 0
  <2>1. Gone(sink[s].proc) /\ UNCHANGED <<name, sink>>
    BY <1>3 DEF Remove, Throw
  <2> QED BY <1>1, <2>1, GoneLatest
<1>4. CASE name[1] # 0
  <2>1. PICK q : q = [sink[s] EXCEPT !.pc = "stat0"]
    OBVIOUS
  <2>2. q.pc = "stat0"
    BY <1>1, <2>1 DEF Sink, SinkOf
  <2>3. name' = [name EXCEPT ![1] = 0] /\ sink' = Meddle(s, q) /\ uses' = uses
    BY <1>4, <2>1 DEF Remove
  <2>4. sink'[s].pc = "stat0"
    BY <2>2, <2>3, Touched
  <2>5. name'[0] = name[0] /\ name'[1] = 0
    BY <2>3, NameTyped
  <2>6. Contents(name[0])' = Contents(name[0]) /\ Contents(name[1])' = <<>>
    BY <1>1, <2>5 DEF Contents
  <2>7. Consecutive'
    BY <1>1, <2>6, Moving, NameTyped DEF Latest, Consecutive
  <2>8. Filled'
    BY <1>1, <1>2, <2>5, <2>6 DEF Latest, Filled, Contents
  <2>9. Current(uses["daemon"])'
    BY <1>1, <1>2, <2>3, <2>4, <2>5 DEF Current
  <2> QED BY <2>7, <2>8, <2>9 DEF Latest
<1> QED BY <1>3, <1>4

LEMMA RenameLatest ==
  ASSUME IInv, Shape, Sole, OwnSink, Latest, NEW s \in DOMAIN sink, Rename(s)
  PROVE  Latest'
<1>1. /\ sink[s].pc = "rename" /\ sink[s] \in Sink /\ uses["daemon"] = s /\ s # 0
      /\ UNCHANGED <<inode, desc, author>>
  <2>1. Rotating(s, "rename") /\ "rename" \in Place \ {"ready"}
    BY DEF Rename, Place
  <2> QED BY <2>1, SinkTyped, Turn DEF Rename, Throw, Shape
<1>2. name[0] # 0 /\ Len(inode[name[0]]) = MaxSize
  BY <1>1 DEF Latest, Current
<1>3. PICK q : q = [sink[s] EXCEPT !.pc = "open"]
  OBVIOUS
<1>4. q.pc = "open"
  BY <1>1, <1>3 DEF Sink, SinkOf
<1>5. /\ name' = [i \in {0, 1} |-> IF i = 1 THEN name[0] ELSE 0]
      /\ sink' = Meddle(s, q) /\ uses' = uses
  BY <1>2, <1>3 DEF Rename
<1>6. sink'[s].pc = "open"
  BY <1>4, <1>5, Touched
<1>7. name'[0] = 0 /\ name'[1] = name[0]
  BY <1>5
<1>8. Contents(name[0])' = <<>> /\ Contents(name[1])' = Contents(name[0])
  BY <1>1, <1>7 DEF Contents
<1>9. Consecutive'
  BY <1>1, <1>8, Moving, NameTyped DEF Latest, Consecutive
<1>10. Filled'
  BY <1>1, <1>2, <1>7, <1>8, NameTyped DEF Filled
<1>11. Current(uses["daemon"])'
  BY <1>1, <1>2, <1>5, <1>6, <1>7, <1>8 DEF Current
<1> QED BY <1>9, <1>10, <1>11 DEF Latest

(* The daemon's sink s writes to the file f, by the descriptor d that is   *)
(* at its end; the other file is g.                                        *)
WritesAtEnd(s, d, content, opened, f, g) ==
  /\ Write(s, d, content, opened) /\ f = opened[d].file
  /\ opened[d].append \/ opened[d].offset = Len(content[f])
  /\ d \in DOMAIN opened
  /\ opened[d] \in [file : 1 .. Len(content), offset : Nat, append : BOOLEAN]
  /\ Len(content[f]) < MaxSize
  /\ g # f /\ (g # 0 => Len(content[g]) = MaxSize) /\ (g = 0 => Len(content[f]) = Len(author))
  /\ Ordered(IF g = 0 THEN <<>> ELSE content[g], content[f], Len(author))
  /\ name'[0] = f /\ name'[1] = g /\ uses'["daemon"] = s
  /\ sink'[s].pc = "ready" /\ sink'[s].fd = d /\ sink'[s].size = Len(content[f]) + 1

LEMMA WriteLatest ==
  ASSUME IInv, Shape, NEW s \in DOMAIN sink, NEW content \in Seq(Content), NEW opened, NEW d,
         NEW f \in 1 .. Len(content), NEW g \in 0 .. Len(content),
         WritesAtEnd(s, d, content, opened, f, g)
  PROVE  Latest'
<1> USE DEF WritesAtEnd
<1> DEFINE o == opened[d]
           at == IF o.append THEN Len(content[o.file]) ELSE o.offset
<1>1. /\ author' = Append(author, s)
      /\ inode' = [content EXCEPT ![f] = Put(content[f], at, Len(author) + 1)]
      /\ desc' = [opened EXCEPT ![d].offset = at + 1] /\ at = Len(content[f])
  BY DEF Write
<1>2. /\ content[f] \in Seq(0 .. Len(author)) /\ Len(content[f]) \in Nat
      /\ DOMAIN content = 1 .. Len(content) /\ Len(author) \in Nat
      /\ author \in Seq(1 .. Len(sink))
  <2>1. content[f] \in Content
    BY ElementOfSeq
  <2> QED BY <2>1 DEF Content, Shape
<1>3. PICK c : c = Append(content[f], Len(author) + 1)
  OBVIOUS
<1>4. Len(c) = Len(content[f]) + 1
  BY <1>2, <1>3, Appending
<1>5. inode'[f] = c
  BY <1>1, <1>2, <1>3, PutAtEnd
<1>6. g # 0 => inode'[g] = content[g]
  BY <1>1, <1>2
<1>7. /\ desc'[d].file = f /\ desc'[d].append = opened[d].append
      /\ desc'[d].offset = Len(content[f]) + 1
  BY <1>1
<1> HIDE DEF at, o
<1>8. Len(author') = Len(author) + 1
  BY <1>1, <1>2, Appending
<1>9. Contents(name[0])' = c /\ Contents(name[1])' = IF g = 0 THEN <<>> ELSE content[g]
  BY <1>5, <1>6 DEF Contents
<1>10. Consecutive'
  <2>1. PICK c1 : c1 = IF g = 0 THEN <<>> ELSE content[g]
    OBVIOUS
  <2>2. Len(c1) \in Nat
    BY <2>1, RotationAssumption
  <2>3. Ordered(c1, c, Len(author) + 1)
    BY <1>2, <1>3, <2>1, <2>2, Extending
  <2> QED BY <1>8, <1>9, <2>1, <2>3 DEF Consecutive
<1>11. Filled'
  BY <1>2, <1>4, <1>5, <1>6, <1>8, <1>9, RotationAssumption DEF Filled
<1>12. Current(uses["daemon"])'
  BY <1>4, <1>5, <1>7 DEF Current, AtEnd
<1> QED BY <1>10, <1>11, <1>12 DEF Latest

LEMMA LogLatest ==
  ASSUME IInv, Shape, Grows, Sole, Sole', OwnSink, Latest, NEW r \in Role, Log(r)
  PROVE  Latest'
<1>1. PICK s : s = uses[r]
  OBVIOUS
<1>2. /\ s \in DOMAIN sink /\ s # 0 /\ sink[s].pc = "ready" /\ sink[s].fd \in DOMAIN desc
      /\ sink[s].size \in Nat /\ UNCHANGED <<name, uses>>
  <2>1. s \in DOMAIN sink /\ sink[s].pc = "ready" /\ s # 0 /\ UNCHANGED <<name, uses>>
    BY <1>1 DEF Log, IInv, TypeOK
  <2> QED BY <2>1 DEF Shape
<1>3. sink[s] \in Sink /\ sink'[s].proc = sink[s].proc
  BY <1>2, SinkTyped DEF Grows
<1>4. CASE Count(s) > MaxSize
  <2>1. PICK q : q = [sink[s] EXCEPT !.size = Count(s), !.fd = 0, !.pc = "stat1", !.alone = TRUE]
    OBVIOUS
  <2>2. q.pc = "stat1"
    BY <1>3, <2>1 DEF Sink, SinkOf
  <2>3. sink' = [sink EXCEPT ![s] = q] /\ UNCHANGED <<inode, desc, author>>
    BY <1>1, <1>4, <2>1 DEF Log
  <2>4. sink'[s].pc = "stat1" /\ s \in DOMAIN sink'
    BY <1>2, <2>2, <2>3
  <2>5. sink[s].proc # "master"
    BY <1>3, <2>4 DEF Sole
  <2>6. uses["daemon"] = s
    BY <1>1, <1>2, <2>5 DEF OwnSink
  <2>7. AtEnd(s)
    BY <1>2, <2>6 DEF Latest, Current
  <2>8. name[0] # 0 /\ Len(inode[name[0]]) = MaxSize
    <3>1. name[0] # 0 /\ sink[s].size = Len(inode[name[0]]) /\ Len(inode[name[0]]) <= MaxSize
      BY <2>7 DEF AtEnd, Latest, Filled, Contents
    <3>2. sink[s].size + 1 > MaxSize
      BY <1>4 DEF Count
    <3> QED BY <1>2, <3>1, <3>2, RotationAssumption
  <2>9. Contents(name[0])' = Contents(name[0]) /\ Contents(name[1])' = Contents(name[1])
    BY <1>2, <2>3 DEF Contents
  <2>10. Consecutive' /\ Filled'
    BY <1>2, <2>3, <2>9 DEF Latest, Consecutive, Filled
  <2>11. Current(uses["daemon"])'
    BY <1>2, <2>3, <2>4, <2>6, <2>8 DEF Current
  <2> QED BY <2>10, <2>11 DEF Latest
<1>5. CASE ~(Count(s) > MaxSize)
  <2>1. sink' = [sink EXCEPT ![s].size = Count(s)] /\ Write(s, sink[s].fd, inode, desc)
    BY <1>1, <1>5 DEF Log
  <2>2. sink[s].proc # "master"
    <3>1. \E q \in DOMAIN author' : author'[q] = s
      BY <2>1, AuthorGrows DEF Write
    <3> QED BY <1>3, <3>1 DEF Sole
  <2>3. uses["daemon"] = s
    BY <1>1, <1>2, <2>2 DEF OwnSink
  <2>4. AtEnd(s)
    BY <1>2, <2>3 DEF Latest, Current
  <2>5. PICK f \in DOMAIN inode : f = name[0]
    BY <2>4, NameTyped DEF AtEnd
  <2>6. PICK d \in DOMAIN desc : d = sink[s].fd
    BY <1>2
  <2>7. PICK g \in 0 .. Len(inode) : g = name[1]
    BY NameTyped
  <2>8. /\ inode \in Seq(Content) /\ desc[d] \in Desc /\ DOMAIN inode = 1 .. Len(inode)
    <3>1. desc \in Seq(Desc) /\ inode \in Seq(Content)
      BY DEF IInv, TypeOK, Desc, Content
    <3> QED BY <3>1, ElementOfSeq DEF Shape
  <2>9. /\ f = desc[d].file
        /\ desc[d].append \/ desc[d].offset = Len(inode[f])
        /\ sink[s].size = Len(inode[f])
    BY <2>4, <2>5, <2>6 DEF AtEnd
  <2>10. Len(inode[f]) < MaxSize
    BY <1>2, <1>5, <2>9, RotationAssumption DEF Count
  <2>11. f # 0
    BY <2>8
  <2>12. /\ g # f /\ (g # 0 => Len(inode[g]) = MaxSize) /\ (g = 0 => Len(inode[f]) = Len(author))
    <3>1. Contents(name[0]) = inode[f]
      BY <2>5, <2>11 DEF Contents
    <3>2. Len(inode[f]) # MaxSize
      BY <1>2, <2>9, <2>10, RotationAssumption
    <3> QED BY <2>5, <2>7, <2>11, <3>1, <3>2 DEF Latest, Filled
  <2>13. Ordered(IF g = 0 THEN <<>> ELSE inode[g], inode[f], Len(author))
    BY <2>5, <2>7, <2>11 DEF Latest, Consecutive, Contents
  <2>14. /\ sink'[s].pc = "ready" /\ sink'[s].fd = d /\ sink'[s].size = Len(inode[f]) + 1
    <3>1. sink'[s] = [sink[s] EXCEPT !.size = Count(s)]
      BY <1>2, <2>1
    <3>2. /\ sink'[s].pc = sink[s].pc /\ sink'[s].fd = sink[s].fd /\ sink'[s].size = sink[s].size + 1
      BY <1>3, <3>1 DEF Sink, SinkOf, Count
    <3> QED BY <1>2, <2>6, <2>9, <3>2
  <2>15. Write(s, d, inode, desc) /\ name'[0] = f /\ name'[1] = g /\ uses'["daemon"] = s
    BY <1>2, <2>1, <2>3, <2>5, <2>6, <2>7
  <2>16. f \in 1 .. Len(inode) /\ desc[d] \in [file : 1 .. Len(inode), offset : Nat, append : BOOLEAN]
    BY <2>8 DEF Desc
  <2>17. WritesAtEnd(s, d, inode, desc, f, g)
    <3>1. desc[d].append \/ desc[d].offset = Len(inode[f])
      BY <2>9
    <3>2. f = desc[d].file /\ d \in DOMAIN desc
      BY <2>9
    <3> QED BY <2>10, <2>12, <2>13, <2>14, <2>15, <2>16, <3>1, <3>2 DEF WritesAtEnd
  <2> QED BY <1>2, <2>7, <2>8, <2>16, <2>17, WriteLatest
<1> QED BY <1>4, <1>5

LEMMA ReopenLatest ==
  ASSUME IInv, Shape, Sole, OwnSink, Latest, NEW s \in DOMAIN sink, Reopen(s)
  PROVE  Latest'
<1> DEFINE content == IF name[0] = 0 THEN Append(inode, <<>>) ELSE [inode EXCEPT ![File0] = <<>>]
           file == [file |-> File0, offset |-> 0, append |-> FALSE]
           opened == Append(desc, file)
<1>1. /\ sink[s].pc = "open" /\ sink[s] \in Sink /\ uses["daemon"] = s /\ s # 0
      /\ name' = [name EXCEPT ![0] = File0] /\ uses' = uses
      /\ Write(s, Len(desc) + 1, content, opened)
  <2>1. Rotating(s, "open") /\ "open" \in Place \ {"ready"}
    BY DEF Reopen, Place
  <2> QED BY <2>1, SinkTyped, Turn DEF Reopen, Shape
<1>2. /\ Contents(name[0]) = <<>> /\ name[1] # 0 /\ Len(inode[name[1]]) = MaxSize /\ name[1] # name[0]
  BY <1>1 DEF Latest, Current, Filled
<1>3. PICK q : q = [sink[s] EXCEPT !.pc = "ready", !.size = 1, !.fd = Len(desc) + 1]
  OBVIOUS
<1>4. q.pc = "ready" /\ q.size = 1 /\ q.fd = Len(desc) + 1
  BY <1>1, <1>3 DEF Sink, SinkOf
<1>5. sink'[s] = q
  <2>1. sink' = Meddle(s, q)
    BY <1>3 DEF Reopen
  <2> QED BY <2>1, Touched
<1>6. /\ inode \in Seq(Content) /\ desc \in Seq(Desc) /\ Len(desc) \in Nat /\ Len(inode) \in Nat
      /\ name[0] \in 0 .. Len(inode) /\ name[1] \in 0 .. Len(inode) /\ DOMAIN inode = 1 .. Len(inode)
      /\ <<>> \in Content /\ name'[0] = File0 /\ name'[1] = name[1]
  BY <1>1, NameTyped DEF IInv, TypeOK, Desc, Content
<1>7. /\ content \in Seq(Content) /\ File0 \in 1 .. Len(content) /\ content[File0] = <<>>
      /\ name[1] \in 1 .. Len(content) /\ content[name[1]] = inode[name[1]] /\ name[1] # File0
  <2>1. CASE name[0] = 0
    <3>1. content = Append(inode, <<>>) /\ File0 = Len(inode) + 1
      BY <2>1 DEF File0
    <3> HIDE DEF content
    <3>2. content \in Seq(Content) /\ Len(content) = Len(inode) + 1
      BY <1>6, <3>1
    <3>3. content[Len(inode) + 1] = <<>> /\ \A i \in DOMAIN inode : content[i] = inode[i]
      BY <1>6, <3>1, Appending
    <3> QED BY <1>2, <1>6, <3>1, <3>2, <3>3
  <2>2. CASE name[0] # 0
    <3>1. File0 \in 1 .. Len(inode) /\ content = [inode EXCEPT ![File0] = <<>>] /\ File0 = name[0]
      BY <1>6, <2>2 DEF File0
    <3> HIDE DEF content
    <3>2. content \in Seq(Content) /\ Len(content) = Len(inode)
      BY <1>6, <3>1, ExceptSeq
    <3> QED BY <1>2, <1>6, <3>1, <3>2
  <2> QED BY <2>1, <2>2
<1> HIDE DEF content
<1>8. /\ Len(desc) + 1 \in DOMAIN opened /\ opened[Len(desc) + 1] = file
  BY <1>6, Appending
<1> HIDE DEF opened
<1>9. /\ file.file = File0 /\ file.offset = 0
      /\ file \in [file : 1 .. Len(content), offset : Nat, append : BOOLEAN]
  BY <1>7
<1> HIDE DEF file
<1>10. Ordered(content[name[1]], content[File0], Len(author))
  BY <1>2, <1>7 DEF Latest, Consecutive, Contents
<1>11. PICK d : d = Len(desc) + 1
  OBVIOUS
<1>12. PICK f \in 1 .. Len(content) : f = File0
  BY <1>7
<1>13. PICK g \in 0 .. Len(content) : g = name[1] /\ g # 0
  BY <1>2, <1>7
<1>14. /\ Len(content[f]) = 0 /\ 0 < MaxSize
  BY <1>7, <1>12, RotationAssumption
<1>15. /\ Write(s, d, content, opened) /\ f = opened[d].file /\ opened[d].offset = Len(content[f])
       /\ d \in DOMAIN opened /\ opened[d] \in [file : 1 .. Len(content), offset : Nat, append : BOOLEAN]
       /\ g # f /\ Len(content[g]) = MaxSize /\ name'[0] = f /\ name'[1] = g
       /\ Ordered(IF g = 0 THEN <<>> ELSE content[g], content[f], Len(author))
       /\ sink'[s].pc = "ready" /\ sink'[s].fd = d /\ sink'[s].size = Len(content[f]) + 1
       /\ uses'["daemon"] = s
  BY <1>1, <1>2, <1>4, <1>5, <1>6, <1>7, <1>8, <1>9, <1>10, <1>11, <1>12, <1>13, <1>14
<1>16. WritesAtEnd(s, d, content, opened, f, g)
  BY <1>13, <1>14, <1>15 DEF WritesAtEnd
<1> QED BY <1>7, <1>13, <1>16, WriteLatest

LEMMA NextRecent ==
  ASSUME IInv, Shape, OwnSink, Recent, [Next]_vars PROVE OwnSink' /\ Recent'
<1>1. Grows
  BY NextGrows
<1>2. OwnSink'
  BY <1>1, NextOwnSink
<1>3. ASSUME Sole' PROVE Latest'
  <2>1. Sole /\ Latest
    BY <1>1, <1>3, SoleBefore DEF Recent
  <2>2. CASE UNCHANGED vars
    BY <2>1, <2>2, SameLatest DEF vars
  <2>3. ASSUME NEW p \in Process, Load(p) \/ Die(p) PROVE Latest'
    BY <2>1, <2>3, LoadLatest, GoneLatest DEF Die
  <2>4. CASE Fork
    BY <2>1, <2>4, ForkLatest
  <2>5. ASSUME NEW r \in Role, Log(r) PROVE Latest'
    BY <1>1, <1>3, <2>1, <2>5, LogLatest
  <2>6. ASSUME NEW s \in DOMAIN sink, Rotate(s) PROVE Latest'
    <3>1. CASE ReopenFails(s)
      BY <2>1, <3>1, GoneLatest DEF ReopenFails, Throw
    <3> QED BY <2>1, <2>6, <3>1, LookLatest, RemoveLatest, RenameLatest, ReopenLatest DEF Rotate
  <2> QED BY <2>2, <2>3, <2>4, <2>5, <2>6 DEF Next
<1> QED BY <1>2, <1>3 DEF Recent

LEMMA LatestKept ==
  ASSUME IInv, Recent PROVE KeepsRecent
<1> SUFFICES ASSUME Sole
             PROVE  /\ \E k \in 0 .. Len(author) : Trail = [i \in 1 .. Len(author) - k |-> k + i]
                    /\ Len(Trail) >= (IF Len(author) < MaxSize THEN Len(author) ELSE MaxSize)
  BY DEF KeepsRecent
<1>1. PICK c0 \in Seq(0 .. Len(author)) : c0 = Contents(name[0])
  BY NameTyped
<1>2. PICK c1 \in Seq(0 .. Len(author)) : c1 = Contents(name[1])
  BY NameTyped
<1>3. PICK n \in Nat : n = Len(author)
  BY NameTyped
<1>4. PICK t \in Seq(0 .. n) : t = c1 \o c0
  BY <1>1, <1>2, <1>3, ConcatProperties
<1>5. /\ Len(t) = Len(c1) + Len(c0) /\ Len(c1) \in Nat /\ Len(c0) \in Nat /\ DOMAIN t = 1 .. Len(t)
      /\ \A i \in 1 .. Len(t) : t[i] = IF i <= Len(c1) THEN c1[i] ELSE c0[i - Len(c1)]
  BY <1>1, <1>2, <1>3, <1>4, ConcatProperties
<1>6. Ordered(c1, c0, n)
  BY <1>1, <1>2, <1>3 DEF Recent, Latest, Consecutive
<1>7. PICK k \in 0 .. n : k = n - Len(c0) - Len(c1)
  <2>1. Len(c0) + Len(c1) <= n
    BY <1>6 DEF Ordered
  <2>2. \A l0, l1 \in Nat : l0 + l1 <= n => n - l0 - l1 \in 0 .. n
    OBVIOUS
  <2>3. n - Len(c0) - Len(c1) \in 0 .. n
    BY <1>5, <2>1, <2>2
  <2> QED BY <2>3
<1>8. Len(t) = n - k
  BY <1>5, <1>7
<1>9. \A i \in 1 .. n - k : t[i] = k + i
  <2> SUFFICES ASSUME NEW i \in 1 .. n - k PROVE t[i] = k + i
    OBVIOUS
  <2>1. CASE i <= Len(c1)
    <3>1. i \in 1 .. Len(c1)
      BY <1>5, <2>1
    <3> QED BY <1>5, <1>6, <1>7, <1>8, <2>1, <3>1 DEF Ordered
  <2>2. CASE ~(i <= Len(c1))
    <3>1. i - Len(c1) \in 1 .. Len(c0)
      BY SMTT(30), <1>5, <1>8, <2>2
    <3>2. t[i] = c0[i - Len(c1)]
      BY <1>5, <1>8, <2>2
    <3>3. c0[i - Len(c1)] = n - Len(c0) + (i - Len(c1))
      BY <1>6, <3>1 DEF Ordered
    <3> QED BY <1>5, <1>7, <3>2, <3>3
  <2> QED BY <2>1, <2>2
<1>10. t = [i \in 1 .. n - k |-> k + i]
  BY <1>5, <1>8, <1>9
<1>11. Len(t) >= (IF n < MaxSize THEN n ELSE MaxSize)
  <2>1. CASE name[1] = 0
    <3>1. c1 = <<>> /\ (Len(c0) = n \/ Len(c0) = MaxSize)
      BY <1>1, <1>2, <1>3, <2>1 DEF Recent, Latest, Filled, Contents
    <3> QED BY <1>5, <3>1, RotationAssumption
  <2>2. CASE name[1] # 0
    <3>1. Len(c1) = MaxSize
      BY <1>2, <2>2 DEF Recent, Latest, Filled, Contents
    <3> QED BY <1>5, <3>1, RotationAssumption
  <2> QED BY <2>1, <2>2
<1> QED BY <1>1, <1>2, <1>3, <1>4, <1>10, <1>11 DEF Trail

LEMMA SpecRecent == Spec => [](IInv /\ OwnSink /\ Recent)
<1>1. Init => OwnSink /\ Recent
  BY InitRecent
<1>2. IInv => Shape
  BY ShapeOf
<1>3. IInv /\ Shape /\ OwnSink /\ Recent /\ [Next]_vars => OwnSink' /\ Recent'
  BY NextRecent
<1> QED BY <1>1, <1>2, <1>3, SpecIInv, PTL DEF Spec

(* As long as only the daemon logs, the two files together end with its    *)
(* last record and go back without a gap for at least MaxSize records or   *)
(* to the first: in the middle of a rotation, after a crash in one, across *)
(* reloads, and for any number of sinks and failing calls of fopen.        *)
THEOREM KeepsRecentAlways == Spec => []KeepsRecent
<1>1. IInv /\ Recent => KeepsRecent
  BY LatestKept
<1> QED BY <1>1, SpecRecent, PTL
=============================================================================
