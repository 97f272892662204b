----------------------------- MODULE TcpServer -----------------------------
(***************************************************************************)
(* slaves::tcp_server and slaves::connection on the worker threads of the  *)
(* Master's io_service, with clients that behave like async_client.        *)
(*                                                                         *)
(* A connection object lives as long as a shared_ptr to it: new_connection_*)
(* or the handler of an operation that is outstanding, ready or running.   *)
(* Its destructor closes the socket.  The parser of requests is commented  *)
(* out in handle_read, so its tribool keeps the value false.               *)
(***************************************************************************)
EXTENDS Naturals, Sequences, SequencesExt, FiniteSets

CONSTANTS
  Client,    (* each connects once                                          *)
  NoClient,
  Silent,    (* clients that need not go on once they are connected         *)
  Pieces,    (* the segments each client's request arrives in               *)
  Thread,    (* ThreadCount worker threads in io_service::run               *)
  Idle,
  FdLimits   (* how many descriptors may be left for accepted sockets       *)

ASSUME ServerAssumption ==
  /\ Silent \subseteq Client /\ NoClient \notin Client
  /\ Pieces \in [Client -> Nat \ {0}] /\ FdLimits \subseteq Nat \ {0}

Handler == [op : {"accept", "rearm", "read", "write"}, conn : Client \cup {NoClient}, ok : BOOLEAN]
ASSUME IdleAssumption == Idle \notin Handler

VARIABLES
  fds,     (* the descriptors set_fd_limit leaves for sockets               *)
  phase,   (* of the Master: "new", "listening", "up" or "exited"           *)
  armed,   (* an async_accept is outstanding                                *)
  held,    (* the client whose socket new_connection_ owns, or NoClient     *)
  backlog, (* connections the kernel has made and nobody has accepted       *)
  sock,    (* the server's socket of each client                            *)
  op,      (* the operation outstanding on it                               *)
  reply,   (* the status in the reply_ of each connection, 0 before         *)
  ready,   (* the queue of handlers of the io_service                       *)
  thread,  (* the handler each thread runs, or Idle                         *)
  cli,     (* where in its chain of handlers each client is                 *)
  unsent,  (* segments of its request it has still to write                 *)
  inbox,   (* segments that have arrived and were not read                  *)
  wire     (* the statuses that were sent to it                             *)

server  == <<fds, phase, armed, held, sock, op, reply, ready, thread>>
clients == <<cli, unsent, inbox, wire>>
vars    == <<server, backlog, clients>>

TypeOK ==
  /\ fds \in FdLimits
  /\ phase \in {"new", "listening", "up", "exited"}
  /\ armed \in BOOLEAN /\ held \in Client \cup {NoClient}
  /\ backlog \in Seq(Client)
  /\ sock \in [Client -> {"none", "backlog", "open", "shut", "closed"}]
  /\ op \in [Client -> {"none", "read", "write"}]
  /\ reply \in [Client -> {0, 200, 400, 404, 500}]
  /\ ready \in Seq(Handler) /\ thread \in [Thread -> Handler \cup {Idle}]
  /\ cli \in [Client -> {"connect", "write", "status", "done", "failed", "left"}]
  /\ unsent \in [Client -> Nat] /\ inbox \in [Client -> Nat]
  /\ \A c \in Client : wire[c] \in {<<>>} \cup {<<s>> : s \in {200, 400, 404, 500}}

Init ==
  /\ fds \in FdLimits
  /\ phase = "new" /\ armed = FALSE /\ held = NoClient /\ backlog = <<>>
  /\ sock = [c \in Client |-> "none"] /\ op = [c \in Client |-> "none"]
  /\ reply = [c \in Client |-> 0]
  /\ ready = <<>> /\ thread = [t \in Thread |-> Idle]
  /\ cli = [c \in Client |-> "connect"] /\ unsent = Pieces
  /\ inbox = [c \in Client |-> 0] /\ wire = [c \in Client |-> <<>>]
-----------------------------------------------------------------------------
(* Lifetimes                                                               *)

Task(o, c, k) == [op |-> o, conn |-> c, ok |-> k]

Owned(c) ==
  \/ held = c \/ op[c] # "none"
  \/ \E i \in DOMAIN ready : ready[i].conn = c
  \/ \E t \in Thread : thread[t] # Idle /\ thread[t].conn = c

(* The sockets s after the step: the last shared_ptr closes its socket.    *)
Release(s) ==
  sock' = [c \in Client |-> IF s[c] \in {"open", "shut"} /\ ~Owned(c)' THEN "closed" ELSE s[c]]

Descriptors == {c \in Client : sock[c] \in {"open", "shut"}}
-----------------------------------------------------------------------------
(* The Master's side of the server's life                                  *)

(* open, bind and listen; an error of one of them ends the process.        *)
Construct ==
  /\ phase = "new"
  /\ phase' \in {"listening", "exited"}
  /\ UNCHANGED <<fds, armed, held, sock, op, reply, ready, thread, backlog, clients>>

(* register_service calls run, and run_all_services makes the threads.     *)
RunServices ==
  /\ phase = "listening"
  /\ phase' = "up" /\ armed' = TRUE
  /\ UNCHANGED <<fds, held, sock, op, reply, ready, thread, backlog, clients>>

(* work_proc returns on SIGTERM and the process exits, whatever its        *)
(* threads are doing: nobody calls handle_stop.                            *)
Exit ==
  /\ phase \in {"listening", "up"}
  /\ phase' = "exited" /\ armed' = FALSE /\ held' = NoClient /\ backlog' = <<>>
  /\ sock' = [c \in Client |-> IF sock[c] = "none" THEN "none" ELSE "closed"]
  /\ op' = [c \in Client |-> "none"]
  /\ ready' = <<>> /\ thread' = [t \in Thread |-> Idle]
  /\ UNCHANGED <<fds, reply, clients>>
-----------------------------------------------------------------------------
(* Completion of operations by the reactor                                 *)

(* accept fails at once when there is no descriptor for the new socket.    *)
CompleteAccept ==
  /\ armed /\ backlog # <<>>
  /\ armed' = FALSE
  /\ IF Cardinality(Descriptors) < fds
     THEN /\ held' = Head(backlog) /\ backlog' = Tail(backlog)
          /\ sock' = [sock EXCEPT ![Head(backlog)] = "open"]
          /\ ready' = Append(ready, Task("accept", NoClient, TRUE))
     ELSE /\ ready' = Append(ready, Task("accept", NoClient, FALSE))
          /\ UNCHANGED <<held, backlog, sock>>
  /\ UNCHANGED <<fds, phase, op, reply, thread, clients>>

Gone(c) == cli[c] \in {"done", "failed", "left"}

(* async_read_some takes what has arrived, or fails when the client left.  *)
CompleteRead(c) ==
  /\ op[c] = "read"
  /\ op' = [op EXCEPT ![c] = "none"]
  /\ \/ /\ inbox[c] > 0
        /\ inbox' = [inbox EXCEPT ![c] = 0]
        /\ ready' = Append(ready, Task("read", c, TRUE))
     \/ /\ Gone(c)
        /\ ready' = Append(ready, Task("read", c, FALSE))
        /\ UNCHANGED inbox
  /\ UNCHANGED <<fds, phase, armed, held, sock, reply, thread, backlog, cli, unsent, wire>>

(* async_write has sent the buffers of reply_, or failed on a reset.       *)
CompleteWrite(c) ==
  /\ op[c] = "write"
  /\ op' = [op EXCEPT ![c] = "none"]
  /\ \/ /\ wire' = [wire EXCEPT ![c] = Append(@, reply[c])]
        /\ ready' = Append(ready, Task("write", c, TRUE))
     \/ /\ Gone(c)
        /\ ready' = Append(ready, Task("write", c, FALSE))
        /\ UNCHANGED wire
  /\ UNCHANGED <<fds, phase, armed, held, sock, reply, thread, backlog, cli, unsent, inbox>>
-----------------------------------------------------------------------------
(* The handlers, on the worker threads                                     *)

(* strand_.wrap keeps the handlers of one connection apart.                *)
StrandFree(h) == \A u \in Thread : thread[u] # Idle => thread[u].conn \in {NoClient} \cup (Client \ {h.conn})

(* A thread takes the first handler that may run.                          *)
Pick(t) ==
  /\ phase = "up" /\ thread[t] = Idle
  /\ \E i \in DOMAIN ready :
       /\ StrandFree(ready[i]) /\ \A j \in 1 .. i - 1 : ~StrandFree(ready[j])
       /\ ready' = RemoveAt(ready, i)
       /\ thread' = [thread EXCEPT ![t] = ready[i]]
  /\ UNCHANGED <<fds, phase, armed, held, sock, op, reply, backlog, clients>>

Runs(t, o) == thread[t] # Idle /\ thread[t].op = o

(* Mutants: the next accept is started first; only after a success.        *)
HandleAcceptRearmFirst(t) ==
  /\ Runs(t, "accept")
  /\ held' = NoClient /\ armed' = TRUE
  /\ thread' = [thread EXCEPT ![t] = Idle]
  /\ UNCHANGED <<op, ready>> /\ Release(sock)
  /\ UNCHANGED <<fds, phase, reply, backlog, clients>>
HandleAcceptSuccess(t) ==
  /\ Runs(t, "accept")
  /\ op' = IF thread[t].ok THEN [op EXCEPT ![held] = "read"] ELSE op
  /\ thread' = [thread EXCEPT ![t] = IF thread[t].ok THEN Task("rearm", NoClient, TRUE) ELSE Idle]
  /\ UNCHANGED <<fds, phase, armed, held, sock, reply, ready, backlog, clients>>

(* handle_accept starts the connection, whose handlers may run at once on  *)
(* other threads, and then whatever the result was                         *)
HandleAccept(t) ==
  /\ Runs(t, "accept")
  /\ op' = IF thread[t].ok THEN [op EXCEPT ![held] = "read"] ELSE op
  /\ thread' = [thread EXCEPT ![t] = Task("rearm", NoClient, TRUE)]
  /\ UNCHANGED <<fds, phase, armed, held, sock, reply, ready, backlog, clients>>

(* calls start_accept, which lets go of the connection in new_connection_. *)
StartAccept(t) ==
  /\ Runs(t, "rearm")
  /\ held' = NoClient /\ armed' = TRUE
  /\ thread' = [thread EXCEPT ![t] = Idle]
  /\ UNCHANGED <<op, ready>> /\ Release(sock)
  /\ UNCHANGED <<fds, phase, reply, backlog, clients>>

(* reply::stock_reply and to_buffers: an unknown status is sent as 500.    *)
StockReply(s) == IF s \in {200, 400, 404} THEN s ELSE 500

(* Mutants: a failed read is tried again; the answer and the next read are *)
(* started together.                                                       *)
HandleReadRetries(t) ==
  /\ Runs(t, "read")
  /\ LET c == thread[t].conn IN
       /\ op' = [op EXCEPT ![c] = IF thread[t].ok THEN "write" ELSE "read"]
       /\ reply' = IF thread[t].ok THEN [reply EXCEPT ![c] = StockReply(400)] ELSE reply
  /\ thread' = [thread EXCEPT ![t] = Idle]
  /\ UNCHANGED <<held, ready>> /\ Release(sock)
  /\ UNCHANGED <<fds, phase, armed, backlog, clients>>
HandleReadAgain(t) ==
  /\ Runs(t, "read")
  /\ LET c == thread[t].conn IN
       /\ op' = IF thread[t].ok THEN [op EXCEPT ![c] = "write"] ELSE op
       /\ reply' = IF thread[t].ok THEN [reply EXCEPT ![c] = StockReply(400)] ELSE reply
       /\ ready' = IF thread[t].ok /\ inbox[c] > 0 THEN Append(ready, Task("read", c, TRUE)) ELSE ready
  /\ thread' = [thread EXCEPT ![t] = Idle]
  /\ UNCHANGED held /\ Release(sock)
  /\ UNCHANGED <<fds, phase, armed, backlog, clients>>

(* Whatever was read, the answer is bad_request; after an error no new     *)
(* operation is started.                                                   *)
HandleRead(t) ==
  /\ Runs(t, "read")
  /\ LET c == thread[t].conn IN
       /\ op' = IF thread[t].ok THEN [op EXCEPT ![c] = "write"] ELSE op
       /\ reply' = IF thread[t].ok THEN [reply EXCEPT ![c] = StockReply(400)] ELSE reply
  /\ thread' = [thread EXCEPT ![t] = Idle]
  /\ UNCHANGED <<held, ready>> /\ Release(sock)
  /\ UNCHANGED <<fds, phase, armed, backlog, clients>>

(* The connection is shut down in both directions, and destroyed unless    *)
(* new_connection_ still holds it.                                         *)
HandleWrite(t) ==
  /\ Runs(t, "write")
  /\ thread' = [thread EXCEPT ![t] = Idle]
  /\ UNCHANGED <<op, held, ready>>
  /\ Release(IF thread[t].ok THEN [sock EXCEPT ![thread[t].conn] = "shut"] ELSE sock)
  /\ UNCHANGED <<fds, phase, armed, reply, backlog, clients>>
-----------------------------------------------------------------------------
(* async_client                                                            *)

(* The kernel connects as soon as the acceptor listens, and refuses before.*)
HandleConnect(c) ==
  /\ cli[c] = "connect"
  /\ IF phase \in {"listening", "up"}
     THEN /\ cli' = [cli EXCEPT ![c] = "write"]
          /\ sock' = [sock EXCEPT ![c] = "backlog"]
          /\ backlog' = Append(backlog, c)
     ELSE /\ cli' = [cli EXCEPT ![c] = "left"]
          /\ UNCHANGED <<sock, backlog>>
  /\ UNCHANGED <<fds, phase, armed, held, op, reply, ready, thread, unsent, inbox, wire>>

(* A segment that arrives at a socket that is shut is left unread.         *)
HandleWriteRequest(c) ==
  /\ cli[c] = "write"
  /\ unsent' = [unsent EXCEPT ![c] = @ - 1]
  /\ inbox' = [inbox EXCEPT ![c] = @ + 1]
  /\ cli' = [cli EXCEPT ![c] = IF unsent[c] = 1 THEN "status" ELSE "write"]
  /\ UNCHANGED <<server, backlog, wire>>

(* A status other than 200 ends the client.  When the server closes with   *)
(* data unread the kernel resets the connection, and the answer may be     *)
(* lost with it.                                                           *)
HandleReadStatusLine(c) ==
  /\ cli[c] = "status"
  /\ \/ wire[c] # <<>> /\ cli' = [cli EXCEPT ![c] = "done"]
     \/ /\ sock[c] = "closed" /\ (wire[c] = <<>> \/ inbox[c] > 0)
        /\ cli' = [cli EXCEPT ![c] = "failed"]
  /\ UNCHANGED <<server, backlog, unsent, inbox, wire>>

(* The user interrupts the client, or the network fails.                   *)
Leave(c) ==
  /\ cli[c] \in {"write", "status"}
  /\ cli' = [cli EXCEPT ![c] = "left"]
  /\ UNCHANGED <<server, backlog, unsent, inbox, wire>>
-----------------------------------------------------------------------------
ClientStep(c) ==
  HandleConnect(c) \/ HandleWriteRequest(c) \/ HandleReadStatusLine(c)

Run(t) == HandleAccept(t) \/ StartAccept(t) \/ HandleRead(t) \/ HandleWrite(t)

Next ==
  \/ Construct \/ RunServices \/ Exit \/ CompleteAccept
  \/ \E c \in Client : CompleteRead(c) \/ CompleteWrite(c) \/ ClientStep(c) \/ Leave(c)
  \/ \E t \in Thread : Pick(t) \/ Run(t)

(* Threads run, the reactor reports what is ready and clients that are not *)
(* silent go on.                                                           *)
Fairness ==
  /\ WF_vars(Construct) /\ WF_vars(RunServices) /\ WF_vars(CompleteAccept)
  /\ \A c \in Client : WF_vars(CompleteRead(c)) /\ WF_vars(CompleteWrite(c))
  /\ \A t \in Thread : WF_vars(Run(t))
  /\ WF_vars(\E t \in Thread : Pick(t))
  /\ \A c \in Client \ Silent : WF_vars(ClientStep(c))

Spec == Init /\ [][Next]_vars /\ Fairness
-----------------------------------------------------------------------------
(* While the server runs, exactly one accept is outstanding, ready or in   *)
(* the hands of a thread: an error, such as the descriptor limit, never    *)
(* leaves the port without anyone to accept, nor with two.                 *)
OneAccept ==
  phase = "up" =>
    Cardinality({t \in Thread : Runs(t, "accept") \/ Runs(t, "rearm")})
      + Cardinality({i \in DOMAIN ready : ready[i].op = "accept"}) + (IF armed THEN 1 ELSE 0) = 1

(* reply_ and buffer_ of a connection are used by one operation or handler *)
(* at a time: "the reply object must remain valid and not be changed until *)
(* the write operation has completed".                                     *)
Serial ==
  \A c \in Client :
    Cardinality({t \in Thread : thread[t] # Idle /\ thread[t].conn = c})
      + Cardinality({i \in DOMAIN ready : ready[i].conn = c}) + (IF op[c] = "none" THEN 0 ELSE 1) <= 1

(* A client whose request arrives in one segment is never hung up on: it   *)
(* gets its answer as long as the Master lives, though the accept handler  *)
(* and the connection's own handlers let go of the object in any order.    *)
NoHangUp ==
  \A c \in Client : phase = "up" /\ Pieces[c] = 1 =>
    /\ cli[c] # "failed"
    /\ sock[c] \in {"shut", "closed"} => Gone(c) \/ wire[c] # <<>>

(* The descriptor of a client that is gone comes back.                     *)
Reclaimed ==
  \A c \in Client :
    Gone(c) /\ sock[c] \in {"open", "shut"} ~> sock[c] = "closed"

(* At the descriptor limit nobody is forgotten: if the silent clients      *)
(* leave at last, every other client that is connected gets an answer or   *)
(* an error.                                                               *)
Served ==
  (\A s \in Silent : <>[](cli[s] \notin {"write", "status"})) =>
    \A c \in Client \ Silent : cli[c] = "status" ~> Gone(c)
=============================================================================
