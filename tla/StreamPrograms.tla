--------------------------- MODULE StreamPrograms ---------------------------
(***************************************************************************)
(* The clients and servers of day3 over stream sockets:                    *)
(*   inet      16_sock_inet/main.cpp: the server hands each connection to  *)
(*             a pool of threads, which waits for the question;            *)
(*   tcp       socknet/tcp_server.cpp and tcp_client.cpp: one connection;  *)
(*   sendAll   the same with tcp_socket::sendAll, read to the end;         *)
(*   unix      unix_stream_server/main.cpp: one connection after the other.*)
(* Servers and clients start in any order, and any of them may be killed;  *)
(* a second server may compete with the first or replace it.               *)
(***************************************************************************)
EXTENDS StreamSockets

CONSTANTS Buffer,      (* what sendAll is to send: up to all of it         *)
          IntMax,      (* INT_MAX: sendAll counts in a size_t, which holds *)
                       (* every length, and returns an int                 *)
          Room,        (* how much of it the kernel holds                  *)
          PoolSize,    (* the threads of the inet server                   *)
          MaxTasks     (* bound: the tasks that wait for a thread          *)

ASSUME BufferAssumption == Buffer \in Seq(Nat)
ASSUME IntMaxAssumption == IntMax \in Nat \ {0}
ASSUME SizesAssumption == Room \in Nat \ {0} /\ PoolSize \in Nat \ {0} /\ MaxTasks \in Nat

VARIABLES serving,     (* per server of one client at a time: which        *)
          tasks,       (* the queue of the pool: clients, or None for a    *)
                       (* task made from a failed accept                   *)
          session,     (* per client: where its task is                    *)
          len,         (* how many bytes sendAll is called with            *)
          sent, ret,   (* per server: sendAll's count and result           *)
          received     (* per client: what it read                         *)

pool == <<tasks, session>>
sending == <<len, sent, ret>>
vars == <<program, pc, open, net, lists, serving, pool, sending, received>>

Answer == <<1>>

(* A size_t returned as an int: what is left of it modulo 2^32.            *)
IntRange == 2 * IntMax + 2
ToInt(n) == LET r == n % IntRange IN IF r <= IntMax THEN r ELSE r - IntRange

Init ==
  /\ SocketsInit
  /\ serving = [s \in Servers |-> None]
  /\ tasks = <<>>
  /\ session = [c \in Clients |-> "none"]
  /\ len \in IF program = "sendAll" THEN 0 .. Len(Buffer) ELSE {0}
  /\ sent = [s \in Servers |-> 0]
  /\ ret = [s \in Servers |-> None]
  /\ received = [c \in Clients |-> <<>>]
-----------------------------------------------------------------------------
(* exit(), a signal, or the end of main: the memory of the process goes,   *)
(* and the threads of an inet server with the tasks they had.              *)
Exits(p) ==
  /\ Close(p, open[p])
  /\ Goto(p, "exited")
  /\ IF listening \in open[p]
     THEN tasks' = <<>> /\ session' = [c \in Clients |-> "none"]
     ELSE UNCHANGED pool
  /\ found' = [found EXCEPT ![p] = 0]
  /\ at' = [at EXCEPT ![p] = 1]
  /\ unfreed' = [unfreed EXCEPT ![p] = 0]

Exit(p) == Exits(p) /\ UNCHANGED <<program, serving, sending, received>>

(* Before it has a socket a process that is killed is one that never came. *)
Killed(p) == open[p] # {} /\ Exit(p)

(* A helper returned -1; a tcp socket threw, and its destructor closed it. *)
Report(p) == pc[p] \in {"error", "unlistened"} /\ Exit(p)
-----------------------------------------------------------------------------
(* Servers without the helpers: each call checked, a tcp_socket's throw    *)
(* closing it on the way out, the unix program's exit closing it too.      *)
Serves(s, l) == UNCHANGED <<program, lists, serving, pool, sending, received>> /\ Goto(s, l)

OpenServer(s) ==
  /\ program # "inet" /\ pc[s] = "start"
  /\ \/ Opens(s, Own(s)) /\ Serves(s, "bind")
     \/ UNCHANGED open /\ Serves(s, "error")
  /\ UNCHANGED net

BindServer(s) ==
  /\ program # "inet" /\ pc[s] = "bind"
  /\ \/ /\ MayBind /\ bound' = bound \cup {Own(s)} /\ Serves(s, "listen")
        /\ UNCHANGED <<open, listening, backlog, link, up, down>>
     \/ Close(s, open[s]) /\ Serves(s, "error")

ListenServer(s) ==
  /\ program # "inet" /\ pc[s] = "listen"
  /\ \/ /\ listening = None /\ listening' = Own(s) /\ Serves(s, "accept")
        /\ UNCHANGED <<open, bound, backlog, link, up, down>>
     \/ Close(s, open[s]) /\ Serves(s, "error")

Accept(s) ==
  /\ program # "inet" /\ pc[s] = "accept"
  /\ \/ \E c \in Clients :
          /\ Accepts(s, c)
          /\ serving' = [serving EXCEPT ![s] = c]
          /\ Goto(s, IF program = "sendAll" THEN "sendAll" ELSE "greet")
          /\ UNCHANGED <<program, lists, pool, sending, received>>
     \/ Close(s, open[s]) /\ Serves(s, "error")

(* send(), or write() of the unix program, which does not look at what it  *)
(* returns.                                                                *)
Greet(s) ==
  LET c == serving[s]
  IN /\ pc[s] = "greet"
     /\ \/ /\ Answers(c, Answer) /\ UNCHANGED open
           /\ Serves(s, IF program = "tcp" THEN "disconnect" ELSE "hangUp")
        \/ /\ Gone(c) /\ UNCHANGED <<open, net>>
           /\ Serves(s, "hangUp")
        \/ Gone(c) /\ Exit(s)

(* disconnect() aborts the connection: what the client has not read may be *)
(* lost.                                                                   *)
Disconnect(s) ==
  LET c == serving[s]
  IN /\ pc[s] = "disconnect"
     /\ link' = [link EXCEPT ![c] = "cut"]
     /\ \E d \in {<<>>, down[c]} : down' = [down EXCEPT ![c] = d]
     /\ UNCHANGED <<open, bound, listening, backlog, up>>
     /\ Serves(s, "hangUp")

(* The unix server closes the connection and accepts the next; the others  *)
(* return from main.                                                       *)
HangUp(s) ==
  /\ pc[s] = "hangUp"
  /\ \/ program = "unix" /\ Close(s, {End(s, serving[s])}) /\ Serves(s, "accept")
     \/ program # "unix" /\ Exit(s)
-----------------------------------------------------------------------------
(* A mistake that would be easy to make, and nothing below uses: every     *)
(* send() begins with the first byte.                                      *)
SendFromTheStart(s) ==
  LET c == serving[s]
  IN /\ pc[s] = "sendAll" /\ sent[s] # len
     /\ \/ \E n \in 1 .. len - sent[s] :
             /\ n <= IntMax /\ Len(down[c]) + n <= Room
             /\ Answers(c, SubSeq(Buffer, 1, n))
             /\ sent' = [sent EXCEPT ![s] = @ + n]
             /\ UNCHANGED <<program, pc, open, lists, serving, pool, len, ret, received>>
        \/ /\ Gone(c) /\ ret' = [ret EXCEPT ![s] = -1]
           /\ Goto(s, "hangUp")
           /\ UNCHANGED <<program, open, net, lists, serving, pool, len, sent, received>>
        \/ Gone(c) /\ Exit(s)
-----------------------------------------------------------------------------
(* tcp_socket::sendAll: send() takes as much as there is room for and the  *)
(* kernel takes at once, never more than an int holds; it waits when there *)
(* is no room, returns -1 (then sendAll does), or does not return.         *)
SendSome(s) ==
  LET c == serving[s]
  IN /\ pc[s] = "sendAll" /\ sent[s] # len
     /\ \/ \E n \in 1 .. len - sent[s] :
             /\ n <= IntMax /\ Len(down[c]) + n <= Room
             /\ Answers(c, SubSeq(Buffer, sent[s] + 1, sent[s] + n))
             /\ sent' = [sent EXCEPT ![s] = @ + n]
             /\ UNCHANGED <<program, pc, open, lists, serving, pool, len, ret, received>>
        \/ /\ Gone(c) /\ ret' = [ret EXCEPT ![s] = -1]
           /\ Goto(s, "hangUp")
           /\ UNCHANGED <<program, open, net, lists, serving, pool, len, sent, received>>
        \/ Gone(c) /\ Exit(s)

SentAll(s) ==
  /\ pc[s] = "sendAll" /\ sent[s] = len
  /\ ret' = [ret EXCEPT ![s] = ToInt(sent[s])]
  /\ Goto(s, "hangUp")
  /\ UNCHANGED <<program, open, net, lists, serving, pool, len, sent, received>>
-----------------------------------------------------------------------------
(* The inet server: accept's result goes into a task, whatever it is.      *)
AddTask(s) ==
  /\ program = "inet" /\ pc[s] = "accept" /\ Len(tasks) < MaxTasks
  /\ \/ \E c \in Clients :
          /\ Accepts(s, c)
          /\ tasks' = Append(tasks, c)
          /\ session' = [session EXCEPT ![c] = "queued"]
     \/ /\ Cardinality(open[s]) >= FdLimit
        /\ tasks' = Append(tasks, None)
        /\ UNCHANGED <<session, open, net>>
  /\ UNCHANGED <<program, pc, lists, serving, sending, received>>

Busy == {c \in Clients : session[c] \in {"recv", "send", "close"}}

(* A thread takes the next task; recv, send and close of descriptor -1     *)
(* fail at once.                                                           *)
TakeTask(s) ==
  /\ program = "inet" /\ pc[s] = "accept"
  /\ tasks # <<>> /\ Cardinality(Busy) < PoolSize
  /\ tasks' = Tail(tasks)
  /\ session' = IF Head(tasks) = None THEN session
                ELSE [session EXCEPT ![Head(tasks)] = "recv"]
  /\ UNCHANGED <<program, pc, open, net, lists, serving, sending, received>>

Proceed(c, l) ==
  /\ session' = [session EXCEPT ![c] = l]
  /\ UNCHANGED <<program, pc, lists, serving, tasks, sending, received>>

SessionReceives(s, c) ==
  /\ session[c] = "recv" /\ End(s, c) \in open[s]
  /\ up[c] \/ Gone(c)
  /\ up' = [up EXCEPT ![c] = FALSE]
  /\ Proceed(c, "send")
  /\ UNCHANGED <<open, bound, listening, backlog, link, down>>

SessionAnswers(s, c) ==
  /\ session[c] = "send" /\ End(s, c) \in open[s]
  /\ \/ Answers(c, Answer) /\ Proceed(c, "close") /\ UNCHANGED open
     \/ Gone(c) /\ Proceed(c, "close") /\ UNCHANGED <<open, net>>
     \/ Gone(c) /\ Exit(s)

(* A mistake that would be easy to make, and nothing below uses: the task  *)
(* does not close the connection.                                          *)
SessionForgets(s, c) ==
  /\ session[c] = "close" /\ End(s, c) \in open[s]
  /\ UNCHANGED <<open, net>>
  /\ Proceed(c, "done")

SessionCloses(s, c) ==
  /\ session[c] = "close" /\ End(s, c) \in open[s]
  /\ Close(s, {End(s, c)})
  /\ Proceed(c, "done")
-----------------------------------------------------------------------------
Runs(c, l) == UNCHANGED <<program, lists, serving, pool, sending>> /\ Goto(c, l)

(* tcp_client: a tcp_socket that cannot connect throws and is closed.  The *)
(* unix client goes on to read, connected or not.                          *)
ConnectClient(c) ==
  /\ program # "inet" /\ pc[c] = "start"
  /\ \/ Connects(c) /\ Runs(c, IF program = "tcp" THEN "send" ELSE "recv")
     \/ program = "unix" /\ Opens(c, Own(c)) /\ UNCHANGED net /\ Runs(c, "recv")
     \/ program # "unix" /\ UNCHANGED <<open, net>> /\ Runs(c, "error")
  /\ UNCHANGED received

(* send() of a client: its result is not looked at.                        *)
Ask(c) ==
  /\ pc[c] = "send"
  /\ \/ /\ ~Gone(c) /\ up' = [up EXCEPT ![c] = TRUE]
        /\ UNCHANGED <<open, bound, listening, backlog, link, down>>
        /\ Runs(c, "recv") /\ UNCHANGED received
     \/ Gone(c) /\ UNCHANGED <<open, net>> /\ Runs(c, "recv") /\ UNCHANGED received
     \/ Gone(c) /\ Exit(c)

(* recv(), read() or receive(): what there is, or the end of the           *)
(* connection, or that there has never been one.                           *)
Read(c) ==
  /\ pc[c] = "recv"
  /\ \/ \E n \in 1 .. Len(down[c]) :
          /\ received' = [received EXCEPT ![c] = @ \o SubSeq(down[c], 1, n)]
          /\ down' = [down EXCEPT ![c] = SubSeq(@, n + 1, Len(@))]
          /\ UNCHANGED <<open, bound, listening, backlog, link, up>>
          /\ Runs(c, IF program = "sendAll" THEN "recv" ELSE "leave")
     \/ /\ down[c] = <<>> /\ link[c] \in {"cut", "none"}
        /\ UNCHANGED <<open, net, received>>
        /\ Runs(c, "leave")

Leave(c) == pc[c] = "leave" /\ Exit(c)
-----------------------------------------------------------------------------
Helpers(p) ==
  /\ program = "inet"
  /\ \/ p \in Servers /\ sock_listen(p)
     \/ p \in Clients /\ sock_connect(p)
  /\ UNCHANGED <<serving, pool, sending, received>>

ServerMain(s) ==
  \/ OpenServer(s) \/ BindServer(s) \/ ListenServer(s) \/ Accept(s) \/ Greet(s)
  \/ Disconnect(s) \/ HangUp(s) \/ SendSome(s) \/ SentAll(s) \/ AddTask(s)
  \/ Helpers(s) \/ Report(s)

SessionStep(s, c) == SessionReceives(s, c) \/ SessionAnswers(s, c) \/ SessionCloses(s, c)

ClientMain(c) == ConnectClient(c) \/ Ask(c) \/ Read(c) \/ Leave(c) \/ Helpers(c) \/ Report(c)

Next ==
  \/ \E s \in Servers :
       ServerMain(s) \/ TakeTask(s) \/ \E c \in Clients : SessionStep(s, c)
  \/ \E c \in Clients : ClientMain(c)
  \/ \E p \in Processes : Killed(p)

Spec == Init /\ [][Next]_vars

(* The kernel runs every thread that can run.                              *)
FairSpec ==
  /\ Spec
  /\ \A s \in Servers : WF_vars(ServerMain(s)) /\ WF_vars(TakeTask(s))
  /\ \A s \in Servers, c \in Clients : WF_vars(SessionStep(s, c))
  /\ \A c \in Clients : WF_vars(ClientMain(c))
-----------------------------------------------------------------------------
(* sock_connect and sock_listen leave nothing behind, however far along    *)
(* the list they came: every list is freed once, and of the sockets they   *)
(* opened the one they return is open, none if they return -1.  The one    *)
(* exception is a listen() that fails (inet_sockets.cpp:89-93).            *)
NothingLeftOpen ==
  \A p \in Processes : pc[p] \notin {"start", "exited"} =>
    /\ unfreed[p] = IF program = "inet" /\ pc[p] \in {"try", "bind", "listen", "free"}
                    THEN 1 ELSE 0
    /\ open[p] \ {End(p, c) : c \in Clients \ {p}} =
         IF pc[p] \in {"try", "error"} \/ (pc[p] = "free" /\ Exhausted(p))
         THEN {} ELSE {Own(p)}

(* What arrives from sendAll is the beginning of the buffer, in order and  *)
(* once, however the kernel divides it.  sendAll returns the length only   *)
(* if it handed over everything, and -1 only if something was not.  A plain*)
(* mistake is excepted: beyond INT_MAX bytes the int is not the count, and *)
(* -1 for one length of them (tcp_socket.cpp:18 and :28).                  *)
SendAllExact ==
  program = "sendAll" =>
    \A s \in Servers : serving[s] # None =>
      LET c == serving[s]
      IN /\ received[c] \o down[c] = SubSeq(Buffer, 1, sent[s])
         /\ ret[s] # None /\ len <= IntMax =>
              ret[s] = IF sent[s] = len THEN len ELSE -1

(* Every client comes to its end: it is answered, or refused, or its       *)
(* connection is cut, although the inet server turns failed accepts into   *)
(* tasks and can run out of descriptors.                                   *)
ClientsEnd == \A c \in Clients : <>(pc[c] = "exited")
=============================================================================
