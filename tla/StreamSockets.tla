--------------------------- MODULE StreamSockets ---------------------------
(***************************************************************************)
(* Stream sockets as the programs of day3 use them: processes with open    *)
(* descriptors, one service address that a socket may be bound to and      *)
(* listen at, connections waiting to be accepted, and one connection per   *)
(* client, cut as soon as either end is closed.  The kernel's part is      *)
(* external; on it stand the helpers of 16_sock_inet/inet_sockets.cpp,     *)
(* which walk a list of addresses.                                         *)
(***************************************************************************)
EXTENDS Integers, Sequences, FiniteSets

CONSTANTS Servers, Clients,
          Addresses,   (* the most addresses getaddrinfo finds             *)
          FdLimit,     (* the most descriptors a process has               *)
          None         (* no socket                                        *)

ASSUME ProcessesAssumption == Servers \cap Clients = {} /\ None \notin Servers \cup Clients
ASSUME AddressesAssumption == Addresses \in Nat \ {0}
ASSUME FdLimitAssumption == FdLimit \in Nat \ {0}

VARIABLES program,     (* whose program the processes run                  *)
          pc,          (* where each of them is                            *)
          open,        (* the sockets each has open                        *)
          bound,       (* the sockets that have the address                *)
          listening,   (* the one that listens there                       *)
          backlog,     (* the clients that wait for accept                 *)
          link,        (* per client: its connection                       *)
          up, down,    (* per client: what is under way, from it and to it *)
          found,       (* per process: the length of its address list      *)
          at,          (* per process: the address of the list it is at    *)
          unfreed      (* per process: the lists it has not freed          *)

net == <<bound, listening, backlog, link, up, down>>
lists == <<found, at, unfreed>>

Processes == Servers \cup Clients
Programs == {"inet", "tcp", "sendAll", "unix"}

(* The descriptor a process has of a client's connection, the client's own *)
(* included; a server's own one, on <<s, s>>, listens.  A process has one  *)
(* of its own for all the addresses it tries: it closes each that fails.   *)
End(p, c) == <<p, c>>
Own(p) == End(p, p)

SocketsInit ==
  /\ program \in Programs
  /\ pc = [p \in Processes |-> "start"]
  /\ open = [p \in Processes |-> {}]
  /\ bound = {} /\ listening = None /\ backlog = <<>>
  /\ link = [c \in Clients |-> "none"]
  /\ up = [c \in Clients |-> FALSE] /\ down = [c \in Clients |-> <<>>]
  /\ found = [p \in Processes |-> 0]
  /\ at = [p \in Processes |-> 1]
  /\ unfreed = [p \in Processes |-> 0]
-----------------------------------------------------------------------------
Goto(p, l) == pc' = [pc EXCEPT ![p] = l]
Opens(p, d) == open' = [open EXCEPT ![p] = @ \cup {d}]

(* close() of some descriptors of a process, and of all at its end.  The   *)
(* file of a UNIX socket stays, and so does its hold on the address.       *)
Close(p, S) ==
  LET deaf == listening \in S
  IN /\ open' = [open EXCEPT ![p] = @ \ S]
     /\ bound' = IF program = "unix" THEN bound ELSE bound \ S
     /\ listening' = IF deaf THEN None ELSE listening
     /\ backlog' = IF deaf THEN <<>> ELSE backlog
     /\ link' = [c \in Clients |->
          IF \/ link[c] = "queued" /\ deaf
             \/ link[c] # "none" /\ End(p, c) \in S
          THEN "cut" ELSE link[c]]
     /\ UNCHANGED <<up, down>>

(* bind() in the Internet: with SO_REUSEADDR a listening socket alone is   *)
(* in the way, so that two servers may both be bound before either of them *)
(* listens; without it any bound socket is.                                *)
MayBind == IF program = "inet" THEN listening = None ELSE bound = {}

Connects(c) ==
  /\ listening # None
  /\ Opens(c, Own(c))
  /\ backlog' = Append(backlog, c)
  /\ link' = [link EXCEPT ![c] = "queued"]
  /\ UNCHANGED <<bound, listening, up, down>>

Accepts(s, c) ==
  /\ listening \in open[s]
  /\ Cardinality(open[s]) < FdLimit
  /\ backlog # <<>> /\ c = Head(backlog)
  /\ backlog' = Tail(backlog)
  /\ Opens(s, End(s, c))
  /\ link' = [link EXCEPT ![c] = IF @ = "queued" THEN "up" ELSE @]
  /\ UNCHANGED <<bound, listening, up, down>>

(* The peer takes what is sent in order, or has gone: then send() fails,   *)
(* if SIGPIPE does not end the process.                                    *)
Answers(c, data) ==
  /\ link[c] # "cut"
  /\ down' = [down EXCEPT ![c] = @ \o data]
  /\ UNCHANGED <<bound, listening, backlog, link, up>>
Gone(c) == link[c] = "cut"
-----------------------------------------------------------------------------
(* sock_connect and sock_create_passive: getaddrinfo, and the loop.        *)
GetAddrInfo(p) ==
  /\ pc[p] = "start"
  /\ \/ Goto(p, "error") /\ UNCHANGED <<found, unfreed>>
     \/ /\ Goto(p, "try") /\ unfreed' = [unfreed EXCEPT ![p] = @ + 1]
        /\ \E n \in 1 .. Addresses : found' = [found EXCEPT ![p] = n]
  /\ UNCHANGED <<program, open, net, at>>

NextAddress(p) == at' = [at EXCEPT ![p] = @ + 1]
Exhausted(p) == at[p] > found[p]
Free(p) ==
  /\ unfreed' = [unfreed EXCEPT ![p] = @ - 1]
  /\ found' = [found EXCEPT ![p] = 0]

SocketFails(p) ==
  /\ pc[p] = "try" /\ ~Exhausted(p)
  /\ NextAddress(p)
  /\ UNCHANGED <<program, pc, open, net, found, unfreed>>

(* connect() of sock_connect; a socket that is refused is closed.          *)
TryConnect(c) ==
  /\ pc[c] = "try" /\ ~Exhausted(c)
  /\ \/ Connects(c) /\ Goto(c, "free") /\ UNCHANGED at
     \/ NextAddress(c) /\ UNCHANGED <<pc, open, net>>
  /\ UNCHANGED <<program, found, unfreed>>

(* socket() and setsockopt() of sock_create_passive.                       *)
TrySocket(s) ==
  /\ pc[s] = "try" /\ ~Exhausted(s)
  /\ \/ Opens(s, Own(s)) /\ Goto(s, "bind") /\ UNCHANGED <<unfreed, found>>
     \/ Goto(s, "error") /\ Free(s) /\ UNCHANGED open
  /\ UNCHANGED <<program, net, at>>

(* A mistake that would be easy to make, and nothing below uses: the       *)
(* socket that could not be bound is kept.                                 *)
BindAndForget(s) ==
  /\ pc[s] = "bind"
  /\ \/ /\ MayBind /\ bound' = bound \cup {Own(s)} /\ Goto(s, "listen")
        /\ UNCHANGED <<open, listening, backlog, link, up, down, at>>
     \/ Goto(s, "try") /\ NextAddress(s) /\ UNCHANGED <<open, net>>
  /\ UNCHANGED <<program, found, unfreed>>

TryBind(s) ==
  /\ pc[s] = "bind"
  /\ \/ /\ MayBind /\ bound' = bound \cup {Own(s)} /\ Goto(s, "listen")
        /\ UNCHANGED <<open, listening, backlog, link, up, down, at>>
     \/ Close(s, {Own(s)}) /\ Goto(s, "try") /\ NextAddress(s)
  /\ UNCHANGED <<program, found, unfreed>>

(* When listen() fails, as it does where another server was bound as well  *)
(* and listens now, the list is freed and the socket stays open.           *)
TryListen(s) ==
  /\ pc[s] = "listen"
  /\ \/ /\ listening = None /\ listening' = Own(s) /\ Goto(s, "free")
        /\ UNCHANGED <<unfreed, found>>
     \/ Goto(s, "unlistened") /\ Free(s) /\ UNCHANGED listening
  /\ UNCHANGED <<program, open, bound, backlog, link, up, down, at>>

LoopEnds(p) ==
  /\ pc[p] = "try" /\ Exhausted(p)
  /\ Goto(p, "free")
  /\ UNCHANGED <<program, open, net, lists>>

FreeAddrInfo(p) ==
  /\ pc[p] = "free"
  /\ Free(p)
  /\ Goto(p, IF Exhausted(p) THEN "error" ELSE IF p \in Servers THEN "accept" ELSE "send")
  /\ at' = [at EXCEPT ![p] = 1]
  /\ UNCHANGED <<program, open, net>>

sock_connect(c) ==
  GetAddrInfo(c) \/ SocketFails(c) \/ TryConnect(c) \/ LoopEnds(c) \/ FreeAddrInfo(c)
sock_listen(s) ==
  \/ GetAddrInfo(s) \/ SocketFails(s) \/ TrySocket(s) \/ TryBind(s) \/ TryListen(s)
  \/ LoopEnds(s) \/ FreeAddrInfo(s)
=============================================================================
