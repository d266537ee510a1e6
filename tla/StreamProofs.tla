---------------------------- MODULE StreamProofs ----------------------------
(***************************************************************************)
(* StreamPrograms proved for any number of servers and clients and any     *)
(* lengths of address lists: the helpers of inet_sockets.cpp and the       *)
(* programs on them leave no descriptor and no list behind, and sendAll    *)
(* delivers any buffer exactly.                                            *)
(***************************************************************************)
EXTENDS StreamPrograms, SequenceTheorems, TLAPS

Points == {"start", "try", "bind", "listen", "free", "unlistened", "error", "accept",
           "greet", "disconnect", "sendAll", "hangUp", "send", "recv", "leave", "exited"}

StreamTypeOK ==
  /\ pc \in [Processes -> Points]
  /\ open \in [Processes -> SUBSET (Processes \X Processes)]
  /\ found \in [Processes -> Nat] /\ at \in [Processes -> Nat]
  /\ unfreed \in [Processes -> Nat]
  /\ serving \in [Servers -> Clients \cup {None}]

(* What p holds where it is: the part of NothingLeftOpen that speaks of p, *)
(* that a process that has not begun has nothing, and that the walk along  *)
(* the list has not come to its end where there is a socket.               *)
Listed(p) == program = "inet" /\ pc[p] \in {"try", "bind", "listen", "free"}
Without(p) ==
  pc[p] \in {"start", "try", "error"} \/ (pc[p] = "free" /\ Exhausted(p))
Others(p) == {End(p, c) : c \in Clients \ {p}}

Held(p) ==
  pc[p] # "exited" =>
    /\ unfreed[p] = IF Listed(p) THEN 1 ELSE 0
    /\ open[p] \ Others(p) = IF Without(p) THEN {} ELSE {Own(p)}
    /\ Listed(p) /\ pc[p] \in {"bind", "listen"} => ~Exhausted(p)

(* A server that answers has somebody to answer.                           *)
Served ==
  \A s \in Servers :
    pc[s] \in {"greet", "disconnect", "sendAll", "hangUp"} => serving[s] \in Clients

StreamInv == StreamTypeOK /\ Served /\ \A p \in Processes : Held(p)

(* Of the programs with sendAll: the data's types, and how far a server    *)
(* has come when it has a client and a count.                              *)
DataTypeOK ==
  /\ backlog \in Seq(Clients)
  /\ down \in [Clients -> Seq(Nat)] /\ received \in [Clients -> Seq(Nat)]
  /\ len \in 0 .. Len(Buffer)
  /\ sent \in [Servers -> Nat]
  /\ ret \in [Servers -> Int \cup {None}]

Counts ==
  \A s \in Servers :
    /\ pc[s] \notin {"greet", "disconnect"}
    /\ pc[s] \in {"start", "bind", "listen", "accept"} => serving[s] = None
    /\ serving[s] = None => sent[s] = 0
    /\ pc[s] = "sendAll" \/ serving[s] = None => ret[s] = None
    /\ sent[s] <= len

(* A client is in one place: it has not connected, it waits once to be     *)
(* accepted, or one server has it; and nothing came to it before that.     *)
Places ==
  /\ \A c \in Clients : pc[c] = "start" =>
       /\ \A i \in 1 .. Len(backlog) : backlog[i] # c
       /\ \A s \in Servers : serving[s] # c
  /\ \A i, j \in 1 .. Len(backlog) : backlog[i] = backlog[j] => i = j
  /\ \A i \in 1 .. Len(backlog), s \in Servers : serving[s] # backlog[i]
  /\ \A s, t \in Servers : serving[s] # None /\ serving[s] = serving[t] => s = t
  /\ \A c \in Clients : (\A s \in Servers : serving[s] # c) => received[c] \o down[c] = <<>>

SendInv ==
  program = "sendAll" =>
    /\ DataTypeOK /\ Counts /\ Places /\ SendAllExact
    /\ \A c \in Clients : session[c] = "none"
-----------------------------------------------------------------------------
LEMMA InitInv == Init => StreamInv
  BY DEF Init, SocketsInit, StreamInv, StreamTypeOK, Served, Held, Listed, Without, Others, Points,
         Processes

(* Close takes descriptors of one process.                                 *)
LEMMA CloseOpen ==
  ASSUME NEW p, NEW S, Close(p, S)
  PROVE  open' = [open EXCEPT ![p] = @ \ S]
  BY DEF Close

(* A step of p leaves what the others hold as it was.                      *)
Alone(p) ==
  /\ StreamTypeOK' /\ program' = program
  /\ \A q \in Processes \ {p} :
       /\ pc'[q] = pc[q] /\ open'[q] = open[q] /\ unfreed'[q] = unfreed[q]
       /\ at'[q] = at[q] /\ found'[q] = found[q]
       /\ q \in Servers => serving'[q] = serving[q]

LEMMA OneProcess ==
  ASSUME StreamInv, NEW p \in Processes, Alone(p), Held(p)',
         p \in Servers /\ pc'[p] \in {"greet", "disconnect", "sendAll", "hangUp"}
           => serving'[p] \in Clients
  PROVE  StreamInv'
  <1>1. \A q \in Processes \ {p} : Held(q)'
    BY DEF StreamInv, Alone, Held, Listed, Without, Exhausted, Others, Own, End
  <1>2. Served'
    BY DEF StreamInv, Alone, Served, Processes
  <1> QED
    BY <1>1, <1>2 DEF StreamInv, Alone

LEMMA ExitInv ==
  ASSUME StreamInv, NEW p \in Processes, Exit(p)
  PROVE  StreamInv'
  <1> USE DEF Exit, Exits, Goto, StreamInv, StreamTypeOK
  <1>1. open' = [open EXCEPT ![p] = @ \ open[p]]
    BY CloseOpen
  <1>2. Alone(p)
    BY <1>1 DEF Alone, Points
  <1>3. Held(p)'
    BY DEF Held
  <1> QED
    BY <1>2, <1>3, OneProcess

(* A step of the net alone.                                                *)
LEMMA NetInv ==
  ASSUME StreamInv, UNCHANGED <<program, pc, open, lists, serving>>
  PROVE  StreamInv'
  BY DEF StreamInv, StreamTypeOK, Served, Held, Listed, Without, Exhausted, Others, Own, End, lists
-----------------------------------------------------------------------------
(* The helpers.                                                            *)
LEMMA HelpersInv ==
  ASSUME StreamInv, NEW p \in Processes, Helpers(p)
  PROVE  StreamInv'
  <1> USE DEF StreamInv, StreamTypeOK, Goto, lists
  <1> SUFFICES Alone(p) /\ Held(p)' /\ pc'[p] \notin {"greet", "disconnect", "sendAll", "hangUp"}
    BY OneProcess
  <1>0. program = "inet" /\ serving' = serving
    BY DEF Helpers
  <1>a. Listed(p) => unfreed[p] = 1
    BY DEF Held, Listed
  <1>b. open[p] \cup {Own(p)} \in SUBSET (Processes \X Processes)
    BY DEF Own, End
  <1>1. CASE GetAddrInfo(p)
    <2>1. Alone(p)
      BY <1>0, <1>1, AddressesAssumption DEF GetAddrInfo, Alone, Points
    <2>2. Held(p)'
      BY <1>0, <1>1 DEF GetAddrInfo, Held, Listed, Without, Exhausted, Others, Own, End
    <2> QED
      BY <1>1, <2>1, <2>2 DEF GetAddrInfo
  <1>2. CASE SocketFails(p)
    <2>1. Alone(p)
      BY <1>0, <1>2 DEF SocketFails, NextAddress, Alone
    <2>2. Held(p)'
      BY <1>0, <1>2 DEF SocketFails, NextAddress, Held, Listed, Without, Exhausted, Others, Own, End
    <2> QED
      BY <1>2, <2>1, <2>2 DEF SocketFails
  <1>3. CASE p \in Clients /\ TryConnect(p)
    <2>1. Alone(p)
      <3>1. CASE Connects(p) /\ Goto(p, "free") /\ UNCHANGED at
        <4>1. open' = [open EXCEPT ![p] = @ \cup {Own(p)}]
          BY <3>1 DEF Connects, Opens
        <4> QED
          BY <1>0, <1>b, <1>3, <3>1, <4>1 DEF TryConnect, Alone, Points
      <3>2. CASE NextAddress(p) /\ UNCHANGED <<pc, open, net>>
        BY <1>0, <1>3, <3>2 DEF TryConnect, NextAddress, Alone
      <3> QED
        BY <1>3, <3>1, <3>2 DEF TryConnect
    <2>2. Held(p)'
      BY <1>0, <1>3 DEF TryConnect, NextAddress, Connects, Opens, Held, Listed, Without, Exhausted,
         Others, Own, End
    <2> QED
      BY <1>3, <2>1, <2>2 DEF TryConnect
  <1>4. CASE p \in Servers /\ TrySocket(p)
    <2>1. Alone(p)
      BY <1>0, <1>a, <1>b, <1>4 DEF TrySocket, Free, Opens, Listed, Alone, Points
    <2>2. Held(p)'
      BY <1>0, <1>4 DEF TrySocket, Free, Opens, Held, Listed, Without, Exhausted, Others, Own, End
    <2> QED
      BY <1>4, <2>1, <2>2 DEF TrySocket
  <1>5. CASE p \in Servers /\ TryBind(p)
    <2>1. open' = open \/ open' = [open EXCEPT ![p] = @ \ {Own(p)}]
      BY <1>5, CloseOpen DEF TryBind
    <2>2. Alone(p)
      BY <1>0, <1>5, <2>1 DEF TryBind, NextAddress, Alone, Points
    <2>3. Held(p)'
      <3>1. CASE open' = open /\ Goto(p, "listen") /\ UNCHANGED at
        BY <1>0, <1>5, <3>1 DEF TryBind, Held, Listed, Without, Exhausted, Others, Own, End
      <3>2. CASE Close(p, {Own(p)}) /\ Goto(p, "try")
        <4>1. open' = [open EXCEPT ![p] = @ \ {Own(p)}]
          BY <3>2, CloseOpen
        <4> QED
          BY <1>0, <1>5, <3>2, <4>1 DEF TryBind, Held, Listed, Without, Exhausted, Others, Own, End
      <3> QED
        BY <1>5, <3>1, <3>2 DEF TryBind
    <2> QED
      BY <1>5, <2>2, <2>3 DEF TryBind
  <1>6. CASE p \in Servers /\ TryListen(p)
    <2>1. Alone(p)
      BY <1>0, <1>a, <1>6 DEF TryListen, Free, Listed, Alone, Points
    <2>2. Held(p)'
      BY <1>0, <1>6 DEF TryListen, Free, Held, Listed, Without, Exhausted, Others, Own, End
    <2> QED
      BY <1>6, <2>1, <2>2 DEF TryListen
  <1>7. CASE LoopEnds(p)
    <2>1. Alone(p)
      BY <1>0, <1>7 DEF LoopEnds, Alone, Points
    <2>2. Held(p)'
      BY <1>0, <1>7 DEF LoopEnds, Held, Listed, Without, Exhausted, Others, Own, End
    <2> QED
      BY <1>7, <2>1, <2>2 DEF LoopEnds
  <1>8. CASE FreeAddrInfo(p)
    <2>1. Alone(p)
      BY <1>0, <1>a, <1>8 DEF FreeAddrInfo, Free, Listed, Alone, Points
    <2>2. Held(p)'
      BY <1>0, <1>8 DEF FreeAddrInfo, Free, Held, Listed, Without, Exhausted, Others, Own, End
    <2> QED
      BY <1>8, <2>1, <2>2 DEF FreeAddrInfo
  <1> QED
    BY <1>1, <1>2, <1>3, <1>4, <1>5, <1>6, <1>7, <1>8 DEF Helpers, sock_listen, sock_connect
-----------------------------------------------------------------------------
(* The programs without the helpers.                                       *)
LEMMA ServerInv ==
  ASSUME StreamInv, NEW p \in Servers,
         \/ OpenServer(p) \/ BindServer(p) \/ ListenServer(p) \/ Accept(p) \/ Greet(p)
         \/ Disconnect(p) \/ HangUp(p) \/ SendSome(p) \/ SentAll(p) \/ AddTask(p) \/ Report(p)
  PROVE  StreamInv'
  <1> USE DEF StreamInv, StreamTypeOK, Goto, Serves, lists
  <1>a. p \in Processes /\ Own(p) \in Processes \X Processes
    BY DEF Processes, Own, End
  <1>b. \A c \in Clients : End(p, c) \in Others(p) /\ End(p, c) # Own(p)
                           /\ End(p, c) \in Processes \X Processes
    BY ProcessesAssumption DEF Processes, Own, End, Others
  <1>1. CASE OpenServer(p)
    <2>1. Alone(p)
      BY <1>1, <1>a DEF OpenServer, Opens, Alone, Points
    <2>2. Held(p)'
      BY <1>1, <1>a DEF OpenServer, Opens, Held, Listed, Without, Others, Own, End, Processes
    <2> QED
      BY <1>1, <1>a, <2>1, <2>2, OneProcess DEF OpenServer
  <1>2. CASE BindServer(p)
    <2>1. \/ open' = open /\ pc'[p] = "listen"
          \/ open' = [open EXCEPT ![p] = {}] /\ pc'[p] = "error"
      <3>1. CASE Close(p, open[p]) /\ Serves(p, "error")
        BY <1>a, <3>1, CloseOpen
      <3>2. CASE Serves(p, "listen") /\ open' = open
        BY <1>a, <3>2
      <3> QED
        BY <1>2, <3>1, <3>2 DEF BindServer
    <2>2. Alone(p) /\ UNCHANGED lists
      BY <1>2, <1>a, <2>1 DEF BindServer, Alone, Points
    <2>3. Held(p)'
      BY <1>2, <1>a, <2>1, <2>2 DEF BindServer, Held, Listed, Without, Others, End
    <2> QED
      BY <1>a, <2>1, <2>2, <2>3, OneProcess
  <1>3. CASE ListenServer(p)
    <2>1. \/ open' = open /\ pc'[p] = "accept"
          \/ open' = [open EXCEPT ![p] = {}] /\ pc'[p] = "error"
      <3>1. CASE Close(p, open[p]) /\ Serves(p, "error")
        BY <1>a, <3>1, CloseOpen
      <3>2. CASE Serves(p, "accept") /\ open' = open
        BY <1>a, <3>2
      <3> QED
        BY <1>3, <3>1, <3>2 DEF ListenServer
    <2>2. Alone(p) /\ UNCHANGED lists
      BY <1>3, <1>a, <2>1 DEF ListenServer, Alone, Points
    <2>3. Held(p)'
      BY <1>3, <1>a, <2>1, <2>2 DEF ListenServer, Held, Listed, Without, Others, End
    <2> QED
      BY <1>a, <2>1, <2>2, <2>3, OneProcess
  <1>4. CASE Accept(p)
    <2>1. CASE Close(p, open[p]) /\ Serves(p, "error")
      <3>1. open' = [open EXCEPT ![p] = {}]
        BY <2>1, CloseOpen, <1>a
      <3>2. Alone(p)
        BY <2>1, <1>a, <3>1 DEF Alone, Points
      <3>3. Held(p)'
        BY <1>4, <2>1, <1>a, <3>1 DEF Accept, Held, Listed, Without, Others
      <3> QED
        BY <1>a, <2>1, <3>2, <3>3, OneProcess
    <2>2. ASSUME NEW c \in Clients, Accepts(p, c), serving' = [serving EXCEPT ![p] = c],
                 Goto(p, IF program = "sendAll" THEN "sendAll" ELSE "greet"),
                 UNCHANGED <<program, lists>>
          PROVE  StreamInv'
      <3>1. open' = [open EXCEPT ![p] = @ \cup {End(p, c)}]
        BY <2>2 DEF Accepts, Opens
      <3>2. Alone(p)
        BY <2>2, <1>a, <1>b, <3>1 DEF Alone, Points
      <3>3. Held(p)'
        BY <1>4, <2>2, <1>a, <1>b, <3>1 DEF Accept, Held, Listed, Without, Others
      <3> QED
        BY <1>a, <2>2, <3>2, <3>3, OneProcess
    <2> QED
      BY <1>4, <2>1, <2>2 DEF Accept
  <1>5. CASE Greet(p)
    <2>1. CASE Exit(p)
      BY <1>a, <2>1, ExitInv
    <2>2. CASE ~Exit(p)
      <3>1. Alone(p) /\ UNCHANGED <<open, lists, serving>> /\ pc'[p] \in {"disconnect", "hangUp"}
        BY <1>5, <1>a, <2>2 DEF Greet, Alone, Points
      <3>2. Held(p)'
        BY <1>5, <1>a, <3>1 DEF Greet, Held, Listed, Without, Others, Own, Alone
      <3> QED
        BY <1>5, <1>a, <3>1, <3>2, OneProcess DEF Greet, Served
    <2> QED
      BY <2>1, <2>2
  <1>6. CASE Disconnect(p)
    <2>1. Alone(p) /\ UNCHANGED <<open, lists, serving>> /\ pc'[p] = "hangUp"
      BY <1>6, <1>a DEF Disconnect, Alone, Points
    <2>2. Held(p)'
      BY <1>6, <1>a, <2>1 DEF Disconnect, Held, Listed, Without, Others, Own, Alone
    <2> QED
      BY <1>6, <1>a, <2>1, <2>2, OneProcess DEF Disconnect, Served
  <1>7. CASE HangUp(p)
    <2>1. CASE Exit(p)
      BY <1>a, <2>1, ExitInv
    <2>2. CASE Close(p, {End(p, serving[p])}) /\ Serves(p, "accept")
      <3>1. open' = [open EXCEPT ![p] = @ \ {End(p, serving[p])}]
        BY <2>2, CloseOpen
      <3>2. Alone(p)
        BY <2>2, <1>a, <3>1 DEF Alone, Points
      <3>3. serving[p] \in Clients
        BY <1>7 DEF HangUp, Served
      <3>4. Held(p)'
        BY <1>7, <2>2, <1>a, <1>b, <3>1, <3>3 DEF HangUp, Held, Listed, Without, Others, Own
      <3> QED
        BY <1>a, <2>2, <3>2, <3>4, OneProcess
    <2> QED
      BY <1>7, <2>1, <2>2 DEF HangUp
  <1>8. CASE SendSome(p)
    <2>1. CASE Exit(p)
      BY <1>a, <2>1, ExitInv
    <2>2. CASE ~Exit(p)
      <3>1. Alone(p) /\ UNCHANGED <<open, lists, serving>> /\ pc'[p] \in {"sendAll", "hangUp"}
        BY <1>8, <1>a, <2>2 DEF SendSome, Alone, Points
      <3>2. Held(p)'
        BY <1>8, <1>a, <3>1 DEF SendSome, Held, Listed, Without, Others, Own, Alone
      <3> QED
        BY <1>8, <1>a, <3>1, <3>2, OneProcess DEF SendSome, Served
    <2> QED
      BY <2>1, <2>2
  <1>9. CASE SentAll(p)
    <2>1. Alone(p) /\ UNCHANGED <<open, lists, serving>> /\ pc'[p] = "hangUp"
      BY <1>9, <1>a DEF SentAll, Alone, Points
    <2>2. Held(p)'
      BY <1>9, <1>a, <2>1 DEF SentAll, Held, Listed, Without, Others, Own, Alone
    <2> QED
      BY <1>9, <1>a, <2>1, <2>2, OneProcess DEF SentAll, Served
  <1>10. CASE AddTask(p)
    <2>1. CASE UNCHANGED <<session, open, net>>
      BY <1>10, <2>1, NetInv DEF AddTask
    <2>2. ASSUME NEW c \in Clients, Accepts(p, c)
          PROVE  StreamInv'
      <3>1. open' = [open EXCEPT ![p] = @ \cup {End(p, c)}]
        BY <2>2 DEF Accepts, Opens
      <3>2. Alone(p) /\ UNCHANGED <<program, pc, lists, serving>>
        BY <1>10, <1>a, <1>b, <3>1 DEF AddTask, Alone
      <3>3. open'[p] \ Others(p) = open[p] \ Others(p)
        BY <1>a, <1>b, <3>1
      <3>4. Held(p)'
        BY <1>10, <1>a, <3>2, <3>3 DEF AddTask, Held, Listed, Without, Others, Own
      <3> QED
        BY <1>10, <1>a, <3>2, <3>4, OneProcess DEF AddTask
    <2> QED
      BY <1>10, <2>1, <2>2 DEF AddTask
  <1>11. CASE Report(p)
    BY <1>11, <1>a, ExitInv DEF Report
  <1> QED
    BY <1>1, <1>2, <1>3, <1>4, <1>5, <1>6, <1>7, <1>8, <1>9, <1>10, <1>11
-----------------------------------------------------------------------------
(* A session of the inet server: the end it closes is not the socket that  *)
(* listens.                                                                *)
LEMMA SessionInv ==
  ASSUME StreamInv, NEW s \in Servers, NEW c \in Clients, SessionStep(s, c)
  PROVE  StreamInv'
  <1> USE DEF Proceed
  <1>a. s \in Processes /\ s # c
    BY ProcessesAssumption DEF Processes
  <1>1. CASE SessionReceives(s, c)
    BY <1>1, NetInv DEF SessionReceives
  <1>2. CASE SessionAnswers(s, c)
    <2>1. CASE Exit(s)
      BY <1>a, <2>1, ExitInv
    <2>2. CASE ~Exit(s)
      BY <1>2, <2>2, NetInv DEF SessionAnswers
    <2> QED
      BY <2>1, <2>2
  <1>3. CASE SessionCloses(s, c)
    <2>1. open' = [open EXCEPT ![s] = @ \ {End(s, c)}]
      BY <1>3, CloseOpen DEF SessionCloses
    <2>2. UNCHANGED <<program, pc, lists, serving>>
      BY <1>3 DEF SessionCloses
    <2>3. Alone(s)
      BY <1>a, <2>1, <2>2 DEF Alone, StreamInv, StreamTypeOK, lists
    <2>4. open'[s] \ Others(s) = open[s] \ Others(s)
      BY <1>a, <2>1 DEF StreamInv, StreamTypeOK, Others
    <2>5. Held(s)'
      BY <1>a, <2>2, <2>4
      DEF StreamInv, Held, Listed, Without, Exhausted, Others, Own, End, lists
    <2> QED
      BY <1>a, <2>2, <2>3, <2>5, OneProcess DEF StreamInv, Served
  <1> QED
    BY <1>1, <1>2, <1>3 DEF SessionStep

LEMMA ClientInv ==
  ASSUME StreamInv, NEW c \in Clients, ClientMain(c)
  PROVE  StreamInv'
  <1> USE DEF StreamInv, StreamTypeOK, Goto, Runs
  <1>a. c \in Processes /\ c \notin Servers /\ Own(c) \in Processes \X Processes
    BY ProcessesAssumption DEF Processes, Own, End
  <1>b. Own(c) \notin Others(c)
    BY DEF Own, End, Others
  <1>1. CASE ConnectClient(c)
    <2>1. CASE UNCHANGED open /\ Runs(c, "error")
      <3>1. Alone(c)
        BY <1>1, <1>a, <2>1 DEF Alone, Points, lists
      <3>2. Held(c)'
        BY <1>1, <1>a, <2>1 DEF ConnectClient, Held, Listed, Without, Others, Own, End, lists
      <3> QED
        BY <1>a, <2>1, <3>1, <3>2, OneProcess
    <2>2. ASSUME NEW l \in {"send", "recv"}, Opens(c, Own(c)), Runs(c, l)
          PROVE  StreamInv'
      <3>1. Alone(c)
        BY <1>1, <1>a, <2>2 DEF Opens, Alone, Points, lists
      <3>2. Held(c)'
        BY <1>1, <1>a, <1>b, <2>2 DEF ConnectClient, Opens, Held, Listed, Without, Others, lists
      <3> QED
        BY <1>a, <2>2, <3>1, <3>2, OneProcess
    <2>3. CASE Connects(c) /\ Runs(c, IF program = "tcp" THEN "send" ELSE "recv")
      <3>1. Opens(c, Own(c))
        BY <2>3 DEF Connects
      <3> HIDE DEF StreamInv, StreamTypeOK, Goto, Runs
      <3> QED
        BY <2>2, <2>3, <3>1
    <2>4. CASE Opens(c, Own(c)) /\ Runs(c, "recv")
      <3> HIDE DEF StreamInv, StreamTypeOK, Goto, Runs
      <3> QED
        BY <2>2, <2>4
    <2> QED
      BY <1>1, <2>1, <2>3, <2>4 DEF ConnectClient
  <1>2. CASE Ask(c)
    <2>1. CASE Exit(c)
      BY <1>a, <2>1, ExitInv
    <2>2. CASE ~Exit(c)
      <3>1. pc[c] = "send" /\ pc' = [pc EXCEPT ![c] = "recv"]
            /\ UNCHANGED <<program, open, lists, serving>>
        BY <1>2, <2>2 DEF Ask
      <3>2. Alone(c)
        BY <1>a, <3>1 DEF Alone, Points, lists
      <3>3. Held(c)'
        BY <1>a, <3>1 DEF Held, Listed, Without, Others, Own, End, lists
      <3> QED
        BY <1>a, <3>2, <3>3, OneProcess
    <2> QED
      BY <2>1, <2>2
  <1>3. CASE Read(c)
    <2>1. pc[c] = "recv" /\ (pc' = [pc EXCEPT ![c] = "recv"] \/ pc' = [pc EXCEPT ![c] = "leave"])
          /\ UNCHANGED <<program, open, lists, serving>>
      BY <1>3 DEF Read
    <2>2. Alone(c)
      BY <1>a, <2>1 DEF Alone, Points, lists
    <2>3. Held(c)'
      BY <1>a, <2>1 DEF Held, Listed, Without, Others, Own, End, lists
    <2> QED
      BY <1>a, <2>2, <2>3, OneProcess
  <1>4. CASE Leave(c)
    BY <1>4, <1>a, ExitInv DEF Leave
  <1>5. CASE Helpers(c)
    BY <1>5, <1>a, HelpersInv
  <1>6. CASE Report(c)
    BY <1>6, <1>a, ExitInv DEF Report
  <1> QED
    BY <1>1, <1>2, <1>3, <1>4, <1>5, <1>6 DEF ClientMain

LEMMA NextInv == StreamInv /\ [Next]_vars => StreamInv'
  <1> SUFFICES ASSUME StreamInv, [Next]_vars PROVE StreamInv'
    OBVIOUS
  <1>1. ASSUME NEW s \in Servers, ServerMain(s)
        PROVE  StreamInv'
    <2>1. s \in Processes
      BY DEF Processes
    <2> QED
      BY <1>1, <2>1, ServerInv, HelpersInv DEF ServerMain
  <1>2. ASSUME NEW s \in Servers, TakeTask(s)
        PROVE  StreamInv'
    BY <1>2, NetInv DEF TakeTask
  <1>3. ASSUME NEW p \in Processes, Killed(p)
        PROVE  StreamInv'
    BY <1>3, ExitInv DEF Killed
  <1>4. CASE UNCHANGED vars
    BY <1>4, NetInv DEF vars
  <1> QED
    BY <1>1, <1>2, <1>3, <1>4, SessionInv, ClientInv DEF Next
-----------------------------------------------------------------------------
(* Whatever the processes do and whichever are killed, every process is at *)
(* a point of its program, its descriptors are pairs of processes and its  *)
(* counts are numbers.                                                     *)
THEOREM StreamTypeCorrect == Spec => []StreamTypeOK
  <1>1. StreamInv => StreamTypeOK
    BY DEF StreamInv
  <1> QED
    BY InitInv, NextInv, <1>1, PTL DEF Spec

(* sock_connect and sock_listen free every list once and close every       *)
(* socket but the one they return, and so do the programs that have no     *)
(* helpers: for address lists of any length.                               *)
THEOREM StreamNothingLeftOpen == Spec => []NothingLeftOpen
  <1>1. StreamInv => NothingLeftOpen
    BY DEF StreamInv, Held, Listed, Without, Others, NothingLeftOpen
  <1> QED
    BY InitInv, NextInv, <1>1, PTL DEF Spec
-----------------------------------------------------------------------------
(* sendAll: what happens to the bytes.                                     *)
LEMMA SendInit == Init => SendInv
  <1> SUFFICES ASSUME Init PROVE SendInv
    OBVIOUS
  <1> USE ProcessesAssumption, BufferAssumption DEF Init, SocketsInit, Processes
  <1>1. DataTypeOK
    BY EmptySeq DEF DataTypeOK
  <1>2. Counts
    BY LenProperties DEF Counts
  <1>3. \A c \in Clients : received[c] \o down[c] = <<>>
    BY EmptySeq, ConcatEmptySeq
  <1>4. Places
    BY <1>3 DEF Places
  <1>5. SendAllExact
    BY DEF SendAllExact
  <1> QED
    BY <1>1, <1>2, <1>4, <1>5 DEF SendInv

(* A step of p that neither sends nor reads, takes nobody in and connects  *)
(* nobody: it may lose the backlog.                                        *)
LEMMA QuietStep ==
  ASSUME SendInv, program = "sendAll", program' = program, NEW p \in Processes,
         \A q \in Processes \ {p} : pc'[q] = pc[q],
         UNCHANGED <<down, received, len, sent, ret, serving>>,
         backlog' = backlog \/ backlog' = <<>>,
         \A c \in Clients : session'[c] = "none",
         pc'[p] \notin {"start", "greet", "disconnect"},
         pc'[p] \in {"bind", "listen", "accept"} => pc[p] \in {"start", "bind", "listen", "accept"},
         pc'[p] = "sendAll" => pc[p] = "sendAll"
  PROVE  SendInv'
  <1> USE DEF SendInv, Processes
  <1>1. \A i \in 1 .. Len(backlog') : i \in 1 .. Len(backlog) /\ backlog'[i] = backlog[i]
    BY EmptySeq DEF DataTypeOK
  <1>2. DataTypeOK'
    BY EmptySeq DEF DataTypeOK
  <1>3. Counts'
    BY DEF Counts
  <1>4. Places'
    BY <1>1 DEF Places
  <1>5. SendAllExact'
    BY DEF SendAllExact
  <1> QED
    BY <1>2, <1>3, <1>4, <1>5

LEMMA SendExit ==
  ASSUME StreamInv, SendInv, program = "sendAll", NEW p \in Processes, Exit(p)
  PROVE  SendInv'
  <1>1. /\ UNCHANGED <<program, down, received, len, sent, ret, serving>>
        /\ backlog' = backlog \/ backlog' = <<>>
    BY DEF Exit, Exits, Close, sending
  <1>2. \A c \in Clients : session'[c] = "none"
    BY DEF Exit, Exits, SendInv, pool
  <1>3. pc'[p] = "exited" /\ \A q \in Processes \ {p} : pc'[q] = pc[q]
    BY DEF Exit, Exits, Goto, StreamInv, StreamTypeOK
  <1> QED
    BY <1>1, <1>2, <1>3, QuietStep

LEMMA SendServer ==
  ASSUME StreamInv, SendInv, program = "sendAll", NEW s \in Servers,
         OpenServer(s) \/ BindServer(s) \/ ListenServer(s)
  PROVE  SendInv'
  <1>1. s \in Processes /\ pc[s] \in {"start", "bind", "listen"}
    BY DEF OpenServer, BindServer, ListenServer, Processes
  <1>2. /\ UNCHANGED <<program, down, received, len, sent, ret, serving, session>>
        /\ backlog' = backlog \/ backlog' = <<>>
    BY DEF OpenServer, BindServer, ListenServer, Serves, Close, sending, pool, net
  <1>3. PICK l \in {"bind", "listen", "accept", "error"} : Goto(s, l)
    BY DEF OpenServer, BindServer, ListenServer, Serves
  <1>4. pc'[s] = l /\ \A q \in Processes \ {s} : pc'[q] = pc[q]
    BY <1>1, <1>3 DEF Goto, StreamInv, StreamTypeOK
  <1>5. \A c \in Clients : session'[c] = "none"
    BY <1>2 DEF SendInv
  <1> QED
    BY <1>1, <1>2, <1>4, <1>5, QuietStep

LEMMA SendAccept ==
  ASSUME StreamInv, SendInv, program = "sendAll", NEW s \in Servers, Accept(s)
  PROVE  SendInv'
  <1> USE ProcessesAssumption
  <1>1. CASE Close(s, open[s]) /\ Serves(s, "error")
    <2>1. /\ UNCHANGED <<program, down, received, len, sent, ret, serving, session>>
          /\ backlog' = backlog \/ backlog' = <<>>
          /\ Goto(s, "error")
      BY <1>1 DEF Serves, Close, sending, pool
    <2>2. s \in Processes /\ pc'[s] = "error" /\ \A q \in Processes \ {s} : pc'[q] = pc[q]
      BY <2>1 DEF Goto, StreamInv, StreamTypeOK, Processes
    <2>3. \A c \in Clients : session'[c] = "none"
      BY <2>1 DEF SendInv
    <2> QED
      BY <2>1, <2>2, <2>3, QuietStep
  <1>2. ASSUME NEW c \in Clients, Accepts(s, c), serving' = [serving EXCEPT ![s] = c],
               Goto(s, IF program = "sendAll" THEN "sendAll" ELSE "greet"),
               UNCHANGED <<program, lists, pool, sending, received>>
        PROVE  SendInv'
    <2>1. /\ UNCHANGED <<program, session, down, received, len, sent, ret>>
          /\ backlog # <<>> /\ c = Head(backlog) /\ backlog' = Tail(backlog)
      BY <1>2 DEF Accepts, pool, sending
    <2>2. /\ pc[s] = "accept" /\ pc'[s] = "sendAll" /\ serving'[s] = c
          /\ \A q \in Processes \ {s} : pc'[q] = pc[q]
          /\ \A t \in Servers \ {s} : serving'[t] = serving[t]
      BY <1>2 DEF Accept, Goto, StreamInv, StreamTypeOK, Processes
    <2>3. serving[s] = None /\ sent[s] = 0 /\ ret[s] = None
      BY <2>2 DEF SendInv, Counts
    <2>4. /\ backlog' \in Seq(Clients)
          /\ 1 \in 1 .. Len(backlog) /\ c = backlog[1]
          /\ \A i \in 1 .. Len(backlog') :
               i + 1 \in 1 .. Len(backlog) /\ backlog'[i] = backlog[i + 1] /\ i + 1 # 1
      <3>1. backlog \in Seq(Clients) /\ backlog # <<>>
        BY <2>1 DEF SendInv, DataTypeOK
      <3> QED
        BY <2>1, <3>1
    <2>5. DataTypeOK'
      BY <2>1, <2>4 DEF SendInv, DataTypeOK
    <2>6. Counts'
      BY <2>1, <2>2, <2>3 DEF SendInv, Counts, Processes
    <2>7. \A t \in Servers : serving[t] # c
      BY <2>4 DEF SendInv, Places
    <2>8. Places'
      <3>1. ASSUME NEW d \in Clients, pc'[d] = "start"
            PROVE  /\ \A i \in 1 .. Len(backlog') : backlog'[i] # d
                   /\ \A t \in Servers : serving'[t] # d
        <4>1. pc[d] = "start"
          BY <2>2, <3>1 DEF Processes
        <4>2. /\ \A i \in 1 .. Len(backlog) : backlog[i] # d
              /\ \A t \in Servers : serving[t] # d
          BY <4>1 DEF SendInv, Places
        <4> QED
          BY <2>2, <2>4, <4>2
      <3>2. ASSUME NEW i \in 1 .. Len(backlog'), NEW j \in 1 .. Len(backlog'), backlog'[i] = backlog'[j]
            PROVE  i = j
        <4>1. i + 1 = j + 1
          BY <2>4, <3>2 DEF SendInv, Places
        <4> QED
          BY <4>1
      <3>3. ASSUME NEW i \in 1 .. Len(backlog'), NEW t \in Servers
            PROVE  serving'[t] # backlog'[i]
        <4>1. backlog[i + 1] # backlog[1] /\ serving[t] # backlog[i + 1]
          BY <2>4 DEF SendInv, Places
        <4> QED
          BY <2>2, <2>4, <4>1
      <3>4. ASSUME NEW t \in Servers, NEW u \in Servers, serving'[t] # None, serving'[t] = serving'[u]
            PROVE  t = u
        BY <2>2, <2>7, <3>4 DEF SendInv, Places
      <3>5. ASSUME NEW d \in Clients, \A t \in Servers : serving'[t] # d
            PROVE  received'[d] \o down'[d] = <<>>
        <4>1. \A t \in Servers : serving[t] # d
          BY <2>2, <2>3, <3>5
        <4> QED
          BY <2>1, <4>1 DEF SendInv, Places
      <3> QED
        BY <3>1, <3>2, <3>3, <3>4, <3>5 DEF Places
    <2>9. SendAllExact'
      <3>1. received[c] \o down[c] = SubSeq(Buffer, 1, 0)
        <4>1. received[c] \o down[c] = <<>>
          BY <2>7 DEF SendInv, Places
        <4>2. SubSeq(Buffer, 1, 0) = <<>>
          BY SubSeqEmpty
        <4> QED
          BY <4>1, <4>2
      <3>2. ASSUME NEW t \in Servers, serving'[t] # None
            PROVE  /\ received'[serving'[t]] \o down'[serving'[t]] = SubSeq(Buffer, 1, sent'[t])
                   /\ ret'[t] # None /\ len <= IntMax =>
                        ret'[t] = IF sent'[t] = len THEN len ELSE -1
        <4>1. CASE t = s
          BY <2>1, <2>2, <2>3, <3>1, <4>1
        <4>2. CASE t # s
          BY <2>1, <2>2, <3>2, <4>2 DEF SendInv, SendAllExact
        <4> QED
          BY <4>1, <4>2
      <3> QED
        BY <2>1, <3>2 DEF SendAllExact
    <2> QED
      BY <2>1, <2>5, <2>6, <2>8, <2>9 DEF SendInv
  <1> QED
    BY <1>1, <1>2 DEF Accept

LEMMA SendConnects ==
  ASSUME StreamInv, SendInv, program = "sendAll", NEW c \in Clients, ConnectClient(c)
  PROVE  SendInv'
  <1> USE ProcessesAssumption
  <1>1. /\ pc[c] = "start" /\ c \in Processes
        /\ UNCHANGED <<program, session, down, received, len, sent, ret, serving>>
    BY DEF ConnectClient, Connects, Runs, Processes, pool, sending, net
  <1>2. CASE UNCHANGED <<open, net>> /\ Runs(c, "error")
    <2>1. pc'[c] = "error" /\ \A q \in Processes \ {c} : pc'[q] = pc[q]
      BY <1>1, <1>2 DEF Runs, Goto, StreamInv, StreamTypeOK
    <2>2. backlog' = backlog /\ \A d \in Clients : session'[d] = "none"
      BY <1>1, <1>2 DEF net, SendInv
    <2> QED
      BY <1>1, <2>1, <2>2, QuietStep
  <1>3. CASE Connects(c) /\ Runs(c, IF program = "tcp" THEN "send" ELSE "recv")
    <2>1. pc'[c] = "recv" /\ \A q \in Processes \ {c} : pc'[q] = pc[q]
      BY <1>1, <1>3 DEF Runs, Goto, StreamInv, StreamTypeOK
    <2>2. backlog \in Seq(Clients) /\ backlog' = Append(backlog, c)
      BY <1>3 DEF Connects, SendInv, DataTypeOK
    <2>3. /\ backlog' \in Seq(Clients) /\ Len(backlog) \in Nat
          /\ \A i \in 1 .. Len(backlog') :
               \/ i \in 1 .. Len(backlog) /\ backlog'[i] = backlog[i]
               \/ i = Len(backlog) + 1 /\ backlog'[i] = c
      BY <2>2, AppendProperties
    <2>4. DataTypeOK'
      BY <1>1, <2>3 DEF SendInv, DataTypeOK
    <2>5. Counts'
      BY <1>1, <2>1 DEF SendInv, Counts, Processes
    <2>6. /\ \A i \in 1 .. Len(backlog) : backlog[i] # c
          /\ \A s \in Servers : serving[s] # c
      BY <1>1 DEF SendInv, Places
    <2>7. Places'
      <3>1. ASSUME NEW d \in Clients, pc'[d] = "start"
            PROVE  /\ \A i \in 1 .. Len(backlog') : backlog'[i] # d
                   /\ \A t \in Servers : serving'[t] # d
        <4>1. d # c /\ pc[d] = "start"
          BY <2>1, <3>1 DEF Processes
        <4>2. /\ \A i \in 1 .. Len(backlog) : backlog[i] # d
              /\ \A t \in Servers : serving[t] # d
          BY <4>1 DEF SendInv, Places
        <4> QED
          BY <1>1, <2>3, <4>1, <4>2
      <3>2. ASSUME NEW i \in 1 .. Len(backlog'), NEW j \in 1 .. Len(backlog'), backlog'[i] = backlog'[j]
            PROVE  i = j
        <4>1. i \in 1 .. Len(backlog) /\ j \in 1 .. Len(backlog) /\ backlog[i] = backlog[j] => i = j
          BY DEF SendInv, Places
        <4> QED
          BY <2>3, <2>6, <3>2, <4>1
      <3>3. ASSUME NEW i \in 1 .. Len(backlog'), NEW t \in Servers
            PROVE  serving'[t] # backlog'[i]
        BY <1>1, <2>3, <2>6 DEF SendInv, Places
      <3> QED
        BY <1>1, <3>1, <3>2, <3>3 DEF SendInv, Places
    <2>8. SendAllExact'
      BY <1>1 DEF SendInv, SendAllExact
    <2> QED
      BY <1>1, <2>4, <2>5, <2>7, <2>8 DEF SendInv
  <1> QED
    BY <1>2, <1>3 DEF ConnectClient

(* Bytes that move from one sequence to the next stay in order.            *)
LEMMA Split ==
  ASSUME NEW S, NEW b \in Seq(S), NEW k \in 0 .. Len(b), NEW n \in k .. Len(b)
  PROVE  /\ SubSeq(b, 1, k) \in Seq(S) /\ SubSeq(b, k + 1, n) \in Seq(S)
         /\ SubSeq(b, 1, k) \o SubSeq(b, k + 1, n) = SubSeq(b, 1, n)
  <1>1. Len(b) \in Nat /\ k \in Nat /\ n \in Nat /\ \A i \in 1 .. Len(b) : b[i] \in S
    OBVIOUS
  <1>2. SubSeq(b, 1, k) \in Seq(S)
    BY <1>1, SubSeqProperties
  <1>3. SubSeq(b, k + 1, n) \in Seq(S)
    BY <1>1, SubSeqProperties
  <1>4. 1 \in 1 .. Len(b) + 1 /\ k \in 1 - 1 .. Len(b)
    BY <1>1
  <1> QED
    BY <1>2, <1>3, <1>4, ConcatAdjacentSubSeq

(* What is read goes from the connection to the reader, and what is sent   *)
(* continues what was sent.                                                *)
LEMMA Associative ==
  ASSUME NEW a \in Seq(Nat), NEW x \in Seq(Nat), NEW y \in Seq(Nat)
  PROVE  a \o x \in Seq(Nat) /\ (a \o x) \o y = a \o (x \o y)
  <1>1. (a \o x) \o y = a \o (x \o y)
    BY ConcatAssociative
  <1>2. a \o x \in Seq(Nat)
    BY ConcatProperties
  <1> QED
    BY <1>1, <1>2

LEMMA SendRead ==
  ASSUME StreamInv, SendInv, program = "sendAll", NEW c \in Clients, Read(c)
  PROVE  SendInv'
  <1> USE ProcessesAssumption
  <1>1. c \in Processes /\ pc[c] = "recv"
    BY DEF Read, Processes
  <1>2. CASE UNCHANGED <<open, net, received>> /\ Runs(c, "leave")
    <2>1. pc'[c] = "leave" /\ \A q \in Processes \ {c} : pc'[q] = pc[q]
      BY <1>1, <1>2 DEF Runs, Goto, StreamInv, StreamTypeOK
    <2>2. /\ UNCHANGED <<program, backlog, down, received, len, sent, ret, serving, session>>
          /\ \A d \in Clients : session'[d] = "none"
      BY <1>2 DEF Runs, net, pool, sending, SendInv
    <2> QED
      BY <1>1, <2>1, <2>2, QuietStep
  <1>3. ASSUME NEW n \in 1 .. Len(down[c]),
               received' = [received EXCEPT ![c] = @ \o SubSeq(down[c], 1, n)],
               down' = [down EXCEPT ![c] = SubSeq(@, n + 1, Len(@))],
               UNCHANGED <<open, bound, listening, backlog, link, up>>,
               Runs(c, IF program = "sendAll" THEN "recv" ELSE "leave")
        PROVE  SendInv'
    <2>1. UNCHANGED <<program, session, backlog, len, sent, ret, serving>>
      BY <1>3 DEF Runs, pool, sending
    <2>2. pc'[c] = "recv" /\ \A q \in Processes \ {c} : pc'[q] = pc[q]
      BY <1>1, <1>3 DEF Runs, Goto, StreamInv, StreamTypeOK
    <2>3. received[c] \in Seq(Nat) /\ down[c] \in Seq(Nat)
      BY DEF SendInv, DataTypeOK
    <2>4. /\ received'[c] = received[c] \o SubSeq(down[c], 1, n)
          /\ down'[c] = SubSeq(down[c], n + 1, Len(down[c]))
          /\ \A d \in Clients \ {c} : received'[d] = received[d] /\ down'[d] = down[d]
      BY <1>3 DEF SendInv, DataTypeOK
    <2>5. /\ received'[c] \in Seq(Nat) /\ down'[c] \in Seq(Nat)
          /\ received'[c] \o down'[c] = received[c] \o down[c]
      <3>1. PICK x, y : x = SubSeq(down[c], 1, n) /\ y = SubSeq(down[c], n + 1, Len(down[c]))
        OBVIOUS
      <3>2. x \in Seq(Nat) /\ y \in Seq(Nat) /\ x \o y = down[c]
        <4>1. n \in 0 .. Len(down[c]) /\ Len(down[c]) \in n .. Len(down[c])
          BY <2>3, LenProperties
        <4>2. SubSeq(down[c], 1, Len(down[c])) = down[c]
          BY <2>3, SubSeqFull
        <4> QED
          BY <2>3, <3>1, <4>1, <4>2, Split
      <3>3. /\ received[c] \o x \in Seq(Nat)
            /\ (received[c] \o x) \o y = received[c] \o (x \o y)
        <4>1. x \in Seq(Nat) /\ y \in Seq(Nat)
          BY <3>2
        <4>2. PICK a \in Seq(Nat) : a = received[c]
          BY <2>3
        <4> QED
          BY <4>1, <4>2, Associative
      <3> QED
        BY <2>4, <3>1, <3>2, <3>3
    <2>6. DataTypeOK'
      BY <1>3, <2>1, <2>4, <2>5 DEF SendInv, DataTypeOK
    <2>7. Counts'
      BY <2>1, <2>2 DEF SendInv, Counts, Processes
    <2>8. \A d \in Clients : received'[d] \o down'[d] = received[d] \o down[d]
      BY <2>4, <2>5
    <2>9. Places'
      BY <2>1, <2>2, <2>8 DEF SendInv, Places, Processes
    <2>10. SendAllExact'
      BY <2>1, <2>8 DEF SendInv, SendAllExact, StreamInv, StreamTypeOK
    <2> QED
      BY <2>1, <2>6, <2>7, <2>9, <2>10 DEF SendInv
  <1> QED
    BY <1>2, <1>3 DEF Read

LEMMA SendSends ==
  ASSUME StreamInv, SendInv, program = "sendAll", NEW s \in Servers, SendSome(s)
  PROVE  SendInv'
  <1> USE ProcessesAssumption
  <1>1. s \in Processes /\ pc[s] = "sendAll" /\ sent[s] # len
    BY DEF SendSome, Processes
  <1>2. PICK c \in Clients : c = serving[s]
    BY <1>1 DEF StreamInv, Served
  <1>3. serving[s] # None
    BY <1>2
  <1>4. CASE Exit(s)
    BY <1>1, <1>4, SendExit
  <1>5. ASSUME NEW n \in 1 .. len - sent[s],
               Answers(c, SubSeq(Buffer, sent[s] + 1, sent[s] + n)),
               sent' = [sent EXCEPT ![s] = @ + n],
               UNCHANGED <<program, pc, open, lists, serving, pool, len, ret, received>>
        PROVE  SendInv'
    <2>1. UNCHANGED <<program, pc, session, backlog, received, len, ret, serving>>
      BY <1>5 DEF Answers, pool
    <2>2. /\ received[c] \in Seq(Nat) /\ down[c] \in Seq(Nat) /\ sent[s] \in Nat
          /\ received[c] \o down[c] = SubSeq(Buffer, 1, sent[s])
          /\ Len(Buffer) \in Nat /\ len \in 0 .. Len(Buffer)
      <3>1. received[c] \o down[c] = SubSeq(Buffer, 1, sent[s])
        BY <1>2, <1>3 DEF SendInv, SendAllExact
      <3> QED
        BY <3>1, BufferAssumption, LenProperties DEF SendInv, DataTypeOK
    <2>3. /\ down'[c] = down[c] \o SubSeq(Buffer, sent[s] + 1, sent[s] + n)
          /\ \A d \in Clients \ {c} : down'[d] = down[d]
          /\ sent'[s] = sent[s] + n
          /\ \A t \in Servers \ {s} : sent'[t] = sent[t]
      BY <1>5 DEF Answers, SendInv, DataTypeOK
    <2>4. /\ down'[c] \in Seq(Nat)
          /\ received[c] \o down'[c] = SubSeq(Buffer, 1, sent'[s])
      <3>1. PICK x : x = SubSeq(Buffer, sent[s] + 1, sent[s] + n)
        OBVIOUS
      <3>2. /\ x \in Seq(Nat)
            /\ SubSeq(Buffer, 1, sent[s]) \o x = SubSeq(Buffer, 1, sent[s] + n)
        <4>1. sent[s] \in 0 .. Len(Buffer) /\ sent[s] + n \in sent[s] .. Len(Buffer)
          BY <2>2
        <4> QED
          BY <3>1, <4>1, BufferAssumption, Split
      <3>3. /\ down[c] \o x \in Seq(Nat)
            /\ (received[c] \o down[c]) \o x = received[c] \o (down[c] \o x)
        <4>1. x \in Seq(Nat) /\ received[c] \in Seq(Nat) /\ down[c] \in Seq(Nat)
          BY <2>2, <3>2
        <4>2. PICK a, b, y \in Seq(Nat) : a = received[c] /\ b = down[c] /\ y = x
          BY <4>1
        <4>3. (a \o b) \o y = a \o (b \o y)
          BY Associative
        <4>4. b \o y \in Seq(Nat)
          BY ConcatProperties
        <4> QED
          BY <4>2, <4>3, <4>4
      <3>4. received[c] \o (down[c] \o x) = SubSeq(Buffer, 1, sent[s] + n)
        BY <2>2, <3>2, <3>3
      <3> QED
        BY <2>3, <3>1, <3>3, <3>4
    <2>5. DataTypeOK'
      <3>1. sent[s] + n \in Nat
        BY <2>2
      <3>2. down' \in [Clients -> Seq(Nat)] /\ sent' \in [Servers -> Nat]
        BY <1>5, <2>3, <2>4, <3>1 DEF Answers, SendInv, DataTypeOK
      <3> QED
        BY <2>1, <3>2 DEF SendInv, DataTypeOK
    <2>6. Counts'
      <3>1. sent[s] + n <= len
        BY <2>2
      <3> QED
        BY <1>1, <1>3, <2>1, <2>3, <3>1 DEF SendInv, Counts
    <2>7. Places'
      BY <1>2, <2>1, <2>3 DEF SendInv, Places
    <2>8. SendAllExact'
      <3>1. ASSUME NEW t \in Servers, serving[t] # None
            PROVE  /\ received[serving[t]] \o down'[serving[t]] = SubSeq(Buffer, 1, sent'[t])
                   /\ ret[t] # None /\ len <= IntMax =>
                        ret[t] = IF sent'[t] = len THEN len ELSE -1
        <4>1. CASE t = s
          <5>1. ret[t] = None
            BY <1>1, <4>1 DEF SendInv, Counts
          <5> QED
            BY <1>2, <2>4, <4>1, <5>1
        <4>2. CASE t # s
          <5>1. serving[t] \in Clients \ {c}
            BY <1>2, <3>1, <4>2 DEF SendInv, Places, StreamInv, StreamTypeOK
          <5> QED
            BY <2>3, <3>1, <4>2, <5>1 DEF SendInv, SendAllExact
        <4> QED
          BY <4>1, <4>2
      <3> QED
        BY <2>1, <3>1 DEF SendAllExact
    <2> QED
      BY <2>1, <2>5, <2>6, <2>7, <2>8 DEF SendInv
  <1>6. ASSUME ret' = [ret EXCEPT ![s] = -1], Goto(s, "hangUp"),
               UNCHANGED <<program, open, net, lists, serving, pool, len, sent, received>>
        PROVE  SendInv'
    <2>1. UNCHANGED <<program, session, backlog, down, received, len, sent, serving>>
      BY <1>6 DEF net, pool
    <2>2. pc'[s] = "hangUp" /\ \A q \in Processes \ {s} : pc'[q] = pc[q]
      BY <1>1, <1>6 DEF Goto, StreamInv, StreamTypeOK
    <2>3. ret'[s] = -1 /\ ret' \in [Servers -> Int \cup {None}]
          /\ \A t \in Servers \ {s} : ret'[t] = ret[t]
      BY <1>6 DEF SendInv, DataTypeOK
    <2>4. DataTypeOK'
      BY <2>1, <2>3 DEF SendInv, DataTypeOK
    <2>5. Counts'
      BY <1>3, <2>1, <2>2, <2>3 DEF SendInv, Counts, Processes
    <2>6. Places'
      BY <2>1, <2>2 DEF SendInv, Places, Processes
    <2>7. SendAllExact'
      BY <1>1, <2>1, <2>3 DEF SendInv, SendAllExact
    <2> QED
      BY <2>1, <2>4, <2>5, <2>6, <2>7 DEF SendInv
  <1> QED
    BY <1>2, <1>4, <1>5, <1>6 DEF SendSome

(* A count that an int can hold is returned as it is, any other as some int. *)
LEMMA ToIntExact ==
  ASSUME NEW n \in Nat
  PROVE  ToInt(n) \in Int /\ (n <= IntMax => ToInt(n) = n)
  <1>1. IntRange \in Nat \ {0} /\ IntMax < IntRange
    BY IntMaxAssumption DEF IntRange
  <1>2. n % IntRange \in Int
    BY <1>1
  <1>3. n <= IntMax => n % IntRange = n
    BY <1>1, IntMaxAssumption
  <1> QED
    BY <1>1, <1>2, <1>3 DEF ToInt

LEMMA SendDone ==
  ASSUME StreamInv, SendInv, program = "sendAll", NEW s \in Servers, SentAll(s)
  PROVE  SendInv'
  <1>1. /\ s \in Processes /\ pc[s] = "sendAll" /\ sent[s] = len
        /\ UNCHANGED <<program, session, backlog, down, received, len, sent, serving>>
        /\ ret' = [ret EXCEPT ![s] = ToInt(len)]
    BY DEF SentAll, Processes, net, pool
  <1>2. pc'[s] = "hangUp" /\ \A q \in Processes \ {s} : pc'[q] = pc[q]
    BY <1>1 DEF SentAll, Goto, StreamInv, StreamTypeOK
  <1>3. serving[s] # None /\ sent[s] \in Nat /\ len \in Nat
    BY <1>1, ProcessesAssumption DEF StreamInv, Served, SendInv, DataTypeOK
  <1>4. ret'[s] = ToInt(len) /\ ret' \in [Servers -> Int \cup {None}]
        /\ \A t \in Servers \ {s} : ret'[t] = ret[t]
    BY <1>1, <1>3, ToIntExact DEF SendInv, DataTypeOK
  <1>5. DataTypeOK'
    BY <1>1, <1>4 DEF SendInv, DataTypeOK
  <1>6. Counts'
    BY <1>1, <1>2, <1>3, <1>4 DEF SendInv, Counts, Processes
  <1>7. Places'
    BY <1>1, <1>2, ProcessesAssumption DEF SendInv, Places, Processes
  <1>8. SendAllExact'
    BY <1>1, <1>3, <1>4, ToIntExact DEF SendInv, SendAllExact
  <1> QED
    BY <1>1, <1>5, <1>6, <1>7, <1>8 DEF SendInv

(* A client of this program does not ask; nothing depends on it.           *)
LEMMA SendAsks ==
  ASSUME StreamInv, SendInv, program = "sendAll", NEW c \in Clients, Ask(c)
  PROVE  SendInv'
  <1>1. c \in Processes
    BY DEF Processes
  <1>2. CASE Exit(c)
    BY <1>1, <1>2, SendExit
  <1>3. CASE ~Exit(c)
    <2>1. /\ UNCHANGED <<program, session, backlog, down, received, len, sent, ret, serving>>
          /\ Goto(c, "recv")
      BY <1>3 DEF Ask, Runs, net, pool, sending
    <2>2. pc'[c] = "recv" /\ \A q \in Processes \ {c} : pc'[q] = pc[q]
      BY <1>1, <2>1 DEF Goto, StreamInv, StreamTypeOK
    <2>3. \A d \in Clients : session'[d] = "none"
      BY <2>1 DEF SendInv
    <2> QED
      BY <1>1, <2>1, <2>2, <2>3, QuietStep
  <1> QED
    BY <1>2, <1>3

LEMMA SendNext == StreamInv /\ SendInv /\ [Next]_vars => SendInv'
  <1> SUFFICES ASSUME StreamInv, SendInv, [Next]_vars PROVE SendInv'
    OBVIOUS
  <1>1. CASE UNCHANGED vars
    BY <1>1 DEF vars, net, pool, sending, SendInv, DataTypeOK, Counts, Places, SendAllExact
  <1>2. CASE Next /\ program # "sendAll"
    <2>1. program' = program
      <3>1. \A p \in Processes : Exit(p) \/ Helpers(p) => program' = program
        BY DEF Exit, Helpers, sock_listen, sock_connect, GetAddrInfo, SocketFails, TryConnect,
           TrySocket, TryBind, TryListen, LoopEnds, FreeAddrInfo
      <3>2. ASSUME NEW s \in Servers, ServerMain(s) \/ TakeTask(s)
            PROVE  program' = program
        <4>1. s \in Processes
          BY DEF Processes
        <4>2. SendSome(s) \/ SentAll(s) => program' = program
          BY <3>1, <4>1 DEF SendSome, SentAll
        <4> QED
          BY <3>1, <3>2, <4>1, <4>2 DEF ServerMain, OpenServer, BindServer, ListenServer, Accept,
             Greet, Disconnect, HangUp, AddTask, Report, TakeTask, Serves
      <3>3. ASSUME NEW s \in Servers, NEW c \in Clients, SessionStep(s, c)
            PROVE  program' = program
        BY <3>1, <3>3 DEF SessionStep, SessionReceives, SessionAnswers, SessionCloses, Proceed,
           Processes
      <3>4. ASSUME NEW c \in Clients, ClientMain(c)
            PROVE  program' = program
        BY <3>1, <3>4 DEF ClientMain, ConnectClient, Ask, Read, Leave, Report, Runs, Processes
      <3> QED
        BY <1>2, <3>1, <3>2, <3>3, <3>4 DEF Next, Killed
    <2> QED
      BY <1>2, <2>1 DEF SendInv
  <1>3. CASE Next /\ program = "sendAll"
    <2>1. ASSUME NEW s \in Servers, ServerMain(s)
          PROVE  SendInv'
      <3>1. pc[s] \notin {"greet", "disconnect"} /\ s \in Processes
        BY <1>3 DEF SendInv, Counts, Processes
      <3>2. ~Greet(s) /\ ~Disconnect(s) /\ ~AddTask(s) /\ ~Helpers(s)
        BY <1>3, <3>1 DEF Greet, Disconnect, AddTask, Helpers
      <3>3. HangUp(s) \/ Report(s) => Exit(s)
        BY <1>3 DEF HangUp, Report
      <3> QED
        BY <1>3, <2>1, <3>1, <3>2, <3>3, SendServer, SendAccept, SendSends, SendDone, SendExit
        DEF ServerMain
    <2>2. ASSUME NEW s \in Servers
          PROVE  ~TakeTask(s) /\ \A c \in Clients : ~SessionStep(s, c)
      BY <1>3 DEF TakeTask, SessionStep, SessionReceives, SessionAnswers, SessionCloses, SendInv
    <2>3. ASSUME NEW c \in Clients, ClientMain(c)
          PROVE  SendInv'
      <3>1. c \in Processes /\ ~Helpers(c)
        BY <1>3 DEF Helpers, Processes
      <3>2. Leave(c) \/ Report(c) => Exit(c)
        BY DEF Leave, Report
      <3> QED
        BY <1>3, <2>3, <3>1, <3>2, SendConnects, SendAsks, SendRead, SendExit DEF ClientMain
    <2>4. ASSUME NEW p \in Processes, Killed(p)
          PROVE  SendInv'
      BY <1>3, <2>4, SendExit DEF Killed
    <2> QED
      BY <1>3, <2>1, <2>2, <2>3, <2>4 DEF Next
  <1> QED
    BY <1>1, <1>2, <1>3

(* tcp_socket::sendAll hands the buffer over from its beginning, in order  *)
(* and once, whatever parts of it each send() takes, for every buffer and  *)
(* length; and it returns the length if it came to its end, -1 otherwise,  *)
(* for every length an int can hold.                                       *)
THEOREM StreamSendAllExact == Spec => []SendAllExact
  <1>1. StreamInv /\ SendInv => SendAllExact
    BY DEF SendInv, SendAllExact
  <1>2. StreamInv /\ SendInv /\ [Next]_vars => (StreamInv /\ SendInv)'
    BY NextInv, SendNext
  <1> QED
    BY InitInv, SendInit, <1>1, <1>2, PTL DEF Spec
=============================================================================
