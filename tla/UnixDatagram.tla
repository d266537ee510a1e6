---------------------------- MODULE UnixDatagram ----------------------------
(***************************************************************************)
(* unix_server.cpp and unix_client.cpp of day3/socknet: processes that     *)
(* each own one datagram socket.  The server answers each datagram to the  *)
(* path it came from, and a client asks once and waits for the answer.     *)
(* Any process may be killed (nothing else stops a server), and a server   *)
(* may be started while an older one runs.                                 *)
(***************************************************************************)
EXTENDS UnixSocket, FiniteSets

CONSTANTS Servers, Clients,
          PathOf       (* per process: the path it binds: "/tmp/ux_sock",  *)
                       (* or that with the client's process id             *)

ASSUME ProcessAssumption ==
  Sockets = Servers \cup Clients /\ Servers \cap Clients = {} /\ Servers # {}
ASSUME PathAssumption ==
  /\ PathOf \in [Sockets -> Paths]
  /\ \A s, t \in Servers : PathOf[s] = PathOf[t]
  /\ \A c \in Clients : \A p \in Sockets \ {c} : PathOf[c] # PathOf[p]

VARIABLES at,          (* per process: where main is                       *)
          peer,        (* per server: the client whose path it answers to  *)
          overlapped,  (* has a server been started while another one ran  *)
          refused      (* <<p, point>>: a call that p made at that point   *)
                       (* failed for a reason outside these programs:      *)
                       (* permissions, resources of the system             *)

history == <<overlapped, refused>>
vars == <<socketvars, at, peer, history>>

ServerPath == PathOf[CHOOSE s \in Servers : TRUE]
Live(p) == at[p] \notin {"start", "returned", "terminated", "killed"}
Goto(p, point) == at' = [at EXCEPT ![p] = point]
Refuse(p) == refused' = refused \cup {<<p, at[p]>>}
Refused(p, point) == <<p, point>> \in refused

Init ==
  /\ SocketInit
  /\ at = [p \in Sockets |-> "start"]
  /\ peer = [s \in Servers |-> NoName]
  /\ overlapped = FALSE
  /\ refused = {}
-----------------------------------------------------------------------------
(* Mistakes that would be easy to make; nothing below uses them.           *)

(* A socket that is only asked with needs no name.                         *)
BindServerOnly(p) ==
  /\ at[p] = "bind"
  /\ IF p \in Servers THEN BindName(p, PathOf[p]) ELSE UNCHANGED socketvars
  /\ Goto(p, IF p \in Servers THEN "receive" ELSE "send")
  /\ UNCHANGED <<peer, history>>

(* bind() takes the directory as it finds it.                              *)
BindKeepsEntry(p) ==
  /\ at[p] = "unlink"
  /\ Goto(p, "bind")
  /\ UNCHANGED <<socketvars, peer, history>>

(* The destructor closes the socket and leaves the directory entry.        *)
DestroyKeepsEntry(p) ==
  /\ at[p] = "unwind" /\ LocalPathExtracts(p)
  /\ Goto(p, "close")
  /\ UNCHANGED <<socketvars, peer, history>>

(* The client does not wait for its answer.                                *)
AskAndLeave(c) ==
  /\ at[c] = "send"
  /\ SendTo(c, ServerPath)
  /\ Goto(c, "unwind")
  /\ UNCHANGED <<peer, history>>

(* A full inbox is taken for a client that is gone: no answer.             *)
ReplyDropped(s) ==
  /\ at[s] = "reply"
  /\ Goto(s, "receive")
  /\ peer' = [peer EXCEPT ![s] = NoName]
  /\ UNCHANGED <<socketvars, history>>
-----------------------------------------------------------------------------
(* The socket's constructor; if it throws, main returns 1.                 *)
Start(p) ==
  /\ at[p] = "start"
  /\ CreateSocket(p)
  /\ Goto(p, "unlink")
  /\ overlapped' = (overlapped \/ (p \in Servers /\ \E s \in Servers : Live(s)))
  /\ UNCHANGED <<peer, refused>>

CreateFails(p) ==
  /\ at[p] = "start"
  /\ Goto(p, "returned")
  /\ UNCHANGED <<socketvars, peer, history>>

(* unix_socket::bind: unlink, whether that works or not, then bind.        *)
BindUnlinks(p) ==
  /\ at[p] = "unlink"
  /\ \/ Unlink(PathOf[p]) /\ UNCHANGED refused
     \/ UNCHANGED socketvars /\ Refuse(p)
  /\ Goto(p, "bind")
  /\ UNCHANGED <<peer, overlapped>>

Bind(p) ==
  /\ at[p] = "bind"
  /\ BindName(p, PathOf[p])
  /\ Goto(p, IF p \in Servers THEN "receive" ELSE "send")
  /\ UNCHANGED <<peer, history>>

(* A call throws, because it cannot succeed or because it is refused.      *)
Throws(p, point, possible) ==
  /\ at[p] = point
  /\ IF possible THEN Refuse(p) ELSE UNCHANGED refused
  /\ Goto(p, "unwind")
  /\ UNCHANGED <<socketvars, peer, overlapped>>

BindFails(p) == Throws(p, "bind", entry[PathOf[p]] = Nothing)

(* The server's loop.                                                      *)
Receive(s) ==
  /\ at[s] = "receive"
  /\ ReceiveFrom(s)
  /\ peer' = [peer EXCEPT ![s] = Head(inbox[s])]
  /\ Goto(s, "reply")
  /\ UNCHANGED history

Reply(s) ==
  /\ at[s] = "reply"
  /\ SendTo(s, name[peer[s]])
  /\ Goto(s, "receive")
  /\ peer' = [peer EXCEPT ![s] = NoName]
  /\ UNCHANGED history

ReceiveFails(s) == Throws(s, "receive", TRUE)
ReplyFails(s) == Throws(s, "reply", Leads(name[peer[s]]))

(* The client: one question, one answer, and disconnect(), which only      *)
(* forgets a peer the socket does not have.                                *)
Ask(c) ==
  /\ at[c] = "send"
  /\ SendTo(c, ServerPath)
  /\ Goto(c, "wait")
  /\ UNCHANGED <<peer, history>>

AskFails(c) == Throws(c, "send", Leads(ServerPath))

Answered(c) ==
  /\ at[c] = "wait"
  /\ ReceiveFrom(c)
  /\ Goto(c, "unwind")
  /\ UNCHANGED <<peer, history>>

AnswerFails(c) == Throws(c, "wait", TRUE)

(* ~unix_socket unlinks the socket's name and ~base_socket closes it.      *)
(* Without a name getLocalPath() throws out of the destructor, which is    *)
(* noexcept: std::terminate.                                               *)
DestroyUnlinks(p) ==
  /\ at[p] = "unwind" /\ LocalPathExtracts(p)
  /\ \/ Unlink(name[p]) /\ UNCHANGED refused
     \/ UNCHANGED socketvars /\ Refuse(p)
  /\ Goto(p, "close")
  /\ UNCHANGED <<peer, overlapped>>

DestroyThrows(p) ==
  /\ at[p] = "unwind" /\ ~LocalPathExtracts(p)
  /\ CloseSocket(p)
  /\ Goto(p, "terminated")
  /\ UNCHANGED <<peer, history>>

DestroyCloses(p) ==
  /\ at[p] = "close"
  /\ CloseSocket(p)
  /\ Goto(p, "returned")
  /\ UNCHANGED <<peer, history>>

Kill(p) ==
  /\ Live(p)
  /\ CloseSocket(p)
  /\ Goto(p, "killed")
  /\ UNCHANGED <<peer, history>>
-----------------------------------------------------------------------------
ProcessStep(p) ==
  \/ BindUnlinks(p) \/ Bind(p) \/ BindFails(p)
  \/ DestroyUnlinks(p) \/ DestroyThrows(p) \/ DestroyCloses(p)
ServerStep(s) ==
  ProcessStep(s) \/ Receive(s) \/ ReceiveFails(s) \/ Reply(s) \/ ReplyFails(s)
ClientStep(c) ==
  ProcessStep(c) \/ Ask(c) \/ AskFails(c) \/ Answered(c) \/ AnswerFails(c)

Next ==
  \/ \E p \in Sockets : Start(p) \/ CreateFails(p) \/ Kill(p)
  \/ \E s \in Servers : ServerStep(s)
  \/ \E c \in Clients : ClientStep(c)

Spec == Init /\ [][Next]_vars
-----------------------------------------------------------------------------
(* A program that was not killed leaves no directory entry of its own      *)
(* behind, whichever way it ended and whoever bound the path since, unless *)
(* its destructor's unlink was refused.                                    *)
NothingLeftBehind ==
  \A p \in Paths : entry[p] \in Sockets =>
    \/ at[entry[p]] \notin {"close", "returned", "terminated"}
    \/ Refused(entry[p], "unwind")

(* Whatever servers before it left at the path, a new one can bind it if   *)
(* its own unlink is not refused, and can be reached while it is in its    *)
(* loop, as long as no two servers have run at once: bind() and the        *)
(* destructor unlink entries that may be another's.                        *)
Reachable ==
  ~overlapped => \A s \in Servers :
    /\ at[s] = "bind" /\ ~Refused(s, "unlink") => entry[ServerPath] = Nothing
    /\ at[s] \in {"receive", "reply"} => entry[ServerPath] = s

(* The subtraction in extractPath does not wrap around: who receives is    *)
(* told a sender that has a name.  A destructor meets a socket without one *)
(* in three cases only: two servers raced for the path, or the process's   *)
(* bind was refused, or the unlink before it.                              *)
PathsExtract ==
  /\ \A p \in Sockets : inbox[p] # <<>> => SourcePathExtracts(p)
  /\ ~overlapped => \A p \in Sockets :
       at[p] = "unwind" /\ ~Refused(p, "unlink") /\ ~Refused(p, "bind")
         => LocalPathExtracts(p)

(* A server that was serving leaves its loop only because the client it    *)
(* owes an answer does not wait any more: that client was killed, or its   *)
(* own receive() was refused.  Otherwise a call of the server was refused. *)
ServerOutlivesClients ==
  \A s \in Servers :
    /\ at[s] \in {"unwind", "close", "returned"} /\ name[s] # NoName
    /\ ~Refused(s, "receive") /\ ~Refused(s, "reply")
    => /\ peer[s] \in Clients
       /\ at[peer[s]] = "killed" \/ Refused(peer[s], "wait")

=============================================================================
