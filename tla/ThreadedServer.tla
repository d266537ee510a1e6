--------------------------- MODULE ThreadedServer ---------------------------
(***************************************************************************)
(* tcp_server_threaded.cpp of day3/socknet: main accepts connections and   *)
(* launches one detached thread for each, which greets the client and      *)
(* closes the connection.  A descriptor passes as a plain number from      *)
(* accept through the bound functor to the session's tcp_socket, and the   *)
(* kernel gives a closed number to the next connection.                    *)
(***************************************************************************)
EXTENDS LaunchThread

CONSTANTS Fds,       (* the descriptors left beside the server's socket    *)
          None       (* no session                                         *)

ASSUME FdsAssumption == Fds \subseteq Nat
ASSUME NoneAssumption == None \notin Jobs \cup Fds

VARIABLES main,      (* the session main is launching; None: it accepts    *)
          session,   (* per session: where handle_client is                *)
          handle,    (* per session: the number accept returned            *)
          holder     (* the kernel's table: whose connection a number is   *)

servervars == <<main, session, handle, holder>>
vars == <<launchvars, servervars>>

Sessions == Jobs
Free == {f \in Fds : holder[f] = None}

Init ==
  /\ LaunchInit
  /\ main = None
  /\ session = [s \in Sessions |-> "none"]
  /\ handle = [s \in Sessions |-> None]
  /\ holder = [f \in Fds |-> None]
-----------------------------------------------------------------------------
(* Mistakes that would be easy to make; nothing below uses them.           *)

(* disconnect() closes the descriptor that the destructor closes again.    *)
DisconnectAndClose(s) ==
  /\ session[s] = "disconnect"
  /\ session' = [session EXCEPT ![s] = "close"]
  /\ holder' = [holder EXCEPT ![handle[s]] = None]
  /\ UNCHANGED <<launchvars, main, handle>>

(* A session whose client has gone returns without the destructor.         *)
GreetAndForget(s) ==
  /\ session[s] = "send"
  /\ \E p \in {"disconnect", "closed"} : session' = [session EXCEPT ![s] = p]
  /\ UNCHANGED <<launchvars, main, handle, holder>>
-----------------------------------------------------------------------------
(* accept() returns the lowest free descriptor.                            *)
Accept(s) ==
  /\ main = None /\ session[s] = "none"
  /\ \E f \in Free :
       /\ \A g \in Free : f <= g
       /\ handle' = [handle EXCEPT ![s] = f]
       /\ holder' = [holder EXCEPT ![f] = s]
  /\ session' = [session EXCEPT ![s] = "accepted"]
  /\ main' = s
  /\ UNCHANGED launchvars

(* accept() fails, for one when there is no descriptor left: the exception *)
(* takes main to its return, which ends every session's thread.            *)
AcceptFails ==
  /\ main = None
  /\ process' = "exited"
  /\ UNCHANGED <<launch, functor, thread, servervars>>

(* launch_thread(std::bind(handle_client, handle))                         *)
Launch(s) ==
  /\ main = s
  /\ Copy(s) \/ \E err \in {0} \cup Errors : Create(s, err)
  /\ UNCHANGED servervars

Launched(s) ==
  /\ main = s
  /\ Detach(s) \/ DetachGarbage(s)
  /\ main' = None
  /\ UNCHANGED <<session, handle, holder>>

(* net::tcp_socket session_socket(handle)                                  *)
Open(s) ==
  /\ Begin(s)
  /\ session' = [session EXCEPT ![s] = "send"]
  /\ UNCHANGED <<main, handle, holder>>

(* send(): the greeting is on its way, or the client is gone and           *)
(* handle_client returns.                                                  *)
Greet(s) ==
  /\ session[s] = "send"
  /\ \E p \in {"disconnect", "close"} : session' = [session EXCEPT ![s] = p]
  /\ UNCHANGED <<launchvars, main, handle, holder>>

(* disconnect() dissolves the connection and keeps the descriptor.         *)
Disconnect(s) ==
  /\ session[s] = "disconnect"
  /\ session' = [session EXCEPT ![s] = "close"]
  /\ UNCHANGED <<launchvars, main, handle, holder>>

(* No one catches what send() or disconnect() throw in a session, and      *)
(* SIGPIPE is not ignored: the process is gone.                            *)
SessionFails(s) ==
  /\ session[s] \in {"send", "disconnect"}
  /\ process' = "terminated"
  /\ UNCHANGED <<launch, functor, thread, servervars>>

(* ~base_socket closes whatever connection the number stands for.          *)
Close(s) ==
  /\ session[s] = "close"
  /\ session' = [session EXCEPT ![s] = "closed"]
  /\ holder' = [holder EXCEPT ![handle[s]] = None]
  /\ UNCHANGED <<launchvars, main, handle>>

End(s) ==
  /\ session[s] = "closed"
  /\ Finish(s)
  /\ UNCHANGED servervars

MainLaunch(s) == Launch(s) \/ Launched(s)
SessionStep(s) ==
  Open(s) \/ Greet(s) \/ Disconnect(s) \/ SessionFails(s) \/ Close(s) \/ End(s)

Next ==
  /\ process = "running"
  /\ \/ AcceptFails
     \/ \E s \in Sessions : Accept(s) \/ MainLaunch(s) \/ SessionStep(s)

Spec == Init /\ [][Next]_vars
-----------------------------------------------------------------------------
(* Every variable of the server has its type.                              *)
ServerTypeOK ==
  /\ LaunchTypeOK
  /\ main \in Sessions \cup {None}
  /\ session \in [Sessions -> {"none", "accepted", "send", "disconnect", "close", "closed"}]
  /\ handle \in [Sessions -> Fds \cup {None}]
  /\ holder \in [Fds -> Sessions \cup {None}]

(* From accept to close the number a session has stands for the session's  *)
(* own connection: no session talks to, or closes, the client of another,  *)
(* although numbers are used again.                                        *)
OwnConnection ==
  \A s \in Sessions :
    session[s] \notin {"none", "closed"} => handle[s] \in Fds /\ holder[handle[s]] = s

(* A descriptor that is in use has a session that will close it, unless    *)
(* pthread_create failed for that session.                                 *)
DescriptorsAccounted ==
  \A f \in Fds : holder[f] # None =>
    LET s == holder[f]
    IN  handle[s] = f /\ session[s] # "closed"
        /\ (thread[s] \in {"ready", "running"} \/ main = s \/ functor[s] = "launcher")
=============================================================================
