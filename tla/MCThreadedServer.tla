-------------------------- MODULE MCThreadedServer --------------------------
(* Bounds for model checking ThreadedServer: the connections that arrive   *)
(* and the descriptors the process may open are fixed by the .cfg.         *)
EXTENDS ThreadedServer, TLC

(* EAGAIN, the failure of pthread_create that depends on the load alone.   *)
MCErrors == {11}

(* No more clients come, or the process is gone.                           *)
Terminated ==
  /\ process # "running" \/ (main = None /\ \A s \in Sessions :
                               session[s] # "none" /\ thread[s] \in {"none", "ended"})
  /\ UNCHANGED vars

MCNext == Next \/ Terminated
MCSpec == Init /\ [][MCNext]_vars

(* main gets on with a launch, and each session's thread with its session: *)
(* the greeting fits the socket's buffer, so send() does not block.  No    *)
(* client has to come.                                                     *)
Running(A) == process = "running" /\ A
FairSpec ==
  /\ MCSpec
  /\ WF_vars(Running(\E s \in Sessions : MainLaunch(s)))
  /\ \A s \in Sessions : WF_vars(Running(SessionStep(s)))

(* Each connection that gets a thread is closed, and the thread leaves     *)
(* nothing behind: it ends, and detached, whichever comes first.           *)
SessionsEnd ==
  \A s \in Sessions :
    session[s] = "accepted" ~>
      \/ process # "running"
      \/ thread[s] = "ended" /\ launch[s] = "detached" /\ \A f \in Fds : holder[f] # s
      \/ thread[s] = "none" /\ main # s

Symmetry == Permutations(Sessions)
=============================================================================
