----------------------- MODULE ThreadedServerProofs -----------------------
(***************************************************************************)
(* Proofs about ThreadedServer, for any number of connections and any      *)
(* descriptors: a session's number is its own from accept to close, a      *)
(* functor has one owner, a descriptor in use has a session to close it.   *)
(***************************************************************************)
EXTENDS ThreadedServer, TLAPS

(* How far accept, launch_thread and handle_client are with a session.     *)
Stages ==
  \A s \in Sessions :
    /\ session[s] = "none" => launch[s] = "idle" /\ main # s
    /\ launch[s] = "idle" => functor[s] = "none"
    /\ session[s] # "none" /\ launch[s] # "detached" => main = s
    /\ launch[s] \in {"idle", "copied"} => thread[s] = "none"
    /\ launch[s] # "idle" /\ thread[s] = "none" => functor[s] = "launcher"
    /\ thread[s] = "none" => session[s] \in {"none", "accepted"}
    /\ thread[s] = "ready" => session[s] = "accepted"
    /\ thread[s] = "running" => session[s] \notin {"none", "accepted"}
    /\ thread[s] = "ended" => session[s] = "closed"

(* The inductive invariant: the three properties hold one another up       *)
(* through the stage a session is at.                                      *)
Inv == ServerTypeOK /\ FunctorOwned /\ OwnConnection /\ DescriptorsAccounted /\ Stages

(* An error number is not -1, so line 17 of launch_thread.cpp never finds  *)
(* that pthread_create has failed.                                         *)
LEMMA NeverNoticed == \A err \in {0} \cup Errors : ~CreateFailed(err)
  BY ErrorsAssumption DEF CreateFailed

(* The server starts with no session and every descriptor free.            *)
LEMMA InvInit == Init => Inv
  BY NoneAssumption
  DEF Init, LaunchInit, Inv, ServerTypeOK, LaunchTypeOK, FunctorOwned, OwnConnection,
      DescriptorsAccounted, Stages, Sessions

(* main's steps: accept and launch_thread.                                 *)
LEMMA InvMain ==
  ASSUME Inv, process = "running", NEW s \in Sessions, Accept(s) \/ MainLaunch(s)
  PROVE  Inv'
<1> USE NoneAssumption DEF Inv, ServerTypeOK, LaunchTypeOK, Sessions
<1>1. CASE Accept(s)
  <2> USE <1>1 DEF Accept, launchvars, Free
  <2>1. ServerTypeOK'
    OBVIOUS
  <2>2. FunctorOwned'
    BY DEF FunctorOwned
  <2>3. OwnConnection'
    BY DEF OwnConnection
  <2>4. DescriptorsAccounted'
    BY DEF DescriptorsAccounted, OwnConnection, Stages
  <2>5. Stages'
    BY DEF Stages
  <2> QED
    BY <2>1, <2>2, <2>3, <2>4, <2>5
<1>2. CASE main = s /\ Copy(s) /\ UNCHANGED servervars
  <2> USE <1>2 DEF Copy, servervars
  <2>1. ServerTypeOK'
    OBVIOUS
  <2>2. FunctorOwned'
    BY DEF FunctorOwned, Stages
  <2>3. OwnConnection'
    BY DEF OwnConnection
  <2>4. DescriptorsAccounted'
    BY DEF DescriptorsAccounted
  <2>5. Stages'
    BY DEF Stages
  <2> QED
    BY <2>1, <2>2, <2>3, <2>4, <2>5
<1>3. ASSUME NEW err \in {0} \cup Errors, main = s, Create(s, err), UNCHANGED servervars
      PROVE  Inv'
  <2>0. ~CreateFailed(err)
    BY NeverNoticed, <1>3
  <2> USE <1>3, <2>0 DEF Create, servervars
  <2>1. ServerTypeOK'
    OBVIOUS
  <2>2. FunctorOwned'
    BY DEF FunctorOwned, Stages
  <2>3. OwnConnection'
    BY DEF OwnConnection
  <2>4. DescriptorsAccounted'
    BY DEF DescriptorsAccounted
  <2>5. Stages'
    BY DEF Stages
  <2> QED
    BY <2>1, <2>2, <2>3, <2>4, <2>5
<1>4. CASE Launched(s)
  <2> USE <1>4 DEF Launched, Detach, DetachGarbage
  <2>1. ServerTypeOK'
    OBVIOUS
  <2>2. FunctorOwned'
    BY DEF FunctorOwned
  <2>3. OwnConnection'
    BY DEF OwnConnection
  <2>4. DescriptorsAccounted'
    BY DEF DescriptorsAccounted, Stages
  <2>5. Stages'
    BY DEF Stages
  <2> QED
    BY <2>1, <2>2, <2>3, <2>4, <2>5
<1> QED
  BY <1>1, <1>2, <1>3, <1>4 DEF MainLaunch, Launch

(* The steps of a session's thread.                                        *)
LEMMA InvSession ==
  ASSUME Inv, process = "running", NEW s \in Sessions, SessionStep(s)
  PROVE  Inv'
<1> USE NoneAssumption DEF Inv, ServerTypeOK, LaunchTypeOK, Sessions
<1>1. CASE Open(s)
  <2> USE <1>1 DEF Open, Begin
  <2>1. ServerTypeOK'
    OBVIOUS
  <2>2. FunctorOwned'
    BY DEF FunctorOwned
  <2>3. OwnConnection'
    BY DEF OwnConnection, Stages
  <2>4. DescriptorsAccounted'
    BY DEF DescriptorsAccounted
  <2>5. Stages'
    BY DEF Stages
  <2> QED
    BY <2>1, <2>2, <2>3, <2>4, <2>5
<1>2. CASE Greet(s) \/ Disconnect(s)
  <2> USE <1>2 DEF Greet, Disconnect, launchvars
  <2>1. ServerTypeOK'
    OBVIOUS
  <2>2. FunctorOwned'
    BY DEF FunctorOwned
  <2>3. OwnConnection'
    BY DEF OwnConnection
  <2>4. DescriptorsAccounted'
    BY DEF DescriptorsAccounted
  <2>5. Stages'
    BY DEF Stages
  <2> QED
    BY <2>1, <2>2, <2>3, <2>4, <2>5
<1>3. CASE SessionFails(s)
  BY <1>3 DEF SessionFails, servervars, FunctorOwned, OwnConnection, DescriptorsAccounted, Stages
<1>4. CASE Close(s)
  <2> USE <1>4 DEF Close, launchvars
  <2>1. ServerTypeOK'
    OBVIOUS
  <2>2. FunctorOwned'
    BY DEF FunctorOwned
  <2>3. OwnConnection'
    BY DEF OwnConnection
  <2>4. DescriptorsAccounted'
    BY DEF DescriptorsAccounted, OwnConnection
  <2>5. Stages'
    BY DEF Stages
  <2> QED
    BY <2>1, <2>2, <2>3, <2>4, <2>5
<1>5. CASE End(s)
  <2> USE <1>5 DEF End, Finish, servervars
  <2>1. ServerTypeOK'
    OBVIOUS
  <2>2. FunctorOwned'
    BY DEF FunctorOwned
  <2>3. OwnConnection'
    BY DEF OwnConnection
  <2>4. DescriptorsAccounted'
    BY DEF DescriptorsAccounted
  <2>5. Stages'
    BY DEF Stages
  <2> QED
    BY <2>1, <2>2, <2>3, <2>4, <2>5
<1> QED
  BY <1>1, <1>2, <1>3, <1>4, <1>5 DEF SessionStep

(* Every behaviour of the server keeps the invariant.                      *)
THEOREM ServerInvariance == Spec => []Inv
<1>1. Init => Inv
  BY InvInit
<1>2. Inv /\ [Next]_vars => Inv'
  <2> SUFFICES ASSUME Inv, [Next]_vars PROVE Inv'
    OBVIOUS
  <2>1. CASE UNCHANGED vars
    BY <2>1 DEF vars, launchvars, servervars, Inv, ServerTypeOK, LaunchTypeOK, FunctorOwned,
                OwnConnection, DescriptorsAccounted, Stages, Sessions
  <2>2. CASE process = "running" /\ AcceptFails
    BY <2>2 DEF AcceptFails, servervars, Inv, ServerTypeOK, LaunchTypeOK, FunctorOwned,
                OwnConnection, DescriptorsAccounted, Stages, Sessions
  <2> QED
    BY <2>1, <2>2, InvMain, InvSession DEF Next
<1> QED
  BY <1>1, <1>2, PTL DEF Spec

(* The server's variables have their types.                                *)
THEOREM ServerTypeCorrect == Spec => []ServerTypeOK
  BY ServerInvariance, PTL DEF Inv

(* launch_thread: a thread's functor is its own while it runs, and deleted *)
(* when it has ended.                                                      *)
THEOREM ServerFunctorOwned == Spec => []FunctorOwned
  BY ServerInvariance, PTL DEF Inv

(* handle_client: no session uses or closes the connection of another.     *)
THEOREM ServerOwnConnection == Spec => []OwnConnection
  BY ServerInvariance, PTL DEF Inv

(* A descriptor that is in use has a session that will close it, or its    *)
(* thread was never started.                                               *)
THEOREM ServerDescriptorsAccounted == Spec => []DescriptorsAccounted
  BY ServerInvariance, PTL DEF Inv
=============================================================================
