--------------------------- MODULE MCUnixDatagram ---------------------------
(* Bounds for model checking UnixDatagram: two servers, which share a     *)
(* path, and two clients; any of them may be killed.                       *)
EXTENDS UnixDatagram

CONSTANTS s1, s2, c1, c2, sp, p1, p2,
          MaxRefusals  (* bound: calls that fail for an outside reason    *)

MCPathOf == [p \in Sockets |-> CASE p \in Servers -> sp [] p = c1 -> p1 [] p = c2 -> p2]

(* Every process that was started is over, or waits: a server for clients, *)
(* a client for a server that will never answer.                           *)
Terminated ==
  /\ \A p \in Sockets : ~Live(p) \/ at[p] \in {"receive", "wait"}
  /\ UNCHANGED vars

Bounded == Cardinality(refused') <= MaxRefusals
MCSpec == Init /\ [][(Next /\ Bounded) \/ Terminated]_vars

(* The kernel runs every process that can run.  None has to be started,    *)
(* none has to be killed, and no call has to be refused.                   *)
FairSpec ==
  /\ MCSpec
  /\ \A s \in Servers : WF_vars(ServerStep(s) /\ UNCHANGED refused)
  /\ \A c \in Clients : WF_vars(ClientStep(c) /\ UNCHANGED refused)

(* The question of a client is at a server that is over.                   *)
Stranded(c) ==
  \E s \in Servers : ~Live(s) /\ (peer[s] = c \/ \E i \in DOMAIN inbox[s] : inbox[s][i] = c)

(* A client comes to an end, unless the server it asked ends before it     *)
(* answers: receive() has no timeout.                                      *)
ClientsReturn ==
  \A c \in Clients : at[c] = "unlink" ~> ~Live(c) \/ Stranded(c)
=============================================================================
