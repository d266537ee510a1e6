----------------------------- MODULE UnixSocket -----------------------------
(***************************************************************************)
(* net::unix_socket and net::unix_datagram_socket of day3/socknet/net: the *)
(* sockets, the directory entries bind() makes for them, and the datagrams *)
(* that wait at them.  A directory entry outlives its socket: the class    *)
(* removes it before it binds and again in its destructor.                 *)
(* Paths are as long as PathLength: none is too long for sun_path, so      *)
(* fillAddress never throws for the two programs.                          *)
(***************************************************************************)
EXTENDS Integers, Sequences

CONSTANTS Sockets, Paths,
          Nothing,     (* no directory entry                               *)
          Gone,        (* the socket of a process before these: closed     *)
          NoName,      (* the name of a socket that was never bound        *)
          Limit,       (* datagrams a socket holds before senders wait     *)
          PathLength,  (* characters in a path                             *)
          SizeBits,    (* the width of size_t                              *)
          MaxSize      (* std::string::max_size()                          *)

ASSUME SocketAssumption == Nothing \notin Sockets \cup {Gone} /\ Gone \notin Sockets
ASSUME NameAssumption == NoName \notin Paths
ASSUME LimitAssumption == Limit \in Nat \ {0}

SizeRange == 2 ^ SizeBits
ASSUME WidthAssumption ==
  /\ PathLength \in Nat \ {0} /\ MaxSize \in Nat /\ SizeRange \in Nat
  /\ PathLength <= MaxSize /\ MaxSize < SizeRange

VARIABLES socket,      (* per socket: "none", "open" or "closed"           *)
          name,        (* per socket: the path it was bound to             *)
          entry,       (* per path: the socket its directory entry is for  *)
          inbox        (* per socket: the senders of its datagrams         *)

socketvars == <<socket, name, entry, inbox>>

SocketInit ==
  /\ socket = [s \in Sockets |-> "none"]
  /\ name = [s \in Sockets |-> NoName]
  /\ entry \in [Paths -> {Nothing, Gone}]
  /\ inbox = [s \in Sockets |-> <<>>]

(* The address length the kernel stores: the family, the path and its      *)
(* null character, or what the call stores when the peer has no name.      *)
FamilySize == 2
AddressLength(n, unnamed) ==
  IF n = NoName THEN unnamed ELSE FamilySize + PathLength + 1

(* extractPath: len - sizeof(sa_family_t) - 1 in size_t, and a string of   *)
(* that length, which std::string refuses above its max_size.              *)
PathChars(len) == (len - FamilySize - 1) % SizeRange
ExtractPath(len) == PathChars(len) <= MaxSize
LocalPathExtracts(s) == ExtractPath(AddressLength(name[s], FamilySize))
SourcePathExtracts(s) == ExtractPath(AddressLength(name[Head(inbox[s])], 0))
-----------------------------------------------------------------------------
(* base_socket's constructor                                               *)
CreateSocket(s) ==
  /\ socket[s] = "none"
  /\ socket' = [socket EXCEPT ![s] = "open"]
  /\ UNCHANGED <<name, entry, inbox>>

(* ::unlink, whoever's entry it is, when it succeeds.  It may fail and     *)
(* leave the entry (a sticky directory, another user's file, a read-only   *)
(* file system); the class never looks at the result.                      *)
Unlink(p) ==
  /\ entry' = [entry EXCEPT ![p] = Nothing]
  /\ UNCHANGED <<socket, name, inbox>>

(* ::bind, when it succeeds: there is no entry.                            *)
BindName(s, p) ==
  /\ entry[p] = Nothing
  /\ entry' = [entry EXCEPT ![p] = s]
  /\ name' = [name EXCEPT ![s] = p]
  /\ UNCHANGED <<socket, inbox>>

(* A path leads to a socket while it has an entry and the socket is open;  *)
(* otherwise ::sendto fails with ENOENT or ECONNREFUSED.                   *)
Leads(p) == entry[p] \in Sockets /\ socket[entry[p]] = "open"

(* sendTo: a datagram is delivered at once, or waits for room.             *)
SendTo(s, p) ==
  /\ Leads(p) /\ Len(inbox[entry[p]]) < Limit
  /\ inbox' = [inbox EXCEPT ![entry[p]] = Append(@, s)]
  /\ UNCHANGED <<socket, name, entry>>

(* recvfrom, which waits for a datagram.                                   *)
ReceiveFrom(s) ==
  /\ socket[s] = "open" /\ inbox[s] # <<>>
  /\ inbox' = [inbox EXCEPT ![s] = Tail(@)]
  /\ UNCHANGED <<socket, name, entry>>

(* ::close, by base_socket's destructor or by the kernel for a process     *)
(* that is gone.  What waits at the socket is lost; the entry stays.       *)
CloseSocket(s) ==
  /\ socket[s] = "open"
  /\ socket' = [socket EXCEPT ![s] = "closed"]
  /\ UNCHANGED <<name, entry, inbox>>
=============================================================================
