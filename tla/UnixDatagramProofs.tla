------------------------- MODULE UnixDatagramProofs -------------------------
(***************************************************************************)
(* UnixDatagram proved for any number of servers and clients: no path is   *)
(* left behind, a new server can be reached whatever was left at the path, *)
(* lengths do not wrap around where they are used, and a server leaves its *)
(* loop only when the client it owes an answer is gone, each up to the     *)
(* calls the system refused.                                               *)
(***************************************************************************)
EXTENDS UnixDatagram, SequenceTheorems, TLAPS

Points == {"start", "unlink", "bind", "receive", "reply", "send", "wait", "unwind", "close",
           "returned", "terminated", "killed"}

DatagramTypeOK ==
  /\ socket \in [Sockets -> {"none", "open", "closed"}]
  /\ name \in [Sockets -> Paths \cup {NoName}]
  /\ entry \in [Paths -> Sockets \cup {Nothing, Gone}]
  /\ inbox \in [Sockets -> Seq(Sockets)]
  /\ at \in [Sockets -> Points]
  /\ peer \in [Servers -> Sockets \cup {NoName}]
  /\ overlapped \in BOOLEAN
  /\ refused \subseteq Sockets \X Points

(* Where a process is in main tells about its socket and its name.         *)
Stage(p) ==
  /\ Live(p) => socket[p] = "open"
  /\ name[p] \in {NoName, PathOf[p]}
  /\ at[p] \in {"start", "unlink", "bind"} => name[p] = NoName
  /\ at[p] \in {"receive", "reply", "send", "wait"} => name[p] = PathOf[p]
  /\ p \in Servers => at[p] \notin {"send", "wait"}
  /\ p \in Clients => at[p] \notin {"receive", "reply"}
  /\ Refused(p, "wait") => at[p] \in {"unwind", "close", "returned", "terminated", "killed"}

Stages == \A p \in Sockets : Stage(p)

(* Entries are of the path's own processes, which have not removed them,   *)
(* or could not.                                                           *)
Present == {"receive", "reply", "send", "wait", "unwind", "killed"}
Keeps(p) == at[p] \in Present \/ (at[p] \in {"close", "returned"} /\ Refused(p, "unwind"))

Entries ==
  \A p \in Paths : entry[p] \in Sockets =>
    /\ name[entry[p]] = p
    /\ Keeps(entry[p])

(* A client has its path for itself.                                       *)
ClientPaths ==
  \A c \in Clients :
    /\ at[c] = "bind" /\ ~Refused(c, "unlink") => entry[PathOf[c]] = Nothing
    /\ at[c] \in {"send", "wait"} => entry[PathOf[c]] = c

(* Who has written has a name; servers hear of clients, clients of servers.*)
Senders ==
  /\ \A p \in Sockets : \A i \in 1 .. Len(inbox[p]) :
       /\ name[inbox[p][i]] # NoName
       /\ inbox[p][i] \in Servers <=> p \in Clients
  /\ \A s \in Servers : at[s] = "reply" => peer[s] \in Clients /\ name[peer[s]] # NoName

(* A bind was refused, or the unlink before it.                            *)
Unbindable(p) == Refused(p, "unlink") \/ Refused(p, "bind")

(* One server at a time has the path, until two run at once.               *)
OneServer ==
  ~overlapped =>
    /\ \A s, t \in Servers : Live(s) /\ Live(t) => s = t
    /\ \A p \in Sockets : at[p] = "unwind" => name[p] # NoName \/ Unbindable(p)

(* A client whose question waits at a server, or is being answered, waits  *)
(* for the answer with an empty inbox, or is gone; and its question is in  *)
(* one place.                                                              *)
Over(c) == at[c] = "killed" \/ Refused(c, "wait")
Owed(c) == (at[c] = "wait" /\ inbox[c] = <<>>) \/ Over(c)

Outstanding ==
  /\ \A s \in Servers : \A i \in 1 .. Len(inbox[s]) : Owed(inbox[s][i])
  /\ \A s \in Servers : at[s] = "reply" => Owed(peer[s])
  /\ \A c \in Clients : at[c] \in {"start", "unlink", "bind", "send"} => inbox[c] = <<>>
  /\ \A s, t \in Servers : \A i \in 1 .. Len(inbox[s]), j \in 1 .. Len(inbox[t]) :
       inbox[s][i] = inbox[t][j] => s = t /\ i = j
  /\ \A s, t \in Servers : \A i \in 1 .. Len(inbox[s]) : at[t] = "reply" => inbox[s][i] # peer[t]
  /\ \A s, t \in Servers : at[s] = "reply" /\ at[t] = "reply" /\ peer[s] = peer[t] => s = t

(* The same of a client after a step.                                      *)
StillOwed(c) ==
  \/ at'[c] = "wait" /\ inbox'[c] = <<>>
  \/ at'[c] = "killed" \/ <<c, "wait">> \in refused'

(* ServerOutlivesClients, of one server.                                   *)
Outlives(s) ==
  /\ at[s] \in {"unwind", "close", "returned"} /\ name[s] # NoName
  /\ ~Refused(s, "receive") /\ ~Refused(s, "reply")
  => peer[s] \in Clients /\ Over(peer[s])

DatagramInv ==
  /\ DatagramTypeOK
  /\ Stages /\ Entries /\ ClientPaths /\ Senders
  /\ OneServer /\ Reachable
  /\ Outstanding /\ ServerOutlivesClients
-----------------------------------------------------------------------------
LEMMA PathFacts ==
  /\ ServerPath \in Paths
  /\ \A s \in Servers : PathOf[s] = ServerPath
  /\ \A p \in Sockets : PathOf[p] \in Paths /\ PathOf[p] # NoName
  /\ \A c \in Clients : \A p \in Sockets : PathOf[c] = PathOf[p] => p = c
  /\ \A c \in Clients : PathOf[c] # ServerPath
  <1>1. PICK s \in Servers : TRUE
    BY ProcessAssumption
  <1>2. (CHOOSE r \in Servers : TRUE) \in Servers
    BY <1>1
  <1> QED
    BY <1>1, <1>2, ProcessAssumption, PathAssumption, NameAssumption DEF ServerPath

(* An entry is of a process whose path it is.                              *)
LEMMA EntryOwner ==
  ASSUME DatagramTypeOK, Stages, Entries
  PROVE  /\ \A p \in Paths : entry[p] \in Sockets => p = PathOf[entry[p]]
         /\ \A c \in Clients : entry[PathOf[c]] \in Sockets => entry[PathOf[c]] = c
         /\ entry[ServerPath] \in Sockets => entry[ServerPath] \in Servers
  <1>1. ASSUME NEW p \in Paths, entry[p] \in Sockets
        PROVE  p = PathOf[entry[p]]
    BY <1>1, NameAssumption DEF Stages, Stage, Entries
  <1> QED
    BY <1>1, PathFacts, ProcessAssumption

(* A path of PathLength characters, and what bind() left of it, extracts.  *)
LEMMA NamedExtracts ==
  \A p \in Sockets : name[p] # NoName => LocalPathExtracts(p)
  <1>1. (FamilySize + PathLength + 1) - FamilySize - 1 = PathLength
    BY WidthAssumption DEF FamilySize
  <1>2. PathLength % SizeRange = PathLength
    BY WidthAssumption
  <1> QED
    BY <1>1, <1>2, WidthAssumption DEF LocalPathExtracts, ExtractPath, PathChars, AddressLength

LEMMA InitInv == Init => DatagramInv
  <1> SUFFICES ASSUME Init PROVE DatagramInv
    OBVIOUS
  <1> USE ProcessAssumption, SocketAssumption DEF Init, SocketInit
  <1>1. DatagramTypeOK
    BY EmptySeq DEF DatagramTypeOK, Points
  <1>2. \A p \in Sockets : Len(inbox[p]) = 0
    OBVIOUS
  <1>3. Stages /\ Entries /\ ClientPaths
    BY DEF Stages, Stage, Entries, ClientPaths, Live, Keeps, Present, Refused
  <1>4. Senders /\ OneServer /\ Reachable
    BY <1>2 DEF Senders, OneServer, Reachable, Live
  <1>5. Outstanding /\ ServerOutlivesClients
    BY <1>2 DEF Outstanding, ServerOutlivesClients, Owed
  <1> QED
    BY <1>1, <1>3, <1>4, <1>5 DEF DatagramInv
-----------------------------------------------------------------------------
(* The steps of a process p, by what they leave as it was.                 *)
Others(p) ==
  /\ \A r \in Sockets \ {p} : UNCHANGED <<at[r], name[r], socket[r]>>
  /\ refused' = refused \/ refused' = refused \cup {<<p, at[p]>>}

(* What the others were refused stays as it was, and p was refused what it *)
(* was refused.                                                            *)
LEMMA RefusedKept ==
  ASSUME NEW p \in Sockets, Others(p)
  PROVE  /\ \A r \in Sockets \ {p}, point \in Points : Refused(r, point)' <=> Refused(r, point)
         /\ \A r \in Sockets, point \in Points : Refused(r, point) => Refused(r, point)'
         /\ \A point \in Points : Refused(p, point)' /\ ~Refused(p, point) => at[p] = point
         /\ DatagramTypeOK => refused' \subseteq Sockets \X Points
  BY DEF Others, Refused, DatagramTypeOK

LEMMA StagesKept ==
  ASSUME Stages, NEW p \in Sockets, Others(p), Stage(p)'
  PROVE  Stages'
  <1>1. ASSUME NEW r \in Sockets \ {p} PROVE Stage(r)'
    <2>1. Refused(r, "wait")' <=> Refused(r, "wait")
      BY RefusedKept DEF Points
    <2> QED
      BY <2>1 DEF Stages, Stage, Live, Others
  <1> QED
    BY <1>1 DEF Stages

(* An entry that p keeps, or somebody else.                                *)
LEMMA KeepsKept ==
  ASSUME NEW p \in Sockets, Others(p)
  PROVE  \A r \in Sockets \ {p} : Keeps(r) => Keeps(r)'
  BY RefusedKept DEF Others, Keeps, Points

(* The directory stays.                                                    *)
LEMMA DirectoryKept ==
  ASSUME DatagramInv, NEW p \in Sockets, Others(p),
         UNCHANGED <<name, entry, overlapped>>,
         Keeps(p) /\ ~Keeps(p)' => \A path \in Paths : entry[path] # p,
         at'[p] # "bind",
         at'[p] \in {"send", "wait"} => at[p] \in {"send", "wait"},
         at'[p] \in {"receive", "reply"} => at[p] \in {"receive", "reply"}
  PROVE  Entries' /\ ClientPaths' /\ Reachable'
  <1> USE ProcessAssumption DEF DatagramInv, Others
  <1>1. Entries'
    <2> SUFFICES ASSUME NEW q \in Paths, NEW r \in Sockets, entry[q] = r
                 PROVE  name[r] = q /\ Keeps(r)'
      BY DEF Entries, Keeps, Refused
    <2> QED
      BY KeepsKept DEF Entries
  <1>2. \A r \in Sockets : Refused(r, "unlink") => Refused(r, "unlink")'
    BY RefusedKept DEF Points
  <1>3. ClientPaths'
    BY <1>2 DEF ClientPaths
  <1>4. Reachable'
    BY <1>2 DEF Reachable
  <1> QED
    BY <1>1, <1>3, <1>4

(* No server begins; if one gives up, it has a reason.                     *)
LEMMA ServersKept ==
  ASSUME DatagramInv, NEW p \in Sockets, Others(p), overlapped' = overlapped,
         at[p] # "killed", Live(p)' => Live(p),
         at'[p] = "unwind" /\ ~overlapped => name'[p] # NoName \/ Unbindable(p)',
         \A s \in Servers \ {p} : peer'[s] = peer[s],
         p \in Servers => Outlives(p)'
  PROVE  OneServer' /\ ServerOutlivesClients'
  <1> USE ProcessAssumption DEF DatagramInv, Others
  <1>1. OneServer'
    <2>1. \A r \in Sockets : Unbindable(r) => Unbindable(r)'
      BY RefusedKept DEF Unbindable, Points
    <2> QED
      BY <2>1 DEF OneServer, Live
  <1>2. ASSUME NEW s \in Servers \ {p} PROVE Outlives(s)'
    <2>1. /\ Refused(s, "receive")' <=> Refused(s, "receive")
          /\ Refused(s, "reply")' <=> Refused(s, "reply")
      BY RefusedKept DEF Points
    <2>2. ASSUME peer[s] \in Clients, Over(peer[s]) PROVE Over(peer[s])'
      <3>1. PICK c \in Clients : c = peer[s]
        BY <2>2
      <3>2. Over(c)'
        BY <2>2, <3>1, RefusedKept DEF Over, Points
      <3> QED
        BY <3>1, <3>2
    <2>3. Outlives(s)
      BY DEF ServerOutlivesClients, Outlives, Over
    <2> QED
      BY <2>1, <2>2, <2>3 DEF Outlives
  <1>3. ServerOutlivesClients'
    BY <1>2 DEF ServerOutlivesClients, Outlives, Over
  <1> QED
    BY <1>1, <1>3

(* A server that goes on as it was, or does not leave its loop.            *)
LEMMA ReasonKept ==
  ASSUME DatagramInv, NEW p \in Sockets, Others(p), UNCHANGED <<name, peer>>,
         p \in Servers /\ at'[p] \in {"unwind", "close", "returned"} /\ name[p] # NoName
           => at[p] \in {"unwind", "close", "returned"}
  PROVE  p \in Servers => Outlives(p)'
  <1> SUFFICES ASSUME p \in Servers PROVE Outlives(p)'
    OBVIOUS
  <1> USE ProcessAssumption DEF DatagramInv, Others
  <1>1. /\ Refused(p, "receive") => Refused(p, "receive")'
        /\ Refused(p, "reply") => Refused(p, "reply")'
    BY RefusedKept DEF Points
  <1>2. Outlives(p)
    BY DEF ServerOutlivesClients, Outlives, Over
  <1>3. ASSUME peer[p] \in Clients, Over(peer[p]) PROVE peer'[p] \in Clients /\ Over(peer[p])'
    <2>1. PICK c \in Clients : c = peer[p]
      BY <1>3
    <2>2. Over(c)'
      BY <1>3, <2>1, RefusedKept DEF Over, Points
    <2> QED
      BY <2>1, <2>2
  <1> QED
    BY <1>1, <1>2, <1>3 DEF Outlives

(* The senders of what waits at a server are clients.                      *)
LEMMA AskersAreClients ==
  ASSUME DatagramInv
  PROVE  \A s \in Servers : \A i \in 1 .. Len(inbox[s]) : inbox[s][i] \in Clients
  BY ProcessAssumption, ElementOfSeq DEF DatagramInv, DatagramTypeOK, Senders

(* Who is gone stays gone.                                                 *)
LEMMA OwedKept ==
  ASSUME NEW p \in Sockets, Others(p), at[p] # "killed"
  PROVE  /\ \A c \in Clients : Over(c) => StillOwed(c)
         /\ \A c \in Clients \ {p} : Owed(c) /\ inbox'[c] = inbox[c] => StillOwed(c)
  BY ProcessAssumption, RefusedKept DEF Others, Owed, Over, StillOwed, Refused, Points

(* No datagram moves.                                                      *)
LEMMA MailKept ==
  ASSUME DatagramInv, NEW p \in Sockets, Others(p), UNCHANGED <<inbox, peer>>,
         name'[p] = NoName => name[p] = NoName,
         at[p] # "killed", at'[p] # "reply",
         at[p] = "wait" => at'[p] = "killed" \/ Refused(p, "wait")',
         at'[p] \in {"start", "unlink", "bind", "send"} => at[p] \in {"start", "unlink", "bind", "send"}
  PROVE  Senders' /\ Outstanding'
  <1> USE ProcessAssumption DEF DatagramInv, Others
  <1>1. \A r \in Sockets : name[r] # NoName => name'[r] # NoName
    OBVIOUS
  <1>2. \A r \in Sockets : \A i \in 1 .. Len(inbox[r]) : inbox[r][i] \in Sockets
    BY ElementOfSeq DEF DatagramTypeOK
  <1>3. Senders'
    BY <1>1, <1>2 DEF Senders
  <1>4. Outstanding'
    <2>1. \A c \in Clients : Owed(c) => StillOwed(c)
      BY OwedKept DEF Owed, Over, StillOwed, Refused
    <2>2. \A s \in Servers : at'[s] = "reply" => at[s] = "reply"
      OBVIOUS
    <2>3. \A s \in Servers : \A i \in 1 .. Len(inbox[s]) : StillOwed(inbox[s][i])
      BY <2>1, AskersAreClients DEF Outstanding
    <2>4. \A s \in Servers : at[s] = "reply" => StillOwed(peer[s])
      BY <2>1 DEF Outstanding, Senders
    <2>5. \A s \in Servers : \A i \in 1 .. Len(inbox[s]) : Owed(inbox[s][i])'
      BY <2>3 DEF Owed, Over, StillOwed, Refused
    <2>6. \A s \in Servers : at'[s] = "reply" => Owed(peer[s])'
      BY <2>2, <2>4 DEF Owed, Over, StillOwed, Refused
    <2> QED
      BY <2>2, <2>5, <2>6 DEF Outstanding
  <1> QED
    BY <1>3, <1>4
-----------------------------------------------------------------------------
(* The steps that change neither the directory nor the mail.               *)
LEMMA CreateFailsInv ==
  ASSUME DatagramInv, NEW p \in Sockets, CreateFails(p)
  PROVE  DatagramInv'
  <1>1. /\ at[p] = "start" /\ at'[p] = "returned" /\ at' \in [Sockets -> Points]
        /\ Others(p) /\ UNCHANGED <<socketvars, peer, overlapped, refused>>
    BY DEF CreateFails, Goto, DatagramInv, DatagramTypeOK, Points, Others, socketvars, history
  <1>2. DatagramTypeOK'
    BY <1>1 DEF DatagramInv, DatagramTypeOK, socketvars
  <1>3. Stage(p) /\ Stage(p)'
    BY <1>1 DEF DatagramInv, Stages, Stage, Live, socketvars, Refused
  <1>4. Stages'
    BY <1>1, <1>3, StagesKept DEF DatagramInv
  <1>5. ~Keeps(p)
    BY <1>1 DEF Keeps, Present
  <1>6. Entries' /\ ClientPaths' /\ Reachable'
    BY <1>1, <1>5, DirectoryKept DEF socketvars
  <1>7. p \in Servers => Outlives(p)'
    BY <1>1, <1>3, ReasonKept DEF Stage, socketvars
  <1>8. OneServer' /\ ServerOutlivesClients'
    BY <1>1, <1>7, ServersKept DEF Live, socketvars
  <1>9. Senders' /\ Outstanding'
    BY <1>1, MailKept DEF socketvars
  <1> QED
    BY <1>2, <1>4, <1>6, <1>8, <1>9 DEF DatagramInv

LEMMA KillInv ==
  ASSUME DatagramInv, NEW p \in Sockets, Kill(p)
  PROVE  DatagramInv'
  <1>1. /\ Live(p) /\ at'[p] = "killed" /\ at' \in [Sockets -> Points]
        /\ socket' \in [Sockets -> {"none", "open", "closed"}]
        /\ Others(p) /\ UNCHANGED <<name, entry, inbox, peer, overlapped, refused>>
    BY DEF Kill, CloseSocket, Goto, DatagramInv, DatagramTypeOK, Points, Others, history
  <1>2. DatagramTypeOK'
    BY <1>1 DEF DatagramInv, DatagramTypeOK
  <1>3. Stage(p) /\ Stage(p)'
    BY <1>1 DEF DatagramInv, Stages, Stage, Live, Refused
  <1>4. Stages'
    BY <1>1, <1>3, StagesKept DEF DatagramInv
  <1>5. Keeps(p)'
    BY <1>1 DEF Keeps, Present
  <1>6. Entries' /\ ClientPaths' /\ Reachable'
    BY <1>1, <1>5, DirectoryKept
  <1>7. p \in Servers => Outlives(p)'
    BY <1>1, ReasonKept
  <1>8. OneServer' /\ ServerOutlivesClients'
    BY <1>1, <1>7, ServersKept DEF Live
  <1>9. Senders' /\ Outstanding'
    BY <1>1, MailKept DEF Live
  <1> QED
    BY <1>2, <1>4, <1>6, <1>8, <1>9 DEF DatagramInv

(* A call throws: the process leaves main for a reason.                    *)
LEMMA ThrowsInv ==
  ASSUME DatagramInv, NEW p \in Sockets, NEW possible,
         NEW point \in {"bind", "receive", "reply", "send", "wait"}, Throws(p, point, possible),
         point = "bind" => possible \/ overlapped \/ Refused(p, "unlink"),
         point = "wait" => possible,
         p \in Servers /\ point # "bind" => Outlives(p)'
  PROVE  DatagramInv'
  <1>1. /\ at[p] = point /\ at'[p] = "unwind" /\ at' \in [Sockets -> Points]
        /\ Others(p) /\ UNCHANGED <<socketvars, peer, overlapped>>
    BY DEF Throws, Refuse, Goto, DatagramInv, DatagramTypeOK, Points, Others, socketvars
  <1>2. possible => Refused(p, point)'
    BY <1>1 DEF Throws, Refuse, Refused
  <1>3. DatagramTypeOK'
    BY <1>1, RefusedKept DEF DatagramInv, DatagramTypeOK, socketvars
  <1>4. Stage(p) /\ Stage(p)'
    BY <1>1 DEF DatagramInv, Stages, Stage, Live, socketvars
  <1>5. Stages'
    BY <1>1, <1>4, StagesKept DEF DatagramInv
  <1>6. Keeps(p)'
    BY <1>1 DEF Keeps, Present
  <1>7. Entries' /\ ClientPaths' /\ Reachable'
    BY <1>1, <1>6, DirectoryKept DEF socketvars
  <1>8. ~overlapped => name'[p] # NoName \/ Unbindable(p)'
    <2>1. CASE point = "bind"
      BY <1>2, <2>1, RefusedKept, <1>1 DEF Unbindable, Points
    <2>2. CASE point # "bind"
      BY <1>1, <1>4, <2>2, PathFacts DEF Stage, socketvars
    <2> QED
      BY <2>1, <2>2
  <1>9. p \in Servers => Outlives(p)'
    <2>1. CASE point = "bind"
      BY <1>1, <1>4, <2>1 DEF Outlives, Stage, socketvars
    <2> QED
      BY <2>1
  <1>10. OneServer' /\ ServerOutlivesClients'
    BY <1>1, <1>8, <1>9, ServersKept DEF Live
  <1>11. Senders' /\ Outstanding'
    BY <1>1, <1>2, MailKept DEF socketvars
  <1> QED
    BY <1>3, <1>5, <1>7, <1>10, <1>11 DEF DatagramInv

(* Without a second server, bind() meets no entry that it could unlink.    *)
LEMMA BindFailsInv ==
  ASSUME DatagramInv, NEW p \in Sockets, BindFails(p)
  PROVE  DatagramInv'
  <1>1. Throws(p, "bind", entry[PathOf[p]] = Nothing) /\ at[p] = "bind"
    BY DEF BindFails, Throws
  <1>2. entry[PathOf[p]] = Nothing \/ overlapped \/ Refused(p, "unlink")
    BY <1>1, PathFacts, ProcessAssumption DEF DatagramInv, ClientPaths, Reachable
  <1> QED
    BY <1>1, <1>2, ThrowsInv

LEMMA AskFailsInv ==
  ASSUME DatagramInv, NEW c \in Clients, AskFails(c)
  PROVE  DatagramInv'
  BY ThrowsInv, ProcessAssumption DEF AskFails

LEMMA AnswerFailsInv ==
  ASSUME DatagramInv, NEW c \in Clients, AnswerFails(c)
  PROVE  DatagramInv'
  BY ThrowsInv, ProcessAssumption DEF AnswerFails

LEMMA ReceiveFailsInv ==
  ASSUME DatagramInv, NEW s \in Servers, ReceiveFails(s)
  PROVE  DatagramInv'
  <1>1. Throws(s, "receive", TRUE)
    BY DEF ReceiveFails
  <1>2. Outlives(s)'
    BY <1>1 DEF Throws, Refuse, Refused, Outlives
  <1> QED
    BY <1>1, <1>2, ThrowsInv, ProcessAssumption

(* The client that is owed the answer is gone, or its path leads to it.    *)
LEMMA ReplyFailsInv ==
  ASSUME DatagramInv, NEW s \in Servers, ReplyFails(s)
  PROVE  DatagramInv'
  <1> USE ProcessAssumption
  <1>1. Throws(s, "reply", Leads(name[peer[s]])) /\ at[s] = "reply" /\ UNCHANGED peer
    BY DEF ReplyFails, Throws
  <1>2. PICK c \in Clients : c = peer[s] /\ Owed(c)
    BY <1>1 DEF DatagramInv, Senders, Outstanding
  <1>3. CASE Leads(name[c])
    <2>1. Outlives(s)'
      BY <1>1, <1>2, <1>3 DEF Throws, Refuse, Refused, Outlives
    <2> QED
      BY <1>1, <2>1, ThrowsInv
  <1>4. CASE ~Leads(name[c])
    <2>1. at[c] # "wait"
      <3> SUFFICES ASSUME at[c] = "wait" PROVE FALSE
        OBVIOUS
      <3>1. Stage(c) /\ entry[PathOf[c]] = c
        BY DEF DatagramInv, Stages, ClientPaths
      <3> QED
        BY <1>4, <3>1 DEF Stage, Live, Leads
    <2>2. Over(c) /\ c # s
      BY <1>2, <2>1 DEF Owed
    <2>3. Over(c)' /\ peer'[s] = c
      BY <1>1, <1>2, <2>2, <1>4 DEF Throws, Goto, Over, Refused, DatagramInv, DatagramTypeOK
    <2>4. Outlives(s)'
      BY <2>3 DEF Outlives
    <2> QED
      BY <1>1, <2>4, ThrowsInv
  <1> QED
    BY <1>3, <1>4

LEMMA DestroyThrowsInv ==
  ASSUME DatagramInv, NEW p \in Sockets, DestroyThrows(p)
  PROVE  DatagramInv'
  <1>1. /\ at[p] = "unwind" /\ ~LocalPathExtracts(p)
        /\ at'[p] = "terminated" /\ at' \in [Sockets -> Points]
        /\ socket' \in [Sockets -> {"none", "open", "closed"}]
        /\ Others(p) /\ UNCHANGED <<name, entry, inbox, peer, overlapped, refused>>
    BY DEF DestroyThrows, CloseSocket, Goto, DatagramInv, DatagramTypeOK, Points, Others, history
  <1>2. DatagramTypeOK'
    BY <1>1 DEF DatagramInv, DatagramTypeOK
  <1>3. Stage(p) /\ Stage(p)'
    BY <1>1 DEF DatagramInv, Stages, Stage, Live, Refused
  <1>4. Stages'
    BY <1>1, <1>3, StagesKept DEF DatagramInv
  <1>5. \A path \in Paths : entry[path] # p
    BY <1>1, NamedExtracts, NameAssumption DEF DatagramInv, Entries
  <1>6. Entries' /\ ClientPaths' /\ Reachable'
    BY <1>1, <1>5, DirectoryKept
  <1>7. p \in Servers => Outlives(p)'
    BY <1>1, ReasonKept
  <1>8. OneServer' /\ ServerOutlivesClients'
    BY <1>1, <1>7, ServersKept DEF Live
  <1>9. Senders' /\ Outstanding'
    BY <1>1, MailKept
  <1> QED
    BY <1>2, <1>4, <1>6, <1>8, <1>9 DEF DatagramInv

LEMMA DestroyClosesInv ==
  ASSUME DatagramInv, NEW p \in Sockets, DestroyCloses(p)
  PROVE  DatagramInv'
  <1>1. /\ at[p] = "close" /\ at'[p] = "returned" /\ at' \in [Sockets -> Points]
        /\ socket' \in [Sockets -> {"none", "open", "closed"}]
        /\ Others(p) /\ UNCHANGED <<name, entry, inbox, peer, overlapped, refused>>
    BY DEF DestroyCloses, CloseSocket, Goto, DatagramInv, DatagramTypeOK, Points, Others, history
  <1>2. DatagramTypeOK'
    BY <1>1 DEF DatagramInv, DatagramTypeOK
  <1>3. Stage(p) /\ Stage(p)'
    BY <1>1 DEF DatagramInv, Stages, Stage, Live, Refused
  <1>4. Stages'
    BY <1>1, <1>3, StagesKept DEF DatagramInv
  <1>5. Keeps(p) => Keeps(p)'
    BY <1>1 DEF Keeps, Present, Refused
  <1>6. Entries' /\ ClientPaths' /\ Reachable'
    BY <1>1, <1>5, DirectoryKept
  <1>7. p \in Servers => Outlives(p)'
    BY <1>1, ReasonKept
  <1>8. OneServer' /\ ServerOutlivesClients'
    BY <1>1, <1>7, ServersKept DEF Live
  <1>9. Senders' /\ Outstanding'
    BY <1>1, MailKept
  <1> QED
    BY <1>2, <1>4, <1>6, <1>8, <1>9 DEF DatagramInv
-----------------------------------------------------------------------------
(* The steps that change the directory.                                    *)
LEMMA StartInv ==
  ASSUME DatagramInv, NEW p \in Sockets, Start(p)
  PROVE  DatagramInv'
  <1>1. /\ at[p] = "start" /\ at'[p] = "unlink" /\ at' \in [Sockets -> Points]
        /\ socket'[p] = "open" /\ socket' \in [Sockets -> {"none", "open", "closed"}]
        /\ Others(p) /\ UNCHANGED <<name, entry, inbox, peer, refused>>
    BY DEF Start, CreateSocket, Goto, DatagramInv, DatagramTypeOK, Points, Others
  <1>2. overlapped' \in BOOLEAN
    BY DEF Start, DatagramInv, DatagramTypeOK
  <1>3. ~overlapped' => ~overlapped /\ (p \in Servers => \A s \in Servers : ~Live(s))
    BY DEF Start
  <1>4. DatagramTypeOK'
    BY <1>1, <1>2 DEF DatagramInv, DatagramTypeOK
  <1>5. Stage(p) /\ Stage(p)'
    BY <1>1 DEF DatagramInv, Stages, Stage, Live, Refused
  <1>6. Stages'
    BY <1>1, <1>5, StagesKept DEF DatagramInv
  <1>7. Entries' /\ ClientPaths'
    BY <1>1, ProcessAssumption DEF DatagramInv, Entries, ClientPaths, Keeps, Present, Others, Refused
  <1>8. Reachable'
    BY <1>1, <1>3, ProcessAssumption DEF DatagramInv, Reachable, Others, Refused
  <1>9. OneServer'
    BY <1>1, <1>3, ProcessAssumption DEF DatagramInv, OneServer, Live, Others, Unbindable, Refused
  <1>10. ServerOutlivesClients'
    <2>1. ASSUME NEW s \in Servers PROVE Outlives(s)'
      BY <1>1, ProcessAssumption DEF DatagramInv, ServerOutlivesClients, Outlives, Over, Refused,
         Others
    <2> QED
      BY <2>1 DEF ServerOutlivesClients, Outlives, Over
  <1>11. Senders' /\ Outstanding'
    BY <1>1, MailKept
  <1> QED
    BY <1>4, <1>6, <1>7, <1>8, <1>9, <1>10, <1>11 DEF DatagramInv

(* An unlink of p's own path is of no other process's, while no two        *)
(* servers run at once.                                                    *)
LEMMA BindUnlinksInv ==
  ASSUME DatagramInv, NEW p \in Sockets, BindUnlinks(p)
  PROVE  DatagramInv'
  <1> USE ProcessAssumption
  <1>1. /\ at[p] = "unlink" /\ at'[p] = "bind" /\ at' \in [Sockets -> Points]
        /\ Others(p) /\ UNCHANGED <<socket, name, inbox, peer, overlapped>>
    BY DEF BindUnlinks, Unlink, Refuse, Goto, DatagramInv, DatagramTypeOK, Points, Others, socketvars
  <1> DEFINE done == entry' = [entry EXCEPT ![PathOf[p]] = Nothing]
  <1>2. done \/ (entry' = entry /\ Refused(p, "unlink")')
    BY DEF BindUnlinks, Unlink, Refuse, Refused, socketvars
  <1>3. entry' \in [Paths -> Sockets \cup {Nothing, Gone}]
    BY <1>2 DEF DatagramInv, DatagramTypeOK
  <1>4. /\ entry'[PathOf[p]] \in {Nothing, entry[PathOf[p]]}
        /\ entry'[PathOf[p]] = Nothing \/ Refused(p, "unlink")'
        /\ \A path \in Paths \ {PathOf[p]} : entry'[path] = entry[path]
    BY <1>2, PathFacts DEF DatagramInv, DatagramTypeOK
  <1>5. DatagramTypeOK'
    BY <1>1, <1>3, RefusedKept DEF DatagramInv, DatagramTypeOK
  <1>6. Stage(p) /\ Stage(p)'
    BY <1>1, RefusedKept DEF DatagramInv, Stages, Stage, Live, Points
  <1>7. Stages'
    BY <1>1, <1>6, StagesKept DEF DatagramInv
  <1>8. Entries'
    <2> SUFFICES ASSUME NEW q \in Paths, NEW r \in Sockets, entry'[q] = r
                 PROVE  name'[r] = q /\ Keeps(r)'
      BY DEF Entries, Keeps, Refused
    <2>1. entry[q] = r
      BY <1>4, SocketAssumption, PathFacts
    <2>2. name[r] = q /\ Keeps(r)
      BY <2>1 DEF DatagramInv, Entries
    <2>3. r # p
      BY <1>1, <2>2 DEF Keeps, Present
    <2> QED
      BY <1>1, <2>1, <2>2, <2>3, KeepsKept
  <1>9. ClientPaths'
    BY <1>1, <1>4, PathFacts, RefusedKept DEF DatagramInv, ClientPaths, Others, Points
  <1>10. Reachable'
    <2> SUFFICES ASSUME ~overlapped, NEW s \in Servers
                 PROVE  /\ at'[s] = "bind" /\ ~Refused(s, "unlink")' => entry'[ServerPath] = Nothing
                        /\ at'[s] \in {"receive", "reply"} => entry'[ServerPath] = s
      BY <1>1 DEF Reachable
    <2>1. CASE p \in Servers
      <3>1. s # p => ~Live(s)
        BY <1>1, <2>1 DEF DatagramInv, OneServer, Live
      <3> QED
        BY <1>1, <1>4, <2>1, <3>1, PathFacts DEF Live, Others
    <2>2. CASE p \in Clients
      BY <1>1, <1>4, <2>2, PathFacts, RefusedKept DEF DatagramInv, Reachable, Others, Points
    <2> QED
      BY <2>1, <2>2
  <1>11. OneServer' /\ ServerOutlivesClients'
    <2>1. p \in Servers => Outlives(p)'
      BY <1>1, ReasonKept
    <2> QED
      BY <1>1, <2>1, ServersKept DEF Live
  <1>12. Senders' /\ Outstanding'
    BY <1>1, MailKept
  <1> QED
    BY <1>5, <1>7, <1>8, <1>9, <1>10, <1>11, <1>12 DEF DatagramInv

LEMMA BindInv ==
  ASSUME DatagramInv, NEW p \in Sockets, Bind(p)
  PROVE  DatagramInv'
  <1> USE ProcessAssumption
  <1>1. /\ at[p] = "bind" /\ at' \in [Sockets -> Points]
        /\ at'[p] = IF p \in Servers THEN "receive" ELSE "send"
        /\ UNCHANGED <<socket, inbox, peer, overlapped, refused>>
    BY DEF Bind, BindName, Goto, DatagramInv, DatagramTypeOK, Points, history
  <1>2. /\ name' = [name EXCEPT ![p] = PathOf[p]]
        /\ entry' = [entry EXCEPT ![PathOf[p]] = p]
        /\ entry[PathOf[p]] = Nothing
    BY DEF Bind, BindName
  <1>3. Others(p) /\ name'[p] = PathOf[p]
    BY <1>2 DEF Bind, BindName, Goto, DatagramInv, DatagramTypeOK, Others, history
  <1>4. /\ entry'[PathOf[p]] = p
        /\ \A path \in Paths \ {PathOf[p]} : entry'[path] = entry[path]
    BY <1>2, PathFacts DEF DatagramInv, DatagramTypeOK
  <1>5. DatagramTypeOK'
    BY <1>1, <1>2, PathFacts DEF DatagramInv, DatagramTypeOK
  <1>6. Stage(p) /\ Stage(p)'
    BY <1>1, <1>3 DEF DatagramInv, Stages, Stage, Live, Refused
  <1>7. Stages'
    BY <1>3, <1>6, StagesKept DEF DatagramInv
  <1>8. Entries'
    <2> SUFFICES ASSUME NEW q \in Paths, NEW r \in Sockets, entry'[q] = r
                 PROVE  name'[r] = q /\ Keeps(r)'
      BY DEF Entries, Keeps, Refused
    <2>1. CASE q = PathOf[p]
      BY <1>1, <1>3, <1>4, <2>1 DEF Keeps, Present
    <2>2. CASE q # PathOf[p]
      <3>1. name[r] = q /\ Keeps(r)
        BY <1>4, <2>2 DEF DatagramInv, Entries
      <3>2. r # p
        BY <1>1, <3>1 DEF Keeps, Present
      <3> QED
        BY <1>3, <3>1, <3>2, KeepsKept DEF Others
    <2> QED
      BY <2>1, <2>2
  <1>9. ClientPaths'
    BY <1>1, <1>3, <1>4, PathFacts DEF DatagramInv, ClientPaths, Others, Refused
  <1>10. Reachable'
    <2> SUFFICES ASSUME ~overlapped, NEW s \in Servers
                 PROVE  /\ at'[s] = "bind" /\ ~Refused(s, "unlink") => entry'[ServerPath] = Nothing
                        /\ at'[s] \in {"receive", "reply"} => entry'[ServerPath] = s
      BY <1>1 DEF Reachable, Refused
    <2>1. CASE p \in Servers
      <3>1. s # p => ~Live(s)
        BY <1>1, <2>1 DEF DatagramInv, OneServer, Live
      <3> QED
        BY <1>1, <1>3, <1>4, <2>1, <3>1, PathFacts DEF Live, Others
    <2>2. CASE p \in Clients
      BY <1>3, <1>4, <2>2, PathFacts DEF DatagramInv, Reachable, Others
    <2> QED
      BY <2>1, <2>2
  <1>11. OneServer' /\ ServerOutlivesClients'
    <2>1. p \in Servers => Outlives(p)'
      BY <1>1 DEF Outlives
    <2> QED
      BY <1>1, <1>3, <2>1, ServersKept DEF Live
  <1>12. Senders' /\ Outstanding'
    BY <1>1, <1>3, <1>6, MailKept DEF Stage
  <1> QED
    BY <1>5, <1>7, <1>8, <1>9, <1>10, <1>11, <1>12 DEF DatagramInv

LEMMA DestroyUnlinksInv ==
  ASSUME DatagramInv, NEW p \in Sockets, DestroyUnlinks(p)
  PROVE  DatagramInv'
  <1> USE ProcessAssumption
  <1>1. /\ at[p] = "unwind" /\ at'[p] = "close" /\ at' \in [Sockets -> Points]
        /\ Others(p) /\ UNCHANGED <<socket, name, inbox, peer, overlapped>>
    BY DEF DestroyUnlinks, Unlink, Refuse, Goto, DatagramInv, DatagramTypeOK, Points, Others,
       socketvars
  <1> DEFINE done == entry' = [entry EXCEPT ![name[p]] = Nothing]
  <1>2. done \/ (entry' = entry /\ Refused(p, "unwind")')
    BY <1>1 DEF DestroyUnlinks, Unlink, Refuse, Refused, socketvars
  <1>3. entry' \in [Paths -> Sockets \cup {Nothing, Gone}]
    BY <1>2 DEF DatagramInv, DatagramTypeOK
  <1>4. \A path \in Paths :
          \/ entry'[path] = entry[path] /\ (path # name[p] \/ Refused(p, "unwind")')
          \/ entry'[path] = Nothing /\ path = name[p]
    BY <1>2 DEF DatagramInv, DatagramTypeOK
  <1>5. DatagramTypeOK'
    BY <1>1, <1>3, RefusedKept DEF DatagramInv, DatagramTypeOK
  <1>6. Stage(p) /\ Stage(p)'
    BY <1>1, RefusedKept DEF DatagramInv, Stages, Stage, Live, Points
  <1>7. Stages'
    BY <1>1, <1>6, StagesKept DEF DatagramInv
  <1>8. Entries'
    <2> SUFFICES ASSUME NEW q \in Paths, NEW r \in Sockets, entry'[q] = r
                 PROVE  name'[r] = q /\ Keeps(r)'
      BY DEF Entries, Keeps, Refused
    <2>1. entry[q] = r /\ (q # name[p] \/ Refused(p, "unwind")')
      BY <1>4, SocketAssumption
    <2>2. name[r] = q /\ Keeps(r)
      BY <2>1 DEF DatagramInv, Entries
    <2>3. r = p => Keeps(p)'
      BY <1>1, <2>1, <2>2 DEF Keeps
    <2> QED
      BY <1>1, <2>1, <2>2, <2>3, KeepsKept
  <1>9. name[p] \in {NoName, PathOf[p]}
    BY <1>6 DEF Stage
  <1>10. ClientPaths'
    BY <1>1, <1>4, <1>9, PathFacts, RefusedKept DEF DatagramInv, ClientPaths, Others, Points
  <1>11. Reachable'
    <2> SUFFICES ASSUME ~overlapped, NEW s \in Servers
                 PROVE  /\ at'[s] = "bind" /\ ~Refused(s, "unlink")' => entry'[ServerPath] = Nothing
                        /\ at'[s] \in {"receive", "reply"} => entry'[ServerPath] = s
      BY <1>1 DEF Reachable
    <2>1. CASE p \in Servers
      <3>1. s # p => ~Live(s)
        BY <1>1, <2>1 DEF DatagramInv, OneServer, Live
      <3> QED
        BY <1>1, <3>1 DEF Live, Others
    <2>2. CASE p \in Clients
      BY <1>1, <1>4, <1>9, <2>2, PathFacts, NameAssumption, RefusedKept
         DEF DatagramInv, Reachable, Others, Points
    <2> QED
      BY <2>1, <2>2
  <1>12. OneServer' /\ ServerOutlivesClients'
    <2>1. p \in Servers => Outlives(p)'
      BY <1>1, ReasonKept
    <2> QED
      BY <1>1, <2>1, ServersKept DEF Live
  <1>13. Senders' /\ Outstanding'
    BY <1>1, MailKept
  <1> QED
    BY <1>5, <1>7, <1>8, <1>10, <1>11, <1>12, <1>13 DEF DatagramInv
-----------------------------------------------------------------------------
(* The steps that move a datagram.                                         *)

(* recvfrom takes the first datagram; the others move up.                  *)
LEMMA Received ==
  ASSUME DatagramTypeOK, NEW p \in Sockets, ReceiveFrom(p)
  PROVE  /\ inbox' \in [Sockets -> Seq(Sockets)]
         /\ 1 \in 1 .. Len(inbox[p]) /\ Head(inbox[p]) = inbox[p][1]
         /\ \A i \in 1 .. Len(inbox'[p]) :
              i + 1 \in 1 .. Len(inbox[p]) /\ inbox'[p][i] = inbox[p][i + 1]
         /\ \A r \in Sockets \ {p} : inbox'[r] = inbox[r]
  <1>1. inbox[p] \in Seq(Sockets) /\ inbox[p] # <<>>
    BY DEF DatagramTypeOK, ReceiveFrom
  <1>2. /\ Tail(inbox[p]) \in Seq(Sockets) /\ Len(Tail(inbox[p])) = Len(inbox[p]) - 1
        /\ \A i \in 1 .. Len(Tail(inbox[p])) : Tail(inbox[p])[i] = inbox[p][i + 1]
        /\ Len(inbox[p]) \in Nat /\ Len(inbox[p]) > 0
        /\ Head(inbox[p]) = inbox[p][1]
    BY <1>1
  <1>3. /\ inbox'[p] = Tail(inbox[p]) /\ \A r \in Sockets \ {p} : inbox'[r] = inbox[r]
        /\ inbox' \in [Sockets -> Seq(Sockets)]
    BY <1>2 DEF DatagramTypeOK, ReceiveFrom
  <1> QED
    BY <1>2, <1>3

(* sendto adds a datagram at the socket the path leads to.                 *)
LEMMA Delivered ==
  ASSUME DatagramTypeOK, NEW p \in Sockets, NEW path, SendTo(p, path), NEW e, entry[path] = e
  PROVE  /\ e \in Sockets
         /\ inbox' \in [Sockets -> Seq(Sockets)]
         /\ Len(inbox[e]) \in Nat /\ Len(inbox'[e]) = Len(inbox[e]) + 1
         /\ inbox'[e][Len(inbox[e]) + 1] = p
         /\ \A i \in 1 .. Len(inbox[e]) : inbox'[e][i] = inbox[e][i]
         /\ \A r \in Sockets \ {e} : inbox'[r] = inbox[r]
  <1>1. e \in Sockets /\ inbox[e] \in Seq(Sockets)
    BY DEF DatagramTypeOK, SendTo, Leads
  <1>2. /\ Append(inbox[e], p) \in Seq(Sockets) /\ Len(inbox[e]) \in Nat
        /\ Len(Append(inbox[e], p)) = Len(inbox[e]) + 1
        /\ Append(inbox[e], p)[Len(inbox[e]) + 1] = p
        /\ \A i \in 1 .. Len(inbox[e]) : Append(inbox[e], p)[i] = inbox[e][i]
    BY <1>1, AppendProperties
  <1>3. /\ inbox'[e] = Append(inbox[e], p) /\ \A r \in Sockets \ {e} : inbox'[r] = inbox[r]
        /\ inbox' \in [Sockets -> Seq(Sockets)]
    BY <1>1, <1>2 DEF DatagramTypeOK, SendTo
  <1> QED
    BY <1>1, <1>2, <1>3

(* A question that is taken from the queue is the one being answered.      *)
LEMMA ReceiveInv ==
  ASSUME DatagramInv, NEW s \in Servers, Receive(s)
  PROVE  DatagramInv'
  <1> USE ProcessAssumption
  <1>1. /\ at[s] = "receive" /\ at'[s] = "reply" /\ at' \in [Sockets -> Points]
        /\ Others(s) /\ UNCHANGED <<socket, name, entry, overlapped, refused>>
        /\ ReceiveFrom(s)
        /\ peer' = [peer EXCEPT ![s] = Head(inbox[s])]
    BY DEF Receive, ReceiveFrom, Goto, DatagramInv, DatagramTypeOK, Points, Others, history
  <1>2. /\ inbox' \in [Sockets -> Seq(Sockets)]
        /\ 1 \in 1 .. Len(inbox[s]) /\ Head(inbox[s]) = inbox[s][1]
        /\ \A i \in 1 .. Len(inbox'[s]) :
             i + 1 \in 1 .. Len(inbox[s]) /\ inbox'[s][i] = inbox[s][i + 1]
        /\ \A r \in Sockets \ {s} : inbox'[r] = inbox[r]
    BY <1>1, Received DEF DatagramInv
  <1>3. inbox[s][1] \in Sockets
    BY <1>2, ElementOfSeq DEF DatagramInv, DatagramTypeOK
  <1>4. /\ peer' \in [Servers -> Sockets \cup {NoName}] /\ peer'[s] = inbox[s][1]
        /\ \A t \in Servers \ {s} : peer'[t] = peer[t] /\ (at'[t] = "reply" <=> at[t] = "reply")
    BY <1>1, <1>2, <1>3 DEF DatagramInv, DatagramTypeOK, Others
  <1>5. DatagramTypeOK'
    BY <1>1, <1>2, <1>4 DEF DatagramInv, DatagramTypeOK
  <1>6. Stage(s) /\ Stage(s)'
    BY <1>1 DEF DatagramInv, Stages, Stage, Live, Refused
  <1>7. Stages'
    BY <1>1, <1>6, StagesKept DEF DatagramInv
  <1>8. Entries' /\ ClientPaths' /\ Reachable'
    BY <1>1, DirectoryKept DEF Keeps, Present
  <1>9. OneServer' /\ ServerOutlivesClients'
    <2>1. Outlives(s)' /\ \A t \in Servers \ {s} : peer'[t] = peer[t]
      BY <1>1 DEF Outlives, DatagramInv, DatagramTypeOK
    <2> QED
      BY <1>1, <2>1, ServersKept DEF Live
  <1>10. inbox[s][1] \in Clients /\ name[inbox[s][1]] # NoName
    BY <1>2, <1>3 DEF DatagramInv, Senders
  <1>11. Senders'
    <2>1. ASSUME NEW p \in Sockets, NEW i \in 1 .. Len(inbox'[p])
          PROVE  /\ name'[inbox'[p][i]] # NoName
                 /\ inbox'[p][i] \in Servers <=> p \in Clients
      <3>1. CASE p = s
        BY <1>1, <1>2, <3>1 DEF DatagramInv, Senders
      <3>2. CASE p # s
        BY <1>1, <1>2, <2>1, <3>2 DEF DatagramInv, Senders
      <3> QED
        BY <3>1, <3>2
    <2>2. ASSUME NEW t \in Servers, at'[t] = "reply"
          PROVE  peer'[t] \in Clients /\ name'[peer'[t]] # NoName
      BY <1>1, <1>4, <1>10, <2>2 DEF DatagramInv, Senders
    <2> QED
      BY <2>1, <2>2 DEF Senders
  <1>12. Outstanding'
    <2>1. \A c \in Clients : at'[c] = at[c] /\ inbox'[c] = inbox[c]
      BY <1>1, <1>2 DEF Others
    <2>2. \A c \in Clients : Owed(c) => StillOwed(c)
      BY <1>1, <2>1 DEF Owed, Over, StillOwed, Refused
    <2>3. /\ \A t \in Servers : \A i \in 1 .. Len(inbox[t]) : Owed(inbox[t][i]) /\ inbox[t][i] \in Clients
          /\ \A t \in Servers : at[t] = "reply" => Owed(peer[t]) /\ peer[t] \in Clients
          /\ \A t, u \in Servers : \A i \in 1 .. Len(inbox[t]), j \in 1 .. Len(inbox[u]) :
               inbox[t][i] = inbox[u][j] => t = u /\ i = j
          /\ \A t, u \in Servers : \A i \in 1 .. Len(inbox[t]) : at[u] = "reply" => inbox[t][i] # peer[u]
          /\ \A t, u \in Servers : at[t] = "reply" /\ at[u] = "reply" /\ peer[t] = peer[u] => t = u
      <3>1. \A t \in Servers : \A i \in 1 .. Len(inbox[t]) : inbox[t][i] \in Clients
        BY ElementOfSeq DEF DatagramInv, DatagramTypeOK, Senders
      <3> QED
        BY <2>1, <3>1 DEF DatagramInv, Outstanding, Senders
    <2> DEFINE Old(t, i) == IF t = s THEN i + 1 ELSE i
    <2>4. \A t \in Servers : \A i \in 1 .. Len(inbox'[t]) :
            /\ Old(t, i) \in 1 .. Len(inbox[t]) /\ inbox'[t][i] = inbox[t][Old(t, i)]
            /\ t = s => Old(t, i) # 1
      BY <1>2
    <2>5. \A t \in Servers : \A i, j \in 1 .. Len(inbox'[t]) : Old(t, i) = Old(t, j) => i = j
      OBVIOUS
    <2> HIDE DEF Old
    <2>6. ASSUME NEW t \in Servers, NEW i \in 1 .. Len(inbox'[t])
          PROVE  StillOwed(inbox'[t][i])
      <3>1. Old(t, i) \in 1 .. Len(inbox[t]) /\ inbox'[t][i] = inbox[t][Old(t, i)]
        BY <2>4
      <3>2. Owed(inbox[t][Old(t, i)]) /\ inbox[t][Old(t, i)] \in Clients
        BY <2>3, <3>1
      <3> QED
        BY <2>2, <3>1, <3>2
    <2>7. ASSUME NEW t \in Servers, at'[t] = "reply"
          PROVE  StillOwed(peer'[t])
      <3>1. Owed(peer'[t]) /\ peer'[t] \in Clients
        <4>1. CASE t = s
          BY <1>2, <1>4, <2>3, <4>1
        <4>2. CASE t # s
          BY <1>4, <2>3, <2>7, <4>2
        <4> QED
          BY <4>1, <4>2
      <3> QED
        BY <2>2, <3>1
    <2>8. \A c \in Clients : at'[c] \in {"start", "unlink", "bind", "send"} => inbox'[c] = <<>>
      BY <2>1 DEF DatagramInv, Outstanding
    <2>9. ASSUME NEW t \in Servers, NEW u \in Servers,
                 NEW i \in 1 .. Len(inbox'[t]), NEW j \in 1 .. Len(inbox'[u]),
                 inbox'[t][i] = inbox'[u][j]
          PROVE  t = u /\ i = j
      <3>1. /\ Old(t, i) \in 1 .. Len(inbox[t]) /\ inbox'[t][i] = inbox[t][Old(t, i)]
            /\ Old(u, j) \in 1 .. Len(inbox[u]) /\ inbox'[u][j] = inbox[u][Old(u, j)]
        BY <2>4
      <3>2. t = u /\ Old(t, i) = Old(u, j)
        <4>1. inbox[t][Old(t, i)] = inbox[u][Old(u, j)]
          BY <2>9, <3>1
        <4>2. \A k \in 1 .. Len(inbox[t]), l \in 1 .. Len(inbox[u]) :
                inbox[t][k] = inbox[u][l] => t = u /\ k = l
          BY <2>3
        <4> QED
          BY <3>1, <4>1, <4>2
      <3> QED
        BY <2>5, <3>2
    <2>10. ASSUME NEW t \in Servers, NEW u \in Servers, NEW i \in 1 .. Len(inbox'[t]), at'[u] = "reply"
           PROVE  inbox'[t][i] # peer'[u]
      <3>1. /\ Old(t, i) \in 1 .. Len(inbox[t]) /\ inbox'[t][i] = inbox[t][Old(t, i)]
            /\ t = s => Old(t, i) # 1
        BY <2>4
      <3>2. CASE u = s
        <4>1. inbox[t][Old(t, i)] = inbox[s][1] => t = s /\ Old(t, i) = 1
          BY <1>2, <2>3, <3>1
        <4> QED
          BY <1>4, <3>1, <3>2, <4>1
      <3>3. CASE u # s
        BY <1>4, <2>3, <2>10, <3>1, <3>3
      <3> QED
        BY <3>2, <3>3
    <2>11. ASSUME NEW t \in Servers, NEW u \in Servers,
                  at'[t] = "reply", at'[u] = "reply", peer'[t] = peer'[u]
           PROVE  t = u
      <3>1. \A v \in Servers : at[v] = "reply" => inbox[s][1] # peer[v]
        BY <1>2, <2>3
      <3>2. t # s /\ u # s => t = u
        BY <1>4, <2>3, <2>11
      <3> QED
        BY <1>4, <2>11, <3>1, <3>2
    <2> QED
      BY <2>6, <2>7, <2>8, <2>9, <2>10, <2>11 DEF Outstanding, Owed, Over, StillOwed, Refused
  <1> QED
    BY <1>5, <1>7, <1>8, <1>9, <1>11, <1>12 DEF DatagramInv

(* An answer goes to the client that asked, which waits for it alone.      *)
LEMMA ReplyInv ==
  ASSUME DatagramInv, NEW s \in Servers, Reply(s)
  PROVE  DatagramInv'
  <1> USE ProcessAssumption
  <1>1. /\ at[s] = "reply" /\ at'[s] = "receive" /\ at' \in [Sockets -> Points]
        /\ Others(s) /\ UNCHANGED <<socket, name, entry, overlapped, refused>>
        /\ SendTo(s, name[peer[s]])
        /\ peer' = [peer EXCEPT ![s] = NoName]
    BY DEF Reply, SendTo, Goto, DatagramInv, DatagramTypeOK, Points, Others, history
  <1>2. PICK c \in Clients : c = peer[s]
    BY <1>1 DEF DatagramInv, Senders
  <1>3. name[c] = PathOf[c] /\ entry[PathOf[c]] = c
    <2>1. name[c] = PathOf[c]
      BY <1>1, <1>2 DEF DatagramInv, Stages, Stage, Senders
    <2>2. entry[name[c]] \in Sockets
      BY <1>1, <1>2, Delivered DEF DatagramInv
    <2> QED
      BY <2>1, <2>2, EntryOwner DEF DatagramInv
  <1>4. /\ inbox' \in [Sockets -> Seq(Sockets)]
        /\ Len(inbox[c]) \in Nat /\ Len(inbox'[c]) = Len(inbox[c]) + 1
        /\ inbox'[c][Len(inbox[c]) + 1] = s
        /\ \A i \in 1 .. Len(inbox[c]) : inbox'[c][i] = inbox[c][i]
        /\ \A r \in Sockets \ {c} : inbox'[r] = inbox[r]
    <2>1. PICK path : path = name[peer[s]]
      OBVIOUS
    <2>2. SendTo(s, path) /\ entry[path] = c
      BY <1>1, <1>2, <1>3, <2>1
    <2>3. DatagramTypeOK /\ s \in Sockets
      BY DEF DatagramInv
    <2> QED
      BY ONLY <2>2, <2>3, Delivered
  <1>5. /\ peer' \in [Servers -> Sockets \cup {NoName}]
        /\ \A t \in Servers : at'[t] = "reply" => t # s /\ at[t] = "reply" /\ peer'[t] = peer[t]
    BY <1>1 DEF DatagramInv, DatagramTypeOK, Others
  <1>6. DatagramTypeOK'
    BY <1>1, <1>4, <1>5 DEF DatagramInv, DatagramTypeOK
  <1>7. Stage(s) /\ Stage(s)'
    BY <1>1 DEF DatagramInv, Stages, Stage, Live, Refused
  <1>8. Stages'
    BY <1>1, <1>7, StagesKept DEF DatagramInv
  <1>9. Entries' /\ ClientPaths' /\ Reachable'
    BY <1>1, DirectoryKept DEF Keeps, Present
  <1>10. OneServer' /\ ServerOutlivesClients'
    <2>1. Outlives(s)' /\ \A t \in Servers \ {s} : peer'[t] = peer[t]
      BY <1>1 DEF Outlives, DatagramInv, DatagramTypeOK
    <2> QED
      BY <1>1, <2>1, ServersKept DEF Live
  <1>11. name[s] # NoName
    BY <1>1, <1>7, PathFacts DEF Stage
  <1>12. Senders'
    <2>1. ASSUME NEW p \in Sockets, NEW i \in 1 .. Len(inbox'[p])
          PROVE  /\ name'[inbox'[p][i]] # NoName
                 /\ inbox'[p][i] \in Servers <=> p \in Clients
      <3>1. CASE p = c /\ i = Len(inbox[c]) + 1
        BY <1>1, <1>4, <1>11, <3>1
      <3>2. CASE ~(p = c /\ i = Len(inbox[c]) + 1)
        <4>1. i \in 1 .. Len(inbox[p]) /\ inbox'[p][i] = inbox[p][i]
          BY <1>4, <3>2
        <4> QED
          BY <1>1, <4>1 DEF DatagramInv, Senders
      <3> QED
        BY <3>1, <3>2
    <2>2. ASSUME NEW t \in Servers, at'[t] = "reply"
          PROVE  peer'[t] \in Clients /\ name'[peer'[t]] # NoName
      BY <1>1, <1>5, <2>2 DEF DatagramInv, Senders
    <2> QED
      BY <2>1, <2>2 DEF Senders
  <1>13. Outstanding'
    <2>1. \A d \in Clients : at'[d] = at[d]
      BY <1>1 DEF Others
    <2>2. /\ \A t \in Servers : \A i \in 1 .. Len(inbox[t]) : Owed(inbox[t][i]) /\ inbox[t][i] \in Clients
          /\ \A t \in Servers : at[t] = "reply" => Owed(peer[t]) /\ peer[t] \in Clients
          /\ \A d \in Clients : at[d] \in {"start", "unlink", "bind", "send"} => inbox[d] = <<>>
          /\ \A t, u \in Servers : \A i \in 1 .. Len(inbox[t]), j \in 1 .. Len(inbox[u]) :
               inbox[t][i] = inbox[u][j] => t = u /\ i = j
          /\ \A t, u \in Servers : \A i \in 1 .. Len(inbox[t]) : at[u] = "reply" => inbox[t][i] # peer[u]
          /\ \A t, u \in Servers : at[t] = "reply" /\ at[u] = "reply" /\ peer[t] = peer[u] => t = u
      <3>1. \A t \in Servers : \A i \in 1 .. Len(inbox[t]) : inbox[t][i] \in Clients
        BY ElementOfSeq DEF DatagramInv, DatagramTypeOK, Senders
      <3> QED
        BY <2>1, <3>1 DEF DatagramInv, Outstanding, Senders
    <2>3. \A d \in Clients \ {c} : Owed(d) => StillOwed(d)
      BY <1>1, <1>4, <2>1 DEF Owed, Over, StillOwed, Refused
    <2>4. \A t \in Servers : inbox'[t] = inbox[t]
      BY <1>4
    <2>5. ASSUME NEW t \in Servers, NEW i \in 1 .. Len(inbox[t])
          PROVE  StillOwed(inbox[t][i])
      BY <1>1, <1>2, <2>2, <2>3
    <2>6. ASSUME NEW t \in Servers, at'[t] = "reply"
          PROVE  StillOwed(peer'[t])
      <3>1. peer[t] # c
        BY <1>1, <1>2, <1>5, <2>2, <2>6
      <3> QED
        BY <1>5, <2>2, <2>3, <2>6, <3>1
    <2>7. ASSUME NEW d \in Clients, at'[d] \in {"start", "unlink", "bind", "send"}
          PROVE  inbox'[d] = <<>>
      <3>1. d # c
        <4>1. Owed(c) /\ Stage(c)
          BY <1>1, <1>2, <2>2 DEF DatagramInv, Stages
        <4> QED
          BY <2>1, <2>7, <4>1 DEF Owed, Over, Stage
      <3> QED
        BY <1>4, <2>1, <2>2, <2>7, <3>1
    <2>8. ASSUME NEW t \in Servers, NEW u \in Servers, NEW i \in 1 .. Len(inbox[t]), at'[u] = "reply"
          PROVE  inbox[t][i] # peer'[u]
      BY <1>5, <2>2, <2>8
    <2>9. ASSUME NEW t \in Servers, NEW u \in Servers,
                 at'[t] = "reply", at'[u] = "reply", peer'[t] = peer'[u]
          PROVE  t = u
      BY <1>5, <2>2, <2>9
    <2> QED
      BY <2>2, <2>4, <2>5, <2>6, <2>7, <2>8, <2>9 DEF Outstanding, Owed, Over, StillOwed, Refused
  <1> QED
    BY <1>6, <1>8, <1>9, <1>10, <1>12, <1>13 DEF DatagramInv

(* A client asks once.                                                     *)
LEMMA AskInv ==
  ASSUME DatagramInv, NEW c \in Clients, Ask(c)
  PROVE  DatagramInv'
  <1> USE ProcessAssumption
  <1>1. /\ at[c] = "send" /\ at'[c] = "wait" /\ at' \in [Sockets -> Points]
        /\ Others(c) /\ UNCHANGED <<socket, name, entry, peer, overlapped, refused>>
        /\ SendTo(c, ServerPath)
    BY DEF Ask, SendTo, Goto, DatagramInv, DatagramTypeOK, Points, Others, history
  <1>2. PICK s \in Servers : s = entry[ServerPath]
    BY <1>1, Delivered, EntryOwner DEF DatagramInv
  <1>3. /\ inbox' \in [Sockets -> Seq(Sockets)]
        /\ Len(inbox[s]) \in Nat /\ Len(inbox'[s]) = Len(inbox[s]) + 1
        /\ inbox'[s][Len(inbox[s]) + 1] = c
        /\ \A i \in 1 .. Len(inbox[s]) : inbox'[s][i] = inbox[s][i]
        /\ \A r \in Sockets \ {s} : inbox'[r] = inbox[r]
    BY <1>1, <1>2, Delivered DEF DatagramInv
  <1>4. DatagramTypeOK'
    BY <1>1, <1>3 DEF DatagramInv, DatagramTypeOK
  <1>5. Stage(c) /\ Stage(c)'
    BY <1>1 DEF DatagramInv, Stages, Stage, Live, Refused
  <1>6. Stages'
    BY <1>1, <1>5, StagesKept DEF DatagramInv
  <1>7. Entries' /\ ClientPaths' /\ Reachable'
    BY <1>1, DirectoryKept DEF Keeps, Present
  <1>8. OneServer' /\ ServerOutlivesClients'
    BY <1>1, ServersKept DEF Live
  <1>9. name[c] # NoName
    BY <1>1, <1>5, PathFacts DEF Stage
  <1>10. \A p \in Sockets : \A i \in 1 .. Len(inbox'[p]) :
           \/ p = s /\ i = Len(inbox[s]) + 1 /\ inbox'[p][i] = c
           \/ i \in 1 .. Len(inbox[p]) /\ inbox'[p][i] = inbox[p][i]
    BY <1>3
  <1>11. Senders'
    <2>1. ASSUME NEW p \in Sockets, NEW i \in 1 .. Len(inbox'[p])
          PROVE  /\ name'[inbox'[p][i]] # NoName
                 /\ inbox'[p][i] \in Servers <=> p \in Clients
      <3>1. CASE p = s /\ i = Len(inbox[s]) + 1 /\ inbox'[p][i] = c
        BY <1>1, <1>9, <3>1
      <3>2. CASE i \in 1 .. Len(inbox[p]) /\ inbox'[p][i] = inbox[p][i]
        BY <1>1, <3>2 DEF DatagramInv, Senders
      <3> QED
        BY <1>10, <3>1, <3>2
    <2>2. ASSUME NEW t \in Servers, at'[t] = "reply"
          PROVE  peer'[t] \in Clients /\ name'[peer'[t]] # NoName
      BY <1>1, <2>2 DEF DatagramInv, Senders, Others
    <2> QED
      BY <2>1, <2>2 DEF Senders
  <1>12. Outstanding'
    <2>1. /\ \A d \in Clients : inbox'[d] = inbox[d]
          /\ \A t \in Servers : at'[t] = at[t]
      BY <1>1, <1>3 DEF Others
    <2>2. /\ \A t \in Servers : \A i \in 1 .. Len(inbox[t]) : Owed(inbox[t][i]) /\ inbox[t][i] \in Clients
          /\ \A t \in Servers : at[t] = "reply" => Owed(peer[t]) /\ peer[t] \in Clients
          /\ \A d \in Clients : at[d] \in {"start", "unlink", "bind", "send"} => inbox[d] = <<>>
          /\ \A t, u \in Servers : \A i \in 1 .. Len(inbox[t]), j \in 1 .. Len(inbox[u]) :
               inbox[t][i] = inbox[u][j] => t = u /\ i = j
          /\ \A t, u \in Servers : \A i \in 1 .. Len(inbox[t]) : at[u] = "reply" => inbox[t][i] # peer[u]
          /\ \A t, u \in Servers : at[t] = "reply" /\ at[u] = "reply" /\ peer[t] = peer[u] => t = u
      <3>1. \A t \in Servers : \A i \in 1 .. Len(inbox[t]) : inbox[t][i] \in Clients
        BY ElementOfSeq DEF DatagramInv, DatagramTypeOK, Senders
      <3> QED
        BY <2>1, <3>1 DEF DatagramInv, Outstanding, Senders
    <2>3. ~Owed(c) /\ inbox[c] = <<>>
      BY <1>1, <1>5, <2>2 DEF Owed, Over, Stage
    <2>4. \A d \in Clients : d = c \/ Owed(d) => StillOwed(d)
      BY <1>1, <2>1, <2>3 DEF Owed, Over, StillOwed, Refused, Others
    <2>5. ASSUME NEW t \in Servers, NEW i \in 1 .. Len(inbox'[t])
          PROVE  StillOwed(inbox'[t][i])
      <3>1. inbox'[t][i] = c \/ (i \in 1 .. Len(inbox[t]) /\ inbox'[t][i] = inbox[t][i])
        BY <1>10
      <3> QED
        BY <2>2, <2>4, <3>1
    <2>6. ASSUME NEW t \in Servers, at'[t] = "reply"
          PROVE  StillOwed(peer[t])
      BY <2>1, <2>2, <2>4, <2>6
    <2>7. ASSUME NEW d \in Clients, at'[d] \in {"start", "unlink", "bind", "send"}
          PROVE  inbox'[d] = <<>>
      BY <1>1, <2>1, <2>2, <2>7 DEF Others
    <2>8. ASSUME NEW t \in Servers, NEW u \in Servers,
                 NEW i \in 1 .. Len(inbox'[t]), NEW j \in 1 .. Len(inbox'[u]),
                 inbox'[t][i] = inbox'[u][j]
          PROVE  t = u /\ i = j
      <3>1. /\ \/ t = s /\ i = Len(inbox[s]) + 1 /\ inbox'[t][i] = c
               \/ i \in 1 .. Len(inbox[t]) /\ inbox'[t][i] = inbox[t][i]
            /\ \/ u = s /\ j = Len(inbox[s]) + 1 /\ inbox'[u][j] = c
               \/ j \in 1 .. Len(inbox[u]) /\ inbox'[u][j] = inbox[u][j]
        BY <1>10
      <3>2. /\ i \in 1 .. Len(inbox[t]) => inbox[t][i] # c
            /\ j \in 1 .. Len(inbox[u]) => inbox[u][j] # c
        BY <2>2, <2>3
      <3>3. i \in 1 .. Len(inbox[t]) /\ j \in 1 .. Len(inbox[u]) /\ inbox[t][i] = inbox[u][j]
              => t = u /\ i = j
        BY <2>2
      <3> QED
        BY <2>8, <3>1, <3>2, <3>3
    <2>9. ASSUME NEW t \in Servers, NEW u \in Servers, NEW i \in 1 .. Len(inbox'[t]), at'[u] = "reply"
          PROVE  inbox'[t][i] # peer[u]
      <3>1. inbox'[t][i] = c \/ (i \in 1 .. Len(inbox[t]) /\ inbox'[t][i] = inbox[t][i])
        BY <1>10
      <3>2. peer[u] # c
        BY <2>1, <2>2, <2>3, <2>9
      <3> QED
        BY <2>1, <2>2, <2>9, <3>1, <3>2
    <2>10. ASSUME NEW t \in Servers, NEW u \in Servers,
                  at'[t] = "reply", at'[u] = "reply", peer[t] = peer[u]
           PROVE  t = u
      BY <2>1, <2>2, <2>10
    <2> QED
      BY <1>1, <2>5, <2>6, <2>7, <2>8, <2>9, <2>10 DEF Outstanding, Owed, Over, StillOwed, Refused
  <1> QED
    BY <1>4, <1>6, <1>7, <1>8, <1>11, <1>12 DEF DatagramInv

(* Who is answered was not asking any more.                                *)
LEMMA AnsweredInv ==
  ASSUME DatagramInv, NEW c \in Clients, Answered(c)
  PROVE  DatagramInv'
  <1> USE ProcessAssumption
  <1>1. /\ at[c] = "wait" /\ at'[c] = "unwind" /\ at' \in [Sockets -> Points]
        /\ Others(c) /\ UNCHANGED <<socket, name, entry, peer, overlapped, refused>>
        /\ ReceiveFrom(c) /\ inbox[c] # <<>>
    BY DEF Answered, ReceiveFrom, Goto, DatagramInv, DatagramTypeOK, Points, Others, history
  <1>2. /\ inbox' \in [Sockets -> Seq(Sockets)]
        /\ \A i \in 1 .. Len(inbox'[c]) :
             i + 1 \in 1 .. Len(inbox[c]) /\ inbox'[c][i] = inbox[c][i + 1]
        /\ \A r \in Sockets \ {c} : inbox'[r] = inbox[r]
    BY <1>1, Received DEF DatagramInv
  <1>3. DatagramTypeOK'
    BY <1>1, <1>2 DEF DatagramInv, DatagramTypeOK
  <1>4. Stage(c) /\ Stage(c)'
    BY <1>1 DEF DatagramInv, Stages, Stage, Live, Refused
  <1>5. Stages'
    BY <1>1, <1>4, StagesKept DEF DatagramInv
  <1>6. Entries' /\ ClientPaths' /\ Reachable'
    BY <1>1, DirectoryKept DEF Keeps, Present
  <1>7. name'[c] # NoName
    BY <1>1, <1>4, PathFacts DEF Stage
  <1>8. OneServer' /\ ServerOutlivesClients'
    BY <1>1, <1>7, ServersKept DEF Live
  <1>9. Senders'
    <2>1. ASSUME NEW p \in Sockets, NEW i \in 1 .. Len(inbox'[p])
          PROVE  /\ name'[inbox'[p][i]] # NoName
                 /\ inbox'[p][i] \in Servers <=> p \in Clients
      <3>1. CASE p = c
        BY <1>1, <1>2, <3>1 DEF DatagramInv, Senders
      <3>2. CASE p # c
        BY <1>1, <1>2, <2>1, <3>2 DEF DatagramInv, Senders
      <3> QED
        BY <3>1, <3>2
    <2>2. ASSUME NEW t \in Servers, at'[t] = "reply"
          PROVE  peer'[t] \in Clients /\ name'[peer'[t]] # NoName
      BY <1>1, <2>2 DEF DatagramInv, Senders, Others
    <2> QED
      BY <2>1, <2>2 DEF Senders
  <1>10. Outstanding'
    <2>1. /\ \A t \in Servers : at'[t] = at[t] /\ inbox'[t] = inbox[t]
          /\ \A d \in Clients \ {c} : at'[d] = at[d] /\ inbox'[d] = inbox[d]
      BY <1>1, <1>2 DEF Others
    <2>2. \A t \in Servers : \A i \in 1 .. Len(inbox[t]) : inbox[t][i] \in Clients
      BY ElementOfSeq DEF DatagramInv, DatagramTypeOK, Senders
    <2>3. \A d \in Clients : Owed(d) => StillOwed(d)
      <3>1. ~Owed(c)
        BY <1>1, <1>4 DEF Owed, Over, Stage
      <3> QED
        BY <1>1, <2>1, <3>1 DEF Owed, Over, StillOwed, Refused
    <2>4. ASSUME NEW t \in Servers, NEW i \in 1 .. Len(inbox[t])
          PROVE  StillOwed(inbox[t][i])
      BY <2>1, <2>2, <2>3 DEF DatagramInv, Outstanding
    <2>5. ASSUME NEW t \in Servers, at'[t] = "reply"
          PROVE  StillOwed(peer[t])
      BY <2>1, <2>3, <2>5 DEF DatagramInv, Outstanding, Senders
    <2>6. ASSUME NEW d \in Clients, at'[d] \in {"start", "unlink", "bind", "send"}
          PROVE  inbox'[d] = <<>>
      BY <1>1, <2>1, <2>6 DEF DatagramInv, Outstanding
    <2> QED
      BY <1>1, <2>1, <2>4, <2>5, <2>6
         DEF DatagramInv, Outstanding, Owed, Over, StillOwed, Refused
  <1> QED
    BY <1>3, <1>5, <1>6, <1>8, <1>9, <1>10 DEF DatagramInv
-----------------------------------------------------------------------------
LEMMA StepInv == DatagramInv /\ [Next]_vars => DatagramInv'
  <1> SUFFICES ASSUME DatagramInv, [Next]_vars PROVE DatagramInv'
    OBVIOUS
  <1> USE ProcessAssumption
  <1>1. ASSUME NEW p \in Sockets, Start(p) \/ CreateFails(p) \/ Kill(p)
        PROVE  DatagramInv'
    BY <1>1, StartInv, CreateFailsInv, KillInv
  <1>2. ASSUME NEW p \in Sockets, ProcessStep(p)
        PROVE  DatagramInv'
    BY <1>2, BindUnlinksInv, BindInv, BindFailsInv, DestroyUnlinksInv, DestroyThrowsInv,
       DestroyClosesInv DEF ProcessStep
  <1>3. ASSUME NEW s \in Servers, ServerStep(s)
        PROVE  DatagramInv'
    BY <1>2, <1>3, ReceiveInv, ReceiveFailsInv, ReplyInv, ReplyFailsInv DEF ServerStep
  <1>4. ASSUME NEW c \in Clients, ClientStep(c)
        PROVE  DatagramInv'
    BY <1>2, <1>4, AskInv, AskFailsInv, AnsweredInv, AnswerFailsInv DEF ClientStep
  <1>5. CASE UNCHANGED vars
    <2>1. DatagramTypeOK' /\ Stages' /\ Entries' /\ ClientPaths'
      BY <1>5 DEF vars, socketvars, history, DatagramInv, DatagramTypeOK, Stages, Stage, Live,
         Entries, ClientPaths, Keeps, Refused
    <2>2. Senders' /\ OneServer' /\ Reachable' /\ Outstanding' /\ ServerOutlivesClients'
      BY <1>5 DEF vars, socketvars, history, DatagramInv, Senders, OneServer, Live, Reachable,
         Unbindable, Outstanding, Owed, Over, Refused, ServerOutlivesClients
    <2> QED
      BY <2>1, <2>2 DEF DatagramInv
  <1> QED
    BY <1>1, <1>3, <1>4, <1>5 DEF Next

LEMMA DatagramInvariant == Spec => []DatagramInv
  BY InitInv, StepInv, PTL DEF Spec

(* The sockets, the directory and the queues of datagrams stay of their    *)
(* types through every interleaving of the programs.                       *)
THEOREM DatagramTypeCorrect == Spec => []DatagramTypeOK
  <1>1. DatagramInv => DatagramTypeOK
    BY DEF DatagramInv
  <1> QED
    BY <1>1, DatagramInvariant, PTL

(* ~unix_socket removes the directory entry bind() made, on every way out  *)
(* of main: an entry is only of a process that has not come that far, was  *)
(* killed, or was refused its unlink.                                      *)
THEOREM DatagramNothingLeftBehind == Spec => []NothingLeftBehind
  <1>1. DatagramInv => NothingLeftBehind
    BY DEF DatagramInv, Entries, Keeps, Present, NothingLeftBehind
  <1> QED
    BY <1>1, DatagramInvariant, PTL

(* unix_socket::bind unlinks before it binds: whatever a killed server     *)
(* left, the next one gets the path, unless its unlink was refused, and    *)
(* keeps it while it serves.                                               *)
THEOREM DatagramReachable == Spec => []Reachable
  <1>1. DatagramInv => Reachable
    BY DEF DatagramInv
  <1> QED
    BY <1>1, DatagramInvariant, PTL

(* extractPath is called with the length of a name: recvfrom's sender has  *)
(* bound its socket, and the socket a destructor unlinks was bound, unless *)
(* two servers raced for the path, or the system refused the process its   *)
(* bind or the unlink before it.                                           *)
THEOREM DatagramPathsExtract == Spec => []PathsExtract
  <1>1. ASSUME DatagramInv PROVE PathsExtract
    <2>1. ASSUME NEW p \in Sockets, inbox[p] # <<>>
          PROVE  SourcePathExtracts(p)
      <3>1. 1 \in 1 .. Len(inbox[p]) /\ Head(inbox[p]) = inbox[p][1] /\ inbox[p][1] \in Sockets
        <4>1. inbox[p] \in Seq(Sockets)
          BY <1>1 DEF DatagramInv, DatagramTypeOK
        <4> QED
          BY <2>1, <4>1
      <3>2. name[Head(inbox[p])] # NoName
        BY <1>1, <3>1 DEF DatagramInv, Senders
      <3>3. LocalPathExtracts(Head(inbox[p]))
        BY <3>1, <3>2, NamedExtracts
      <3> QED
        BY <3>2, <3>3 DEF LocalPathExtracts, SourcePathExtracts, AddressLength
    <2>2. ASSUME ~overlapped, NEW p \in Sockets, at[p] = "unwind",
                 ~Refused(p, "unlink"), ~Refused(p, "bind")
          PROVE  LocalPathExtracts(p)
      BY <1>1, <2>2, NamedExtracts DEF DatagramInv, OneServer, Unbindable
    <2> QED
      BY <2>1, <2>2 DEF PathsExtract
  <1> QED
    BY <1>1, DatagramInvariant, PTL

(* A call that fails throws the server out of its loop.  If the system did *)
(* not refuse the server that call, it was the answer to a client that was *)
(* killed, or refused its receive(), while it waited for the answer.       *)
THEOREM DatagramServerOutlivesClients == Spec => []ServerOutlivesClients
  <1>1. DatagramInv => ServerOutlivesClients
    BY DEF DatagramInv
  <1> QED
    BY <1>1, DatagramInvariant, PTL
=============================================================================
