------------------------------ MODULE Cluster ------------------------------
(***************************************************************************)
(* How a cluster comes into being: servers and clients ask the coordinator *)
(* to join, the coordinator answers the servers once it has heard from     *)
(* kNumServers of them, and each server then connects the queue pairs of   *)
(* its tablets to those of its peers (src/src/coordinator.cc, Server::Join *)
(* and Client::Join, Tablet::SettingupQPConnect).                          *)
(*                                                                         *)
(* The coordinator runs its handlers one at a time on one thread.  A TCP   *)
(* connection delivers one request and at most one answer; it is closed    *)
(* when the coordinator drops the session, or dies.                        *)
(***************************************************************************)
EXTENDS IndexManager, Sequences, FiniteSets

CONSTANTS Clients,
          MaxCrashes  \* bound on the server processes that crash

\* A process joins as a server or as a client.
NoClientServes == Processes \cap Clients = {}

ASSUME ClusterAssumption == ClusterConstants /\ NoClientServes /\ MaxCrashes \in Nat

VARIABLES
  \* the coordinator
  coordUp,        \* FALSE after an assertion failed
  num_servers_,
  next_id,        \* the counter of AllocServerId
  index_manager_,
  sessions_,      \* the sessions of the servers waiting for an answer
  \* the connections to the coordinator
  requests,       \* processes whose REQ_JOIN has not been handled
  answers,        \* process |-> the answer under way to it
  \* the servers and the clients
  pc,             \* process |-> how far it has come
  joined,         \* process |-> the RES_JOIN it has received
  connected,      \* server process |-> tablets it has connected
  qps             \* queue pair |-> its state and peer

coordVars == <<coordUp, num_servers_, next_id, index_manager_, sessions_>>
netVars == <<requests, answers>>
peerVars == <<pc, joined, connected, qps>>
vars == <<coordVars, netVars, peerVars>>

Procs == Processes \cup Clients
QPs == Processes \X TabletIdxs \X Replicas

Answer(kind, id, im) == [kind |-> kind, id |-> id, index_manager |-> im]
NoAnswer == Answer("none", Garbage, Garbage)

\* The constructor of a queue pair leaves it in this state.
NewQueuePair == [state |-> "INIT", peer |-> Garbage]

Init ==
  /\ coordUp = TRUE
  /\ num_servers_ = 0
  /\ next_id = 0
  /\ index_manager_ = EmptyIndex
  /\ sessions_ = <<>>
  /\ requests = {}
  /\ answers = [p \in Procs |-> NoAnswer]
  /\ pc = [p \in Procs |-> "start"]
  /\ joined = [p \in Procs |-> NoAnswer]
  /\ connected = [p \in Processes |-> 0]
  /\ qps = [q \in QPs |-> NewQueuePair]

----------------------------------------------------------------------------
(* Joining processes.                                                      *)

\* Connect to the coordinator and send REQ_JOIN.  Without a coordinator the
\* connection is refused.
RequestJoin(p) ==
  /\ pc[p] = "start"
  /\ IF coordUp
     THEN pc' = [pc EXCEPT ![p] = "requested"] /\ requests' = requests \cup {p}
     ELSE pc' = [pc EXCEPT ![p] = "failed"] /\ UNCHANGED requests
  /\ UNCHANGED <<coordVars, answers, joined, connected, qps>>

\* RecvMessage returns RES_JOIN, and a server goes on to connect its tablets.
RecvAnswer(p) ==
  /\ pc[p] = "requested"
  /\ answers[p].kind = "RES_JOIN"
  /\ joined' = [joined EXCEPT ![p] = answers[p]]
  /\ pc' = [pc EXCEPT ![p] = "connecting"]
  /\ UNCHANGED <<coordVars, netVars, connected, qps>>

\* Client::Join returns, and the client is ready.
ClientRecvAnswer(c) ==
  /\ pc[c] = "requested"
  /\ answers[c].kind = "RES_JOIN"
  /\ joined' = [joined EXCEPT ![c] = answers[c]]
  /\ pc' = [pc EXCEPT ![c] = "ready"]
  /\ UNCHANGED <<coordVars, netVars, connected, qps>>

\* RecvMessage throws: the session was dropped, or the coordinator died,
\* perhaps before its answer was on the wire.
RecvFails(p) ==
  /\ pc[p] = "requested"
  /\ answers[p].kind = "eof" \/ ~coordUp
  /\ pc' = [pc EXCEPT ![p] = "failed"]
  /\ UNCHANGED <<coordVars, netVars, joined, connected, qps>>

\* Connect a queue pair to its peer: SetStateRTR, and then RTS on a master.
SetState(q, state, peer) == [qps EXCEPT ![q] = [state |-> state, peer |-> peer]]

\* Tablet::SettingupQPConnect for a backup: find this tablet among its
\* master's backups, and make queue pair 0 ready to receive from there.
ConnectBackup(p, idx, id, im) ==
  LET m == im.tablets[master(im, id)]
      found == {r \in Replicas : m.link[r] = id}
  IN  IF m.is_backup \/ found = {}
      THEN pc' = [pc EXCEPT ![p] = "aborted"] /\ UNCHANGED qps
      ELSE LET r == CHOOSE r \in found : \A s \in found : r <= s
           IN  qps' = SetState(<<p, idx, 0>>, "RTR", m.qpis[r]) /\ UNCHANGED pc

\* ... and for a master: queue pair r gets ready to send to backup r.
ConnectMaster(p, idx, id, im) ==
  LET backup(r) == im.tablets[backups(im, id)[r]]
  IN  IF \E r \in Replicas : ~backup(r).is_backup
      THEN pc' = [pc EXCEPT ![p] = "aborted"] /\ UNCHANGED qps
      ELSE /\ qps' = [q \in QPs |->
                        IF q[1] = p /\ q[2] = idx
                        THEN [state |-> "RTS", peer |-> backup(q[3]).qpis[0]]
                        ELSE qps[q]]
           /\ UNCHANGED pc

\* One turn of the loop of Server::Join over the server's tablets.
ConnectTablet(p) ==
  LET im == joined[p].index_manager
      idx == connected[p]
      id == im.servers[joined[p].id].tablets[idx]
  IN  /\ pc[p] = "connecting"
      /\ connected[p] < kNumTabletAndBackupsPerServer
      /\ connected' = [connected EXCEPT ![p] = @ + 1]
      /\ IF im.tablets[id].is_backup THEN ConnectBackup(p, idx, id, im)
                                     ELSE ConnectMaster(p, idx, id, im)
      /\ UNCHANGED <<coordVars, netVars, joined>>

\* Join returns true and Run starts the poller.
StartServing(p) ==
  /\ pc[p] = "connecting"
  /\ connected[p] = kNumTabletAndBackupsPerServer
  /\ pc' = [pc EXCEPT ![p] = "serving"]
  /\ UNCHANGED <<coordVars, netVars, joined, connected, qps>>

\* A server process dies.  What it has sent is still delivered.
Crash(p) ==
  /\ pc[p] \in {"requested", "connecting", "serving"}
  /\ Cardinality({q \in Processes : pc[q] = "crashed"}) < MaxCrashes
  /\ pc' = [pc EXCEPT ![p] = "crashed"]
  /\ UNCHANGED <<coordVars, netVars, joined, connected, qps>>

----------------------------------------------------------------------------
(* The coordinator.                                                        *)

ResponseButLast(im, sessions) ==
  /\ answers' = [p \in Procs |->
       IF \E i \in 1..(Len(sessions) - 1) : sessions[i] = p
       THEN Answer("RES_JOIN",
                   (CHOOSE i \in 1..Len(sessions) : sessions[i] = p) - 1, im)
       ELSE answers[p]]
  /\ sessions_' = <<>>
ResponseReversed(im, sessions) ==
  /\ answers' = [p \in Procs |->
       IF \E i \in 1..Len(sessions) : sessions[i] = p
       THEN Answer("RES_JOIN", Len(sessions)
                     - (CHOOSE i \in 1..Len(sessions) : sessions[i] = p), im)
       ELSE answers[p]]
  /\ sessions_' = <<>>

\* Answer every session in the list, with its place in the list as the id,
\* and clear the list.
ResponseAllJoins(im, sessions) ==
  /\ answers' = [p \in Procs |->
       IF \E i \in 1..Len(sessions) : sessions[i] = p
       THEN Answer("RES_JOIN",
                   (CHOOSE i \in 1..Len(sessions) : sessions[i] = p) - 1, im)
       ELSE answers[p]]
  /\ sessions_' = <<>>

Full == num_servers_ >= kNumServers

\* "too much servers, ignored": the last reference to the session goes.
IgnoreJoinKeepSession(p) == UNCHANGED <<coordVars, answers>>
IgnoreJoinAfterAdd(p) ==
  /\ answers' = [answers EXCEPT ![p] = Answer("eof", Garbage, Garbage)]
  /\ index_manager_' = AddServer(index_manager_, next_id, p)
  /\ next_id' = next_id + 1
  /\ UNCHANGED <<coordUp, num_servers_, sessions_>>
IgnoreJoin(p) ==
  /\ answers' = [answers EXCEPT ![p] = Answer("eof", Garbage, Garbage)]
  /\ UNCHANGED coordVars

HandleServerRequestJoin(p) ==
  /\ coordUp /\ p \in requests /\ p \in Processes
  /\ requests' = requests \ {p}
  /\ IF Full
     THEN IgnoreJoin(p)
     ELSE LET im == AddServer(index_manager_, next_id, p)
              sessions == Append(sessions_, p)
          IN  /\ index_manager_' = im
              /\ next_id' = next_id + 1
              /\ num_servers_' = num_servers_ + 1
              /\ IF num_servers_ + 1 = kNumServers
                 THEN ResponseAllJoins(im, sessions)
                 ELSE sessions_' = sessions /\ UNCHANGED answers
              /\ UNCHANGED coordUp
  /\ UNCHANGED peerVars

HandleClientRequestJoin(c) ==
  /\ coordUp /\ c \in requests /\ c \in Clients
  /\ requests' = requests \ {c}
  /\ IF num_servers_ = kNumServers
     THEN /\ answers' = [answers EXCEPT ![c] =
                           Answer("RES_JOIN", Garbage, index_manager_)]
          /\ UNCHANGED coordUp
     ELSE coordUp' = FALSE /\ UNCHANGED answers
  /\ UNCHANGED <<num_servers_, next_id, index_manager_, sessions_, peerVars>>

----------------------------------------------------------------------------
Next ==
  \/ \E p \in Procs : RequestJoin(p) \/ RecvFails(p)
  \/ \E p \in Processes : RecvAnswer(p) \/ ConnectTablet(p) \/ StartServing(p) \/ Crash(p)
  \/ \E p \in Processes : HandleServerRequestJoin(p)
  \/ \E c \in Clients : ClientRecvAnswer(c) \/ HandleClientRequestJoin(c)

\* A started process runs on, and the coordinator's event loop gets to every
\* request it has received.  Nothing says that a process is ever started.
Fairness ==
  /\ \A p \in Procs : WF_vars(RecvFails(p))
  /\ \A p \in Processes : /\ WF_vars(RecvAnswer(p))
                          /\ WF_vars(ConnectTablet(p))
                          /\ WF_vars(StartServing(p))
                          /\ WF_vars(HandleServerRequestJoin(p))
  /\ \A c \in Clients : /\ WF_vars(ClientRecvAnswer(c))
                        /\ WF_vars(HandleClientRequestJoin(c))

Spec == Init /\ [][Next]_vars /\ Fairness

----------------------------------------------------------------------------
(* Properties.                                                             *)

HasIndex(p) == joined[p].kind = "RES_JOIN"

\* The id a server is told, its place in sessions_, is the id AddServer
\* entered it under: each server finds itself, and its own tablets, in the
\* index it receives.
IdsMatchIndex ==
  \A p \in Processes : HasIndex(p) =>
    LET im == joined[p].index_manager
        info == im.servers[joined[p].id]
    IN  /\ info.addr = p
        /\ \A x \in TabletIdxs : /\ im.tablets[info.tablets[x]].server_id = joined[p].id
                                 /\ im.tablets[info.tablets[x]].qpis = QPI(p, x)

\* Servers and clients, whenever they joined, hold the same index.
SameIndex ==
  \A p, q \in Procs : HasIndex(p) /\ HasIndex(q) =>
    joined[p].index_manager = joined[q].index_manager

Masters == {CalcTabletId(s, 0, t) : s \in ServerIds, t \in 0..(kNumTabletsPerServer - 1)}

\* The key space is spread over all masters, and each master has its backups on
\* kNumReplicas different servers, none of them its own, which name it as
\* their master.
Replicated(im) ==
  LET server(id) == im.tablets[id].server_id
  IN  /\ {im.key_tablet_map[x] : x \in 0..(kNumTablets - 1)} = Masters
      /\ \A m \in Masters :
           /\ ~im.tablets[m].is_backup
           /\ \A r \in Replicas :
                LET b == backups(im, m)[r]
                IN  /\ b \in TabletIds /\ im.tablets[b].is_backup
                    /\ master(im, b) = m
                    /\ server(b) # server(m)
                    /\ \A r2 \in Replicas \ {r} : server(backups(im, m)[r2]) # server(b)

\* Every index handed out describes a complete replication layout.
LayoutComplete == \A p \in Procs : HasIndex(p) => Replicated(joined[p].index_manager)

\* The worker that Server::Dispatch of every server hands requests for tablet
\* id to; worker i serves the server's tablet number i.
WorkerOf(id) == id % kNumTabletAndBackupsPerServer

\* A request reaches the one thread that owns its key: the server a client
\* picks finds, from its own copy of the index, a worker that exists and that
\* serves the master tablet of this part of the key space.
RequestsReachMasters ==
  \A p, q \in Procs : HasIndex(p) /\ HasIndex(q) /\ q \in Processes =>
    \A x \in 0..(kNumTablets - 1) :
      LET id == joined[q].index_manager.key_tablet_map[x]
          info == joined[q].index_manager.servers[joined[q].id]
      IN  GetServer(joined[p].index_manager, x).addr = q =>
            /\ WorkerOf(id) < kNumTabletsPerServer
            /\ info.tablets[WorkerOf(id)] = id
            /\ ~joined[q].index_manager.tablets[id].is_backup

\* The assertions of SettingupQPConnect on what the index says never fail.
NoServerAborts == \A p \in Processes : pc[p] # "aborted"

\* Servers set up their ends independently, yet the ends meet: the queue
\* pair a master sends on and the one its peer listens on name each other,
\* no two masters send to the same queue pair, and nobody finds its index
\* at odds with what it set out to connect.
QueuePairsPaired ==
  /\ NoServerAborts
  /\ \A q \in QPs : qps[q].state = "RTS" =>
       LET peer == qps[q].peer
       IN  /\ peer \in QPs
           /\ qps[peer].state # "INIT" => qps[peer] = [state |-> "RTR", peer |-> q]
           /\ \A r \in QPs \ {q} : qps[r].state = "RTS" => qps[r].peer # peer

\* Nobody waits for ever once the cluster is complete: a process whose
\* request is outstanding gets its answer, or learns that there is none.
JoinsAnswered ==
  \A p \in Procs :
    (pc[p] = "requested" /\ num_servers_ = kNumServers) ~> (pc[p] # "requested")

\* The queue pairs that p writes to are ready, but for those of the dead.
PeersReady(p) ==
  \A q \in QPs : q[1] = p /\ qps[q].state = "RTS" =>
    qps[qps[q].peer].state = "RTR" \/ pc[qps[q].peer[1]] = "crashed"

\* A server serves as soon as its own side is connected, maybe before its
\* backups are; but the wait is not for ever, only a crash keeps a backup away.
BackupsGetReady == \A p \in Processes : (pc[p] = "serving") ~> PeersReady(p)

============================================================================
