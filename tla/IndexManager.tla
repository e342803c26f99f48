---------------------------- MODULE IndexManager ----------------------------
(***************************************************************************)
(* The index of the cluster (src/src/index.{h,cc}): which server holds     *)
(* which tablet, which tablets are backups of which, and which tablet a    *)
(* part of the key space belongs to.  The coordinator builds it, one       *)
(* AddServer per join request, and sends a copy to everybody.              *)
(*                                                                         *)
(* Every server holds kNumTabletsPerServer master tablets and, for each    *)
(* replica number 1..kNumReplicas, as many backup tablets.                 *)
(***************************************************************************)
EXTENDS Integers

CONSTANTS kNumServers, kNumReplicas, kNumTabletsPerServer,
          Processes,  \* server processes, the peers of queue pairs
          Garbage     \* the value of memory nobody has written

\* With kNumReplicas >= kNumServers a backup would share its master's server.
ClusterConstants ==
  /\ kNumServers \in Nat /\ kNumReplicas \in Nat \ {0}
  /\ kNumReplicas < kNumServers
  /\ kNumTabletsPerServer \in Nat \ {0}
  /\ Garbage \notin Int /\ Garbage \notin Processes

kNumTabletAndBackupsPerServer == kNumTabletsPerServer * (1 + kNumReplicas)
kNumTablets == kNumTabletsPerServer * kNumServers
kNumTabletAndBackups == kNumTabletAndBackupsPerServer * kNumServers

ServerIds == 0..(kNumServers - 1)
TabletIds == 0..(kNumTabletAndBackups - 1)
TabletIdxs == 0..(kNumTabletAndBackupsPerServer - 1)
Replicas == 0..(kNumReplicas - 1)

\* Tablet t_idx of replica number r_idx (0: the masters) of server s_idx.
SwappedTabletId(s_idx, r_idx, t_idx) ==
  s_idx * kNumTabletAndBackupsPerServer + t_idx * kNumTabletsPerServer + r_idx
CalcTabletId(s_idx, r_idx, t_idx) ==
  s_idx * kNumTabletAndBackupsPerServer + r_idx * kNumTabletsPerServer + t_idx

\* The arguments CalcTabletId was called with.
ServerOf(id) == id \div kNumTabletAndBackupsPerServer
ReplicaOf(id) == (id % kNumTabletAndBackupsPerServer) \div kNumTabletsPerServer
SlotOf(id) == id % kNumTabletsPerServer

\* The server whose masters the replica j tablets of server i back up.
SameServer(i, j) == i
MasterServer(i, j) == (kNumServers + i - j) % kNumServers

\* struct TabletInfo.  `link' is the union: the array backups of a master;
\* the field master of a backup shares its storage with the first element.
NoTablet == [server_id |-> Garbage, is_backup |-> Garbage,
             qpis |-> [r \in Replicas |-> Garbage],
             link |-> [r \in Replicas |-> Garbage]]

\* A queue pair is named by the process, tablet and replica it was made for;
\* the name stands for its lid, number, key and address.
QPIFirst(p, tablet_idx) == [r \in Replicas |-> <<p, 0, r>>]
QPI(p, tablet_idx) == [r \in Replicas |-> <<p, tablet_idx, r>>]

EmptyIndex ==
  [key_tablet_map |-> [x \in 0..(kNumTablets - 1) |-> Garbage],
   tablets |-> [id \in TabletIds |-> NoTablet],
   servers |-> [s \in ServerIds |-> Garbage]]

LinkOffByOne(id, i, old) ==
  [r \in Replicas |->
     IF ServerOf(id) = i /\ ReplicaOf(id) > 0 /\ r = 0
     THEN CalcTabletId(MasterServer(i, ReplicaOf(id)), 0, SlotOf(id))
     ELSE IF ReplicaOf(id) = 0 /\ ServerOf(id) = MasterServer(i, r)
     THEN CalcTabletId(i, r, SlotOf(id))
     ELSE old[r]]

\* The links of tablet id after AddServer has given server i its tablets:
\* i's own backups learn their master, and the masters on other servers
\* learn which of their backups are on i.
LinkOf(id, i, old) ==
  [r \in Replicas |->
     IF ServerOf(id) = i /\ ReplicaOf(id) > 0 /\ r = 0
     THEN CalcTabletId(MasterServer(i, ReplicaOf(id)), 0, SlotOf(id))
     ELSE IF ReplicaOf(id) = 0 /\ ServerOf(id) = MasterServer(i, r + 1)
     THEN CalcTabletId(i, r + 1, SlotOf(id))
     ELSE old[r]]

\* AddServer with `i' the id it allocates for the process p.
AddServer(im, i, p) ==
  [key_tablet_map |->
     [x \in 0..(kNumTablets - 1) |->
        IF x \div kNumTabletsPerServer = i
        THEN CalcTabletId(i, 0, x % kNumTabletsPerServer)
        ELSE im.key_tablet_map[x]],
   tablets |->
     [id \in TabletIds |->
        IF ServerOf(id) = i
        THEN [server_id |-> i, is_backup |-> ReplicaOf(id) > 0,
              qpis |-> QPI(p, id % kNumTabletAndBackupsPerServer),
              link |-> LinkOf(id, i, im.tablets[id].link)]
        ELSE [im.tablets[id] EXCEPT !.link = LinkOf(id, i, @)]],
   servers |->
     [im.servers EXCEPT ![i] =
        [addr |-> p, active |-> TRUE,
         tablets |-> [x \in TabletIdxs |->
           i * kNumTabletAndBackupsPerServer + x]]]]

\* The server that a client sends the requests of slice x of the key space to.
GetServerCyclic(im, x) == im.servers[x % kNumServers]
GetServer(im, x) == im.servers[im.tablets[im.key_tablet_map[x]].server_id]

backups(im, id) == im.tablets[id].link
master(im, id) == im.tablets[id].link[0]

=============================================================================
