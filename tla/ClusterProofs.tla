--------------------------- MODULE ClusterProofs ----------------------------
(***************************************************************************)
(* Joining the cluster, for every number of servers, replicas, tablets,    *)
(* processes, clients and crashes.                                         *)
(*                                                                         *)
(* First, what AddServer makes of the index: lemmas on CalcTabletId and on *)
(* the ring of servers, the index after n calls of AddServer (IndexUpTo),  *)
(* and what the complete index tells servers and clients. Then two         *)
(* inductive invariants of Cluster: JoinInv, on the coordinator, its index *)
(* and its answers, and ConnInv, on how far each server has come with      *)
(* connecting its queue pairs.                                             *)
(***************************************************************************)
EXTENDS Cluster, TLAPS

\* Quotient and remainder exist, and are the only ones.
LEMMA Euclid ==
  ASSUME NEW q \in Nat, NEW d \in Nat \ {0}, NEW r \in 0..(d - 1), NEW x, x = q * d + r
  PROVE  x \div d = q /\ x % d = r
  OBVIOUS
LEMMA Quotient ==
  ASSUME NEW d \in Nat \ {0}, NEW x \in Nat
  PROVE  x \div d \in Nat /\ x % d \in 0..(d - 1) /\ x = (x \div d) * d + (x % d)
  OBVIOUS

\* A number below a * d has a quotient below a.
LEMMA QuotientBound ==
  ASSUME NEW a \in Nat, NEW d \in Nat \ {0}, NEW x \in 0..(a * d - 1)
  PROVE  x \div d \in 0..(a - 1)
  OBVIOUS
LEMMA ProductBound ==
  ASSUME NEW a \in Nat, NEW d \in Nat \ {0}, NEW q \in 0..(a - 1), NEW r \in 0..(d - 1)
  PROVE  q * d + r \in 0..(a * d - 1)
  OBVIOUS

----------------------------------------------------------------------------
(* The numbering of the tablets.                                           *)

ReplicaNumbers == 0..kNumReplicas
Slots == 0..(kNumTabletsPerServer - 1)

\* The numbers of tablets that common.h computes.
LEMMA Sizes ==
  ASSUME ClusterConstants
  PROVE  /\ kNumServers \in Nat /\ kNumReplicas \in Nat \ {0} /\ kNumReplicas < kNumServers
         /\ kNumTabletsPerServer \in Nat \ {0}
         /\ kNumTabletAndBackupsPerServer \in Nat \ {0}
         /\ kNumTabletAndBackupsPerServer = (1 + kNumReplicas) * kNumTabletsPerServer
         /\ kNumTabletAndBackups = kNumServers * kNumTabletAndBackupsPerServer
         /\ kNumTablets = kNumServers * kNumTabletsPerServer
  BY DEF ClusterConstants, kNumTabletAndBackupsPerServer, kNumTabletAndBackups, kNumTablets

\* CalcTabletId puts its arguments together so that they can be read off again.
LEMMA Compose ==
  ASSUME ClusterConstants, NEW s \in ServerIds, NEW j \in ReplicaNumbers, NEW t \in Slots
  PROVE  LET id == CalcTabletId(s, j, t)
         IN  /\ id \in TabletIds
             /\ ServerOf(id) = s /\ ReplicaOf(id) = j /\ SlotOf(id) = t
             /\ id % kNumTabletAndBackupsPerServer = j * kNumTabletsPerServer + t
             /\ j * kNumTabletsPerServer + t \in TabletIdxs
<1> DEFINE K == kNumTabletAndBackupsPerServer
           T == kNumTabletsPerServer
           x == j * T + t
           y == s * K + x
<1>1. /\ K \in Nat \ {0} /\ T \in Nat \ {0} /\ kNumReplicas \in Nat /\ K = (1 + kNumReplicas) * T
      /\ kNumTabletAndBackups = kNumServers * K /\ kNumServers \in Nat
      /\ s \in 0..(kNumServers - 1) /\ j \in 0..kNumReplicas /\ t \in 0..(T - 1)
  BY Zenon, Sizes DEF ServerIds, ReplicaNumbers, Slots
<1> HIDE DEF K, T
<1>2. x \in 0..(K - 1)
  BY <1>1, ProductBound
<1>3. y \in 0..(kNumServers * K - 1)
  BY Zenon, <1>1, <1>2, ProductBound
<1>4. y \div K = s /\ y % K = x
  <2>1. s \in Nat /\ K \in Nat \ {0} /\ x \in 0..(K - 1)
    BY <1>1, <1>2
  <2> HIDE DEF x
  <2> QED
    BY <2>1, Euclid
<1>5. x \div T = j
  <2>1. j \in Nat /\ T \in Nat \ {0} /\ t \in 0..(T - 1)
    BY <1>1
  <2> QED
    BY Zenon, <2>1, Euclid
<1>6. y % T = t
  <2> DEFINE q == s * (1 + kNumReplicas) + j
  <2>1. q \in Nat /\ T \in Nat \ {0} /\ t \in 0..(T - 1) /\ y = q * T + t
    BY <1>1
  <2> HIDE DEF q, y
  <2> QED
    BY <2>1, Euclid
<1>7. CalcTabletId(s, j, t) = y
  BY <1>1 DEF CalcTabletId, K, T
<1> QED
  BY Zenon, <1>1, <1>2, <1>3, <1>4, <1>5, <1>6, <1>7
  DEF TabletIds, TabletIdxs, ServerOf, ReplicaOf, SlotOf, K, T

\* ... and every tablet id is the id of some server, replica number and slot.
LEMMA Decompose ==
  ASSUME ClusterConstants, NEW id \in TabletIds
  PROVE  /\ ServerOf(id) \in ServerIds /\ ReplicaOf(id) \in ReplicaNumbers /\ SlotOf(id) \in Slots
         /\ id = CalcTabletId(ServerOf(id), ReplicaOf(id), SlotOf(id))
<1> DEFINE K == kNumTabletAndBackupsPerServer
           T == kNumTabletsPerServer
           s == id \div K
           x == id % K
           j == x \div T
           t == x % T
<1>1. /\ K \in Nat \ {0} /\ T \in Nat \ {0} /\ kNumReplicas \in Nat /\ K = (1 + kNumReplicas) * T
      /\ kNumTabletAndBackups = kNumServers * K /\ kNumServers \in Nat
      /\ id \in 0..(kNumServers * K - 1)
  BY Zenon, Sizes DEF TabletIds
<1> HIDE DEF K, T
<1>2. s \in 0..(kNumServers - 1)
  BY Zenon, <1>1, QuotientBound
<1>3. x \in 0..(K - 1) /\ id = s * K + x
  <2>1. K \in Nat \ {0} /\ id \in Nat
    BY <1>1
  <2> QED
    BY Zenon, <2>1, Quotient
<1>4. j \in 0..kNumReplicas
  <2>1. x \in 0..((1 + kNumReplicas) * T - 1) /\ 1 + kNumReplicas \in Nat
    BY <1>1, <1>3
  <2>2. j \in 0..((1 + kNumReplicas) - 1)
    BY Zenon, <1>1, <2>1, QuotientBound
  <2> QED
    BY <1>1, <2>2
<1>5. t \in 0..(T - 1) /\ x = j * T + t
  <2>1. T \in Nat \ {0} /\ x \in Nat
    BY <1>1, <1>3
  <2> HIDE DEF x
  <2> QED
    BY Zenon, <2>1, Quotient
<1>6. CalcTabletId(s, j, t) = id
  <2>1. CalcTabletId(s, j, t) = s * K + j * T + t
    BY Zenon DEF CalcTabletId, K, T
  <2>2. s * K \in Nat /\ j * T \in Nat /\ t \in Nat
    BY <1>1, <1>2, <1>4, <1>5
  <2> HIDE DEF s, j, t, x
  <2> QED
    BY <1>3, <1>5, <2>1, <2>2
<1>7. s \in ServerIds /\ j \in ReplicaNumbers /\ t \in Slots
  BY Zenon, <1>2, <1>4, <1>5 DEF ServerIds, ReplicaNumbers, Slots, T
<1>8. SlotOf(CalcTabletId(s, j, t)) = t
  BY Zenon, <1>7, Compose
<1>9. SlotOf(id) = t /\ ServerOf(id) = s /\ ReplicaOf(id) = j
  BY Zenon, <1>6, <1>8 DEF ServerOf, ReplicaOf, K, T
<1> QED
  BY Zenon, <1>6, <1>7, <1>9

\* Tablet number x of a server.
LEMMA OwnTablet ==
  ASSUME ClusterConstants, NEW s \in ServerIds, NEW x \in TabletIdxs
  PROVE  LET id == s * kNumTabletAndBackupsPerServer + x
         IN  id \in TabletIds /\ ServerOf(id) = s /\ id % kNumTabletAndBackupsPerServer = x
<1> DEFINE K == kNumTabletAndBackupsPerServer
<1>1. /\ K \in Nat \ {0} /\ kNumServers \in Nat /\ kNumTabletAndBackups = kNumServers * K
      /\ s \in 0..(kNumServers - 1) /\ x \in 0..(K - 1)
  BY Zenon, Sizes DEF ServerIds, TabletIdxs
<1> HIDE DEF K
<1>2. s * K + x \in 0..(kNumServers * K - 1)
  BY Zenon, <1>1, ProductBound
<1>3. (s * K + x) \div K = s /\ (s * K + x) % K = x
  <2> DEFINE y == s * K + x
  <2>1. s \in Nat /\ K \in Nat \ {0} /\ x \in 0..(K - 1) /\ y = s * K + x
    BY <1>1
  <2> HIDE DEF y
  <2>2. y \div K = s /\ y % K = x
    BY <2>1
  <2> QED
    BY Zenon, <2>2 DEF y
<1> QED
  BY Zenon, <1>1, <1>2, <1>3 DEF K, TabletIds, ServerOf

\* The part of the key space that belongs to slot t of server s.
LEMMA KeySlices ==
  ASSUME ClusterConstants
  PROVE  /\ \A x \in 0..(kNumTablets - 1) :
              x \div kNumTabletsPerServer \in ServerIds /\ x % kNumTabletsPerServer \in Slots
         /\ \A s \in ServerIds, t \in Slots :
              LET x == s * kNumTabletsPerServer + t
              IN  /\ x \in 0..(kNumTablets - 1)
                  /\ x \div kNumTabletsPerServer = s /\ x % kNumTabletsPerServer = t
<1> DEFINE T == kNumTabletsPerServer
<1>1. T \in Nat \ {0} /\ kNumServers \in Nat /\ kNumTablets = kNumServers * T
  BY Zenon, Sizes
<1> HIDE DEF T
<1>2. ASSUME NEW x \in 0..(kNumServers * T - 1)
      PROVE  x \div T \in 0..(kNumServers - 1) /\ x % T \in 0..(T - 1)
  <2>1. x \div T \in 0..(kNumServers - 1)
    BY Zenon, <1>1, QuotientBound
  <2>2. T \in Nat \ {0} /\ x \in Nat
    BY <1>1
  <2> QED
    BY Zenon, <2>1, <2>2, Quotient
<1>3. ASSUME NEW s \in 0..(kNumServers - 1), NEW t \in 0..(T - 1)
      PROVE  s * T + t \in 0..(kNumServers * T - 1)
  BY Zenon, <1>1, ProductBound
<1>4. ASSUME NEW s \in 0..(kNumServers - 1), NEW t \in 0..(T - 1)
      PROVE  (s * T + t) \div T = s /\ (s * T + t) % T = t
  <2> DEFINE y == s * T + t
  <2>1. s \in Nat /\ T \in Nat \ {0} /\ y = s * T + t
    BY <1>1
  <2> HIDE DEF y
  <2>2. y \div T = s /\ y % T = t
    BY <2>1
  <2> QED
    BY Zenon, <2>2 DEF y
<1> QED
  BY Zenon, <1>1, <1>2, <1>3, <1>4 DEF T, ServerIds, Slots

\* The server that has replica j of the masters of server s.
BackupServer(s, j) == (s + j) % kNumServers

\* One lap around the ring of servers.
LEMMA Around ==
  ASSUME ClusterConstants, NEW x \in 0..(2 * kNumServers - 1)
  PROVE  x % kNumServers = IF x < kNumServers THEN x ELSE x - kNumServers
<1>1. kNumServers \in Nat \ {0}
  BY Sizes
<1>2. CASE x < kNumServers
  BY <1>1, <1>2
<1>3. CASE ~(x < kNumServers)
  <2>1. x = 1 * kNumServers + (x - kNumServers) /\ x - kNumServers \in 0..(kNumServers - 1)
    BY <1>1, <1>3
  <2> QED
    BY <1>1, <1>3, <2>1
<1> QED
  BY Zenon, <1>2, <1>3

\* The two ways in which AddServer walks the ring undo each other: replica j of
\* server s is on a server that takes s for its master, and only that replica is.
LEMMA Neighbours ==
  ASSUME ClusterConstants, NEW s \in ServerIds, NEW j \in 1..kNumReplicas
  PROVE  /\ BackupServer(s, j) \in ServerIds /\ BackupServer(s, j) # s
         /\ MasterServer(s, j) \in ServerIds
         /\ MasterServer(BackupServer(s, j), j) = s
         /\ BackupServer(MasterServer(s, j), j) = s
         /\ \A k \in 1..kNumReplicas : BackupServer(s, k) = BackupServer(s, j) => k = j
<1>1. /\ kNumServers \in Nat /\ kNumReplicas \in Nat \ {0} /\ kNumReplicas < kNumServers
      /\ s \in 0..(kNumServers - 1)
  BY Zenon, Sizes DEF ServerIds
<1>2. ASSUME NEW i \in 0..(kNumServers - 1), NEW k \in 1..kNumReplicas
      PROVE  /\ BackupServer(i, k) = IF i + k < kNumServers THEN i + k ELSE i + k - kNumServers
             /\ MasterServer(i, k) = IF i < k THEN kNumServers + i - k ELSE i - k
  <2>1. i + k \in 0..(2 * kNumServers - 1) /\ kNumServers + i - k \in 0..(2 * kNumServers - 1)
    BY <1>1
  <2> QED
    BY <1>1, <2>1, Around DEF BackupServer, MasterServer
<1>3. BackupServer(s, j) \in 0..(kNumServers - 1) /\ MasterServer(s, j) \in 0..(kNumServers - 1)
  <2>1. /\ BackupServer(s, j) = IF s + j < kNumServers THEN s + j ELSE s + j - kNumServers
        /\ MasterServer(s, j) = IF s < j THEN kNumServers + s - j ELSE s - j
    BY Zenon, <1>1, <1>2
  <2> QED
    BY <1>1, <2>1
<1>4. BackupServer(s, j) # s
  BY <1>1, <1>2
<1>5. ASSUME NEW i \in 0..(kNumServers - 1), i = BackupServer(s, j) PROVE MasterServer(i, j) = s
  <2>1. /\ i = IF s + j < kNumServers THEN s + j ELSE s + j - kNumServers
        /\ MasterServer(i, j) = IF i < j THEN kNumServers + i - j ELSE i - j
    BY Zenon, <1>1, <1>2, <1>5
  <2> QED
    BY <1>1, <2>1
<1>6. ASSUME NEW i \in 0..(kNumServers - 1), i = MasterServer(s, j) PROVE BackupServer(i, j) = s
  BY <1>1, <1>2, <1>6
<1>7. ASSUME NEW k \in 1..kNumReplicas, BackupServer(s, k) = BackupServer(s, j) PROVE k = j
  BY <1>1, <1>2, <1>7
<1> QED
  BY Zenon, <1>3, <1>4, <1>5, <1>6, <1>7 DEF ServerIds

----------------------------------------------------------------------------
(* The index after n servers were added.                                   *)

ServerInfo(i, p) ==
  [addr |-> p, active |-> TRUE,
   tablets |-> [x \in TabletIdxs |-> i * kNumTabletAndBackupsPerServer + x]]
Owner(im, i) == im.servers[i].addr

ServersAdded(im, n) ==
  /\ DOMAIN im.servers = ServerIds
  /\ \A i \in 0..(n - 1) : Owner(im, i) \in Processes /\ im.servers[i] = ServerInfo(i, Owner(im, i))
  /\ \A i, j \in 0..(n - 1) : Owner(im, i) = Owner(im, j) => i = j

IsTablet(t) ==
  t = [server_id |-> t.server_id, is_backup |-> t.is_backup, qpis |-> t.qpis, link |-> t.link]
TabletAdded(im, n, id) ==
  LET t == im.tablets[id]
      s == ServerOf(id)
      j == ReplicaOf(id)
  IN  /\ IsTablet(t)
      /\ s < n => /\ t.server_id = s /\ t.is_backup = (j > 0)
                  /\ t.qpis = QPI(Owner(im, s), id % kNumTabletAndBackupsPerServer)
      /\ j > 0 /\ s < n => t.link[0] = CalcTabletId(MasterServer(s, j), 0, SlotOf(id))
      /\ j = 0 => \A r \in Replicas :
           BackupServer(s, r + 1) < n =>
             t.link[r] = CalcTabletId(BackupServer(s, r + 1), r + 1, SlotOf(id))
KeysAdded(im, n) ==
  \A x \in 0..(kNumTablets - 1) :
    x \div kNumTabletsPerServer < n =>
      im.key_tablet_map[x] =
        CalcTabletId(x \div kNumTabletsPerServer, 0, x % kNumTabletsPerServer)

IndexUpTo(im, n) ==
  ServersAdded(im, n) /\ KeysAdded(im, n) /\ \A id \in TabletIds : TabletAdded(im, n, id)

\* Replica numbers start at 1, the indices of the array of backups at 0.
LEMMA ReplicaFacts ==
  ASSUME ClusterConstants
  PROVE  /\ 0 \in Replicas /\ \A r \in Replicas : r + 1 \in 1..kNumReplicas
         /\ 0 \in ReplicaNumbers /\ \A j \in 1..kNumReplicas : j \in ReplicaNumbers /\ j - 1 \in Replicas
         /\ \A j \in ReplicaNumbers : j > 0 <=> j \in 1..kNumReplicas
         /\ \A j \in ReplicaNumbers : j = 0 <=> ~(j > 0)
  BY Sizes DEF Replicas, ReplicaNumbers

\* Before the first AddServer.
LEMMA EmptyAdded == ASSUME ClusterConstants PROVE IndexUpTo(EmptyIndex, 0)
<1>1. ServersAdded(EmptyIndex, 0)
  BY DEF ServersAdded, EmptyIndex
<1>2. KeysAdded(EmptyIndex, 0)
  <2>1. \A x \in 0..(kNumTablets - 1) : x \div kNumTabletsPerServer \in ServerIds
    BY Zenon, KeySlices
  <2> QED
    BY <2>1 DEF KeysAdded, ServerIds
<1>3. ASSUME NEW id \in TabletIds PROVE TabletAdded(EmptyIndex, 0, id)
  <2>1. ServerOf(id) \in ServerIds
    BY Zenon, Decompose
  <2>2. \A r \in Replicas : BackupServer(ServerOf(id), r + 1) \in ServerIds
    BY Zenon, <2>1, ReplicaFacts, Neighbours
  <2>3. EmptyIndex.tablets[id] = NoTablet
    BY Zenon DEF EmptyIndex
  <2>4. IsTablet(NoTablet)
    BY Zenon DEF IsTablet, NoTablet
  <2>5. \A i \in ServerIds : ~(i < 0)
    BY DEF ServerIds
  <2> QED
    BY Zenon, <2>1, <2>2, <2>3, <2>4, <2>5 DEF TabletAdded
<1> QED
  BY Zenon, <1>1, <1>2, <1>3 DEF IndexUpTo

\* AddServer enters the new server and leaves those before it alone ...
LEMMA AddedServers ==
  ASSUME ClusterConstants, NEW n \in ServerIds, NEW p \in Processes, NEW im, ServersAdded(im, n),
         \A i \in 0..(n - 1) : Owner(im, i) # p
  PROVE  /\ ServersAdded(AddServer(im, n, p), n + 1)
         /\ Owner(AddServer(im, n, p), n) = p
         /\ \A i \in 0..(n - 1) : Owner(AddServer(im, n, p), i) = Owner(im, i)
<1> DEFINE new == AddServer(im, n, p)
<1>1. new.servers = [im.servers EXCEPT ![n] = ServerInfo(n, p)]
  BY Zenon DEF AddServer, ServerInfo
<1>2. ServerInfo(n, p).addr = p
  BY Zenon DEF ServerInfo
<1>3. n \in Nat /\ 0..n = 0..(n - 1) \cup {n} /\ (n + 1) - 1 = n /\ n \notin 0..(n - 1)
      /\ 0..n \subseteq ServerIds
  BY Sizes DEF ServerIds
<1>4. /\ new.servers[n] = ServerInfo(n, p) /\ DOMAIN new.servers = ServerIds
      /\ \A i \in 0..(n - 1) : new.servers[i] = im.servers[i]
  BY Zenon, <1>1, <1>3 DEF ServersAdded
<1>5. Owner(new, n) = p /\ \A i \in 0..(n - 1) : Owner(new, i) = Owner(im, i)
  BY Zenon, <1>2, <1>4 DEF Owner
<1>6. \A i \in 0..n : Owner(new, i) \in Processes /\ new.servers[i] = ServerInfo(i, Owner(new, i))
  BY Zenon, <1>3, <1>4, <1>5 DEF ServersAdded
<1>7. \A i, j \in 0..n : Owner(new, i) = Owner(new, j) => i = j
  BY Zenon, <1>3, <1>5 DEF ServersAdded
<1> QED
  BY Zenon, <1>3, <1>4, <1>5, <1>6, <1>7 DEF ServersAdded

\* ... gives it its part of the key space ...
LEMMA AddedKeys ==
  ASSUME ClusterConstants, NEW n \in ServerIds, NEW p, NEW im, KeysAdded(im, n)
  PROVE  KeysAdded(AddServer(im, n, p), n + 1)
<1> SUFFICES ASSUME NEW x \in 0..(kNumTablets - 1), NEW s, s = x \div kNumTabletsPerServer, s < n + 1
             PROVE  AddServer(im, n, p).key_tablet_map[x] = CalcTabletId(s, 0, x % kNumTabletsPerServer)
  BY Zenon DEF KeysAdded
<1>1. AddServer(im, n, p).key_tablet_map[x] =
        IF s = n THEN CalcTabletId(n, 0, x % kNumTabletsPerServer) ELSE im.key_tablet_map[x]
  BY Zenon DEF AddServer
<1>2. s \in ServerIds
  BY Zenon, KeySlices
<1>3. s = n \/ s < n
  BY <1>2 DEF ServerIds
<1> QED
  BY Zenon, <1>1, <1>3 DEF KeysAdded

\* ... sets up its tablets, and links them with those of the servers around it,
\* whichever of the two was added first.
LEMMA AddedTablet ==
  ASSUME ClusterConstants, NEW n \in ServerIds, NEW p \in Processes, NEW im, ServersAdded(im, n),
         \A i \in 0..(n - 1) : Owner(im, i) # p, NEW id \in TabletIds, TabletAdded(im, n, id)
  PROVE  TabletAdded(AddServer(im, n, p), n + 1, id)
<1> DEFINE new == AddServer(im, n, p)
           old == im.tablets[id]
           t == new.tablets[id]
           s == ServerOf(id)
           j == ReplicaOf(id)
<1>1. s \in ServerIds /\ j \in ReplicaNumbers
  BY Zenon, Decompose
<1>2. t = IF s = n
          THEN [server_id |-> n, is_backup |-> j > 0,
                qpis |-> QPI(p, id % kNumTabletAndBackupsPerServer),
                link |-> LinkOf(id, n, old.link)]
          ELSE [old EXCEPT !.link = LinkOf(id, n, @)]
  BY Zenon DEF AddServer
<1>3. old = [server_id |-> old.server_id, is_backup |-> old.is_backup, qpis |-> old.qpis,
             link |-> old.link]
  BY Zenon DEF TabletAdded, IsTablet
<1>4. IsTablet(t) /\ t.link = LinkOf(id, n, old.link)
  BY <1>2, <1>3 DEF IsTablet
<1>5. s # n => t.server_id = old.server_id /\ t.is_backup = old.is_backup /\ t.qpis = old.qpis
  BY Zenon, <1>2, <1>3
<1>6. /\ Owner(new, n) = p /\ \A i \in 0..(n - 1) : Owner(new, i) = Owner(im, i)
  BY AddedServers
<1>7. \A i \in ServerIds : i < n + 1 <=> i = n \/ i \in 0..(n - 1)
  BY DEF ServerIds
<1>8. \A i \in 0..(n - 1) : i < n
  BY DEF ServerIds
<1>9. ASSUME s < n + 1
      PROVE  /\ t.server_id = s /\ t.is_backup = (j > 0)
             /\ t.qpis = QPI(Owner(new, s), id % kNumTabletAndBackupsPerServer)
  <2>1. CASE s = n
    BY <1>2, <1>6, <2>1
  <2>2. CASE s \in 0..(n - 1)
    BY Zenon, <1>5, <1>6, <1>8, <2>2 DEF TabletAdded, ServerIds
  <2> QED
    BY Zenon, <1>1, <1>7, <1>9, <2>1, <2>2
<1>10. \A r \in Replicas : t.link[r] =
         IF s = n /\ j > 0 /\ r = 0 THEN CalcTabletId(MasterServer(n, j), 0, SlotOf(id))
         ELSE IF j = 0 /\ s = MasterServer(n, r + 1) THEN CalcTabletId(n, r + 1, SlotOf(id))
         ELSE old.link[r]
  BY Zenon, <1>4 DEF LinkOf
<1>11. ASSUME j > 0, s < n + 1 PROVE t.link[0] = CalcTabletId(MasterServer(s, j), 0, SlotOf(id))
  <2>1. j # 0 /\ 0 \in Replicas
    BY Zenon, <1>1, <1>11, ReplicaFacts
  <2> QED
    BY Zenon, <1>1, <1>7, <1>8, <1>10, <1>11, <2>1 DEF TabletAdded
<1>12. ASSUME j = 0, NEW r \in Replicas, BackupServer(s, r + 1) < n + 1
       PROVE  t.link[r] = CalcTabletId(BackupServer(s, r + 1), r + 1, SlotOf(id))
  <2>1. r + 1 \in 1..kNumReplicas /\ ~(j > 0)
    BY Zenon, <1>12, ReplicaFacts
  <2>2. /\ BackupServer(s, r + 1) \in ServerIds
        /\ s = MasterServer(n, r + 1) <=> BackupServer(s, r + 1) = n
    BY Zenon, <1>1, <2>1, Neighbours
  <2>3. CASE BackupServer(s, r + 1) = n
    BY Zenon, <1>10, <1>12, <2>1, <2>2, <2>3
  <2>4. CASE BackupServer(s, r + 1) \in 0..(n - 1)
    <3>1. n \notin 0..(n - 1)
      BY DEF ServerIds
    <3> QED
      BY Zenon, <1>8, <1>10, <1>12, <2>1, <2>2, <2>4, <3>1 DEF TabletAdded
  <2> QED
    BY Zenon, <1>7, <1>12, <2>2, <2>3, <2>4
<1> QED
  BY Zenon, <1>4, <1>9, <1>11, <1>12 DEF TabletAdded

\* One call of AddServer makes an index of n servers one of n + 1.
LEMMA Added ==
  ASSUME ClusterConstants, NEW n \in ServerIds, NEW p \in Processes, NEW im, IndexUpTo(im, n),
         \A i \in 0..(n - 1) : Owner(im, i) # p
  PROVE  IndexUpTo(AddServer(im, n, p), n + 1)
  BY Zenon, AddedServers, AddedKeys, AddedTablet DEF IndexUpTo

----------------------------------------------------------------------------
(* The complete index.                                                     *)

Complete(im) == IndexUpTo(im, kNumServers)

\* With all servers added, every field of every tablet is settled.
LEMMA CompleteTablet ==
  ASSUME ClusterConstants, NEW im, Complete(im), NEW id \in TabletIds
  PROVE  LET t == im.tablets[id]
             s == ServerOf(id)
             j == ReplicaOf(id)
         IN  /\ t.server_id = s /\ t.is_backup = (j > 0)
             /\ t.qpis = QPI(Owner(im, s), id % kNumTabletAndBackupsPerServer)
             /\ j > 0 => t.link[0] = CalcTabletId(MasterServer(s, j), 0, SlotOf(id))
             /\ j = 0 => \A r \in Replicas :
                  t.link[r] = CalcTabletId(BackupServer(s, r + 1), r + 1, SlotOf(id))
<1>1. ServerOf(id) \in ServerIds
  BY Zenon, Decompose
<1>2. \A r \in Replicas : BackupServer(ServerOf(id), r + 1) \in ServerIds
  BY Zenon, <1>1, ReplicaFacts, Neighbours
<1>3. \A i \in ServerIds : i < kNumServers
  BY Sizes DEF ServerIds
<1>4. TabletAdded(im, kNumServers, id)
  BY Zenon DEF Complete, IndexUpTo
<1> QED
  BY Zenon, <1>1, <1>2, <1>3, <1>4 DEF TabletAdded

\* ... and every server is entered under one id.
LEMMA CompleteServers ==
  ASSUME ClusterConstants, NEW im, Complete(im)
  PROVE  /\ \A i \in ServerIds : /\ Owner(im, i) \in Processes
                                 /\ im.servers[i] = ServerInfo(i, Owner(im, i))
         /\ \A i, j \in ServerIds : Owner(im, i) = Owner(im, j) => i = j
  BY Zenon DEF Complete, IndexUpTo, ServersAdded, ServerIds

\* A server finds its own tablets ...
LEMMA CompleteOwn ==
  ASSUME ClusterConstants, NEW im, Complete(im), NEW s \in ServerIds, NEW x \in TabletIdxs
  PROVE  LET id == im.servers[s].tablets[x]
         IN  /\ id \in TabletIds /\ id = s * kNumTabletAndBackupsPerServer + x
             /\ ServerOf(id) = s
             /\ im.tablets[id].server_id = s /\ im.tablets[id].qpis = QPI(Owner(im, s), x)
<1> DEFINE id == s * kNumTabletAndBackupsPerServer + x
<1>1. im.servers[s].tablets[x] = id
  <2>1. im.servers[s] = ServerInfo(s, Owner(im, s))
    BY Zenon, CompleteServers
  <2> QED
    BY <2>1 DEF ServerInfo
<1>2. id \in TabletIds /\ ServerOf(id) = s /\ id % kNumTabletAndBackupsPerServer = x
  BY Zenon, OwnTablet
<1>3. im.tablets[id].server_id = s /\ im.tablets[id].qpis = QPI(Owner(im, s), x)
  BY Zenon, <1>2, CompleteTablet
<1> QED
  BY Zenon, <1>1, <1>2, <1>3

\* ... a master its backups ...
LEMMA CompleteMaster ==
  ASSUME ClusterConstants, NEW im, Complete(im), NEW s \in ServerIds, NEW t \in Slots
  PROVE  LET m == CalcTabletId(s, 0, t)
         IN  /\ m \in TabletIds /\ im.tablets[m].server_id = s /\ ~im.tablets[m].is_backup
             /\ im.tablets[m].qpis = QPI(Owner(im, s), t)
             /\ \A r \in Replicas :
                  im.tablets[m].link[r] = CalcTabletId(BackupServer(s, r + 1), r + 1, t)
<1> DEFINE m == CalcTabletId(s, 0, t)
<1>1. 0 \in ReplicaNumbers /\ ~(0 > 0)
  BY Zenon, ReplicaFacts
<1>2. /\ m \in TabletIds /\ ServerOf(m) = s /\ ReplicaOf(m) = 0 /\ SlotOf(m) = t
      /\ m % kNumTabletAndBackupsPerServer = 0 * kNumTabletsPerServer + t
  BY Zenon, <1>1, Compose
<1>3. 0 * kNumTabletsPerServer + t = t
  BY Sizes DEF Slots
<1> HIDE DEF m
<1>4. ~im.tablets[m].is_backup
  <2>1. im.tablets[m].is_backup = (ReplicaOf(m) > 0)
    BY Zenon, <1>2, CompleteTablet
  <2>2. ~(ReplicaOf(m) > 0)
    BY Zenon, <1>1, <1>2
  <2> QED
    BY <2>1, <2>2, Zenon
<1>5. im.tablets[m].server_id = s /\ im.tablets[m].qpis = QPI(Owner(im, s), t)
  BY Zenon, <1>2, <1>3, CompleteTablet
<1>6. \A r \in Replicas : im.tablets[m].link[r] = CalcTabletId(BackupServer(s, r + 1), r + 1, t)
  BY Zenon, <1>2, CompleteTablet
<1> QED
  BY Zenon, <1>2, <1>4, <1>5, <1>6 DEF m

\* ... and a backup its master.
LEMMA CompleteBackup ==
  ASSUME ClusterConstants, NEW im, Complete(im),
         NEW s \in ServerIds, NEW j \in 1..kNumReplicas, NEW t \in Slots
  PROVE  LET b == CalcTabletId(s, j, t)
         IN  /\ b \in TabletIds /\ im.tablets[b].server_id = s /\ im.tablets[b].is_backup
             /\ im.tablets[b].qpis = QPI(Owner(im, s), j * kNumTabletsPerServer + t)
             /\ im.tablets[b].link[0] = CalcTabletId(MasterServer(s, j), 0, t)
<1> DEFINE b == CalcTabletId(s, j, t)
<1>1. j \in ReplicaNumbers /\ j > 0
  BY Zenon, ReplicaFacts
<1>2. /\ b \in TabletIds /\ ServerOf(b) = s /\ ReplicaOf(b) = j /\ SlotOf(b) = t
      /\ b % kNumTabletAndBackupsPerServer = j * kNumTabletsPerServer + t
  BY Zenon, <1>1, Compose
<1> HIDE DEF b
<1>3. im.tablets[b].is_backup
  BY Zenon, <1>1, <1>2, CompleteTablet
<1>4. /\ im.tablets[b].server_id = s
      /\ im.tablets[b].qpis = QPI(Owner(im, s), j * kNumTabletsPerServer + t)
      /\ im.tablets[b].link[0] = CalcTabletId(MasterServer(s, j), 0, t)
  BY Zenon, <1>1, <1>2, CompleteTablet
<1> QED
  BY Zenon, <1>2, <1>3, <1>4 DEF b

\* Every part of the key space has a master.
LEMMA CompleteKeys ==
  ASSUME ClusterConstants, NEW im, Complete(im), NEW x \in 0..(kNumTablets - 1)
  PROVE  /\ x \div kNumTabletsPerServer \in ServerIds /\ x % kNumTabletsPerServer \in Slots
         /\ im.key_tablet_map[x] =
              CalcTabletId(x \div kNumTabletsPerServer, 0, x % kNumTabletsPerServer)
<1>1. x \div kNumTabletsPerServer \in ServerIds /\ x % kNumTabletsPerServer \in Slots
  BY Zenon, KeySlices
<1>2. \A i \in ServerIds : i < kNumServers
  BY Sizes DEF ServerIds
<1> QED
  BY Zenon, <1>1, <1>2 DEF Complete, IndexUpTo, KeysAdded

\* What a complete index says of master m.
MasterComplete(im, m) ==
  /\ ~im.tablets[m].is_backup
  /\ \A r \in Replicas :
       LET b == im.tablets[m].link[r]
       IN  /\ b \in TabletIds /\ im.tablets[b].is_backup
           /\ im.tablets[b].link[0] = m
           /\ im.tablets[b].server_id # im.tablets[m].server_id
           /\ \A r2 \in Replicas \ {r} :
                im.tablets[im.tablets[m].link[r2]].server_id # im.tablets[b].server_id

\* The backups of a master are on different servers, and name it.
LEMMA MasterFacts ==
  ASSUME ClusterConstants, NEW im, Complete(im), NEW s \in ServerIds, NEW t \in Slots,
         NEW m, m = CalcTabletId(s, 0, t)
  PROVE  MasterComplete(im, m)
<1>1. /\ im.tablets[m].server_id = s /\ ~im.tablets[m].is_backup
      /\ \A r \in Replicas :
           im.tablets[m].link[r] = CalcTabletId(BackupServer(s, r + 1), r + 1, t)
  BY CompleteMaster
<1>2. ASSUME NEW r \in Replicas, NEW b, b = im.tablets[m].link[r]
      PROVE  /\ b \in TabletIds /\ im.tablets[b].is_backup /\ im.tablets[b].link[0] = m
             /\ im.tablets[b].server_id = BackupServer(s, r + 1) /\ BackupServer(s, r + 1) # s
  <2>1. r + 1 \in 1..kNumReplicas
    BY Zenon, ReplicaFacts
  <2>2. /\ BackupServer(s, r + 1) \in ServerIds /\ BackupServer(s, r + 1) # s
        /\ MasterServer(BackupServer(s, r + 1), r + 1) = s
    BY Zenon, <2>1, Neighbours
  <2>3. b = CalcTabletId(BackupServer(s, r + 1), r + 1, t)
    BY Zenon, <1>1, <1>2
  <2> QED
    BY <2>1, <2>2, <2>3, CompleteBackup
<1>3. ASSUME NEW r \in Replicas, NEW r2 \in Replicas, BackupServer(s, r + 1) = BackupServer(s, r2 + 1)
      PROVE  r = r2
  <2>1. r + 1 \in 1..kNumReplicas /\ r2 + 1 \in 1..kNumReplicas
    BY Zenon, ReplicaFacts
  <2>2. r + 1 = r2 + 1
    BY Zenon, <2>1, <1>3, Neighbours
  <2> QED
    BY <2>2 DEF Replicas
<1> QED
  BY <1>1, <1>2, <1>3 DEF MasterComplete

----------------------------------------------------------------------------
(* The queue pairs.                                                        *)

QP(p, x, r) == <<p, x, r>>

\* The names of the queue pairs that QPI hands out.
LEMMA QueuePairParts ==
  /\ \A p, x, r : QP(p, x, r)[1] = p /\ QP(p, x, r)[2] = x /\ QP(p, x, r)[3] = r
  /\ \A p, x : \A r \in Replicas : QPI(p, x)[r] = QP(p, x, r)
  BY Zenon DEF QP, QPI

\* Where queue pair r of master t of server s sends to, and whom queue pair 0
\* of replica j of tablet t on server s listens to.
SentTo(im, s, t, r) == QP(Owner(im, BackupServer(s, r + 1)), (r + 1) * kNumTabletsPerServer + t, 0)
HeardFrom(im, s, j, t) == QP(Owner(im, MasterServer(s, j)), t, j - 1)

\* Tablet x of a server is its slot x % T of replica number x \div T.
LEMMA TabletNumbers ==
  ASSUME ClusterConstants
  PROVE  /\ \A x \in TabletIdxs :
              /\ x \div kNumTabletsPerServer \in ReplicaNumbers /\ x % kNumTabletsPerServer \in Slots
              /\ x = (x \div kNumTabletsPerServer) * kNumTabletsPerServer
                       + (x % kNumTabletsPerServer)
         /\ \A j \in ReplicaNumbers, t \in Slots :
              /\ j * kNumTabletsPerServer + t \in TabletIdxs
              /\ (j * kNumTabletsPerServer + t) \div kNumTabletsPerServer = j
              /\ (j * kNumTabletsPerServer + t) % kNumTabletsPerServer = t
<1> DEFINE T == kNumTabletsPerServer
           K == kNumTabletAndBackupsPerServer
<1>1. T \in Nat \ {0} /\ kNumReplicas \in Nat /\ K = (1 + kNumReplicas) * T /\ K \in Nat
  BY Zenon, Sizes
<1> HIDE DEF T, K
<1>2. ASSUME NEW x \in 0..(K - 1)
      PROVE  x \div T \in 0..kNumReplicas /\ x % T \in 0..(T - 1) /\ x = (x \div T) * T + (x % T)
  <2>1. x \in Nat /\ x \in 0..((1 + kNumReplicas) * T - 1) /\ 1 + kNumReplicas \in Nat
    BY <1>1
  <2>2. x % T \in 0..(T - 1) /\ x = (x \div T) * T + (x % T)
    BY Zenon, <2>1, <1>1, Quotient
  <2>3. x \div T \in 0..((1 + kNumReplicas) - 1)
    BY Zenon, <2>1, <1>1, QuotientBound
  <2> QED
    BY <2>2, <2>3, <1>1
<1>3. ASSUME NEW j \in 0..kNumReplicas, NEW t \in 0..(T - 1)
      PROVE  j * T + t \in 0..(K - 1)
  BY <1>1, ProductBound
<1>4. ASSUME NEW j \in 0..kNumReplicas, NEW t \in 0..(T - 1)
      PROVE  (j * T + t) \div T = j /\ (j * T + t) % T = t
  BY <1>1, Euclid
<1> QED
  BY Zenon, <1>2, <1>3, <1>4 DEF T, K, TabletIdxs, ReplicaNumbers, Slots

\* The id of a tablet, from the server and the tablet's number there.
LEMMA OwnNumbers ==
  ASSUME ClusterConstants, NEW s \in ServerIds, NEW j \in ReplicaNumbers, NEW t \in Slots
  PROVE  CalcTabletId(s, j, t) = s * kNumTabletAndBackupsPerServer + (j * kNumTabletsPerServer + t)
  BY Sizes DEF CalcTabletId, ServerIds, ReplicaNumbers, Slots

\* Tablet b is a backup, and peer is the queue pair it has for its master.
BackupReady(im, b, peer) == im.tablets[b].is_backup /\ im.tablets[b].qpis[0] = peer

\* What the index tells a master of each of its backups.
LEMMA MasterConnects ==
  ASSUME ClusterConstants, NEW im, Complete(im), NEW s \in ServerIds, NEW t \in Slots,
         NEW r \in Replicas
  PROVE  BackupReady(im, im.tablets[CalcTabletId(s, 0, t)].link[r], SentTo(im, s, t, r))
<1> DEFINE b == im.tablets[CalcTabletId(s, 0, t)].link[r]
<1>1. r + 1 \in 1..kNumReplicas /\ 0 \in Replicas
  BY Zenon, ReplicaFacts
<1>2. BackupServer(s, r + 1) \in ServerIds
  BY Zenon, <1>1, Neighbours
<1>3. b = CalcTabletId(BackupServer(s, r + 1), r + 1, t)
  BY CompleteMaster
<1> HIDE DEF b
<1>4. /\ im.tablets[b].is_backup
      /\ im.tablets[b].qpis =
           QPI(Owner(im, BackupServer(s, r + 1)), (r + 1) * kNumTabletsPerServer + t)
  BY <1>1, <1>2, <1>3, CompleteBackup
<1>5. im.tablets[b].qpis[0] = SentTo(im, s, t, r)
  BY <1>1, <1>4, QueuePairParts DEF SentTo
<1> QED
  BY Zenon, <1>4, <1>5 DEF BackupReady, b

\* Of the backups of its master, backup id is number j, and peer is there for it.
BackupKnown(im, id, j, peer) ==
  LET m == im.tablets[im.tablets[id].link[0]]
  IN  /\ ~m.is_backup
      /\ \A r \in Replicas : m.link[r] = id <=> r = j - 1
      /\ m.qpis[j - 1] = peer

\* What the index tells a backup of its master.
LEMMA BackupConnects ==
  ASSUME ClusterConstants, NEW im, Complete(im), NEW s \in ServerIds, NEW j \in 1..kNumReplicas,
         NEW t \in Slots, NEW id, id = CalcTabletId(s, j, t)
  PROVE  BackupKnown(im, id, j, HeardFrom(im, s, j, t))
<1> DEFINE m == im.tablets[id].link[0]
<1>1. MasterServer(s, j) \in ServerIds /\ BackupServer(MasterServer(s, j), j) = s
  BY Zenon, Neighbours
<1>2. m = CalcTabletId(MasterServer(s, j), 0, t)
  BY CompleteBackup
<1> HIDE DEF m
<1>3. /\ ~im.tablets[m].is_backup
      /\ im.tablets[m].qpis = QPI(Owner(im, MasterServer(s, j)), t)
      /\ \A r \in Replicas : im.tablets[m].link[r] =
           CalcTabletId(BackupServer(MasterServer(s, j), r + 1), r + 1, t)
  BY <1>1, <1>2, CompleteMaster
<1>4. j - 1 \in Replicas /\ (j - 1) + 1 = j /\ j \in ReplicaNumbers
  BY ReplicaFacts
<1>5. im.tablets[m].link[j - 1] = id
  BY Zenon, <1>1, <1>3, <1>4
<1>6. ASSUME NEW r \in Replicas, im.tablets[m].link[r] = id PROVE r = j - 1
  <2>1. r + 1 \in ReplicaNumbers /\ BackupServer(MasterServer(s, j), r + 1) \in ServerIds
    BY Zenon, <1>1, ReplicaFacts, Neighbours
  <2>2. ReplicaOf(id) = r + 1
    BY <2>1, <1>3, <1>6, Compose
  <2>3. ReplicaOf(id) = j
    BY Zenon, <1>4, Compose
  <2> QED
    BY <2>2, <2>3 DEF Replicas
<1>7. im.tablets[m].qpis[j - 1] = HeardFrom(im, s, j, t)
  BY <1>3, <1>4, QueuePairParts DEF HeardFrom
<1> QED
  BY Zenon, <1>3, <1>5, <1>6, <1>7 DEF m, BackupKnown

\* No two queue pairs of masters are told to send to the same one.
LEMMA OneSender ==
  ASSUME ClusterConstants, NEW im, Complete(im), NEW s \in ServerIds, NEW t \in Slots,
         NEW r \in Replicas, NEW s2 \in ServerIds, NEW t2 \in Slots, NEW r2 \in Replicas,
         SentTo(im, s, t, r) = SentTo(im, s2, t2, r2)
  PROVE  s = s2 /\ t = t2 /\ r = r2
<1>1. /\ r + 1 \in 1..kNumReplicas /\ r2 + 1 \in 1..kNumReplicas
      /\ r + 1 \in ReplicaNumbers /\ r2 + 1 \in ReplicaNumbers
  BY Zenon, ReplicaFacts
<1>2. /\ Owner(im, BackupServer(s, r + 1)) = Owner(im, BackupServer(s2, r2 + 1))
      /\ (r + 1) * kNumTabletsPerServer + t = (r2 + 1) * kNumTabletsPerServer + t2
  BY QueuePairParts DEF SentTo
<1>3. r + 1 = r2 + 1 /\ t = t2
  BY <1>1, <1>2, TabletNumbers
<1>4. r = r2
  BY <1>3 DEF Replicas
<1>5. BackupServer(s, r + 1) = BackupServer(s2, r2 + 1)
  BY <1>1, <1>2, Neighbours, CompleteServers
<1>6. s = s2
  BY <1>1, <1>4, <1>5, Neighbours
<1> QED
  BY Zenon, <1>3, <1>4, <1>6

----------------------------------------------------------------------------
(* What the coordinator has told, and what it still has to tell.           *)

\* RES_JOIN goes out only when the index is complete, carries that index and,
\* to a server, the id it is entered under.
AnswerSound(p, a) ==
  a.kind = "RES_JOIN" =>
    /\ num_servers_ = kNumServers /\ a.index_manager = index_manager_
    /\ p \in Processes => a.id \in ServerIds /\ Owner(index_manager_, a.id) = p
AnswersSound == \A p \in Procs : AnswerSound(p, answers[p]) /\ AnswerSound(p, joined[p])

\* AddServer has not been called for p: a session makes one request.
NotAdded(p) == \A i \in 0..(num_servers_ - 1) : Owner(index_manager_, i) # p
\* Those who wait are in sessions_ in the order of their ids.
SessionsInOrder ==
  num_servers_ < kNumServers =>
    /\ Len(sessions_) = num_servers_
    /\ \A i \in 1..num_servers_ : sessions_[i] = Owner(index_manager_, i - 1)

Shapes ==
  /\ num_servers_ \in 0..kNumServers /\ next_id = num_servers_
  /\ sessions_ \in Seq(Processes) /\ requests \subseteq Procs
  /\ DOMAIN answers = Procs /\ DOMAIN joined = Procs /\ DOMAIN pc = Procs

\* The index holds the servers heard of, and all that was said agrees with it.
JoinInv ==
  /\ Shapes
  /\ IndexUpTo(index_manager_, num_servers_)
  /\ SessionsInOrder
  /\ \A p \in requests : pc[p] # "start"
  /\ \A p \in Processes : pc[p] = "start" \/ p \in requests => NotAdded(p)
  /\ AnswersSound

\* The coordinator starts with an empty index.
LEMMA InitJoin == ASSUME ClusterConstants, Init PROVE JoinInv
<1>1. Shapes
  BY Sizes DEF Init, Shapes
<1>2. IndexUpTo(index_manager_, num_servers_)
  BY Zenon, EmptyAdded DEF Init
<1>3. sessions_ = <<>> /\ num_servers_ = 0 /\ requests = {}
  BY Zenon DEF Init
<1>4. \A p \in Procs : answers[p] = NoAnswer /\ joined[p] = NoAnswer
  BY Zenon DEF Init
<1>5. NoAnswer.kind # "RES_JOIN"
  BY Zenon DEF NoAnswer, Answer
<1>6. AnswersSound
  BY Zenon, <1>4, <1>5 DEF AnswerSound, AnswersSound
<1>7. \A p : NotAdded(p)
  BY <1>3 DEF NotAdded
<1> QED
  BY <1>1, <1>2, <1>3, <1>6, <1>7 DEF JoinInv, SessionsInOrder

\* A step that leaves the index alone.
SameCoord == UNCHANGED <<num_servers_, next_id, index_manager_, sessions_>>

LEMMA SameIndexJoin ==
  ASSUME JoinInv, SameCoord, requests' \subseteq Procs,
         DOMAIN answers' = Procs, DOMAIN joined' = Procs, DOMAIN pc' = Procs,
         \A p \in requests' : pc'[p] # "start" /\ (p \in requests \/ pc[p] = "start"),
         \A p \in Procs : pc'[p] = "start" => pc[p] = "start",
         \A p \in Procs : AnswerSound(p, answers'[p]) /\ AnswerSound(p, joined'[p])
  PROVE  JoinInv'
<1>1. Shapes'
  BY Zenon DEF JoinInv, Shapes, SameCoord
<1>2. (\A p \in Processes : pc[p] = "start" \/ p \in requests => NotAdded(p))'
  BY Zenon DEF JoinInv, NotAdded, SameCoord, Procs
<1>3. AnswersSound'
  BY Zenon DEF AnswersSound, AnswerSound, SameCoord
<1>4. IndexUpTo(index_manager_, num_servers_)'
  BY Zenon DEF JoinInv, SameCoord
<1>5. SessionsInOrder'
  BY Zenon DEF JoinInv, SessionsInOrder, SameCoord
<1> QED
  BY Zenon, <1>1, <1>2, <1>3, <1>4, <1>5 DEF JoinInv

\* The coordinator adds a server: the handler of its request ...
AddStep(p) ==
  /\ requests' = requests \ {p}
  /\ index_manager_' = AddServer(index_manager_, next_id, p)
  /\ next_id' = next_id + 1 /\ num_servers_' = num_servers_ + 1
  /\ UNCHANGED peerVars

LEMMA AddJoin ==
  ASSUME ClusterConstants, JoinInv, NEW p \in Processes, p \in requests, AddStep(p),
         num_servers_ < kNumServers
  PROVE  /\ num_servers_' \in 0..kNumServers /\ next_id' = num_servers_'
         /\ IndexUpTo(index_manager_', num_servers_')
         /\ Owner(index_manager_', num_servers_) = p
         /\ \A i \in 0..(num_servers_ - 1) : Owner(index_manager_', i) = Owner(index_manager_, i)
         /\ \A q \in Processes : pc'[q] = "start" \/ q \in requests' => NotAdded(q)'
<1>1. num_servers_ \in 0..kNumServers /\ next_id = num_servers_
  BY Zenon DEF JoinInv, Shapes
<1>2. num_servers_ \in ServerIds /\ kNumServers \in Nat
  BY <1>1 DEF ServerIds, ClusterConstants
<1>3. \A i \in 0..(num_servers_ - 1) : Owner(index_manager_, i) # p
  BY Zenon DEF JoinInv, NotAdded
<1>4. IndexUpTo(index_manager_, num_servers_)
  BY Zenon DEF JoinInv
<1>5. IndexUpTo(index_manager_', num_servers_')
  BY Zenon, <1>1, <1>2, <1>3, <1>4, Added DEF AddStep
<1>6. /\ Owner(index_manager_', num_servers_) = p
      /\ \A i \in 0..(num_servers_ - 1) : Owner(index_manager_', i) = Owner(index_manager_, i)
  BY <1>1, <1>2, <1>3, <1>4, AddedServers DEF AddStep, IndexUpTo
<1>7. num_servers_' = num_servers_ + 1 /\ next_id' = num_servers_'
  BY Zenon, <1>1 DEF AddStep
<1>8. ASSUME NEW q \in Processes, pc'[q] = "start" \/ q \in requests' PROVE NotAdded(q)'
  <2>1. q # p /\ (pc[q] = "start" \/ q \in requests)
    BY Zenon, <1>8 DEF AddStep, peerVars, JoinInv
  <2>2. NotAdded(q)
    BY Zenon, <2>1 DEF JoinInv
  <2> SUFFICES ASSUME NEW i \in 0..(num_servers_' - 1) PROVE Owner(index_manager_', i) # q
    BY Zenon DEF NotAdded
  <2>3. i = num_servers_ \/ i \in 0..(num_servers_ - 1)
    BY <1>2, <1>7 DEF ServerIds
  <2> QED
    BY Zenon, <2>1, <2>2, <2>3, <1>6 DEF NotAdded
<1> QED
  BY <1>1, <1>2, <1>5, <1>6, <1>7, <1>8

\* ... who, with its session, is in the place of its id.
LEMMA AppendedSessions ==
  ASSUME ClusterConstants, JoinInv, NEW p \in Processes, p \in requests, AddStep(p),
         num_servers_ < kNumServers
  PROVE  LET sessions == Append(sessions_, p)
         IN  /\ sessions \in Seq(Processes) /\ Len(sessions) = num_servers_'
             /\ \A i \in 1..num_servers_' : sessions[i] = Owner(index_manager_', i - 1)
<1> DEFINE sessions == Append(sessions_, p)
           n == num_servers_
<1>1. n \in Nat /\ n' = n + 1 /\ sessions_ \in Seq(Processes) /\ Len(sessions_) = n
      /\ \A i \in 1..n : sessions_[i] = Owner(index_manager_, i - 1)
  BY DEF JoinInv, Shapes, SessionsInOrder, AddStep
<1>2. /\ Owner(index_manager_', n) = p
      /\ \A i \in 0..(n - 1) : Owner(index_manager_', i) = Owner(index_manager_, i)
  BY Zenon, AddJoin
<1>3. sessions \in Seq(Processes) /\ Len(sessions) = n' /\ sessions[n + 1] = p
      /\ \A i \in 1..n : sessions[i] = sessions_[i]
  BY <1>1
<1> HIDE DEF sessions
<1>4. ASSUME NEW i \in 1..n' PROVE sessions[i] = Owner(index_manager_', i - 1)
  <2>1. CASE i = n + 1
    BY <2>1, <1>1, <1>2, <1>3
  <2>2. CASE i # n + 1
    <3>1. i \in 1..n /\ i - 1 \in 0..(n - 1)
      BY <2>2, <1>1
    <3> QED
      BY Zenon, <3>1, <1>1, <1>2, <1>3
  <2> QED
    BY Zenon, <2>1, <2>2
<1> QED
  BY Zenon, <1>3, <1>4 DEF sessions

\* Nobody holds an index before the last server has joined.
LEMMA NobodyAnswered ==
  ASSUME ClusterConstants, JoinInv, num_servers_ < kNumServers, NEW p \in Procs
  PROVE  answers[p].kind # "RES_JOIN" /\ joined[p].kind # "RES_JOIN"
<1>1. num_servers_ # kNumServers
  BY DEF JoinInv, Shapes, ClusterConstants
<1> QED
  BY Zenon, <1>1 DEF JoinInv, AnswersSound, AnswerSound

\* The last server has joined: everybody in sessions_ is answered.
LEMMA AnswerAll ==
  ASSUME ClusterConstants, JoinInv, NEW p \in Processes, p \in requests, AddStep(p),
         num_servers_ < kNumServers, num_servers_ + 1 = kNumServers,
         ResponseAllJoins(index_manager_', Append(sessions_, p))
  PROVE  AnswersSound'
<1> DEFINE sessions == Append(sessions_, p)
           im == index_manager_'
           place(q) == CHOOSE i \in 1..Len(sessions) : sessions[i] = q
<1>1. /\ sessions \in Seq(Processes) /\ Len(sessions) = kNumServers
      /\ \A i \in 1..kNumServers : sessions[i] = Owner(im, i - 1)
      /\ num_servers_' = kNumServers /\ kNumServers \in Nat
  BY Zenon, AppendedSessions DEF AddStep, ClusterConstants
<1>2. \A q \in Procs : answers'[q] =
        IF \E i \in 1..Len(sessions) : sessions[i] = q
        THEN Answer("RES_JOIN", place(q) - 1, im) ELSE answers[q]
  BY Zenon DEF ResponseAllJoins
<1> HIDE DEF sessions
<1>3. joined' = joined
  BY Zenon DEF AddStep, peerVars
<1>4. ASSUME NEW q \in Procs, answers'[q].kind = "RES_JOIN"
      PROVE  /\ answers'[q].index_manager = im
             /\ answers'[q].id \in ServerIds /\ Owner(im, answers'[q].id) = q
  <2>1. \E i \in 1..Len(sessions) : sessions[i] = q
    BY Zenon, <1>2, <1>4, NobodyAnswered
  <2>2. place(q) \in 1..Len(sessions) /\ sessions[place(q)] = q
    BY Zenon, <2>1
  <2>3. answers'[q] = Answer("RES_JOIN", place(q) - 1, im)
    BY Zenon, <1>2, <2>1
  <2> HIDE DEF place
  <2>4. answers'[q].id = place(q) - 1 /\ answers'[q].index_manager = im
    BY <2>3 DEF Answer
  <2>5. place(q) \in 1..kNumServers /\ place(q) - 1 \in ServerIds
    BY <2>2, <1>1 DEF ServerIds
  <2> QED
    BY Zenon, <2>2, <2>4, <2>5, <1>1
<1>5. \A q \in Procs : joined'[q].kind # "RES_JOIN"
  BY Zenon, <1>3, NobodyAnswered
<1> QED
  BY Zenon, <1>1, <1>4, <1>5 DEF AnswersSound, AnswerSound

\* HandleServerRequestJoin of a server that is let in.
LEMMA AddStepJoin ==
  ASSUME ClusterConstants, JoinInv, NEW p \in Processes, p \in requests, AddStep(p),
         num_servers_ < kNumServers,
         IF num_servers_ + 1 = kNumServers
         THEN ResponseAllJoins(index_manager_', Append(sessions_, p))
         ELSE sessions_' = Append(sessions_, p) /\ UNCHANGED answers
  PROVE  JoinInv'
<1>1. num_servers_' = num_servers_ + 1 /\ num_servers_ \in Nat /\ kNumServers \in Nat
  BY DEF AddStep, JoinInv, Shapes, ClusterConstants
<1>2. sessions_' \in Seq(Processes) /\ SessionsInOrder'
  <2>1. CASE num_servers_ + 1 = kNumServers
    BY <2>1, <1>1 DEF ResponseAllJoins, SessionsInOrder
  <2>2. CASE num_servers_ + 1 # kNumServers
    BY Zenon, <2>2, AppendedSessions DEF SessionsInOrder
  <2> QED
    BY Zenon, <2>1, <2>2
<1>3. DOMAIN answers' = Procs /\ AnswersSound'
  <2>1. CASE num_servers_ + 1 = kNumServers
    BY Zenon, <2>1, AnswerAll DEF ResponseAllJoins
  <2>2. CASE num_servers_ + 1 # kNumServers
    BY Zenon, <2>2, NobodyAnswered DEF AnswersSound, AnswerSound, AddStep, peerVars, JoinInv, Shapes
  <2> QED
    BY Zenon, <2>1, <2>2
<1>4. Shapes'
  BY Zenon, <1>2, <1>3, AddJoin DEF Shapes, JoinInv, AddStep, peerVars
<1>5. (\A q \in requests : pc[q] # "start")'
  BY Zenon DEF AddStep, peerVars, JoinInv
<1>6. (\A q \in Processes : pc[q] = "start" \/ q \in requests => NotAdded(q))'
  BY Zenon, AddJoin
<1> QED
  BY Zenon, <1>2, <1>3, <1>4, <1>5, <1>6, AddJoin DEF JoinInv

\* HandleServerRequestJoin.
LEMMA ServerJoin ==
  ASSUME ClusterConstants, JoinInv, NEW p \in Processes, HandleServerRequestJoin(p)
  PROVE  JoinInv'
<1> USE DEF HandleServerRequestJoin
<1>1. CASE Full
  <2>1. IgnoreJoin(p) /\ UNCHANGED peerVars /\ requests' = requests \ {p}
    BY Zenon, <1>1
  <2>2. \A q \in Procs : answers'[q] = answers[q] \/ answers'[q].kind # "RES_JOIN"
    BY Zenon, <2>1 DEF IgnoreJoin, Answer, JoinInv, Shapes
  <2>3. \A q \in Procs : AnswerSound(q, answers'[q]) /\ AnswerSound(q, joined'[q])
    BY Zenon, <2>1, <2>2 DEF AnswerSound, AnswersSound, JoinInv, peerVars
  <2>4. DOMAIN answers' = Procs
    BY Zenon, <2>1 DEF IgnoreJoin, JoinInv, Shapes
  <2>5. SameCoord
    BY Zenon, <2>1 DEF IgnoreJoin, SameCoord, coordVars
  <2> QED
    BY Zenon, <2>1, <2>3, <2>4, <2>5, SameIndexJoin DEF JoinInv, Shapes, peerVars
<1>2. CASE ~Full
  <2>1. AddStep(p)
    BY Zenon, <1>2 DEF AddStep
  <2>2. num_servers_ < kNumServers
    BY <1>2 DEF Full, JoinInv, Shapes, ClusterConstants
  <2> QED
    BY Zenon, <1>2, <2>1, <2>2, AddStepJoin
<1> QED
  BY Zenon, <1>1, <1>2

\* HandleClientRequestJoin.
LEMMA ClientJoin ==
  ASSUME NoClientServes, JoinInv, NEW c \in Clients, HandleClientRequestJoin(c)
  PROVE  JoinInv'
<1> USE DEF HandleClientRequestJoin
<1>1. c \notin Processes /\ c \in Procs
  BY Zenon DEF NoClientServes, Procs
<1>2. \A q \in Procs : AnswerSound(q, answers'[q])
  <2>1. CASE num_servers_ = kNumServers
    <3>1. AnswerSound(c, Answer("RES_JOIN", Garbage, index_manager_))
      BY Zenon, <2>1, <1>1 DEF AnswerSound, Answer
    <3> QED
      BY Zenon, <2>1, <3>1 DEF JoinInv, Shapes, AnswersSound
  <2>2. CASE num_servers_ # kNumServers
    BY Zenon, <2>2 DEF JoinInv, AnswersSound
  <2> QED
    BY Zenon, <2>1, <2>2
<1>3. DOMAIN answers' = Procs
  BY Zenon DEF JoinInv, Shapes
<1>4. SameCoord /\ joined' = joined /\ pc' = pc /\ requests' = requests \ {c}
  BY Zenon DEF SameCoord, peerVars
<1> QED
  BY Zenon, <1>2, <1>3, <1>4, SameIndexJoin DEF JoinInv, Shapes, AnswersSound

\* A step of a process that only moves it on, and may hand it its answer.
LEMMA PeerStepJoin ==
  ASSUME JoinInv, DOMAIN pc' = Procs, DOMAIN joined' = Procs,
         \A q \in Procs : pc'[q] = "start" => pc[q] = "start",
         \A q \in Procs : joined'[q] = joined[q] \/ joined'[q] = answers[q],
         UNCHANGED <<coordVars, netVars>>
  PROVE  JoinInv'
<1>1. SameCoord /\ answers' = answers /\ requests' = requests
  BY Zenon DEF SameCoord, coordVars, netVars
<1>2. \A q \in Procs : AnswerSound(q, answers'[q]) /\ AnswerSound(q, joined'[q])
  BY Zenon, <1>1 DEF JoinInv, AnswersSound, Shapes
<1>3. \A q \in requests' : pc'[q] # "start"
  BY Zenon, <1>1 DEF JoinInv, Shapes
<1> QED
  BY Zenon, <1>1, <1>2, <1>3, SameIndexJoin DEF JoinInv, Shapes

\* A process asks to join: its request is not in the index yet.
LEMMA RequestedJoin ==
  ASSUME JoinInv, NEW p \in Procs, RequestJoin(p) PROVE JoinInv'
<1> USE DEF RequestJoin
<1>1. SameCoord /\ answers' = answers /\ joined' = joined
  BY Zenon DEF SameCoord, coordVars
<1>2. \A q \in Procs : AnswerSound(q, answers'[q]) /\ AnswerSound(q, joined'[q])
  BY Zenon, <1>1 DEF JoinInv, AnswersSound
<1>3. DOMAIN pc' = Procs /\ pc'[p] # "start" /\ \A q \in Procs \ {p} : pc'[q] = pc[q]
  BY Zenon DEF JoinInv, Shapes
<1>4. requests' \subseteq requests \cup {p} /\ requests' \subseteq Procs
  BY Zenon DEF JoinInv, Shapes
<1>5. \A q \in requests' : pc'[q] # "start" /\ (q \in requests \/ pc[q] = "start")
  BY Zenon, <1>3, <1>4 DEF JoinInv
<1> QED
  BY Zenon, <1>1, <1>2, <1>3, <1>4, <1>5, SameIndexJoin DEF JoinInv, Shapes

\* Every step keeps what the coordinator has told true.
LEMMA NextJoin ==
  ASSUME ClusterConstants, NoClientServes, JoinInv, [Next]_vars PROVE JoinInv'
<1> USE DEF Procs
<1>1. ASSUME NEW p \in Procs, RequestJoin(p) PROVE JoinInv'
  BY Zenon, <1>1, RequestedJoin
<1>2. ASSUME NEW p \in Procs, RecvFails(p) PROVE JoinInv'
  BY Zenon, <1>2, PeerStepJoin DEF RecvFails, JoinInv, Shapes
<1>3. ASSUME NEW p \in Processes, RecvAnswer(p) PROVE JoinInv'
  BY Zenon, <1>3, PeerStepJoin DEF RecvAnswer, JoinInv, Shapes
<1>4. ASSUME NEW p \in Processes, ConnectTablet(p) PROVE JoinInv'
  <2>1. pc' = pc \/ pc' = [pc EXCEPT ![p] = "aborted"]
    BY Zenon, <1>4 DEF ConnectTablet, ConnectBackup, ConnectMaster
  <2>2. joined' = joined /\ UNCHANGED <<coordVars, netVars>>
    BY Zenon, <1>4 DEF ConnectTablet
  <2> QED
    BY Zenon, <2>1, <2>2, PeerStepJoin DEF JoinInv, Shapes
<1>5. ASSUME NEW p \in Processes, StartServing(p) PROVE JoinInv'
  BY Zenon, <1>5, PeerStepJoin DEF StartServing, JoinInv, Shapes
<1>6. ASSUME NEW p \in Processes, Crash(p) PROVE JoinInv'
  BY Zenon, <1>6, PeerStepJoin DEF Crash, JoinInv, Shapes
<1>7. ASSUME NEW c \in Clients, ClientRecvAnswer(c) PROVE JoinInv'
  BY Zenon, <1>7, PeerStepJoin DEF ClientRecvAnswer, JoinInv, Shapes
<1>8. CASE UNCHANGED vars
  BY Zenon, <1>8, PeerStepJoin DEF vars, peerVars, JoinInv, Shapes
<1> QED
  BY Zenon, <1>1, <1>2, <1>3, <1>4, <1>5, <1>6, <1>7, <1>8, ServerJoin, ClientJoin DEF Next

\* The inductive invariant of joining: the index holds the servers heard of so
\* far, in the order of sessions_, and whoever was answered got the final one.
THEOREM Joining == Spec => []JoinInv
<1>1. Init => JoinInv
  BY Zenon, ClusterAssumption, InitJoin
<1>2. JoinInv /\ [Next]_vars => JoinInv'
  BY Zenon, ClusterAssumption, NextJoin
<1> QED
  BY <1>1, <1>2, PTL DEF Spec

----------------------------------------------------------------------------
(* What those who have joined know.                                        *)

\* Whoever holds an index holds the coordinator's, and it is complete.
LEMMA Known ==
  ASSUME JoinInv, NEW p \in Procs, HasIndex(p)
  PROVE  /\ Complete(index_manager_) /\ joined[p].index_manager = index_manager_
         /\ num_servers_ = kNumServers
         /\ p \in Processes => /\ joined[p].id \in ServerIds
                               /\ Owner(index_manager_, joined[p].id) = p
  BY Zenon DEF JoinInv, AnswersSound, AnswerSound, HasIndex, Complete

FindsItself(im, s, p) ==
  /\ im.servers[s].addr = p
  /\ \A x \in TabletIdxs : /\ im.tablets[im.servers[s].tablets[x]].server_id = s
                           /\ im.tablets[im.servers[s].tablets[x]].qpis = QPI(p, x)

\* The id in a RES_JOIN, looked up in the index that came with it.
LEMMA JoinIds == ASSUME ClusterConstants, JoinInv PROVE IdsMatchIndex
<1>1. ASSUME NEW im, Complete(im), NEW s \in ServerIds PROVE FindsItself(im, s, Owner(im, s))
  BY <1>1, CompleteOwn DEF FindsItself, Owner
<1>2. ASSUME NEW p \in Processes, HasIndex(p)
      PROVE  FindsItself(joined[p].index_manager, joined[p].id, p)
  BY Zenon, <1>1, <1>2, Known DEF Procs
<1> QED
  BY <1>2, Zenon DEF IdsMatchIndex, FindsItself

\* Every server finds itself, and its own tablets, under the id that
\* ResponseAllJoins told it, whatever the order in which requests arrived.
THEOREM EachFindsItself == Spec => []IdsMatchIndex
<1>1. JoinInv => IdsMatchIndex
  BY Zenon, ClusterAssumption, JoinIds
<1> QED
  BY <1>1, Joining, PTL

\* Servers and clients, whenever they joined, hold the same index.
THEOREM AllHoldSameIndex == Spec => []SameIndex
<1>1. JoinInv => SameIndex
  BY Zenon, Known DEF SameIndex
<1> QED
  BY <1>1, Joining, PTL

\* The slices of the key space go to the masters, and none is left without.
LEMMA KeysOfMasters ==
  ASSUME ClusterConstants, NEW im, Complete(im)
  PROVE  {im.key_tablet_map[x] : x \in 0..(kNumTablets - 1)} = Masters
<1>1. \A x \in 0..(kNumTablets - 1) : im.key_tablet_map[x] \in Masters
  BY CompleteKeys DEF Masters, Slots
<1>2. ASSUME NEW s \in ServerIds, NEW t \in Slots
      PROVE  \E x \in 0..(kNumTablets - 1) : im.key_tablet_map[x] = CalcTabletId(s, 0, t)
  <2> DEFINE x == s * kNumTabletsPerServer + t
  <2>1. /\ x \in 0..(kNumTablets - 1)
        /\ x \div kNumTabletsPerServer = s /\ x % kNumTabletsPerServer = t
    BY Zenon, KeySlices
  <2>2. im.key_tablet_map[x] = CalcTabletId(s, 0, t)
    BY Zenon, <2>1, CompleteKeys
  <2> QED
    BY Zenon, <2>1, <2>2
<1> QED
  BY <1>1, <1>2 DEF Masters, Slots

\* Every index that is handed out places each master's backups on kNumReplicas
\* different servers, none its own, that name it as their master.
THEOREM LayoutsAreComplete == Spec => []LayoutComplete
<1> ClusterConstants
  BY Zenon, ClusterAssumption
<1>1. ASSUME JoinInv PROVE LayoutComplete
  <2> SUFFICES ASSUME NEW p \in Procs, HasIndex(p), NEW im, im = joined[p].index_manager
               PROVE  Replicated(im)
    BY Zenon DEF LayoutComplete
  <2>1. Complete(im)
    BY Zenon, <1>1, Known
  <2>2. {im.key_tablet_map[x] : x \in 0..(kNumTablets - 1)} = Masters
    BY Zenon, <2>1, KeysOfMasters
  <2>3. \A m \in Masters : MasterComplete(im, m)
    BY <2>1, MasterFacts DEF Masters, Slots
  <2> QED
    BY <2>2, <2>3, Zenon DEF MasterComplete, Replicated, backups, master
<1> QED
  BY <1>1, Joining, PTL

\* The server a client picks with its copy of the index hands the request to
\* the worker that serves this part of the key space, a master tablet.
THEOREM RequestsFindTheirMaster == Spec => []RequestsReachMasters
<1> ClusterConstants
  BY Zenon, ClusterAssumption
<1>1. ASSUME JoinInv PROVE RequestsReachMasters
  <2> SUFFICES ASSUME NEW p \in Procs, NEW q \in Processes, HasIndex(p), HasIndex(q),
                      NEW x \in 0..(kNumTablets - 1),
                      NEW im, im = joined[q].index_manager, NEW s, s = joined[q].id,
                      NEW id, id = im.key_tablet_map[x],
                      GetServer(joined[p].index_manager, x).addr = q
               PROVE  /\ WorkerOf(id) < kNumTabletsPerServer
                      /\ im.servers[s].tablets[WorkerOf(id)] = id /\ ~im.tablets[id].is_backup
    BY DEF RequestsReachMasters, Procs
  <2>1. Complete(im) /\ joined[p].index_manager = im /\ s \in ServerIds /\ Owner(im, s) = q
    BY Zenon, <1>1, Known DEF Procs
  <2>2. PICK i \in ServerIds, t \in Slots : id = CalcTabletId(i, 0, t)
    BY Zenon, <2>1, CompleteKeys
  <2>3. /\ id \in TabletIds /\ im.tablets[id].server_id = i /\ ~im.tablets[id].is_backup
    BY <2>1, <2>2, CompleteMaster
  <2>4. Owner(im, i) = q
    BY Zenon, <2>1, <2>3 DEF GetServer, Owner
  <2>5. i = s
    BY <2>1, <2>4, CompleteServers
  <2>6. WorkerOf(id) = t /\ t \in TabletIdxs /\ id = s * kNumTabletAndBackupsPerServer + t
    <3>1. 0 \in ReplicaNumbers
      BY Zenon, ReplicaFacts
    <3>2. WorkerOf(id) = 0 * kNumTabletsPerServer + t
      BY <2>2, <3>1, Compose DEF WorkerOf
    <3>3. kNumTabletsPerServer \in Nat \ {0} /\ kNumTabletAndBackupsPerServer \in Nat \ {0}
          /\ kNumTabletsPerServer <= kNumTabletAndBackupsPerServer
      BY Sizes
    <3>4. t \in TabletIdxs
      BY <3>3 DEF Slots, TabletIdxs
    <3>5. id = s * kNumTabletAndBackupsPerServer + (0 * kNumTabletsPerServer + t)
      BY Zenon, <2>2, <2>5, <3>1, OwnNumbers
    <3>6. 0 * kNumTabletsPerServer + t = t
      BY <3>3 DEF Slots
    <3> QED
      BY Zenon, <3>2, <3>4, <3>5, <3>6
  <2>7. im.servers[s].tablets[t] = id
    BY <2>1, <2>6, CompleteOwn
  <2>8. WorkerOf(id) < kNumTabletsPerServer
    BY <2>6, Sizes DEF Slots
  <2> QED
    BY <2>3, <2>6, <2>7, <2>8, Zenon
<1> QED
  BY <1>1, Joining, PTL

----------------------------------------------------------------------------
(* The queue pairs.                                                        *)

\* The parts of the name of a queue pair.
LEMMA QueuePairNames ==
  /\ \A p \in Processes, x \in TabletIdxs, r \in Replicas : QP(p, x, r) \in QPs
  /\ \A q \in QPs : /\ q[1] \in Processes /\ q[2] \in TabletIdxs /\ q[3] \in Replicas
                    /\ q = QP(q[1], q[2], q[3])
  BY DEF QP, QPs

\* Queue pair r of tablet x of server s, once SettingupQPConnect has run for
\* the tablet.
Connected(im, s, x, r) ==
  LET j == x \div kNumTabletsPerServer
      t == x % kNumTabletsPerServer
  IN  IF j = 0 THEN [state |-> "RTS", peer |-> SentTo(im, s, t, r)]
      ELSE IF r = 0 THEN [state |-> "RTR", peer |-> HeardFrom(im, s, j, t)]
      ELSE NewQueuePair
\* The state of queue pair q: its server connects tablet after tablet.
EndState(q) ==
  IF q[2] < connected[q[1]] THEN Connected(index_manager_, joined[q[1]].id, q[2], q[3])
  ELSE NewQueuePair

\* A server connects only with an index, and only once.
Progress(p) ==
  /\ pc[p] # "aborted"
  /\ pc[p] = "connecting" \/ connected[p] > 0 => HasIndex(p)
  /\ pc[p] \in {"start", "requested"} => connected[p] = 0

ConnInv ==
  /\ connected \in [Processes -> 0..kNumTabletAndBackupsPerServer]
  /\ \A p \in Processes : Progress(p)
  /\ qps = [q \in QPs |-> EndState(q)]

\* Nothing is connected at first ...
LEMMA InitConn == ASSUME ClusterConstants, Init PROVE ConnInv
<1>1. connected \in [Processes -> 0..kNumTabletAndBackupsPerServer]
  BY Sizes DEF Init
<1>2. \A p \in Processes : Progress(p)
  BY DEF Init, Progress, Procs
<1>3. \A q \in QPs : EndState(q) = NewQueuePair
  BY QueuePairNames DEF Init, EndState, TabletIdxs
<1> QED
  BY Zenon, <1>1, <1>2, <1>3 DEF Init, ConnInv

\* A step that connects nothing, and takes no index away from a server that
\* has connected a tablet.
LEMMA KeepsConn ==
  ASSUME ConnInv, UNCHANGED <<connected, qps>>,
         \A p \in Processes : Progress(p)',
         \A p \in Processes : connected[p] > 0 =>
           index_manager_' = index_manager_ /\ joined'[p] = joined[p]
  PROVE  ConnInv'
<1>1. ASSUME NEW q \in QPs PROVE EndState(q)' = EndState(q)
  <2>1. q[1] \in Processes /\ q[2] \in Int /\ q[2] >= 0 /\ connected[q[1]] \in Int
    BY QueuePairNames DEF ConnInv, TabletIdxs
  <2> QED
    BY <2>1 DEF EndState
<1> QED
  BY Zenon, <1>1 DEF ConnInv

\* SettingupQPConnect of a master, with a complete index.
LEMMA ConnectsMaster ==
  ASSUME ClusterConstants, NEW im, Complete(im), NEW s \in ServerIds, NEW x \in TabletIdxs,
         NEW p \in Processes, NEW id, id = im.servers[s].tablets[x],
         x \div kNumTabletsPerServer = 0
  PROVE  /\ ~im.tablets[id].is_backup
         /\ ConnectMaster(p, x, id, im) =>
              /\ qps' = [q \in QPs |-> IF q[1] = p /\ q[2] = x
                                       THEN Connected(im, s, x, q[3]) ELSE qps[q]]
              /\ pc' = pc
<1> DEFINE t == x % kNumTabletsPerServer
<1>1. t \in Slots /\ x = 0 * kNumTabletsPerServer + t
  BY Zenon, TabletNumbers
<1> HIDE DEF t
<1>2. id = CalcTabletId(s, 0, t)
  <2>1. id = s * kNumTabletAndBackupsPerServer + x
    BY Zenon, CompleteOwn
  <2> QED
    BY <1>1, <2>1, OwnNumbers, ReplicaFacts
<1>3. ~im.tablets[id].is_backup
  BY <1>1, <1>2, CompleteMaster
<1>4. ASSUME NEW r \in Replicas, NEW b, b = im.tablets[id].link[r]
      PROVE  /\ im.tablets[b].is_backup
             /\ [state |-> "RTS", peer |-> im.tablets[b].qpis[0]] = Connected(im, s, x, r)
  <2>1. BackupReady(im, im.tablets[CalcTabletId(s, 0, t)].link[r], SentTo(im, s, t, r))
    BY Zenon, <1>1, MasterConnects
  <2>2. im.tablets[b].is_backup /\ im.tablets[b].qpis[0] = SentTo(im, s, t, r)
    BY Zenon, <2>1, <1>2, <1>4 DEF BackupReady
  <2> QED
    BY Zenon, <2>2 DEF Connected, t
<1>5. ConnectMaster(p, x, id, im) =>
        /\ qps' = [q \in QPs |-> IF q[1] = p /\ q[2] = x
                                 THEN [state |-> "RTS",
                                       peer |-> im.tablets[im.tablets[id].link[q[3]]].qpis[0]]
                                 ELSE qps[q]]
        /\ pc' = pc
  BY Zenon, <1>4 DEF ConnectMaster, backups
<1>6. \A q \in QPs : [state |-> "RTS", peer |-> im.tablets[im.tablets[id].link[q[3]]].qpis[0]]
                       = Connected(im, s, x, q[3])
  BY Zenon, <1>4, QueuePairNames
<1> QED
  BY Zenon, <1>3, <1>5, <1>6

\* SettingupQPConnect of a backup, with a complete index.
LEMMA ConnectsBackup ==
  ASSUME ClusterConstants, NEW im, Complete(im), NEW s \in ServerIds, NEW x \in TabletIdxs,
         NEW p \in Processes, NEW id, id = im.servers[s].tablets[x],
         x \div kNumTabletsPerServer # 0
  PROVE  /\ im.tablets[id].is_backup
         /\ ConnectBackup(p, x, id, im) =>
              qps' = [qps EXCEPT ![QP(p, x, 0)] = Connected(im, s, x, 0)] /\ pc' = pc
<1> DEFINE t == x % kNumTabletsPerServer
           j == x \div kNumTabletsPerServer
           m == im.tablets[im.tablets[id].link[0]]
           found == {r \in Replicas : m.link[r] = id}
<1>1. t \in Slots /\ j \in 1..kNumReplicas /\ x = j * kNumTabletsPerServer + t
  BY Zenon, TabletNumbers, ReplicaFacts DEF ReplicaNumbers
<1> HIDE DEF t, j
<1>2. id = CalcTabletId(s, j, t)
  BY <1>1, CompleteOwn, Sizes DEF CalcTabletId, ServerIds, Slots
<1>3. im.tablets[id].is_backup
  BY <1>1, <1>2, CompleteBackup
<1>4. /\ ~m.is_backup
      /\ \A r \in Replicas : m.link[r] = id <=> r = j - 1
      /\ m.qpis[j - 1] = HeardFrom(im, s, j, t)
  <2>1. BackupKnown(im, id, j, HeardFrom(im, s, j, t))
    BY Zenon, <1>1, <1>2, BackupConnects
  <2> QED
    BY Zenon, <2>1 DEF BackupKnown
<1>5. found = {j - 1} /\ found # {}
  BY Zenon, <1>1, <1>4, ReplicaFacts
<1>6. ASSUME ConnectBackup(p, x, id, im)
      PROVE  /\ qps' = [qps EXCEPT ![QP(p, x, 0)] = [state |-> "RTR", peer |-> m.qpis[j - 1]]]
             /\ pc' = pc
  <2>1. /\ qps' = [qps EXCEPT ![QP(p, x, 0)] =
                     [state |-> "RTR",
                      peer |-> m.qpis[CHOOSE r \in found : \A i \in found : r <= i]]]
        /\ pc' = pc
    BY Zenon, <1>4, <1>5, <1>6 DEF ConnectBackup, SetState, master, QP
  <2>2. (CHOOSE r \in {j - 1} : \A i \in {j - 1} : r <= i) = j - 1
    BY <1>1
  <2> HIDE DEF found, m
  <2> QED
    BY Zenon, <2>1, <2>2, <1>5
<1>7. [state |-> "RTR", peer |-> m.qpis[j - 1]] = Connected(im, s, x, 0)
  BY Zenon, <1>1, <1>4 DEF Connected, j, t
<1> QED
  BY Zenon, <1>3, <1>6, <1>7

\* One turn of the loop of Server::Join.
LEMMA ConnectTabletConn ==
  ASSUME ClusterConstants, JoinInv, ConnInv, NEW p \in Processes, ConnectTablet(p)
  PROVE  ConnInv'
<1> DEFINE im == joined[p].index_manager
           s == joined[p].id
           x == connected[p]
           id == im.servers[s].tablets[x]
<1>1. HasIndex(p) /\ pc[p] = "connecting"
  BY Zenon DEF ConnectTablet, ConnInv, Progress
<1>2. Complete(im) /\ im = index_manager_ /\ s \in ServerIds
  BY Zenon, <1>1, Known DEF Procs
<1>3. x \in TabletIdxs /\ x + 1 \in 0..kNumTabletAndBackupsPerServer /\ x + 1 > 0
  <2>1. x \in 0..kNumTabletAndBackupsPerServer /\ x < kNumTabletAndBackupsPerServer
    BY Zenon DEF ConnectTablet, ConnInv
  <2>2. kNumTabletAndBackupsPerServer \in Nat
    BY Zenon, Sizes
  <2> HIDE DEF x
  <2> QED
    BY <2>1, <2>2 DEF TabletIdxs
<1>4. /\ connected' = [connected EXCEPT ![p] = x + 1] /\ joined' = joined
      /\ index_manager_' = index_manager_ /\ DOMAIN pc = Procs
  BY Zenon DEF ConnectTablet, coordVars, JoinInv, Shapes
<1>5. IF im.tablets[id].is_backup THEN ConnectBackup(p, x, id, im) ELSE ConnectMaster(p, x, id, im)
  BY Zenon DEF ConnectTablet
<1> DEFINE over(q) == IF q[1] = p /\ q[2] = x THEN Connected(im, s, x, q[3]) ELSE qps[q]
<1>6. DOMAIN qps = QPs /\ \A q \in QPs : qps[q] = EndState(q)
  BY Zenon DEF ConnInv
<1> HIDE DEF im, s, x, id
<1>7. pc' = pc /\ qps' = [q \in QPs |-> over(q)]
  <2>1. CASE x \div kNumTabletsPerServer = 0
    BY <2>1, <1>2, <1>3, <1>5, ConnectsMaster DEF id
  <2>2. CASE x \div kNumTabletsPerServer # 0
    <3>1. qps' = [qps EXCEPT ![QP(p, x, 0)] = Connected(im, s, x, 0)] /\ pc' = pc
      BY Zenon, <2>2, <1>2, <1>3, <1>5, ConnectsBackup DEF id
    <3>2. ASSUME NEW q \in QPs, q[1] = p, q[2] = x, q[3] # 0 PROVE qps[q] = Connected(im, s, x, q[3])
      <4>1. ~(x < x)
        BY <1>3 DEF TabletIdxs
      <4> QED
        BY Zenon, <4>1, <3>2, <2>2, <1>6 DEF EndState, Connected, x
    <3>3. ASSUME NEW q \in QPs PROVE qps'[q] = over(q)
      <4>1. q = QP(p, x, 0) <=> q[1] = p /\ q[2] = x /\ q[3] = 0
        BY QueuePairNames, QueuePairParts
      <4>2. qps'[q] = IF q = QP(p, x, 0) THEN Connected(im, s, x, 0) ELSE qps[q]
        BY Zenon, <3>1, <1>6
      <4> QED
        BY Zenon, <4>1, <4>2, <3>2
    <3>4. qps' = [q \in QPs |-> qps'[q]]
      BY Zenon, <3>1, <1>6
    <3> QED
      BY Zenon, <3>1, <3>3, <3>4
  <2> QED
    BY Zenon, <2>1, <2>2
<1>8. connected' \in [Processes -> 0..kNumTabletAndBackupsPerServer]
  BY Zenon, <1>3, <1>4 DEF ConnInv
<1>9. ASSUME NEW q \in Processes PROVE Progress(q)'
  <2>1. Progress(q)
    BY Zenon DEF ConnInv
  <2>2. CASE q = p
    BY Zenon, <2>1, <2>2, <1>1, <1>3, <1>4, <1>7 DEF Progress, HasIndex, ConnInv
  <2>3. CASE q # p
    BY Zenon, <2>1, <2>3, <1>4, <1>7 DEF Progress, HasIndex, ConnInv
  <2> QED
    BY Zenon, <2>2, <2>3
<1>10. ASSUME NEW q \in QPs PROVE over(q) = EndState(q)'
  <2>1. q[1] \in Processes /\ q[2] \in TabletIdxs /\ connected' [q[1]] =
          IF q[1] = p THEN x + 1 ELSE connected[q[1]]
    BY Zenon, <1>4, QueuePairNames DEF ConnInv
  <2>2. CASE q[1] # p
    BY Zenon, <2>1, <2>2, <1>4, <1>6 DEF EndState
  <2>3. CASE q[1] = p /\ q[2] = x
    BY <2>1, <2>3, <1>2, <1>3, <1>4 DEF EndState, TabletIdxs, s
  <2>4. CASE q[1] = p /\ q[2] # x
    <3>1. q[2] < x + 1 <=> q[2] < x
      BY <2>1, <2>4, <1>3 DEF TabletIdxs
    <3> QED
      BY Zenon, <3>1, <2>1, <2>4, <1>4, <1>6 DEF EndState, x
  <2> QED
    BY Zenon, <2>2, <2>3, <2>4
<1> QED
  BY Zenon, <1>7, <1>8, <1>9, <1>10 DEF ConnInv

\* A step of process p that connects nothing.
LEMMA OtherConn ==
  ASSUME JoinInv, ConnInv, UNCHANGED <<connected, qps>>, DOMAIN pc' = Procs,
         \A p \in Processes : connected[p] > 0 =>
           index_manager_' = index_manager_ /\ joined'[p] = joined[p],
         \A p \in Processes : pc'[p] # pc[p] =>
           /\ pc'[p] # "aborted" /\ pc'[p] # "start"
           /\ pc'[p] = "requested" => pc[p] = "start"
           /\ pc'[p] = "connecting" => joined'[p].kind = "RES_JOIN",
         \A p \in Processes : joined'[p] = joined[p] \/ joined'[p].kind = "RES_JOIN"
  PROVE  ConnInv'
<1>1. ASSUME NEW p \in Processes PROVE Progress(p)'
  BY Zenon DEF Progress, HasIndex, ConnInv
<1> QED
  BY Zenon, <1>1, KeepsConn

\* ... and each step keeps to the order of the loop.
LEMMA NextConn ==
  ASSUME ClusterConstants, NoClientServes, JoinInv, ConnInv, [Next]_vars PROVE ConnInv'
<1> USE DEF Procs
<1>1. ASSUME NEW p \in Procs, RequestJoin(p) \/ RecvFails(p) PROVE ConnInv'
  BY Zenon, <1>1, OtherConn DEF RequestJoin, RecvFails, coordVars, JoinInv, Shapes
<1>2. ASSUME NEW p \in Processes, RecvAnswer(p) PROVE ConnInv'
  <2>1. ~(connected[p] > 0)
    BY <1>2 DEF RecvAnswer, ConnInv, Progress
  <2> QED
    BY Zenon, <1>2, <2>1, OtherConn DEF RecvAnswer, coordVars, JoinInv, Shapes
<1>3. ASSUME NEW p \in Processes, StartServing(p) \/ Crash(p) PROVE ConnInv'
  BY Zenon, <1>3, OtherConn DEF StartServing, Crash, coordVars, JoinInv, Shapes
<1>4. ASSUME NEW c \in Clients, ClientRecvAnswer(c) PROVE ConnInv'
  <2>1. c \notin Processes
    BY Zenon DEF NoClientServes
  <2> QED
    BY Zenon, <1>4, <2>1, OtherConn DEF ClientRecvAnswer, coordVars, JoinInv, Shapes
<1>5. ASSUME NEW p \in Processes, HandleServerRequestJoin(p) PROVE ConnInv'
  <2>1. UNCHANGED peerVars
    BY Zenon, <1>5 DEF HandleServerRequestJoin
  <2>2. ASSUME NEW q \in Processes, connected[q] > 0 PROVE index_manager_' = index_manager_
    <3>1. num_servers_ = kNumServers
      BY Zenon, <2>2, Known DEF ConnInv, Progress
    <3>2. Full
      BY <3>1 DEF Full, ClusterConstants
    <3> QED
      BY Zenon, <3>2, <1>5 DEF HandleServerRequestJoin, IgnoreJoin, coordVars
  <2> QED
    BY Zenon, <2>1, <2>2, OtherConn DEF peerVars, JoinInv, Shapes
<1>6. ASSUME NEW c \in Clients, HandleClientRequestJoin(c) PROVE ConnInv'
  BY Zenon, <1>6, OtherConn DEF HandleClientRequestJoin, peerVars, JoinInv, Shapes
<1>7. CASE UNCHANGED vars
  BY Zenon, <1>7, OtherConn DEF vars, peerVars, coordVars, JoinInv, Shapes
<1> QED
  BY Zenon, <1>1, <1>2, <1>3, <1>4, <1>5, <1>6, <1>7, ConnectTabletConn DEF Next

\* How far each server has come with its loop tells the state of all its queue
\* pairs, and no assertion of SettingupQPConnect has failed.
THEOREM Connecting == Spec => []ConnInv
<1>1. Init => ConnInv
  BY Zenon, ClusterAssumption, InitConn
<1>2. JoinInv /\ ConnInv /\ [Next]_vars => ConnInv'
  BY Zenon, ClusterAssumption, NextConn
<1> QED
  BY <1>1, <1>2, Joining, PTL DEF Spec

\* Who sends on queue pair q, and to which queue pair.
LEMMA Sender ==
  ASSUME ClusterConstants, JoinInv, ConnInv, NEW q \in QPs, qps[q].state = "RTS"
  PROVE  /\ Complete(index_manager_)
         /\ \E s \in ServerIds, t \in Slots, r \in Replicas :
              /\ q = QP(Owner(index_manager_, s), t, r)
              /\ qps[q].peer = SentTo(index_manager_, s, t, r)
<1> DEFINE p == q[1]
           x == q[2]
           t == x % kNumTabletsPerServer
<1>1. /\ p \in Processes /\ x \in TabletIdxs /\ q[3] \in Replicas /\ q = QP(p, x, q[3])
  BY Zenon, QueuePairNames
<1>2. x < connected[p] /\ qps[q] = Connected(index_manager_, joined[p].id, x, q[3])
  BY Zenon DEF ConnInv, EndState, NewQueuePair
<1>3. connected[p] > 0
  BY <1>1, <1>2 DEF ConnInv, TabletIdxs
<1>4. /\ Complete(index_manager_) /\ joined[p].id \in ServerIds
      /\ Owner(index_manager_, joined[p].id) = p
  BY Zenon, <1>1, <1>3, Known DEF ConnInv, Progress, Procs
<1>5. x \div kNumTabletsPerServer = 0 /\ qps[q].peer = SentTo(index_manager_, joined[p].id, t, q[3])
  BY <1>2 DEF Connected, NewQueuePair
<1>6. t \in Slots /\ x = 0 * kNumTabletsPerServer + t
  BY Zenon, <1>1, <1>5, TabletNumbers
<1> HIDE DEF t
<1>7. x = t
  BY <1>6, Sizes DEF Slots
<1> QED
  BY Zenon, <1>1, <1>4, <1>5, <1>6, <1>7

\* The queue pair at the other end.
LEMMA Receiver ==
  ASSUME ClusterConstants, JoinInv, ConnInv, Complete(index_manager_),
         NEW s \in ServerIds, NEW t \in Slots, NEW r \in Replicas
  PROVE  LET peer == SentTo(index_manager_, s, t, r)
         IN  /\ peer \in QPs
             /\ qps[peer].state # "INIT" =>
                  qps[peer] = [state |-> "RTR", peer |-> QP(Owner(index_manager_, s), t, r)]
<1> DEFINE b == BackupServer(s, r + 1)
           p == Owner(index_manager_, b)
           x == (r + 1) * kNumTabletsPerServer + t
           peer == QP(p, x, 0)
<1>1. r + 1 \in 1..kNumReplicas /\ r + 1 \in ReplicaNumbers /\ 0 \in Replicas /\ (r + 1) - 1 = r
      /\ r + 1 # 0
  BY ReplicaFacts DEF Replicas
<1>2. b \in ServerIds /\ MasterServer(b, r + 1) = s
  BY Zenon, <1>1, Neighbours
<1>3. p \in Processes
  BY Zenon, <1>2, CompleteServers
<1>4. x \in TabletIdxs /\ x \div kNumTabletsPerServer = r + 1 /\ x % kNumTabletsPerServer = t
  BY Zenon, <1>1, TabletNumbers
<1> HIDE DEF b, p, x
<1>5. peer \in QPs /\ peer[1] = p /\ peer[2] = x /\ peer[3] = 0
  BY <1>1, <1>3, <1>4, QueuePairNames, QueuePairParts
<1>6. ASSUME qps[peer].state # "INIT"
      PROVE  qps[peer] = [state |-> "RTR", peer |-> QP(Owner(index_manager_, s), t, r)]
  <2>1. x < connected[p] /\ qps[peer] = Connected(index_manager_, joined[p].id, x, 0)
    BY Zenon, <1>5, <1>6 DEF ConnInv, EndState, NewQueuePair
  <2>2. connected[p] > 0
    BY <2>1, <1>3, <1>4 DEF ConnInv, TabletIdxs
  <2>3. joined[p].id \in ServerIds /\ Owner(index_manager_, joined[p].id) = p
    BY Zenon, <2>2, <1>3, Known DEF ConnInv, Progress, Procs
  <2>4. joined[p].id = b
    BY Zenon, <2>3, <1>2, CompleteServers DEF p
  <2>5. qps[peer] = [state |-> "RTR", peer |-> HeardFrom(index_manager_, b, r + 1, t)]
    BY Zenon, <2>1, <2>4, <1>1, <1>4 DEF Connected
  <2> QED
    BY Zenon, <2>5, <1>1, <1>2 DEF HeardFrom
<1> QED
  BY Zenon, <1>5, <1>6 DEF SentTo, b, p, x

\* The queue pairs that servers connect on their own, in any order, meet in
\* pairs, and no assertion of SettingupQPConnect on what the index says fails.
THEOREM QueuePairsMeet == Spec => []QueuePairsPaired
<1> ClusterConstants
  BY Zenon, ClusterAssumption
<1>1. ASSUME ConnInv PROVE NoServerAborts
  BY Zenon, <1>1 DEF ConnInv, Progress, NoServerAborts
<1>2. ASSUME JoinInv, ConnInv PROVE QueuePairsPaired
  <2> SUFFICES ASSUME NEW q \in QPs, qps[q].state = "RTS", NEW peer, peer = qps[q].peer
               PROVE  /\ peer \in QPs
                      /\ qps[peer].state # "INIT" => qps[peer] = [state |-> "RTR", peer |-> q]
                      /\ \A r \in QPs \ {q} : qps[r].state = "RTS" => qps[r].peer # peer
    BY <1>1, <1>2 DEF QueuePairsPaired
  <2>1. Complete(index_manager_)
    BY Zenon, <1>2, Sender
  <2>2. PICK s \in ServerIds, t \in Slots, r \in Replicas :
          q = QP(Owner(index_manager_, s), t, r) /\ peer = SentTo(index_manager_, s, t, r)
    BY Zenon, <1>2, Sender
  <2>3. peer \in QPs /\ (qps[peer].state # "INIT" => qps[peer] = [state |-> "RTR", peer |-> q])
    BY Zenon, <1>2, <2>1, <2>2, Receiver
  <2>4. ASSUME NEW q2 \in QPs, qps[q2].state = "RTS", qps[q2].peer = peer PROVE q2 = q
    <3>1. PICK s2 \in ServerIds, t2 \in Slots, r2 \in Replicas :
            q2 = QP(Owner(index_manager_, s2), t2, r2) /\ peer = SentTo(index_manager_, s2, t2, r2)
      BY <1>2, <2>4, Sender
    <3>2. SentTo(index_manager_, s, t, r) = SentTo(index_manager_, s2, t2, r2)
      BY Zenon, <2>2, <3>1
    <3>3. s = s2 /\ t = t2 /\ r = r2
      BY ONLY ClusterConstants, <2>1, <3>2, OneSender
    <3> QED
      BY Zenon, <2>2, <3>1, <3>3
  <2> QED
    BY Zenon, <2>3, <2>4
<1> QED
  BY <1>2, Joining, Connecting, PTL

=============================================================================
