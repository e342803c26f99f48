---------------------------- MODULE Replication ----------------------------
(***************************************************************************)
(* What replication leaves in the backup of a tablet: each operation is    *)
(* followed by Tablet::Sync (src/src/tablet.cc), here with a backup that   *)
(* receives everything it is sent.  How completions and failures interact  *)
(* with the loops of Sync is the subject of module Sync.                   *)
(***************************************************************************)
EXTENDS TabletSpec, Merge

VARIABLES
  phase,     \* where the worker is: "ready", "sync" or "merged"
  merged,    \* the list MergeModifications leaves for Sync to send
  backup,    \* the memory of the backup tablet
  mirror     \* auxiliary: a backup that is sent the whole merged list

rvars == <<vars, phase, merged, backup, mirror>>

\* One RDMA write: the bytes of range m, taken from master.  A range may
\* begin in the middle of a word, at a val_len.
RdmaWrite(to, master, m) ==
  [a \in Offsets |->
     IF m.des <= a /\ a < End(m) THEN master[a]
     ELSE IF m.des = a + 2 /\ a + 2 < End(m)
          THEN (to[a] % kHalf) + kHalf * (master[a] \div kHalf)
     ELSE to[a]]

\* The loop over the merged list is left after its first round ("DEBUG").
FirstOnly(list) == SubSeq(list, 1, 1)

\* Writes to one backup are carried out in the order they are posted.
Send(to, master, list) ==
  LET upto[i \in 0..Len(list)] ==
        IF i = 0 THEN to
        ELSE LET before == upto[i - 1] IN RdmaWrite(before, master, list[i])
  IN  upto[Len(list)]

RInit ==
  /\ Init /\ phase = "ready" /\ merged = <<>>
  /\ backup = Format.mem /\ mirror = Format.mem

\* A process that died or spins does not come to Sync.
Request ==
  /\ phase = "ready" /\ Next
  /\ phase' = IF Serving' THEN "sync" ELSE "ready"
  /\ UNCHANGED <<merged, backup, mirror>>

\* An operation that changed nothing has nothing to send.
SyncNothing ==
  /\ phase = "sync" /\ heap.mods = <<>>
  /\ phase' = "ready" /\ UNCHANGED <<vars, merged, backup, mirror>>

SyncMerge ==
  /\ phase = "sync" /\ heap.mods # <<>>
  /\ merged' = MergeModifications(heap.mods)
  /\ phase' = "merged" /\ UNCHANGED <<vars, backup, mirror>>

SyncBackup ==
  /\ phase = "merged"
  /\ backup' = Send(backup, heap.mem, FirstOnly(merged))
  /\ mirror' = Send(mirror, heap.mem, merged)
  /\ merged' = <<>> /\ phase' = "ready" /\ UNCHANGED vars

RNext == Request \/ SyncNothing \/ SyncMerge \/ SyncBackup

RSpec == RInit /\ [][RNext]_rvars

----------------------------------------------------------------------------
(* Properties.                                                             *)

\* Modification list and merging together are enough for a backup: one that
\* is sent every range MergeModifications returns, operation after operation,
\* holds the master's memory whenever the master is ready for a request.
MergedSuffices == Serving /\ phase = "ready" => mirror = heap.mem

----------------------------------------------------------------------------
(* What the documentation says and the code does not do.                   *)

\* README.md:47 "the number of replications in primary backup": after an
\* operation is answered, the backup has the master's memory.
BackupIsReplica == Serving /\ phase = "ready" => backup = heap.mem

============================================================================
