-------------------------------- MODULE Sync --------------------------------
(***************************************************************************)
(* The two loops of Tablet::Sync (src/src/tablet.cc) and the queue pairs   *)
(* under them: post one write to each backup, then wait for one completion *)
(* on each queue pair.  All work requests carry the same wr_id, completions *)
(* are taken as they come, and an exception leaves the rest of both loops   *)
(* undone; Worker::Serve catches it and answers the client all the same.   *)
(*                                                                         *)
(* Operations are numbered, and the write an operation sends is its        *)
(* number.  Reliable-connection queue pairs, from how Sync uses them:      *)
(* writes to a backup are applied and acknowledged in order; a write to a   *)
(* backup that is gone completes with an error and puts the queue pair in  *)
(* the error state, where everything posted is flushed; a work request      *)
(* takes a slot of the send queue until its completion has been polled.    *)
(***************************************************************************)
EXTENDS Integers, Sequences

CONSTANTS
  kNumReplicas,
  kMaxIBQueueDepth,   \* slots of a send queue
  MaxOps              \* bound on the operations

ASSUME SyncAssumption ==
  /\ kNumReplicas \in Nat \ {0}
  /\ kMaxIBQueueDepth \in Nat \ {0}
  /\ MaxOps \in Nat

VARIABLES
  op,        \* number of the current or last operation with modifications
  fits,      \* its first range is at most kMaxInlineData bytes long
  lastSent,  \* the last operation whose range fitted
  phase,     \* the worker: "idle", "post", "poll", or "synced" when Sync returns
  k,         \* index of the loop, from 1
  up,        \* backup |-> its server lives
  qp,        \* backup |-> state of the queue pair to it
  sq,        \* backup |-> writes posted and not completed
  cq,        \* backup |-> completions not polled
  applied    \* backup |-> the last write applied to its memory

worker == <<op, fits, lastSent, phase, k>>
fabric == <<up, qp, sq, cq, applied>>
vars == <<worker, fabric>>

Backups == 1..kNumReplicas

Init ==
  /\ op = 0 /\ fits = TRUE /\ lastSent = 0 /\ phase = "idle" /\ k = 1
  /\ up = [b \in Backups |-> TRUE]
  /\ qp = [b \in Backups |-> "RTS"]
  /\ sq = [b \in Backups |-> <<>>]
  /\ cq = [b \in Backups |-> <<>>]
  /\ applied = [b \in Backups |-> 0]

----------------------------------------------------------------------------
(* The worker.                                                             *)

\* An operation with modifications has been executed, and Sync begins.
BeginSync(f) ==
  /\ phase = "idle" /\ op < MaxOps
  /\ op' = op + 1 /\ fits' = f /\ phase' = "post" /\ k' = 1
  /\ lastSent' = IF f THEN op + 1 ELSE lastSent
  /\ UNCHANGED fabric

AcceptsWhenFull(b) == fits
\* ibv_post_send refuses an inline range that is too long, and a full queue.
Accepts(b) == fits /\ Len(sq[b]) + Len(cq[b]) < kMaxIBQueueDepth

\* The exception leaves Sync; the worker logs it and goes on.
Throw == phase' = "idle" /\ k' = 1

Advance(next) ==
  IF k < kNumReplicas THEN k' = k + 1 /\ UNCHANGED phase
                      ELSE k' = 1 /\ phase' = next

PostIgnoringErrors ==
  /\ phase = "post"
  /\ sq' = IF Accepts(k) THEN [sq EXCEPT ![k] = Append(@, op)] ELSE sq
  /\ Advance("poll")
  /\ UNCHANGED <<op, fits, lastSent, up, qp, cq, applied>>
Post ==
  /\ phase = "post"
  /\ IF Accepts(k)
     THEN sq' = [sq EXCEPT ![k] = Append(@, op)] /\ Advance("poll")
     ELSE UNCHANGED sq /\ Throw
  /\ UNCHANGED <<op, fits, lastSent, up, qp, cq, applied>>

PollOnce ==
  /\ phase = "poll" /\ cq[k] # <<>>
  /\ cq' = [cq EXCEPT ![k] = Tail(@)]
  /\ IF Head(cq[k]) = "ok" THEN phase' = "synced" /\ k' = 1 ELSE Throw
  /\ UNCHANGED <<op, fits, lastSent, up, qp, sq, applied>>
PollIgnoringStatus ==
  /\ phase = "poll" /\ cq[k] # <<>>
  /\ cq' = [cq EXCEPT ![k] = Tail(@)]
  /\ Advance("synced")
  /\ UNCHANGED <<op, fits, lastSent, up, qp, sq, applied>>
\* Spin on the completion queue until it has an entry, whosever it is.
Poll ==
  /\ phase = "poll" /\ cq[k] # <<>>
  /\ cq' = [cq EXCEPT ![k] = Tail(@)]
  /\ IF Head(cq[k]) = "ok" THEN Advance("synced") ELSE Throw
  /\ UNCHANGED <<op, fits, lastSent, up, qp, sq, applied>>

Return ==
  /\ phase = "synced" /\ phase' = "idle"
  /\ UNCHANGED <<op, fits, lastSent, k, fabric>>

----------------------------------------------------------------------------
(* The fabric and the backups.                                             *)

Complete(b, status) ==
  sq' = [sq EXCEPT ![b] = Tail(@)] /\ cq' = [cq EXCEPT ![b] = Append(@, status)]

\* The write reaches the backup's memory ...
Apply(b) ==
  /\ qp[b] = "RTS" /\ up[b] /\ sq[b] # <<>> /\ applied[b] < Head(sq[b])
  /\ applied' = [applied EXCEPT ![b] = Head(sq[b])]
  /\ UNCHANGED <<worker, up, qp, sq, cq>>

\* ... and the acknowledgement comes back.
Acknowledge(b) ==
  /\ qp[b] = "RTS" /\ up[b] /\ sq[b] # <<>> /\ applied[b] >= Head(sq[b])
  /\ Complete(b, "ok")
  /\ UNCHANGED <<worker, up, qp, applied>>

\* The retries are used up.
Fail(b) ==
  /\ qp[b] = "RTS" /\ ~up[b] /\ sq[b] # <<>>
  /\ Complete(b, "error")
  /\ qp' = [qp EXCEPT ![b] = "ERR"]
  /\ UNCHANGED <<worker, up, applied>>

Flush(b) ==
  /\ qp[b] = "ERR" /\ sq[b] # <<>>
  /\ Complete(b, "error")
  /\ UNCHANGED <<worker, up, qp, applied>>

Crash(b) ==
  /\ up[b] /\ up' = [up EXCEPT ![b] = FALSE]
  /\ UNCHANGED <<worker, qp, sq, cq, applied>>

Next ==
  \/ \E f \in BOOLEAN : BeginSync(f)
  \/ Post \/ Poll \/ Return
  \/ \E b \in Backups : Apply(b) \/ Acknowledge(b) \/ Fail(b) \/ Flush(b) \/ Crash(b)

Spec == Init /\ [][Next]_vars

\* The worker thread runs on, and the adapter completes what it was given.
Fairness ==
  /\ WF_vars(Post) /\ WF_vars(Poll) /\ WF_vars(Return)
  /\ \A b \in Backups : /\ WF_vars(Apply(b)) /\ WF_vars(Acknowledge(b))
                        /\ WF_vars(Fail(b)) /\ WF_vars(Flush(b))

FairSpec == Spec /\ Fairness

----------------------------------------------------------------------------
(* Properties.                                                             *)

Total(b) == Len(sq[b]) + Len(cq[b])

TypeOK ==
  /\ op \in 0..MaxOps /\ lastSent \in 0..op /\ fits \in BOOLEAN
  /\ phase \in {"idle", "post", "poll", "synced"} /\ k \in Backups
  /\ up \in [Backups -> BOOLEAN] /\ qp \in [Backups -> {"RTS", "ERR"}]
  /\ sq \in [Backups -> Seq(Nat)] /\ cq \in [Backups -> Seq({"ok", "error"})]
  /\ applied \in [Backups -> Nat]
  /\ \A b \in Backups : /\ Total(b) <= kMaxIBQueueDepth
                        /\ applied[b] <= op
                        /\ \A i \in 1..Len(sq[b]) : sq[b][i] <= op

Intact == \A b \in Backups : qp[b] = "RTS"

\* Nothing of b is outstanding; only the write of this operation is.
Quiet(b) == sq[b] = <<>> /\ cq[b] = <<>>
Outstanding(b) ==
  \/ sq[b] = <<op>> /\ cq[b] = <<>>
  \/ sq[b] = <<>> /\ cq[b] = <<"ok">> /\ applied[b] = op

\* Where the loops are tells what is outstanding ...
Clean ==
  /\ phase \in {"idle", "synced"} => \A b \in Backups : Quiet(b)
  /\ phase = "synced" => \A b \in Backups : applied[b] = op
  /\ phase = "post" => /\ fits \/ k = 1
                       /\ \A b \in Backups : IF b < k THEN Outstanding(b) ELSE Quiet(b)
  /\ phase = "poll" => \A b \in Backups :
       IF b < k THEN Quiet(b) /\ applied[b] = op ELSE Outstanding(b)

\* ... or a backup stands in the way, with nothing but errors to be polled.
Stuck ==
  /\ phase # "synced"
  /\ \E e \in Backups : /\ qp[e] = "ERR"
                        /\ phase = "poll" => k <= e
                        /\ \A i \in 1..Len(cq[e]) : cq[e][i] = "error"

\* The reason why all requests can do with one wr_id.  While no queue pair
\* has failed, the place in the two loops of Sync tells exactly what is in each
\* queue, so that a completion can only be the one waited for.  The first queue
\* pair to fail had no completion left to be polled, and will only ever have
\* errors: no later Sync gets past it.
LoopsMatchQueues == TypeOK /\ IF Intact THEN Clean ELSE Stuck

\* Although every request has the same wr_id and failures leave completions
\* behind, Sync never takes an old completion for a new one: when it returns
\* normally, every backup has applied the write of this very operation.
SyncedMeansApplied == phase = "synced" => \A b \in Backups : applied[b] = op

\* A failed backup cuts off only the ones after it: a backup whose queue pair
\* and all before it are intact has every write that could be sent, until the
\* queue of one that was cut off has filled up and Sync cannot post to it.
EarlierBackupsCurrent ==
  phase = "idle" /\ (\A b \in Backups : Total(b) < kMaxIBQueueDepth) =>
    \A b \in Backups : (\A c \in 1..b : qp[c] = "RTS") => applied[b] = lastSent

\* Whatever fails, Sync ends and the worker serves the next request.
WorkerReturns == (phase # "idle") ~> (phase = "idle")

============================================================================
