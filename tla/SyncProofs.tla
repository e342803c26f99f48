----------------------------- MODULE SyncProofs -----------------------------
(***************************************************************************)
(* What Tablet::Sync may conclude from completions that all look alike,    *)
(* for any number of replicas, any depth of the queues and any number of   *)
(* operations.                                                             *)
(***************************************************************************)
EXTENDS Sync, TLAPS

\* What Tail and Append, of the queues of ibv_post_send and ibv_poll_cq, do.
LEMMA TailFacts ==
  ASSUME NEW S, NEW s \in Seq(S), s # <<>>
  PROVE  /\ Head(s) \in S /\ Head(s) = s[1] /\ Tail(s) \in Seq(S)
         /\ Len(s) \in Nat \ {0} /\ Len(Tail(s)) = Len(s) - 1
         /\ \A i \in 1..Len(Tail(s)) : Tail(s)[i] = s[i + 1] /\ i + 1 \in 1..Len(s)
  OBVIOUS

LEMMA AppendFacts ==
  ASSUME NEW S, NEW s \in Seq(S), NEW x \in S
  PROVE  /\ Append(s, x) \in Seq(S) /\ Len(s) \in Nat /\ Len(Append(s, x)) = Len(s) + 1
         /\ \A i \in 1..Len(Append(s, x)) :
              Append(s, x)[i] = IF i <= Len(s) THEN s[i] ELSE x
  OBVIOUS

----------------------------------------------------------------------------
(* Types.                                                                  *)

LEMMA InitType == Init => TypeOK
  BY SyncAssumption DEF Init, TypeOK, Backups, Total

\* The worker: Sync begins, posts, polls and returns.
LEMMA BeginType ==
  ASSUME TypeOK, NEW f \in BOOLEAN, BeginSync(f)
  PROVE  TypeOK'
<1>1. fits' \in BOOLEAN
  BY Zenon DEF BeginSync
<1>2. op' = op + 1 /\ op' \in 0..MaxOps /\ k' \in Backups /\ phase' = "post"
  BY SyncAssumption DEF TypeOK, BeginSync, Backups
<1>3. lastSent' \in 0..op'
  <2>1. CASE f
    BY <2>1, <1>2 DEF TypeOK, BeginSync
  <2>2. CASE ~f
    BY <2>2, <1>2 DEF TypeOK, BeginSync
  <2> QED BY Zenon, <2>1, <2>2
<1>4. \A b \in Backups : applied[b] <= op' /\ \A i \in 1..Len(sq[b]) : sq[b][i] <= op'
  <2>1. \A b \in Backups : sq[b] \in Seq(Nat) /\ applied[b] \in Nat
    BY Zenon DEF TypeOK
  <2>2. \A b \in Backups : \A i \in 1..Len(sq[b]) : sq[b][i] \in Nat
    BY <2>1
  <2> QED BY <1>2, <2>1, <2>2 DEF TypeOK
<1> QED BY Zenon, <1>1, <1>2, <1>3, <1>4 DEF TypeOK, BeginSync, Backups, Total, fabric

LEMMA AdvanceType ==
  ASSUME TypeOK, NEW next \in {"poll", "synced"}, Advance(next)
  PROVE  k' \in Backups /\ phase' \in {phase, next}
  BY SyncAssumption DEF TypeOK, Advance, Backups

LEMMA Room ==
  \A a, b, n \in Nat : a + b < n => a + 1 + b <= n
  OBVIOUS

LEMMA PostType ==
  ASSUME TypeOK, Post
  PROVE  TypeOK'
<1>1. k' \in Backups /\ phase' \in {"idle", "post", "poll", "synced"}
  <2>1. CASE Accepts(k)
    BY Zenon, <2>1, AdvanceType DEF Post, TypeOK
  <2>2. CASE ~ Accepts(k)
    BY <2>2, SyncAssumption DEF Post, Throw, Backups
  <2> QED BY Zenon, <2>1, <2>2
<1>2. sq' \in [Backups -> Seq(Nat)]
      /\ \A b \in Backups : /\ Len(sq'[b]) + Len(cq[b]) <= kMaxIBQueueDepth
                            /\ \A i \in 1..Len(sq'[b]) : sq'[b][i] <= op
  <2>1. CASE Accepts(k)
    <3>1. sq' = [sq EXCEPT ![k] = Append(sq[k], op)] /\ k \in Backups /\ sq[k] \in Seq(Nat)
          /\ op \in Nat /\ Len(cq[k]) \in Nat
      BY <2>1 DEF Post, TypeOK
    <3>2. /\ Append(sq[k], op) \in Seq(Nat) /\ Len(sq[k]) \in Nat
          /\ Len(Append(sq[k], op)) = Len(sq[k]) + 1
          /\ \A i \in 1..Len(Append(sq[k], op)) :
               Append(sq[k], op)[i] = IF i <= Len(sq[k]) THEN sq[k][i] ELSE op
      BY <3>1, AppendFacts
    <3>3. Len(Append(sq[k], op)) + Len(cq[k]) <= kMaxIBQueueDepth
      <4>1. Len(sq[k]) + Len(cq[k]) < kMaxIBQueueDepth
        BY <2>1, Zenon DEF Accepts
      <4>2. Len(sq[k]) \in Nat /\ Len(cq[k]) \in Nat /\ kMaxIBQueueDepth \in Nat
        BY Zenon, <3>1, <3>2, SyncAssumption
      <4>3. Len(sq[k]) + 1 + Len(cq[k]) <= kMaxIBQueueDepth
        BY <4>1, <4>2, Room, Zenon
      <4> QED BY <3>2, <4>3, Zenon
    <3>4. \A i \in 1..Len(Append(sq[k], op)) : Append(sq[k], op)[i] <= op
      BY <3>1, <3>2 DEF TypeOK
    <3> QED BY Zenon, <3>1, <3>2, <3>3, <3>4 DEF TypeOK, Total
  <2>2. CASE ~ Accepts(k)
    BY Zenon, <2>2 DEF Post, TypeOK, Total
  <2> QED BY Zenon, <2>1, <2>2
<1> QED BY Zenon, <1>1, <1>2 DEF Post, TypeOK, Total, Backups

LEMMA PollType ==
  ASSUME TypeOK, Poll
  PROVE  TypeOK'
<1>1. k' \in Backups /\ phase' \in {"idle", "post", "poll", "synced"}
  <2>1. CASE Head(cq[k]) = "ok"
    BY Zenon, <2>1, AdvanceType DEF Poll, TypeOK
  <2>2. CASE Head(cq[k]) # "ok"
    BY <2>2, SyncAssumption DEF Poll, Throw, Backups
  <2> QED BY Zenon, <2>1, <2>2
<1>2. k \in Backups /\ cq[k] \in Seq({"ok", "error"}) /\ cq[k] # <<>>
      /\ cq' = [cq EXCEPT ![k] = Tail(cq[k])]
  BY Zenon DEF Poll, TypeOK
<1>3. Tail(cq[k]) \in Seq({"ok", "error"}) /\ Len(Tail(cq[k])) = Len(cq[k]) - 1
      /\ Len(cq[k]) \in Nat
  BY Zenon, <1>2, TailFacts
<1>4. \A b \in Backups : Len(sq[b]) + Len(cq'[b]) <= kMaxIBQueueDepth
  BY <1>2, <1>3, SyncAssumption DEF TypeOK, Total
<1> QED BY Zenon, <1>1, <1>2, <1>3, <1>4 DEF Poll, TypeOK, Total, Backups

LEMMA ReturnType == ASSUME TypeOK, Return PROVE TypeOK'
  BY Zenon DEF TypeOK, Return, Total, Backups, fabric

\* The fabric: a request is completed.
LEMMA CompleteType ==
  ASSUME TypeOK, NEW b \in Backups, NEW status \in {"ok", "error"}, sq[b] # <<>>,
         Complete(b, status), UNCHANGED <<worker, up, applied>>,
         qp' \in [Backups -> {"RTS", "ERR"}]
  PROVE  TypeOK'
<1>1. sq[b] \in Seq(Nat) /\ cq[b] \in Seq({"ok", "error"})
  BY Zenon DEF TypeOK
<1>2. /\ Tail(sq[b]) \in Seq(Nat) /\ Len(Tail(sq[b])) = Len(sq[b]) - 1 /\ Len(sq[b]) \in Nat
      /\ \A i \in 1..Len(Tail(sq[b])) : Tail(sq[b])[i] = sq[b][i + 1] /\ i + 1 \in 1..Len(sq[b])
  BY Zenon, <1>1, TailFacts
<1>3. Append(cq[b], status) \in Seq({"ok", "error"}) /\ Len(cq[b]) \in Nat
      /\ Len(Append(cq[b], status)) = Len(cq[b]) + 1
  BY <1>1, AppendFacts
<1>4. sq' = [sq EXCEPT ![b] = Tail(sq[b])] /\ cq' = [cq EXCEPT ![b] = Append(cq[b], status)]
  BY Zenon DEF Complete
<1>5. \A i \in 1..Len(Tail(sq[b])) : Tail(sq[b])[i] <= op
  BY Zenon, <1>2 DEF TypeOK
<1>6. Len(Tail(sq[b])) + Len(Append(cq[b], status)) <= kMaxIBQueueDepth
  BY <1>2, <1>3, SyncAssumption DEF TypeOK, Total
<1>7. sq' \in [Backups -> Seq(Nat)] /\ cq' \in [Backups -> Seq({"ok", "error"})]
  BY Zenon, <1>2, <1>3, <1>4 DEF TypeOK
<1>8. \A c \in Backups : /\ Len(sq'[c]) + Len(cq'[c]) <= kMaxIBQueueDepth
                         /\ \A i \in 1..Len(sq'[c]) : sq'[c][i] <= op
  BY Zenon, <1>4, <1>5, <1>6 DEF TypeOK, Total
<1> QED BY Zenon, <1>7, <1>8 DEF TypeOK, Total, worker, Backups

LEMMA ApplyType ==
  ASSUME TypeOK, NEW b \in Backups, Apply(b)
  PROVE  TypeOK'
<1>1. Head(sq[b]) \in Nat /\ Head(sq[b]) <= op
  <2>1. Head(sq[b]) \in Nat /\ Head(sq[b]) = sq[b][1] /\ Len(sq[b]) \in Nat \ {0}
    BY Zenon, TailFacts DEF TypeOK, Apply
  <2> QED BY <2>1 DEF TypeOK
<1> QED BY Zenon, <1>1 DEF TypeOK, Apply, Total, worker, Backups

LEMMA CrashType == ASSUME TypeOK, NEW b \in Backups, Crash(b) PROVE TypeOK'
  BY Zenon DEF TypeOK, Crash, Total, worker, Backups

LEMMA NextType ==
  ASSUME TypeOK, Next
  PROVE  TypeOK'
<1>1. ASSUME NEW b \in Backups, Acknowledge(b) PROVE TypeOK'
  BY Zenon, <1>1, CompleteType DEF Acknowledge, TypeOK
<1>2. ASSUME NEW b \in Backups, Fail(b) PROVE TypeOK'
  <2>1. qp' \in [Backups -> {"RTS", "ERR"}]
    BY Zenon, <1>2 DEF Fail, TypeOK
  <2> QED BY Zenon, <1>2, <2>1, CompleteType DEF Fail
<1>3. ASSUME NEW b \in Backups, Flush(b) PROVE TypeOK'
  BY Zenon, <1>3, CompleteType DEF Flush, TypeOK
<1> QED BY Zenon, <1>1, <1>2, <1>3, BeginType, PostType, PollType, ReturnType, ApplyType, CrashType DEF Next

----------------------------------------------------------------------------
(* While every queue pair is intact, the place in the loops tells what is  *)
(* in the queues.                                                          *)

LEMMA Single ==
  ASSUME NEW x
  PROVE  /\ Append(<<>>, x) = <<x>> /\ Head(<<x>>) = x /\ Tail(<<x>>) = <<>>
         /\ <<x>> # <<>> /\ Len(<<>>) = 0
  OBVIOUS

LEMMA BeginClean ==
  ASSUME TypeOK, Clean, NEW f \in BOOLEAN, BeginSync(f)
  PROVE  Clean'
<1>1. phase' = "post" /\ k' = 1 /\ \A b \in Backups : Quiet(b)'
  BY Zenon DEF Clean, BeginSync, Quiet, fabric
<1>2. \A b \in Backups : ~ (b < k')
  BY <1>1 DEF Backups
<1> QED BY Zenon, <1>1, <1>2 DEF Clean

LEMMA PostClean ==
  ASSUME TypeOK, Clean, Post
  PROVE  Clean'
<1>0. PICK c \in Backups : c = k
  BY Zenon DEF TypeOK
<1>1. /\ k \in Backups /\ phase = "post" /\ Quiet(k)
      /\ \A b \in Backups : IF b < k THEN Outstanding(b) ELSE Quiet(b)
  BY DEF Clean, Post, TypeOK, Backups
<1>2. CASE Accepts(k)
  <2>1. /\ sq' = [sq EXCEPT ![k] = Append(sq[k], op)] /\ Advance("poll")
        /\ UNCHANGED <<op, fits, cq, applied>>
    BY Zenon, <1>2 DEF Post
  <2>2. Outstanding(c)'
    BY Zenon, <1>0, <1>1, <2>1, Single DEF Quiet, Outstanding, TypeOK
  <2>3. \A b \in Backups : b # c => (Outstanding(b)' <=> Outstanding(b)) /\ (Quiet(b)' <=> Quiet(b))
    BY Zenon, <1>0, <1>1, <2>1 DEF Quiet, Outstanding, TypeOK
  <2>4. fits'
    BY <1>2, <2>1, Zenon DEF Accepts
  <2>5. CASE k < kNumReplicas
    <3>1. phase' = "post" /\ k' = k + 1
      BY Zenon, <1>1, <2>1, <2>5 DEF Advance
    <3>2. \A b \in Backups : IF b < k' THEN Outstanding(b)' ELSE Quiet(b)'
      BY <1>0, <1>1, <2>2, <2>3, <3>1 DEF Backups
    <3> QED BY Zenon, <2>4, <3>1, <3>2 DEF Clean
  <2>6. CASE ~ (k < kNumReplicas)
    <3>1. phase' = "poll" /\ k' = 1
      BY Zenon, <2>1, <2>6 DEF Advance
    <3>2. \A b \in Backups : Outstanding(b)' /\ ~ (b < k')
      BY <1>0, <1>1, <2>2, <2>3, <2>6, <3>1, SyncAssumption DEF Backups
    <3> QED BY Zenon, <3>1, <3>2 DEF Clean
  <2> QED BY Zenon, <2>5, <2>6
<1>3. CASE ~ Accepts(k)
  <2>1. Len(sq[k]) + Len(cq[k]) < kMaxIBQueueDepth
    BY <1>1, Single, SyncAssumption DEF Quiet
  <2>2. ~ fits
    BY <1>3, <2>1, Zenon DEF Accepts
  <2>3. k = 1
    BY <1>1, <2>2, Zenon DEF Clean
  <2>4. \A b \in Backups : Quiet(b)
    BY <1>1, <2>3 DEF Backups
  <2> QED BY Zenon, <1>3, <2>4 DEF Post, Throw, Clean, Quiet
<1> QED BY Zenon, <1>2, <1>3

LEMMA PollClean ==
  ASSUME TypeOK, Clean, Poll
  PROVE  Clean'
<1>0. PICK c \in Backups : c = k
  BY Zenon DEF TypeOK
<1>1. /\ k \in Backups /\ phase = "poll" /\ Outstanding(k)
      /\ \A b \in Backups : IF b < k THEN Quiet(b) /\ applied[b] = op ELSE Outstanding(b)
  BY DEF Clean, Poll, TypeOK, Backups
<1>2. sq[k] = <<>> /\ cq[k] = <<"ok">> /\ applied[k] = op
  BY Zenon, <1>1 DEF Outstanding, Poll
<1>3. /\ cq' = [cq EXCEPT ![k] = Tail(cq[k])] /\ Advance("synced")
      /\ UNCHANGED <<op, sq, applied>>
  BY Zenon, <1>2, Single DEF Poll
<1>4. Quiet(c)' /\ applied'[c] = op'
  BY Zenon, <1>0, <1>1, <1>2, <1>3, Single DEF Quiet, TypeOK
<1>5. \A b \in Backups : b # c => /\ Outstanding(b)' <=> Outstanding(b)
                                  /\ Quiet(b)' <=> Quiet(b)
  BY Zenon, <1>0, <1>1, <1>3 DEF Quiet, Outstanding, TypeOK
<1>6. CASE k < kNumReplicas
  <2>1. phase' = "poll" /\ k' = k + 1
    BY Zenon, <1>1, <1>3, <1>6 DEF Advance
  <2>2. \A b \in Backups : IF b < k' THEN Quiet(b)' /\ applied'[b] = op' ELSE Outstanding(b)'
    BY <1>0, <1>1, <1>3, <1>4, <1>5, <2>1 DEF Backups
  <2> QED BY Zenon, <2>1, <2>2 DEF Clean
<1>7. CASE ~ (k < kNumReplicas)
  <2>1. phase' = "synced"
    BY Zenon, <1>3, <1>7 DEF Advance
  <2>2. \A b \in Backups : Quiet(b)' /\ applied'[b] = op'
    BY <1>0, <1>1, <1>3, <1>4, <1>5, <1>7, SyncAssumption DEF Backups
  <2> QED BY Zenon, <2>1, <2>2 DEF Clean
<1> QED BY Zenon, <1>6, <1>7

LEMMA ReturnClean == ASSUME Clean, Return PROVE Clean'
  BY Zenon DEF Clean, Return, Quiet, fabric

\* What the fabric may still do is about the write of this operation.
LEMMA OnlyThisWrite ==
  ASSUME TypeOK, Clean, NEW b \in Backups, sq[b] # <<>>
  PROVE  /\ sq[b] = <<op>> /\ cq[b] = <<>> /\ Outstanding(b) /\ ~ Quiet(b)
         /\ phase \in {"post", "poll"}
         /\ phase = "post" => b < k
         /\ phase = "poll" => ~ (b < k)
<1>1. ~ Quiet(b)
  BY Zenon DEF Quiet
<1>2. Outstanding(b) /\ phase \in {"post", "poll"} /\ (phase = "post" => b < k)
      /\ (phase = "poll" => ~ (b < k))
  BY Zenon, <1>1 DEF Clean, TypeOK
<1> QED BY Zenon, <1>1, <1>2 DEF Outstanding

\* Every other backup is left as it was, and so is the worker.
LEMMA OneMoves ==
  ASSUME TypeOK, Clean, UNCHANGED worker, NEW b \in Backups, sq[b] # <<>>, Outstanding(b)',
         \A c \in Backups \ {b} : UNCHANGED <<sq[c], cq[c], applied[c]>>
  PROVE  Clean'
<1>1. UNCHANGED <<op, fits, phase, k>>
  BY Zenon DEF worker
<1>2. /\ phase \in {"post", "poll"}
      /\ phase = "post" => b < k
      /\ phase = "poll" => ~ (b < k)
  BY Zenon, OnlyThisWrite
<1>3. \A c \in Backups \ {b} : /\ Outstanding(c)' <=> Outstanding(c)
                               /\ Quiet(c)' <=> Quiet(c)
                               /\ applied'[c] = op' <=> applied[c] = op
  BY Zenon, <1>1 DEF Outstanding, Quiet
<1>4. CASE phase = "post"
  <2>1. \A c \in Backups : IF c < k' THEN Outstanding(c)' ELSE Quiet(c)'
    BY Zenon, <1>1, <1>2, <1>3, <1>4 DEF Clean
  <2>2. fits' \/ k' = 1
    BY <1>1, <1>4, Zenon DEF Clean
  <2> QED BY Zenon, <1>1, <1>4, <2>1, <2>2 DEF Clean
<1>5. CASE phase = "poll"
  <2>1. \A c \in Backups : IF c < k' THEN Quiet(c)' /\ applied'[c] = op' ELSE Outstanding(c)'
    BY Zenon, <1>1, <1>2, <1>3, <1>5 DEF Clean
  <2> QED BY Zenon, <1>1, <1>5, <2>1 DEF Clean
<1> QED BY Zenon, <1>2, <1>4, <1>5

LEMMA ApplyClean ==
  ASSUME TypeOK, Clean, NEW b \in Backups, Apply(b)
  PROVE  Clean'
<1>1. sq[b] # <<>> /\ sq[b] = <<op>> /\ cq[b] = <<>>
  BY Zenon, OnlyThisWrite DEF Apply
<1>2. applied' = [applied EXCEPT ![b] = Head(sq[b])] /\ UNCHANGED <<worker, sq, cq>>
  BY Zenon DEF Apply
<1>3. Outstanding(b)'
  BY Zenon, <1>1, <1>2 DEF Outstanding, worker
<1>4. \A c \in Backups \ {b} : UNCHANGED <<sq[c], cq[c], applied[c]>>
  BY Zenon, <1>2 DEF TypeOK
<1> QED BY Zenon, <1>1, <1>2, <1>3, <1>4, OneMoves

LEMMA AcknowledgeClean ==
  ASSUME TypeOK, Clean, NEW b \in Backups, Acknowledge(b)
  PROVE  Clean'
<1>1. sq[b] # <<>> /\ sq[b] = <<op>> /\ cq[b] = <<>>
  BY Zenon, OnlyThisWrite DEF Acknowledge
<1>2. /\ sq' = [sq EXCEPT ![b] = Tail(sq[b])] /\ cq' = [cq EXCEPT ![b] = Append(cq[b], "ok")]
      /\ UNCHANGED <<worker, applied>> /\ applied[b] >= Head(sq[b])
  BY Zenon DEF Acknowledge, Complete
<1>3. applied[b] = op
  BY <1>1, <1>2, Single DEF TypeOK
<1>4. sq'[b] = <<>> /\ cq'[b] = <<"ok">>
  BY Zenon, <1>1, <1>2, Single DEF TypeOK
<1>5. Outstanding(b)'
  BY Zenon, <1>2, <1>3, <1>4 DEF Outstanding, worker
<1>6. \A c \in Backups \ {b} : UNCHANGED <<sq[c], cq[c], applied[c]>>
  BY Zenon, <1>2 DEF TypeOK
<1> QED BY Zenon, <1>1, <1>2, <1>5, <1>6, OneMoves

LEMMA CrashClean == ASSUME Clean, NEW b \in Backups, Crash(b) PROVE Clean'
  BY Zenon DEF Clean, Crash, Quiet, Outstanding, worker

\* The first failure: its queue pair had nothing left to be polled.
LEMMA FirstFailure ==
  ASSUME TypeOK, Clean, NEW b \in Backups, Fail(b)
  PROVE  Stuck'
<1>1. /\ cq[b] = <<>> /\ phase \in {"post", "poll"}
      /\ phase = "poll" => ~ (b < k)
  BY Zenon, OnlyThisWrite DEF Fail
<1>2. /\ cq'[b] = Append(cq[b], "error") /\ qp'[b] = "ERR" /\ phase' = phase /\ k' = k
  BY Zenon DEF Fail, Complete, TypeOK, worker
<1>3. phase' = "poll" => k' <= b
  BY <1>1, <1>2, SyncAssumption DEF TypeOK, Backups
<1>4. \A i \in 1..Len(cq'[b]) : cq'[b][i] = "error"
  BY <1>1, <1>2
<1> QED BY Zenon, <1>1, <1>2, <1>3, <1>4 DEF Stuck

----------------------------------------------------------------------------
(* Once one has failed, no Sync gets past it.                              *)

LEMMA PostStuck ==
  ASSUME TypeOK, Stuck, Post
  PROVE  Stuck'
<1>1. PICK e \in Backups : qp[e] = "ERR" /\ \A i \in 1..Len(cq[e]) : cq[e][i] = "error"
  BY Zenon DEF Stuck
<1>2. phase' \in {"idle", "post", "poll"} /\ (phase' = "poll" => k' = 1)
  BY Zenon DEF Post, Throw, Advance
<1> QED BY <1>1, <1>2 DEF Post, Stuck, Backups

LEMMA PollStuck ==
  ASSUME TypeOK, Stuck, Poll
  PROVE  Stuck'
<1>1. PICK e \in Backups : /\ qp[e] = "ERR" /\ k <= e
                           /\ \A i \in 1..Len(cq[e]) : cq[e][i] = "error"
  BY Zenon DEF Stuck, Poll
<1>2. /\ k \in Backups /\ cq[k] \in Seq({"ok", "error"}) /\ cq[k] # <<>>
      /\ cq' = [cq EXCEPT ![k] = Tail(cq[k])] /\ qp' = qp
  BY Zenon DEF Poll, TypeOK
<1>3. /\ Head(cq[k]) = cq[k][1] /\ Len(cq[k]) \in Nat \ {0}
      /\ \A i \in 1..Len(Tail(cq[k])) : Tail(cq[k])[i] = cq[k][i + 1] /\ i + 1 \in 1..Len(cq[k])
  BY Zenon, <1>2, TailFacts
<1>4. \A i \in 1..Len(cq'[e]) : cq'[e][i] = "error"
  <2>1. CASE e = k
    BY Zenon, <1>1, <1>2, <1>3, <2>1 DEF TypeOK
  <2>2. CASE e # k
    BY Zenon, <1>1, <1>2, <2>2 DEF TypeOK
  <2> QED BY Zenon, <2>1, <2>2
<1>5. phase' # "synced" /\ (phase' = "poll" => k' <= e)
  <2>1. CASE Head(cq[k]) = "ok"
    <3>1. k # e
      BY <1>1, <1>3, <2>1
    <3>2. k < e /\ k < kNumReplicas
      BY <1>1, <1>2, <3>1, SyncAssumption DEF Backups
    <3>3. phase' = "poll" /\ k' = k + 1
      BY Zenon, <2>1, <3>2 DEF Poll, Advance
    <3> QED BY <1>2, <3>2, <3>3, SyncAssumption DEF Backups
  <2>2. CASE Head(cq[k]) # "ok"
    BY Zenon, <2>2 DEF Poll, Throw
  <2> QED BY Zenon, <2>1, <2>2
<1> QED BY Zenon, <1>1, <1>2, <1>4, <1>5 DEF Stuck

\* What completes elsewhere changes nothing; the failed queue pair flushes.
LEMMA CompleteStuck ==
  ASSUME TypeOK, Stuck, UNCHANGED worker, NEW b \in Backups, NEW status \in {"ok", "error"},
         Complete(b, status), qp[b] = "ERR" => status = "error",
         qp' \in {qp, [qp EXCEPT ![b] = "ERR"]}
  PROVE  Stuck'
<1>1. PICK e \in Backups : /\ qp[e] = "ERR"
                           /\ phase = "poll" => k <= e
                           /\ \A i \in 1..Len(cq[e]) : cq[e][i] = "error"
  BY Zenon DEF Stuck
<1>2. cq' = [cq EXCEPT ![b] = Append(cq[b], status)] /\ qp'[e] = "ERR"
      /\ phase' = phase /\ k' = k
  BY Zenon, <1>1 DEF Complete, TypeOK, worker
<1>3. \A i \in 1..Len(cq'[e]) : cq'[e][i] = "error"
  <2>1. CASE e = b
    <3> cq[b] \in Seq({"ok", "error"})
      BY Zenon DEF TypeOK
    <3>1. /\ Len(cq[b]) \in Nat
          /\ \A i \in 1..Len(Append(cq[b], status)) :
               Append(cq[b], status)[i] = IF i <= Len(cq[b]) THEN cq[b][i] ELSE status
      BY AppendFacts
    <3>2. status = "error"
      BY Zenon, <1>1, <2>1
    <3>3. cq'[e] = Append(cq[b], status)
      BY Zenon, <1>2, <2>1 DEF TypeOK
    <3> QED BY <1>1, <2>1, <3>1, <3>2, <3>3
  <2>2. CASE e # b
    BY Zenon, <1>1, <1>2, <2>2 DEF TypeOK
  <2> QED BY Zenon, <2>1, <2>2
<1> QED BY Zenon, <1>1, <1>2, <1>3 DEF Stuck

LEMMA NextStuck ==
  ASSUME TypeOK, Stuck, Next
  PROVE  Stuck'
<1>1. ASSUME NEW f \in BOOLEAN, BeginSync(f) PROVE Stuck'
  BY Zenon, <1>1 DEF BeginSync, Stuck, fabric, Backups
<1>2. CASE Return
  BY Zenon, <1>2 DEF Return, Stuck
<1>3. ASSUME NEW b \in Backups, Apply(b) \/ Crash(b) PROVE Stuck'
  BY Zenon, <1>3 DEF Apply, Crash, Stuck, worker, Backups
<1>4. ASSUME NEW b \in Backups, Acknowledge(b) \/ Flush(b) \/ Fail(b) PROVE Stuck'
  BY Zenon, <1>4, CompleteStuck DEF Acknowledge, Flush, Fail
<1> QED BY Zenon, <1>1, <1>2, <1>3, <1>4, PostStuck, PollStuck DEF Next

----------------------------------------------------------------------------
(* The theorems.                                                           *)

LEMMA FailsOrNot ==
  ASSUME TypeOK, Intact, Clean, Next
  PROVE  (Intact' /\ Clean') \/ (~ Intact' /\ Stuck')
<1>1. ASSUME NEW b \in Backups, Fail(b) PROVE ~ Intact' /\ Stuck'
  BY Zenon, <1>1, FirstFailure DEF Fail, Intact, TypeOK, Backups
<1>2. ASSUME NEW b \in Backups, Flush(b) PROVE FALSE
  BY Zenon, <1>2 DEF Flush, Intact
<1>3. CASE ~ \E b \in Backups : Fail(b) \/ Flush(b)
  <2>1. Intact'
    BY Zenon, <1>3 DEF Next, BeginSync, Post, Poll, Return, Apply, Acknowledge, Crash, Intact, fabric,
                Backups
  <2>2. Clean'
    BY Zenon, <1>3, BeginClean, PostClean, PollClean, ReturnClean, ApplyClean, AcknowledgeClean,
       CrashClean DEF Next
  <2> QED BY Zenon, <2>1, <2>2
<1> QED BY Zenon, <1>1, <1>2, <1>3

\* Where Tablet::Sync is in its loops tells what is in the queues as long as
\* no queue pair has failed, and afterwards one of them stands in its way.
THEOREM QueuesMatch == Spec => []LoopsMatchQueues
<1>1. Init => LoopsMatchQueues
  <2>1. Init => Intact /\ Clean
    BY Zenon DEF Init, Intact, Clean, Quiet
  <2> QED BY Zenon, <2>1, InitType DEF LoopsMatchQueues
<1>2. LoopsMatchQueues /\ [Next]_vars => LoopsMatchQueues'
  <2> SUFFICES ASSUME LoopsMatchQueues, [Next]_vars PROVE LoopsMatchQueues'
    BY Zenon
  <2>1. CASE Next /\ Intact
    BY Zenon, <2>1, NextType, FailsOrNot DEF LoopsMatchQueues
  <2>2. CASE Next /\ ~ Intact
    <3>1. Stuck' /\ ~ Intact'
      BY Zenon, <2>2, NextStuck DEF LoopsMatchQueues, Intact, Stuck, Backups
    <3> QED BY Zenon, <2>2, <3>1, NextType DEF LoopsMatchQueues
  <2>3. CASE UNCHANGED vars
    BY Zenon, <2>3 DEF vars, worker, fabric, LoopsMatchQueues, TypeOK, Total, Intact, Clean, Stuck,
                Quiet, Outstanding, Backups
  <2> QED BY Zenon, <2>1, <2>2, <2>3
<1> QED BY <1>1, <1>2, PTL DEF Spec

\* When Sync returns normally, every backup has applied the write of this
\* operation: no completion of an earlier one was taken for it.
THEOREM SyncSound == Spec => []SyncedMeansApplied
<1>1. LoopsMatchQueues => SyncedMeansApplied
  BY Zenon DEF LoopsMatchQueues, Clean, Stuck, SyncedMeansApplied
<1> QED BY <1>1, QueuesMatch, PTL

----------------------------------------------------------------------------
(* How far a failed backup reaches.                                        *)

\* What Sync sends, and that it has posted it when it polls.
SendsNow ==
  /\ fits => lastSent = op
  /\ phase = "post" => fits \/ k = 1
  /\ phase \in {"poll", "synced"} => fits

\* Sync will not get past a full queue: it is never polled again.
Blocked ==
  /\ phase \in {"idle", "post"}
  /\ \E c \in Backups : Total(c) >= kMaxIBQueueDepth /\ (phase = "post" => k <= c)

\* No queue pair up to that of b has failed.
Reached(b) == \A c \in 1..b : qp[c] = "RTS"

\* The place in the loops tells what is in the queues of b.
Served(b) ==
  /\ phase = "idle" => Quiet(b) /\ applied[b] = lastSent
  /\ phase = "synced" => Quiet(b) /\ applied[b] = op
  /\ phase = "post" => IF b < k THEN Outstanding(b) ELSE Quiet(b)
  /\ phase = "post" /\ ~ fits => applied[b] = lastSent
  /\ phase = "poll" => IF b < k THEN Quiet(b) /\ applied[b] = op ELSE Outstanding(b)

EarlierServed == \A b \in Backups : Reached(b) => Served(b)
EarlyInv == SendsNow /\ (Blocked \/ EarlierServed)

LEMMA InitEarly == Init => EarlyInv
  BY Zenon DEF Init, EarlyInv, SendsNow, EarlierServed, Served, Quiet

LEMMA NextSends == ASSUME TypeOK, SendsNow, Next PROVE SendsNow'
<1>1. ASSUME NEW f \in BOOLEAN, BeginSync(f) PROVE SendsNow'
  <2>1. phase' = "post" /\ k' = 1 /\ op' = op + 1 /\ (fits' <=> f)
    BY <1>1, Zenon DEF BeginSync
  <2>2. lastSent' = IF f THEN op' ELSE lastSent
    BY <1>1, Zenon DEF BeginSync
  <2>3. fits' => lastSent' = op'
    BY <2>1, <2>2, Zenon
  <2>4. phase' \notin {"poll", "synced"}
    BY Zenon, <2>1
  <2> QED BY <2>1, <2>3, <2>4, Zenon DEF SendsNow
<1>2. CASE Post
  <2>1. UNCHANGED <<op, fits, lastSent>>
    BY Zenon, <1>2 DEF Post
  <2>2. CASE Accepts(k)
    <3>1. fits
      BY <2>2, Zenon DEF Accepts
    <3> QED BY <2>1, <3>1, Zenon DEF SendsNow
  <2>3. CASE ~ Accepts(k)
    <3>1. phase' = "idle" /\ phase' # "post" /\ phase' \notin {"poll", "synced"}
      BY Zenon, <1>2, <2>3 DEF Post, Throw
    <3> QED BY <2>1, <3>1, Zenon DEF SendsNow
  <2> QED BY Zenon, <2>2, <2>3
<1>3. CASE Poll
  <2>1. UNCHANGED <<op, fits, lastSent>> /\ phase \in {"poll", "synced"}
    BY Zenon, <1>3 DEF Poll
  <2> QED BY <2>1, Zenon DEF SendsNow
<1>4. CASE Return
  <2>1. UNCHANGED <<op, fits, lastSent>> /\ phase' # "post" /\ phase' \notin {"poll", "synced"}
    BY Zenon, <1>4 DEF Return
  <2> QED BY <2>1, Zenon DEF SendsNow
<1>5. CASE UNCHANGED worker
  <2>1. UNCHANGED <<op, fits, lastSent, phase, k>>
    BY Zenon, <1>5 DEF worker
  <2> QED BY <2>1, Zenon DEF SendsNow
<1> QED BY Zenon, <1>1, <1>2, <1>3, <1>4, <1>5 DEF Next, Apply, Acknowledge, Fail, Flush, Crash

\* A completion moves from one queue to the other.
LEMMA CompleteTotal ==
  ASSUME TypeOK, NEW b \in Backups, sq[b] # <<>>, NEW status \in {"ok", "error"}, Complete(b, status)
  PROVE  /\ \A c \in Backups : Total(c)' = Total(c)
         /\ \A c \in Backups \ {b} : UNCHANGED <<sq[c], cq[c]>>
<1>1. sq[b] \in Seq(Nat) /\ cq[b] \in Seq({"ok", "error"})
  BY Zenon DEF TypeOK
<1>2. sq' = [sq EXCEPT ![b] = Tail(sq[b])] /\ cq' = [cq EXCEPT ![b] = Append(cq[b], status)]
  BY Zenon DEF Complete
<1>3. Len(Tail(sq[b])) = Len(sq[b]) - 1 /\ Len(sq[b]) \in Nat
  BY Zenon, <1>1, TailFacts
<1>4. Len(Append(cq[b], status)) = Len(cq[b]) + 1 /\ Len(cq[b]) \in Nat
  BY <1>1, AppendFacts
<1>5. sq'[b] = Tail(sq[b]) /\ cq'[b] = Append(cq[b], status)
  BY Zenon, <1>2 DEF TypeOK
<1>6. \A c \in Backups \ {b} : UNCHANGED <<sq[c], cq[c]>>
  BY Zenon, <1>2 DEF TypeOK
<1>7. Len(sq'[b]) + Len(cq'[b]) = Len(sq[b]) + Len(cq[b])
  <2>1. Len(sq'[b]) = Len(sq[b]) - 1 /\ Len(cq'[b]) = Len(cq[b]) + 1
    BY <1>3, <1>4, <1>5, Zenon
  <2>2. PICK x \in Nat, y \in Nat : x = Len(sq[b]) /\ y = Len(cq[b])
    BY <1>3, <1>4, Zenon
  <2>3. Len(sq'[b]) = x - 1 /\ Len(cq'[b]) = y + 1
    BY <2>1, <2>2, Zenon
  <2>4. (x - 1) + (y + 1) = x + y
    OBVIOUS
  <2> QED BY <2>2, <2>3, <2>4, Zenon
<1> QED BY Zenon, <1>6, <1>7 DEF Total

LEMMA FabricTotals ==
  ASSUME TypeOK, NEW b \in Backups, Apply(b) \/ Acknowledge(b) \/ Fail(b) \/ Flush(b) \/ Crash(b)
  PROVE  UNCHANGED worker /\ \A c \in Backups : Total(c)' = Total(c)
<1>1. CASE Apply(b) \/ Crash(b)
  BY Zenon, <1>1 DEF Apply, Crash, Total
<1>2. CASE Acknowledge(b) \/ Fail(b) \/ Flush(b)
  BY Zenon, <1>2, CompleteTotal DEF Acknowledge, Fail, Flush
<1> QED BY Zenon, <1>1, <1>2

LEMMA NextBlocked == ASSUME TypeOK, Blocked, Next PROVE Blocked'
<1>1. PICK c \in Backups : Total(c) >= kMaxIBQueueDepth /\ (phase = "post" => k <= c)
  BY Zenon DEF Blocked
<1>2. phase \in {"idle", "post"}
  BY Zenon DEF Blocked
<1>3. ASSUME NEW f \in BOOLEAN, BeginSync(f) PROVE Blocked'
  <2>1. phase' = "post" /\ k' = 1 /\ Total(c)' = Total(c)
    BY Zenon, <1>3 DEF BeginSync, fabric, Total
  <2> QED BY <1>1, <2>1 DEF Blocked, Backups
<1>4. CASE Post
  <2>1. k \in Backups /\ k <= c /\ phase = "post"
    BY Zenon, <1>1, <1>4 DEF Post, TypeOK
  <2>2. CASE Accepts(k)
    <3>1. Total(k) < kMaxIBQueueDepth
      BY <2>2, Zenon DEF Accepts, Total
    <3>2. k < c /\ k < kNumReplicas
      <4>1. Total(k) \in Int /\ Total(c) \in Int
        BY <2>1 DEF Total, TypeOK
      <4> QED BY <1>1, <2>1, <3>1, <4>1, SyncAssumption DEF Backups
    <3>3. /\ sq' = [sq EXCEPT ![k] = Append(sq[k], op)] /\ cq' = cq
          /\ phase' = "post" /\ k' = k + 1
      BY Zenon, <1>4, <2>1, <2>2, <3>2 DEF Post, Advance
    <3>4. Total(c)' = Total(c)
      BY <3>2, <3>3, <2>1 DEF Total, TypeOK, Backups
    <3>5. k' <= c
      BY <2>1, <3>2, <3>3 DEF Backups
    <3> QED BY Zenon, <1>1, <3>3, <3>4, <3>5 DEF Blocked, Backups
  <2>3. CASE ~ Accepts(k)
    <3>1. phase' = "idle" /\ sq' = sq /\ cq' = cq
      BY Zenon, <1>4, <2>3 DEF Post, Throw
    <3> QED BY Zenon, <1>1, <3>1 DEF Blocked, Total, Backups
  <2> QED BY Zenon, <2>2, <2>3
<1>5. ~ Poll /\ ~ Return
  BY Zenon, <1>2 DEF Poll, Return
<1>6. ASSUME NEW b \in Backups, Apply(b) \/ Acknowledge(b) \/ Fail(b) \/ Flush(b) \/ Crash(b)
      PROVE  Blocked'
  <2>1. phase' = phase /\ k' = k /\ Total(c)' = Total(c)
    BY Zenon, <1>6, FabricTotals DEF worker
  <2> QED BY Zenon, <1>1, <1>2, <2>1 DEF Blocked, Backups
<1> QED BY Zenon, <1>3, <1>4, <1>5, <1>6 DEF Next

\* The worker's steps.
LEMMA BeginServed ==
  ASSUME TypeOK, EarlierServed, NEW f \in BOOLEAN, BeginSync(f) PROVE EarlierServed'
<1>1. /\ phase = "idle" /\ phase' = "post" /\ k' = 1 /\ (fits' <=> f)
      /\ UNCHANGED <<qp, sq, cq, applied>>
  BY Zenon DEF BeginSync, fabric
<1>2. ~ fits' => lastSent' = lastSent
  BY <1>1, Zenon DEF BeginSync
<1>3. ASSUME NEW b \in Backups, Reached(b)' PROVE Served(b)'
  <2>1. Quiet(b)' /\ applied'[b] = lastSent
    BY Zenon, <1>1, <1>3 DEF EarlierServed, Reached, Served, Quiet
  <2>2. ~ (b < k') /\ phase' \notin {"idle", "synced", "poll"}
    BY <1>1 DEF Backups
  <2>3. phase' # "idle" /\ phase' # "synced" /\ phase' # "poll"
    BY Zenon, <2>2
  <2> QED BY <1>2, <2>1, <2>2, <2>3, Zenon DEF Served
<1> QED BY Zenon, <1>3 DEF EarlierServed

LEMMA PostServed ==
  ASSUME TypeOK, SendsNow, EarlierServed, Post PROVE Blocked' \/ EarlierServed'
<1>0. PICK c \in Backups : c = k
  BY Zenon DEF TypeOK
<1>1. phase = "post" /\ UNCHANGED <<op, fits, lastSent, qp, cq, applied>>
  BY Zenon DEF Post
<1>2. CASE Accepts(k)
  <2>1. sq' = [sq EXCEPT ![k] = Append(sq[k], op)] /\ Advance("poll")
    BY Zenon, <1>2 DEF Post
  <2>2. fits'
    BY <1>1, <1>2, Zenon DEF Accepts
  <2>3. ASSUME NEW b \in Backups, Reached(b)' PROVE Served(b)'
    <3>1. IF b < k THEN Outstanding(b) ELSE Quiet(b)
      BY Zenon, <1>1, <2>3 DEF EarlierServed, Reached, Served
    <3>2. b # c => (Outstanding(b)' <=> Outstanding(b)) /\ (Quiet(b)' <=> Quiet(b))
      BY Zenon, <1>0, <1>1, <2>1 DEF Quiet, Outstanding, TypeOK
    <3>3. b = c => Outstanding(b)'
      <4>1. b = c => Quiet(b)
        BY <1>0, <3>1 DEF Backups
      <4> QED BY Zenon, <1>0, <1>1, <2>1, <4>1, Single DEF Quiet, Outstanding, TypeOK
    <3>4. b <= c => Outstanding(b)'
      BY <1>0, <3>1, <3>2, <3>3 DEF Backups
    <3>5. b > c => Quiet(b)'
      BY <1>0, <3>1, <3>2 DEF Backups
    <3>6. CASE k < kNumReplicas
      <4>1. phase' = "post" /\ k' = k + 1
        BY Zenon, <1>1, <2>1, <3>6 DEF Advance
      <4>2. IF b < k' THEN Outstanding(b)' ELSE Quiet(b)'
        BY <1>0, <3>4, <3>5, <4>1 DEF Backups
      <4>3. phase' # "idle" /\ phase' # "synced" /\ phase' # "poll"
        BY Zenon, <4>1
      <4> QED BY <2>2, <4>2, <4>3, Zenon DEF Served
    <3>7. CASE ~ (k < kNumReplicas)
      <4>1. phase' = "poll" /\ k' = 1
        BY Zenon, <2>1, <3>7 DEF Advance
      <4>2. Outstanding(b)' /\ ~ (b < k')
        BY <1>0, <3>4, <3>7, <4>1, SyncAssumption DEF Backups
      <4> QED BY Zenon, <4>1, <4>2 DEF Served
    <3> QED BY Zenon, <3>6, <3>7
  <2> QED BY Zenon, <2>3 DEF EarlierServed
<1>3. CASE ~ Accepts(k)
  <2>1. phase' = "idle" /\ sq' = sq
    BY Zenon, <1>3 DEF Post, Throw
  <2>2. CASE Total(k) < kMaxIBQueueDepth
    <3>1. ~ fits
      BY <1>3, <2>2, Zenon DEF Accepts, Total
    <3>2. k = 1
      BY <1>1, <3>1, Zenon DEF SendsNow
    <3>3. ASSUME NEW b \in Backups, Reached(b)' PROVE Served(b)'
      <4>1. Served(b) /\ ~ (b < k)
        BY <1>1, <3>2, <3>3 DEF EarlierServed, Reached, Backups
      <4>2. applied[b] = lastSent /\ Quiet(b)
        BY <4>1, <1>1, <3>1, Zenon DEF Served
      <4> QED BY Zenon, <4>2, <1>1, <2>1 DEF Served, Quiet
    <3> QED BY Zenon, <3>3 DEF EarlierServed
  <2>3. CASE ~ (Total(k) < kMaxIBQueueDepth)
    <3>1. Total(c)' = Total(c) /\ Total(c) >= kMaxIBQueueDepth
      BY <1>0, <1>1, <2>1, <2>3, SyncAssumption DEF Total, TypeOK
    <3> QED BY Zenon, <2>1, <3>1 DEF Blocked, Backups
  <2> QED BY Zenon, <2>2, <2>3
<1> QED BY Zenon, <1>2, <1>3

LEMMA PollServed ==
  ASSUME TypeOK, SendsNow, EarlierServed, Poll PROVE EarlierServed'
<1>0. PICK c \in Backups : c = k
  BY Zenon DEF TypeOK
<1>1. /\ phase = "poll" /\ UNCHANGED <<op, fits, lastSent, qp, sq, applied>> /\ cq[k] # <<>>
      /\ cq' = [cq EXCEPT ![k] = Tail(cq[k])]
  BY Zenon DEF Poll
<1>2. lastSent = op
  BY <1>1, Zenon DEF SendsNow
<1> SUFFICES ASSUME NEW b \in Backups, Reached(b)' PROVE Served(b)'
  BY Zenon DEF EarlierServed
<1>3. IF b < k THEN Quiet(b) /\ applied[b] = op ELSE Outstanding(b)
  BY Zenon, <1>1 DEF EarlierServed, Reached, Served
<1>4. b # c => (Outstanding(b)' <=> Outstanding(b)) /\ (Quiet(b)' <=> Quiet(b))
  BY Zenon, <1>0, <1>1 DEF Quiet, Outstanding, TypeOK
<1>5. b = c => /\ Quiet(b)' /\ applied'[b] = op' /\ Head(cq[k]) = "ok"
  <2>1. b = c => sq[k] = <<>> /\ cq[k] = <<"ok">> /\ applied[k] = op
    BY <1>0, <1>1, <1>3 DEF Outstanding, Backups
  <2> QED BY Zenon, <1>0, <1>1, <2>1, Single DEF Quiet, TypeOK
<1>6. b <= c => Quiet(b)' /\ applied'[b] = op'
  BY <1>0, <1>1, <1>3, <1>4, <1>5 DEF Backups
<1>7. b > c => Outstanding(b)'
  BY <1>0, <1>3, <1>4 DEF Backups
<1>8. CASE Head(cq[k]) = "ok"
  <2>1. Advance("synced")
    BY Zenon, <1>8 DEF Poll
  <2>2. CASE k < kNumReplicas
    <3>1. phase' = "poll" /\ k' = k + 1
      BY Zenon, <1>1, <2>1, <2>2 DEF Advance
    <3>2. IF b < k' THEN Quiet(b)' /\ applied'[b] = op' ELSE Outstanding(b)'
      BY <1>0, <1>6, <1>7, <3>1 DEF Backups
    <3> QED BY Zenon, <3>1, <3>2 DEF Served
  <2>3. CASE ~ (k < kNumReplicas)
    <3>1. phase' = "synced" /\ b <= c
      BY <1>0, <2>1, <2>3, SyncAssumption DEF Advance, Backups
    <3> QED BY Zenon, <1>6, <3>1 DEF Served
  <2> QED BY Zenon, <2>2, <2>3
<1>9. CASE Head(cq[k]) # "ok"
  <2>1. phase' = "idle"
    BY Zenon, <1>9 DEF Poll, Throw
  <2>2. ~ (b > c)
    <3>1. ASSUME b > c PROVE FALSE
      <4>1. Reached(c)
        BY <3>1, <1>1 DEF Reached, Backups
      <4>2. Outstanding(c)
        BY <4>1, <1>0, <1>1 DEF EarlierServed, Served, Backups
      <4> QED BY Zenon, <4>2, <1>0, <1>1, <1>9, Single DEF Outstanding
    <3> QED BY Zenon, <3>1
  <2>3. b <= c
    BY <2>2 DEF Backups
  <2> QED BY Zenon, <1>1, <1>2, <1>6, <2>1, <2>3 DEF Served
<1> QED BY Zenon, <1>8, <1>9

LEMMA ReturnServed ==
  ASSUME SendsNow, EarlierServed, Return PROVE EarlierServed'
<1>1. /\ phase = "synced" /\ phase' = "idle"
      /\ UNCHANGED <<op, fits, lastSent, qp, sq, cq, applied>>
  BY Zenon DEF Return, fabric
<1>2. lastSent = op
  BY <1>1, Zenon DEF SendsNow
<1> QED BY Zenon, <1>1, <1>2 DEF EarlierServed, Reached, Served, Quiet, Backups

\* The fabric's steps concern one backup, and one of its writes.
LEMMA OthersServed ==
  ASSUME UNCHANGED worker, NEW b, UNCHANGED <<sq[b], cq[b], applied[b]>>, Served(b)
  PROVE  Served(b)'
<1>1. UNCHANGED <<op, fits, lastSent, phase, k>>
  BY Zenon DEF worker
<1>2. (Outstanding(b)' <=> Outstanding(b)) /\ (Quiet(b)' <=> Quiet(b))
  BY Zenon, <1>1 DEF Outstanding, Quiet
<1>3. phase' = "post" /\ ~ fits' => applied'[b] = lastSent'
  BY <1>1, Zenon DEF Served
<1> QED BY Zenon, <1>1, <1>2, <1>3 DEF Served

LEMMA WriteServed ==
  ASSUME TypeOK, SendsNow, UNCHANGED worker, NEW b \in Backups, Served(b), sq[b] # <<>>
  PROVE  sq[b] = <<op>> /\ cq[b] = <<>> /\ (Outstanding(b)' => Served(b)')
<1>1. UNCHANGED <<op, fits, lastSent, phase, k>>
  BY Zenon DEF worker
<1>2. ~ Quiet(b)
  BY Zenon DEF Quiet
<1>3. (phase = "post" /\ b < k) \/ (phase = "poll" /\ ~ (b < k))
  BY Zenon, <1>2 DEF Served, TypeOK
<1>4. Outstanding(b)
  BY Zenon, <1>3 DEF Served
<1>5. sq[b] = <<op>> /\ cq[b] = <<>>
  BY Zenon, <1>4 DEF Outstanding
<1>6. CASE phase = "post" /\ b < k
  <2>1. k # 1
    BY <1>6 DEF Backups
  <2>2. fits'
    BY <1>1, <1>6, <2>1, Zenon DEF SendsNow
  <2>3. phase' # "idle" /\ phase' # "synced" /\ phase' # "poll" /\ b < k'
    BY Zenon, <1>1, <1>6
  <2>4. Outstanding(b)' => Served(b)'
    BY <2>2, <2>3, Zenon DEF Served
  <2> QED BY Zenon, <1>5, <2>4
<1>7. CASE phase = "poll" /\ ~ (b < k)
  BY Zenon, <1>1, <1>5, <1>7 DEF Served
<1> QED BY Zenon, <1>3, <1>6, <1>7

LEMMA FabricServed ==
  ASSUME TypeOK, SendsNow, EarlierServed, NEW b \in Backups,
         Apply(b) \/ Acknowledge(b) \/ Fail(b) \/ Flush(b) \/ Crash(b)
  PROVE  EarlierServed'
<1>1. UNCHANGED worker
  BY Zenon DEF Apply, Acknowledge, Fail, Flush, Crash
<1>2. \A c \in Backups \ {b} : UNCHANGED <<sq[c], cq[c], applied[c]>>
  <2>1. CASE Apply(b) \/ Crash(b)
    BY Zenon, <2>1 DEF Apply, Crash, TypeOK
  <2>2. CASE Acknowledge(b) \/ Fail(b) \/ Flush(b)
    BY Zenon, <2>2, CompleteTotal DEF Acknowledge, Fail, Flush
  <2> QED BY Zenon, <2>1, <2>2
<1>3. \A c \in Backups : Reached(c)' => Reached(c)
  <2>1. qp' = qp \/ qp' = [qp EXCEPT ![b] = "ERR"]
    BY Zenon DEF Apply, Acknowledge, Fail, Flush, Crash
  <2>2. \A c \in Backups : qp'[c] = "RTS" => qp[c] = "RTS"
    BY Zenon, <2>1 DEF TypeOK
  <2>3. \A c \in Backups : 1..c \subseteq Backups
    BY SyncAssumption DEF Backups
  <2> QED BY Zenon, <2>2, <2>3 DEF Reached
<1>4. ASSUME NEW c \in Backups, c # b, Reached(c)' PROVE Served(c)'
  BY Zenon, <1>1, <1>2, <1>3, <1>4, OthersServed DEF EarlierServed
<1>5. ASSUME Reached(b)' PROVE Served(b)'
  <2>1. Served(b) /\ qp[b] = "RTS" /\ qp'[b] = "RTS"
    BY <1>3, <1>5 DEF EarlierServed, Reached, Backups
  <2>2. CASE Apply(b)
    <3>1. sq[b] # <<>> /\ applied' = [applied EXCEPT ![b] = Head(sq[b])] /\ UNCHANGED <<sq, cq>>
      BY Zenon, <2>2 DEF Apply
    <3>2. sq[b] = <<op>> /\ cq[b] = <<>> /\ (Outstanding(b)' => Served(b)')
      BY Zenon, <1>1, <2>1, <3>1, WriteServed
    <3>3. Outstanding(b)'
      BY Zenon, <1>1, <3>1, <3>2 DEF Outstanding, worker
    <3> QED BY Zenon, <3>2, <3>3
  <2>3. CASE Acknowledge(b)
    <3>1. /\ sq[b] # <<>> /\ applied' = applied /\ applied[b] >= Head(sq[b])
          /\ sq' = [sq EXCEPT ![b] = Tail(sq[b])] /\ cq' = [cq EXCEPT ![b] = Append(cq[b], "ok")]
      BY Zenon, <2>3 DEF Acknowledge, Complete
    <3>2. sq[b] = <<op>> /\ cq[b] = <<>> /\ (Outstanding(b)' => Served(b)')
      BY Zenon, <1>1, <2>1, <3>1, WriteServed
    <3>3. applied[b] = op
      BY <3>1, <3>2, Single DEF TypeOK
    <3>4. sq'[b] = <<>> /\ cq'[b] = <<"ok">>
      BY Zenon, <3>1, <3>2, Single DEF TypeOK
    <3>5. Outstanding(b)'
      BY Zenon, <1>1, <3>1, <3>3, <3>4 DEF Outstanding, worker
    <3> QED BY Zenon, <3>2, <3>5
  <2>4. ~ Fail(b) /\ ~ Flush(b)
    BY Zenon, <2>1 DEF Fail, Flush, TypeOK
  <2>5. CASE Crash(b)
    <3>1. UNCHANGED <<sq[b], cq[b], applied[b]>>
      BY Zenon, <2>5 DEF Crash
    <3> QED BY Zenon, <1>1, <2>1, <3>1, OthersServed
  <2> QED BY Zenon, <2>2, <2>3, <2>4, <2>5
<1> QED BY Zenon, <1>4, <1>5 DEF EarlierServed

\* A failed backup cuts off only those after it in the loops of Sync, as long as
\* no queue is full: the ones before it have every write that could be sent.
THEOREM EarlierKeepUp == Spec => []EarlierBackupsCurrent
<1>1. ASSUME TypeOK, EarlyInv, [Next]_vars PROVE EarlyInv'
  <2>1. CASE Next
    <3>1. SendsNow'
      BY Zenon, <1>1, <2>1, NextSends DEF EarlyInv
    <3>2. CASE Blocked
      BY Zenon, <1>1, <2>1, <3>1, <3>2, NextBlocked DEF EarlyInv
    <3>3. CASE EarlierServed
      BY Zenon, <1>1, <2>1, <3>1, <3>3, BeginServed, PostServed, PollServed, ReturnServed, FabricServed
         DEF EarlyInv, Next
    <3> QED BY Zenon, <1>1, <3>2, <3>3 DEF EarlyInv
  <2>2. CASE UNCHANGED vars
    <3>1. UNCHANGED <<op, fits, lastSent, phase, k, qp, sq, cq, applied>>
      BY Zenon, <2>2 DEF vars, worker, fabric
    <3>2. SendsNow'
      BY <1>1, <3>1, Zenon DEF EarlyInv, SendsNow
    <3>3. Blocked => Blocked'
      BY Zenon, <3>1 DEF Blocked, Total, Backups
    <3>4. EarlierServed => EarlierServed'
      <4>1. \A b \in Backups : Reached(b)' => Reached(b)
        BY Zenon, <3>1 DEF Reached
      <4>2. \A b \in Backups : Served(b) => Served(b)'
        BY Zenon, <2>2, <3>1, OthersServed DEF vars
      <4> QED BY Zenon, <4>1, <4>2 DEF EarlierServed
    <3> QED BY Zenon, <1>1, <3>2, <3>3, <3>4 DEF EarlyInv
  <2> QED BY Zenon, <1>1, <2>1, <2>2
<1>2. ASSUME TypeOK, EarlyInv PROVE EarlierBackupsCurrent
  <2> SUFFICES ASSUME phase = "idle", \A b \in Backups : Total(b) < kMaxIBQueueDepth,
                      NEW b \in Backups, \A c \in 1..b : qp[c] = "RTS"
               PROVE  applied[b] = lastSent
    BY Zenon DEF EarlierBackupsCurrent
  <2>1. ~ Blocked
    <3>1. \A c \in Backups : Total(c) \in Int
      BY <1>2 DEF TypeOK, Total
    <3> QED BY <3>1, SyncAssumption DEF Blocked
  <2>2. Served(b)
    BY Zenon, <1>2, <2>1 DEF EarlyInv, EarlierServed, Reached
  <2> QED BY Zenon, <2>2 DEF Served
<1>3. LoopsMatchQueues => TypeOK
  BY Zenon DEF LoopsMatchQueues
<1> QED BY <1>1, <1>2, <1>3, InitEarly, QueuesMatch, PTL DEF Spec
============================================================================
