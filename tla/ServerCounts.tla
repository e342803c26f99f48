---------------------------- MODULE ServerCounts ----------------------------
(***************************************************************************)
(* One queue's worth of buffers each way suffices (BuffersSuffice of       *)
(* Server). The assertion behind send_bufs_.Alloc() in Worker::Serve       *)
(* (src/src/server.cc) never fails with more buffers than clients; and     *)
(* with one buffer more than twice the clients and the workers, a request  *)
(* always finds a receive once Poll has filled the receive queue.          *)
(*                                                                         *)
(* The argument counts. Each round of Poll receives one request, reaps one *)
(* send completion and posts one free buffer, so completions that wait to  *)
(* be reaped, and free buffers that wait to be posted, are bounded by the  *)
(* clients and workers that can be busy, plus one for the round that is    *)
(* under way.                                                              *)
(***************************************************************************)
EXTENDS ServerProofs, FiniteSetTheorems

\* How many clients and workers there are.
C == Cardinality(Clients)
W == Cardinality(Workers)

\* Each send buffer is free, in use for one client, or its send has completed;
\* and completions that wait are made up for by clients that have no request.
SendsCounted ==
  /\ sendFree + Cardinality(Replying) + scq = kMaxIBQueueDepth
  /\ Cardinality(Unanswered) + scq
     <= C + IF ppc \in {"enqueue", "notify", "send"} THEN 1 ELSE 0

\* While Poll fills the receive queue no request is received; then the buffers
\* that are taken are bounded.
ReceivesCounted ==
  IF ppc = "fill" THEN work = 0 /\ \A w \in Workers : queued[w] = <<>> /\ mine[w] = 0
  ELSE Cardinality(Taken)
       <= C + W + IF ppc \in {"enqueue", "notify", "send", "refill"} THEN 1 ELSE 0

----------------------------------------------------------------------------
(* The send pool.                                                          *)

FinitelyMany == IsFiniteSet(Clients) /\ IsFiniteSet(Workers)

\* How many clients a set of clients has, one more and one less.
LEMMA Counts ==
  ASSUME FinitelyMany
  PROVE  /\ C \in Nat /\ W \in Nat
         /\ \A S \in SUBSET Clients :
              /\ IsFiniteSet(S) /\ Cardinality(S) \in Nat /\ Cardinality(S) <= C
              /\ \A c \in Clients \ S : Cardinality(S \cup {c}) = Cardinality(S) + 1
              /\ \A c \in S : Cardinality(S \ {c}) = Cardinality(S) - 1
              /\ \A c : Cardinality(S \cup {c}) <= Cardinality(S) + 1
<1>1. C \in Nat /\ W \in Nat
  BY Zenon, FS_CardinalityType DEF FinitelyMany, C, W
<1>2. ASSUME NEW S \in SUBSET Clients
      PROVE  IsFiniteSet(S) /\ Cardinality(S) \in Nat /\ Cardinality(S) <= C
  BY Zenon, FS_Subset, FS_CardinalityType DEF FinitelyMany, C
<1>3. ASSUME NEW S \in SUBSET Clients, NEW c
      PROVE  /\ c \in S => Cardinality(S \ {c}) = Cardinality(S) - 1
             /\ Cardinality(S \cup {c}) = IF c \in S THEN Cardinality(S) ELSE Cardinality(S) + 1
  BY Zenon, <1>2, FS_AddElement, FS_RemoveElement
<1> QED
  BY <1>1, <1>2, <1>3

\* At the start every send buffer is free ...
LEMMA InitSends == ASSUME FinitelyMany, Init PROVE SendsCounted
<1>1. Replying = {} /\ Unanswered = {}
  BY NullIsNone DEF Init, Replying, Unanswered, Received, InQueue, Served, Range
<1> QED
  BY <1>1, FS_EmptySet, Counts, ServerAssumption DEF Init, SendsCounted

\* ... the poller frees one for each completion it reaps, and receives one request
\* a round ...
LEMMA PollSends == ASSUME FinitelyMany, HandsOver, SendsCounted, Poll PROVE SendsCounted'
<1> DEFINE r == Cardinality(Replying)
           u == Cardinality(Unanswered)
<1>0. /\ C \in Nat /\ r \in Nat /\ u \in Nat /\ u <= C /\ sendFree \in Nat /\ scq \in Nat
      /\ kMaxIBQueueDepth \in Nat
  BY Zenon, Counts, ServerAssumption DEF Replying, Unanswered, HandsOver, TypeOK
<1>1. CASE Receive
  <2>1. Replying' = Replying /\ Unanswered' = Unanswered \cup {Head(rcq).from}
    BY Zenon, <1>1, ReceiveReplying, ReceiveUnanswered
  <2>2. Cardinality(Unanswered') \in Nat /\ Cardinality(Unanswered') <= u + 1
    <3>1. Unanswered \in SUBSET Clients /\ Unanswered' \in SUBSET Clients
      BY Zenon DEF Unanswered
    <3> QED
      BY Zenon, <2>1, <3>1, Counts
  <2>3. ppc = "recv" /\ ppc' = "enqueue" /\ sendFree' = sendFree /\ scq' = scq
    BY Zenon, <1>1 DEF Receive, sends
  <2> QED
    BY <1>0, <2>1, <2>2, <2>3 DEF SendsCounted
<1>2. CASE ~Receive
  <2>1. SameReceived /\ peer' = peer /\ sq' = sq
    BY Zenon, <1>2, PollReceived DEF Poll, Fill, ReceiveNothing, EnqueueLocked, Notify, Reap, Refill, sends
  <2>2. \A w \in Workers : \/ wpc[w] # "reply" /\ wpc'[w] # "reply"
                           \/ wpc'[w] = wpc[w] /\ mine'[w] = mine[w]
    BY Zenon, <1>2 DEF Poll, Fill, ReceiveNothing, EnqueueLocked, Notify, Reap, Refill, workers, HandsOver,
                TypeOK
  <2>3. Replying' = Replying /\ Unanswered' = Unanswered
    BY Zenon, <2>1, <2>2, SameReplying, SameUnanswered
  <2>4. CASE Reap
    <3>1. /\ ppc = "send" /\ ppc' = "refill"
          /\ \/ scq > 0 /\ scq' = scq - 1 /\ sendFree' = sendFree + 1
             \/ scq = 0 /\ scq' = scq /\ sendFree' = sendFree
      BY <1>0, <2>4 DEF Reap
    <3> QED
      BY <1>0, <2>3, <3>1 DEF SendsCounted
  <2>5. CASE ~Reap
    <3>1. /\ scq' = scq /\ sendFree' = sendFree
          /\ ppc \in {"enqueue", "notify", "send"} => ppc' \in {"enqueue", "notify", "send"}
      BY Zenon, <1>2, <2>5 DEF Poll, Fill, ReceiveNothing, EnqueueLocked, Notify, Refill, sends
    <3> QED
      BY <1>0, <2>3, <3>1 DEF SendsCounted
  <2> QED
    BY Zenon, <2>4, <2>5
<1> QED
  BY Zenon, <1>1, <1>2

\* ... a worker takes one for a client that has none ...
LEMMA ServeSends ==
  ASSUME FinitelyMany, HandsOver, OneForEach, SendsCounted,
         NEW w \in Workers, Serve(w) \/ SpuriousWakeup(w)
  PROVE  SendsCounted'
<1> DEFINE r == Cardinality(Replying)
<1>0. r \in Nat /\ sendFree \in Nat /\ scq \in Nat /\ Replying \in SUBSET Clients
  BY Zenon, Counts DEF Replying, HandsOver, TypeOK
<1>1. ppc' = ppc /\ scq' = scq /\ (sendFree' = sendFree \/ (AllocSend(w) /\ sendFree # 0))
  BY Zenon DEF Serve, SpinTake, SpinEnd, CheckTake, CheckEmpty, Block, SpuriousWakeup, AllocSend, Reply,
         FreeWork, poller, sends
<1>2. Unanswered' = Unanswered
  <2>1. CASE Reply(w)
    BY Zenon, <2>1, ReplyUnanswered
  <2>2. CASE ~Reply(w)
    <3>1. sq' = sq
      BY Zenon, <2>2 DEF Serve, SpinTake, SpinEnd, CheckTake, CheckEmpty, Block, SpuriousWakeup, AllocSend,
                  FreeWork, sends
    <3> QED
      BY Zenon, <2>2, <3>1, ServeReceived, SameUnanswered
  <2> QED
    BY Zenon, <2>1, <2>2
<1>3. CASE AllocSend(w) /\ sendFree # 0
  <2>1. sendFree' = sendFree - 1
    BY Zenon, <1>3 DEF AllocSend
  <2>2. Cardinality(Replying') = r + 1
    BY Zenon, <1>0, <1>3, AllocReplying, Counts
  <2> QED
    BY <1>0, <1>1, <1>2, <2>1, <2>2 DEF SendsCounted
<1>4. CASE ~(AllocSend(w) /\ sendFree # 0)
  <2>1. CASE Reply(w)
    BY Zenon, <1>1, <1>2, <1>4, <2>1, ReplyUnanswered DEF SendsCounted
  <2>2. CASE ~Reply(w)
    <3>1. sq' = sq /\ peer' = peer
      BY Zenon, <2>2 DEF Serve, SpinTake, SpinEnd, CheckTake, CheckEmpty, Block, SpuriousWakeup, AllocSend,
                  FreeWork, sends, requests
    <3>2. /\ wpc[w] # "reply" /\ wpc'[w] # "reply"
          /\ \A v \in Workers : v = w \/ (wpc'[v] = wpc[v] /\ mine'[v] = mine[v])
      BY Zenon, <1>4, <2>2 DEF Serve, SpinTake, SpinEnd, CheckTake, CheckEmpty, Block, SpuriousWakeup,
                        AllocSend, FreeWork, Dequeue, HandsOver, TypeOK
    <3>3. Replying' = Replying
      BY Zenon, <3>1, <3>2, SameReplying
    <3> QED
      BY Zenon, <1>1, <1>2, <1>4, <3>3 DEF SendsCounted
  <2> QED
    BY Zenon, <2>1, <2>2
<1> QED
  BY Zenon, <1>3, <1>4

\* ... and an answer that leaves becomes a completion.
LEMMA ClientSends ==
  ASSUME FinitelyMany, HandsOver, OneForEach, SendsCounted, ClientStep
  PROVE  SendsCounted'
<1> DEFINE r == Cardinality(Replying)
           u == Cardinality(Unanswered)
<1>0. /\ r \in Nat /\ u \in Nat /\ sendFree \in Nat /\ scq \in Nat /\ C \in Nat
      /\ Replying \in SUBSET Clients /\ Unanswered \in SUBSET Clients
  BY Zenon, Counts DEF Replying, Unanswered, HandsOver, TypeOK
<1>1. UNCHANGED <<ppc, sendFree, work, queued, mine, wpc, peer>>
  BY Zenon DEF ClientStep, Ask, AskDropped, AskLost, Answer, AnswerLost, poller, queues, workers, requests,
         sends
<1>2. CASE Answer \/ AnswerLost
  <2>1. Cardinality(Replying') = r - 1 /\ Cardinality(Unanswered') = u - 1
    BY Zenon, <1>0, <1>2, AnswerUnanswered, Counts
  <2>2. scq' = scq + 1
    BY Zenon, <1>2 DEF Answer, AnswerLost
  <2> QED
    BY <1>0, <1>1, <2>1, <2>2 DEF SendsCounted
<1>3. CASE ~(Answer \/ AnswerLost)
  <2>1. sq' = sq /\ scq' = scq
    BY Zenon, <1>3 DEF ClientStep, Ask, AskDropped, AskLost, sends
  <2>2. Replying' = Replying /\ Unanswered' = Unanswered
    BY Zenon, <1>1, <2>1, OtherReceived, SameReplying, SameUnanswered
  <2> QED
    BY Zenon, <1>1, <2>1, <2>2 DEF SendsCounted
<1> QED
  BY Zenon, <1>2, <1>3

\* A worker that finds no send buffer would make one request too many.
LEMMA NoAbort ==
  ASSUME FinitelyMany, C < kMaxIBQueueDepth, HandsOver, OneForEach, SendsCounted,
         NEW w \in Workers, wpc[w] = "alloc"
  PROVE  sendFree # 0
<1> DEFINE a == peer[mine[w]]
           r == Cardinality(Replying)
           u == Cardinality(Unanswered)
<1>1. mine[w] \in Buffers /\ Received(mine[w]) /\ \A v \in Workers : mine[v] = mine[w] => v = w
  BY Zenon, ServedOnce
<1>2. /\ a \in Clients /\ a \notin Range(sq)
      /\ \A d \in Buffers : Received(d) /\ peer[d] = a => d = mine[w]
  BY Zenon, <1>1, ReceivedOnce DEF HandsOver
<1>3. \A v \in Workers : wpc[v] = "reply" => mine[v] \in Buffers /\ Received(mine[v])
  BY Zenon, ServedOnce
<1>4. a \in Unanswered /\ a \notin Replying /\ Replying \subseteq Unanswered
  BY Zenon, <1>1, <1>2, <1>3 DEF Unanswered, Replying
<1>5. /\ r \in Nat /\ u \in Nat /\ Cardinality(Unanswered \ {a}) = u - 1 /\ C \in Nat
      /\ scq \in Nat /\ sendFree \in Nat /\ kMaxIBQueueDepth \in Nat
  BY Zenon, <1>4, Counts, ServerAssumption DEF Unanswered, Replying, HandsOver, TypeOK
<1>6. r <= Cardinality(Unanswered \ {a})
  <2>1. IsFiniteSet(Unanswered \ {a}) /\ Replying \in SUBSET (Unanswered \ {a})
    BY Zenon, <1>4, Counts DEF Unanswered
  <2> QED
    BY Zenon, <2>1, FS_Subset
<1> QED
  BY <1>5, <1>6 DEF SendsCounted

----------------------------------------------------------------------------
(* The receive pool.                                                       *)

\* How many buffers a set of buffers has, one more and one less.
LEMMA BufferCounts ==
  /\ IsFiniteSet(Buffers) /\ Cardinality(Buffers) = kMaxIBQueueDepth
  /\ \A S \in SUBSET Buffers :
       /\ IsFiniteSet(S) /\ Cardinality(S) \in Nat
       /\ \A b \in S : Cardinality(S \ {b}) = Cardinality(S) - 1
       /\ \A b : Cardinality(S \cup {b}) <= Cardinality(S) + 1
<1>1. IsFiniteSet(Buffers) /\ Cardinality(Buffers) = kMaxIBQueueDepth
  BY FS_Interval, ServerAssumption DEF Buffers
<1>2. ASSUME NEW S \in SUBSET Buffers PROVE IsFiniteSet(S) /\ Cardinality(S) \in Nat
  BY Zenon, <1>1, FS_Subset, FS_CardinalityType
<1>3. ASSUME NEW S \in SUBSET Buffers, NEW b
      PROVE  /\ b \in S => Cardinality(S \ {b}) = Cardinality(S) - 1
             /\ Cardinality(S \cup {b}) <= Cardinality(S) + 1
  BY <1>2, FS_AddElement, FS_RemoveElement
<1> QED
  BY Zenon, <1>1, <1>2, <1>3

\* One buffer for each client at most is received, one for each worker freed.
LEMMA ReceivedCount ==
  ASSUME FinitelyMany, HandsOver, OneForEach, NEW Q, Q = {b \in Buffers : Received(b)}
  PROVE  IsFiniteSet(Q) /\ Cardinality(Q) <= C
<1> DEFINE f == [b \in Q |-> peer[b]]
<1>1. \A b \in Q : peer[b] \in Clients
  BY Zenon DEF HandsOver, TypeOK
<1>2. \A b, d \in Q : peer[b] = peer[d] => b = d
  BY Zenon, ReceivedOnce DEF HandsOver
<1>3. f \in Injection(Q, Clients)
  BY Zenon, <1>1, <1>2 DEF Injection, IsInjective
<1> QED
  BY Zenon, <1>3, FS_Injection DEF FinitelyMany, C

LEMMA FreedCount ==
  ASSUME FinitelyMany, NEW F, F = {b \in Buffers : \E w \in Workers : wpc[w] = "free" /\ mine[w] = b}
  PROVE  IsFiniteSet(F) /\ Cardinality(F) <= W
<1> DEFINE f == [b \in F |-> CHOOSE w \in Workers : mine[w] = b]
<1>1. \A b \in F : f[b] \in Workers /\ mine[f[b]] = b
  BY Zenon
<1>2. f \in Injection(F, Workers)
  BY <1>1 DEF Injection, IsInjective
<1> QED
  BY Zenon, <1>2, FS_Injection DEF FinitelyMany, W

\* So, when the pool is empty, no more than these are taken.
LEMMA TakenCount ==
  ASSUME FinitelyMany, HandsOver, OneForEach, root = 0
  PROVE  Cardinality(Taken) <= C + W
<1> DEFINE Q == {b \in Buffers : Received(b)}
           F == {b \in Buffers : \E w \in Workers : wpc[w] = "free" /\ mine[w] = b}
<1>1. /\ IsFiniteSet(Q) /\ Cardinality(Q) <= C /\ Cardinality(Q) \in Nat
      /\ IsFiniteSet(F) /\ Cardinality(F) <= W /\ Cardinality(F) \in Nat
  BY Zenon, ReceivedCount, FreedCount, FS_CardinalityType
<1>2. /\ IsFiniteSet(Q \cup F) /\ Cardinality(Q \cap F) \in Nat
      /\ Cardinality(Q \cup F) = Cardinality(Q) + Cardinality(F) - Cardinality(Q \cap F)
  BY Zenon, <1>1, FS_Union, FS_Intersection, FS_CardinalityType
<1>3. Taken \in SUBSET (Q \cup F)
  BY Zenon, TakenWhere DEF Taken
<1>4. Cardinality(Taken) <= Cardinality(Q \cup F) /\ Cardinality(Taken) \in Nat
  BY Zenon, <1>2, <1>3, FS_Subset, FS_CardinalityType
<1> HIDE DEF Q, F
<1> QED
  BY <1>1, <1>2, <1>4, Counts

\* At the start Poll fills the receive queue ...
LEMMA InitReceives == Init => ReceivesCounted
  BY Zenon DEF Init, ReceivesCounted

\* ... when it has, no buffer is taken ...
LEMMA FillReceives ==
  ASSUME FinitelyMany, HandsOver, HandsOver', ReceivesCounted, Fill
  PROVE  ReceivesCounted'
<1>1. /\ ppc = "fill" /\ work' = 0 /\ \A w \in Workers : queued'[w] = <<>> /\ mine'[w] = 0
      /\ ppc' = IF root' = 0 THEN "recv" ELSE "fill"
  BY Zenon DEF Fill, ReceivesCounted, queues, workers
<1>2. CASE root' # 0
  BY Zenon, <1>1, <1>2 DEF ReceivesCounted
<1>3. CASE root' = 0
  <2>1. \A b \in Taken' : Received(b)' \/ \E w \in Workers : wpc'[w] = "free" /\ mine'[w] = b
    BY Zenon, <1>3, TakenWhereNext
  <2>2. \A b \in Buffers : ~Received(b)'
    BY <1>1, NullIsNone DEF Received, InQueue, Served, Range
  <2>3. Taken' = {}
    BY Zenon, <1>1, <2>1, <2>2, NullIsNone DEF Taken
  <2> QED
    BY <1>1, <1>3, <2>3, FS_EmptySet, Counts DEF ReceivesCounted
<1> QED
  BY Zenon, <1>2, <1>3

\* ... each round takes one and posts one, or finds the pool empty ...
LEMMA PollReceives ==
  ASSUME FinitelyMany, HandsOver, HandsOver', OneForEach, ReceivesCounted, Poll
  PROVE  ReceivesCounted'
<1> DEFINE t == Cardinality(Taken)
<1>0. C \in Nat /\ W \in Nat /\ t \in Nat /\ Taken \in SUBSET Buffers
  BY Zenon, Counts, BufferCounts DEF Taken
<1>1. CASE Fill
  BY Zenon, <1>1, FillReceives
<1>2. CASE Receive
  <2>1. ppc = "recv" /\ ppc' = "enqueue"
    BY Zenon, <1>2 DEF Receive
  <2>2. Cardinality(Taken') <= t + 1 /\ Cardinality(Taken') \in Nat
    <3>1. Taken' \in SUBSET Buffers
      BY Zenon DEF Taken
    <3> QED
      BY Zenon, <1>0, <1>2, <3>1, ReceiveTaken, BufferCounts
  <2> QED
    BY <1>0, <2>1, <2>2 DEF ReceivesCounted
<1>3. CASE Refill
  <2>1. ppc = "refill" /\ ppc' = "recv" /\ rcq' = rcq
    BY Zenon, <1>3 DEF Refill
  <2>2. CASE PostFree
    <3>1. Cardinality(Taken') = t - 1
      BY Zenon, <1>0, <2>1, <2>2, PostFreeTaken, BufferCounts
    <3> QED
      BY <1>0, <2>1, <3>1 DEF ReceivesCounted
  <2>3. CASE root = 0 /\ posted' = posted
    <3>1. Taken' = Taken
      BY Zenon, <2>1, <2>3 DEF Taken
    <3>2. t <= C + W
      BY Zenon, <2>3, TakenCount
    <3> QED
      BY <2>1, <3>1, <3>2, <1>0 DEF ReceivesCounted
  <2> QED
    BY Zenon, <1>3, <2>2, <2>3 DEF Refill
<1>4. CASE ReceiveNothing \/ EnqueueLocked \/ Notify \/ Reap
  <2>1. UNCHANGED <<posted, rcq>> /\ ppc \in {"recv", "enqueue", "notify", "send"}
        /\ ppc' \in {"notify", "send", "refill"}
    BY Zenon, <1>4 DEF ReceiveNothing, EnqueueLocked, Notify, Reap, receives
  <2>2. Taken' = Taken
    BY Zenon, <2>1 DEF Taken
  <2> QED
    BY <1>0, <2>1, <2>2 DEF ReceivesCounted
<1> QED
  BY Zenon, <1>1, <1>2, <1>3, <1>4 DEF Poll

\* The pool is full of work only when Poll is past its first loop: while it
\* fills the receive queue no worker has work.
LEMMA OtherReceives ==
  ASSUME ReceivesCounted, Taken' = Taken, ppc' = ppc,
         ppc = "fill" => UNCHANGED <<work, queued, mine>>
  PROVE  ReceivesCounted'
  BY Zenon DEF ReceivesCounted

\* ... a worker takes none from the receive queue ...
LEMMA ServeReceives ==
  ASSUME HandsOver, ReceivesCounted, NEW w \in Workers, Serve(w) \/ SpuriousWakeup(w)
  PROVE  ReceivesCounted'
<1>1. ppc' = ppc /\ work' = work /\ posted' = posted /\ rcq' = rcq
  BY Zenon DEF Serve, SpinTake, SpinEnd, CheckTake, CheckEmpty, Block, SpuriousWakeup, AllocSend, Reply,
         FreeWork, poller, receives
<1>2. ASSUME ppc = "fill" PROVE queued' = queued /\ mine' = mine
  <2>1. queued[w] = <<>> /\ mine[w] = 0
    BY Zenon, <1>2 DEF ReceivesCounted
  <2>2. head[w] = 0 /\ wpc[w] \notin {"alloc", "reply", "free"}
    BY Zenon, <2>1 DEF HandsOver, HoldsWhileBusy, LinksAreLists
  <2> QED
    BY Zenon, <2>2 DEF Serve, SpinTake, SpinEnd, CheckTake, CheckEmpty, Block, SpuriousWakeup, AllocSend,
                Reply, FreeWork, queues
<1>3. Taken' = Taken
  BY Zenon, <1>1 DEF Taken
<1> QED
  BY Zenon, <1>1, <1>2, <1>3, OtherReceives

\* ... and neither does a request, which only completes one.
LEMMA ClientReceives == ASSUME HandsOver, ReceivesCounted, ClientStep PROVE ReceivesCounted'
<1>1. UNCHANGED <<ppc, work, queued, mine>>
  BY Zenon DEF ClientStep, Ask, AskDropped, AskLost, Answer, AnswerLost, poller, queues, workers
<1>2. Taken' = Taken
  <2>1. ASSUME NEW c \in Clients, NEW w \in Workers, Ask(c, w) PROVE Taken' = Taken
    BY Zenon, <2>1, AskTaken
  <2>2. ASSUME ~\E c \in Clients, w \in Workers : Ask(c, w) PROVE Taken' = Taken
    BY Zenon, <2>2 DEF ClientStep, AskDropped, AskLost, Answer, AnswerLost, receives, Taken
  <2> QED
    BY Zenon, <2>1, <2>2
<1> QED
  BY Zenon, <1>1, <1>2, OtherReceives

\* With no receive posted every client but one that asks would have a request
\* completed, and still a buffer would be left.
LEMMA RequestFits ==
  ASSUME FinitelyMany, 2 * C + W + 1 <= kMaxIBQueueDepth,
         HandsOver, OneForEach, ReceivesCounted, ppc # "fill", NEW c \in Clients \ asking
  PROVE  posted # <<>>
<1> SUFFICES ASSUME posted = <<>> PROVE FALSE
  BY Zenon
<1> DEFINE B == Bufs(rcq)
           f == [b \in B |-> CHOOSE d \in Clients : Completed(b, d)]
<1>1. B \in SUBSET Buffers /\ \A b \in B : \E d \in Clients : Completed(b, d)
  <2>1. \A i \in DOMAIN rcq : rcq[i] \in [buf : Buffers, from : Clients]
    BY Elements, Zenon DEF HandsOver, TypeOK
  <2> QED
    BY Zenon, <2>1 DEF Bufs, Completed
<1>2. \A b \in B : f[b] \in Clients /\ Completed(b, f[b])
  BY Zenon, <1>1
<1>3. ASSUME NEW b \in B PROVE Carries(b, f[b]) /\ f[b] # c
  <2>1. Carries(b, f[b]) /\ OneFor(f[b])
    BY Zenon, <1>2, CarriesIs DEF OneForEach
  <2>2. Waits(f[b])
    BY Zenon, <1>1, <2>1 DEF OneFor
  <2> QED
    BY Zenon, <2>1, <2>2 DEF Waits
<1>4. ASSUME NEW b \in B, NEW d \in B, f[b] = f[d] PROVE b = d
  BY Zenon, <1>1, <1>2, <1>3, <1>4 DEF OneForEach, OneFor
<1>5. f \in Injection(B, Clients \ {c})
  BY Zenon, <1>2, <1>3, <1>4 DEF Injection, IsInjective
<1>6. IsFiniteSet(Clients \ {c}) /\ Cardinality(Clients \ {c}) = C - 1
  BY Zenon, FS_RemoveElement DEF FinitelyMany, C
<1>7. Cardinality(B) <= C - 1 /\ Cardinality(B) \in Nat /\ IsFiniteSet(B)
  BY <1>1, <1>5, <1>6, FS_Injection, BufferCounts
<1>8. Buffers = Taken \cup B /\ Taken \in SUBSET Buffers
  BY <1>1 DEF Taken, Range
<1>9. /\ IsFiniteSet(Taken) /\ Cardinality(Taken) \in Nat /\ Cardinality(Taken \cap B) \in Nat
      /\ Cardinality(Buffers) = Cardinality(Taken) + Cardinality(B) - Cardinality(Taken \cap B)
  BY Zenon, <1>7, <1>8, BufferCounts, FS_Union, FS_Intersection, FS_CardinalityType
<1>10. Cardinality(Taken) <= C + W + 1
  BY Counts, <1>9 DEF ReceivesCounted
<1> HIDE DEF B
<1> QED
  BY <1>7, <1>9, <1>10, BufferCounts, Counts, ServerAssumption

----------------------------------------------------------------------------
(* The counts are inductive, given HandsOver and OneForEach.               *)

Counted == HandsOver /\ OneForEach /\ SendsCounted /\ ReceivesCounted

\* The counts hold at the start ...
LEMMA InitCounted == ASSUME FinitelyMany PROVE Init => Counted
  BY Zenon, InitHandsOver, InitOneForEach, InitSends, InitReceives DEF Counted

\* ... and every step keeps them.
LEMMA NextCounted == ASSUME FinitelyMany PROVE Counted /\ [Next]_vars => Counted'
<1> SUFFICES ASSUME Counted, [Next]_vars PROVE Counted'
  BY Zenon
<1>0. HandsOver /\ HandsOver' /\ OneForEach /\ OneForEach' /\ SendsCounted /\ ReceivesCounted
  BY Zenon, NextHandsOver, NextOneForEach DEF Counted
<1>1. CASE Poll
  BY Zenon, <1>0, <1>1, PollSends, PollReceives DEF Counted
<1>2. CASE \E w \in Workers : Serve(w) \/ SpuriousWakeup(w)
  BY Zenon, <1>0, <1>2, ServeSends, ServeReceives DEF Counted
<1>3. CASE ClientStep
  BY Zenon, <1>0, <1>3, ClientSends, ClientReceives DEF Counted
<1>4. CASE UNCHANGED vars
  <2>1. UNCHANGED <<poller, workers, queues, requests, receives, sends>>
    BY Zenon, <1>4 DEF vars
  <2>2. UNCHANGED <<ppc, work, wpc, mine, queued, peer, posted, rcq, sendFree, sq, scq>>
    BY Zenon, <2>1 DEF poller, workers, queues, requests, receives, sends
  <2>3. Replying' = Replying /\ Unanswered' = Unanswered /\ Taken' = Taken
    BY Zenon, <2>2, OtherReceived, SameReplying, SameUnanswered DEF Taken
  <2>4. SendsCounted'
    BY Zenon, <1>0, <2>2, <2>3 DEF SendsCounted
  <2>5. ReceivesCounted'
    BY Zenon, <1>0, <2>2, <2>3, OtherReceives
  <2> QED
    BY Zenon, <1>0, <2>4, <2>5 DEF Counted
<1> QED
  BY Zenon, <1>1, <1>2, <1>3, <1>4 DEF Next, ClientStep

\* No step stops the server or loses a request for want of a buffer.
LEMMA StepSuffices ==
  ASSUME FinitelyMany, 2 * C + W + 1 <= kMaxIBQueueDepth, Counted, Next
  PROVE  ~Aborted' /\ (dropped' # dropped => ppc = "fill")
<1>0. HandsOver /\ OneForEach /\ SendsCounted /\ ReceivesCounted
  BY Zenon DEF Counted
<1>1. \A w \in Workers : wpc[w] # "abort"
  BY Zenon DEF Next, Aborted
<1>2. C < kMaxIBQueueDepth
  BY Counts, ServerAssumption
<1>3. CASE Poll
  <2>1. \A w \in Workers : wpc'[w] # "abort"
    BY Zenon, <1>0, <1>1, <1>3 DEF Poll, Fill, Receive, ReceiveNothing, EnqueueLocked, Notify, Reap, Refill,
                            workers, HandsOver, TypeOK
  <2>2. dropped' = dropped
    BY Zenon, <1>3 DEF Poll, Fill, Receive, ReceiveNothing, EnqueueLocked, Notify, Reap, Refill, clients
  <2> QED
    BY Zenon, <2>1, <2>2 DEF Aborted
<1>4. ASSUME NEW w \in Workers, Serve(w) \/ SpuriousWakeup(w)
      PROVE  ~Aborted' /\ dropped' = dropped
  <2>1. wpc[w] = "alloc" => sendFree # 0
    BY Zenon, <1>0, <1>2, NoAbort
  <2>2. wpc'[w] # "abort" /\ \A v \in Workers : v = w \/ wpc'[v] = wpc[v]
    BY Zenon, <1>0, <1>4, <2>1 DEF Serve, SpinTake, SpinEnd, CheckTake, CheckEmpty, Block, SpuriousWakeup,
                            AllocSend, Reply, FreeWork, HandsOver, TypeOK
  <2>3. dropped' = dropped
    BY Zenon, <1>4 DEF Serve, SpinTake, SpinEnd, CheckTake, CheckEmpty, Block, SpuriousWakeup, AllocSend,
                Reply, FreeWork, clients
  <2> QED
    BY Zenon, <1>1, <2>2, <2>3 DEF Aborted
<1>5. CASE ClientStep
  <2>1. wpc' = wpc
    BY Zenon, <1>5 DEF ClientStep, Ask, AskDropped, AskLost, Answer, AnswerLost, workers
  <2>2. ASSUME dropped' # dropped PROVE ppc = "fill"
    <3>1. PICK c \in Clients : AskDropped(c)
      BY Zenon, <1>5, <2>2 DEF ClientStep, Ask, AskLost, Answer, AnswerLost
    <3>2. c \in Clients \ asking /\ posted = <<>>
      BY Zenon, <3>1 DEF AskDropped
    <3> QED
      BY Zenon, <1>0, <3>2, RequestFits
  <2> QED
    BY Zenon, <1>1, <2>1, <2>2 DEF Aborted
<1> QED
  BY Zenon, <1>3, <1>4, <1>5 DEF Next, ClientStep

\* One queue's worth of buffers each way suffices: send_bufs_.Alloc() in
\* Worker::Serve never finds the pool empty, so that the assertion behind it does
\* not stop the server, and once Poll has filled the receive queue a request
\* always finds a receive.
THEOREM BuffersAlwaysSuffice ==
  ASSUME FinitelyMany, 2 * C + W + 1 <= kMaxIBQueueDepth
  PROVE  Spec => BuffersSuffice
<1>1. Init => Counted
  BY Zenon, InitCounted
<1>2. Counted /\ [Next]_vars => Counted'
  BY Zenon, NextCounted
<1>3. Counted /\ [Next]_vars => [~Aborted' /\ (dropped' # dropped => ppc = "fill")]_vars
  BY Zenon, StepSuffices
<1> QED
  BY <1>1, <1>2, <1>3, PTL DEF Spec, BuffersSuffice

=============================================================================
