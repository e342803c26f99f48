------------------------------- MODULE Server -------------------------------
(***************************************************************************)
(* The request path of a server (src/src/server.h, server.cc,              *)
(* infiniband.h): the poller thread, the worker threads with their work     *)
(* queues, the two pools of registered buffers, and clients that send a    *)
(* request and wait for its answer (src/src/client.cc).                    *)
(*                                                                         *)
(* Every region a lock protects is one step.  Receive buffers are 1..depth *)
(* and 0 is nullptr; Buffer::next links the pool's free list and also the  *)
(* work queues, as in the code.  Of a request only its sender and the       *)
(* worker its key hashes to are kept.  Send buffers are told apart by       *)
(* nothing, so their pool is a count.                                      *)
(*                                                                         *)
(* The fabric, from how the code uses it: a datagram takes the oldest       *)
(* posted receive or is dropped when there is none; a send completes when   *)
(* it leaves; up to MaxLost datagrams are lost on the way.  A client that   *)
(* is slow to send or to notice its answer is one that acts later, so      *)
(* messages are not kept in flight.                                        *)
(***************************************************************************)
EXTENDS Integers, Sequences, FiniteSets, Functions

CONSTANTS
  Clients, Workers,
  kMaxIBQueueDepth,   \* buffers in each pool, slots in each queue
  MaxLost             \* bound on the datagrams the fabric loses

ASSUME ServerAssumption ==
  /\ kMaxIBQueueDepth \in Nat \ {0} /\ MaxLost \in Nat
  /\ Clients # {} /\ Workers # {}

VARIABLES
  ppc, work, to,   \* the poller: where it is, the buffer it dispatches, to whom
  wpc, mine,       \* the workers: where each is, the buffer it serves
  mtx,             \* worker |-> mtx_ is held
  head, tail,      \* worker |-> head_, tail_ of its work queue
  next, root,      \* Buffer::next, and root_ of the receive pool
  peer, target,    \* Buffer::peer_addr; worker for the request in the buffer
  posted, rcq,     \* the receive queue and its completion queue
  sendFree,        \* number of free send buffers
  sq, scq,         \* answers posted; number of send completions
  asking,          \* clients waiting for an answer
  dropped,         \* those of them whose request found no receive
  lost,            \* those of them whose request or answer the fabric lost
  queued,          \* history: worker |-> work in the order of dispatch
  free             \* history: the buffers of the pool, the next one first

poller == <<ppc, work, to>>
workers == <<wpc, mine>>
queues == <<mtx, head, tail, queued>>
pool == <<next, root, free>>
requests == <<peer, target>>
receives == <<posted, rcq>>
sends == <<sendFree, sq, scq>>
clients == <<asking, dropped, lost>>
vars == <<poller, workers, queues, pool, requests, receives, sends, clients>>

Buffers == 1..kMaxIBQueueDepth

Init ==
  /\ ppc = "fill" /\ work = 0 /\ to = CHOOSE w \in Workers : TRUE
  /\ wpc = [w \in Workers |-> "spin"] /\ mine = [w \in Workers |-> 0]
  /\ mtx = [w \in Workers |-> FALSE]
  /\ head = [w \in Workers |-> 0] /\ tail = [w \in Workers |-> 0]
  /\ next = [b \in Buffers |-> IF b = kMaxIBQueueDepth THEN 0 ELSE b + 1] /\ root = 1
  /\ free = [b \in Buffers |-> b]
  /\ peer \in [Buffers -> {CHOOSE c \in Clients : TRUE}]
  /\ target \in [Buffers -> {CHOOSE w \in Workers : TRUE}]
  /\ posted = <<>> /\ rcq = <<>>
  /\ sendFree = kMaxIBQueueDepth /\ sq = <<>> /\ scq = 0
  /\ asking = {} /\ dropped = {} /\ lost = {}
  /\ queued = [w \in Workers |-> <<>>]

----------------------------------------------------------------------------
(* Server::Poll.                                                           *)

\* recv_bufs_.Alloc() and PostReceive.
PostFree ==
  /\ root # 0
  /\ posted' = Append(posted, root) /\ root' = next[root] /\ free' = Tail(free)

\* One round of the loop that empties the pool into the receive queue.
Fill ==
  /\ ppc = "fill" /\ PostFree
  /\ ppc' = IF root' = 0 THEN "recv" ELSE "fill"
  /\ UNCHANGED <<work, to, workers, queues, next, requests, rcq, sends, clients>>

ReceiveFromNobody ==
  /\ ppc = "recv" /\ rcq # <<>>
  /\ work' = Head(rcq).buf /\ to' = target[Head(rcq).buf] /\ rcq' = Tail(rcq)
  /\ ppc' = "enqueue"
  /\ UNCHANGED <<workers, queues, pool, requests, posted, sends, clients>>
\* TryReceive: PollCQ stores the sender's address in the buffer; Dispatch
\* looks up the worker.
Receive ==
  /\ ppc = "recv" /\ rcq # <<>>
  /\ work' = Head(rcq).buf /\ to' = target[Head(rcq).buf] /\ rcq' = Tail(rcq)
  /\ peer' = [peer EXCEPT ![Head(rcq).buf] = Head(rcq).from]
  /\ ppc' = "enqueue"
  /\ UNCHANGED <<workers, queues, pool, target, posted, sends, clients>>

ReceiveNothing ==
  /\ ppc = "recv" /\ rcq = <<>> /\ ppc' = "send"
  /\ UNCHANGED <<work, to, workers, queues, pool, requests, receives, sends, clients>>

\* WorkQueue::Enqueue; next of the last buffer is left as it was.
Enqueue(w, b) ==
  /\ tail' = [tail EXCEPT ![w] = b]
  /\ IF head[w] = 0
     THEN head' = [head EXCEPT ![w] = b] /\ UNCHANGED next
     ELSE next' = [next EXCEPT ![tail[w]] = b] /\ UNCHANGED head
  /\ queued' = [queued EXCEPT ![w] = Append(@, b)]

\* Worker::Enqueue takes mtx_ ...
EnqueueUnlocked ==
  /\ ppc = "enqueue"
  /\ Enqueue(to, work)
  /\ ppc' = "notify" /\ work' = 0
  /\ UNCHANGED <<to, mtx, workers, root, free, requests, receives, sends, clients>>
EnqueueLocked ==
  /\ ppc = "enqueue" /\ ~mtx[to]
  /\ mtx' = [mtx EXCEPT ![to] = TRUE]
  /\ Enqueue(to, work)
  /\ ppc' = "notify" /\ work' = 0
  /\ UNCHANGED <<to, workers, root, free, requests, receives, sends, clients>>

\* ... and notifies before it lets go of it.
Notify ==
  /\ ppc = "notify" /\ ppc' = "send"
  /\ wpc' = [wpc EXCEPT ![to] = IF @ = "asleep" THEN "check" ELSE @]
  /\ mtx' = [mtx EXCEPT ![to] = FALSE]
  /\ UNCHANGED <<work, to, mine, head, tail, queued, pool, requests, receives,
                 sends, clients>>

\* TrySend, and the buffer goes back to its pool.
ReapNone ==
  /\ ppc = "send" /\ ppc' = "refill"
  /\ UNCHANGED <<work, to, workers, queues, pool, requests, receives, sends, clients>>
Reap ==
  /\ ppc = "send" /\ ppc' = "refill"
  /\ IF scq > 0 THEN scq' = scq - 1 /\ sendFree' = sendFree + 1
                ELSE UNCHANGED <<scq, sendFree>>
  /\ UNCHANGED <<work, to, workers, queues, pool, requests, receives, sq, clients>>

RefillNone ==
  /\ ppc = "refill" /\ ppc' = "recv"
  /\ UNCHANGED <<work, to, workers, queues, pool, requests, receives, sends, clients>>
\* A free receive buffer, if there is one, is posted again.
Refill ==
  /\ ppc = "refill" /\ ppc' = "recv"
  /\ \/ PostFree
     \/ root = 0 /\ UNCHANGED <<posted, root, free>>
  /\ UNCHANGED <<work, to, workers, queues, next, requests, rcq, sends, clients>>

----------------------------------------------------------------------------
(* Worker::Serve.                                                          *)

\* WorkQueue::Dequeue of a queue that is not empty.
DequeueAlways(w) ==
  /\ mine' = [mine EXCEPT ![w] = head[w]]
  /\ head' = [head EXCEPT ![w] = next[head[w]]]
  /\ queued' = [queued EXCEPT ![w] = Tail(@)]
  /\ UNCHANGED tail
Dequeue(w) ==
  /\ mine' = [mine EXCEPT ![w] = head[w]]
  /\ IF head[w] = tail[w]
     THEN head' = [head EXCEPT ![w] = 0] /\ tail' = [tail EXCEPT ![w] = 0]
     ELSE head' = [head EXCEPT ![w] = next[head[w]]] /\ UNCHANGED tail
  /\ queued' = [queued EXCEPT ![w] = Tail(@)]

\* TryPollWork finds work, without mtx_ ...
SpinTake(w) ==
  /\ wpc[w] = "spin" /\ head[w] # 0
  /\ Dequeue(w) /\ wpc' = [wpc EXCEPT ![w] = "alloc"]
  /\ UNCHANGED <<poller, mtx, pool, requests, receives, sends, clients>>

\* ... or gives up after 50 microseconds.
SpinEnd(w) ==
  /\ wpc[w] = "spin" /\ head[w] = 0
  /\ wpc' = [wpc EXCEPT ![w] = "check"]
  /\ UNCHANGED <<poller, mine, queues, pool, requests, receives, sends, clients>>

\* The predicate of wait, evaluated with mtx_ held: work is found ...
CheckTake(w) ==
  /\ wpc[w] = "check" /\ ~mtx[w] /\ head[w] # 0
  /\ Dequeue(w) /\ wpc' = [wpc EXCEPT ![w] = "alloc"]
  /\ UNCHANGED <<poller, mtx, pool, requests, receives, sends, clients>>

\* ... or not, and mtx_ is kept ...
CheckEmpty(w) ==
  /\ wpc[w] = "check" /\ ~mtx[w] /\ head[w] = 0
  /\ mtx' = [mtx EXCEPT ![w] = TRUE]
  /\ wpc' = [wpc EXCEPT ![w] = "block"]
  /\ UNCHANGED <<poller, mine, head, tail, queued, pool, requests, receives, sends, clients>>

\* ... until the thread sleeps.
Block(w) ==
  /\ wpc[w] = "block"
  /\ mtx' = [mtx EXCEPT ![w] = FALSE]
  /\ wpc' = [wpc EXCEPT ![w] = "asleep"]
  /\ UNCHANGED <<poller, mine, head, tail, queued, pool, requests, receives, sends, clients>>

SpuriousWakeup(w) ==
  /\ wpc[w] = "asleep" /\ wpc' = [wpc EXCEPT ![w] = "check"]
  /\ UNCHANGED <<poller, mine, queues, pool, requests, receives, sends, clients>>

\* send_bufs_.Alloc(); the assertion that follows stops the server.
AllocSend(w) ==
  /\ wpc[w] = "alloc"
  /\ IF sendFree = 0
     THEN wpc' = [wpc EXCEPT ![w] = "abort"] /\ UNCHANGED sendFree
     ELSE wpc' = [wpc EXCEPT ![w] = "reply"] /\ sendFree' = sendFree - 1
  /\ UNCHANGED <<poller, mine, queues, pool, requests, receives, sq, scq, clients>>

\* The tablet's operation and Sync are over; PostSend of the answer.
Reply(w) ==
  /\ wpc[w] = "reply" /\ sq' = Append(sq, peer[mine[w]])
  /\ wpc' = [wpc EXCEPT ![w] = "free"]
  /\ UNCHANGED <<poller, mine, queues, pool, requests, receives, sendFree, scq, clients>>

FreeForgotten(b) == UNCHANGED pool
\* RegisteredBuffers::Free.
Free(b) == next' = [next EXCEPT ![b] = root] /\ root' = b /\ free' = <<b>> \o free

FreeWork(w) ==
  /\ wpc[w] = "free" /\ Free(mine[w])
  /\ wpc' = [wpc EXCEPT ![w] = "spin"] /\ mine' = [mine EXCEPT ![w] = 0]
  /\ UNCHANGED <<poller, queues, requests, receives, sends, clients>>

----------------------------------------------------------------------------
(* The clients and the fabric.                                             *)

\* RequestAndWait: a receive is posted, then the request is sent, and reaches
\* a receive buffer of the server.
Ask(c, w) ==
  /\ c \notin asking /\ posted # <<>>
  /\ asking' = asking \cup {c}
  /\ posted' = Tail(posted)
  /\ rcq' = Append(rcq, [buf |-> Head(posted), from |-> c])
  /\ target' = [target EXCEPT ![Head(posted)] = w]
  /\ UNCHANGED <<poller, workers, queues, pool, peer, sends, dropped, lost>>

\* No receive is posted: the datagram is dropped, and the client, which has
\* no timeout, waits for ever.
AskDropped(c) ==
  /\ c \notin asking /\ posted = <<>>
  /\ asking' = asking \cup {c} /\ dropped' = dropped \cup {c}
  /\ UNCHANGED <<poller, workers, queues, pool, requests, receives, sends, lost>>

\* The request is lost on the way, to the same effect.
AskLost(c) ==
  /\ c \notin asking /\ Cardinality(lost) < MaxLost
  /\ asking' = asking \cup {c} /\ lost' = lost \cup {c}
  /\ UNCHANGED <<poller, workers, queues, pool, requests, receives, sends, dropped>>

\* The adapter sends an answer, and the client has it.
Answer ==
  /\ sq # <<>>
  /\ sq' = Tail(sq) /\ scq' = scq + 1
  /\ asking' = asking \ {Head(sq)}
  /\ UNCHANGED <<poller, workers, queues, pool, requests, receives, sendFree, dropped, lost>>

\* The answer is lost: its send completes all the same.
AnswerLost ==
  /\ sq # <<>> /\ Cardinality(lost) < MaxLost
  /\ sq' = Tail(sq) /\ scq' = scq + 1
  /\ lost' = lost \cup {Head(sq)}
  /\ UNCHANGED <<poller, workers, queues, pool, requests, receives, sendFree, asking, dropped>>

Aborted == \E w \in Workers : wpc[w] = "abort"

Poll ==
  \/ Fill \/ Receive \/ ReceiveNothing \/ EnqueueLocked \/ Notify \/ Reap \/ Refill

Serve(w) ==
  \/ SpinTake(w) \/ SpinEnd(w) \/ CheckTake(w) \/ CheckEmpty(w) \/ Block(w)
  \/ AllocSend(w) \/ Reply(w) \/ FreeWork(w)

Next ==
  /\ ~Aborted
  /\ \/ Poll
     \/ \E w \in Workers : Serve(w) \/ SpuriousWakeup(w)
     \/ \E c \in Clients : AskDropped(c) \/ AskLost(c) \/ \E w \in Workers : Ask(c, w)
     \/ Answer \/ AnswerLost

Spec == Init /\ [][Next]_vars

\* All threads run on, the adapter sends what is posted, and mtx_ is not for
\* ever given to others while the poller asks for it.
Fairness ==
  /\ WF_vars(~Aborted /\ Poll) /\ SF_vars(~Aborted /\ EnqueueLocked)
  /\ \A w \in Workers : WF_vars(~Aborted /\ Serve(w))
  /\ WF_vars(~Aborted /\ (Answer \/ AnswerLost))

FairSpec == Spec /\ Fairness

----------------------------------------------------------------------------
(* Properties.                                                             *)

BufferOrNull == Buffers \cup {0}

TypeOK ==
  /\ ppc \in {"fill", "recv", "enqueue", "notify", "send", "refill"}
  /\ work \in BufferOrNull /\ to \in Workers
  /\ wpc \in [Workers -> {"spin", "check", "block", "asleep", "alloc", "reply", "free", "abort"}]
  /\ mine \in [Workers -> BufferOrNull] /\ mtx \in [Workers -> BOOLEAN]
  /\ head \in [Workers -> BufferOrNull] /\ tail \in [Workers -> BufferOrNull]
  /\ queued \in [Workers -> Seq(Buffers)]
  /\ next \in [Buffers -> BufferOrNull] /\ root \in BufferOrNull /\ free \in Seq(Buffers)
  /\ peer \in [Buffers -> Clients] /\ target \in [Buffers -> Workers]
  /\ posted \in Seq(Buffers) /\ rcq \in Seq([buf : Buffers, from : Clients])
  /\ sendFree \in Nat /\ sq \in Seq(Clients) /\ scq \in Nat
  /\ asking \subseteq Clients /\ dropped \subseteq Clients /\ lost \subseteq Clients

\* A thread holds a receive buffer exactly while it is busy with it.
HoldsWhileBusy ==
  /\ work # 0 <=> ppc = "enqueue"
  /\ \A w \in Workers : mine[w] # 0 <=> wpc[w] \in {"alloc", "reply", "free", "abort"}

\* Buffer::next links the free list of the pool and all the work queues.  The
\* links from head_ to tail_ are the work that was dispatched to a worker and
\* not yet taken, in order, although the last buffer keeps a link it had in the
\* pool; and the links from root_ are the free buffers.
LinksAreLists ==
  /\ \A w \in Workers :
       /\ head[w] = IF queued[w] = <<>> THEN 0 ELSE Head(queued[w])
       /\ tail[w] = IF queued[w] = <<>> THEN 0 ELSE queued[w][Len(queued[w])]
       /\ \A i \in 1..Len(queued[w]) - 1 : next[queued[w][i]] = queued[w][i + 1]
  /\ root = IF free = <<>> THEN 0 ELSE Head(free)
  /\ \A i \in 1..Len(free) : next[free[i]] = IF i = Len(free) THEN 0 ELSE free[i + 1]

\* Where receive buffers are.
Places ==
  {<<"pool">>, <<"posted">>, <<"completed">>, <<"poller">>}
  \cup ({"queue", "serving"} \X Workers)
Held == [pl \in Places |->
  CASE pl[1] = "pool" -> Range(free)
    [] pl[1] = "posted" -> Range(posted)
    [] pl[1] = "completed" -> {rcq[i].buf : i \in DOMAIN rcq}
    [] pl[1] = "poller" -> {work} \ {0}
    [] pl[1] = "queue" -> Range(queued[pl[2]])
    [] pl[1] = "serving" -> {mine[pl[2]]} \ {0}]

Distinct(s) == \A i, j \in DOMAIN s : s[i] = s[j] => i = j

\* Poller, workers, pool and adapter hand receive buffers to each other
\* without losing or sharing one: each buffer is in exactly one place, once.
BufferInOnePlace ==
  /\ \A b \in Buffers : \E pl \in Places : \A x \in Places : b \in Held[x] <=> x = pl
  /\ Distinct(free) /\ Distinct(posted) /\ Distinct([i \in DOMAIN rcq |-> rcq[i].buf])
  /\ \A w \in Workers : Distinct(queued[w])

\* What every step of the receive path can rely on, and leaves behind.
HandsOver == TypeOK /\ HoldsWhileBusy /\ LinksAreLists /\ BufferInOnePlace

\* Buffer b has a request of c that is not answered.
Carries(b, c) ==
  \/ \E i \in DOMAIN rcq : rcq[i].buf = b /\ rcq[i].from = c
  \/ /\ peer[b] = c
     /\ \/ work = b
        \/ \E w \in Workers : b \in Range(queued[w])
        \/ \E w \in Workers : mine[w] = b /\ wpc[w] \in {"alloc", "reply", "abort"}

\* What the server holds for c: requests not answered, answers not sent.
Pending(c) ==
  {<<"request", b>> : b \in {b \in Buffers : Carries(b, c)}}
  \cup {<<"answer", i>> : i \in {i \in DOMAIN sq : sq[i] = c}}

\* Answers carry no request number, and the client takes the first datagram
\* that comes.  That is sound: for a client that waits the server holds one
\* request or one answer, and nothing for any other client or for one whose
\* datagram was lost, although buffers and the addresses in them are used
\* again.
OneAnswerEach ==
  /\ dropped \cup lost \subseteq asking
  /\ \A c \in Clients :
       IF c \in asking \ (dropped \cup lost) THEN \E x \in Pending(c) : Pending(c) = {x}
                                             ELSE Pending(c) = {}

\* One queue's worth of buffers each way suffices: the send pool never runs dry
\* under a worker (the assertion behind send_bufs_.Alloc() in Serve), and once
\* Poll has filled the receive queue a request always finds a receive.
BuffersSuffice == [][~Aborted' /\ (dropped' # dropped => ppc = "fill")]_vars

\* Every request that was received is answered: no wake-up of a worker is
\* missed, and no worker, buffer or answer gets stuck.  A client waits for ever
\* only for a datagram that was dropped or lost, and the others do not suffer.
RequestsAnswered ==
  \A c \in Clients : (c \in asking \ (dropped \cup lost)) ~> (c \notin asking \/ c \in lost)

============================================================================
