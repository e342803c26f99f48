---------------------------- MODULE ServerProofs ----------------------------
(***************************************************************************)
(* Server hands receive buffers over (src/src/server.h, server.cc,         *)
(* infiniband.h): each buffer is in one place, and Buffer::next links the  *)
(* free list of the pool and every work queue, for any number of clients,  *)
(* workers and buffers. And each client that waits has one request or one  *)
(* answer in the server.                                                   *)
(*                                                                         *)
(* First come facts about sequences, and the types of Server: what Poll,   *)
(* Serve and the clients' steps leave in every variable. The pool and the  *)
(* queues of the request path are sequences in the history variables, so   *)
(* the proofs about them rest on what Head, Tail, Append and concatenation *)
(* do to the elements of a sequence.                                       *)
(*                                                                         *)
(* The three parts of HandsOver hold each other up. Enqueue and Free write *)
(* next of one buffer; that no other list is disturbed follows from the    *)
(* buffer being in one place. That Alloc and Dequeue move the buffer that  *)
(* the history says follows from the links. For each action one lemma      *)
(* shows where buffers go (...Place) and one what becomes of the links     *)
(* (...Links).                                                             *)
(*                                                                         *)
(* OneForEach states OneAnswerEach without sets of pairs: the request of a *)
(* client is in one buffer at most, and its answer is in the send queue    *)
(* once, and not while the request is still there. The lemmas say for each *)
(* action which buffers carry a request of which client before and after   *)
(* it.                                                                     *)
(***************************************************************************)
EXTENDS Server, TLAPS

\* What Head and Tail take from a sequence that is not empty.
LEMMA TailFacts ==
  ASSUME NEW S, NEW s \in Seq(S), s # <<>>
  PROVE  /\ Head(s) \in S /\ Head(s) = s[1] /\ Tail(s) \in Seq(S)
         /\ 1 \in DOMAIN s /\ Len(s) \in Nat \ {0} /\ Len(Tail(s)) = Len(s) - 1
         /\ DOMAIN s = 1..Len(s) /\ DOMAIN Tail(s) = 1..(Len(s) - 1)
         /\ \A i \in 1..(Len(s) - 1) : Tail(s)[i] = s[i + 1]
  OBVIOUS

\* The elements of a sequence over S are in S.
LEMMA Elements == \A S : \A s \in Seq(S) : \A i \in DOMAIN s : s[i] \in S
  OBVIOUS

\* A sequence without elements is the empty one.
LEMMA NoElements == \A S : \A s \in Seq(S) : s = <<>> <=> Len(s) = 0
  OBVIOUS

\* What is left behind the head: nothing, or the second element first and the
\* last one last.
LEMMA TailTail ==
  ASSUME NEW S, NEW s \in Seq(S), s # <<>>
  PROVE  /\ Len(s) = 1 => Tail(s) = <<>>
         /\ Len(s) # 1 => /\ Tail(s) # <<>> /\ Head(Tail(s)) = s[2]
                          /\ Tail(s)[Len(Tail(s))] = s[Len(s)]
<1>1. Tail(s) \in Seq(S) /\ Len(Tail(s)) = Len(s) - 1 /\ Len(s) \in Nat \ {0}
  BY Zenon, TailFacts
<1>2. Tail(s) = <<>> <=> Len(Tail(s)) = 0
  BY <1>1, NoElements, Zenon
<1>3. Len(s) = 1 <=> Tail(s) = <<>>
  <2> DEFINE n == Len(Tail(s))
  <2>1. n = Len(s) - 1 /\ Len(s) \in Nat
    BY Zenon, <1>1
  <2> HIDE DEF n
  <2>2. Len(s) = 1 <=> n = 0
    BY <2>1
  <2> QED
    BY Zenon, <1>2, <2>2 DEF n
<1>4. ASSUME Len(s) # 1 PROVE Head(Tail(s)) = s[2] /\ Tail(s)[Len(Tail(s))] = s[Len(s)]
  <2>1. Head(Tail(s)) = Tail(s)[1] /\ Tail(s)[Len(Tail(s))] = Tail(s)[Len(s) - 1]
    BY Zenon, <1>1, <1>3, <1>4, TailFacts
  <2>2. \A i \in 1..(Len(s) - 1) : Tail(s)[i] = s[i + 1]
    BY Zenon, TailFacts
  <2>3. Tail(s)[1] = s[2] /\ Tail(s)[Len(s) - 1] = s[Len(s)]
    BY <1>1, <1>4, <2>2
  <2> QED
    BY <2>1, <2>3, Zenon
<1> QED
  BY Zenon, <1>3, <1>4

\* What Append adds at the end.
LEMMA AppendFacts ==
  ASSUME NEW S, NEW s \in Seq(S), NEW x \in S
  PROVE  /\ Append(s, x) \in Seq(S) /\ Len(s) \in Nat /\ Len(Append(s, x)) = Len(s) + 1
         /\ DOMAIN s = 1..Len(s) /\ DOMAIN Append(s, x) = 1..(Len(s) + 1)
         /\ \A i \in 1..Len(s) : Append(s, x)[i] = s[i]
         /\ Append(s, x)[Len(s) + 1] = x
  OBVIOUS

\* What putting an element in front, as RegisteredBuffers::Free does, gives.
LEMMA ConsFacts ==
  ASSUME NEW S, NEW s \in Seq(S), NEW x \in S
  PROVE  /\ <<x>> \o s \in Seq(S) /\ Len(s) \in Nat /\ Len(<<x>> \o s) = Len(s) + 1
         /\ DOMAIN s = 1..Len(s) /\ DOMAIN (<<x>> \o s) = 1..(Len(s) + 1)
         /\ \A i \in 1..Len(s) : (<<x>> \o s)[i + 1] = s[i]
         /\ (<<x>> \o s)[1] = x
  OBVIOUS

\* An element is in the range.
LEMMA InSet == \A s : \A i \in DOMAIN s : s[i] \in Range(s)
  BY Zenon DEF Range

\* Alloc and Dequeue take the head away and leave the others ...
LEMMA TailSet ==
  ASSUME NEW S, NEW s \in Seq(S), s # <<>>
  PROVE  /\ Head(s) \in Range(s)
         /\ Range(s) = Range(Tail(s)) \cup {Head(s)}
         /\ Distinct(s) => Distinct(Tail(s)) /\ Range(Tail(s)) = Range(s) \ {Head(s)}
<1>1. \A i \in 1..Len(s) : i = 1 \/ i - 1 \in 1..(Len(s) - 1)
  BY TailFacts
<1>2. \A i \in 1..Len(s) : s[i] = Head(s) \/ s[i] \in Range(Tail(s))
  <2> TAKE i \in 1..Len(s)
  <2>1. CASE i = 1
    BY Zenon, <2>1, TailFacts
  <2>2. CASE i - 1 \in 1..(Len(s) - 1)
    <3>1. Tail(s)[i - 1] = s[i]
      BY <2>2, TailFacts
    <3> QED
      BY <3>1, <2>2, TailFacts, Zenon DEF Range
  <2> QED
    BY Zenon, <1>1, <2>1, <2>2
<1>3. Range(Tail(s)) \subseteq Range(s)
  BY TailFacts DEF Range
<1>4. Head(s) \in Range(s)
  BY Zenon, TailFacts DEF Range
<1>5. Range(s) = Range(Tail(s)) \cup {Head(s)}
  BY <1>2, <1>3, <1>4, TailFacts DEF Range
<1>6. ASSUME Distinct(s) PROVE Distinct(Tail(s)) /\ Head(s) \notin Range(Tail(s))
  BY <1>6, TailFacts DEF Distinct, Range
<1> QED
  BY Zenon, <1>3, <1>4, <1>5, <1>6

\* ... Enqueue and PostReceive add one at the end ...
LEMMA AppendSet ==
  ASSUME NEW S, NEW s \in Seq(S), NEW x \in S
  PROVE  /\ Range(Append(s, x)) = Range(s) \cup {x}
         /\ Distinct(s) /\ x \notin Range(s) => Distinct(Append(s, x))
<1>1. Range(Append(s, x)) = Range(s) \cup {x}
  BY AppendFacts DEF Range
<1>2. ASSUME Distinct(s), x \notin Range(s) PROVE Distinct(Append(s, x))
  BY <1>2, AppendFacts DEF Distinct, Range
<1> QED
  BY Zenon, <1>1, <1>2

\* What is in a sequence at most once stays so.
Once(c, s) == \A i, j \in DOMAIN s : s[i] = c /\ s[j] = c => i = j

\* What occurs at most once still does when something that is not there is
\* appended ...
LEMMA OnceInAppend ==
  ASSUME NEW S, NEW s \in Seq(S), NEW x \in S, x \notin Range(s), NEW c, Once(c, s)
  PROVE  Once(c, Append(s, x))
  BY AppendFacts DEF Once, Range

\* ... or the head is taken away.
LEMMA OnceInTail ==
  ASSUME NEW S, NEW s \in Seq(S), s # <<>>, NEW c, Once(c, s)
  PROVE  /\ Once(c, Tail(s))
         /\ c = Head(s) => c \notin Range(Tail(s))
  BY TailFacts DEF Once, Range

\* ... and Free adds one in front.
LEMMA ConsSet ==
  ASSUME NEW S, NEW s \in Seq(S), NEW x \in S
  PROVE  /\ Range(<<x>> \o s) = Range(s) \cup {x}
         /\ Distinct(s) /\ x \notin Range(s) => Distinct(<<x>> \o s)
<1>0. \A i \in 1..(Len(s) + 1) : i = 1 \/ (i - 1 \in 1..Len(s) /\ (<<x>> \o s)[i] = s[i - 1])
  BY ConsFacts
<1>1. Range(<<x>> \o s) = Range(s) \cup {x}
  <2>1. Range(<<x>> \o s) \subseteq Range(s) \cup {x}
    BY ConsFacts, <1>0 DEF Range
  <2>2. ASSUME NEW i \in 1..Len(s) PROVE s[i] \in Range(<<x>> \o s)
    <3>1. i + 1 \in DOMAIN (<<x>> \o s) /\ (<<x>> \o s)[i + 1] = s[i]
      BY ConsFacts
    <3> QED
      BY <3>1, InSet, Zenon
  <2>3. x \in Range(<<x>> \o s)
    BY ConsFacts DEF Range
  <2> QED
    BY <2>1, <2>2, <2>3, ConsFacts DEF Range
<1>2. ASSUME Distinct(s), x \notin Range(s) PROVE Distinct(<<x>> \o s)
  BY <1>2, <1>0, ConsFacts DEF Distinct, Range
<1> QED
  BY Zenon, <1>1, <1>2

----------------------------------------------------------------------------
(* Types.                                                                  *)

\* nullptr is no buffer.
LEMMA NullIsNone == 0 \notin Buffers
  BY ServerAssumption DEF Buffers

\* Types hold at the start ...
LEMMA InitType == Init => TypeOK
<1> SUFFICES ASSUME Init PROVE TypeOK
  BY Zenon
<1>1. free \in Seq(Buffers)
  BY ServerAssumption DEF Init, Buffers
<1>2. root \in BufferOrNull /\ next \in [Buffers -> BufferOrNull]
  BY ServerAssumption DEF Init, Buffers, BufferOrNull
<1>3. to \in Workers /\ (CHOOSE w \in Workers : TRUE) \in Workers
      /\ (CHOOSE c \in Clients : TRUE) \in Clients
  BY Zenon, ServerAssumption DEF Init
<1>4. peer \in [Buffers -> Clients] /\ target \in [Buffers -> Workers]
  BY Zenon, <1>3 DEF Init
<1>5. mtx \in [Workers -> BOOLEAN]
  BY Zenon DEF Init
<1> QED
  BY <1>1, <1>2, <1>3, <1>4, <1>5, ServerAssumption DEF Init, TypeOK, BufferOrNull

\* ... a buffer from the pool is a buffer ...
LEMMA PostFreeType ==
  ASSUME TypeOK, LinksAreLists, PostFree
  PROVE  posted' \in Seq(Buffers) /\ root' \in BufferOrNull /\ free' \in Seq(Buffers)
         /\ free # <<>> /\ root = Head(free) /\ root \in Buffers
<1>1. free # <<>> /\ root = Head(free)
  BY Zenon DEF LinksAreLists, PostFree
<1>2. root \in Buffers
  BY Zenon DEF TypeOK, PostFree, BufferOrNull
<1> QED
  BY <1>1, <1>2, TailFacts DEF TypeOK, PostFree

\* ... every step of Server::Poll keeps them ...
LEMMA PollerType ==
  ASSUME TypeOK, HoldsWhileBusy, LinksAreLists, Poll
  PROVE  TypeOK'
<1>1. CASE Fill
  BY Zenon, <1>1, PostFreeType DEF Fill, TypeOK, workers, queues, requests, sends, clients
<1>2. CASE Receive
  <2>1. /\ Head(rcq) \in [buf : Buffers, from : Clients]
        /\ Tail(rcq) \in Seq([buf : Buffers, from : Clients])
    BY <1>2, TailFacts, Zenon DEF Receive, TypeOK
  <2> QED
    BY Zenon, <2>1, <1>2 DEF Receive, TypeOK, workers, queues, pool, sends, clients, BufferOrNull
<1>3. CASE ReceiveNothing
  BY Zenon, <1>3 DEF ReceiveNothing, TypeOK, workers, queues, pool, requests, receives, sends, clients
<1>4. CASE EnqueueLocked
  <2>1. work \in Buffers
    BY Zenon, <1>4 DEF EnqueueLocked, TypeOK, HoldsWhileBusy, BufferOrNull
  <2>2. mtx' \in [Workers -> BOOLEAN]
    BY <1>4, Zenon DEF EnqueueLocked, TypeOK
  <2>3. queued' \in [Workers -> Seq(Buffers)]
    BY <1>4, <2>1 DEF EnqueueLocked, Enqueue, TypeOK
  <2>4. /\ head' \in [Workers -> BufferOrNull] /\ tail' \in [Workers -> BufferOrNull]
        /\ next' \in [Buffers -> BufferOrNull]
    BY <1>4, <2>1, Zenon DEF EnqueueLocked, Enqueue, TypeOK, BufferOrNull
  <2> QED
    BY <1>4, <2>1, <2>2, <2>3, <2>4, Zenon
    DEF EnqueueLocked, TypeOK, workers, requests, receives, sends, clients, BufferOrNull
<1>5. CASE Notify
  BY Zenon, <1>5 DEF Notify, TypeOK, pool, requests, receives, sends, clients
<1>6. CASE Reap
  BY <1>6 DEF Reap, TypeOK, workers, queues, pool, requests, receives, clients
<1>7. CASE Refill
  BY Zenon, <1>7, PostFreeType DEF Refill, TypeOK, workers, queues, requests, sends, clients
<1> QED
  BY Zenon, <1>1, <1>2, <1>3, <1>4, <1>5, <1>6, <1>7 DEF Poll

\* What a worker finds at the head of its queue.
LEMMA HeadFacts ==
  ASSUME TypeOK, LinksAreLists, NEW w \in Workers, head[w] # 0
  PROVE  /\ queued[w] \in Seq(Buffers) /\ queued[w] # <<>>
         /\ head[w] = Head(queued[w]) /\ head[w] \in Buffers
         /\ Tail(queued[w]) \in Seq(Buffers)
<1>1. queued[w] \in Seq(Buffers) /\ queued[w] # <<>> /\ head[w] = Head(queued[w])
  BY Zenon DEF TypeOK, LinksAreLists
<1> QED
  BY <1>1, TailFacts

\* ... WorkQueue::Dequeue does ...
LEMMA TakeType ==
  ASSUME TypeOK, LinksAreLists, NEW w \in Workers, head[w] # 0, Dequeue(w)
  PROVE  /\ mine' \in [Workers -> BufferOrNull] /\ head' \in [Workers -> BufferOrNull]
         /\ tail' \in [Workers -> BufferOrNull] /\ queued' \in [Workers -> Seq(Buffers)]
<1>1. queued' \in [Workers -> Seq(Buffers)]
  BY Zenon, HeadFacts DEF Dequeue, TypeOK
<1>2. next[head[w]] \in BufferOrNull
  BY Zenon, HeadFacts DEF TypeOK
<1> QED
  BY <1>1, <1>2, Zenon DEF Dequeue, TypeOK, BufferOrNull

\* ... every step of Worker::Serve does ...
LEMMA WorkerType ==
  ASSUME TypeOK, HoldsWhileBusy, LinksAreLists,
         NEW w \in Workers, Serve(w) \/ SpuriousWakeup(w)
  PROVE  TypeOK'
<1>1. CASE SpinTake(w)
  BY Zenon, <1>1, TakeType DEF SpinTake, TypeOK, poller, pool, requests, receives, sends, clients
<1>2. CASE CheckTake(w)
  BY Zenon, <1>2, TakeType DEF CheckTake, TypeOK, poller, pool, requests, receives, sends, clients
<1>3. CASE SpinEnd(w)
  BY Zenon, <1>3 DEF SpinEnd, TypeOK, poller, queues, pool, requests, receives, sends, clients
<1>4. CASE CheckEmpty(w)
  <2>1. mtx' \in [Workers -> BOOLEAN]
    BY <1>4, Zenon DEF CheckEmpty, TypeOK
  <2> QED
    BY Zenon, <1>4, <2>1 DEF CheckEmpty, TypeOK, poller, pool, requests, receives, sends, clients
<1>5. CASE Block(w)
  <2>1. mtx' \in [Workers -> BOOLEAN]
    BY <1>5, Zenon DEF Block, TypeOK
  <2> QED
    BY Zenon, <1>5, <2>1 DEF Block, TypeOK, poller, pool, requests, receives, sends, clients
<1>6. CASE SpuriousWakeup(w)
  BY Zenon, <1>6 DEF SpuriousWakeup, TypeOK, poller, queues, pool, requests, receives, sends, clients
<1>7. CASE AllocSend(w)
  <2>1. sendFree' \in Nat
    BY <1>7 DEF AllocSend, TypeOK
  <2>2. wpc' \in [Workers -> {"spin", "check", "block", "asleep", "alloc", "reply", "free", "abort"}]
    BY <1>7, Zenon DEF AllocSend, TypeOK
  <2> QED
    BY Zenon, <1>7, <2>1, <2>2 DEF AllocSend, TypeOK, poller, queues, pool, requests, receives, clients
<1>8. CASE Reply(w)
  <2>1. mine[w] \in Buffers /\ peer[mine[w]] \in Clients
    BY Zenon, <1>8 DEF Reply, TypeOK, HoldsWhileBusy, BufferOrNull
  <2> QED
    BY <1>8, <2>1 DEF Reply, TypeOK, poller, queues, pool, requests, receives, clients
<1>9. CASE FreeWork(w)
  <2>1. mine[w] \in Buffers
    BY Zenon, <1>9 DEF FreeWork, TypeOK, HoldsWhileBusy, BufferOrNull
  <2>2. free' \in Seq(Buffers)
    BY Zenon, <1>9, <2>1, ConsFacts DEF FreeWork, Free, TypeOK
  <2>3. next' \in [Buffers -> BufferOrNull] /\ root' \in BufferOrNull
    BY Zenon, <1>9, <2>1 DEF FreeWork, Free, TypeOK, BufferOrNull
  <2> QED
    BY Zenon, <1>9, <2>2, <2>3
    DEF FreeWork, TypeOK, poller, queues, requests, receives, sends, clients, BufferOrNull
<1> QED
  BY Zenon, <1>1, <1>2, <1>3, <1>4, <1>5, <1>6, <1>7, <1>8, <1>9 DEF Serve

ClientStep ==
  \/ \E c \in Clients : AskDropped(c) \/ AskLost(c) \/ \E w \in Workers : Ask(c, w)
  \/ Answer \/ AnswerLost

\* ... and so do the clients and the fabric.
LEMMA ClientType == ASSUME TypeOK, ClientStep PROVE TypeOK'
<1>1. ASSUME NEW c \in Clients, NEW w \in Workers, Ask(c, w) PROVE TypeOK'
  <2>1. Head(posted) \in Buffers /\ Tail(posted) \in Seq(Buffers)
    BY Zenon, <1>1, TailFacts DEF Ask, TypeOK
  <2>2. rcq' \in Seq([buf : Buffers, from : Clients])
    BY Zenon, <1>1, <2>1, AppendFacts DEF Ask, TypeOK
  <2> QED
    BY Zenon, <1>1, <2>1, <2>2 DEF Ask, TypeOK, poller, workers, queues, pool, sends
<1>2. ASSUME NEW c \in Clients, AskDropped(c) PROVE TypeOK'
  BY Zenon, <1>2 DEF AskDropped, TypeOK, poller, workers, queues, pool, requests, receives, sends
<1>3. ASSUME NEW c \in Clients, AskLost(c) PROVE TypeOK'
  BY Zenon, <1>3 DEF AskLost, TypeOK, poller, workers, queues, pool, requests, receives, sends
<1>4. CASE Answer
  <2>1. Tail(sq) \in Seq(Clients)
    BY Zenon, <1>4, TailFacts DEF Answer, TypeOK
  <2> QED
    BY <1>4, <2>1 DEF Answer, TypeOK, poller, workers, queues, pool, requests, receives
<1>5. CASE AnswerLost
  <2>1. Tail(sq) \in Seq(Clients) /\ Head(sq) \in Clients
    BY Zenon, <1>5, TailFacts DEF AnswerLost, TypeOK
  <2> QED
    BY <1>5, <2>1 DEF AnswerLost, TypeOK, poller, workers, queues, pool, requests, receives
<1> QED
  BY Zenon, <1>1, <1>2, <1>3, <1>4, <1>5 DEF ClientStep

----------------------------------------------------------------------------

(* Who holds which buffer.                                                 *)

OnePlace(H) == \A b \in Buffers : \E pl \in Places : \A x \in Places : b \in H[x] <=> x = pl

\* A buffer that goes from one place to another is in one place again.
LEMMA Move ==
  ASSUME NEW H, NEW H2, OnePlace(H), NEW b, NEW x \in Places, NEW y \in Places, x # y,
         b \in H[x], H2[x] = H[x] \ {b}, H2[y] = H[y] \cup {b},
         \A pl \in Places : pl = x \/ pl = y \/ H2[pl] = H[pl]
  PROVE  OnePlace(H2)
<1> SUFFICES ASSUME NEW d \in Buffers
             PROVE  \E pl \in Places : \A z \in Places : d \in H2[z] <=> z = pl
  BY Zenon DEF OnePlace
<1>1. PICK pl \in Places : \A z \in Places : d \in H[z] <=> z = pl
  BY Zenon DEF OnePlace
<1>2. CASE d = b
  <2>1. pl = x
    BY Zenon, <1>1, <1>2
  <2>2. \A z \in Places : d \in H2[z] <=> z = y
    BY Zenon, <1>1, <1>2, <2>1
  <2> QED
    BY Zenon, <2>2
<1>3. CASE d # b
  <2>1. \A z \in Places : d \in H2[z] <=> z = pl
    BY Zenon, <1>1, <1>3
  <2> QED
    BY Zenon, <2>1
<1> QED
  BY Zenon, <1>2, <1>3

PoolPl == <<"pool">>
PostedPl == <<"posted">>
CompletedPl == <<"completed">>
PollerPl == <<"poller">>
QueuePl(w) == <<"queue", w>>
ServingPl(w) == <<"serving", w>>

\* Places are told apart by their names.
LEMMA PlaceNames ==
  /\ \A pl \in Places : \/ pl = PoolPl \/ pl = PostedPl
                        \/ pl = CompletedPl \/ pl = PollerPl
                        \/ \E w \in Workers : pl = QueuePl(w) \/ pl = ServingPl(w)
  /\ PoolPl \in Places /\ PostedPl \in Places /\ CompletedPl \in Places
  /\ PollerPl \in Places
  /\ \A w \in Workers : QueuePl(w) \in Places /\ ServingPl(w) \in Places
  /\ PoolPl # PostedPl /\ PostedPl # CompletedPl /\ CompletedPl # PollerPl
  /\ \A w \in Workers : /\ PoolPl # QueuePl(w) /\ PoolPl # ServingPl(w)
                        /\ CompletedPl # QueuePl(w) /\ CompletedPl # ServingPl(w)
                        /\ PollerPl # QueuePl(w) /\ PollerPl # ServingPl(w)
  /\ \A v, w \in Workers : /\ QueuePl(v) # ServingPl(w)
                           /\ v # w => QueuePl(v) # QueuePl(w) /\ ServingPl(v) # ServingPl(w)
  BY DEF Places, PoolPl, PostedPl, CompletedPl, PollerPl, QueuePl, ServingPl

\* The buffers of a completion queue.
Bufs(r) == {r[i].buf : i \in DOMAIN r}
DistinctBufs(r) == Distinct([i \in DOMAIN r |-> r[i].buf])

HeldIs ==
  /\ Held[PoolPl] = Range(free) /\ Held[PostedPl] = Range(posted)
  /\ Held[CompletedPl] = Bufs(rcq)
  /\ Held[PollerPl] = {work} \ {0}
  /\ \A w \in Workers : /\ Held[QueuePl(w)] = Range(queued[w])
                        /\ Held[ServingPl(w)] = {mine[w]} \ {0}

\* What each place holds ...
LEMMA HeldFacts == HeldIs
  BY Zenon, PlaceNames DEF Held, HeldIs, Bufs, PoolPl, PostedPl, CompletedPl, PollerPl, QueuePl, ServingPl

\* ... also after a step.
LEMMA HeldFactsNext == HeldIs'
  BY HeldFacts, PTL

\* The places a step does not name keep their buffers.
LEMMA Elsewhere ==
  ASSUME NEW x, NEW y,
         x = PoolPl \/ y = PoolPl \/ free' = free,
         x = PostedPl \/ y = PostedPl \/ posted' = posted,
         x = CompletedPl \/ y = CompletedPl \/ rcq' = rcq,
         x = PollerPl \/ y = PollerPl \/ work' = work,
         \A w \in Workers : x = QueuePl(w) \/ y = QueuePl(w) \/ queued'[w] = queued[w],
         \A w \in Workers : x = ServingPl(w) \/ y = ServingPl(w) \/ mine'[w] = mine[w]
  PROVE  \A pl \in Places : pl = x \/ pl = y \/ Held'[pl] = Held[pl]
<1> SUFFICES ASSUME NEW pl \in Places, pl # x, pl # y PROVE Held'[pl] = Held[pl]
  BY Zenon
<1>1. HeldIs /\ HeldIs'
  BY Zenon, HeldFacts, HeldFactsNext
<1>2. CASE pl = PoolPl
  <2>1. free' = free
    BY Zenon, <1>2
  <2> QED
    BY Zenon, <1>1, <1>2, <2>1 DEF HeldIs
<1>3. CASE pl = PostedPl
  <2>1. posted' = posted
    BY Zenon, <1>3
  <2> QED
    BY Zenon, <1>1, <1>3, <2>1 DEF HeldIs
<1>4. CASE pl = CompletedPl
  <2>1. rcq' = rcq
    BY Zenon, <1>4
  <2> QED
    BY Zenon, <1>1, <1>4, <2>1 DEF HeldIs
<1>5. CASE pl = PollerPl
  <2>1. work' = work
    BY Zenon, <1>5
  <2> QED
    BY <1>1, <1>5, <2>1, Zenon DEF HeldIs
<1>6. ASSUME NEW w \in Workers, pl = QueuePl(w) PROVE Held'[pl] = Held[pl]
  <2>1. queued'[w] = queued[w]
    BY Zenon, <1>6
  <2> QED
    BY Zenon, <1>1, <1>6, <2>1 DEF HeldIs
<1>7. ASSUME NEW w \in Workers, pl = ServingPl(w) PROVE Held'[pl] = Held[pl]
  <2>1. mine'[w] = mine[w]
    BY Zenon, <1>7
  <2> QED
    BY <1>1, <1>7, <2>1, Zenon DEF HeldIs
<1> QED
  BY Zenon, <1>2, <1>3, <1>4, <1>5, <1>6, <1>7, PlaceNames

\* No two places share a buffer.
LEMMA Apart ==
  ASSUME BufferInOnePlace, NEW x \in Places, NEW y \in Places, NEW b \in Buffers,
         b \in Held[x], b \in Held[y]
  PROVE  x = y
  BY Zenon DEF BufferInOnePlace

\* The next buffer of the pool.
LEMMA RootFacts ==
  ASSUME TypeOK, LinksAreLists, root # 0
  PROVE  free # <<>> /\ root = Head(free) /\ root \in Buffers
  BY Zenon, TailFacts DEF TypeOK, LinksAreLists

\* Alloc and PostReceive: from the pool to the receive queue.
LEMMA PostFreePlace ==
  ASSUME TypeOK, LinksAreLists, BufferInOnePlace, PostFree, UNCHANGED <<work, mine, queued, rcq>>
  PROVE  BufferInOnePlace'
<1> DEFINE b == Head(free)
<1>1. /\ b \in Buffers /\ free # <<>> /\ free' = Tail(free) /\ posted' = Append(posted, b)
      /\ free \in Seq(Buffers) /\ posted \in Seq(Buffers)
  BY Zenon, RootFacts DEF PostFree, TypeOK
<1>2. Distinct(free') /\ Range(free') = Range(free) \ {b} /\ b \in Range(free)
  BY Zenon, <1>1, TailSet DEF BufferInOnePlace
<1>3. b \notin Range(posted)
  BY <1>1, <1>2, HeldFacts, PlaceNames, Apart DEF HeldIs
<1>4. Distinct(posted') /\ Range(posted') = Range(posted) \cup {b}
  BY <1>1, <1>3, AppendSet DEF BufferInOnePlace
<1>5. OnePlace(Held')
  <2>1. /\ b \in Held[PoolPl] /\ Held'[PoolPl] = Held[PoolPl] \ {b}
        /\ Held'[PostedPl] = Held[PostedPl] \cup {b}
    BY Zenon, <1>2, <1>4, HeldFacts, HeldFactsNext DEF HeldIs
  <2>2. \A pl \in Places : pl = PoolPl \/ pl = PostedPl \/ Held'[pl] = Held[pl]
    BY Zenon, Elsewhere
  <2>3. OnePlace(Held)
    BY Zenon DEF BufferInOnePlace, OnePlace
  <2> QED
    BY <2>1, <2>2, <2>3, PlaceNames, Move
<1> QED
  BY Zenon, <1>2, <1>4, <1>5 DEF BufferInOnePlace, OnePlace

\* A completion that is polled leaves the others ...
LEMMA TailBufs ==
  ASSUME NEW r \in Seq([buf : Buffers, from : Clients]), r # <<>>, DistinctBufs(r)
  PROVE  /\ Head(r) \in [buf : Buffers, from : Clients] /\ Head(r).buf \in Bufs(r)
         /\ Bufs(Tail(r)) = Bufs(r) \ {Head(r).buf} /\ DistinctBufs(Tail(r))
<1> DEFINE d == Head(r).buf
           M == [buf : Buffers, from : Clients]
<1>0. r \in Seq(M)
  BY Zenon
<1> HIDE DEF M
<1>1. Head(r) \in M /\ d = r[1].buf /\ 1 \in DOMAIN r
  BY Zenon, <1>0, TailFacts
<1>2. \A i, j \in DOMAIN r : r[i].buf = r[j].buf => i = j
  BY Zenon DEF DistinctBufs, Distinct
<1>3. \A i \in DOMAIN Tail(r) : i + 1 \in DOMAIN r /\ Tail(r)[i] = r[i + 1] /\ i + 1 # 1
  BY <1>0, TailFacts
<1>4. \A i \in DOMAIN r : i = 1 \/ \E j \in DOMAIN Tail(r) : Tail(r)[j] = r[i]
  <2> TAKE i \in DOMAIN r
  <2>1. CASE i # 1
    <3>1. i - 1 \in DOMAIN Tail(r) /\ Tail(r)[i - 1] = r[i]
      BY <2>1, <1>0, TailFacts
    <3> QED
      BY Zenon, <3>1
  <2> QED
    BY Zenon, <2>1
<1>5. DistinctBufs(Tail(r))
  <2>1. \A i, j \in DOMAIN Tail(r) : Tail(r)[i].buf = Tail(r)[j].buf => i = j
    BY <1>0, <1>2, <1>3, TailFacts
  <2> QED
    BY Zenon, <2>1 DEF DistinctBufs, Distinct
<1>6. Bufs(Tail(r)) \subseteq Bufs(r) \ {d}
  BY <1>1, <1>2, <1>3 DEF Bufs
<1>7. Bufs(r) \ {d} \subseteq Bufs(Tail(r))
  BY <1>1, <1>4, Zenon DEF Bufs
<1>8. d \in Bufs(r)
  BY <1>1, Zenon DEF Bufs
<1> QED
  BY Zenon, <1>1, <1>5, <1>6, <1>7, <1>8 DEF M

\* ... and one that is added is there with them.
LEMMA AppendBufs ==
  ASSUME NEW r \in Seq([buf : Buffers, from : Clients]), DistinctBufs(r),
         NEW m \in [buf : Buffers, from : Clients], m.buf \notin Bufs(r)
  PROVE  Bufs(Append(r, m)) = Bufs(r) \cup {m.buf} /\ DistinctBufs(Append(r, m))
<1>1. \A i, j \in DOMAIN r : r[i].buf = r[j].buf => i = j
  BY Zenon DEF DistinctBufs, Distinct
<1>2. \A i, j \in DOMAIN Append(r, m) : Append(r, m)[i].buf = Append(r, m)[j].buf => i = j
  BY <1>1, AppendFacts DEF Bufs
<1>3. Bufs(Append(r, m)) = Bufs(r) \cup {m.buf}
  BY AppendFacts DEF Bufs
<1> QED
  BY Zenon, <1>2, <1>3 DEF DistinctBufs, Distinct

\* TryReceive: from the completion queue to the poller.
LEMMA ReceivePlace ==
  ASSUME TypeOK, HoldsWhileBusy, BufferInOnePlace, Receive
  PROVE  BufferInOnePlace'
<1> DEFINE b == Head(rcq).buf
<1>1. /\ rcq # <<>> /\ rcq' = Tail(rcq) /\ work' = b /\ work = 0
      /\ UNCHANGED <<free, posted, queued, mine>>
  BY Zenon DEF Receive, HoldsWhileBusy, workers, queues, pool
<1>2. /\ b \in Buffers /\ b \in Bufs(rcq) /\ Bufs(rcq') = Bufs(rcq) \ {b} /\ DistinctBufs(rcq')
  BY <1>1, TailBufs, Zenon DEF TypeOK, BufferInOnePlace, DistinctBufs
<1>3. b # 0
  BY <1>2, ServerAssumption DEF Buffers
<1>4. OnePlace(Held')
  <2>1. /\ b \in Held[CompletedPl] /\ Held'[CompletedPl] = Held[CompletedPl] \ {b}
    BY Zenon, <1>1, <1>2, HeldFacts, HeldFactsNext DEF HeldIs
  <2>2. Held'[PollerPl] = Held[PollerPl] \cup {b}
    BY Zenon, <1>1, <1>3, HeldFacts, HeldFactsNext DEF HeldIs
  <2>3. \A pl \in Places : pl = CompletedPl \/ pl = PollerPl \/ Held'[pl] = Held[pl]
    BY Zenon, <1>1, Elsewhere
  <2>4. OnePlace(Held)
    BY Zenon DEF BufferInOnePlace, OnePlace
  <2> QED
    BY <2>1, <2>2, <2>3, <2>4, PlaceNames, Move
<1> QED
  BY <1>1, <1>2, <1>4, Zenon DEF BufferInOnePlace, OnePlace, DistinctBufs

\* Worker::Enqueue: from the poller to the work queue of a worker.
LEMMA EnqueuePlace ==
  ASSUME TypeOK, HoldsWhileBusy, BufferInOnePlace, EnqueueLocked
  PROVE  BufferInOnePlace'
<1>1. /\ to \in Workers /\ work \in Buffers /\ work # 0 /\ work' = 0
      /\ queued' = [queued EXCEPT ![to] = Append(@, work)]
      /\ UNCHANGED <<free, posted, rcq, mine>>
  BY Zenon DEF EnqueueLocked, Enqueue, HoldsWhileBusy, TypeOK, BufferOrNull, workers, receives
<1>2. queued[to] \in Seq(Buffers) /\ queued'[to] = Append(queued[to], work)
  BY Zenon, <1>1 DEF TypeOK
<1>3. \A w \in Workers : w = to \/ queued'[w] = queued[w]
  BY Zenon, <1>1 DEF TypeOK
<1>4. work \notin Range(queued[to])
  <2>1. work \in Held[PollerPl] /\ Range(queued[to]) = Held[QueuePl(to)]
    BY Zenon, <1>1, HeldFacts DEF HeldIs
  <2> QED
    BY Zenon, <1>1, <2>1, Apart, PlaceNames
<1>5. Range(queued'[to]) = Range(queued[to]) \cup {work} /\ Distinct(queued'[to])
  BY <1>1, <1>2, <1>4, AppendSet DEF BufferInOnePlace
<1>6. OnePlace(Held')
  <2>1. /\ work \in Held[PollerPl] /\ Held'[PollerPl] = Held[PollerPl] \ {work}
        /\ Held'[QueuePl(to)] = Held[QueuePl(to)] \cup {work}
    BY Zenon, <1>1, <1>5, HeldFacts, HeldFactsNext DEF HeldIs
  <2>2. \A pl \in Places : pl = PollerPl \/ pl = QueuePl(to) \/ Held'[pl] = Held[pl]
    <3>1. \A w \in Workers : QueuePl(to) = QueuePl(w) \/ queued'[w] = queued[w]
      BY <1>3, Zenon
    <3>2. free' = free /\ posted' = posted /\ rcq' = rcq /\ mine' = mine
      BY Zenon, <1>1
    <3> QED
      BY Zenon, <3>1, <3>2, Elsewhere
  <2>3. OnePlace(Held)
    BY Zenon DEF BufferInOnePlace, OnePlace
  <2> QED
    BY <1>1, <2>1, <2>2, <2>3, PlaceNames, Move
<1>7. \A w \in Workers : Distinct(queued'[w])
  BY Zenon, <1>3, <1>5 DEF BufferInOnePlace
<1> QED
  BY Zenon, <1>1, <1>6, <1>7 DEF BufferInOnePlace, OnePlace

\* WorkQueue::Dequeue: from the work queue to the worker.
LEMMA TakePlace ==
  ASSUME TypeOK, HoldsWhileBusy, LinksAreLists, BufferInOnePlace, NEW w \in Workers,
         head[w] # 0, mine[w] = 0, Dequeue(w), UNCHANGED <<free, posted, rcq, work>>
  PROVE  BufferInOnePlace'
<1> DEFINE b == Head(queued[w])
<1>1. /\ b \in Buffers /\ b # 0 /\ queued[w] \in Seq(Buffers) /\ queued[w] # <<>>
      /\ queued'[w] = Tail(queued[w]) /\ mine'[w] = b
      /\ \A v \in Workers : v = w \/ (queued'[v] = queued[v] /\ mine'[v] = mine[v])
  BY Zenon, HeadFacts DEF Dequeue, TypeOK
<1>2. /\ b \in Range(queued[w]) /\ Range(queued'[w]) = Range(queued[w]) \ {b}
      /\ Distinct(queued'[w])
  BY <1>1, TailSet DEF BufferInOnePlace
<1>3. OnePlace(Held')
  <2>1. /\ b \in Held[QueuePl(w)] /\ Held'[QueuePl(w)] = Held[QueuePl(w)] \ {b}
        /\ Held'[ServingPl(w)] = Held[ServingPl(w)] \cup {b}
    BY <1>1, <1>2, HeldFacts, HeldFactsNext, Zenon DEF HeldIs
  <2>2. \A pl \in Places : pl = QueuePl(w) \/ pl = ServingPl(w) \/ Held'[pl] = Held[pl]
    <3>1. \A v \in Workers : /\ QueuePl(w) = QueuePl(v) \/ queued'[v] = queued[v]
                             /\ ServingPl(w) = ServingPl(v) \/ mine'[v] = mine[v]
      BY <1>1, Zenon
    <3>2. free' = free /\ posted' = posted /\ rcq' = rcq /\ work' = work
      BY Zenon
    <3> QED
      BY <3>1, <3>2, Elsewhere
  <2>3. OnePlace(Held)
    BY Zenon DEF BufferInOnePlace, OnePlace
  <2> QED
    BY <2>1, <2>2, <2>3, PlaceNames, Move
<1>4. \A v \in Workers : Distinct(queued'[v])
  BY Zenon, <1>1, <1>2 DEF BufferInOnePlace
<1> QED
  BY Zenon, <1>3, <1>4 DEF BufferInOnePlace, OnePlace

\* RegisteredBuffers::Free: from the worker to the pool.
LEMMA FreePlace ==
  ASSUME TypeOK, HoldsWhileBusy, BufferInOnePlace, NEW w \in Workers, FreeWork(w)
  PROVE  BufferInOnePlace'
<1> DEFINE b == mine[w]
<1>1. /\ b \in Buffers /\ b # 0 /\ free \in Seq(Buffers) /\ free' = <<b>> \o free
      /\ mine'[w] = 0 /\ \A v \in Workers : v = w \/ mine'[v] = mine[v]
      /\ UNCHANGED <<posted, rcq, work, queued>>
  BY Zenon DEF FreeWork, Free, TypeOK, HoldsWhileBusy, BufferOrNull, poller, queues, receives
<1>2. b \in Held[ServingPl(w)]
  BY <1>1, HeldFacts DEF HeldIs
<1>3. b \notin Range(free)
  BY <1>1, <1>2, HeldFacts, Apart, PlaceNames DEF HeldIs
<1>4. Range(free') = Range(free) \cup {b} /\ Distinct(free')
  BY <1>1, <1>3, ConsSet DEF BufferInOnePlace
<1>5. OnePlace(Held')
  <2>1. /\ Held'[ServingPl(w)] = Held[ServingPl(w)] \ {b}
        /\ Held'[PoolPl] = Held[PoolPl] \cup {b}
    BY Zenon, <1>1, <1>4, HeldFacts, HeldFactsNext DEF HeldIs
  <2>2. \A pl \in Places : pl = ServingPl(w) \/ pl = PoolPl \/ Held'[pl] = Held[pl]
    <3>1. \A v \in Workers : ServingPl(w) = ServingPl(v) \/ mine'[v] = mine[v]
      BY <1>1, Zenon
    <3>2. posted' = posted /\ rcq' = rcq /\ work' = work /\ queued' = queued
      BY Zenon, <1>1
    <3> QED
      BY Zenon, <3>1, <3>2, Elsewhere
  <2>3. OnePlace(Held)
    BY Zenon DEF BufferInOnePlace, OnePlace
  <2> QED
    BY <1>2, <2>1, <2>2, <2>3, PlaceNames, Move
<1> QED
  BY Zenon, <1>1, <1>4, <1>5 DEF BufferInOnePlace, OnePlace

\* A request arrives: from the receive queue to the completion queue.
LEMMA AskPlace ==
  ASSUME TypeOK, BufferInOnePlace, NEW c \in Clients, NEW w \in Workers, Ask(c, w)
  PROVE  BufferInOnePlace'
<1> DEFINE b == Head(posted)
           m == [buf |-> b, from |-> c]
<1>1. /\ posted \in Seq(Buffers) /\ posted # <<>> /\ posted' = Tail(posted)
      /\ rcq \in Seq([buf : Buffers, from : Clients]) /\ rcq' = Append(rcq, m)
      /\ UNCHANGED <<free, work, queued, mine>>
  BY Zenon DEF Ask, TypeOK, poller, workers, queues, pool
<1>2. /\ b \in Buffers /\ b \in Range(posted) /\ Range(posted') = Range(posted) \ {b}
      /\ Distinct(posted')
  BY Zenon, <1>1, TailSet, TailFacts DEF BufferInOnePlace
<1>3. b \notin Bufs(rcq)
  BY <1>2, HeldFacts, Apart, PlaceNames DEF HeldIs
<1>4. m \in [buf : Buffers, from : Clients] /\ m.buf = b
  BY Zenon, <1>2
<1>5. Bufs(rcq') = Bufs(rcq) \cup {b} /\ DistinctBufs(rcq')
  BY <1>1, <1>3, <1>4, AppendBufs, Zenon DEF BufferInOnePlace, DistinctBufs
<1>6. OnePlace(Held')
  <2>1. /\ b \in Held[PostedPl] /\ Held'[PostedPl] = Held[PostedPl] \ {b}
        /\ Held'[CompletedPl] = Held[CompletedPl] \cup {b}
    BY <1>2, <1>5, HeldFacts, HeldFactsNext, Zenon DEF HeldIs
  <2>2. \A pl \in Places : pl = PostedPl \/ pl = CompletedPl \/ Held'[pl] = Held[pl]
    <3>1. free' = free /\ work' = work /\ queued' = queued /\ mine' = mine
      BY Zenon, <1>1
    <3> QED
      BY Zenon, <3>1, Elsewhere
  <2>3. OnePlace(Held)
    BY Zenon DEF BufferInOnePlace, OnePlace
  <2> QED
    BY <2>1, <2>2, <2>3, PlaceNames, Move
<1> QED
  BY <1>1, <1>2, <1>5, <1>6, Zenon DEF BufferInOnePlace, OnePlace, DistinctBufs

----------------------------------------------------------------------------
(* The lists that Buffer::next links.                                      *)

QueueLinked(w) ==
  /\ head[w] = IF queued[w] = <<>> THEN 0 ELSE Head(queued[w])
  /\ tail[w] = IF queued[w] = <<>> THEN 0 ELSE queued[w][Len(queued[w])]
  /\ \A i \in 1..Len(queued[w]) - 1 : next[queued[w][i]] = queued[w][i + 1]
PoolLinked ==
  /\ root = IF free = <<>> THEN 0 ELSE Head(free)
  /\ \A i \in 1..Len(free) : next[free[i]] = IF i = Len(free) THEN 0 ELSE free[i + 1]

\* LinksAreLists list by list ...
LEMMA Linked == LinksAreLists <=> PoolLinked /\ \A w \in Workers : QueueLinked(w)
  BY Zenon DEF LinksAreLists, PoolLinked, QueueLinked

\* ... also after a step.
LEMMA LinkedNext == LinksAreLists' <=> PoolLinked' /\ \A w \in Workers : QueueLinked(w)'
  BY Zenon DEF LinksAreLists, PoolLinked, QueueLinked

\* A queue, or the pool, keeps its links when next changes for a buffer that is
\* not in it.
LEMMA QueueKept ==
  ASSUME TypeOK, NEW w \in Workers, QueueLinked(w),
         head'[w] = head[w], tail'[w] = tail[w], queued'[w] = queued[w],
         NEW b \in Buffers, b \notin Range(queued[w]),
         \A d \in Buffers : d = b \/ next'[d] = next[d]
  PROVE  QueueLinked(w)'
<1>1. queued[w] \in Seq(Buffers)
  BY Zenon DEF TypeOK
<1>2. \A i \in 1..Len(queued[w]) - 1 : queued[w][i] \in Buffers /\ queued[w][i] # b
  BY <1>1 DEF Range
<1> QED
  BY Zenon, <1>2 DEF QueueLinked

LEMMA PoolKept ==
  ASSUME TypeOK, PoolLinked, root' = root, free' = free,
         NEW b \in Buffers, b \notin Range(free),
         \A d \in Buffers : d = b \/ next'[d] = next[d]
  PROVE  PoolLinked'
<1>1. free \in Seq(Buffers)
  BY Zenon DEF TypeOK
<1>2. \A i \in 1..Len(free) : free[i] \in Buffers /\ free[i] # b
  BY <1>1 DEF Range
<1> QED
  BY Zenon, <1>2 DEF PoolLinked

\* A step that leaves the lists alone keeps the links.
LEMMA SameLinks ==
  ASSUME LinksAreLists, UNCHANGED <<head, tail, queued, next, root, free>>
  PROVE  LinksAreLists'
  BY Zenon DEF LinksAreLists

\* RegisteredBuffers::Alloc follows the link of the first free buffer.
LEMMA PostFreeLinks ==
  ASSUME TypeOK, LinksAreLists, PostFree, UNCHANGED <<head, tail, queued, next>>
  PROVE  LinksAreLists'
<1>1. \A w \in Workers : QueueLinked(w)'
  BY Linked, Zenon DEF QueueLinked
<1>2. /\ free \in Seq(Buffers) /\ free # <<>> /\ root = free[1] /\ free' = Tail(free)
      /\ root' = next[root]
  BY Zenon, RootFacts, TailFacts DEF TypeOK, PostFree
<1>3. /\ Len(free) \in Nat \ {0} /\ Len(free') = Len(free) - 1
      /\ \A i \in 1..(Len(free) - 1) : free'[i] = free[i + 1]
  BY Zenon, <1>2, TailFacts
<1>4. \A i \in 1..Len(free) : next[free[i]] = IF i = Len(free) THEN 0 ELSE free[i + 1]
  BY Zenon DEF LinksAreLists
<1>5. root' = IF free' = <<>> THEN 0 ELSE Head(free')
  <2>1. CASE Len(free) = 1
    BY <1>2, <1>3, <1>4, <2>1
  <2>2. CASE Len(free) # 1
    <3>1. free' # <<>> /\ free' \in Seq(Buffers)
      BY Zenon, <1>2, <2>2, TailFacts, TailTail
    <3>2. Head(free') = free[2]
      BY Zenon, <1>2, <2>2, TailTail
    <3>3. next[free[1]] = free[2]
      BY <1>3, <1>4, <2>2
    <3> QED
      BY Zenon, <1>2, <3>1, <3>2, <3>3
  <2> QED
    BY Zenon, <2>1, <2>2
<1>6. \A i \in 1..Len(free') : next'[free'[i]] = IF i = Len(free') THEN 0 ELSE free'[i + 1]
  BY <1>3, <1>4
<1> QED
  BY Zenon, <1>1, <1>5, <1>6, LinkedNext DEF PoolLinked

\* Dequeue follows the link of the head, unless head_ is tail_: the link of the
\* last buffer, which may lead anywhere, is never followed.
LEMMA TakeLinks ==
  ASSUME TypeOK, LinksAreLists, BufferInOnePlace, NEW w \in Workers, head[w] # 0, Dequeue(w),
         UNCHANGED <<next, root, free>>
  PROVE  LinksAreLists'
<1> DEFINE q == queued[w]
<1>1. PoolLinked'
  BY Zenon, Linked DEF PoolLinked
<1>2. /\ q \in Seq(Buffers) /\ q # <<>> /\ head[w] = q[1] /\ queued'[w] = Tail(q)
      /\ tail[w] = q[Len(q)] /\ Distinct(q)
  BY Zenon, HeadFacts, TailFacts DEF TypeOK, Dequeue, LinksAreLists, BufferInOnePlace
<1>3. /\ Len(q) \in Nat \ {0} /\ Len(Tail(q)) = Len(q) - 1 /\ tail[w] = q[Len(q)]
      /\ \A i \in 1..(Len(q) - 1) : Tail(q)[i] = q[i + 1]
      /\ DOMAIN q = 1..Len(q) /\ Tail(q) \in Seq(Buffers)
  BY <1>2, TailFacts, Zenon
<1>4. \A i \in 1..Len(q) - 1 : next[q[i]] = q[i + 1]
  BY Zenon DEF LinksAreLists
<1>5. head[w] = tail[w] <=> Len(q) = 1
  <2>1. 1 \in DOMAIN q /\ Len(q) \in DOMAIN q
    BY <1>3
  <2> HIDE DEF q
  <2> QED
    BY <1>2, <1>3, <2>1, Zenon DEF Distinct
<1>6. QueueLinked(w)'
  <2>1. CASE Len(q) = 1
    <3>1. Tail(q) = <<>> /\ head'[w] = 0 /\ tail'[w] = 0
      BY Zenon, <1>2, <1>5, <2>1, TailTail DEF Dequeue, TypeOK
    <3> QED
      BY <1>2, <1>3, <2>1, <3>1 DEF QueueLinked
  <2>2. CASE Len(q) # 1
    <3>1. head'[w] = q[2] /\ tail'[w] = tail[w]
      <4>1. head'[w] = next[head[w]] /\ tail'[w] = tail[w]
        BY Zenon, <1>5, <2>2 DEF Dequeue, TypeOK
      <4>2. next[q[1]] = q[2]
        <5>0. \A n \in Nat \ {0} : n # 1 => 1 \in 1..n - 1
          OBVIOUS
        <5>1. 1 \in 1..Len(q) - 1
          BY <1>3, <2>2, <5>0, Zenon
        <5>2. next[q[1]] = q[1 + 1]
          BY <1>4, <5>1, Zenon
        <5> QED
          BY <5>2
      <4> QED
        BY Zenon, <1>2, <4>1, <4>2
    <3>2. Tail(q) # <<>> /\ Head(Tail(q)) = q[2] /\ Tail(q)[Len(Tail(q))] = q[Len(q)]
      BY Zenon, <1>2, <2>2, TailTail
    <3>3. \A i \in 1..Len(Tail(q)) - 1 : next'[Tail(q)[i]] = Tail(q)[i + 1]
      BY <1>3, <1>4
    <3> QED
      BY Zenon, <1>2, <1>3, <3>1, <3>2, <3>3 DEF QueueLinked
  <2> QED
    BY Zenon, <2>1, <2>2
<1>7. ASSUME NEW v \in Workers, v # w PROVE QueueLinked(v)'
  <2>1. queued'[v] = queued[v] /\ head'[v] = head[v] /\ tail'[v] = tail[v]
    BY Zenon, <1>7 DEF Dequeue, TypeOK
  <2> QED
    BY <2>1, Linked DEF QueueLinked
<1> QED
  BY Zenon, <1>1, <1>6, <1>7, LinkedNext

\* Enqueue links the last buffer of the queue to the new one, which is in no
\* other list; so is the last buffer, and no other list is cut.
LEMMA EnqueueLinks ==
  ASSUME TypeOK, HoldsWhileBusy, LinksAreLists, BufferInOnePlace, EnqueueLocked, NEW t, t = to
  PROVE  LinksAreLists'
<1> DEFINE q == queued[t]
<1>1. /\ t \in Workers /\ work \in Buffers /\ Enqueue(t, work) /\ UNCHANGED <<root, free>>
      /\ q \in Seq(Buffers)
  BY Zenon DEF EnqueueLocked, HoldsWhileBusy, TypeOK, BufferOrNull
<1>2. /\ queued'[t] = Append(q, work) /\ tail'[t] = work
      /\ Len(q) \in Nat /\ Len(Append(q, work)) = Len(q) + 1 /\ DOMAIN q = 1..Len(q)
      /\ \A i \in 1..Len(q) : Append(q, work)[i] = q[i]
      /\ Append(q, work)[Len(q) + 1] = work
  BY <1>1, AppendFacts DEF Enqueue, TypeOK
<1>3. \A w \in Workers : w = t \/ (queued'[w] = queued[w] /\ tail'[w] = tail[w])
  BY Zenon, <1>1 DEF Enqueue, TypeOK
<1>4. Append(q, work) # <<>> /\ Append(q, work)[Len(Append(q, work))] = work
  BY <1>1, <1>2
<1>5. CASE head[t] = 0
  <2>1. q = <<>>
    BY <1>1, <1>5, TailFacts, ServerAssumption DEF LinksAreLists, Buffers
  <2>2. next' = next /\ head'[t] = work /\ \A w \in Workers : w = t \/ head'[w] = head[w]
    BY Zenon, <1>1, <1>5 DEF Enqueue, TypeOK
  <2>3. Len(Append(q, work)) = 1 /\ Head(Append(q, work)) = work
    BY <1>1, <2>1
  <2>4. QueueLinked(t)'
    BY <1>2, <1>4, <2>2, <2>3 DEF QueueLinked
  <2>5. ASSUME NEW w \in Workers, w # t PROVE QueueLinked(w)'
    BY <1>3, <2>2, <2>5, Linked DEF QueueLinked
  <2>6. PoolLinked'
    BY Zenon, <1>1, <2>2, Linked DEF PoolLinked
  <2> QED
    BY Zenon, <2>4, <2>5, <2>6, LinkedNext
<1>6. CASE head[t] # 0
  <2>1. q # <<>> /\ Len(q) \in Nat \ {0} /\ tail[t] = q[Len(q)] /\ head[t] = Head(q)
    BY Zenon, <1>1, <1>6, HeadFacts, TailFacts, TailTail DEF LinksAreLists
  <2>2. tail[t] \in Buffers /\ tail[t] \in Range(q)
    BY <1>1, <1>2, <2>1 DEF Range
  <2>3. head' = head /\ next' = [next EXCEPT ![tail[t]] = work]
    BY Zenon, <1>1, <1>6 DEF Enqueue
  <2>4. next'[tail[t]] = work /\ \A d \in Buffers : d = tail[t] \/ next'[d] = next[d]
    BY Zenon, <2>2, <2>3 DEF TypeOK
  <2>5. QueueLinked(t)'
    <3>1. Head(Append(q, work)) = Head(q)
      BY <1>1, <2>1
    <3>2. ASSUME NEW i \in 1..Len(q) PROVE next'[Append(q, work)[i]] = Append(q, work)[i + 1]
      <4>1. CASE i = Len(q)
        BY Zenon, <1>2, <2>1, <2>4, <4>1
      <4>2. CASE i # Len(q)
        <5>1. i \in 1..Len(q) - 1 /\ i + 1 \in 1..Len(q) /\ Len(q) \in DOMAIN q /\ i \in DOMAIN q
          BY <1>2, <2>1, <4>2
        <5>2. q[i] \in Buffers /\ q[i] # tail[t]
          BY <1>1, <2>1, <4>2, <5>1 DEF BufferInOnePlace, Distinct
        <5>3. next[q[i]] = q[i + 1]
          BY Zenon, <1>1, <5>1 DEF LinksAreLists
        <5> QED
          BY Zenon, <1>2, <2>4, <5>1, <5>2, <5>3
      <4> QED
        BY Zenon, <4>1, <4>2
    <3> QED
      BY <1>2, <1>4, <2>1, <2>3, <3>1, <3>2 DEF QueueLinked
  <2>6. ASSUME NEW w \in Workers, w # t PROVE QueueLinked(w)'
    <3>1. tail[t] \notin Range(queued[w])
      BY <1>1, <2>2, <2>6, HeldFacts, PlaceNames, Apart DEF HeldIs
    <3>2. queued'[w] = queued[w] /\ tail'[w] = tail[w] /\ head'[w] = head[w] /\ QueueLinked(w)
      BY Zenon, <1>3, <2>3, <2>6, Linked
    <3> QED
      BY Zenon, <2>2, <2>4, <3>1, <3>2, QueueKept
  <2>7. PoolLinked'
    <3>1. tail[t] \notin Range(free)
      BY <1>1, <2>2, HeldFacts, PlaceNames, Apart DEF HeldIs
    <3> QED
      BY Zenon, <1>1, <2>2, <2>4, <3>1, Linked, PoolKept
  <2> QED
    BY Zenon, <2>5, <2>6, <2>7, LinkedNext
<1> QED
  BY Zenon, <1>5, <1>6

\* Free links the buffer, which is in no list, to the first one of the pool.
LEMMA FreeLinks ==
  ASSUME TypeOK, HoldsWhileBusy, LinksAreLists, BufferInOnePlace, NEW w \in Workers, FreeWork(w)
  PROVE  LinksAreLists'
<1> DEFINE b == mine[w]
<1>1. /\ b \in Buffers /\ b # 0 /\ free \in Seq(Buffers) /\ free' = <<b>> \o free /\ root' = b
      /\ UNCHANGED <<head, tail, queued>>
  BY Zenon DEF FreeWork, Free, TypeOK, HoldsWhileBusy, BufferOrNull, queues
<1>2. next'[b] = root /\ \A d \in Buffers : d = b \/ next'[d] = next[d]
  BY Zenon, <1>1 DEF FreeWork, Free, TypeOK
<1>3. b \in Held[ServingPl(w)]
  BY Zenon, <1>1, HeldFacts DEF HeldIs
<1>4. ASSUME NEW v \in Workers PROVE QueueLinked(v)'
  <2>1. b \notin Range(queued[v])
    BY <1>1, <1>3, HeldFacts, PlaceNames, Apart DEF HeldIs
  <2> QED
    BY Zenon, <1>1, <1>2, <2>1, Linked, QueueKept
<1>5. PoolLinked'
  <2>1. /\ Len(free) \in Nat /\ Len(free') = Len(free) + 1 /\ DOMAIN free = 1..Len(free)
        /\ \A i \in 1..Len(free) : free'[i + 1] = free[i]
        /\ free'[1] = b
    BY <1>1, ConsFacts
  <2>2. free' # <<>> /\ Head(free') = b
    BY <1>1, <2>1
  <2>3. b \notin Range(free)
    BY <1>1, <1>3, HeldFacts, PlaceNames, Apart DEF HeldIs
  <2>4. ASSUME NEW i \in 1..Len(free)
        PROVE  free[i] \in Buffers /\ next'[free[i]] = next[free[i]]
    <3>1. free[i] \in Buffers /\ free[i] \in Range(free)
      BY <1>1, <2>1 DEF Range
    <3> QED
      BY <1>2, <2>3, <3>1, Zenon
  <2>5. ASSUME NEW i \in 1..Len(free')
        PROVE  next'[free'[i]] = IF i = Len(free') THEN 0 ELSE free'[i + 1]
    <3>1. CASE i = 1
      <4>1. CASE free = <<>>
        BY <1>2, <2>1, <3>1, <4>1 DEF LinksAreLists
      <4>2. CASE free # <<>>
        <5>1. Len(free) \in Nat \ {0} /\ root = free[1]
          BY Zenon, <1>1, <4>2, TailFacts DEF LinksAreLists
        <5> QED
          BY <1>2, <2>1, <3>1, <5>1
      <4> QED
        BY Zenon, <4>1, <4>2
    <3>2. CASE i # 1
      <4>1. i - 1 \in 1..Len(free) /\ free'[i] = free[i - 1]
        BY <2>1, <3>2
      <4>2. next[free[i - 1]] = IF i - 1 = Len(free) THEN 0 ELSE free[i]
        BY <4>1 DEF LinksAreLists
      <4>3. i # Len(free') => free'[i + 1] = free[i]
        BY <2>1
      <4> QED
        BY <2>1, <2>4, <4>1, <4>2, <4>3
    <3> QED
      BY Zenon, <3>1, <3>2
  <2> QED
    BY Zenon, <1>1, <2>2, <2>5 DEF PoolLinked
<1> QED
  BY Zenon, <1>4, <1>5, LinkedNext

----------------------------------------------------------------------------
(* HandsOver is inductive.                                                 *)

\* A step that moves no buffer keeps every buffer in its place.
LEMMA SamePlaces ==
  ASSUME BufferInOnePlace, UNCHANGED <<free, posted, rcq, work, queued, mine>>
  PROVE  BufferInOnePlace'
<1>1. Held' = Held
  BY DEF Held
<1> QED
  BY Zenon, <1>1 DEF BufferInOnePlace

\* At the start every buffer is in the pool, linked in order.
LEMMA InitHandsOver == Init => HandsOver
<1> SUFFICES ASSUME Init PROVE HandsOver
  BY Zenon
<1>1. TypeOK
  BY Zenon, InitType
<1>2. HoldsWhileBusy
  BY Zenon DEF Init, HoldsWhileBusy
<1>3. Len(free) = kMaxIBQueueDepth /\ free # <<>> /\ \A b \in Buffers : free[b] = b
  <2>1. Len(free) = kMaxIBQueueDepth
    BY ServerAssumption DEF Init, Buffers
  <2>2. free # <<>>
    BY Zenon, <1>1, <2>1, NoElements, ServerAssumption DEF TypeOK
  <2> QED
    BY Zenon, <2>1, <2>2 DEF Init
<1>4. LinksAreLists
  <2>1. root = Head(free)
    BY Zenon, <1>1, <1>3, TailFacts, ServerAssumption DEF Init, TypeOK, Buffers
  <2>2. \A i \in 1..Len(free) : next[free[i]] = IF i = Len(free) THEN 0 ELSE free[i + 1]
    BY <1>3, ServerAssumption DEF Init, Buffers
  <2> QED
    BY <1>3, <2>1, <2>2 DEF Init, LinksAreLists
<1>5. BufferInOnePlace
  <2>1. Range(free) = Buffers /\ Distinct(free)
    BY <1>3 DEF Init, Distinct, Range
  <2>2. Range(posted) = {} /\ Bufs(rcq) = {} /\ \A w \in Workers : Range(queued[w]) = {}
    BY DEF Init, Range, Bufs
  <2>3. \A x \in Places : Held[x] = IF x = PoolPl THEN Buffers ELSE {}
    <3> TAKE x \in Places
    <3>1. HeldIs
      BY Zenon, HeldFacts
    <3>2. Held[PostedPl] = {} /\ Held[CompletedPl] = {} /\ Held[PollerPl] = {}
      BY Zenon, <2>2, <3>1 DEF HeldIs, Init
    <3>3. \A w \in Workers : Held[QueuePl(w)] = {} /\ Held[ServingPl(w)] = {}
      BY Zenon, <2>2, <3>1 DEF HeldIs, Init
    <3>4. Held[PoolPl] = Buffers
      BY Zenon, <2>1, <3>1 DEF HeldIs
    <3>5. x = PoolPl \/ Held[x] = {}
      BY Zenon, <3>2, <3>3, PlaceNames
    <3>6. x = PoolPl => Held[x] # {}
      BY <3>4, ServerAssumption DEF Buffers
    <3> QED
      BY Zenon, <3>4, <3>5, <3>6
  <2>4. \A b \in Buffers : \E pl \in Places : \A x \in Places : b \in Held[x] <=> x = pl
    BY Zenon, <2>3, PlaceNames
  <2> QED
    BY <2>1, <2>4 DEF BufferInOnePlace, Init, Distinct
<1> QED
  BY Zenon, <1>1, <1>2, <1>4, <1>5 DEF HandsOver

\* Every step of the poller hands buffers over ...
LEMMA PollHandsOver == ASSUME HandsOver, Poll PROVE HandsOver'
<1> USE DEF HandsOver
<1>1. TypeOK'
  BY Zenon, PollerType
<1>2. CASE Fill
  BY Zenon, <1>1, <1>2, PostFreeLinks, PostFreePlace DEF Fill, HoldsWhileBusy, workers, queues
<1>3. CASE Receive
  <2>1. Head(rcq).buf \in Buffers
    BY <1>3, TailBufs, Zenon DEF Receive, TypeOK, BufferInOnePlace, DistinctBufs
  <2>2. HoldsWhileBusy'
    BY <1>3, <2>1, ServerAssumption DEF Receive, HoldsWhileBusy, workers, Buffers
  <2> QED
    BY Zenon, <1>1, <1>3, <2>2, ReceivePlace, SameLinks DEF Receive, queues, pool
<1>4. CASE ReceiveNothing
  BY Zenon, <1>1, <1>4, SameLinks, SamePlaces
  DEF ReceiveNothing, HoldsWhileBusy, workers, queues, pool, receives
<1>5. CASE EnqueueLocked
  BY Zenon, <1>1, <1>5, EnqueueLinks, EnqueuePlace DEF EnqueueLocked, HoldsWhileBusy, workers
<1>6. CASE Notify
  <2>1. HoldsWhileBusy'
    BY Zenon, <1>6 DEF Notify, HoldsWhileBusy, TypeOK
  <2> QED
    BY Zenon, <1>1, <1>6, <2>1, SameLinks, SamePlaces DEF Notify, pool, receives
<1>7. CASE Reap
  BY <1>1, <1>7, SameLinks, SamePlaces, Zenon
  DEF Reap, HoldsWhileBusy, workers, queues, pool, receives
<1>8. CASE Refill
  <2>1. HoldsWhileBusy'
    BY <1>8, Zenon DEF Refill, HoldsWhileBusy, workers
  <2>2. CASE PostFree
    BY Zenon, <1>1, <1>8, <2>1, <2>2, PostFreeLinks, PostFreePlace DEF Refill, workers, queues
  <2>3. CASE UNCHANGED <<posted, root, free>>
    BY Zenon, <1>1, <1>8, <2>1, <2>3, SameLinks, SamePlaces DEF Refill, workers, queues
  <2> QED
    BY Zenon, <1>8, <2>2, <2>3 DEF Refill
<1> QED
  BY Zenon, <1>2, <1>3, <1>4, <1>5, <1>6, <1>7, <1>8 DEF Poll

\* ... a worker that finds work does ...
LEMMA TakeHandsOver ==
  ASSUME HandsOver, NEW w \in Workers, SpinTake(w) \/ CheckTake(w)
  PROVE  HandsOver'
<1> USE DEF HandsOver
<1>1. /\ TypeOK' /\ head[w] # 0 /\ mine[w] = 0 /\ Dequeue(w)
      /\ UNCHANGED <<free, posted, rcq, work, next, root, ppc>>
      /\ wpc' = [wpc EXCEPT ![w] = "alloc"]
  BY WorkerType, Zenon DEF Serve, SpinTake, CheckTake, HoldsWhileBusy, poller, pool, receives
<1>2. HoldsWhileBusy'
  <2>1. head[w] \in Buffers /\ head[w] # 0
    BY Zenon, <1>1, HeadFacts
  <2>2. /\ mine'[w] = head[w] /\ wpc'[w] = "alloc"
        /\ \A v \in Workers : v = w \/ (mine'[v] = mine[v] /\ wpc'[v] = wpc[v])
    BY Zenon, <1>1 DEF Dequeue, TypeOK
  <2> QED
    BY Zenon, <1>1, <2>1, <2>2 DEF HoldsWhileBusy
<1> QED
  BY Zenon, <1>1, <1>2, TakeLinks, TakePlace

\* ... every other step of a worker does ...
LEMMA ServeHandsOver ==
  ASSUME HandsOver, NEW w \in Workers, Serve(w) \/ SpuriousWakeup(w)
  PROVE  HandsOver'
<1> USE DEF HandsOver
<1>1. TypeOK'
  BY Zenon, WorkerType
<1>2. CASE SpinTake(w) \/ CheckTake(w)
  BY Zenon, <1>2, TakeHandsOver
<1>3. CASE \/ SpinEnd(w) \/ CheckEmpty(w) \/ Block(w) \/ SpuriousWakeup(w)
  <2>1. /\ UNCHANGED <<ppc, work, mine, head, tail, queued, next, root, free, posted, rcq>>
        /\ wpc[w] \in {"spin", "check", "block", "asleep"}
        /\ \E pc \in {"check", "block", "asleep"} : wpc' = [wpc EXCEPT ![w] = pc]
    BY Zenon, <1>3 DEF SpinEnd, CheckEmpty, Block, SpuriousWakeup, poller, queues, pool, receives
  <2>2. HoldsWhileBusy'
    BY Zenon, <2>1 DEF HoldsWhileBusy, TypeOK
  <2> QED
    BY Zenon, <1>1, <2>1, <2>2, SameLinks, SamePlaces
<1>4. CASE AllocSend(w) \/ Reply(w)
  <2>1. /\ UNCHANGED <<ppc, work, mine, head, tail, queued, next, root, free, posted, rcq>>
        /\ wpc[w] \in {"alloc", "reply"}
        /\ \E pc \in {"reply", "free", "abort"} : wpc' = [wpc EXCEPT ![w] = pc]
    BY Zenon, <1>4 DEF AllocSend, Reply, poller, queues, pool, receives
  <2>2. HoldsWhileBusy'
    BY Zenon, <2>1 DEF HoldsWhileBusy, TypeOK
  <2> QED
    BY Zenon, <1>1, <2>1, <2>2, SameLinks, SamePlaces
<1>5. CASE FreeWork(w)
  <2>1. HoldsWhileBusy'
    BY Zenon, <1>5 DEF FreeWork, HoldsWhileBusy, TypeOK, poller
  <2> QED
    BY Zenon, <1>1, <1>5, <2>1, FreeLinks, FreePlace
<1> QED
  BY Zenon, <1>2, <1>3, <1>4, <1>5 DEF Serve

\* ... and so do the clients and the fabric.
LEMMA ClientHandsOver == ASSUME HandsOver, ClientStep PROVE HandsOver'
<1> USE DEF HandsOver
<1>1. TypeOK'
  BY Zenon, ClientType
<1>2. UNCHANGED <<ppc, work, wpc, mine, head, tail, queued, next, root, free>>
  BY Zenon DEF ClientStep, Ask, AskDropped, AskLost, Answer, AnswerLost, poller, workers, queues, pool
<1>3. HoldsWhileBusy' /\ LinksAreLists'
  BY Zenon, <1>2, SameLinks DEF HoldsWhileBusy
<1>4. ASSUME NEW c \in Clients, NEW w \in Workers, Ask(c, w) PROVE BufferInOnePlace'
  BY Zenon, <1>4, AskPlace
<1>5. ASSUME UNCHANGED <<posted, rcq>> PROVE BufferInOnePlace'
  BY Zenon, <1>2, <1>5, SamePlaces
<1>6. UNCHANGED <<posted, rcq>> \/ \E c \in Clients, w \in Workers : Ask(c, w)
  BY Zenon DEF ClientStep, AskDropped, AskLost, Answer, AnswerLost, receives
<1> QED
  BY Zenon, <1>1, <1>3, <1>4, <1>5, <1>6

\* HandsOver is inductive.
LEMMA NextHandsOver == HandsOver /\ [Next]_vars => HandsOver'
<1> SUFFICES ASSUME HandsOver, [Next]_vars PROVE HandsOver'
  BY Zenon
<1>1. CASE Next
  BY Zenon, <1>1, PollHandsOver, ServeHandsOver, ClientHandsOver DEF Next, ClientStep
<1>2. CASE UNCHANGED vars
  <2>1. UNCHANGED <<poller, workers, queues, pool, requests, receives, sends, clients>>
    BY Zenon, <1>2 DEF vars
  <2>2. TypeOK' /\ HoldsWhileBusy'
    BY Zenon, <2>1 DEF HandsOver, TypeOK, HoldsWhileBusy, poller, workers, queues, pool, requests,
                receives, sends, clients
  <2>3. LinksAreLists' /\ BufferInOnePlace'
    BY Zenon, <2>1, SameLinks, SamePlaces DEF HandsOver, poller, workers, queues, pool, receives
  <2> QED
    BY Zenon, <2>2, <2>3 DEF HandsOver
<1> QED
  BY Zenon, <1>1, <1>2

\* Poller, workers, pool and adapter hand receive buffers over as Poll, Enqueue,
\* Dequeue, Alloc and Free intend, for any number of threads and buffers: types
\* are kept, a thread has a buffer exactly while it is busy with it, and the
\* links are the free list and the work queues in order.
THEOREM BuffersHandedOver == Spec => []HandsOver
  BY InitHandsOver, NextHandsOver, PTL DEF Spec

----------------------------------------------------------------------------

(* One request or one answer for each client that waits.                   *)

Waits(c) == c \in asking \ (dropped \cup lost)
OneFor(c) ==
  /\ Waits(c) <=> c \in Range(sq) \/ \E b \in Buffers : Carries(b, c)
  /\ \A b, d \in Buffers : Carries(b, c) /\ Carries(d, c) => b = d
  /\ \A b \in Buffers : Carries(b, c) => c \notin Range(sq)
  /\ Once(c, sq)
OneForEach == dropped \cup lost \subseteq asking /\ \A c \in Clients : OneFor(c)

\* OneForEach says what OneAnswerEach says ...
LEMMA OneForEachIs == OneAnswerEach <=> OneForEach
<1>1. ASSUME NEW c \in Clients
      PROVE  (IF Waits(c) THEN \E x \in Pending(c) : Pending(c) = {x} ELSE Pending(c) = {})
             <=> OneFor(c)
  <2> DEFINE R == {b \in Buffers : Carries(b, c)}
             A == {i \in DOMAIN sq : sq[i] = c}
  <2>1. /\ \A x \in Pending(c) : \/ \E b \in R : x = <<"request", b>>
                                 \/ \E i \in A : x = <<"answer", i>>
        /\ \A b \in R : <<"request", b>> \in Pending(c)
        /\ \A i \in A : <<"answer", i>> \in Pending(c)
    BY Zenon DEF Pending
  <2>2. OneFor(c) <=> /\ Waits(c) <=> A # {} \/ R # {}
                      /\ \A b, d \in R : b = d
                      /\ R = {} \/ A = {}
                      /\ \A i, j \in A : i = j
    BY Zenon DEF OneFor, Once, Range
  <2>3. \A b, i : <<"request", b>> # <<"answer", i>>
    BY Zenon
  <2>4. \A b, d : /\ <<"request", b>> = <<"request", d>> => b = d
                  /\ <<"answer", b>> = <<"answer", d>> => b = d
    BY Zenon
  <2> HIDE DEF R, A
  <2>5. Pending(c) = {} <=> R = {} /\ A = {}
    BY <2>1, Zenon
  <2>6. (\E x \in Pending(c) : Pending(c) = {x})
        <=> (A # {} \/ R # {}) /\ (\A b, d \in R : b = d) /\ (R = {} \/ A = {})
            /\ (\A i, j \in A : i = j)
    <3>1. ASSUME NEW x \in Pending(c), Pending(c) = {x}
          PROVE  (A # {} \/ R # {}) /\ (\A b, d \in R : b = d) /\ (R = {} \/ A = {})
                 /\ (\A i, j \in A : i = j)
      BY <2>1, <2>3, <2>4, <3>1
    <3>2. ASSUME NEW b \in R, \A d \in R : d = b, A = {} PROVE Pending(c) = {<<"request", b>>}
      BY Zenon, <2>1, <3>2
    <3>3. ASSUME NEW i \in A, \A j \in A : j = i, R = {} PROVE Pending(c) = {<<"answer", i>>}
      BY Zenon, <2>1, <3>3
    <3> QED
      BY <2>1, <3>1, <3>2, <3>3, Zenon
  <2> QED
    BY Zenon, <2>2, <2>5, <2>6
<1> QED
  BY Zenon, <1>1 DEF OneAnswerEach, OneForEach, Waits

\* ... also after a step.
LEMMA OneForEachNext == OneAnswerEach' <=> OneForEach'
  BY OneForEachIs, PTL

\* Where the request a buffer carries is read from.
InQueue(b) == \E w \in Workers : b \in Range(queued[w])
Served(b) == \E w \in Workers : mine[w] = b /\ wpc[w] \in {"alloc", "reply", "abort"}
Received(b) == work = b \/ InQueue(b) \/ Served(b)
Completed(b, c) == \E i \in DOMAIN rcq : rcq[i].buf = b /\ rcq[i].from = c

\* A request is in a completed receive, or it was received ...
LEMMA CarriesIs ==
  \A b, c : Carries(b, c) <=> \/ Completed(b, c)
                              \/ peer[b] = c /\ Received(b)
  BY Zenon DEF Carries, Completed, InQueue, Served, Received

\* ... also after a step.
LEMMA CarriesIsNext ==
  \A b, c : Carries(b, c)' <=> \/ Completed(b, c)'
                               \/ peer'[b] = c /\ Received(b)'
  BY Zenon DEF Carries, Completed, InQueue, Served, Received

\* A completed receive is nowhere else, and completed once.
LEMMA CompletedOnce ==
  ASSUME HandsOver, NEW b \in Buffers, NEW c \in Clients, Completed(b, c)
  PROVE  /\ b \in Bufs(rcq) /\ ~Received(b)
         /\ \A d : Completed(b, d) => d = c
<1>1. b \in Held[CompletedPl] /\ b # 0
  BY HeldFacts, ServerAssumption DEF Completed, HeldIs, Bufs, Buffers
<1>2. work # b
  BY Zenon, <1>1, HeldFacts, PlaceNames, Apart DEF HeldIs, HandsOver
<1>3. ASSUME NEW w \in Workers PROVE b \notin Range(queued[w]) /\ mine[w] # b
  BY <1>1, HeldFacts, PlaceNames, Apart DEF HeldIs, HandsOver
<1>4. \A d : Completed(b, d) => d = c
  BY Zenon DEF HandsOver, BufferInOnePlace, Distinct, Completed
<1> QED
  BY Zenon, <1>1, <1>2, <1>3, <1>4, HeldFacts DEF Received, InQueue, Served, HeldIs

SameCarriers == \A b \in Buffers, c \in Clients : Carries(b, c)' <=> Carries(b, c)
SameReceived == \A b \in Buffers : Received(b)' <=> Received(b)

\* When nothing is received or answered and no request arrives, the buffers carry
\* what they did.
LEMMA ReceivedCarriers ==
  ASSUME SameReceived, rcq' = rcq, peer' = peer PROVE SameCarriers
<1>1. \A b, c : Completed(b, c)' <=> Completed(b, c)
  BY Zenon DEF Completed
<1> QED
  BY <1>1, CarriesIs, CarriesIsNext, Zenon DEF SameReceived, SameCarriers

\* TryReceive: the polled buffer is received ...
LEMMA ReceiveReceived ==
  ASSUME HandsOver, Receive, NEW b \in Buffers
  PROVE  Received(b)' <=> Received(b) \/ b = Head(rcq).buf
<1>1. work = 0 /\ work' = Head(rcq).buf /\ UNCHANGED <<queued, mine, wpc>> /\ b # 0
  BY Zenon, NullIsNone DEF Receive, HandsOver, HoldsWhileBusy, workers, queues
<1>2. (InQueue(b)' <=> InQueue(b)) /\ (Served(b)' <=> Served(b))
  BY Zenon, <1>1 DEF InQueue, Served
<1> QED
  BY <1>1, <1>2, Zenon DEF Received

\* ... and the address PollCQ stores in it is that of the request it had, so that
\* buffers carry the same requests.
LEMMA ReceiveCarriers == ASSUME HandsOver, Receive PROVE SameCarriers
<1> SUFFICES ASSUME NEW b \in Buffers, NEW c \in Clients
             PROVE  Carries(b, c)' <=> Carries(b, c)
  BY Zenon DEF SameCarriers
<1> DEFINE h == Head(rcq)
<1>1. /\ rcq # <<>> /\ rcq' = Tail(rcq) /\ work = 0 /\ work' = h.buf
      /\ UNCHANGED <<queued, mine, wpc>> /\ rcq \in Seq([buf : Buffers, from : Clients])
      /\ peer' = [peer EXCEPT ![h.buf] = h.from]
  BY Zenon DEF Receive, HandsOver, HoldsWhileBusy, TypeOK, workers, queues
<1>2. DistinctBufs(rcq)
  BY Zenon DEF HandsOver, BufferInOnePlace, DistinctBufs
<1>3. h \in [buf : Buffers, from : Clients] /\ h.buf # 0
  BY <1>1, <1>2, TailBufs, NullIsNone, Zenon
<1>4. h = rcq[1] /\ 1 \in DOMAIN rcq
  BY <1>1, TailBufs, <1>2
<1>5. Received(b)' <=> Received(b) \/ b = h.buf
  BY Zenon, ReceiveReceived
<1>6. CASE b = h.buf
  <2>1. Completed(b, h.from)
    BY Zenon, <1>4, <1>6 DEF Completed
  <2>2. ~Received(b) /\ (Completed(b, c) <=> c = h.from)
    BY <1>3, <2>1, CompletedOnce, Zenon
  <2>3. ~Completed(b, c)'
    BY <1>1, <1>2, <1>6, TailBufs, Zenon DEF Completed, Bufs
  <2>4. peer'[b] = h.from
    BY Zenon, <1>1, <1>3, <1>6 DEF HandsOver, TypeOK
  <2> QED
    BY <1>5, <1>6, <2>2, <2>3, <2>4, CarriesIs, CarriesIsNext, Zenon
<1>7. CASE b # h.buf
  <2>1. Completed(b, c)' <=> Completed(b, c)
    <3>1. \A i \in DOMAIN Tail(rcq) : i + 1 \in DOMAIN rcq /\ Tail(rcq)[i] = rcq[i + 1]
      BY <1>1, TailFacts
    <3>2. ASSUME NEW i \in DOMAIN rcq, i # 1
          PROVE  i - 1 \in DOMAIN Tail(rcq) /\ Tail(rcq)[i - 1] = rcq[i]
      BY <1>1, <3>2, TailFacts
    <3>3. Completed(b, c)' => Completed(b, c)
      BY Zenon, <1>1, <3>1 DEF Completed
    <3>4. ASSUME NEW i \in DOMAIN rcq, rcq[i].buf = b, rcq[i].from = c PROVE Completed(b, c)'
      <4>1. i # 1
        BY Zenon, <1>4, <1>7, <3>4
      <4> QED
        BY <1>1, <3>2, <3>4, <4>1, Zenon DEF Completed
    <3> QED
      BY Zenon, <3>3, <3>4 DEF Completed
  <2>2. peer'[b] = peer[b]
    BY Zenon, <1>1, <1>7 DEF HandsOver, TypeOK
  <2> QED
    BY <1>5, <1>7, <2>1, <2>2, CarriesIs, CarriesIsNext, Zenon
<1> QED
  BY Zenon, <1>6, <1>7

\* Dispatching to a worker keeps a request received ...
LEMMA EnqueueReceived == ASSUME HandsOver, EnqueueLocked PROVE SameReceived
<1> SUFFICES ASSUME NEW b \in Buffers PROVE Received(b)' <=> Received(b)
  BY Zenon DEF SameReceived
<1>1. /\ to \in Workers /\ work \in Buffers /\ work' = 0 /\ queued[to] \in Seq(Buffers)
      /\ queued' = [queued EXCEPT ![to] = Append(@, work)]
      /\ UNCHANGED <<rcq, mine, wpc, peer>>
  BY Zenon DEF EnqueueLocked, Enqueue, HandsOver, HoldsWhileBusy, TypeOK, BufferOrNull, workers,
         receives, requests
<1>2. Range(queued'[to]) = Range(queued[to]) \cup {work}
  BY <1>1, AppendSet DEF HandsOver, TypeOK
<1>3. \A w \in Workers : w = to \/ queued'[w] = queued[w]
  BY Zenon, <1>1 DEF HandsOver, TypeOK
<1>4. InQueue(b)' <=> InQueue(b) \/ work = b
  BY Zenon, <1>1, <1>2, <1>3 DEF InQueue
<1>5. (Served(b)' <=> Served(b)) /\ work' # b
  BY Zenon, <1>1, NullIsNone DEF Served
<1> QED
  BY Zenon, <1>4, <1>5 DEF Received

\* ... and so does a worker that takes it.
LEMMA TakeReceived ==
  ASSUME HandsOver, NEW w \in Workers, SpinTake(w) \/ CheckTake(w)
  PROVE  SameReceived
<1> SUFFICES ASSUME NEW b \in Buffers PROVE Received(b)' <=> Received(b)
  BY Zenon DEF SameReceived
<1> DEFINE q == queued[w]
<1>1. /\ q \in Seq(Buffers) /\ q # <<>> /\ head[w] = Head(q) /\ mine[w] = 0
      /\ mine' = [mine EXCEPT ![w] = Head(q)] /\ wpc' = [wpc EXCEPT ![w] = "alloc"]
      /\ queued' = [queued EXCEPT ![w] = Tail(q)] /\ UNCHANGED <<rcq, work, peer>>
      /\ wpc[w] \in {"spin", "check"}
  BY Zenon, HeadFacts DEF SpinTake, CheckTake, Dequeue, HandsOver, HoldsWhileBusy, poller, requests,
                   receives
<1>2. Range(q) = Range(queued'[w]) \cup {Head(q)}
  BY Zenon, <1>1, TailSet DEF HandsOver, TypeOK
<1>3. \A v \in Workers : v = w \/ queued'[v] = queued[v]
  BY Zenon, <1>1 DEF HandsOver, TypeOK
<1>4. InQueue(b) <=> InQueue(b)' \/ b = Head(q)
  BY <1>2, <1>3, Zenon DEF InQueue
<1>5. Served(b)' <=> Served(b) \/ b = Head(q)
  <2>1. /\ mine'[w] = Head(q) /\ wpc'[w] = "alloc"
        /\ \A v \in Workers : v = w \/ (mine'[v] = mine[v] /\ wpc'[v] = wpc[v])
    BY Zenon, <1>1 DEF HandsOver, TypeOK
  <2> QED
    BY Zenon, <1>1, <2>1 DEF Served
<1> QED
  BY Zenon, <1>1, <1>4, <1>5 DEF Received

\* A step that leaves requests alone.
LEMMA OtherReceived ==
  ASSUME UNCHANGED <<work, queued>>,
         \A w \in Workers : \/ /\ wpc[w] \notin {"alloc", "reply", "abort"}
                               /\ wpc'[w] \notin {"alloc", "reply", "abort"}
                            \/ /\ wpc[w] \in {"alloc", "reply", "abort"}
                               /\ wpc'[w] \in {"alloc", "reply", "abort"}
                               /\ mine'[w] = mine[w]
  PROVE  SameReceived
<1>1. \A b : (InQueue(b)' <=> InQueue(b)) /\ (Served(b)' <=> Served(b))
  BY Zenon DEF InQueue, Served
<1> QED
  BY Zenon, <1>1 DEF Received, SameReceived

\* Of the poller's steps only Receive changes which requests were received, and
\* of a worker's steps only Reply.
LEMMA PollReceived ==
  ASSUME HandsOver, Poll, ~Receive
  PROVE  SameReceived /\ rcq' = rcq /\ peer' = peer
<1>1. rcq' = rcq /\ peer' = peer
  BY Zenon DEF Poll, Fill, ReceiveNothing, EnqueueLocked, Notify, Reap, Refill, receives, requests
<1>2. CASE EnqueueLocked
  BY Zenon, <1>1, <1>2, EnqueueReceived
<1>3. CASE Fill \/ ReceiveNothing \/ Reap \/ Refill
  <2>1. UNCHANGED <<work, queued, mine, wpc>>
    BY Zenon, <1>3 DEF Fill, ReceiveNothing, Reap, Refill, queues, workers
  <2> QED
    BY Zenon, <1>1, <2>1, OtherReceived
<1>4. CASE Notify
  <2>1. UNCHANGED <<work, queued, mine>>
    BY Zenon, <1>4 DEF Notify
  <2>2. \A w \in Workers : wpc'[w] = wpc[w] \/ (wpc[w] = "asleep" /\ wpc'[w] = "check")
    BY Zenon, <1>4 DEF Notify, HandsOver, TypeOK
  <2> QED
    BY Zenon, <1>1, <2>1, <2>2, OtherReceived
<1> QED
  BY Zenon, <1>2, <1>3, <1>4 DEF Poll

LEMMA ServeReceived ==
  ASSUME HandsOver, NEW w \in Workers, Serve(w) \/ SpuriousWakeup(w), ~Reply(w)
  PROVE  SameReceived /\ rcq' = rcq /\ peer' = peer
<1>1. rcq' = rcq /\ peer' = peer
  BY Zenon DEF Serve, SpinTake, SpinEnd, CheckTake, CheckEmpty, Block, SpuriousWakeup, AllocSend,
         FreeWork, receives, requests
<1>2. CASE SpinTake(w) \/ CheckTake(w)
  BY Zenon, <1>1, <1>2, TakeReceived
<1>3. CASE \/ SpinEnd(w) \/ CheckEmpty(w) \/ Block(w) \/ SpuriousWakeup(w) \/ AllocSend(w)
          \/ FreeWork(w)
  <2>1. UNCHANGED <<work, queued>>
    BY Zenon, <1>3 DEF SpinEnd, CheckEmpty, Block, SpuriousWakeup, AllocSend, FreeWork, poller, queues
  <2>2. /\ \A v \in Workers : v = w \/ (wpc'[v] = wpc[v] /\ mine'[v] = mine[v])
        /\ \/ /\ wpc[w] \in {"spin", "check", "block", "asleep", "free"}
              /\ wpc'[w] \in {"spin", "check", "block", "asleep"}
           \/ wpc[w] = "alloc" /\ wpc'[w] \in {"reply", "abort"} /\ mine'[w] = mine[w]
    BY Zenon, <1>3 DEF SpinEnd, CheckEmpty, Block, SpuriousWakeup, AllocSend, FreeWork, HandsOver, TypeOK
  <2> QED
    BY Zenon, <1>1, <2>1, <2>2, OtherReceived
<1> QED
  BY Zenon, <1>2, <1>3 DEF Serve

\* A request that arrives is carried by the oldest posted receive.
LEMMA AskCarriers ==
  ASSUME HandsOver, NEW a \in Clients, NEW w \in Workers, Ask(a, w),
         NEW b \in Buffers, NEW c \in Clients
  PROVE  Carries(b, c)' <=> Carries(b, c) \/ (b = Head(posted) /\ c = a)
<1> DEFINE m == [buf |-> Head(posted), from |-> a]
<1>1. /\ rcq' = Append(rcq, m) /\ UNCHANGED <<work, queued, mine, wpc, peer>>
      /\ rcq \in Seq([buf : Buffers, from : Clients])
  BY Zenon DEF Ask, HandsOver, TypeOK, poller, workers, queues
<1>2. m \in [buf : Buffers, from : Clients]
  BY TailFacts, Zenon DEF Ask, HandsOver, TypeOK
<1>3. Completed(b, c)' <=> Completed(b, c) \/ (b = Head(posted) /\ c = a)
  BY <1>1, <1>2, AppendFacts DEF Completed
<1>4. (Received(b)' <=> Received(b)) /\ peer' = peer
  BY Zenon, <1>1, OtherReceived DEF SameReceived
<1> QED
  BY Zenon, <1>3, <1>4, CarriesIs, CarriesIsNext

\* What a worker serves is nowhere else.
LEMMA ServedOnce ==
  ASSUME HandsOver, NEW w \in Workers, wpc[w] \in {"alloc", "reply"}
  PROVE  /\ mine[w] \in Buffers /\ Received(mine[w]) /\ work # mine[w] /\ ~InQueue(mine[w])
         /\ \A c : ~Completed(mine[w], c)
         /\ \A v \in Workers : mine[v] = mine[w] => v = w
<1> DEFINE b == mine[w]
<1>1. b \in Buffers /\ b # 0 /\ Served(b)
  BY Zenon, NullIsNone DEF HandsOver, HoldsWhileBusy, TypeOK, BufferOrNull, Served
<1>2. b \in Held[ServingPl(w)]
  BY <1>1, HeldFacts, Zenon DEF HeldIs
<1>3. b \notin Held[PollerPl] /\ b \notin Held[CompletedPl]
  BY Zenon, <1>1, <1>2, PlaceNames, Apart DEF HandsOver
<1>4. \A v \in Workers : b \notin Held[QueuePl(v)] /\ (b \in Held[ServingPl(v)] => v = w)
  BY Zenon, <1>1, <1>2, PlaceNames, Apart DEF HandsOver
<1>5. \A v \in Workers : b \notin Range(queued[v]) /\ (mine[v] = b => v = w)
  BY Zenon, <1>1, <1>4, HeldFacts DEF HeldIs
<1> QED
  BY Zenon, <1>1, <1>3, <1>5, HeldFacts DEF HeldIs, Received, InQueue, Completed, Bufs

\* PostSend of the answer: the buffer's request is no longer to be answered ...
LEMMA ReplyReceived ==
  ASSUME HandsOver, NEW w \in Workers, Reply(w), NEW b \in Buffers
  PROVE  Received(b)' <=> Received(b) /\ b # mine[w]
<1>1. wpc[w] = "reply" /\ UNCHANGED <<work, queued, mine>>
  BY Zenon DEF Reply, poller, queues
<1>2. wpc'[w] = "free" /\ \A v \in Workers : v = w \/ wpc'[v] = wpc[v]
  BY Zenon DEF Reply, HandsOver, TypeOK
<1>3. Served(b)' <=> Served(b) /\ b # mine[w]
  BY Zenon, <1>1, <1>2, ServedOnce DEF Served
<1>4. InQueue(b)' <=> InQueue(b)
  BY Zenon, <1>1 DEF InQueue
<1>5. work # mine[w] /\ ~InQueue(mine[w])
  BY Zenon, <1>1, ServedOnce
<1> QED
  BY Zenon, <1>1, <1>3, <1>4, <1>5 DEF Received

\* ... it was that of the client the answer goes to, and no other was carried.
LEMMA ReplyCarriers ==
  ASSUME HandsOver, NEW w \in Workers, Reply(w), NEW b \in Buffers, NEW c \in Clients
  PROVE  /\ Carries(b, c)' <=> Carries(b, c) /\ b # mine[w]
         /\ Carries(mine[w], c) <=> c = peer[mine[w]]
<1>1. wpc[w] = "reply" /\ UNCHANGED <<rcq, peer>>
  BY Zenon DEF Reply, receives, requests
<1>2. Received(b)' <=> Received(b) /\ b # mine[w]
  BY Zenon, ReplyReceived
<1>3. Completed(b, c)' <=> Completed(b, c)
  BY Zenon, <1>1 DEF Completed
<1>4. Received(mine[w]) /\ \A d : ~Completed(mine[w], d)
  BY Zenon, <1>1, ServedOnce
<1> QED
  BY <1>1, <1>2, <1>3, <1>4, CarriesIs, CarriesIsNext, Zenon

----------------------------------------------------------------------------
(* OneForEach is inductive, given HandsOver.                               *)

\* A step that leaves requests, answers and clients alone.
LEMMA SameOneForEach ==
  ASSUME OneForEach, SameCarriers, UNCHANGED <<sq, asking, dropped, lost>>
  PROVE  OneForEach'
<1>1. ASSUME NEW c \in Clients PROVE OneFor(c)'
  BY Zenon DEF OneForEach, OneFor, SameCarriers, Waits
<1> QED
  BY Zenon, <1>1 DEF OneForEach

\* The poller moves requests and drops none.
LEMMA PollOneForEach == ASSUME HandsOver, OneForEach, Poll PROVE OneForEach'
<1>1. UNCHANGED <<sq, asking, dropped, lost>>
  BY Zenon DEF Poll, Fill, Receive, ReceiveNothing, EnqueueLocked, Notify, Reap, Refill, sends, clients
<1>2. SameCarriers
  BY Zenon, ReceiveCarriers, PollReceived, ReceivedCarriers
<1> QED
  BY Zenon, <1>1, <1>2, SameOneForEach

\* A worker puts the answer in the place of the request.
LEMMA ReplyOneForEach ==
  ASSUME HandsOver, OneForEach, NEW w \in Workers, Reply(w)
  PROVE  OneForEach'
<1> DEFINE a == peer[mine[w]]
<1>1. /\ mine[w] \in Buffers /\ a \in Clients /\ sq \in Seq(Clients) /\ sq' = Append(sq, a)
      /\ UNCHANGED <<asking, dropped, lost>>
  BY Zenon, ServedOnce DEF Reply, HandsOver, TypeOK, clients
<1>2. Carries(mine[w], a) /\ a \notin Range(sq)
  BY <1>1, ReplyCarriers, Zenon DEF OneForEach, OneFor
<1>3. Range(sq') = Range(sq) \cup {a}
  BY <1>1, AppendSet
<1>4. ASSUME NEW c \in Clients PROVE OneFor(c)'
  <2>1. /\ OneFor(c) /\ (Waits(c)' <=> Waits(c))
        /\ \A b \in Buffers : Carries(b, c)' <=> Carries(b, c) /\ b # mine[w]
        /\ Carries(mine[w], c) <=> c = a
    BY Zenon, <1>1, ReplyCarriers DEF OneForEach, Waits
  <2>2. Once(c, sq')
    BY <1>1, <1>2, <2>1, OnceInAppend, Zenon DEF OneFor
  <2>3. CASE c = a
    <3>1. \A b \in Buffers : ~Carries(b, c)'
      BY <1>1, <1>2, <2>1, <2>3, Zenon DEF OneFor
    <3> QED
      BY <1>1, <1>2, <1>3, <2>1, <2>2, <2>3, <3>1, Zenon DEF OneFor
  <2>4. CASE c # a
    <3>1. \A b \in Buffers : Carries(b, c)' <=> Carries(b, c)
      BY <2>1, <2>4, Zenon
    <3> QED
      BY <1>3, <2>1, <2>2, <2>4, <3>1, Zenon DEF OneFor
  <2> QED
    BY <2>3, <2>4, Zenon
<1> QED
  BY Zenon, <1>1, <1>4 DEF OneForEach

\* No other step of a worker changes what is held for a client.
LEMMA ServeOneForEach ==
  ASSUME HandsOver, OneForEach, NEW w \in Workers, Serve(w) \/ SpuriousWakeup(w)
  PROVE  OneForEach'
<1>1. CASE Reply(w)
  BY Zenon, <1>1, ReplyOneForEach
<1>2. CASE ~Reply(w)
  <2>1. UNCHANGED <<sq, asking, dropped, lost>>
    BY Zenon, <1>2 DEF Serve, SpinTake, SpinEnd, CheckTake, CheckEmpty, Block, SpuriousWakeup, AllocSend,
                FreeWork, sends, clients
  <2>2. SameCarriers
    BY Zenon, <1>2, ServeReceived, ReceivedCarriers
  <2> QED
    BY Zenon, <2>1, <2>2, SameOneForEach
<1> QED
  BY Zenon, <1>1, <1>2

\* An answer that leaves is the only thing held for its client.
LEMMA AnsweredOneForEach ==
  ASSUME HandsOver, OneForEach, SameCarriers, sq # <<>>, sq' = Tail(sq),
         dropped' = dropped,
         \/ asking' = asking \ {Head(sq)} /\ lost' = lost
         \/ asking' = asking /\ lost' = lost \cup {Head(sq)}
  PROVE  OneForEach'
<1> DEFINE a == Head(sq)
<1>0. sq \in Seq(Clients)
  BY Zenon DEF HandsOver, TypeOK
<1>1. a \in Clients /\ a \in Range(sq) /\ Range(sq) = Range(sq') \cup {a}
  BY Zenon, <1>0, TailFacts, TailSet
<1>2. Waits(a) /\ OneFor(a)
  BY Zenon, <1>1 DEF OneForEach, OneFor
<1>3. dropped' \cup lost' \subseteq asking'
  BY Zenon, <1>2 DEF OneForEach, Waits
<1>4. ASSUME NEW c \in Clients PROVE OneFor(c)'
  <2>1. OneFor(c) /\ \A b \in Buffers : Carries(b, c)' <=> Carries(b, c)
    BY Zenon DEF OneForEach, SameCarriers
  <2>2. Once(c, sq') /\ (c = a => c \notin Range(sq'))
    BY Zenon, <1>0, <2>1, OnceInTail DEF OneFor
  <2>3. CASE c = a
    <3>1. ~Waits(c)'
      BY Zenon, <2>3 DEF Waits
    <3>2. \A b \in Buffers : ~Carries(b, c)'
      BY Zenon, <1>1, <2>1, <2>3 DEF OneFor
    <3> QED
      BY Zenon, <2>2, <2>3, <3>1, <3>2 DEF OneFor
  <2>4. CASE c # a
    <3>1. (c \in Range(sq') <=> c \in Range(sq)) /\ (Waits(c)' <=> Waits(c))
      BY Zenon, <1>1, <2>4 DEF Waits
    <3> QED
      BY Zenon, <2>1, <2>2, <3>1 DEF OneFor
  <2> QED
    BY Zenon, <2>3, <2>4
<1> QED
  BY Zenon, <1>3, <1>4 DEF OneForEach

\* RequestAndWait: a client that asks has nothing in the server yet.
LEMMA AskOneForEach ==
  ASSUME HandsOver, OneForEach, NEW a \in Clients, NEW w \in Workers, Ask(a, w)
  PROVE  OneForEach'
<1> DEFINE b == Head(posted)
<1>1. /\ b \in Buffers /\ a \notin asking /\ asking' = asking \cup {a}
      /\ UNCHANGED <<sq, dropped, lost>>
  BY Zenon, TailFacts DEF Ask, HandsOver, TypeOK, sends
<1>2. OneFor(a) /\ ~Waits(a) /\ Waits(a)'
  BY Zenon, <1>1 DEF OneForEach, Waits
<1>3. a \notin Range(sq) /\ \A d \in Buffers : ~Carries(d, a)
  BY Zenon, <1>2 DEF OneFor
<1>4. ASSUME NEW c \in Clients PROVE OneFor(c)'
  <2>1. \A d \in Buffers : Carries(d, c)' <=> Carries(d, c) \/ (d = b /\ c = a)
    BY Zenon, AskCarriers
  <2>2. CASE c = a
    <3>1. \A d \in Buffers : Carries(d, c)' <=> d = b
      BY Zenon, <1>3, <2>1, <2>2
    <3> QED
      BY Zenon, <1>1, <1>2, <1>3, <2>2, <3>1 DEF OneFor
  <2>3. CASE c # a
    <3>1. OneFor(c) /\ (Waits(c)' <=> Waits(c)) /\ sq' = sq
      BY Zenon, <1>1, <2>3 DEF OneForEach, Waits
    <3>2. \A d \in Buffers : Carries(d, c)' <=> Carries(d, c)
      BY Zenon, <2>1, <2>3
    <3> QED
      BY Zenon, <3>1, <3>2 DEF OneFor
  <2> QED
    BY Zenon, <2>2, <2>3
<1> QED
  BY Zenon, <1>1, <1>4 DEF OneForEach

\* A client whose request goes nowhere waits, and nothing is held for it.
LEMMA AskInVainOneForEach ==
  ASSUME OneForEach, SameCarriers, NEW a \in Clients, a \notin asking,
         asking' = asking \cup {a}, sq' = sq,
         \/ dropped' = dropped \cup {a} /\ lost' = lost
         \/ dropped' = dropped /\ lost' = lost \cup {a}
  PROVE  OneForEach'
<1>1. ASSUME NEW c \in Clients PROVE OneFor(c)'
  <2>1. Waits(c)' <=> Waits(c)
    BY Zenon DEF Waits
  <2> QED
    BY <2>1, Zenon DEF OneForEach, OneFor, SameCarriers
<1> QED
  BY Zenon, <1>1 DEF OneForEach

\* The clients' and the fabric's steps.
LEMMA ClientOneForEach == ASSUME HandsOver, OneForEach, ClientStep PROVE OneForEach'
<1>1. ASSUME NEW c \in Clients, NEW w \in Workers, Ask(c, w) PROVE OneForEach'
  BY Zenon, <1>1, AskOneForEach
<1>2. ASSUME ~\E c \in Clients, w \in Workers : Ask(c, w) PROVE SameCarriers
  <2>1. UNCHANGED <<rcq, work, queued, mine, wpc, peer>>
    BY Zenon, <1>2 DEF ClientStep, AskDropped, AskLost, Answer, AnswerLost, receives, poller, queues,
                workers, requests
  <2> QED
    BY Zenon, <2>1, OtherReceived, ReceivedCarriers
<1>3. ASSUME NEW c \in Clients, AskDropped(c) \/ AskLost(c), SameCarriers PROVE OneForEach'
  <2>1. c \notin asking /\ asking' = asking \cup {c} /\ sq' = sq
    BY Zenon, <1>3 DEF AskDropped, AskLost, sends
  <2>2. \/ dropped' = dropped \cup {c} /\ lost' = lost
        \/ dropped' = dropped /\ lost' = lost \cup {c}
    BY Zenon, <1>3 DEF AskDropped, AskLost
  <2> QED
    BY Zenon, <1>3, <2>1, <2>2, AskInVainOneForEach
<1>4. ASSUME Answer \/ AnswerLost, SameCarriers PROVE OneForEach'
  BY Zenon, <1>4, AnsweredOneForEach DEF Answer, AnswerLost
<1> QED
  BY Zenon, <1>1, <1>2, <1>3, <1>4 DEF ClientStep

\* Nobody waits at the start.
LEMMA InitOneForEach == Init => OneForEach
<1> SUFFICES ASSUME Init PROVE OneForEach
  BY Zenon
<1>1. \A b \in Buffers, c \in Clients : ~Carries(b, c)
  BY NullIsNone DEF Init, Carries, Range
<1>2. Range(sq) = {} /\ DOMAIN sq = {}
  BY DEF Init, Range
<1> QED
  BY Zenon, <1>1, <1>2 DEF Init, OneForEach, OneFor, Once, Waits

\* OneForEach is inductive, given HandsOver.
LEMMA NextOneForEach == HandsOver /\ OneForEach /\ [Next]_vars => OneForEach'
<1> SUFFICES ASSUME HandsOver, OneForEach, [Next]_vars PROVE OneForEach'
  BY Zenon
<1>1. CASE Next
  BY Zenon, <1>1, PollOneForEach, ServeOneForEach, ClientOneForEach DEF Next, ClientStep
<1>2. CASE UNCHANGED vars
  <2>1. UNCHANGED <<poller, workers, queues, requests, receives, sends, clients>>
    BY Zenon, <1>2 DEF vars
  <2>2. UNCHANGED <<rcq, work, queued, mine, wpc, peer, sq, asking, dropped, lost>>
    BY Zenon, <2>1 DEF poller, workers, queues, requests, receives, sends, clients
  <2> QED
    BY Zenon, <2>2, OtherReceived, ReceivedCarriers, SameOneForEach
<1> QED
  BY Zenon, <1>1, <1>2

\* A client takes the first datagram that comes for the answer to its request
\* (RequestAndWait in src/src/client.cc), and with any number of clients, workers
\* and buffers it is: for a client that waits the server holds one request or
\* one answer, and for any other nothing.
THEOREM OneAnswerForEach == Spec => []OneAnswerEach
<1>1. Spec => []OneForEach
  BY InitHandsOver, NextHandsOver, InitOneForEach, NextOneForEach, PTL DEF Spec
<1> QED
  BY <1>1, OneForEachIs, PTL

----------------------------------------------------------------------------
(* What the buffers of the two pools are in use for, and how each step     *)
(* changes that.                                                           *)

\* Clients a send buffer is in use for, answers that were sent aside.
Replying ==
  {c \in Clients : c \in Range(sq) \/ \E w \in Workers : wpc[w] = "reply" /\ peer[mine[w]] = c}

\* Clients whose request the poller has received and whose answer is not sent.
Unanswered ==
  {c \in Clients : c \in Range(sq) \/ \E b \in Buffers : Received(b) /\ peer[b] = c}

\* Receive buffers that no request can be put in.
Taken == Buffers \ (Range(posted) \cup Bufs(rcq))

\* What is received is received from one client, which has no answer.
LEMMA ReceivedOnce ==
  ASSUME OneForEach, TypeOK, NEW b \in Buffers, Received(b)
  PROVE  /\ peer[b] \in Clients /\ peer[b] \notin Range(sq)
         /\ \A d \in Buffers : Received(d) /\ peer[d] = peer[b] => d = b
<1>1. peer[b] \in Clients
  BY Zenon DEF TypeOK
<1>2. \A d \in Buffers : Received(d) /\ peer[d] = peer[b] => Carries(d, peer[b])
  BY CarriesIs, Zenon
<1> QED
  BY <1>1, <1>2, Zenon DEF OneForEach, OneFor

\* Clients stay unanswered while no request is received or answered.
LEMMA SameUnanswered ==
  ASSUME SameReceived, UNCHANGED <<peer, sq>> PROVE Unanswered' = Unanswered
  BY Zenon DEF Unanswered, SameReceived

\* No worker starts or ends a reply.
LEMMA SameReplying ==
  ASSUME UNCHANGED <<peer, sq>>,
         \A w \in Workers : \/ wpc[w] # "reply" /\ wpc'[w] # "reply"
                            \/ wpc'[w] = wpc[w] /\ mine'[w] = mine[w]
  PROVE  Replying' = Replying
  BY Zenon DEF Replying

\* TryReceive adds the client whose request it is ...
LEMMA ReceiveUnanswered ==
  ASSUME HandsOver, Receive PROVE Unanswered' = Unanswered \cup {Head(rcq).from}
<1> DEFINE h == Head(rcq)
<1>1. /\ rcq \in Seq([buf : Buffers, from : Clients]) /\ rcq # <<>> /\ DistinctBufs(rcq)
      /\ sq' = sq /\ peer' = [peer EXCEPT ![h.buf] = h.from]
  BY Zenon DEF Receive, HandsOver, TypeOK, BufferInOnePlace, DistinctBufs, sends
<1>2. h \in [buf : Buffers, from : Clients] /\ h = rcq[1] /\ 1 \in DOMAIN rcq
  BY Zenon, <1>1, TailBufs, TailFacts
<1>3. h.buf \in Buffers /\ h.from \in Clients /\ ~Received(h.buf)
  BY Zenon, <1>2, CompletedOnce DEF Completed
<1>4. peer'[h.buf] = h.from /\ \A b \in Buffers : b = h.buf \/ peer'[b] = peer[b]
  BY Zenon, <1>1, <1>3 DEF HandsOver, TypeOK
<1>5. \A b \in Buffers : Received(b)' <=> Received(b) \/ b = h.buf
  BY Zenon, ReceiveReceived
<1>6. ASSUME NEW c \in Clients
      PROVE  (\E b \in Buffers : Received(b)' /\ peer'[b] = c)
             <=> c = h.from \/ \E b \in Buffers : Received(b) /\ peer[b] = c
  BY <1>3, <1>4, <1>5, Zenon
<1> QED
  BY <1>1, <1>3, <1>6, Zenon DEF Unanswered

\* ... and disturbs no worker's reply.
LEMMA ReceiveReplying == ASSUME HandsOver, Receive PROVE Replying' = Replying
<1> DEFINE h == Head(rcq)
<1>1. /\ rcq \in Seq([buf : Buffers, from : Clients]) /\ rcq # <<>> /\ DistinctBufs(rcq)
      /\ UNCHANGED <<sq, wpc, mine>> /\ peer' = [peer EXCEPT ![h.buf] = h.from]
  BY Zenon DEF Receive, HandsOver, TypeOK, BufferInOnePlace, DistinctBufs, sends, workers
<1>2. h \in [buf : Buffers, from : Clients] /\ h = rcq[1] /\ 1 \in DOMAIN rcq
  BY Zenon, <1>1, TailBufs, TailFacts
<1>3. h.buf \in Buffers /\ Completed(h.buf, h.from)
  BY Zenon, <1>2 DEF Completed
<1>4. ASSUME NEW w \in Workers, wpc[w] = "reply" PROVE peer'[mine[w]] = peer[mine[w]]
  BY Zenon, <1>1, <1>3, <1>4, ServedOnce DEF HandsOver, TypeOK
<1> QED
  BY Zenon, <1>1, <1>4 DEF Replying

\* A worker that has a send buffer serves a client that no send buffer is in
\* use for.
LEMMA AllocReplying ==
  ASSUME HandsOver, OneForEach, NEW w \in Workers, AllocSend(w), sendFree # 0
  PROVE  /\ peer[mine[w]] \in Clients \ Replying
         /\ Replying' = Replying \cup {peer[mine[w]]}
<1> DEFINE a == peer[mine[w]]
<1>1. /\ wpc[w] = "alloc" /\ wpc'[w] = "reply"
      /\ \A v \in Workers : v = w \/ wpc'[v] = wpc[v]
      /\ UNCHANGED <<sq, mine, peer>>
  BY Zenon DEF AllocSend, HandsOver, TypeOK, requests
<1>2. mine[w] \in Buffers /\ Received(mine[w])
  BY Zenon, <1>1, ServedOnce
<1>3. /\ a \in Clients /\ a \notin Range(sq)
      /\ \A d \in Buffers : Received(d) /\ peer[d] = a => d = mine[w]
  BY Zenon, <1>2, ReceivedOnce DEF HandsOver
<1>4. ASSUME NEW v \in Workers, wpc[v] = "reply" PROVE peer[mine[v]] # a
  <2>1. /\ mine[v] \in Buffers /\ Received(mine[v])
        /\ \A x \in Workers : mine[x] = mine[v] => x = v
    BY Zenon, <1>4, ServedOnce
  <2> QED
    BY Zenon, <1>1, <1>3, <1>4, <2>1
<1> QED
  BY Zenon, <1>1, <1>3, <1>4 DEF Replying

\* The answer takes the place of the request.
LEMMA ReplyUnanswered ==
  ASSUME HandsOver, OneForEach, NEW w \in Workers, Reply(w)
  PROVE  Replying' = Replying /\ Unanswered' = Unanswered
<1> DEFINE a == peer[mine[w]]
<1>1. /\ wpc[w] = "reply" /\ wpc'[w] = "free"
      /\ \A v \in Workers : v = w \/ wpc'[v] = wpc[v]
      /\ UNCHANGED <<mine, peer>> /\ sq \in Seq(Clients) /\ sq' = Append(sq, a)
  BY Zenon DEF Reply, HandsOver, TypeOK, requests
<1>2. mine[w] \in Buffers /\ Received(mine[w]) /\ a \in Clients
  BY Zenon, <1>1, ServedOnce DEF HandsOver, TypeOK
<1>3. Range(sq') = Range(sq) \cup {a}
  BY <1>1, <1>2, AppendSet
<1>4. \A b \in Buffers : Received(b)' <=> Received(b) /\ b # mine[w]
  BY Zenon, ReplyReceived
<1>5. Replying' = Replying
  BY Zenon, <1>1, <1>2, <1>3 DEF Replying
<1>6. ASSUME NEW c \in Clients, c # a
      PROVE  (\E b \in Buffers : Received(b)' /\ peer'[b] = c)
             <=> \E b \in Buffers : Received(b) /\ peer[b] = c
  BY Zenon, <1>1, <1>4, <1>6
<1> QED
  BY Zenon, <1>1, <1>2, <1>3, <1>5, <1>6 DEF Unanswered

\* An answer that leaves, or is lost, is the client's only one.
LEMMA AnswerUnanswered ==
  ASSUME HandsOver, OneForEach, Answer \/ AnswerLost
  PROVE  /\ Replying' = Replying \ {Head(sq)} /\ Head(sq) \in Replying
         /\ Unanswered' = Unanswered \ {Head(sq)} /\ Head(sq) \in Unanswered
<1> DEFINE a == Head(sq)
<1>1. /\ sq \in Seq(Clients) /\ sq # <<>> /\ sq' = Tail(sq)
      /\ UNCHANGED <<work, queued, mine, wpc, peer>>
  BY Zenon DEF Answer, AnswerLost, HandsOver, TypeOK, poller, queues, workers, requests
<1>2. a \in Clients /\ a \in Range(sq) /\ Range(sq) = Range(sq') \cup {a}
  BY Zenon, <1>1, TailFacts, TailSet
<1>3. OneFor(a)
  BY Zenon, <1>2 DEF OneForEach
<1>4. a \notin Range(sq')
  BY Zenon, <1>1, <1>3, OnceInTail DEF OneFor
<1>5. \A b \in Buffers : Received(b) => peer[b] # a
  BY Zenon, <1>2, <1>3, CarriesIs DEF OneFor
<1>6. SameReceived
  BY Zenon, <1>1, OtherReceived
<1>7. \A w \in Workers : wpc[w] = "reply" => mine[w] \in Buffers /\ Received(mine[w])
  BY Zenon, ServedOnce
<1>8. Replying' = Replying \ {a} /\ a \in Replying
  BY Zenon, <1>1, <1>2, <1>4, <1>5, <1>7 DEF Replying
<1> QED
  BY Zenon, <1>1, <1>2, <1>4, <1>5, <1>6, <1>8 DEF Unanswered, SameReceived

\* A free buffer is posted, and can take a request.
LEMMA PostFreeTaken ==
  ASSUME HandsOver, PostFree, rcq' = rcq
  PROVE  root \in Taken /\ Taken' = Taken \ {root}
<1>1. /\ free # <<>> /\ root = Head(free) /\ root \in Buffers /\ free \in Seq(Buffers)
      /\ posted \in Seq(Buffers) /\ posted' = Append(posted, root)
  BY Zenon, RootFacts DEF PostFree, HandsOver, TypeOK
<1>2. root \in Range(free) /\ Range(posted') = Range(posted) \cup {root}
  BY <1>1, TailSet, AppendSet
<1>3. root \notin Range(posted)
  BY <1>1, <1>2, HeldFacts, PlaceNames, Apart DEF HandsOver, HeldIs
<1>4. root \notin Bufs(rcq)
  <2>1. PoolPl # CompletedPl
    BY Zenon DEF PoolPl, CompletedPl
  <2> QED
    BY <1>1, <1>2, <2>1, HeldFacts, PlaceNames, Apart DEF HandsOver, HeldIs
<1> QED
  BY Zenon, <1>1, <1>2, <1>3, <1>4 DEF Taken

\* A request that is received takes its buffer ...
LEMMA ReceiveTaken ==
  ASSUME HandsOver, Receive PROVE Taken' = Taken \cup {Head(rcq).buf}
<1> DEFINE b == Head(rcq).buf
<1>1. /\ rcq \in Seq([buf : Buffers, from : Clients]) /\ rcq # <<>> /\ DistinctBufs(rcq)
      /\ rcq' = Tail(rcq) /\ posted' = posted
  BY Zenon DEF Receive, HandsOver, TypeOK, BufferInOnePlace, DistinctBufs
<1>2. b \in Buffers /\ b \in Bufs(rcq) /\ Bufs(rcq') = Bufs(rcq) \ {b}
  BY Zenon, <1>1, TailBufs
<1>3. b \notin Range(posted)
  BY <1>2, HeldFacts, PlaceNames, Apart DEF HandsOver, HeldIs
<1> QED
  BY Zenon, <1>1, <1>2, <1>3 DEF Taken

\* ... and one that arrives takes a posted one.
LEMMA AskTaken ==
  ASSUME HandsOver, NEW c \in Clients, NEW w \in Workers, Ask(c, w)
  PROVE  Taken' = Taken
<1> DEFINE b == Head(posted)
           m == [buf |-> b, from |-> c]
<1>1. /\ posted \in Seq(Buffers) /\ posted # <<>> /\ posted' = Tail(posted)
      /\ rcq \in Seq([buf : Buffers, from : Clients]) /\ rcq' = Append(rcq, m)
      /\ DistinctBufs(rcq)
  BY Zenon DEF Ask, HandsOver, TypeOK, BufferInOnePlace, DistinctBufs
<1>2. b \in Buffers /\ b \in Range(posted) /\ Range(posted) = Range(posted') \cup {b}
  BY Zenon, <1>1, TailFacts, TailSet
<1>3. b \notin Bufs(rcq)
  BY <1>2, HeldFacts, PlaceNames, Apart DEF HandsOver, HeldIs
<1>4. Bufs(rcq') = Bufs(rcq) \cup {b}
  BY Zenon, <1>1, <1>2, <1>3, AppendBufs
<1> QED
  BY Zenon, <1>2, <1>4 DEF Taken

\* With nothing in the pool, a buffer that is taken has a request that was
\* received, or a worker is about to free it.
LEMMA TakenWhere ==
  HandsOver /\ root = 0
     => \A b \in Taken : Received(b) \/ \E w \in Workers : wpc[w] = "free" /\ mine[w] = b
<1> SUFFICES ASSUME HandsOver, root = 0, NEW b \in Taken
             PROVE  Received(b) \/ \E w \in Workers : wpc[w] = "free" /\ mine[w] = b
  BY Zenon
<1>1. b \in Buffers /\ b \notin Range(posted) /\ b \notin Bufs(rcq)
  BY Zenon DEF Taken
<1>2. Range(free) = {}
  <2>1. free \in Seq(Buffers) /\ (free # <<>> => Head(free) = 0)
    BY Zenon DEF HandsOver, TypeOK, LinksAreLists
  <2>2. free # <<>> => Head(free) \in Buffers
    BY Zenon, <2>1, TailFacts
  <2> QED
    BY <2>1, <2>2, NullIsNone DEF Range
<1>3. PICK pl \in Places : b \in Held[pl]
  BY Zenon, <1>1 DEF HandsOver, BufferInOnePlace
<1>4. pl # PoolPl /\ pl # PostedPl /\ pl # CompletedPl
  BY <1>1, <1>2, <1>3, HeldFacts, Zenon DEF HeldIs
<1>5. CASE pl = PollerPl
  BY Zenon, <1>3, <1>5, HeldFacts DEF HeldIs, Received
<1>6. ASSUME NEW w \in Workers, pl = QueuePl(w) PROVE Received(b)
  BY Zenon, <1>3, <1>6, HeldFacts DEF HeldIs, Received, InQueue
<1>7. ASSUME NEW w \in Workers, pl = ServingPl(w) PROVE Received(b) \/ (wpc[w] = "free" /\ mine[w] = b)
  <2>1. mine[w] = b /\ mine[w] # 0
    BY Zenon, <1>3, <1>7, HeldFacts DEF HeldIs
  <2>2. wpc[w] \in {"alloc", "reply", "free", "abort"}
    BY Zenon, <2>1 DEF HandsOver, HoldsWhileBusy
  <2> QED
    BY Zenon, <2>1, <2>2 DEF Received, Served
<1> QED
  BY <1>4, <1>5, <1>6, <1>7, PlaceNames, Zenon

\* The same after a step.
LEMMA TakenWhereNext ==
  (HandsOver /\ root = 0
     => \A b \in Taken : Received(b) \/ \E w \in Workers : wpc[w] = "free" /\ mine[w] = b)'
  BY TakenWhere, PTL

=============================================================================
