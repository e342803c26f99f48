# A TLA+ verification of NVDS

NVDS is a key/value store that replicates over RDMA: servers hold tablets of
(emulated) NVM, clients send requests over unreliable datagrams, and every
change of a master tablet is written into the memory of its backups with RDMA
writes. This directory models the system in TLA+. TLC checks small instances,
TLAPS proves theorems for all values of the constants. Paths below are relative
to the repository's `src/` directory; `PROJECT.json` maps every definition to
the lines it models.

## 1. The system

| part | state | operations | what must hold |
| --- | --- | --- | --- |
| Allocator (`allocator.*`) | boundary-tagged heap and segregated free lists inside a tablet, list of modifications | Format, Alloc, Free; split, merge, unlink | blocks tile the heap; tags, footers and lists agree; objects are never touched; all stores are logged |
| Tablet (`tablet.*`) | hash table of chained objects in that heap | Put, Add, Get, Del | a map from keys to values; chains and allocated blocks agree |
| Replication (`tablet.cc` Sync, MergeModifications) | modification list, queue pairs to the backups | merge, post, poll | the merged list covers all changes; a completion means that the write was applied; the worker returns |
| Request path (`server.*`, pools of `infiniband.*`) | work queues, buffer pools, condition variable | poll, dispatch, serve, reply | every request received is answered once; no buffer is lost or shared; no wake-up is missed |
| Index (`index.*`) | tablets, servers, key map | AddServer, GetServer | each master has kNumReplicas backups on other servers; a key's requests reach its master |
| Coordinator (`coordinator.*`) and joining (`server.cc` Join, `client.cc` Join) | sessions, number of servers | REQ_JOIN of servers and clients, one collective answer | all get the same index; queue pairs meet; nobody waits for ever |
| Client (`client.*`) | two pools, one queue pair | request and wait | one outstanding request, answered by its own answer |
| Sessions, messages (`session.*`, `message.*`) | TCP connections, JSON bodies | send, receive | framing |
| Verbs wrapper (`infiniband.*`) | queue pairs, completion queues, address handles | post, poll, change of state | |
| Hashing (`MurmurHash2.*`, `hash.h`) and routing (`index.h`) | a hash, a tail of up to three bytes | hash at once or in pieces, hash to tablet | variants agree; keys that differ a little get different hashes; every hash finds its slice |
| Experiments (`experiments/`, `../cs/`) | queue pairs, flags, counters of posted receives | ping-pong, latency of sends, writes and reads, multicast | no queue is overrun, the sides stay in step, all is released, the programs end |

How they interact: a client hashes its key, looks up the server in its copy of
the index and sends a datagram. The server's poller thread takes it from the
receive queue and hands the buffer to the worker that owns the tablet. The
worker runs the operation on the tablet, whose allocator logs each store; Sync
merges the log and writes it to the backups; the worker posts the answer and
returns the receive buffer to its pool, from which the poller posts it again.

The behaviours that are hard to test: long sequences of allocations that leave
tags inconsistent; ranges that are merged in place; completions left over from a
failed operation; backups that die between two posts; three threads that share
`Buffer::next`; a worker that falls asleep while work is queued; pools at their
limit; servers that join, crash and are refused in any order. The hazards are
listed, each at its line, in `PROJECT.json`.

## 2. The modules

```
Allocator <- AllocatorSpec <- AllocatorProofs          heap of a tablet
    ^              ^
 HeapLemmas <- HeapProofs <- HeapTheorems
 Allocator
    ^
  Tablet <- TabletSpec (refines KeyValue) <- MCTablet   hash table over the heap
                ^
  Merge ----> Replication <- MCReplication              tablet, merging and a backup
    ^
 MergeSpec <- MCAlgorithms                              merging against a definition,
                 uses MurmurHash, KeyRouting            hashing, hash to tablet
  Sync <- SyncProofs                                    posting, polling, crashes
  Server <- MCServer                                    poller, workers, pools, clients
    ^
 ServerProofs <- ServerCounts
  IndexManager <- Cluster <- ClusterProofs              coordinator, joining, queue pairs
  Latency <- MCExperiments                              the measuring programs
                 uses PingPong, Multicast
```

(`A <- B`: B extends A; "uses": through INSTANCE.)

**Allocator** describes the heap as a record: `mem` (offset to word), the
modification list `mods` and `abort`, which names the assertion or the invalid
access that ended the process. Each method is an operator from heap to heap that
follows the code store by store; every store appends to `mods` as
`Allocator::Write` and `Memcpy` do. Words are integers; the free bit is
`kFreeMask`, a constant, as TLC's integers have 32 bits. `kNumFreeLists`, the size
of the region and the largest block are parameters. Offsets that the code takes
for null trip `assert(offset)` and are modelled as such.
**AllocatorSpec** adds the user of the allocator: `AllocObject` fills what it gets,
`FreeObject` returns it; `live` is what the user believes to hold.

**Tablet** has Put, Add, Get and Del as operators over that heap: search along a
chain, overwriting in place when the new value is shorter, replacing, inserting
at the head, unlinking. `Del` yields `SPIN` where the loop of the code does not
advance. The lengths of key and value share a word, `key_len + 65536 * val_len`;
an object's data are words. **TabletSpec** is the worker that executes one
request after the other. **KeyValue** is the abstract specification, the map that
`client.h` describes; it may stop for good, as a tablet whose assertion fails does
("handle the situation: no space").

**Merge** is MergeModifications: selection by swapping, then the pass that
overwrites the list it reads. **MergeSpec** grows lists one modification at a time
and compares with a definition by clusters and hulls.

**Replication** composes TabletSpec and Merge with the memory of a backup.
`SyncBackup` sends what the code sends, the first merged range; the auxiliary
`mirror` is sent the complete list.

**Sync** abstracts the data away and keeps the two loops of `Tablet::Sync`: one post
per backup, one polled completion per queue pair, the exceptions that leave both
loops, and `Worker::Serve`, which goes on after them. Queue pairs are modelled from
how Sync uses them: in-order writes, acknowledgement after the write was applied,
an error completion and the error state when the peer is gone, a send queue slot
held until the completion is polled.

**Server** has the poller (`ppc`), the workers (`wpc`), the work queues as linked lists
through `next`, which also links the pool of receive buffers, the mutex and the
condition variable of each worker, receive and send queues with their completion
queues, and clients that have one request outstanding. The fabric may lose a
request or an answer; the code has no retry, so that client waits for ever. A region protected by a
lock is one step; Enqueue with the mutex held, Notify, the test of the wait
predicate and falling asleep are steps of their own.

**IndexManager** is the index as AddServer builds it; **Cluster** the coordinator, the
join of servers and clients, the queue pairs each server connects by itself, and
crashes of servers. The union of `master` and `backups` in TabletInfo is kept:
both are the field `link`.

**MurmurHash** has every function of `MurmurHash2.cc` and the incremental hasher
`CMurmurHash2A`, whose `Add` and `End` are actions (`Begin` is the initial state). Arithmetic is modulo the
word; a byte has `ByteBits` bits instead of 8, and the shifts keep their proportions.
**KeyRouting** is `GetTabletId` with the three roundings of its floating-point division
spelled out, on hashes of `HashBits` and doubles of `Mantissa` bits. **MCAlgorithms**
puts these two and MergeSpec into one run; `part` says which one moves.

**PingPong** is `udpp.c`: the exchange of addresses over TCP, then one datagram that is
answered to and fro, with `routs` and `pending` as the program's own accounting, in
polling mode or sleeping on completion events. **Latency** holds the programs
`write_rc`, `send_rc`, `send_rc_unsignaled`, `send_ud`, `write_rc_unsignaled`,
`write_rc_multi` and the `rdma` pair of `cs/`: each is a short script (`X_ctx`,
`X_connect`, `X_server`, `X_client`), and the calls they share are actions that
interpret its steps; any call of setting up may fail (`CallFails`), and what the other
side then finds on its TCP connection is in `sock`. **Multicast** is mckey (`ud.c`): a chain of calls in two event
handlers, any of which may fail, and the clean-up. `cs/udpp.c` and `cs/ud.c` are copies
of the files in `experiments/`. **MCExperiments** starts one of the three.

Definitions whose names say what goes wrong (`AcceptsWhenFull`, `PollOnce`,
`WidthOffByOne`, ...) stand before the definition they vary. They are plausible
mistakes; no specification uses them. `PROJECT.json` pairs each with the property that
notices it.

## 3. The runs

Every run is listed in `PROJECT.json` with its properties. Run
`tlc -config X.cfg M`; each takes between some seconds and two minutes.

| run | module, config | instance | shows |
| --- | --- | --- | --- |
| allocator | AllocatorSpec, `Allocator.cfg` | heap of eleven 16-byte units, three object sizes, 4 size classes and the list of larger blocks | tags, footers, lists and user data stay coherent (`FreeTagsAgree` has both tags and the footer); every store is logged; of the assertions only `assert(offset)` can fail |
| tablet | MCTablet, `Tablet.cfg` | 3 keys in 2 slots, one key a prefix of another, values of three lengths, none with which an object reaches the footer of its block | chains are sound and own exactly the allocated blocks; the tablet refines KeyValue |
| algorithms | MCAlgorithms, `Algorithms.cfg` | all lists of up to 4 ranges: empty, equal, nested, adjacent, on both sides of the gap; keys of up to 9 two-bit bytes, in pieces of up to 5; 10-bit hashes, 6-bit mantissas, 1 to 7 tablets | the merged list is the hulls of the clusters; the pieces a key is fed in do not matter; variants agree; keys that differ in a byte have different hashes; a hash is routed to its slice but for rounding at the borders |
| replication | MCReplication, `Replication.cfg` | 2 keys on one chain, values of two lengths | the complete merged list keeps a backup equal to the master |
| sync | Sync, `Sync.cfg` | 3 backups, 2 send queue slots, 4 operations, crashes and oversized ranges at any time | a normal return means that all backups applied this operation; the place in the loops tells what is in the queues; failures cut off later backups only; the worker returns |
| server | MCServer, `Server.cfg` | 2 clients, 2 workers, 7 buffers per pool, 1 datagram lost | queue and pool links are safe; one answer per request; no pool runs dry and nothing is dropped after start-up (`BuffersSuffice`); every request received is answered, and a lost datagram harms only its own client |
| cluster | Cluster, `Cluster.cfg` | 2 places with 2 tablets and 1 replica each, 3 server processes, 1 client, 1 crash | same index for all, ids agree, queue pairs meet, requests reach the master; nobody waits for ever once the cluster is complete, and the backups of a server that serves get ready |
| experiments | MCExperiments, `Experiments.cfg` | udpp with 5 iterations and 3 receives; 14 rounds with send queues of 3 and 2 queue pairs; mckey with 2 nodes and 2 messages; in each of the three one lost message and one failing call; sleeps of any length; one removed device | the programs' own counting never overruns a queue, no message finds the other side without a receive, the sides take turns, resources are released in order, all of them end; the properties name the losses, failures and short sleeps after which they do not |

Four runs show that the code differs from what the repository says of it:

| run | what TLC finds |
| --- | --- |
| allocator_leak | `AllocBlock` writes through a null `next` (`allocator.cc:42`) and so empties the list of 32-byte blocks; the blocks on it are never allocated again |
| allocator_footer | an object may fill its block, footer included. The release of the block behind reads the footer as a size, unlinks through user data and files a block that does not exist, silently: the assertion of `RemoveBlock` (`allocator.cc:89`) reads the word that `FreeBlock` has just tested. A later `AllocBlock` is given that block and fails its assertion (`allocator.cc:36`) |
| tablet_del | `Del` of a key that is not the first of its chain never returns (`tablet.cc:151`) |
| replication_first_range | Sync leaves its loop after the first range (`tablet.cc:210`), so a backup differs from its master after the first Put |

More that the models show and that no property is written for:

- A split that leaves 16 bytes reads the free list at offset 0, which
  `assert(offset)` rejects (`allocator.cc:122`); the allocator and tablet runs stop
  there, as the program does (`heap.abort = "offset"`).
- A client that asks before all servers have joined ends the coordinator
  (`coordinator.cc:126`, marked "handle this error!").
- A server serves when its own queue pairs are set up, which may be before its
  peers have connected theirs.
- A range longer than the inline limit of 128 bytes is refused by `ibv_post_send`;
  Serve answers OK, and no backup has the item (`server.cc:244`).
- With two or more replicas, once a backup has failed, completions of the ones
  after it are no longer polled; they receive kMaxIBQueueDepth more writes at most.
  With three, the full queue then makes Sync throw in its first loop and leaves the
  write to an earlier, healthy backup unpolled; `EarlierBackupsCurrent` excludes full
  queues for this reason. `kNumReplicas` is 1 in `common.h`.
- The quotient in `GetTabletId` rounds up to the size of the map for the largest hashes,
  about the last thousand of 2^64, and indexes one past its end (`index.h:43`).
  `RoutedToSlice` says exactly which hashes these are.
- `send_rc_unsignaled` signals every send, in spite of its name.
- `write_rc` has no sleep: its client may write before the server is ready and then
  depends on the retries of its queue pair. `NothingRefused` excepts requests that
  run out of them.
- The sleeps of the clients are needed in `send_ud`, `write_rc_unsignaled` and
  `write_rc_multi` and superfluous in `send_rc` and `send_rc_unsignaled`, where reliable
  sends wait for the receives. In `write_rc_multi` it is a millisecond between two
  connections, for each of which the server listens anew: when that is too short,
  `connect()` fails and the client stops. `NothingRefused`, `NothingUnheard` and `AllEnd`
  except exactly these programs, and only when a sleep was over too early (`late`);
  `TakesTurns` excepts nothing.
- mckey deregisters a null memory region when the registration of a buffer failed
  (`ud.c:251`), overwrites its return value at `out`, and polls for ever when a message is
  lost or a node is thrown out of the group during the transfer (`ud.c:292`).
  `ReleasedInOrder` and `AllEnd` name the first and the last as their only exceptions.
- In `BuffersSuffice` the receives need `2 * clients + workers + 1` buffers: with 6
  instead of 7 in the instance above TLC finds a request that meets an empty receive
  queue, because a client has its answer before its buffer is posted again. With 128
  buffers and one worker that allows 63 clients. The send pool needs `clients + 1`. Both
  bounds are proved to suffice (section 4); that less does not was found by TLC, for the
  first with one to three clients and one or two workers, for the second with one and
  two clients.
- Before Poll has posted its receives a request is dropped, and the client, which
  has no timeout, waits for ever (`AskDropped` while `ppc = "fill"`).
- `MergeModifications` says "n <= 12" (`tablet.cc:251`); TLC meets lists of more than 18
  in the tablet.

### Bounds

- Heaps are large enough for every kind of split, for merging with neither, either
  and both neighbours, for blocks above kMaxBlockSize and for running out of space.
  In `Allocator.cfg` objects leave the last word of their block alone, which is what
  the footer needs; `AllocatorFooter.cfg` lifts that.
- The same holds in `Tablet.cfg` and `Replication.cfg`: the values have 0, 3 and 4 words
  and the keys 1 and 2, so that no object reaches the footer of its block. `MCTablet` and
  `MCReplication` assume it by name (`ObjectsSpareFooters` of TabletSpec). It is a real
  restriction: a value of 2 words with a key of 1 fills a block of 32 bytes, and with it
  the footers that `ChainsOwnBlocks` speaks of are user data.
- Keys and values are chosen so that one slot has a chain of up to two objects, Put
  meets shorter, equal and longer values, and the heap overflows.
- Four modifications make up to four clusters; the distances 16 and 20 are on either
  side of the gap. Operations log more than four stores; the replication run merges
  those lists as they occur.
- Two send queue slots and four operations fill a queue and go on; three backups are
  the least for which one before and one after a failed one exist.
- Two workers share the send pool and the poller; two clients make a queue of two,
  the least in which `next` is read.
- Three processes for two places meet the refusal; crashes come at every step. Numbers
  of tablets and replicas differ, so that they cannot be mistaken for each other. Other
  shapes of the cluster, with more servers and replicas, are left to the proofs.
- Nine bytes are two whole words of four and a tail of one; pieces of up to five bytes
  begin, fill and skip a tail. Two values of a byte, all bits clear and all set, make
  a difference in every bit position of a byte.
- Ten-bit hashes and six-bit mantissas lose four bits where 64 and 53 lose eleven: the
  roundings happen in both directions, and with ties.
- Five iterations and three receives make `routs` fall below its mark and be refilled;
  14 rounds with send queues of three go round the cycle of signaled requests twice on
  each of two queue pairs.

### Views

`MCTablet` and `MCServer` give TLC a VIEW. In `MCTablet` it masks words no operation
reads before it writes them: the remains of objects in free blocks and the padding
between an object and the footer. Footers are never masked, as FreeBlock reads the one of
the block before. In `MCServer` it forgets the names of buffers: while
`HandsOver` holds, which the same run checks and `BuffersHandedOver` proves, a step depends
only on the contents of the buffers in each place and on how many are free and
posted; properties and fairness name no buffer.

### Fairness

- Cluster: a process that was started goes on and the coordinator's event loop gets
  to each request it received; nothing says that a process is ever started.
- Sync: the worker thread runs, and the adapter completes every request it has
  accepted, with success or with an error after its retries.
- Server: weak fairness for each thread and for the adapter's sends; strong fairness
  for the poller's attempt to take a worker's mutex, as otherwise spurious wake-ups
  could for ever win the race for it. Spurious wake-ups themselves are not fair, and
  neither is the loss of datagrams.
- Experiments: weak fairness for each process, for each adapter and for the connection
  manager's answers; failures, losses and removals are not fair, and a process that can
  only go on by a failing call is not bound to get one. Time is not modelled: a sleep is a
  step that may end at any moment, and `late` records that the other side was not yet
  where its comment expects it ("waiting for server to get ready").

`CHECK_DEADLOCK FALSE` stands where the system may stop: an aborted or spinning
tablet, a complete cluster, programs that have exited, the last operation of a
bounded run.

## 4. The proofs

`AllocatorProofs` proves, for every heap size, every number of size classes and every
set of object sizes and fill words that `SizeAssumption` and `UserAssumption` admit:

- `TypeCorrect`: `Spec => []TypeOK`. The heap stays a heap and the user never holds the
  null offset.
- `ModificationsComplete`: `Spec => ModificationsCover`. Every word an operation changes
  is in the modification list it leaves to Sync, also when the process dies in the
  middle and when corrupted tags lead it astray.

Both rest on the relation `Tracks(m, h)`: h is a heap, and where it differs from the
memory m at the start of the operation its list says so. `WriteTracks` and
`WriteRangeTracks` show that the two operators that change memory preserve it; one
lemma per method follows the composition of stores. TypeOK is inductive by itself.

`HeapLemmas`, `HeapProofs` and `HeapTheorems` prove, for every heap size, every number of
size classes and every sequence of operations:

- `AssertionsHold`: `Spec => []OnlyOffsetAssertFails`. The assertions of RemoveBlock,
  SplitBlock and AllocBlock hold, and no tag leads outside the tablet.
- `ObjectsKept`: `Spec => []LiveDataIntact`.
- `TagsTile`: `Spec => []BlocksTileHeap`; `TagsAgree`: `Spec => []FreeTagsAgree`;
  `ListsSound`: `Spec => []FreeListsSound`.

All five assume `ObjectsSpareFooters`: an object ends before the last word of its block.
Nothing in the code sees to that. The run `allocator_footer` shows that without it
`AssertionsHold` fails; with it, all the rest of the bookkeeping is right. The sizes of
`Allocator.cfg` satisfy it. `SizeAssumption` asks that a block larger than `kMaxBlockSize`
fits behind the list heads, without which Format would put its one block on the wrong list
(the tablet has megabytes, and `kMaxBlockSize` is about one kilobyte).

None of the five is inductive. Blocks are found by a walk along the size tags, which one
wrong word sends anywhere, so an invariant that mentions the walk cannot be followed
through the stores of an operation. The invariant, `HeapInv`, says instead that there
are a set B of block addresses and their sizes s such that (`Sound`)

- the blocks tile the heap (`Layout`: the first begins behind the list heads, and each ends
  where another one or the last tag begins);
- each block is marked (`Marked`: its size in its header and in its footer, and the free tag
  behind it set if and only if it is not in use);
- neighbours on a list name each other, are free and of one class, and the head of a list has none
  before it (`Links`). That says nothing about which free blocks are on lists: AllocBlock
  loses some of them (run `allocator_leak`), and stays within `Links` in doing so;

and that the blocks in use are those of the objects, with their contents in place (`Kept`,
`Blocked`). `Sound` names neighbours only, and B is changed by name: `JoinLayout` and
`CutLayout` are coalescing and splitting. In the middle of an operation it holds but for
the blocks under construction (`Part`), whose number is one or two; the lemmas of
`HeapLemmas` take RemoveBlock, SplitBlock and FreeBlock from one such state to the next,
store by store, in the order of the code. The lemmas of `HeapProofs` do the same for AllocBlock and
the stores of the user, and end in `InitGood` and `NextGood`.

`HeapTheorems` goes back from B to what the properties speak of: the walk meets exactly B
(`BlocksAre`), and a list is a chain without repetition and so ends within the number of blocks
(`ChainEnds`, by the pigeonhole principle). Walk and list are recursive functions. That
they exist and what they return is proved by taking the least counterexample (`Least`),
which is what the provers can do of induction over data.

`SyncProofs` proves for every number of replicas, every depth of the send queues and
every number of operations (`SyncAssumption` asks only that the first two are positive),
with backups that crash at any moment:

- `QueuesMatch`: `Spec => []LoopsMatchQueues`.
- `SyncSound`: `Spec => []SyncedMeansApplied`. A Sync that returns normally has every
  backup hold the write of this operation, although all requests have one wr_id.

The last is not inductive: nothing in it says whose completion waits in a
queue. The inductive invariant is `LoopsMatchQueues`. While all queue pairs are intact
(`Clean`), the phase and the index k determine the queues: before k in the first loop,
and from k on in the second, exactly the write of this operation is outstanding, and
elsewhere nothing is. Once a queue pair has failed (`Stuck`), some backup e at or after k
in the second loop has only errors to be polled, and so no later Sync gets to its end.
`FirstFailure` is the step between the two: the queue that fails first had no
completion waiting. One lemma per action does types, `Clean` and `Stuck`. The invariant is
also checked by the run sync, with three backups. Operations are bounded by `MaxOps`, which
is any natural number.

- `EarlierKeepUp`: `Spec => []EarlierBackupsCurrent`. A failure cuts off only the backups
  after it, as long as no send queue is full.

`EarlierBackupsCurrent` is about queues after a failure, of which `LoopsMatchQueues` says
little. `EarlyInv` adds, for every backup that is intact with all before it, that its queues
and `applied` are where the loops have come to (`EarlierServed`); unless a full queue is in
the way (`Blocked`), which then stays full, as no Sync gets as far as polling it.

`ServerProofs` and `ServerCounts` prove, for any number of clients, workers, buffers and lost
datagrams (`ServerAssumption` asks only that there are some of the first three):

- `BuffersHandedOver`: `Spec => []HandsOver`. Every receive buffer is in exactly one place
  (`BufferInOnePlace`, a part of it). The poller, the workers and the pool write the same field
  `Buffer::next`; each work queue and the free list is nevertheless a list that ends, in
  the order the buffers were handed over.
- `OneAnswerForEach`: `Spec => []OneAnswerEach`.
- `BuffersAlwaysSuffice`: `Spec => BuffersSuffice` if the sets are finite and
  `2 * clients + workers + 1 <= kMaxIBQueueDepth`. This hypothesis is not one of the code:
  nothing in it limits the clients, and TLC shows that with one buffer less requests are
  dropped.

`HandsOver` is inductive as a whole and none of its parts is: that a store to `next`
disturbs no other list needs `BufferInOnePlace`; that Dequeue and Alloc move the buffer the
history variables say needs `LinksAreLists`; and that a worker's buffer is its own needs
`HoldsWhileBusy`. `OneAnswerEach` is inductive together with it, stated without sets of
pairs as `OneForEach`. The bound counts (`Counted`): every round of Poll takes one request,
reaps one send and posts one buffer, so what waits for the poller is bounded by the clients
and workers that can be busy, plus the round under way. Cardinalities of the sets involved
are followed action by action.

`ClusterProofs` proves, for every number of servers, tablets and replicas
and any number of processes and clients that `ClusterAssumption` admits (`kNumReplicas <
kNumServers`; no process is both a client and a server), with servers that crash at any
moment and processes that are refused:

- `EachFindsItself`: `[]IdsMatchIndex`; `AllHoldSameIndex`: `[]SameIndex`.
- `LayoutsAreComplete`: `[]LayoutComplete`. The calls of AddServer fill in exactly one table,
  in which every master has its backups on `kNumReplicas` different other servers.
- `RequestsFindTheirMaster`: `[]RequestsReachMasters`.
- `QueuePairsMeet`: `[]QueuePairsPaired`, with which no assertion of SettingupQPConnect fails.

Its first half is about the arithmetic of tablet ids, which number servers, replicas and
tablets mixed-radix, and about the ring of servers that AddServer walks: `IndexUpTo(im, n)`
says what the tables hold after n calls and is preserved by one more (`Added`). The
invariant of joining, `JoinInv`, says that the coordinator's index is `IndexUpTo` of the
servers it has heard of, that the sessions that wait are in the order of their ids, and
that what was answered is that complete index and the id in it. The invariant of
connecting, `ConnInv`, says that a server connects its tablets in order, so that the state
of every queue pair is a function of how far its server is (`EndState`); that two ends
meet is then a fact about the index alone (`OneSender`, `SentTo`, `HeardFrom`). Both were
checked with TLC before they were proved, also with three servers, two replicas and two
tablets.

Model-checked only:

- liveness (`JoinsAnswered`, `BackupsGetReady`, `WorkerReturns`, `RequestsAnswered`, `AllEnd`)
  and with it the fairness assumed: TLAPS does not do fairness and ENABLED here;
- the tablet: chains (`ChainsSound`, `ChainsOwnBlocks`) and the refinement of KeyValue. They
  would build on `Sound`, with the objects of the hash table in place of `live`;
- merging (`MergeIsClustering`, `MergedSuffices`), hashing and routing: loops over sequences
  and bytes, written as folds and recursive functions and, for the hashes, with bitwise
  operators and products of words, for which the provers have too little arithmetic;
- the invariants of the experiments.

## 5. What is not modelled

- Hashes and tablets together: in the tablet runs the slot of a key is a constant, in
  Cluster a part of the key space; MurmurHash and KeyRouting stand for themselves.
- 64-bit arithmetic: hashes, words and doubles have fewer bits, see the bounds.
- Restart of a server: nothing is persistent (NVM is an anonymous mapping), and a
  restarted server would ask to join as a further one.
- Duplicated datagrams, which the code is not prepared for; and reordering, as a client
  has one request outstanding and there is nothing to be reordered with.
- Session framing and the JSON encoding; a session is a connection with one request
  and one answer. A peer that resets its connection while its address is logged is
  left out.
- The cache of address handles, which workers use without a lock: the slots are
  pointers that are written once with a valid handle, and the loser of a race leaks one.
- Memory registration, devices, measurement, argument parsing, tests. They are calls
  into libraries and formatting, with no state that the rest depends on.
- The pools of a client, which hold at most one buffer each at a time.
- `ibud.c`: it initialises a datagram queue pair with access flags in place of a queue
  key, so its first `ibv_modify_qp` fails and nothing of it runs. `memc` measures another
  system. The earlier verbs wrapper is not compiled.
- The hash table is taken to be zero at the start, as fresh pages are: the
  constructor that would clear it is not run.
- `kNumReplicas < kNumServers` is assumed: with as many replicas as servers a tablet
  would be its own server's backup.

## 6. Plan

In this order:

1. *Tablet proofs*: `Tracks` carried on to Put, Add and Del, so that
   `ModificationsCover` holds for every tablet; then the chains, over `Sound`.
2. *Experiments proofs*: the counting of udpp and of the programs of Latency.
3. *Compositions*: Cluster with Sync (serving before the peers are connected); Server
   with KeyValue (what clients see of concurrent requests).
4. An abstract heap (a set of disjoint objects) that AllocatorSpec implements.
