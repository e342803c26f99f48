------------------------------ MODULE Multicast ------------------------------
(***************************************************************************)
(* mckey, src/src/experiments/ud.c: a process that joins a multicast group *)
(* with several nodes through the RDMA connection manager and then sends   *)
(* to the group, or receives from it.  Setting a node up is a chain of     *)
(* calls spread over two event handlers, any of which may fail; what was   *)
(* acquired by then is released on the way out.                            *)
(*                                                                         *)
(* The connection manager is external: it answers a resolution or a join   *)
(* by one event, of success or of failure, and may report the removal of   *)
(* the device.  The senders are external too: they send each node as many  *)
(* messages as it waits for, once it has joined.  Multicast is unreliable:  *)
(* any of the messages may be lost on the way.                             *)
(***************************************************************************)
EXTENDS Integers, Sequences, Functions

CONSTANTS connections, MessageCount, MaxErrors, MaxRemovals,
          MaxVanished  \* bound on the messages lost on the way

MulticastConstants ==
  /\ connections \in Nat \ {0} /\ MessageCount \in Nat
  /\ {MaxErrors, MaxRemovals, MaxVanished} \subseteq Nat

VARIABLES
  is_sender, unmapped_addr, src_addr, message_size,  \* the options
  message_count,
  phase,   \* where run is
  cur,     \* the i of the loop it is in
  node,    \* test.nodes
  connects_left, ret,
  cm,      \* what the connection manager does for a node
  events,  \* the event channel
  sent,    \* messages of the group sent to a node
  vanished, unheard, errors, removals

options == <<is_sender, unmapped_addr, src_addr, message_size>>
mvars == <<options, message_count, phase, cur, node, connects_left, ret, cm, events,
           sent, vanished, unheard, errors, removals>>

Nodes == 0 .. connections - 1

\* A cmatest_node after memset.
NoNode == [cma_id |-> FALSE, pd |-> FALSE, cq |-> FALSE, qp |-> FALSE, mem |-> "null",
           mr |-> FALSE, ah |-> FALSE, connected |-> FALSE, recvs |-> 0, polled |-> 0]

Init ==
  /\ is_sender \in BOOLEAN /\ unmapped_addr \in BOOLEAN /\ src_addr \in BOOLEAN
  /\ unmapped_addr => src_addr
  /\ message_size \in {0, 1}
  /\ message_count = MessageCount
  /\ phase = "alloc" /\ cur = 0
  /\ node = [i \in Nodes |-> NoNode]
  /\ connects_left = connections /\ ret = 0
  /\ cm = [i \in Nodes |-> "idle"]
  /\ events = <<>>
  /\ sent = [i \in Nodes |-> 0]
  /\ vanished = 0 /\ unheard = 0 /\ errors = 0 /\ removals = 0

\* A call fails.
Err == errors < MaxErrors /\ errors' = errors + 1

----------------------------------------------------------------------------
(* alloc_nodes and the start of run.                                       *)

\* rdma_create_id for the next node; if it fails, the ids created before it are
\* destroyed again, and main exits.
alloc_nodes ==
  /\ phase = "alloc"
  /\ \/ /\ node' = [node EXCEPT ![cur].cma_id = TRUE]
        /\ cur' = (cur + 1) % connections
        /\ phase' = IF cur + 1 = connections THEN "start" ELSE "alloc"
        /\ UNCHANGED errors
     \/ /\ Err
        /\ node' = [i \in Nodes |-> NoNode]
        /\ phase' = "exited" /\ UNCHANGED cur
  /\ UNCHANGED <<options, message_count, connects_left, ret, cm, events, sent, vanished,
                 unheard, removals>>

CallsReceivesLast(count) ==
  <<"params", "pd", "cq", "qp">> \o (IF count = 0 THEN <<>> ELSE <<"mem", "mr">>) \o <<"join">>
\* What addr_handler gets done before the call f fails: the calls in order,
\* the buffer only for messages, the receives only for a receiver.
Calls(count) ==
  <<"params", "pd", "cq", "qp">> \o (IF count = 0 THEN <<>> ELSE <<"mem", "mr">>)
  \o (IF is_sender \/ count = 0 THEN <<>> ELSE <<"recvs">>) \o <<"join">>
Did(calls, f) ==
  {calls[m] : m \in {m \in DOMAIN calls : \A l \in 1 .. m : calls[l] # f}}

\* init_node, create_message and post_recvs of a node.  A buffer that could
\* not be registered is freed, but the node keeps the pointer.
Built(nd, did, f, count) ==
  [nd EXCEPT !.pd = "pd" \in did, !.cq = "cq" \in did, !.qp = "qp" \in did,
             !.mem = IF f = "mr" THEN "freed" ELSE IF "mem" \in did THEN "held" ELSE "null",
             !.mr = "mr" \in did,
             !.recvs = IF "recvs" \in did THEN count ELSE 0]

\* message_size 0 means no messages at all, from the first create_message on.
CountFor(did) == IF message_size = 0 /\ "qp" \in did THEN 0 ELSE message_count
Count == IF message_size = 0 THEN 0 ELSE message_count

\* addr_handler, with f the call that fails or "none".
addr_handler(i, f) ==
  /\ IF f = "none" THEN UNCHANGED errors ELSE Err
  /\ f \in Range(Calls(Count)) \cup {"none"}
  /\ node' = [node EXCEPT ![i] = Built(@, Did(Calls(Count), f), f, Count)]
  /\ message_count' = CountFor(Did(Calls(Count), f))
  /\ cm' = IF f = "none" THEN [cm EXCEPT ![i] = "joining"] ELSE cm
Fails == {"none", "params", "pd", "cq", "qp", "mem", "mr", "recvs", "join"}

\* get_addr fails before anything is done for a node.
GetAddrFails ==
  /\ phase = "start" /\ cur = 0
  /\ Err
  /\ phase' = "destroy" /\ ret' = -1
  /\ UNCHANGED <<options, message_count, cur, node, connects_left, cm, events, sent,
                 vanished, unheard, removals>>

Started ==
  /\ cur' = (cur + 1) % connections
  /\ phase' = IF cur + 1 = connections THEN "events" ELSE "start"
  /\ ret' = 0 /\ UNCHANGED connects_left

\* An early return of run: no leaving, straight to destroy_nodes.
ReturnEarly(errs) ==
  /\ connects_left' = connects_left - errs
  /\ phase' = "destroy" /\ cur' = 0 /\ ret' = -1

\* rdma_bind_addr, or rdma_resolve_addr, fails.
StartFails ==
  /\ phase = "start"
  /\ src_addr \/ ~ unmapped_addr
  /\ Err
  /\ ReturnEarly(1)
  /\ UNCHANGED <<options, message_count, node, cm, events, sent, vanished, unheard, removals>>

\* rdma_resolve_addr is under way for the next node.
Resolve ==
  /\ phase = "start" /\ ~ unmapped_addr
  /\ cm' = [cm EXCEPT ![cur] = "resolving"]
  /\ Started
  /\ UNCHANGED <<options, message_count, node, events, sent, vanished, unheard, errors, removals>>

\* With -M addr_handler is called directly; its failure is counted twice.
StartUnmapped ==
  /\ phase = "start" /\ unmapped_addr
  /\ \E f \in Fails :
       /\ addr_handler(cur, f)
       /\ IF f = "none" THEN Started ELSE ReturnEarly(2)
  /\ UNCHANGED <<options, events, sent, vanished, unheard, removals>>

----------------------------------------------------------------------------
(* connect_events: the loop over the events of the connection manager.     *)

\* The connection manager answers.
CmAnswers(i) ==
  /\ cm[i] \in {"resolving", "joining"} /\ node[i].cma_id
  /\ \/ /\ events' = Append(events, [ev |-> IF cm[i] = "resolving" THEN "ADDR_RESOLVED"
                                          ELSE "MULTICAST_JOIN", id |-> i])
        /\ cm' = [cm EXCEPT ![i] = IF @ = "resolving" THEN "idle" ELSE "joined"]
        /\ UNCHANGED errors
     \/ /\ Err
        /\ events' = Append(events, [ev |-> "ERROR", id |-> i])
        /\ cm' = [cm EXCEPT ![i] = "idle"]
  /\ UNCHANGED <<options, message_count, phase, cur, node, connects_left, ret, sent,
                 vanished, unheard, removals>>

\* A joined group may be lost, and the device may go.
CmReports(i) ==
  /\ removals < MaxRemovals /\ removals' = removals + 1
  /\ phase \in {"start", "events", "transfer"}
  /\ \/ events' = Append(events, [ev |-> "DEVICE_REMOVAL", id |-> i]) /\ UNCHANGED <<cm, errors>>
     \/ /\ cm[i] = "joined" /\ Err
        /\ events' = Append(events, [ev |-> "ERROR", id |-> i])
        /\ cm' = [cm EXCEPT ![i] = "idle"]
  /\ UNCHANGED <<options, message_count, phase, cur, node, connects_left, ret, sent,
                 vanished, unheard>>

\* The event at the head of the channel is taken while connects are left and
\* nothing failed, and acknowledged.
Taken(ev) ==
  /\ phase = "events" /\ connects_left # 0 /\ ret = 0
  /\ events # <<>> /\ Head(events).ev = ev
  /\ events' = Tail(events)
  /\ UNCHANGED <<options, phase, cur, sent, vanished, unheard, removals>>

AddrResolved ==
  /\ Taken("ADDR_RESOLVED")
  /\ \E f \in Fails :
       /\ addr_handler(Head(events).id, f)
       /\ ret' = IF f = "none" THEN 0 ELSE -1
       /\ connects_left' = IF f = "none" THEN connects_left ELSE connects_left - 1

\* join_handler: an address handle for the group, and the node is connected.
join_handler ==
  /\ Taken("MULTICAST_JOIN")
  /\ connects_left' = connects_left - 1
  /\ \/ /\ node' = [node EXCEPT ![Head(events).id] = [@ EXCEPT !.ah = TRUE, !.connected = TRUE]]
        /\ UNCHANGED <<ret, errors>>
     \/ Err /\ ret' = -1 /\ UNCHANGED node
  /\ UNCHANGED <<message_count, cm>>

CmErrorIgnored ==
  /\ Taken("ERROR")
  /\ connects_left' = connects_left - 1
  /\ UNCHANGED <<ret, message_count, node, cm, errors>>
\* ADDR_ERROR, ROUTE_ERROR and MULTICAST_ERROR.
CmError ==
  /\ Taken("ERROR")
  /\ connects_left' = connects_left - 1
  /\ ret' = -1
  /\ UNCHANGED <<message_count, node, cm, errors>>

\* DEVICE_REMOVAL: "Cleanup will occur after test completes."
DeviceRemoval ==
  /\ Taken("DEVICE_REMOVAL")
  /\ UNCHANGED <<message_count, node, connects_left, ret, cm, errors>>

ConnectEventsDrains ==
  /\ phase = "events" /\ connects_left = 0
  /\ phase' = IF ret = 0 THEN "transfer" ELSE "leave"
  /\ UNCHANGED <<options, message_count, cur, node, connects_left, ret, cm, events, sent, vanished,
                 unheard, errors, removals>>
\* The end of connect_events: on to the transfer, or to out.
ConnectEventsEnd ==
  /\ phase = "events" /\ (connects_left = 0 \/ ret # 0)
  /\ phase' = IF ret = 0 THEN "transfer" ELSE "leave"
  /\ UNCHANGED <<options, message_count, cur, node, connects_left, ret, cm, events, sent, vanished,
                 unheard, errors, removals>>

----------------------------------------------------------------------------
(* The transfer, and the way out.                                          *)

\* A message of the group is on its way to a node that joined.
Arriving(i) ==
  /\ ~ is_sender /\ cm[i] = "joined" /\ node[i].qp
  /\ sent[i] < message_count
  /\ sent' = [sent EXCEPT ![i] = @ + 1]
  /\ UNCHANGED <<options, message_count, phase, cur, connects_left, ret, cm, events,
                 errors, removals>>

\* It reaches the node, and a receive there.
Hear(i) ==
  /\ Arriving(i)
  /\ IF node[i].recvs > 0
     THEN node' = [node EXCEPT ![i].recvs = @ - 1, ![i].polled = @ + 1] /\ UNCHANGED unheard
     ELSE unheard' = unheard + 1 /\ UNCHANGED node
  /\ UNCHANGED vanished

\* It is lost, and nobody sends it again.
Vanish(i) ==
  /\ vanished < MaxVanished /\ vanished' = vanished + 1
  /\ Arriving(i)
  /\ UNCHANGED <<node, unheard>>

\* The next node of post_sends or poll_cqs is done: its sends, unsignaled, are
\* posted, or message_count completions were polled.
Transfer ==
  /\ phase = "transfer"
  /\ \/ /\ \/ message_count = 0 \/ is_sender \/ ~ node[cur].connected
           \/ node[cur].polled = message_count
        /\ cur' = (cur + 1) % connections
        /\ phase' = IF cur + 1 = connections THEN "leave" ELSE "transfer"
        /\ UNCHANGED <<ret, errors>>
     \/ /\ message_count # 0 /\ Err
        /\ ret' = -1 /\ cur' = 0 /\ phase' = "leave"
  /\ UNCHANGED <<options, message_count, node, connects_left, cm, events, sent, vanished,
                 unheard, removals>>

\* rdma_leave_multicast for the next node.  Its result replaces ret.
Leave ==
  /\ phase = "leave"
  /\ \/ ret' = (IF cm[cur] = "joined" THEN 0 ELSE -1) /\ UNCHANGED errors
     \/ Err /\ ret' = -1
  /\ cm' = [cm EXCEPT ![cur] = "idle"]
  /\ cur' = (cur + 1) % connections
  /\ phase' = IF cur + 1 = connections THEN "destroy" ELSE "leave"
  /\ UNCHANGED <<options, message_count, node, connects_left, events, sent, vanished,
                 unheard, removals>>

ReleaseOrderPdEarly == <<"ah", "qp", "pd", "cq", "mem", "cma_id">>
\* The order of destroy_node.
ReleaseOrder == <<"ah", "qp", "cq", "mem", "pd", "cma_id">>

Has(nd, r) == IF r = "mem" THEN nd.mem # "null" ELSE nd[r]
Without(nd, r) ==
  IF r = "mem" THEN [nd EXCEPT !.mem = "null", !.mr = FALSE] ELSE [nd EXCEPT ![r] = FALSE]

\* destroy_node releases what the node has, one call after the other.  For a
\* buffer that was never registered ibv_dereg_mr gets a null pointer.
destroy_node ==
  /\ phase = "destroy"
  /\ \E m \in 1 .. Len(ReleaseOrder) :
       /\ Has(node[cur], ReleaseOrder[m])
       /\ \A l \in 1 .. m - 1 : ~ Has(node[cur], ReleaseOrder[l])
       /\ IF ReleaseOrder[m] = "mem" /\ node[cur].mem = "freed"
          THEN phase' = "crashed" /\ UNCHANGED <<node, cm>>
          ELSE /\ node' = [node EXCEPT ![cur] = Without(@, ReleaseOrder[m])]
               /\ cm' = IF ReleaseOrder[m] = "cma_id" THEN [cm EXCEPT ![cur] = "idle"] ELSE cm
               /\ UNCHANGED phase
  /\ UNCHANGED <<options, message_count, cur, connects_left, ret, events, sent, vanished, unheard,
                 errors, removals>>

\* destroy_nodes goes on to the next node, and after the last one the event
\* channel is destroyed and main returns.
destroy_nodes ==
  /\ phase = "destroy"
  /\ \A m \in 1 .. Len(ReleaseOrder) : ~ Has(node[cur], ReleaseOrder[m])
  /\ cur' = (cur + 1) % connections
  /\ phase' = IF cur + 1 = connections THEN "exited" ELSE "destroy"
  /\ events' = IF cur + 1 = connections THEN <<>> ELSE events
  /\ UNCHANGED <<options, message_count, node, connects_left, ret, cm, sent, vanished, unheard,
                 errors, removals>>

----------------------------------------------------------------------------

Main ==
  \/ alloc_nodes \/ GetAddrFails \/ StartFails \/ Resolve \/ StartUnmapped
  \/ AddrResolved \/ join_handler \/ CmError \/ DeviceRemoval \/ ConnectEventsEnd
  \/ Transfer \/ Leave \/ destroy_node \/ destroy_nodes

Next == Main \/ \E i \in Nodes : CmAnswers(i) \/ CmReports(i) \/ Hear(i) \/ Vanish(i)

\* The process runs, the connection manager answers and the messages of the group
\* arrive, but for the ones that are lost.  No call has to fail: a process that
\* can only go on by an error is not bound to get one.
Fairness ==
  /\ WF_mvars(Main /\ UNCHANGED errors)
  /\ \A i \in 0 .. connections - 1 : WF_mvars(CmAnswers(i)) /\ WF_mvars(Hear(i))

Spec == Init /\ [][Next]_mvars /\ Fairness

----------------------------------------------------------------------------

\* The transfer starts with every node connected: connects_left counts failures
\* too, and reaches 0 without an error only when every node has joined.
AllConnected ==
  phase = "transfer" => connects_left = 0 /\ \A i \in Nodes : node[i].connected

\* No message arrives before a receive is posted for it: post_recvs comes before
\* the join.
AllHeard == unheard = 0

\* Whatever failed, device resources go before the domain they belong to, the
\* domain before the id ("Destroy the RDMA ID after all device resources"), and
\* a process that exits has released all of them; only a buffer that could not
\* be registered keeps it from getting there.
ReleasedInOrder ==
  \A i \in Nodes :
    LET nd == node[i] IN
    /\ nd.ah \/ nd.cq \/ nd.qp \/ nd.mr => nd.pd
    /\ nd.pd => nd.cma_id
    /\ nd.qp => nd.cq
    /\ phase = "exited" => ~ nd.cma_id
    /\ phase = "crashed" => \E j \in Nodes : node[j].mem = "freed"

\* mckey comes to an end, unless during the transfer a node is short of a message,
\* because one was lost or because the node was thrown out of the group: nobody
\* looks at the event channel any more, and poll_cqs, which has no timeout, waits
\* for messages that do not come.
Terminates ==
  <>(\/ phase \in {"exited", "crashed"}
     \/ phase = "transfer" /\ (vanished > 0 \/ \E i \in Nodes : cm[i] # "joined"))

============================================================================
