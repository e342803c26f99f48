--------------------------- MODULE MCExperiments ---------------------------
(***************************************************************************)
(* The experiments, one at a time: udpp (PingPong), the latency programs   *)
(* (Latency) or mckey (Multicast) is started, and the others are over.     *)
(***************************************************************************)
EXTENDS Latency

CONSTANTS iters, rx_depth, MaxLost, MaxFaults,
          connections, MessageCount, MaxErrors, MaxRemovals, MaxVanished

VARIABLES pc, use_event, qp, rq, sq, tx, cq, armed, cq_events, wc, pending, routs,
          rcnt, scnt, tcp, net, faults, lost, dropped
VARIABLES is_sender, unmapped_addr, src_addr, message_size, message_count, phase, cur,
          node, connects_left, ret, cm, events, sent, vanished, unheard, errors, removals

ppVars == <<pc, use_event, qp, rq, sq, tx, cq, armed, cq_events, wc, pending, routs,
            rcnt, scnt, tcp, net, faults, lost, dropped>>
mcVars == <<is_sender, unmapped_addr, src_addr, message_size, message_count, phase, cur,
            node, connects_left, ret, cm, events, sent, vanished, unheard, errors, removals>>

PP == INSTANCE PingPong WITH events <- cq_events
MC == INSTANCE Multicast

ASSUME InstancesAssumption ==
  PP!PingPongConstants /\ MC!MulticastConstants

\* udpp is done, and so is the datagram.
PingPongOver ==
  /\ pc = [p \in PP!Procs |-> "done"] /\ use_event = [p \in PP!Procs |-> FALSE]
  /\ qp = [p \in PP!Procs |-> "RESET"] /\ tx = [p \in PP!Procs |-> "idle"]
  /\ rq = [p \in PP!Procs |-> 0] /\ sq = rq /\ cq_events = rq /\ net = rq
  /\ routs = rq /\ rcnt = rq /\ scnt = rq
  /\ cq = [p \in PP!Procs |-> <<>>] /\ wc = cq /\ tcp = cq
  /\ armed = use_event /\ pending = [p \in PP!Procs |-> {PP!RECV}]
  /\ faults = 0 /\ lost = 1 /\ dropped = 0

\* Both sides of write_rc have left their loops.
LatencyOver ==
  /\ prog = "write_rc" /\ at = [p \in Sides |-> [loop |-> 4, round |-> 0, op |-> 1]]
  /\ aborted = [p \in Sides |-> FALSE]
  /\ conn = [p \in Sides |-> [q \in {0} |-> Fresh(0)]]
  /\ k = [p \in Sides |-> 0] /\ sock = "none" /\ late = FALSE
  /\ strays = 0 /\ missed = 0 /\ timeouts = 0 /\ failures = 0

\* mckey has exited.
MulticastOver ==
  /\ is_sender = FALSE /\ unmapped_addr = FALSE /\ src_addr = FALSE /\ message_size = 0
  /\ message_count = 0 /\ phase = "exited" /\ cur = 0
  /\ node = [i \in MC!Nodes |-> MC!NoNode] /\ connects_left = 0 /\ ret = 0
  /\ cm = [i \in MC!Nodes |-> "idle"] /\ events = <<>> /\ sent = [i \in MC!Nodes |-> 0]
  /\ vanished = 0 /\ unheard = 0 /\ errors = 0 /\ removals = 0

MCInit ==
  \/ PP!Init /\ LatencyOver /\ MulticastOver
  \/ Init /\ PingPongOver /\ MulticastOver
  \/ MC!Init /\ PingPongOver /\ LatencyOver

MCNext ==
  \/ PP!Next /\ UNCHANGED <<lvars, mcVars>>
  \/ Next /\ UNCHANGED <<ppVars, mcVars>>
  \/ MC!Next /\ UNCHANGED <<ppVars, lvars>>

MCSpec == MCInit /\ [][MCNext]_<<ppVars, lvars, mcVars>>
                 /\ PP!Fairness /\ Fairness /\ MC!Fairness

----------------------------------------------------------------------------

\* No call on a queue is refused and no completion queue runs over: udpp counts
\* its receives in routs, the latency programs their unsignaled requests in k,
\* and no nvds_expect of theirs fails but for a failed call, exhausted retries or
\* the short sleep of write_rc_multi.
NothingRefused == PP!PostsAccepted /\ NoExpectFails

\* No message comes to a queue pair without a receive: udpp exchanges addresses
\* when its receives are posted, send_ud sleeps (and may have slept too short), and
\* mckey joins after post_recvs and begins its transfer with every node connected.
NothingUnheard == PP!NothingDropped /\ NoneMissed /\ MC!AllHeard /\ MC!AllConnected

\* The two sides take turns: one datagram of udpp goes to and fro, and the
\* programs that answer each round are never more than a round apart.
TakesTurns == PP!OneDatagram /\ InStep

\* mckey releases device resources before the domain and the id, on every path.
ReleasedInOrder == MC!ReleasedInOrder

\* Every experiment comes to its end, unless a message was lost, a library call
\* failed, a sleep that is needed was too short or a node was thrown out of the
\* group.
AllEnd == PP!Finishes /\ Ends /\ MC!Terminates

============================================================================
