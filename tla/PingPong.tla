------------------------------ MODULE PingPong ------------------------------
(***************************************************************************)
(* The datagram ping-pong of src/src/experiments/udpp.c: a server and a    *)
(* client exchange their addresses over TCP, bring their UD queue pairs up *)
(* and then answer each other's datagrams, iters times, polling the        *)
(* completion queue or sleeping on its events.                             *)
(*                                                                         *)
(* Queue pairs, completion queues and the fabric are external: a datagram  *)
(* that finds no receive posted, or the queue pair not up, is dropped; a   *)
(* send queue slot is held until its completion is polled; an armed queue  *)
(* raises one event for the next completion and is disarmed by it.         *)
(***************************************************************************)
EXTENDS Integers, Sequences, SequencesExt

CONSTANTS iters,     \* option -n
          rx_depth,  \* option -r
          MaxLost,   \* bound on the datagrams the fabric loses
          MaxFaults  \* bound on the verbs calls that fail

PingPongConstants ==
  iters \in Nat \ {0} /\ rx_depth \in Nat \ {0} /\ MaxLost \in Nat /\ MaxFaults \in Nat

VARIABLES
  pc,         \* how far main is
  use_event,  \* option -e
  qp,         \* state of the queue pair
  rq,         \* receives posted and not consumed
  sq,         \* send queue slots in use
  tx,         \* "idle", or where the adapter is with the send
  cq,         \* the completion queue
  armed,      \* ibv_req_notify_cq was called since the last event
  events,     \* events in the completion channel
  wc,         \* completions polled and not handled
  pending, routs, rcnt, scnt,
  tcp,        \* bytes under way to a process over TCP
  net,        \* datagrams under way to a process
  faults, lost, dropped

progVars == <<pc, use_event, pending, routs, rcnt, scnt, wc>>
verbsVars == <<qp, rq, sq, tx, cq, armed, events>>
netVars == <<tcp, net, lost, dropped>>
vars == <<progVars, verbsVars, netVars, faults>>

Procs == {"server", "client"}
Peer(p) == IF p = "server" THEN "client" ELSE "server"

SEND == "PINGPONG_SEND_WRID"
RECV == "PINGPONG_RECV_WRID"

Set(f, p, v) == [f EXCEPT ![p] = v]
Goto(p, l) == pc' = Set(pc, p, l)

Init ==
  /\ pc = [p \in Procs |-> "init"]
  /\ use_event \in [Procs -> BOOLEAN]
  /\ qp = [p \in Procs |-> "RESET"]
  /\ rq = [p \in Procs |-> 0]
  /\ sq = [p \in Procs |-> 0]
  /\ tx = [p \in Procs |-> "idle"]
  /\ cq = [p \in Procs |-> <<>>]
  /\ armed = [p \in Procs |-> FALSE]
  /\ events = [p \in Procs |-> 0]
  /\ wc = [p \in Procs |-> <<>>]
  /\ pending = [p \in Procs |-> {}]
  /\ routs = [p \in Procs |-> 0]
  /\ rcnt = [p \in Procs |-> 0]
  /\ scnt = [p \in Procs |-> 0]
  /\ tcp = [p \in Procs |-> <<>>]
  /\ net = [p \in Procs |-> 0]
  /\ faults = 0 /\ lost = 0 /\ dropped = 0

----------------------------------------------------------------------------
(* Setting up.                                                             *)

\* The process gives up and its sockets are closed.
Gone(p) == pc[p] \in {"failed", "refused"}

\* pp_init_ctx, pp_post_recv of rx_depth receives and, with -e, the first
\* ibv_req_notify_cq, all before the address is given to the other side.
pp_init_ctx(p) ==
  /\ pc[p] = "init"
  /\ qp' = Set(qp, p, "INIT")
  /\ rq' = Set(rq, p, rx_depth)
  /\ routs' = Set(routs, p, rx_depth)
  /\ armed' = Set(armed, p, use_event[p])
  /\ Goto(p, IF p = "server" THEN "accept" ELSE "dial")
  /\ UNCHANGED <<use_event, pending, rcnt, scnt, wc, sq, tx, cq, events, netVars, faults>>

\* One of the verbs calls of pp_init_ctx or pp_connect_ctx fails, and main
\* returns 1.
VerbsFail(p) ==
  /\ pc[p] \in {"init", "connect"}
  /\ faults < MaxFaults
  /\ faults' = faults + 1
  /\ Goto(p, "failed")
  /\ UNCHANGED <<use_event, pending, routs, rcnt, scnt, wc, verbsVars, netVars>>

\* pp_client_exch_dest up to the wait for the answer.  Without a listening
\* server there is no connection.
ClientDial ==
  /\ pc["client"] = "dial"
  /\ IF pc["server"] = "accept"
     THEN tcp' = Set(tcp, "server", <<"address">>) /\ Goto("client", "answer")
     ELSE UNCHANGED tcp /\ Goto("client", "failed")
  /\ UNCHANGED <<use_event, pending, routs, rcnt, scnt, wc, verbsVars, net, lost, dropped, faults>>

\* The rest of pp_client_exch_dest: the server's address arrives, "done" goes
\* out and the socket is closed; or the connection ends without an address.
ClientAnswer ==
  /\ pc["client"] = "answer"
  /\ \/ /\ tcp["client"] # <<>>
        /\ tcp' = [tcp EXCEPT !["client"] = Tail(@), !["server"] = Append(@, "done")]
        /\ Goto("client", "connect")
     \/ /\ tcp["client"] = <<>> /\ Gone("server")
        /\ UNCHANGED tcp /\ Goto("client", "failed")
  /\ UNCHANGED <<use_event, pending, routs, rcnt, scnt, wc, verbsVars, net, lost, dropped, faults>>

ServerAcceptAnswering ==
  /\ pc["server"] = "accept"
  /\ tcp["server"] # <<>>
  /\ tcp' = [tcp EXCEPT !["server"] = Tail(@), !["client"] = Append(@, "address")]
  /\ Goto("server", "connect")
  /\ UNCHANGED <<use_event, pending, routs, rcnt, scnt, wc, verbsVars, net, lost, dropped, faults>>
\* pp_server_exch_dest up to the client's address.
ServerAccept ==
  /\ pc["server"] = "accept"
  /\ tcp["server"] # <<>>
  /\ tcp' = [tcp EXCEPT !["server"] = Tail(@)]
  /\ Goto("server", "connect")
  /\ UNCHANGED <<use_event, pending, routs, rcnt, scnt, wc, verbsVars, net, lost, dropped, faults>>

\* Post a send that the queue, of max_send_wr = 1 slots, has room for.
SendFits(p) == sq[p] < 1
pp_post_send(p) ==
  /\ sq' = Set(sq, p, 1)
  /\ tx' = Set(tx, p, "queued")

\* pp_connect_ctx: through RTR to RTS, and an address handle.  The server
\* calls it before it sends its own address, the client when it has the
\* server's, and the client goes on to post the first send.
pp_connect_ctx(p) ==
  /\ pc[p] = "connect"
  /\ qp' = Set(qp, p, "RTS")
  /\ IF p = "server"
     THEN Goto(p, "answered") /\ UNCHANGED <<sq, tx, pending>>
     ELSE Goto(p, "loop") /\ pp_post_send(p) /\ pending' = Set(pending, p, {RECV, SEND})
  /\ UNCHANGED <<use_event, routs, rcnt, scnt, wc, rq, cq, armed, events, netVars, faults>>

\* The server sends its address ...
ServerAnswer ==
  /\ pc["server"] = "answered"
  /\ tcp' = [tcp EXCEPT !["client"] = Append(@, "address")]
  /\ Goto("server", "done?")
  /\ UNCHANGED <<use_event, pending, routs, rcnt, scnt, wc, verbsVars, net, lost, dropped, faults>>

\* ... and waits for "done" or the end of the connection, whichever it is.
ServerDone ==
  /\ pc["server"] = "done?"
  /\ tcp["server"] # <<>> \/ Gone("client")
  /\ tcp' = Set(tcp, "server", <<>>)
  /\ pending' = Set(pending, "server", {RECV})
  /\ Goto("server", "loop")
  /\ UNCHANGED <<use_event, routs, rcnt, scnt, wc, verbsVars, net, lost, dropped, faults>>

----------------------------------------------------------------------------
(* The exchange.                                                           *)

\* The condition of the while loop.
Loop(p) ==
  /\ pc[p] = "loop"
  /\ Goto(p, IF rcnt[p] < iters \/ scnt[p] < iters
             THEN IF use_event[p] THEN "event" ELSE "poll"
             ELSE "close")
  /\ UNCHANGED <<use_event, pending, routs, rcnt, scnt, wc, verbsVars, netVars, faults>>

\* ibv_get_cq_event blocks until there is an event.
GetEvent(p) ==
  /\ pc[p] = "event"
  /\ events[p] > 0
  /\ events' = [events EXCEPT ![p] = @ - 1]
  /\ Goto(p, "arm")
  /\ UNCHANGED <<use_event, pending, routs, rcnt, scnt, wc, qp, rq, sq, tx, cq, armed, netVars, faults>>

\* ibv_req_notify_cq, before the queue is polled.
Arm(p) ==
  /\ pc[p] = "arm"
  /\ armed' = Set(armed, p, TRUE)
  /\ Goto(p, "poll")
  /\ UNCHANGED <<use_event, pending, routs, rcnt, scnt, wc, qp, rq, sq, tx, cq, events, netVars, faults>>

BatchOfOne(p) == IF cq[p] = <<>> THEN <<>> ELSE SubSeq(cq[p], 1, 1)
\* The completions one ibv_poll_cq returns: up to two.
Batch(p) == IF Len(cq[p]) <= 2 THEN cq[p] ELSE SubSeq(cq[p], 1, 2)

\* ibv_poll_cq; without events it is repeated until there is a completion.  A
\* polled send gives its slot back.
Poll(p) ==
  /\ pc[p] = "poll"
  /\ use_event[p] \/ cq[p] # <<>>
  /\ wc' = Set(wc, p, Batch(p))
  /\ cq' = Set(cq, p, SubSeq(cq[p], Len(Batch(p)) + 1, Len(cq[p])))
  /\ sq' = IF Contains(Batch(p), SEND) THEN Set(sq, p, 0) ELSE sq
  /\ Goto(p, "handle")
  /\ UNCHANGED <<use_event, pending, routs, rcnt, scnt, qp, rq, tx, armed, events, netVars, faults>>

\* Completions of receives that have not been polled.
Unpolled(p) == Len(SelectSeq(cq[p], LAMBDA w : w = RECV))

\* pp_post_recv: a receive holds one of the rx_depth slots until it is polled.
RecvsFit(p, n) == rq[p] + Unpolled(p) + n <= rx_depth
pp_post_recv(p, n) == rq' = [rq EXCEPT ![p] = @ + n]

\* A receive completion fills the receives up when at most one is left.
Refills(p, w) == w = RECV /\ routs[p] - 1 <= 1
Missing(p) == rx_depth - (routs[p] - 1)

Scnt(p, w) == IF w = SEND THEN scnt[p] + 1 ELSE scnt[p]

\* When nothing else is pending and sends are left the next one is posted.
AnswersAtOnce(p, w) == w = RECV /\ Scnt(p, w) < iters
AnswersOnSend(p, w) == w = SEND /\ Scnt(p, w) < iters
Answers(p, w) == pending[p] \ {w} = {} /\ Scnt(p, w) < iters

\* A post the queue has no room for: main gives up.
Fits(p, w) ==
  /\ Refills(p, w) => RecvsFit(p, Missing(p))
  /\ Answers(p, w) => SendFits(p)

Handled(p, w) ==
  /\ scnt' = Set(scnt, p, Scnt(p, w))
  /\ rcnt' = IF w = RECV THEN Set(rcnt, p, rcnt[p] + 1) ELSE rcnt
  /\ IF Refills(p, w)
     THEN pp_post_recv(p, Missing(p)) /\ routs' = Set(routs, p, rx_depth)
     ELSE /\ UNCHANGED rq
          /\ routs' = IF w = RECV THEN Set(routs, p, routs[p] - 1) ELSE routs
  /\ IF Answers(p, w)
     THEN pp_post_send(p) /\ pending' = Set(pending, p, {RECV, SEND})
     ELSE pending' = Set(pending, p, pending[p] \ {w}) /\ UNCHANGED <<sq, tx>>

\* One turn of the loop over the completions polled ...
Handle(p) ==
  /\ pc[p] = "handle" /\ wc[p] # <<>>
  /\ wc' = Set(wc, p, Tail(wc[p]))
  /\ IF Fits(p, Head(wc[p]))
     THEN Handled(p, Head(wc[p])) /\ UNCHANGED pc
     ELSE Goto(p, "refused") /\ UNCHANGED <<scnt, rcnt, rq, routs, pending, sq, tx>>
  /\ UNCHANGED <<use_event, qp, cq, armed, events, netVars, faults>>

\* ... and its end.
HandledAll(p) ==
  /\ pc[p] = "handle" /\ wc[p] = <<>>
  /\ Goto(p, "loop")
  /\ UNCHANGED <<use_event, pending, routs, rcnt, scnt, wc, verbsVars, netVars, faults>>

\* pp_close_ctx: the queue pair goes, with whatever is left in it.
pp_close_ctx(p) ==
  /\ pc[p] = "close"
  /\ qp' = Set(qp, p, "RESET")
  /\ Goto(p, "done")
  /\ UNCHANGED <<use_event, pending, routs, rcnt, scnt, wc, rq, sq, tx, cq, armed, events, netVars, faults>>

----------------------------------------------------------------------------
(* The adapters and the fabric.                                            *)

\* A completion enters the queue, which raises an event if it is armed.
Complete(p, w) ==
  /\ cq' = Set(cq, p, Append(cq[p], w))
  /\ events' = IF armed[p] THEN Set(events, p, events[p] + 1) ELSE events
  /\ armed' = Set(armed, p, FALSE)

\* The datagram leaves, or is lost on the way.  Its completion comes later,
\* perhaps after the answer to the datagram.
Transmit(p) ==
  /\ tx[p] = "queued"
  /\ tx' = Set(tx, p, "sent")
  /\ \/ net' = [net EXCEPT ![Peer(p)] = @ + 1] /\ UNCHANGED lost
     \/ lost < MaxLost /\ lost' = lost + 1 /\ UNCHANGED net
  /\ UNCHANGED <<progVars, qp, rq, sq, cq, armed, events, tcp, dropped, faults>>

SendCompletes(p) ==
  /\ tx[p] = "sent"
  /\ tx' = Set(tx, p, "idle")
  /\ Complete(p, SEND)
  /\ UNCHANGED <<progVars, qp, rq, sq, netVars, faults>>

Arrive(p) ==
  /\ net[p] > 0
  /\ net' = [net EXCEPT ![p] = @ - 1]
  /\ IF qp[p] = "RTS" /\ rq[p] > 0
     THEN rq' = [rq EXCEPT ![p] = @ - 1] /\ Complete(p, RECV) /\ UNCHANGED dropped
     ELSE dropped' = dropped + 1 /\ UNCHANGED <<rq, cq, armed, events>>
  /\ UNCHANGED <<progVars, qp, sq, tx, tcp, lost, faults>>

----------------------------------------------------------------------------

Setup(p) ==
  \/ pp_init_ctx(p) \/ pp_connect_ctx(p)
  \/ p = "client" /\ (ClientDial \/ ClientAnswer)
  \/ p = "server" /\ (ServerAccept \/ ServerAnswer \/ ServerDone)

Exchange(p) ==
  \/ Loop(p) \/ GetEvent(p) \/ Arm(p) \/ Poll(p) \/ Handle(p) \/ HandledAll(p)
  \/ pp_close_ctx(p)

Adapter(p) == Transmit(p) \/ SendCompletes(p) \/ Arrive(p)

Next == \E p \in Procs : Setup(p) \/ VerbsFail(p) \/ Exchange(p) \/ Adapter(p)

\* The processes keep running, and the adapters keep working.
Fairness ==
  \A p \in Procs : WF_vars(Setup(p) \/ Exchange(p)) /\ WF_vars(Adapter(p))

Spec == Init /\ [][Next]_vars /\ Fairness

----------------------------------------------------------------------------

\* No "Couldn't post send" and no "Couldn't post receive": main counts what is
\* in the queues without asking them, through routs and pending, and the
\* completion queue of rx_depth + 1 entries never runs over.
PostsAccepted ==
  \A p \in Procs : pc[p] # "refused" /\ Len(cq[p]) <= rx_depth + 1

\* The setup and the refilling leave no datagram without a receive: the server
\* is up, its receives posted, before the client can have its address, and
\* routs is filled up in time.
NothingDropped == dropped = 0

\* The exchange has one datagram: it is being sent to p or waits to be received
\* or handled there, or p has it and waits for its own send to complete.
One(b) == IF b THEN 1 ELSE 0
Holds(p) == RECV \notin pending[p] /\ (p = "server" => rcnt[p] > 0)
DatagramsAt(p) ==
  One(tx[Peer(p)] = "queued") + net[p] + Unpolled(p)
  + Len(SelectSeq(wc[p], LAMBDA w : w = RECV)) + One(Holds(p))

\* The two sides take turns: pending lets nobody answer before the other side's
\* datagram is here, nor twice, so that exactly one datagram is passed to and
\* fro until it is lost.
OneDatagram ==
  lost + dropped + DatagramsAt("server") + DatagramsAt("client") = 1

\* Both sides finish all their iterations, in either mode and any mix of
\* modes, unless a datagram was lost, a verbs call failed or the client was
\* started before the server listened.
Finishes ==
  <>(\/ \A p \in Procs : pc[p] = "done"
     \/ lost > 0 \/ faults > 0 \/ pc["client"] = "failed")

============================================================================
