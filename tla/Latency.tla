------------------------------- MODULE Latency -------------------------------
(***************************************************************************)
(* The latency experiments of src/src/experiments and src/cs: pairs of     *)
(* programs that connect queue pairs and then send, write or read through  *)
(* them as fast as they can.  Each is a short straight script with loops;  *)
(* what the scripts share, the calls on queue pairs, is written once, as   *)
(* an interpreter of their steps, and TLC runs every program.              *)
(*                                                                         *)
(* The adapter is external.  A reliable queue pair (RC) executes its work  *)
(* requests in order, tries again while the other side is not up or has no *)
(* receive posted, and completes a request when it is acknowledged; an     *)
(* unreliable one (UD) completes it when it is sent, and a datagram that   *)
(* finds no receive is dropped.  A request holds its slot of the send      *)
(* queue until the completion of itself or of a later signaled request is  *)
(* polled.  A write takes the buffer's value when it is transmitted.       *)
(***************************************************************************)
EXTENDS Integers, Sequences, Functions

CONSTANTS n,           \* rounds; n = 1000 * 1000 for each of 11 lengths
          tx_depth,    \* 100 in all the programs
          NUM_QP,      \* queue pairs of write_rc_multi
          NumRecvs,    \* receives posted ahead, 10
          MaxDropped,  \* bound on the datagrams the fabric loses
          MaxTimeouts, \* bound on the reliable requests that run out of retries
          MaxFailures  \* bound on the calls of setting up that fail

ASSUME LatencyAssumption ==
  /\ {n, tx_depth, NUM_QP, NumRecvs} \subseteq Nat \ {0} /\ NumRecvs < tx_depth
  /\ {MaxDropped, MaxTimeouts, MaxFailures} \subseteq Nat

VARIABLES prog,     \* the program that runs
          at,       \* where a process is: which loop, which round, which step
          aborted,  \* an nvds_expect or an assert has failed
          conn,     \* queue pairs, completion queues and buffers of a process
          k,        \* the static counter of nvds_rdma_write
          sock,     \* what is under way over TCP
          late,     \* a sleep was over before the other side was ready
          strays, missed, timeouts, failures
counts == <<strays, missed, timeouts, failures>>
lvars == <<prog, at, aborted, conn, k, sock, late, counts>>

Sides == {"server", "client"}
Other(p) == IF p = "server" THEN "client" ELSE "server"

----------------------------------------------------------------------------
(* The programs: what nvds_init_ctx makes, the steps of nvds_run_server     *)
(* and nvds_run_client as loops over lists of steps, and how many requests *)
(* it takes for one to be signaled.                                        *)

Forever == -1
Once(ops) == [ops |-> ops, times |-> 1]
Times(t, ops) == [ops |-> ops, times |-> t]

\* write_rc: reliable writes, each polled for; the server spins.
write_rc_ctx == [type |-> "RC", qps |-> 1, recvs |-> 1]
write_rc_connect == [server |-> <<"listen", "exch", "rtr">>, client |-> <<"dial", "read_info", "rts">>]
write_rc_server == <<Once(write_rc_connect.server), Times(Forever, <<>>)>>
write_rc_client == <<Once(write_rc_connect.client), Times(n, <<"write", "poll_send">>)>>
write_rc_every == 1

\* send_rc: sends into receives that are posted ahead.
send_rc_ctx == [type |-> "RC", qps |-> 1, recvs |-> tx_depth]
send_rc_connect == [server |-> <<"listen", "exch", "rtr">>, client |-> <<"dial", "read_info", "rts", "sleep">>]
send_rc_server ==
  <<Once(send_rc_connect.server), Times(NumRecvs, <<"post_recv">>),
    Times(n, <<"post_recv", "poll_recv">>)>>
send_rc_client == <<Once(send_rc_connect.client), Times(n, <<"send", "poll_send">>)>>
send_rc_every == 1

\* send_rc_unsignaled: despite its name it signals every send.
send_rc_unsignaled_ctx == send_rc_ctx
send_rc_unsignaled_connect == send_rc_connect
send_rc_unsignaled_server ==
  <<Once(send_rc_unsignaled_connect.server), Times(NumRecvs, <<"post_recv">>),
    Times(n, <<"post_recv", "poll_recv">>)>>
send_rc_unsignaled_client ==
  <<Once(send_rc_unsignaled_connect.client), Times(n, <<"send", "poll_send">>)>>
send_rc_unsignaled_every == 1

\* send_ud: datagrams, each answered by one.
send_ud_ctx == [type |-> "UD", qps |-> 1, recvs |-> tx_depth]
send_ud_connect_racy == [server |-> <<"listen", "exch", "rts">>, client |-> <<"dial", "read_info", "rts">>]
send_ud_connect == [server |-> <<"listen", "exch", "rts">>, client |-> <<"dial", "read_info", "rts", "sleep">>]
send_ud_server ==
  <<Once(send_ud_connect.server), Times(NumRecvs, <<"post_recv">>),
    Times(n, <<"poll_recv", "post_recv", "send", "poll_send">>)>>
send_ud_client ==
  <<Once(send_ud_connect.client), Times(NumRecvs, <<"post_recv">>),
    Times(n, <<"send", "poll_send", "poll_recv", "post_recv">>)>>
send_ud_every == 1

\* write_rc_unsignaled: a flag written to and fro; one request in tx_depth is
\* signaled and polled for (k == 99).
write_rc_unsignaled_ctx == [type |-> "RC", qps |-> 1, recvs |-> 1]
write_rc_unsignaled_connect_racy ==
  [server |-> <<"listen", "exch", "rts", "set0">>, client |-> <<"dial", "read_info", "rts", "set1">>]
write_rc_unsignaled_connect ==
  [server |-> <<"listen", "exch", "rts", "set0">>, client |-> <<"dial", "read_info", "rts", "sleep", "set1">>]
write_rc_unsignaled_server_sticky ==
  <<Once(write_rc_unsignaled_connect.server),
    Times(Forever, <<"spin0", "write", "poll_signaled">>)>>
write_rc_unsignaled_server ==
  <<Once(write_rc_unsignaled_connect.server),
    Times(Forever, <<"spin0", "set0", "write", "poll_signaled">>)>>
write_rc_unsignaled_client ==
  <<Once(write_rc_unsignaled_connect.client),
    Times(n, <<"write", "poll_signaled", "spin1", "set1">>)>>
write_rc_unsignaled_every == tx_depth

\* write_rc_multi: the same over NUM_QP queue pairs in turn.
write_rc_multi_ctx == [type |-> "RC", qps |-> NUM_QP, recvs |-> 1]
write_rc_multi_connect ==
  [server |-> <<"listen", "exch", "rts", "set0">>, client |-> <<"dial", "read_info", "rts", "set1", "sleep">>]
write_rc_multi_server ==
  <<Times(NUM_QP, write_rc_multi_connect.server),
    Times(Forever, <<"spin0", "set0", "write", "poll_signaled">>)>>
write_rc_multi_client ==
  <<Times(NUM_QP, write_rc_multi_connect.client), Once(<<"sleep">>),
    Times(n, <<"write", "poll_signaled", "spin1", "set1">>)>>
write_rc_multi_every == tx_depth

\* cs/rdma: reliable writes, then reliable reads, each polled for.
rdma_ctx == [type |-> "RC", qps |-> 1, recvs |-> 1]
rdma_connect == [server |-> <<"listen", "exch", "rtr">>, client |-> <<"dial", "read_info", "rts">>]
rdma_server == <<Once(rdma_connect.server), Times(Forever, <<>>)>>
rdma_client ==
  <<Once(rdma_connect.client), Times(n, <<"write", "poll_send">>),
    Times(n, <<"read", "poll_send">>)>>
rdma_every == 1

\* main: nvds_init_ctx, then one of the scripts.
Program(ctx, server, client, every) ==
  [ctx |-> ctx, every |-> every,
   server |-> <<Once(<<"init">>)>> \o server, client |-> <<Once(<<"init">>)>> \o client]
Run ==
  [write_rc |-> Program(write_rc_ctx, write_rc_server, write_rc_client, write_rc_every),
   send_rc |-> Program(send_rc_ctx, send_rc_server, send_rc_client, send_rc_every),
   send_rc_unsignaled |->
     Program(send_rc_unsignaled_ctx, send_rc_unsignaled_server, send_rc_unsignaled_client,
             send_rc_unsignaled_every),
   send_ud |-> Program(send_ud_ctx, send_ud_server, send_ud_client, send_ud_every),
   write_rc_unsignaled |->
     Program(write_rc_unsignaled_ctx, write_rc_unsignaled_server, write_rc_unsignaled_client,
             write_rc_unsignaled_every),
   write_rc_multi |->
     Program(write_rc_multi_ctx, write_rc_multi_server, write_rc_multi_client,
             write_rc_multi_every),
   rdma |-> Program(rdma_ctx, rdma_server, rdma_client, rdma_every)]
Programs == DOMAIN Run

----------------------------------------------------------------------------
(* The state of a process.                                                 *)

\* What nvds_init_ctx finds and makes.  The buffer of write_rc_unsignaled is not
\* cleared.
Fresh(b) ==
  [qp |-> "RESET", buf |-> b, rq |-> 0, slots |-> 0, sendq |-> <<>>, wire |-> <<>>,
   acks |-> <<>>, silent |-> 0, scq |-> <<>>, rcq |-> 0, wr |-> [op |-> "none", signaled |-> FALSE]]

Init ==
  /\ prog \in Programs
  /\ at = [p \in Sides |-> [loop |-> 1, round |-> 0, op |-> 1]]
  /\ aborted = [p \in Sides |-> FALSE]
  /\ \E b \in [Sides -> IF prog = "write_rc_unsignaled" THEN {0, 1} ELSE {0}] :
       conn = [p \in Sides |-> [q \in 0 .. Run[prog].ctx.qps - 1 |-> Fresh(b[p])]]
  /\ k = [p \in Sides |-> 0]
  /\ sock = "none" /\ late = FALSE
  /\ strays = 0 /\ missed = 0 /\ timeouts = 0 /\ failures = 0

\* The loop a process is in, its current queue pair (j) and its current step.
Loops(p) == Run[prog][p]
Exited(p) == at[p].loop > Len(Loops(p))
Body(p) == Loops(p)[at[p].loop]
Qp(p) == at[p].round % Run[prog].ctx.qps
Step(p) ==
  IF Exited(p) \/ aborted[p] THEN "stop"
  ELSE IF Body(p).ops = <<>> THEN "wait" ELSE Body(p).ops[at[p].op]

Advance(p) ==
  at' = [at EXCEPT ![p] =
    IF @.op < Len(Body(p).ops) THEN [@ EXCEPT !.op = @ + 1]
    ELSE IF Body(p).times = Forever \/ @.round + 1 < Body(p).times
         THEN [@ EXCEPT !.op = 1, !.round = @ + 1]
         ELSE [loop |-> @.loop + 1, round |-> 0, op |-> 1]]

Abort(p) == aborted' = [aborted EXCEPT ![p] = TRUE] /\ UNCHANGED <<at, conn, k>>

\* The step succeeds with the new state c of the connection, or the program
\* stops at an nvds_expect.
Expect(p, ok, c) ==
  IF ok
  THEN Advance(p) /\ conn' = [conn EXCEPT ![p][Qp(p)] = c] /\ UNCHANGED <<aborted, k>>
  ELSE Abort(p)

My(p) == conn[p][Qp(p)]

----------------------------------------------------------------------------
(* The steps.                                                              *)

\* nvds_init_ctx, nvds_set_qp_state_init and nvds_init_local_ib_connection, for all
\* queue pairs.
InitCtx(p) ==
  /\ Step(p) = "init"
  /\ Advance(p)
  /\ conn' = [conn EXCEPT ![p] = [q \in DOMAIN @ |-> [@[q] EXCEPT !.qp = "INIT"]]]
  /\ UNCHANGED <<prog, aborted, k, sock, late, counts>>

\* nvds_server_exch_info up to listen.
Listen(p) ==
  /\ Step(p) = "listen"
  /\ Expect(p, TRUE, My(p))
  /\ UNCHANGED <<prog, sock, late, counts>>

\* The rest of it: accept, read the client's half and write the server's.  From
\* a client that died after it connected there is nothing to read.
Exch(p) ==
  /\ Step(p) = "exch"
  /\ sock \in {"request", "closed"}
  /\ sock' = IF sock = "request" THEN "reply" ELSE "none"
  /\ Expect(p, sock = "request", My(p))
  /\ UNCHANGED <<prog, late, counts>>

\* nvds_client_exch_info up to its read.  Nobody starts the client before the
\* server listens; from the second queue pair on the server may not be listening
\* yet, and connect() fails.
Dial(p) ==
  /\ Step(p) = "dial"
  /\ at[p].round = 0 => Step(Other(p)) \in {"exch", "stop"}
  /\ sock' = IF Step(Other(p)) = "exch" THEN "request" ELSE sock
  /\ Expect(p, Step(Other(p)) = "exch", My(p))
  /\ UNCHANGED <<prog, late, counts>>

\* The rest of it: the server's half, or nothing from a server that died.
ReadInfo(p) ==
  /\ Step(p) = "read_info"
  /\ sock \in {"reply", "closed"} /\ sock' = "none"
  /\ Expect(p, sock = "reply", My(p))
  /\ UNCHANGED <<prog, late, counts>>

\* nvds_set_qp_state_rtr and nvds_set_qp_state_rts.
SetQpState(p) ==
  /\ Step(p) \in {"rtr", "rts"}
  /\ Expect(p, TRUE, [My(p) EXCEPT !.qp = IF Step(p) = "rtr" THEN "RTR" ELSE "RTS"])
  /\ UNCHANGED <<prog, sock, late, counts>>

\* A call of setting up fails, or transfers less than it was to: nvds_expect ends
\* the process, and a connection it has open is closed.
CallFails(p) ==
  /\ Step(p) \in {"init", "listen", "exch", "dial", "read_info", "rtr", "rts"}
  /\ failures < MaxFailures /\ failures' = failures + 1
  /\ Abort(p)
  /\ \/ sock' = IF Step(p) = "exch" /\ sock = "request" THEN "closed" ELSE sock
     \/ Step(p) = "dial" /\ Step(Other(p)) = "exch" /\ sock' = "closed"
  /\ UNCHANGED <<prog, late, strays, missed, timeouts>>

\* sleep(1), "waiting for server to get ready", and the usleep(1000) of
\* write_rc_multi.  Time guarantees nothing: when it is over the server has got to
\* where it waits for the client, or it is late.
Sleep(p) ==
  /\ Step(p) = "sleep"
  /\ late' = (late \/ Step(Other(p)) \notin {"exch", "poll_recv", "spin0"})
  /\ Expect(p, TRUE, My(p))
  /\ UNCHANGED <<prog, sock, counts>>

\* nvds_post_recv.  A receive holds its place until it is polled.
PostRecv(p) ==
  /\ Step(p) = "post_recv"
  /\ Expect(p, My(p).rq + My(p).rcq < Run[prog].ctx.recvs, [My(p) EXCEPT !.rq = @ + 1])
  /\ UNCHANGED <<prog, sock, late, counts>>

\* The send_flags of a request: all signaled, or the last of every tx_depth
\* on each queue pair.
SignaledLate(p) == k[p] \div Run[prog].ctx.qps = Run[prog].every
Signaled(p) == k[p] \div Run[prog].ctx.qps = Run[prog].every - 1

\* nvds_post_send, nvds_rdma_write and nvds_rdma_read up to ibv_post_send.
Post(p) ==
  /\ Step(p) \in {"send", "write", "read"}
  /\ Expect(p, My(p).slots < tx_depth,
       [My(p) EXCEPT !.slots = @ + 1,
                     !.sendq = Append(@, [op |-> Step(p), signaled |-> Signaled(p)]),
                     !.wr = [op |-> Step(p), signaled |-> Signaled(p)]])
  /\ UNCHANGED <<prog, sock, late, counts>>

\* nvds_poll_send: wait for a completion; it is a success, and its wr_id the
\* one of the last request.  The slots of the requests up to it are free.
Polled(c) == [c EXCEPT !.slots = @ - Head(c.scq).frees, !.scq = Tail(@)]
PollSend(p) ==
  /\ Step(p) = "poll_send"
  /\ My(p).scq # <<>>
  /\ Expect(p, Head(My(p).scq).op = My(p).wr.op, Polled(My(p)))
  /\ UNCHANGED <<prog, sock, late, counts>>

\* The end of nvds_rdma_write with a static k: a signaled request is polled
\* for, and k counts on.
PollSignaled(p) ==
  /\ Step(p) = "poll_signaled"
  /\ My(p).wr.signaled => My(p).scq # <<>>
  /\ IF My(p).wr.signaled /\ Head(My(p).scq).op # My(p).wr.op
     THEN Abort(p)
     ELSE /\ Advance(p)
          /\ conn' = IF My(p).wr.signaled
                     THEN [conn EXCEPT ![p][Qp(p)] = Polled(@)] ELSE conn
          /\ k' = [k EXCEPT ![p] = (@ + 1) % (Run[prog].ctx.qps * Run[prog].every)]
          /\ UNCHANGED aborted
  /\ UNCHANGED <<prog, sock, late, counts>>

\* nvds_poll_recv.
PollRecv(p) ==
  /\ Step(p) = "poll_recv"
  /\ My(p).rcq > 0
  /\ Expect(p, TRUE, [My(p) EXCEPT !.rcq = @ - 1])
  /\ UNCHANGED <<prog, sock, late, counts>>

\* while (*ctx->buf == 0) {} and while (*ctx->buf == 1) {}.
Spin(p) ==
  /\ Step(p) \in {"spin0", "spin1"}
  /\ My(p).buf # (IF Step(p) = "spin0" THEN 0 ELSE 1)
  /\ Expect(p, TRUE, My(p))
  /\ UNCHANGED <<prog, sock, late, counts>>

\* The buffer, or its first byte, is set to 0 or 1.
SetBuf(p) ==
  /\ Step(p) \in {"set0", "set1"}
  /\ Expect(p, TRUE, [My(p) EXCEPT !.buf = IF Step(p) = "set0" THEN 0 ELSE 1])
  /\ UNCHANGED <<prog, sock, late, counts>>

----------------------------------------------------------------------------
(* The adapters and the fabric.                                            *)

Reliable == Run[prog].ctx.type = "RC"
Conns == 0 .. Run[prog].ctx.qps - 1

\* The first request leaves with what the buffer holds.  A datagram may be lost
\* and is done with as far as its sender is concerned.
Transmit(p, q) ==
  /\ conn[p][q].sendq # <<>> /\ conn[p][q].qp = "RTS"
  /\ \E sent \in {TRUE} \cup (IF ~ Reliable /\ strays < MaxDropped THEN {FALSE} ELSE {}) :
       /\ conn' = [conn EXCEPT ![p][q] =
            [@ EXCEPT !.sendq = Tail(@),
               !.wire = IF sent THEN Append(@, [wr |-> Head(conn[p][q].sendq), val |-> conn[p][q].buf])
                                ELSE @,
               !.acks = IF Reliable THEN @ ELSE Append(@, Head(conn[p][q].sendq))]]
       /\ strays' = IF sent THEN strays ELSE strays + 1
  /\ UNCHANGED <<prog, at, aborted, k, sock, late, missed, timeouts, failures>>

\* The request reaches the other side and is executed there.  A reliable one
\* waits until the queue pair is up and, for a send, a receive is posted.
CanLand(p, q) ==
  /\ conn[Other(p)][q].qp \in {"RTR", "RTS"}
  /\ Head(conn[p][q].wire).wr.op = "send" => conn[Other(p)][q].rq > 0
Executed(c, m) ==
  CASE m.wr.op = "write" -> [c EXCEPT !.buf = m.val]
    [] m.wr.op = "send"  -> [c EXCEPT !.rq = @ - 1, !.rcq = @ + 1]
    [] m.wr.op = "read"  -> c
Land(p, q) ==
  /\ conn[p][q].wire # <<>>
  /\ Reliable => CanLand(p, q)
  /\ missed' = IF CanLand(p, q) THEN missed ELSE missed + 1
  /\ conn' = [conn EXCEPT
       ![p][q] = [@ EXCEPT !.wire = Tail(@),
                           !.acks = IF Reliable THEN Append(@, Head(conn[p][q].wire).wr) ELSE @],
       ![Other(p)][q] = IF CanLand(p, q) THEN Executed(@, Head(conn[p][q].wire)) ELSE @]
  /\ UNCHANGED <<prog, at, aborted, k, sock, late, strays, timeouts, failures>>

\* A request is complete: a signaled one gets a completion, which also stands
\* for the silent ones before it.
Complete(p, q) ==
  /\ conn[p][q].acks # <<>>
  /\ conn' = [conn EXCEPT ![p][q] =
       IF Head(@.acks).signaled
       THEN [@ EXCEPT !.acks = Tail(@), !.silent = 0,
                      !.scq = Append(@, [op |-> Head(conn[p][q].acks).op,
                                         frees |-> conn[p][q].silent + 1])]
       ELSE [@ EXCEPT !.acks = Tail(@), !.silent = @ + 1]]
  /\ UNCHANGED <<prog, at, aborted, k, sock, late, counts>>

\* A reliable request to a queue pair that is not up runs out of retries and
\* completes with an error.
RetriesExceeded(p, q) ==
  /\ Reliable /\ timeouts < MaxTimeouts
  /\ conn[p][q].wire # <<>> /\ conn[Other(p)][q].qp = "INIT"
  /\ timeouts' = timeouts + 1
  /\ conn' = [conn EXCEPT ![p][q] = [@ EXCEPT !.wire = <<>>, !.qp = "ERR",
                                              !.scq = Append(@, [op |-> "error", frees |-> 1])]]
  /\ UNCHANGED <<prog, at, aborted, k, sock, late, strays, missed, failures>>

----------------------------------------------------------------------------

Process(p) ==
  \/ InitCtx(p) \/ Listen(p) \/ Exch(p) \/ Dial(p) \/ ReadInfo(p) \/ SetQpState(p) \/ Sleep(p)
  \/ PostRecv(p) \/ Post(p) \/ PollSend(p) \/ PollSignaled(p) \/ PollRecv(p)
  \/ Spin(p) \/ SetBuf(p)
Adapter(p, q) == Transmit(p, q) \/ Land(p, q) \/ Complete(p, q)

Next ==
  \E p \in Sides :
    \/ Process(p) \/ CallFails(p)
    \/ \E q \in Conns : Adapter(p, q) \/ RetriesExceeded(p, q)

\* The processes keep running, and the adapters keep working.
Fairness ==
  \A p \in Sides :
    /\ WF_lvars(Process(p))
    /\ \A q \in 0 .. NUM_QP - 1 : WF_lvars(q \in Conns /\ Adapter(p, q))

Spec == Init /\ [][Next]_lvars /\ Fairness

----------------------------------------------------------------------------

\* The programs fail by themselves only in one way.  No completion queue runs
\* over, the send queue of tx_depth requests is never full although most requests
\* are not signaled, the receive queue has room for the one posted ahead, every
\* completion is the one waited for.  An nvds_expect fails only after a call of
\* setting up failed or a request ran out of retries, or when write_rc_multi slept
\* too short: its client dials for the next queue pair and nobody listens.
NoExpectFails ==
  \A p \in Sides :
    /\ aborted[p] => failures > 0 \/ timeouts > 0 \/ (late /\ prog = "write_rc_multi")
    /\ \A q \in Conns : Len(conn[p][q].scq) <= tx_depth

\* No datagram finds the other side without a receive, if the sleep was long
\* enough: the receives posted ahead are.
NoneMissed == missed = 0 \/ late

\* Rounds of the measuring loop, the last of the script, that p has finished.
Rounds(p) ==
  IF at[p].loop < Len(Loops(p)) THEN 0
  ELSE IF Exited(p) THEN n ELSE at[p].round

\* Where each round is answered, by a flag or a datagram, the two sides are in
\* the same round or in neighbouring ones: no flag is taken for two and none is
\* overwritten before it is seen.
InStep ==
  prog \in {"send_ud", "write_rc_unsignaled", "write_rc_multi"} =>
    Rounds("client") - Rounds("server") \in {-1, 0, 1}

\* The programs that need their sleep: a datagram that comes too early is lost, and
\* so is a flag that the server has yet to clear.  The other programs only wait for
\* reliable requests, which are tried again until the server is ready.
NeedSleep == {"send_ud", "write_rc_unsignaled", "write_rc_multi"}

\* Every experiment comes to its end, unless a call failed, a datagram was lost, a
\* request ran out of retries or a sleep that is needed was too short: the client
\* exits, and so does a server that is not written to run for ever.
Ends ==
  <>(\/ Exited("client") /\ (prog \in {"send_rc", "send_rc_unsignaled", "send_ud"} => Exited("server"))
     \/ failures > 0 \/ strays > 0 \/ timeouts > 0 \/ (late /\ prog \in NeedSleep))

============================================================================
