------------------------------ MODULE MCServer ------------------------------
(* Two clients and two workers.  The view forgets which buffer is which:   *)
(* while BufferInOnePlace and LinksAreLists hold, a step depends on what the  *)
(* buffers in each place hold, and on the number of free and posted ones.  *)
EXTENDS Server

MCClients == {"c1", "c2"}
MCWorkers == {"w1", "w2"}

MCView ==
  <<ppc, IF work = 0 THEN "none" ELSE peer[work],
    IF ppc \in {"enqueue", "notify"} THEN to ELSE "none",
    wpc, [w \in Workers |-> IF mine[w] = 0 THEN "none" ELSE peer[mine[w]]], mtx,
    [w \in Workers |-> [i \in DOMAIN queued[w] |-> peer[queued[w][i]]]],
    Len(free), Len(posted),
    [i \in DOMAIN rcq |-> <<rcq[i].from, target[rcq[i].buf]>>], sends, clients>>
============================================================================
