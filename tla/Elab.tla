---------------------------------- MODULE Elab ---------------------------------
(***************************************************************************)
(* The scheduler of the elaboration interpreter (interp.py, Interpreter):  *)
(* threads run one at a time, each until it blocks, over one heap, until   *)
(* every thread is done or blocked on something that needs time.           *)
(*                                                                         *)
(* A thread is [m, blk, kids, joined]: its machine, the statement it was   *)
(* last seen blocked at (Thread.block, which a thread that runs keeps      *)
(* until it blocks again), the threads of the fork it is joined to, and    *)
(* (history) the joins it has been at.                                     *)
(***************************************************************************)
EXTENDS SvThread

VARIABLES
    threads,    \* in the order they were started
    ready,      \* indices of threads to run, first first
    heap,       \* field values
    nba         \* nonblocking assignments of this time slot
elabvars == <<threads, ready, heap, nba>>

Thread(m) == [m |-> m, blk |-> None, kids |-> {}, joined |-> {}]
Done(t) == t.m.k = <<>> /\ t.m.blk = None

StartThreads(roots, this, h) ==
    /\ threads = [i \in DOMAIN roots |-> Thread(Machine(roots[i], "ret" :> 0, this, h))]
    /\ ready = [i \in DOMAIN roots |-> i]
    /\ heap = h
    /\ nba = <<>>

\* A join of the threads `kids` is over.
JoinOver(ts, kids, any) ==
    IF any THEN \E i \in kids : Done(ts[i]) ELSE \A i \in kids : Done(ts[i])

\* Mutant: a thread already in the ready list is added again.
Triggered_Twice(ts, rdy, e) ==
    SelectSeq([i \in DOMAIN ts |-> i],
              LAMBDA i : ts[i].blk # None /\ ts[i].blk.k = "event" /\ ts[i].blk.e = e)
\* Mutant: threads at a clock edge are taken for waiters of the event.
Triggered_Edge(ts, rdy, e) ==
    SelectSeq([i \in DOMAIN ts |-> i],
              LAMBDA i : /\ ts[i].blk # None
                         /\ ts[i].blk.k \in {"event", "edge"}
                         /\ ts[i].blk.k = "event" => ts[i].blk.e = e
                         /\ ~Contains(rdy, i))
\* trigger: the threads that wait for event e, in thread order.
Triggered(ts, rdy, e) ==
    SelectSeq([i \in DOMAIN ts |-> i],
              LAMBDA i : /\ ts[i].blk # None
                         /\ ts[i].blk.k = "event" /\ ts[i].blk.e = e
                         /\ ~Contains(rdy, i))

\* What a thread did while it ran: threads started are ready, events wake.
Scheduled(acts, ts, rdy) ==
    FoldLeft(LAMBDA s, x :
                 IF x.k = "spawn"
                 THEN [ts |-> Append(s.ts, Thread(x.m)), rdy |-> Append(s.rdy, Len(s.ts) + 1)]
                 ELSE [s EXCEPT !.rdy = @ \o Triggered(s.ts, @, x.e)],
             [ts |-> ts, rdy |-> rdy], acts)
\* The thread t stopped as machine m, with n threads in all: the last ones are
\* the branches of the fork it is at.
Stopped(t, m, n) ==
    LET forked == m.blk # None /\ m.blk.k = "fork"
        kids == IF forked THEN (n - Len(m.blk.ss) + 1) .. n ELSE {}
    IN  [m |-> [m EXCEPT !.nba = <<>>, !.acts = <<>>], blk |-> m.blk, kids |-> kids,
         joined |-> IF forked THEN t.joined \cup {<<kids, m.blk.join>>} ELSE t.joined]
Resumed(m) == Run([m EXCEPT !.blk = None, !.f = heap, !.acts = <<>>, !.nba = <<>>])

\* _step: the first ready thread runs until it blocks or ends.
RunThread(i, rest) ==
    \E m \in {Resumed(threads[i].m)} : \E end \in {Scheduled(m.acts, threads, rest)} :
        /\ threads' = [end.ts EXCEPT ![i] = Stopped(@, m, Len(end.ts))]
        /\ ready' = end.rdy
        /\ heap' = m.f
        /\ nba' = nba \o m.nba

Step == ready # <<>> /\ RunThread(Head(ready), Tail(ready))

\* _wake: the blocked threads whose wait is over at this time, in thread order.
Woken(ts, h) ==
    SelectSeq([i \in DOMAIN ts |-> i],
        LAMBDA i :
            LET b == ts[i].blk
            IN  /\ b # None
                /\ \/ b.k = "delay0"
                   \/ b.k = "wait" /\ Truthy(Eval(b.c, [ts[i].m EXCEPT !.f = h]).v)
                   \/ b.k = "fork" /\ JoinOver(ts, ts[i].kids, b.join = "any"))

Wake ==
    /\ ready = <<>>
    /\ Woken(threads, heap) # <<>>
    /\ ready' = Woken(threads, heap)
    /\ UNCHANGED <<threads, heap, nba>>

\* Nothing is left to run: the nonblocking assignments take effect.
Settle ==
    /\ ready = <<>> /\ Woken(threads, heap) = <<>> /\ nba # <<>>
    /\ heap' = ApplyNba([threads[1].m EXCEPT !.f = heap, !.nba = nba]).f
    /\ nba' = <<>>
    /\ ready' = Woken(threads, heap')
    /\ UNCHANGED threads

Quiet == ready = <<>> /\ Woken(threads, heap) = <<>> /\ nba = <<>>

-----------------------------------------------------------------------------
\* A thread is in the ready list once, and never after its end: a second entry
\* would carry it over the next thing it waits for (trigger, _wake).
ReadyOnce ==
    /\ \A i, j \in DOMAIN ready : ready[i] = ready[j] => i = j
    /\ \A i \in DOMAIN ready : ~Done(threads[ready[i]])

\* A thread goes on after a fork only when the branches it joins are done
\* (_fork, _wake).
JoinsHold ==
    \A i \in DOMAIN threads : \A j \in threads[i].joined :
        \/ threads[i].blk # None /\ threads[i].kids = j[1]
        \/ JoinOver(threads, j[1], j[2] = "any")

\* A thread is resumed once for each thing it waits for, and only when it is over.
ResumedOnce == ReadyOnce /\ JoinsHold
=============================================================================
