------------------------------ MODULE ThreadProc ------------------------------
(***************************************************************************)
(* From an elaboration to a process: the threads run until all is quiet    *)
(* (Elab), the one in an infinite loop becomes a process (Translate), and  *)
(* thread and process are then clocked side by side with the same input.   *)
(***************************************************************************)
EXTENDS Elab, Translate

CONSTANTS
    Programs,   \* names of the designs
    Code,       \* the code of each thread of a design, methods of Objects[1]
    Heap        \* field values when elaboration starts

VARIABLES
    prog,
    frozen,     \* the heap when elaboration ended
    proc        \* the process; None while elaboration goes on
vars == <<elabvars, prog, frozen, proc>>

\* The thread that becomes a process: one in an infinite loop.
Looping == {i \in DOMAIN threads : OuterLoop(threads[i].m) # 0}
Clocked == CHOOSE i \in Looping : TRUE
Blocked == [threads[Clocked].m EXCEPT !.f = heap]

Init ==
    /\ prog \in Programs
    /\ StartThreads(Code[prog], Objects[1], Heap)
    /\ frozen = Heap
    /\ proc = None

Elaborate ==
    /\ proc = None
    /\ Step \/ Wake \/ Settle
    /\ UNCHANGED <<prog, frozen, proc>>

MakeProcess ==
    /\ proc = None /\ Quiet /\ Looping # {}
    /\ frozen' = heap
    /\ proc' = ProcOf(Blocked)
    /\ UNCHANGED <<elabvars, prog>>

Clock(net) ==
    /\ proc # None
    /\ \E m \in {ThreadClock(Blocked, net)} :
         /\ threads' = [threads EXCEPT ![Clocked] = [@ EXCEPT !.m = m, !.blk = m.blk]]
         /\ heap' = m.f
    /\ proc' = ProcClock(proc, net)
    /\ UNCHANGED <<ready, nba, prog, frozen>>

Next == Elaborate \/ MakeProcess \/ \E net \in 0 .. Modulus - 1 : Clock(net)
Spec == Init /\ [][Next]_vars

-----------------------------------------------------------------------------
\* The point a thread is blocked at, as _thread names it: the calls below the
\* frame of its outermost infinite loop, and the statement.
CallsBelow(m, calls, l) ==
    LET below == SelectSeq(calls, LAMBDA i : i > l)
    IN  [i \in DOMAIN below |-> m.k[below[i]].id]
PointOf(m) == <<CallsBelow(m, CallItems(m), OuterLoop(m)), m.blk.id>>

\* After every clock the registers of the process hold what the thread's objects
\* hold; a field it took as static has kept its elaborated value
\* (translate.py: partial evaluation over the heap).
SameState ==
    proc # None =>
        \A x \in DOMAIN heap :
            heap[x] = IF FieldVar(x[1], x[2]) \in DOMAIN proc.val
                      THEN proc.val[FieldVar(x[1], x[2])] ELSE frozen[x]

\* The process is suspended at the await of the statement the thread is blocked
\* at, through the same calls: it took as many clocks to get there, and neither
\* runs on without one (_await, the initial await, _residual_loop).
SameAwait == proc # None => proc.at = PointOf(Blocked)

\* Elaboration takes no time: it carries no thread over a clock edge ("Run every
\* thread until all are blocked on something that needs time", Interpreter.run).
NoEdgePassed ==
    [][proc = None => \A i \in DOMAIN threads :
         threads[i].blk # None /\ threads[i].blk.k = "edge" => threads'[i] = threads[i]]_vars
=============================================================================
