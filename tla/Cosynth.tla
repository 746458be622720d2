--------------------------------- MODULE Cosynth -------------------------------
(***************************************************************************)
(* The co-synthesis pass (cosynth/rewrite.py) on a lowered pipeline of one *)
(* cipher core, and the harness of cosynth/equiv.py that clocks the        *)
(* pipeline as lowered and the rewritten one side by side.                 *)
(*                                                                         *)
(* The stages are those of the harness: stage 0 forgets the upper half of  *)
(* the key in AES-128 mode, the others keep all they get (each of the      *)
(* harness's projections is a part of that).  What the environment         *)
(* promises is what the contract records say of it, and of these only the  *)
(* clauses that an applied transformation names: the harness assumes all.  *)
(***************************************************************************)
EXTENDS Naturals, FiniteSets

CONSTANTS
    Jobs,       \* [stages, xs, clauses, stable]: what the pass and the harness get
    Inputs      \* what the input ports may show: functions of Port

VARIABLES
    job,        \* the job
    pre, post,  \* the two pipelines' registers: [v, in, p, out]
    last,       \* post's outputs one cycle ago: [ov, out]
    busy,       \* the harness: an operation is in flight
    sampled,    \* and its inputs
    fresh       \* cycles since the reset, up to 2
vars == <<job, pre, post, last, busy, sampled, fresh>>

\* The ports of stage 0; the two halves of the key are one port and one flop.
Port == {"key_hi", "key_lo", "key_width", "block"}
KeyPort == Port \ {"block"}

\* REASONS: the clauses a transformation relies on.
Reasons(x) ==
    CASE x = "X6" -> {"mode_fixed", "key_stable_op"}
      [] x = "X2" -> {"key_stable_op", "key_stable_busy", "mode_fixed"}
      [] x = "X1" -> {"block_stable", "one_in_flight"}
      [] x = "X3" -> {"one_in_flight", "store_after_result"}
      [] x = "X5" -> {"key_stable_busy"}

\* run_pass: a transformation without its clauses is skipped; X5 is never applied.
Applied(j) == {x \in j.xs \ {"X5"} : Reasons(x) \subseteq j.clauses}

-----------------------------------------------------------------------------
(* build_top: the rewritten top for the applied transformations xs. *)

Tied(xs) == IF "X6" \in xs THEN {"key_width", "key_hi"} ELSE {}
Direct(xs) == (IF "X2" \in xs THEN KeyPort ELSE {}) \cup (IF "X1" \in xs THEN {"block"} ELSE {})
\* Mutant: the block's flop is not counted.
InFlops_NoBlock(xs) == KeyPort \ (Tied(xs) \cup Direct(xs))
InFlops(xs) == Port \ (Tied(xs) \cup Direct(xs))
Fold(xs) == InFlops(xs) = {}
Latency(xs, stages) == IF Fold(xs) THEN stages ELSE stages + 1

\* What stage 0 reads: a tied port, the port itself, or its flop.
Source(xs, in, ports) ==
    [p \in Port |-> IF p \in Tied(xs) THEN 0 ELSE IF p \in Direct(xs) THEN ports[p] ELSE in[p]]
Stage0(d) == IF d["key_width"] = 0 THEN [d EXCEPT !["key_hi"] = 0] ELSE d

\* A register's value before anything is written to it, and after a reset.
Unknown == [p \in Port |-> 2]
Zero == [p \in Port |-> 0]
AfterReset(xs, stages) ==
    LET d == IF "X3" \in xs THEN Unknown ELSE Zero
    IN  [v |-> [s \in 0 .. stages |-> FALSE], in |-> d, p |-> [s \in 1 .. stages - 1 |-> d], out |-> d]

\* v0 of the top: input_valid itself once it is folded.
Starts(xs, r, iv) == IF Fold(xs) THEN iv ELSE r.v[0]
\* n<s+1>: what stage s makes in this cycle.
StageOut(xs, r, ports, s) == IF s = 0 THEN Stage0(Source(xs, r.in, ports)) ELSE r.p[s]
Enabled(xs, r, iv, s) == IF s = 0 THEN Starts(xs, r, iv) ELSE r.v[s]
Clocked(xs, stages, r, iv, ports) ==
    [v   |-> [s \in 0 .. stages |-> IF s = 0 THEN iv ELSE Enabled(xs, r, iv, s - 1)],
     in  |-> IF iv THEN ports ELSE r.in,
     p   |-> [s \in 1 .. stages - 1 |->
                IF "X3" \in xs \/ Enabled(xs, r, iv, s - 1) THEN StageOut(xs, r, ports, s - 1) ELSE r.p[s]],
     out |-> IF Enabled(xs, r, iv, stages - 1) THEN StageOut(xs, r, ports, stages - 1) ELSE r.out]
OutputValid(r, stages) == r.v[stages]

-----------------------------------------------------------------------------
(* The harness. *)

\* rep["pre"]["latency"] - rep["post"]["latency"]
Shift(j) == Latency({}, j.stages) - Latency(Applied(j), j.stages)

\* The clauses the environment keeps: those the applied transformations name,
\* but not the stability of the operands in the variant without it.
Kept(j) ==
    (j.clauses \cap UNION {Reasons(x) : x \in Applied(j)})
        \ (IF j.stable THEN {} ELSE {"key_stable_op", "key_stable_busy", "block_stable"})
\* The premise MODE=0, an assumption on the host and no clause: what ties the
\* mode to AES-128 asks for it, and the harness assumes it of every job.  Here
\* it is asked for only where something turns on it.
HostMode(j, ports) ==
    "X6" \in Applied(j) \/ ~j.stable => ports["key_width"] = 0
Allowed(j, iv, ports) ==
    /\ HostMode(j, ports)
    /\ busy =>
        /\ "one_in_flight" \in Kept(j) => ~iv
        /\ "key_stable_op" \in Kept(j) => \A p \in {"key_hi", "key_lo"} : ports[p] = sampled[p]
        /\ "mode_fixed" \in Kept(j) => ports["key_width"] = sampled["key_width"]
        /\ "block_stable" \in Kept(j) => ports["block"] = sampled["block"]

Init ==
    /\ job \in Jobs
    /\ pre = AfterReset({}, job.stages)
    /\ post = AfterReset(Applied(job), job.stages)
    /\ last = [ov |-> FALSE, out |-> Unknown]
    /\ busy = FALSE
    /\ sampled = Zero
    /\ fresh = 1

\* One cycle with input_valid iv and the given ports.
Cycle(iv, ports) ==
    /\ Allowed(job, iv, ports)
    /\ pre' = Clocked({}, job.stages, pre, iv, ports)
    /\ post' = Clocked(Applied(job), job.stages, post, iv, ports)
    /\ last' = [ov |-> OutputValid(post, job.stages), out |-> post.out]
    /\ busy' = (iv \/ (busy /\ ~OutputValid(pre, job.stages)))
    /\ sampled' = IF iv THEN ports ELSE sampled
    /\ fresh' = 2
    /\ UNCHANGED job

Next == \E ports \in Inputs : Cycle(TRUE, ports) \/ Cycle(FALSE, ports)
Spec == Init /\ [][Next]_vars

-----------------------------------------------------------------------------
(* Properties. *)

\* The harness expects a counterexample without the operands' stability when
\* stage 0 reads a port directly and is not the one that starts (equiv.py:220).
Expected(j) == j.stable \/ Applied(j) \cap {"X1", "X2"} = {} \/ Fold(Applied(j))

\* The assertions of the harness: the rewritten pipeline gives the same results
\* as the one it was made from, as many cycles earlier as the report says, for
\* every set of applied transformations and stage count; and it takes no other
\* promise of the environment than the clauses the report names for them and,
\* for X6 and in the variant without stable operands, the host's MODE=0.
SameResults ==
    (Expected(job) /\ fresh > Shift(job)) =>
        LET got == IF Shift(job) = 0 THEN [ov |-> OutputValid(post, job.stages), out |-> post.out] ELSE last
        IN  /\ got.ov = OutputValid(pre, job.stages)
            /\ got.ov => got.out = pre.out
================================================================================
