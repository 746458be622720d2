-------------------------------- MODULE FwStep -------------------------------
(***************************************************************************)
(* One clock edge of the class model: the steps of several components run  *)
(* one after another, in any order, and talk through fw_channel (streams), *)
(* fw_valid_channel and fw_level_channel.  The module follows              *)
(* fw_step_ctx (fw_steppable.svh), the step loop of fw_component::do_run   *)
(* and the three channel classes.                                          *)
(*                                                                         *)
(* A step body runs to completion without yielding, so while one is        *)
(* executing nothing else moves; each call its body makes is an action, as *)
(* are each undo of a stalled step and the restore that ends it.  Which    *)
(* calls a body makes, and in which order, is left open.                   *)
(*                                                                         *)
(* $realtime is only ever compared with "now" by the code, so a stamp is a *)
(* flag: TRUE while the stamped moment is the current one.  Tick lets time *)
(* pass and clears every flag; the edge counters (m_edge_t, m_pop_t) go    *)
(* back to zero with it, as the code's comparison with $realtime does.     *)
(***************************************************************************)
EXTENDS Naturals, Sequences

CONSTANTS
  Nets,       (* the networks: records of the fields named below           *)
  Proc,       (* a run() process or a testbench: not a step                *)
  Val, v0,    (* the values, and the one the fields are zero-initialized to*)
  MaxLog      (* bound: undo records of one step                           *)

VARIABLE net  (* the network, which never changes                          *)

Steps    == net.steps     \* the steps (fw_steppable)
Atomic   == net.atomic    \* those that are all-or-nothing (fw_atomic_steppable)
Streams  == net.streams   \* the fw_channels, of DEPTH >= 1
Valids   == net.valids    \* the fw_valid_channels, of DEPTH >= 1
Levels   == net.levels    \* the fw_level_channels
Prod     == net.prod      \* each channel's two ends: a step, or Proc
Cons     == net.cons
DEPTH    == net.depth     \* how many values a stream or valid channel holds
MaxTake  == net.max_take  \* bound: takes a step body makes from one channel
Queues   == Streams \cup Valids
Channels == Queues \cup Levels

ASSUME StepAssumption ==
  /\ v0 \in Val /\ MaxLog \in Nat
  /\ \A mark \in {"idle", "empty", "refused"} : mark \notin Val
  /\ \A n \in Nets :
       /\ n.atomic \subseteq n.steps /\ Proc \notin n.steps
       /\ n.streams \cap n.valids = {} /\ (n.streams \cup n.valids) \cap n.levels = {}
       /\ DOMAIN n.prod = n.streams \cup n.valids \cup n.levels
       /\ \A c \in DOMAIN n.prod : {n.prod[c], n.cons[c]} \subseteq n.steps \cup {Proc}
       /\ \A c \in n.streams : n.prod[c] \in n.atomic \cup {Proc}
       /\ n.depth \in [n.streams \cup n.valids -> Nat \ {0}]
       /\ n.max_take \in Nat \ {0}

VARIABLES
  m_q,         (* per queue: the waiting values, oldest first, with the    *)
               (* flag that stands for m_t                                 *)
  m_edge_put,  (* per queue: puts by steps during this edge                *)
  m_edge_take, (* per queue: takes by steps during this edge (m_npop)      *)
  m_sent,      (* per stream: the step whose value went before it          *)
               (* committed (fw_step_sent and held[]), or Proc for none    *)
  level,       (* per level: value, m_prev and the flag for m_t            *)
  reported,    (* per valid channel: n_violations > 0                      *)
  s, m_saved,  (* per step: its fields, and the copy to go back to         *)
  running,     (* the step that is executing, or Proc (active is FALSE)    *)
  stalled,     (* fw_step_ctx::stalled                                     *)
  log,         (* fw_step_ctx::log                                         *)
  phase,       (* "idle", "body" or "undo"                                 *)
  due          (* the steps that still have to run at this edge            *)

code == <<m_q, m_edge_put, m_edge_take, m_sent, level, reported, s, m_saved,
          running, stalled, log, phase, due>>

\* Observations, for the properties only.
VARIABLES
  q0,     (* per queue: the values held when this edge began               *)
  lv0,    (* per level: its value when this edge began                     *)
  wr, rd, (* per queue: what each side did at this edge so far             *)
  wr0, rd0, (* ... and at the edge before                                  *)
  pre,    (* what a stall must put back: the state when the step began     *)
  since,  (* per stream: values put since its producer last committed      *)
  broken  (* per valid channel: a step that committed put a value into it  *)
          (* though it was full when the edge began                        *)

seen == <<q0, lv0, wr, rd, wr0, rd0, pre, since, broken>>
vars == <<net, code, seen>>

------------------------------------------------------------------------------
active == running # Proc
atomic == running \in Atomic

\* Mutant: a step sees what was put earlier at its own edge.
hidden_Never(now) == FALSE

\* fw_step_ctx::hidden: a value stamped now is not for a step to see yet.
hidden(now) == active /\ now

\* The queue's oldest value is there for the caller to take.
offered(c) == m_q[c] # <<>> /\ ~hidden(Head(m_q[c]).now)

values(q)  == [i \in 1 .. Len(q) |-> q[i].v]
stamped(v) == [v |-> v, now |-> TRUE]
aged(q)    == [i \in 1 .. Len(q) |-> [v |-> q[i].v, now |-> FALSE]]

Snapshot == [q |-> m_q, lv |-> level, take |-> m_edge_take, s |-> s]

\* Mutants: takes, or puts, are not recorded for the undo.
record_NoTake(u) == log' = IF atomic /\ u.op # "take" THEN Append(log, u) ELSE log
record_NoPut(u)  == log' = IF atomic /\ u.op # "put" THEN Append(log, u) ELSE log

\* fw_step_ctx::record: only an atomic step keeps its effects to undo them.
record(u) ==
  /\ atomic => Len(log) < MaxLog
  /\ log' = IF atomic THEN Append(log, u) ELSE log

Init ==
  /\ net \in Nets
  /\ m_q = [c \in Queues |-> <<>>]
  /\ m_edge_put = [c \in Queues |-> 0]
  /\ m_edge_take = [c \in Queues |-> 0]
  /\ m_sent = [c \in Streams |-> Proc]
  /\ level = [c \in Levels |-> [value |-> v0, prev |-> v0, now |-> FALSE]]
  /\ reported = [c \in Valids |-> FALSE]
  /\ s = [x \in Steps |-> v0] /\ m_saved = s
  /\ running = Proc /\ stalled = FALSE /\ log = <<>>
  /\ phase = "idle" /\ due = {}
  /\ q0 = [c \in Queues |-> <<>>]
  /\ lv0 = [c \in Levels |-> v0]
  /\ wr = [c \in Queues |-> "idle"] /\ rd = wr /\ wr0 = wr /\ rd0 = wr
  /\ pre = <<>>
  /\ since = [c \in Streams |-> 0]
  /\ broken = [c \in Valids |-> FALSE]

------------------------------------------------------------------------------
(* Time.  The clocks that rise at the new moment make the steps in E due   *)
(* (E = {}: time passes without an edge).                                  *)

Tick(E) ==
  /\ phase = "idle" /\ due = {}
  /\ due' = E
  /\ m_q' = [c \in Queues |-> aged(m_q[c])]
  /\ level' = [c \in Levels |-> [level[c] EXCEPT !.now = FALSE]]
  /\ m_edge_put' = [c \in Queues |-> 0]
  /\ m_edge_take' = [c \in Queues |-> 0]
  /\ q0' = [c \in Queues |-> values(m_q[c])]
  /\ lv0' = [c \in Levels |-> level[c].value]
  /\ wr0' = wr /\ rd0' = rd
  /\ wr' = [c \in Queues |-> "idle"] /\ rd' = wr'
  /\ UNCHANGED <<m_sent, reported, s, m_saved, running, stalled, log, phase,
                 pre, since, broken, net>>

------------------------------------------------------------------------------
(* A step: step_save and begin_step, the calls of its body, end_step.      *)

BeginStep(x) ==
  /\ phase = "idle" /\ x \in due
  /\ due' = due \ {x}
  /\ m_saved' = IF x \in Atomic THEN [m_saved EXCEPT ![x] = s[x]] ELSE m_saved
  /\ running' = x /\ phase' = "body"
  /\ stalled' = FALSE /\ log' = <<>>
  /\ pre' = Snapshot
  /\ UNCHANGED <<m_q, m_edge_put, m_edge_take, m_sent, level, reported, s,
                 q0, lv0, wr, rd, wr0, rd0, since, broken, net>>

\* The edge's takes, after one more from c (m_npop).
one_more_NotCounted(c) == m_edge_take
one_more(c) == [m_edge_take EXCEPT ![c] = @ + 1]

\* ch_try_get, of a stream or a valid channel.  The body keeps the value.
TryGet(c) ==
  /\ phase = "body" /\ running = Cons[c]
  /\ m_edge_take[c] < MaxTake
  /\ \/ /\ ~offered(c)
        /\ rd' = [rd EXCEPT ![c] = IF @ = "idle" THEN "empty" ELSE @]
        /\ UNCHANGED <<m_q, m_edge_take, s, log>>
     \/ /\ offered(c)
        /\ record([op |-> "take", c |-> c, e |-> Head(m_q[c])])
        /\ m_q' = [m_q EXCEPT ![c] = Tail(@)]
        /\ m_edge_take' = one_more(c)
        /\ s' = [s EXCEPT ![running] = Head(m_q[c]).v]
        /\ rd' = [rd EXCEPT ![c] = IF @ = "idle" THEN Head(m_q[c]).v ELSE @]
  /\ UNCHANGED <<m_edge_put, m_sent, level, reported, m_saved, running, stalled,
                 phase, due, q0, lv0, wr, wr0, rd0, pre, since, broken, net>>

\* The values c held when the edge began: space a take made at this edge does
\* not count, nor does a value put at it.
held_Now(c) == Len(m_q[c])
held(c) == (Len(m_q[c]) + m_edge_take[c]) - m_edge_put[c]

\* The running step's value for c has not gone yet: fw_step_sent.
unsent_Always(c) == TRUE
unsent(c) == m_sent[c] = Proc

\* fw_channel::ch_put_or_stall; a call whose value went already does nothing.
PutOrStall(c, v) ==
  /\ phase = "body" /\ running = Prod[c] /\ atomic
  /\ unsent(c)
  /\ \/ /\ held(c) >= DEPTH[c]
        /\ stalled' = TRUE
        /\ wr' = [wr EXCEPT ![c] = "refused"]
        /\ UNCHANGED <<m_q, m_edge_put, m_sent, since>>
     \/ /\ held(c) < DEPTH[c]
        /\ m_q' = [m_q EXCEPT ![c] = Append(@, stamped(v))]
        /\ m_edge_put' = [m_edge_put EXCEPT ![c] = @ + 1]
        /\ m_sent' = [m_sent EXCEPT ![c] = running]
        /\ wr' = [wr EXCEPT ![c] = v]
        /\ since' = [since EXCEPT ![c] = @ + 1]
        /\ UNCHANGED stalled
  /\ UNCHANGED <<m_edge_take, level, reported, s, m_saved, running, log, phase,
                 due, q0, lv0, rd, wr0, rd0, pre, broken, net>>

\* The values a put to a valid channel counts: as held, of its edge.
counted_Now(c) == Len(m_q[c])
counted(c) == Len(m_q[c]) + (IF active THEN m_edge_take[c] ELSE 0)

\* fw_valid_channel::ch_put.  A put while full is reported and kept.
ValidPut(c, v) ==
  /\ IF Prod[c] = Proc THEN phase = "idle" ELSE phase = "body" /\ running = Prod[c]
  /\ Len(m_q[c]) <= DEPTH[c]          \* bound: one value too many
  /\ wr[c] = "idle"                   \* bound: one put an edge
  /\ reported' = [reported EXCEPT ![c] = @ \/ counted(c) >= DEPTH[c]]
  /\ m_q' = [m_q EXCEPT ![c] = Append(@, stamped(v))]
  /\ record([op |-> "put", c |-> c])
  /\ wr' = [wr EXCEPT ![c] = v]
  /\ UNCHANGED <<m_edge_put, m_edge_take, m_sent, level, s, m_saved, running,
                 stalled, phase, due, q0, lv0, rd, wr0, rd0, pre, since, broken, net>>

\* What the level was before the edge that sets it now: m_prev is taken at the
\* first set of the edge only.
previous(l) == IF l.now THEN l.prev ELSE l.value

\* fw_level_channel::ch_set.
LevelSet(c, v) ==
  /\ IF Prod[c] = Proc THEN phase = "idle" ELSE phase = "body" /\ running = Prod[c]
  /\ record([op |-> "set", c |-> c, e |-> level[c]])
  /\ level' = [level EXCEPT ![c] =
       [value |-> v, prev |-> previous(@), now |-> TRUE]]
  /\ UNCHANGED <<m_q, m_edge_put, m_edge_take, m_sent, reported, s, m_saved,
                 running, stalled, phase, due, seen, net>>

\* fw_level_channel::ch_get.
LevelGet(c) == IF hidden(level[c].now) THEN level[c].prev ELSE level[c].value

\* end_step of a step that stalled begins to undo; of one that did not,
\* releases the outputs the step has sent: it has committed.
EndStep ==
  /\ phase = "body"
  /\ \/ /\ stalled
        /\ phase' = "undo"
        /\ UNCHANGED <<running, log, m_sent, pre, since, broken>>
     \/ /\ ~stalled
        /\ phase' = "idle" /\ running' = Proc /\ log' = <<>>
        /\ m_sent' = [c \in Streams |-> IF m_sent[c] = running THEN Proc ELSE m_sent[c]]
        /\ pre' = <<>>
        /\ since' = [c \in Streams |-> IF Prod[c] = running THEN 0 ELSE since[c]]
        /\ broken' = [c \in Valids |->
             broken[c] \/ (/\ Prod[c] = running /\ wr[c] # "idle"
                           /\ Len(q0[c]) >= DEPTH[c])]
  /\ UNCHANGED <<m_q, m_edge_put, m_edge_take, level, reported, s, m_saved,
                 stalled, due, q0, lv0, wr, rd, wr0, rd0, net>>

\* One turn of end_step's loop: undo the newest effect that is left.
Undo ==
  LET u == log[Len(log)]
  IN
  /\ phase = "undo" /\ log # <<>>
  /\ log' = SubSeq(log, 1, Len(log) - 1)
  /\ \/ /\ u.op = "take"
        /\ m_q' = [m_q EXCEPT ![u.c] = <<u.e>> \o @]
        /\ m_edge_take' = [m_edge_take EXCEPT ![u.c] = @ - 1]
        /\ UNCHANGED <<level, wr>>
     \/ /\ u.op = "put"
        /\ m_q' = [m_q EXCEPT ![u.c] = SubSeq(@, 1, Len(@) - 1)]
        /\ wr' = [wr EXCEPT ![u.c] = "idle"]
        /\ UNCHANGED <<m_edge_take, level>>
     \/ /\ u.op = "set"
        /\ level' = [level EXCEPT ![u.c] = u.e]
        /\ UNCHANGED <<m_q, m_edge_take, wr>>
  /\ UNCHANGED <<m_edge_put, m_sent, reported, s, m_saved, running, stalled, phase,
                 due, q0, lv0, rd, wr0, rd0, pre, since, broken, net>>

\* end_step returned that the step stalled: step_restore.
Restore ==
  /\ phase = "undo" /\ log = <<>>
  /\ s' = [s EXCEPT ![running] = m_saved[running]]
  /\ phase' = "idle" /\ running' = Proc /\ stalled' = FALSE
  /\ rd' = [c \in Queues |-> IF Cons[c] = running THEN "idle" ELSE rd[c]]
  /\ pre' = <<>>
  /\ UNCHANGED <<m_q, m_edge_put, m_edge_take, m_sent, level, reported, m_saved,
                 log, due, q0, lv0, wr, wr0, rd0, since, broken, net>>

------------------------------------------------------------------------------
(* The blocking calls of run() processes, between two step bodies.         *)

space(c) == Len(m_q[c]) < DEPTH[c]

\* fw_channel::ch_put: waits for space, counting what waits now.
ProcPut(c, v) ==
  /\ phase = "idle" /\ Prod[c] = Proc
  /\ space(c)
  /\ m_q' = [m_q EXCEPT ![c] = Append(@, stamped(v))]
  /\ UNCHANGED <<m_edge_put, m_edge_take, m_sent, level, reported, s, m_saved,
                 running, stalled, log, phase, due, seen, net>>

\* ch_get, of a stream or a valid channel: waits for a value.
ProcGet(c) ==
  /\ phase = "idle" /\ Cons[c] = Proc
  /\ m_q[c] # <<>>
  /\ m_q' = [m_q EXCEPT ![c] = Tail(@)]
  /\ UNCHANGED <<m_edge_put, m_edge_take, m_sent, level, reported, s, m_saved,
                 running, stalled, log, phase, due, seen, net>>

------------------------------------------------------------------------------
Next ==
  \/ \E E \in SUBSET Steps : Tick(E)
  \/ \E x \in Steps : BeginStep(x)
  \/ \E c \in Queues : TryGet(c) \/ ProcGet(c)
  \/ \E c \in Streams, v \in Val : PutOrStall(c, v) \/ ProcPut(c, v)
  \/ \E c \in Valids, v \in Val : ValidPut(c, v)
  \/ \E c \in Levels, v \in Val : LevelSet(c, v)
  \/ EndStep
  \/ Undo
  \/ Restore

Spec == Init /\ [][Next]_vars
------------------------------------------------------------------------------
Entry     == [v : Val, now : BOOLEAN]
LevelType == [value : Val, prev : Val, now : BOOLEAN]
UndoType  == [op : {"take"}, c : Queues, e : Entry]
             \cup [op : {"put"}, c : Valids]
             \cup [op : {"set"}, c : Levels, e : LevelType]

\* The types of the fields.  Of note: an undo never takes an edge counter below
\* zero.
TypeOK ==
  /\ m_q \in [Queues -> Seq(Entry)]
  /\ m_edge_put \in [Queues -> Nat] /\ m_edge_take \in [Queues -> Nat]
  /\ m_sent \in [Streams -> Steps \cup {Proc}]
  /\ level \in [Levels -> LevelType]
  /\ reported \in [Valids -> BOOLEAN]
  /\ s \in [Steps -> Val] /\ m_saved \in [Steps -> Val]
  /\ running \in Steps \cup {Proc} /\ stalled \in BOOLEAN
  /\ log \in Seq(UndoType)
  /\ phase \in {"idle", "body", "undo"}
  /\ due \subseteq Steps

\* A channel between two steps: neither end is a process.
Between(c) == Prod[c] # Proc /\ Cons[c] # Proc

Depths == UNION {{n.depth[c] : c \in DOMAIN n.depth} : n \in Nets}
Cyclic(c, depth) == INSTANCE FifoCycle WITH DEPTH <- depth,
                                            q <- q0[c], wr <- wr0[c], rd <- rd0[c]

\* Between steps, each fw_channel moves values exactly as the cycle contract
\* (and so fw_rv_fifo) does, whatever order the steps of an edge run in and
\* whichever of them stall: a put is accepted iff there was space when the edge
\* began, a take of a committed step gets the value that was oldest then, and
\* the take of a stalled step does not happen.
\* (The conjunction of Cyclic(c, DEPTH[c])!Spec, without resets, over the streams
\* between steps, with the quantifiers moved inside the box, where TLC can evaluate
\* it.)
CycleContract ==
  /\ \A c \in {d \in Streams : Between(d)} : Cyclic(c, 1)!Init
  /\ [][\A c \in {d \in Streams : Between(d)} :
           \E offer \in Val \cup {"idle"}, want \in BOOLEAN, depth \in Depths :
             depth = DEPTH[c] /\ Cyclic(c, depth)!Cycle(offer, want)]_<<q0, wr0, rd0>>

\* A step, even one that will stall, sees of each queue what was there when the
\* edge began: its first poll finds the oldest of those values or, if there
\* were none, nothing.
PollSeesEdgeStart ==
  \A c \in Queues : Cons[c] # Proc =>
    /\ rd[c] = "empty" => q0[c] = <<>>
    /\ rd[c] \in Val => q0[c] # <<>> /\ rd[c] = Head(q0[c])

\* A step reads the value a level had when the edge began, also when the writer
\* ran first, set it twice, or stalled and took its set back.
LevelSeesEdgeStart ==
  \A c \in Levels : active /\ running = Cons[c] => LevelGet(c) = lv0[c]

\* A step sees of its inputs what was there when the edge began, in whatever
\* order the steps run.
EdgeStartSeen == PollSeesEdgeStart /\ LevelSeesEdgeStart

\* What a stalled step leaves behind, once its log is used up: every queue,
\* level, edge counter and field is as when the step began, but for the values
\* its put_or_stalls sent.
AllOrNothing ==
  phase = "undo" /\ log = <<>> =>
    /\ level = pre.lv
    /\ m_edge_take = pre.take
    /\ m_saved[running] = pre.s[running]
    /\ \A c \in Queues :
         \/ m_q[c] = pre.q[c]
         \/ /\ c \in Streams /\ m_sent[c] = running
            /\ m_q[c] = Append(pre.q[c], stamped(wr[c]))

\* Between two commits of its producer a stalling output takes at most one
\* value, and the output counts as sent from that value to the commit; and a
\* stream never holds more than DEPTH values, with steps or processes at either
\* end.
OneValuePerCommit ==
  \A c \in Streams :
    /\ Len(m_q[c]) <= DEPTH[c]
    /\ Prod[c] # Proc =>
        /\ since[c] = IF m_sent[c] = Proc THEN 0 ELSE 1
        /\ m_sent[c] \in {Proc, Prod[c]}

\* Between steps, every value put into a valid channel that was full when the
\* edge began was reported as a credit violation: a take earlier in the same edge
\* does not hide it.  (A take by a process is not counted: it leaves no m_npop.)
NoMissedViolation == \A c \in Valids : Between(c) /\ broken[c] => reported[c]

\* A reported credit violation is one of a put that happened, while the channel
\* was full when the edge began.
NoFalseViolation ==
  phase = "idle" => \A c \in Valids : Between(c) /\ reported[c] => broken[c]
==============================================================================
