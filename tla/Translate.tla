------------------------------- MODULE Translate -------------------------------
(***************************************************************************)
(* The translator (python/fw/hdl/fe/elab/translate.py): the outermost      *)
(* infinite loop of a blocked thread, partially evaluated over the heap,   *)
(* becomes a process of ProcIR.                                            *)
(*                                                                         *)
(* The translator's mutable state is a record, passed along:               *)
(*   out      the statement list being written (_out)                      *)
(*   acts     the inlined activations, innermost last (_act_stack):        *)
(*            [sub, this, path, locals, ret]                               *)
(*   flags    the loops being translated (_loop_flags): activation depth,  *)
(*            break and continue keys                                      *)
(*   defined  private variables certainly written (_defined)               *)
(*   dyn      fields known to be state (dyn_fields), and `found`, the one  *)
(*            that makes this pass start over (_Restart)                   *)
(*   vars     the variables made so far, with their reset values           *)
(*   ids      the loop and temporary counters                              *)
(*   nbaold   what the fields written nonblocking hold until the clock     *)
(*            edge ends (_nba_old); the pending value is a local           *)
(*   awaits   how often the blocking point was met (_found_initial)        *)
(*   heap, frames, target   the blocked thread: field values, the locals   *)
(*            of its frames from the loop's on, and where it blocked       *)
(* A value is a term, or a handle [k : "hu", alts] (class HU).             *)
(***************************************************************************)
EXTENDS ProcIR

Act(tr) == Last(tr.acts)
Depth(tr) == Len(tr.acts)
Local(tr, key) == Act(tr).locals[key]
WithLocal(tr, key, v) == [tr EXCEPT !.acts[Depth(tr)].locals = SetLoc(@, key, v)]
WithRet(tr, t) == [tr EXCEPT !.acts[Depth(tr)].ret = t]

\* _local_var and _block_value: a local's variable resets to the value the local
\* had where the thread blocked.
VarKey(act, key) == <<"local", act.path, act.sub, key>>
BlockValue_Zero(tr, act, key) == 0      \* mutant: every local resets to 0
BlockValue(tr, act, key) ==
    LET d == Len(act.path)
        live == d < Len(tr.frames) /\ IsPrefix(act.path, tr.target[1])
    IN  IF live /\ key \in DOMAIN tr.frames[d + 1] THEN tr.frames[d + 1][key] ELSE 0
LocalVar(tr, act, key) ==
    LET v == VarKey(act, key)
    IN  IF v \in DOMAIN tr.vars THEN tr
        ELSE [tr EXCEPT !.vars = SetLoc(@, v, BlockValue(tr, act, key))]
TempVar(tr) == [tr EXCEPT !.ids = @ + 1, !.vars = SetLoc(@, <<"temp", tr.ids>>, 0)]
FieldVar(o, n) == <<"field", o, n>>
Private(v) == v[1] \in {"local", "temp"}

\* emit, and a statement appended without it (the branches of a merge)
Asg(v, t, nb) == [k |-> "asg", v |-> v, t |-> t, nb |-> nb]
Emit(tr, s) == [tr EXCEPT !.out = Append(@, s),
                          !.defined = IF s.k = "asg" /\ Private(s.v) THEN @ \cup {s.v} ELSE @]

\* set_local: a run-time value is captured in the local's own variable.
SetIn(tr, act, key, t) ==
    IF IsConst(t) THEN [tr |-> tr, act |-> [act EXCEPT !.locals = SetLoc(@, key, t)]]
    ELSE LET v == VarKey(act, key)
             tr1 == LocalVar(tr, act, key)
         IN  [tr |-> IF t = TVar(v) THEN tr1 ELSE Emit(tr1, Asg(v, t, FALSE)),
              act |-> [act EXCEPT !.locals = SetLoc(@, key, TVar(v))]]
SetLocal(tr, key, t) ==
    LET r == SetIn(tr, Act(tr), key, t)
    IN  [r.tr EXCEPT !.acts[Depth(tr)] = r.act]

-----------------------------------------------------------------------------
(* If-merge *)

\* _merge_val, _merge_flag: one key's value after an if whose branches left a and
\* b.  acc.t and acc.e are what the two branches end with.
EndWith(ss, v, x) == IF x = TVar(v) THEN ss ELSE Append(ss, Asg(v, x, FALSE))
MergeVar(acc, act, key, v, a, b, isflag) ==
    [acc EXCEPT !.v = TVar(v), !.t = EndWith(@, v, a), !.e = EndWith(@, v, b),
                !.tr = [LocalVar(@, act, key) EXCEPT !.defined = IF isflag THEN @ ELSE @ \cup {v}]]
MergeKey(acc, act, key, a, b, isflag) ==
    IF a = b THEN [acc EXCEPT !.v = a]
    ELSE MergeVar(acc, act, key, VarKey(act, key), a, b, isflag)

\* _merge over the live activations; a local of one side only is dead after,
\* but a pending nonblocking value merges with the field's old one.
Side(mine, other, key, old) ==
    CASE key \in DOMAIN mine -> mine[key]
      [] key \notin DOMAIN mine /\ key \in DOMAIN old -> old[key]
      [] OTHER -> other[key]
KeepLocal(r, i, key) == [r EXCEPT !.tr.acts[i].locals = SetLoc(@, key, r.v)]
KeepRet(r, i) == [r EXCEPT !.tr.acts[i].ret = r.v]
MergeLocals(acc, i, act, a, b) ==
    FoldSet(LAMBDA key, x : KeepLocal(MergeKey(x, act, key, Side(a, b, key, x.tr.nbaold),
                                               Side(b, a, key, x.tr.nbaold), FALSE), i, key),
            acc, DOMAIN a \cup DOMAIN b)
Merge(tr, st, se) ==
    FoldLeft(LAMBDA acc, i :
                 KeepRet(MergeKey(MergeLocals(acc, i, tr.acts[i], st.acts[i].locals, se.acts[i].locals),
                                  tr.acts[i], "$ret", st.acts[i].ret, se.acts[i].ret, TRUE), i),
             [tr |-> se, t |-> st.out, e |-> se.out, v |-> ZERO],
             [i \in DOMAIN tr.acts |-> i])

\* _dyn_if: both branches from the same state, merged; a private variable that
\* one branch alone wrote for the first time gets a default in the other.
Default(ss, vs) == FoldSet(LAMBDA v, x : Append(x, Asg(v, ZERO, FALSE)), ss, vs)
EmitIf(c, t, e, tr) ==
    IF t = <<>> /\ e = <<>> THEN tr ELSE Emit(tr, [k |-> "if", c |-> c, t |-> t, e |-> e])
Joined(c, tr, st, se, m) ==
    EmitIf(c, Default(m.t, (se.defined \ st.defined) \ tr.defined),
           Default(m.e, (st.defined \ se.defined) \ tr.defined),
           [m.tr EXCEPT !.out = tr.out, !.defined = st.defined \cup se.defined])
JoinElse(c, tr, st, se) == Joined(c, tr, st, se, Merge(tr, st, se))
DynElse(c, tr, st, Else(_)) ==
    JoinElse(c, tr, st, Else([st EXCEPT !.out = <<>>, !.acts = tr.acts, !.defined = tr.defined]))
DynIf(c, tr, Then(_), Else(_)) == DynElse(c, tr, Then([tr EXCEPT !.out = <<>>]), Else)

-----------------------------------------------------------------------------
(* Handles: _alts, _norm_hu, _elem at a run-time index, _field *)

Alternatives(ix) ==
    SelectSeq([i \in DOMAIN Objects |-> [c |-> TAlu("eq", ix, TConst(i - 1)), o |-> Objects[i]]],
              LAMBDA x : x.c # ZERO)
FieldTerm(tr, o, n) ==
    IF <<o, n>> \in tr.dyn THEN TVar(FieldVar(o, n)) ELSE TConst(tr.heap[<<o, n>>])
FieldUnion(tr, alts, n) ==
    FoldRight(LAMBDA x, t : TIte(x.c, FieldTerm(tr, x.o, n), t), alts, ZERO)

\* _write_field on one object: a field taken as static makes the pass start over.
WriteField(tr, o, n, t, nb) ==
    IF <<o, n>> \notin tr.dyn
    THEN [tr EXCEPT !.found = IF @ = None THEN <<o, n>> ELSE @]
    ELSE Emit(tr, Asg(FieldVar(o, n), t, nb))
WriteUnion(tr, alts, n, t, nb) ==
    FoldLeft(LAMBDA u, x : DynIf(x.c, u, LAMBDA y : WriteField(y, x.o, n, t, nb), LAMBDA y : y),
             tr, alts)

-----------------------------------------------------------------------------
(* Loop flags *)

PushFlags(tr) ==
    LET fl == [d |-> Depth(tr), brk |-> "$brk" \o ToString(tr.ids),
           cont |-> "$cont" \o ToString(tr.ids)]
        tr1 == WithLocal(WithLocal(tr, fl.brk, ZERO), fl.cont, ZERO)
    IN  [tr1 EXCEPT !.flags = Append(@, fl), !.ids = @ + 1]
Flags(tr) == Last(tr.flags)
PopFlags(tr) == [tr EXCEPT !.flags = Front(@)]
MyFlags(tr) == SelectSeq(tr.flags, LAMBDA fl : fl.d = Depth(tr))

\* _alive: no return, break or continue is in force in this activation.
Alive(tr) ==
    FoldLeft(LAMBDA t, fl : TAnd(t, TAnd(TNot(Local(tr, fl.brk)), TNot(Local(tr, fl.cont)))),
             TNot(Act(tr).ret), MyFlags(tr))
ClearFlags(tr) ==
    FoldLeft(LAMBDA u, fl : WithLocal(WithLocal(u, fl.brk, ZERO), fl.cont, ZERO),
             WithRet(tr, ZERO), MyFlags(tr))

IterAlive(tr) == Local(tr, Flags(tr).brk) # ONE /\ Act(tr).ret # ONE

\* _guarded: work done only if the loop goes on.
GoesOn(tr) == TAnd(TNot(Local(tr, Flags(tr).brk)), TNot(Act(tr).ret))
Guarded(tr, Work(_)) ==
    IF IsConst(GoesOn(tr)) THEN (IF GoesOn(tr) = ONE THEN Work(tr) ELSE tr)
    ELSE DynIf(GoesOn(tr), tr, LAMBDA u : Work(WithLocal(WithRet(u, ZERO), Flags(tr).brk, ZERO)),
               LAMBDA u : u)

\* _may_block, and the locals a statement may assign (_assigned_locals): syntactic.
RECURSIVE MayBlock(_), RootLocal(_), AssignedIn(_), Assigned(_)
MayBlock(s) ==
    CASE s.k \in {"edge", "wait"} -> TRUE
      [] s.k = "seq" -> \E i \in DOMAIN s.ss : MayBlock(s.ss[i])
      [] s.k = "expr" -> s.e.k = "call" /\ Subs[s.e.sub].task
      [] s.k = "if" -> MayBlock(s.t) \/ MayBlock(s.f)
      [] s.k = "case" -> MayBlock(s.d) \/ \E i \in DOMAIN s.items : MayBlock(s.items[i].s)
      [] s.k \in {"while", "dowhile", "for", "forever", "repeat"} -> MayBlock(s.b)
      [] OTHER -> FALSE
RootLocal(l) ==
    CASE l.k = "loc" -> {l.n} [] l.k = "bit" -> RootLocal(l.l) [] OTHER -> {}
AssignedIn(e) ==
    CASE e.k = "set" -> RootLocal(e.l) \cup AssignedIn(e.e)
      [] e.k = "inc" -> RootLocal(e.l)
      [] e.k = "call" -> UNION {IF e.args[i].out THEN RootLocal(e.args[i].e) ELSE AssignedIn(e.args[i].e) : i \in DOMAIN e.args}
      [] e.k \in {"bin", "land", "lor", "cond"} -> AssignedIn(e.a) \cup AssignedIn(e.b)
      [] OTHER -> {}
Assigned(s) ==
    CASE s.k = "seq" -> UNION {Assigned(s.ss[i]) : i \in DOMAIN s.ss}
      [] s.k = "expr" -> AssignedIn(s.e)
      [] s.k = "if" -> Assigned(s.t) \cup Assigned(s.f)
      [] s.k = "case" -> Assigned(s.d) \cup UNION {Assigned(s.items[i].s) : i \in DOMAIN s.items}
      [] s.k = "for" -> Assigned(s.b) \cup AssignedIn(s.st)
      [] s.k \in {"while", "dowhile", "forever", "repeat"} -> Assigned(s.b)
      [] OTHER -> {}

-----------------------------------------------------------------------------
(* Expressions and calls: ev, _call, _inline *)

\* The translator's mutual recursion, through one operator: what is asked, of
\* what, in the state tr.
RECURSIVE Translator(_, _, _)
Ev(e, tr) == Translator("ev", e, tr)
Pe(s, tr) == Translator("pe", s, tr).tr
PeList(ss, tr) == Translator("list", ss, tr).tr
PeCase(s, i, st) == Translator("case", [s |-> s, i |-> i, v |-> st.v], st.tr).tr
Unroll(s, tr, first) == Translator("unroll", [s |-> s, first |-> first], tr).tr
Repeat(s, tr, n) == Translator("repeat", [s |-> s, n |-> n], tr).tr
CallUnion(e, alts, res, tr) == Translator("union", [e |-> e, alts |-> alts, res |-> res], tr).tr
Turn(s, tr) == Translator("turn", s, tr).tr
ResidualLoop(s, tr) == Translator("residual", s, tr).tr
Store(l, tr, t, nb) == Translator("store", [l |-> l, t |-> t, nb |-> nb], tr).tr

\* _note_nba, _partial_base: the value nonblocking writes to a field of this
\* object leave pending; a write to one bit is merged into it.
NbaKey(n) == "$nba_" \o n
NoteNba(tr, l, t) ==
    LET key == NbaKey(l.n)
        old == IF key \in DOMAIN tr.nbaold THEN tr
               ELSE [tr EXCEPT !.nbaold = SetLoc(@, key, Ev(l, tr).v)]
    IN  WithLocal(old, key, t)
PartialBase(l, tr, nb) ==
    IF nb /\ l.k = "fld" /\ NbaKey(l.n) \in DOMAIN Act(tr).locals
    THEN Local(tr, NbaKey(l.n)) ELSE Ev(l, tr).v
ForgetNba(tr) ==
    [tr EXCEPT !.acts = [i \in DOMAIN @ |->
        [@[i] EXCEPT !.locals = [key \in DOMAIN @ \ DOMAIN tr.nbaold |-> @[key]]]]]

StoreTo(l, tr, t, nb) ==
    CASE l.k = "loc" -> SetLocal(tr, l.n, t)
      [] l.k = "fld" -> WriteField(IF nb THEN NoteNba(tr, l, t) ELSE tr, Act(tr).this, l.n, t, nb)
      [] l.k = "bit" -> LET i == Ev(l.ix, tr)
                        IN  Store(l.l, i.tr, TIns(PartialBase(l.l, tr, nb), i.v, t), nb)
      [] l.k = "ofld" -> LET i == Ev(l.ix, tr)
                             alts == Alternatives(i.v)
                         IN  IF IsConst(i.v) THEN WriteField(i.tr, alts[1].o, l.n, t, nb)
                             ELSE WriteUnion(i.tr, alts, l.n, t, nb)

\* A call on object o: arguments into the activation's locals, the body in place,
\* output arguments back to the caller.
Inline(e, o, tr) ==
    LET sub == Subs[Dispatch[o][e.sub]]
        act0 == [sub |-> Dispatch[o][e.sub], this |-> o, path |-> Append(Act(tr).path, e.id),
                 locals |-> <<>>, ret |-> ZERO]
        Bind(acc, i) ==
            IF e.args[i].out THEN SetIn(acc.tr, acc.act, sub.args[i], ZERO)
            ELSE LET r == Ev(e.args[i].e, acc.tr) IN SetIn(r.tr, acc.act, sub.args[i], r.v)
        b == FoldLeft(Bind, [tr |-> tr, act |-> act0], [i \in DOMAIN e.args |-> i])
        act == [b.act EXCEPT !.locals = SetLoc(@, "ret", ZERO)]
        end == Pe(sub.body, [b.tr EXCEPT !.acts = Append(@, act)])
        Out(u, i) == IF e.args[i].out THEN Store(e.args[i].e, u, Local(end, sub.args[i]), FALSE)
                     ELSE u
    IN  [v |-> Local(end, "ret"),
         tr |-> FoldLeft(Out, [end EXCEPT !.acts = Front(@)], [i \in DOMAIN e.args |-> i])]

\* _call_union: an if-chain over the objects the handle can be.
CallAny(e, alts, res, tr) ==
    IF alts = <<>> THEN tr
    ELSE LET Then(u) == LET r == Inline(e, alts[1].o, u) IN Emit(r.tr, Asg(res, r.v, FALSE))
         IN  DynIf(alts[1].c, tr, Then, LAMBDA u : CallUnion(e, Tail(alts), res, u))

EvExpr(e, tr) ==
    LET Same(t) == [v |-> t, tr |-> tr]
        Two(a, Join(_, _)) == LET b == Ev(e.b, a.tr) IN [b EXCEPT !.v = Join(a.v, b.v)]
    IN  CASE e.k = "lit" -> Same(TConst(e.v))
          [] e.k = "loc" -> Same(Local(tr, e.n))
          [] e.k = "fld" -> Same(FieldTerm(tr, Act(tr).this, e.n))
          [] e.k = "net" -> Same(TVar(NetVar))
          [] e.k = "ofld" -> LET i == Ev(e.ix, tr)
                             IN  [i EXCEPT !.v = FieldUnion(i.tr, Alternatives(i.v), e.n)]
          [] e.k = "not" -> LET a == Ev(e.a, tr) IN [a EXCEPT !.v = TNot(TBool(a.v))]
          [] e.k = "land" -> LET a == Ev(e.a, tr)
                             IN  IF TBool(a.v) = ZERO THEN [a EXCEPT !.v = ZERO]
                                 ELSE Two(a, LAMBDA x, y : TAnd(TBool(x), TBool(y)))
          [] e.k = "lor" -> LET a == Ev(e.a, tr)
                            IN  IF TBool(a.v) = ONE THEN [a EXCEPT !.v = ONE]
                                ELSE Two(a, LAMBDA x, y : TOr(TBool(x), TBool(y)))
          [] e.k = "bin" -> Two(Ev(e.a, tr), LAMBDA x, y : TAlu(e.op, x, y))
          [] e.k = "bit" -> LET a == Ev(e.l, tr)
                                b == Ev(e.ix, a.tr)
                            IN  [b EXCEPT !.v = TAlu("bit", a.v, b.v)]
          [] e.k = "cond" ->
                LET c == Ev(e.c, tr)
                    b == TBool(c.v)
                IN  IF IsConst(b) THEN Ev(IF b = ONE THEN e.a ELSE e.b, c.tr)
                    ELSE Two(Ev(e.a, c.tr), LAMBDA x, y : TIte(b, x, y))
          [] e.k = "set" -> LET r == Ev(e.e, tr) IN [r EXCEPT !.tr = Store(e.l, r.tr, r.v, e.nb)]
          [] e.k = "inc" ->
                LET old == Ev(e.l, tr)
                    new == TAlu("add", old.v, ONE)
                IN  [v |-> IF e.pre THEN new ELSE old.v, tr |-> Store(e.l, old.tr, new, FALSE)]
          [] e.k = "call" ->
                IF e.h = None THEN Inline(e, Act(tr).this, tr)
                ELSE LET i == Ev(e.h, tr)
                         alts == Alternatives(i.v)
                         tr1 == TempVar(i.tr)
                         res == <<"temp", i.tr.ids>>
                     IN  IF IsConst(i.v) THEN Inline(e, alts[1].o, i.tr)
                         ELSE [v |-> TVar(res), tr |-> CallUnion(e, alts, res, tr1)]

-----------------------------------------------------------------------------
(* Statements: pe_list, _pe_stmt, _case, _loop, _await *)

\* The statements after one that may have left are under a run-time `alive`.
PeStatements(ss, tr) ==
    IF ss = <<>> THEN tr
    ELSE LET alive == Alive(tr)
         IN  CASE alive = ZERO -> tr
               [] alive = ONE -> PeList(Tail(ss), Pe(Head(ss), tr))
               [] OTHER -> DynIf(alive, tr, LAMBDA u : PeList(ss, ClearFlags(u)), LAMBDA u : u)

Branch(c, tr, Then(_), Else(_)) ==
    LET b == TBool(c)
    IN  CASE b = ONE -> Then(tr)
          [] b = ZERO -> Else(tr)
          [] OTHER -> DynIf(b, tr, Then, Else)

PeItems(s, i, st) ==
    IF i > Len(s.items) THEN Pe(s.d, st.tr)
    ELSE LET c == FoldSet(LAMBDA v, t : TOr(t, TAlu("eq", st.v, TConst(v))), ZERO, s.items[i].vals)
         IN  Branch(c, st.tr, LAMBDA u : Pe(s.items[i].s, u),
                    LAMBDA u : PeCase(s, i + 1, [st EXCEPT !.tr = u]))

\* _await; the await at which the thread blocked is the initial one.
Await(c, s, tr) ==
    LET point == <<Act(tr).path, s.id>>
        init == point = tr.target
    IN  Emit([ForgetNba(tr) EXCEPT !.awaits = @ + Bit(init)],
             [k |-> "await", c |-> c, init |-> init, at |-> point])

\* _residual_loop: a loop that runs over clock cycles.  The locals it assigns
\* are variables from here on; its body is translated once.
Generalize_OnlyReset(tr, key) ==        \* mutant: a constant is a reset value only
    LET act == Act(tr)
        v == VarKey(act, key)
        tr1 == LocalVar(tr, act, key)
        cur == act.locals[key]
        tr2 == CASE key \notin DOMAIN act.locals \/ cur = TVar(v) -> tr1
                 [] IsConst(cur) -> [tr1 EXCEPT !.vars[v] = cur.v]
                 [] OTHER -> Emit(tr1, Asg(v, cur, FALSE))
    IN  WithLocal(tr2, key, TVar(v))
Generalize(tr, key) ==
    LET act == Act(tr)
        v == VarKey(act, key)
        tr1 == LocalVar(tr, act, key)
        known == key \in DOMAIN act.locals
        cur == act.locals[key]
        tr2 == CASE ~known \/ cur = TVar(v) -> tr1
                 [] IsConst(cur) -> [Emit(tr1, Asg(v, cur, FALSE)) EXCEPT !.vars[v] = cur.v]
                 [] OTHER -> Emit(tr1, Asg(v, cur, FALSE))
    IN  WithLocal(tr2, key, TVar(v))

LoopLocals(s) == Assigned(s.b) \cup (IF s.k = "for" THEN AssignedIn(s.st) ELSE {})
TurnEnd(s, tr) == IF s.k = "for" THEN Guarded(tr, LAMBDA x : Ev(s.st, x).tr) ELSE tr
EndTurn(tr, key) ==
    IF IsConst(Local(tr, key)) THEN tr
    ELSE [LocalVar(tr, Act(tr), key) EXCEPT !.out = Append(@, Asg(VarKey(Act(tr), key), ZERO, FALSE))]
EndBreak(tr, key) ==
    IF IsConst(Local(tr, key)) THEN tr
    ELSE Emit(LocalVar(tr, Act(tr), key), Asg(VarKey(Act(tr), key), ZERO, FALSE))
LoopCond(s, tr) == IF s.k \in {"while", "for", "dowhile"} THEN Ev(s.c, tr) ELSE [v |-> ONE, tr |-> tr]
\* The loop goes on unless a break or return is in force (always, if that is static).
LoopGoes(stop) == IF IsConst(stop) THEN ONE ELSE TNot(stop)
LoopStmt(body, post, c) ==
    [k |-> "loop", b |-> body, first |-> TRUE,
     pre |-> IF post THEN ONE ELSE c, post |-> IF post THEN c ELSE ONE]
EmitLoop(s, body, c) ==
    PopFlags(EndBreak(Emit(c.tr, LoopStmt(body, s.k = "dowhile",
                 TAnd(TBool(c.v), LoopGoes(TOr(Local(c.tr, Flags(c.tr).brk), Act(c.tr).ret))))),
             Flags(c.tr).brk))
CloseLoop(s, out, b) == EmitLoop(s, b.out, LoopCond(s, [b EXCEPT !.out = out]))
LoopBody(s, tr) ==
    CloseLoop(s, tr.out, EndTurn(Guarded([tr EXCEPT !.out = <<>>], LAMBDA u : Turn(s, u)),
                                 Flags(tr).cont))
ResidualTo(s, tr) ==
    LoopBody(s, PushFlags(FoldSet(LAMBDA key, u : Generalize(u, key), tr, LoopLocals(s))))

\* A loop whose body cannot wait is unrolled while its condition is static.
Iterate(s, tr) == LET u == Guarded(tr, LAMBDA x : Pe(s.b, x))
                  IN  WithLocal(u, Flags(tr).cont, ZERO)
UnrollLoop(s, tr, first) ==
    LET c == IF s.k = "dowhile" /\ first THEN [v |-> ONE, tr |-> tr] ELSE Ev(s.c, tr)
        b == TBool(c.v)
        next == Iterate(s, c.tr)
    IN  CASE ~IsConst(b) -> ResidualLoop(s, c.tr)
          [] b = ZERO \/ ~IterAlive(c.tr) -> c.tr
          [] OTHER -> Unroll(s, IF s.k = "for" THEN Ev(s.st, next).tr ELSE next, FALSE)
RepeatLoop(s, tr, n) ==
    IF n = 0 \/ ~IterAlive(tr) THEN tr ELSE Repeat(s, Iterate(s, tr), n - 1)

Loop(s, tr) ==
    CASE s.k = "forever" -> ResidualLoop(s, tr)
      [] s.k = "repeat" -> LET n == Ev(s.c, tr)       \* a static count
                           IN  PopFlags(Repeat(s, PushFlags(n.tr), n.v.v))
      [] OTHER -> LET tr1 == IF s.k = "for" THEN Ev(s.i, tr).tr ELSE tr
                  IN  IF MayBlock(s.b) THEN ResidualLoop(s, tr1)
                      ELSE PopFlags(Unroll(s, PushFlags(tr1), TRUE))

\* _pe_stmt
PeStmt(s, tr) ==
    CASE s.k = "skip" -> tr
      [] s.k = "seq" -> PeList(s.ss, tr)
      [] s.k = "decl" -> LET r == Ev(s.e, tr) IN SetLocal(r.tr, s.n, r.v)
      [] s.k = "expr" -> Ev(s.e, tr).tr
      [] s.k = "if" -> LET c == Ev(s.c, tr)
                       IN  Branch(c.v, c.tr, LAMBDA u : Pe(s.t, u), LAMBDA u : Pe(s.f, u))
      [] s.k = "case" -> PeCase(s, 1, Ev(s.e, tr))
      [] s.k \in {"while", "dowhile", "for", "forever", "repeat"} -> Loop(s, tr)
      [] s.k = "return" ->
            LET r == IF s.e = None THEN tr
                     ELSE LET x == Ev(s.e, tr) IN SetLocal(x.tr, "ret", x.v)
            IN  WithRet(r, ONE)
      [] s.k = "break" -> WithLocal(tr, Last(MyFlags(tr)).brk, ONE)
      [] s.k = "continue" -> WithLocal(tr, Last(MyFlags(tr)).cont, ONE)
      [] s.k = "edge" -> Await(None, s, tr)
      [] s.k = "wait" -> LET c == Ev(s.c, tr)
                         IN  IF TBool(c.v) = ONE THEN c.tr ELSE Await(TBool(c.v), s, c.tr)

Translator(op, x, tr) ==
    IF op = "ev" THEN EvExpr(x, tr)
    ELSE [v |-> ZERO,
          tr |-> CASE op = "pe" -> PeStmt(x, tr)
                   [] op = "list" -> PeStatements(x, tr)
                   [] op = "case" -> PeItems(x.s, x.i, [v |-> x.v, tr |-> tr])
                   [] op = "unroll" -> UnrollLoop(x.s, tr, x.first)
                   [] op = "repeat" -> RepeatLoop(x.s, tr, x.n)
                   [] op = "turn" -> TurnEnd(x, Pe(x.b, tr))
                   [] op = "residual" -> ResidualTo(x, tr)
                   [] op = "union" -> CallAny(x.e, x.alts, x.res, tr)
                   [] op = "store" -> StoreTo(x.l, tr, x.t, x.nb)]

-----------------------------------------------------------------------------
(* A blocked thread: _outer_loop, _act_from_frame, _thread, translate *)

\* The calls a thread is in, outermost first (their places in k), and its frames:
\* the root's and each call's locals and object.
CallItems(m) == SelectSeq([i \in DOMAIN m.k |-> i], LAMBDA i : m.k[i].k = "call")
Frames(m, calls) ==
    [locals |-> Append([i \in DOMAIN calls |-> m.k[calls[i]].loc], m.loc),
     objects |-> Append([i \in DOMAIN calls |-> m.k[calls[i]].this], m.this),
     ids |-> [i \in DOMAIN calls |-> m.k[calls[i]].id]]

Infinite(x) == x.k = "loop" /\ \/ x.s.k = "forever"
                               \/ x.s.k = "while" /\ x.s.c.k = "lit" /\ Truthy(x.s.c.v)
OuterLoop(m) == SelectInSeq(m.k, Infinite)

\* The frames from number first on, the one of the loop.
Activation(fr, first) ==
    [sub |-> "root", this |-> fr.objects[first], path |-> <<>>, ret |-> ZERO,
     locals |-> [n \in DOMAIN fr.locals[first] |-> TConst(fr.locals[first][n])]]
StateOf(m, dyn, fr, first) ==
    [out |-> <<>>, acts |-> <<Activation(fr, first)>>, flags |-> <<>>, defined |-> {}, dyn |-> dyn,
     found |-> None, awaits |-> 0, nbaold |-> <<>>, ids |-> 0, vars |-> <<>>, heap |-> m.f,
     frames |-> SubSeq(fr.locals, first, Len(fr.locals)),
     target |-> <<SubSeq(fr.ids, first, Len(fr.ids)), m.blk.id>>]
TranslateAt(m, dyn, calls, l) ==
    ResidualLoop(m.k[l].s, StateOf(m, dyn, Frames(m, calls),
                                   1 + Len(SelectSeq(calls, LAMBDA i : i < l))))

\* State discovery: a field that the process writes is state; translate again.
RECURSIVE Discover(_, _)
Known(m, tr) == IF tr.found = None THEN tr ELSE Discover(m, tr.dyn \cup {tr.found})
Discover(m, dyn) == Known(m, TranslateAt(m, dyn, CallItems(m), OuterLoop(m)))

\* The process of a blocked thread, after reset.
StateFields(m, dyn) == [v \in {FieldVar(x[1], x[2]) : x \in dyn} |-> m.f[<<v[2], v[3]>>]]
ResetOf(m, tr) == Reset(tr.out, tr.target, tr.vars @@ StateFields(m, tr.dyn))
ProcOf(m) == ResetOf(m, Discover(m, {}))
=============================================================================
