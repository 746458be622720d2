-------------------------------- MODULE TermRead -------------------------------
(***************************************************************************)
(* What the translator (translate.py) makes of the expressions and         *)
(* assignments of a process: terms of a fixed width, of which the ones     *)
(* known at translation are constants and the others logic.  A term is     *)
(* [v, w, c]: its value in the clock being looked at, its width, and       *)
(* whether it is constant.                                                 *)
(*                                                                         *)
(* A translation is a record: loc the locals' terms, f the values of the   *)
(* fields, which are registers, and nb the pending nonblocking writes.     *)
(***************************************************************************)
EXTENDS SvRead

\* Tr("ev", e, a) is e's term, Tr("to", <<l, v, nb>>, a) the translation after l = v.
RECURSIVE Tr(_, _, _)

Term(v, w, c) == [v |-> Mask(v, w), w |-> w, c |-> c]
Resize(t, w, signed) == Term(IF signed THEN Signed(t.v, t.w) ELSE t.v, w, t.c)
\* _term: e's term in w bits.
TermOf(e, w, a) == LET t == Tr("ev", e, a) IN IF t.w = w THEN t ELSE Resize(t, w, e.t.s)

\* _elem: a slice at a constant index, a shifter at a run-time one.
ElementAt(v, t, ew, idx) ==
    IF idx.c THEN Term(Slice(v.v, BitOffset(t, idx.v, ew), ew), ew, v.c)
    ELSE LET m == Greater(idx.w, v.w)
             pos == Mask(IF t.l >= t.r THEN idx.v - t.r ELSE t.r - idx.v, idx.w)
         IN  Term(ShiftRight(v.v, Mask(Mask(pos * ew, m), v.w)), ew, FALSE)

TermUnary(op, t) ==
    IF op \in {"!", "&", "~&", "|", "~|", "^", "~^"} THEN Term(Unary(op, t.v, t.w, 1), 1, t.c)
    ELSE Term(Unary(op, t.v, t.w, t.w), t.w, t.c)
\* A shift amount is brought to the width of what it shifts; a constant one
\* that does not fit is as good as that width.
Amount(n, x) == IF n.w > x.w /\ n.v >= 2^(x.w) THEN Term(Lesser(n.v, x.w), x.w, n.c) ELSE Resize(n, x.w, FALSE)
Shift(op, x, n, signed) ==
    Term(CASE op \in {"<<", "<<<"} -> ShiftLeft(x.v, n.v, x.w)
           [] op = ">>" \/ ~signed -> ShiftRight(x.v, n.v)
           [] OTHER -> ShiftRight(Signed(x.v, x.w), n.v), x.w, x.c /\ n.c)
TermBinary(op, x, y, signed, w) ==
    LET t == [w |-> x.w, s |-> signed]
    IN  Term(Binary(op, x.v, y.v, t, t, x.w), w, x.c /\ y.c)
TermBin(e, a) ==
    LET wide == Greater(e.a.t.w, e.b.t.w)
    IN  CASE e.op \in {"&&", "||", "->", "<->"} ->
                TermBinary(e.op, Tr("ev", e.a, a), Tr("ev", e.b, a), FALSE, 1)
          [] e.op \in Comparisons -> TermBinary(e.op, TermOf(e.a, wide, a), TermOf(e.b, wide, a), e.a.t.s, 1)
          [] e.op \in {"<<", ">>", "<<<", ">>>"} ->
                Shift(e.op, TermOf(e.a, e.t.w, a), Amount(Tr("ev", e.b, a), [w |-> e.t.w]), e.a.t.s)
          [] e.op \in {"/", "%"} -> TermBinary(e.op, TermOf(e.a, e.t.w, a), TermOf(e.b, e.t.w, a), FALSE, e.t.w)
          [] OTHER -> TermBinary(e.op, TermOf(e.a, e.t.w, a), TermOf(e.b, e.t.w, a), e.a.t.s, e.t.w)
\* What only one reading of a condition needs is not translated when the condition is constant.
TermCond(c, e, a) ==
    IF c.c THEN TermOf(IF c.v # 0 THEN e.a ELSE e.b, e.t.w, a)
    ELSE Term(TermOf(IF c.v # 0 THEN e.a ELSE e.b, e.t.w, a).v, e.t.w, FALSE)
TermJoin(ts) == FoldLeft(LAMBDA u, t : Term(u.v * 2^(t.w) + t.v, u.w + t.w, u.c /\ t.c), Term(0, 0, TRUE), ts)
TermInside(v, items, a) ==
    LET In(x) == LET Bound(i) == TermOf(x[i], v.w, a).v
                 IN  IF Len(x) = 1 THEN v.v = Bound(1) ELSE Bound(1) <= v.v /\ v.v <= Bound(2)
    IN  Term(Flag(\E i \in DOMAIN items : In(items[i])), 1, FALSE)

\* Translator.ev.
TermValue(e, a) ==
    CASE e.k = "lit" -> Term(e.v, e.t.w, TRUE)
      [] e.k = "var" -> IF e.n \in DOMAIN a.loc THEN a.loc[e.n] ELSE Term(a.f[e.n], e.t.w, FALSE)
      [] e.k = "lv" -> a.lv
      [] e.k = "mem" -> LET v == Tr("ev", e.of, a) IN Term(Slice(v.v, e.off, e.t.w), e.t.w, v.c)
      [] e.k = "elem" -> ElementAt(TermOf(e.of, e.of.t.w, a), e.of.t, e.t.w, Tr("ev", e.sel, a))
      [] e.k = "rng" -> LET v == Tr("ev", e.of, a)
                        IN  Term(Slice(v.v, RangeLo(e.of.t, e.kind, Tr("ev", e.a, a).v, Tr("ev", e.b, a).v), e.t.w),
                                 e.t.w, v.c)
      [] e.k = "conv" -> Resize(Tr("ev", e.of, a), e.t.w, e.of.t.s)
      [] e.k = "un" -> TermUnary(e.op, TermOf(e.of, e.of.t.w, a))
      [] e.k = "bin" -> TermBin(e, a)
      [] e.k = "cond" -> TermCond(Tr("ev", e.c, a), e, a)
      [] e.k = "cat" -> TermJoin([i \in DOMAIN e.args |-> TermOf(e.args[i], e.args[i].t.w, a)])
      [] e.k = "rep" -> TermJoin([i \in 1 .. e.n |-> TermOf(e.of, e.of.t.w, a)])
      [] e.k = "in" -> TermInside(TermOf(e.of, e.of.t.w, a), e.items, a)

-----------------------------------------------------------------------------
(* Assignments *)

Bits(n) == CHOOSE i \in 0 .. 16 : n < 2^i /\ (i = 0 \/ 2^(i - 1) <= n)
\* _dyn_insert.
DynInsert(cur, t, idx, val) ==
    LET iw == Greater(idx.w, Bits(Greater(Abs(t.l), Abs(t.r)) * val.w + cur.w) + 1)
        num == Mask(IF t.l >= t.r THEN idx.v - t.r ELSE t.r - idx.v, iw)
    IN  Term(Merge(cur.v, cur.w, Mask(num * val.w, iw), val.w, val.v), cur.w, FALSE)
Insert(cur, lo, val) == Term(Merge(cur.v, cur.w, lo, val.w, val.v), cur.w, cur.c /\ val.c)

\* Mutant: a nonblocking write to a part is merged into the variable's value.
PartialBase_Current(e, a, nb) == TermOf(e, e.t.w, a)
\* _partial_base: what a write to a part of e is merged into.
PartialBase(e, a, nb) ==
    IF nb /\ e.k = "var" /\ e.n \in DOMAIN a.nb THEN a.nb[e.n] ELSE TermOf(e, e.t.w, a)
\* The value of l's whole variable when l, a part of it, is val.
Whole(l, a, val, cur) ==
    CASE l.k = "mem" -> Insert(cur, l.off, val)
      [] l.k = "rng" -> Insert(cur, RangeLo(l.of.t, l.kind, Tr("ev", l.a, a).v, Tr("ev", l.b, a).v), val)
      [] l.k = "elem" -> LET idx == Tr("ev", l.sel, a)
                         IN  IF idx.c THEN Insert(cur, BitOffset(l.of.t, idx.v, l.t.w), val)
                             ELSE DynInsert(cur, l.of.t, idx, val)
WriteVar(n, w, v, nb, a) ==
    IF n \in DOMAIN a.loc THEN [a EXCEPT !.loc[n] = v]
    ELSE IF nb THEN [a EXCEPT !.nb = n :> Resize(v, w, FALSE) @@ @]
    ELSE [a EXCEPT !.f[n] = Mask(v.v, w)]
\* Translator.assign.
TermAssign(l, v, nb, a) ==
    CASE l.k = "var" -> WriteVar(l.n, l.t.w, v, nb, a)
      [] l.k \in {"mem", "elem", "rng"} ->
            Tr("to", <<l.of, Whole(l, a, Resize(v, l.t.w, FALSE), PartialBase(l.of, a, nb)), nb>>, a)
      [] l.k = "cat" ->
            FoldLeft(LAMBDA b, x : [a |-> Tr("to", <<x, Term(Slice(v.v, b.at, x.t.w), x.t.w, v.c), nb>>, b.a),
                                    at |-> b.at + x.t.w],
                     [a |-> a, at |-> 0], Reverse(l.args)).a
Tr(what, x, a) ==
    CASE what = "ev" -> TermValue(x, a)
      [] what = "to" -> TermAssign(x[1], x[2], x[3], a)

TermStmt(x, a) ==
    CASE x.k = "decl" -> [a EXCEPT !.loc = x.n :> (IF x.e = None THEN Term(0, x.t.w, TRUE)
                                                   ELSE Tr("ev", x.e, a)) @@ @]
      [] x.k = "set" -> LET lv == [a EXCEPT !.lv = IF x.comp THEN Tr("ev", x.l, a) ELSE Term(0, 1, TRUE)]
                        IN  Tr("to", <<x.l, Resize(Tr("ev", x.e, lv), x.l.t.w, x.e.t.s), x.nb>>, a)
      [] x.k = "inc" -> LET old == TermOf(x.l, x.l.t.w, a)
                        IN  Tr("to", <<x.l, Term(old.v + x.d + 2^(x.l.t.w), old.w, old.c), FALSE>>, a)
\* One clock of a process whose statements are assignments.
TermClock(body, fields) ==
    LET a == FoldLeft(LAMBDA b, x : TermStmt(x, b), [loc |-> <<>>, f |-> fields, nb |-> <<>>, lv |-> None], body)
    IN  [n \in DOMAIN fields |-> IF n \in DOMAIN a.nb THEN a.nb[n].v ELSE a.f[n]]
=============================================================================
