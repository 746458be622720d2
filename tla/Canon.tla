---------------------------------- MODULE Canon --------------------------------
(***************************************************************************)
(* The order contract of a stream as it is checked on the fly              *)
(* (fw_order_check, and verif/canon.py's check over a recorded trace, which *)
(* reports the same), and canon.py's comparison of two views' traces.      *)
(*                                                                         *)
(* View "a" keeps the contract.  View "b" sees items enter and leave in any *)
(* order, and up to `wrong` events of it may be wrong: an item that comes  *)
(* twice, that never entered, or that leaves with other data.  The views   *)
(* may take the items in different orders, which an asymmetric allow_pass  *)
(* does not allow to compare.                                              *)
(***************************************************************************)
EXTENDS Integers, FiniteSets, Sequences, SequencesExt

CONSTANTS
    Streams,    \* [key, cls: of each item; per_key, allow_pass, strict_after, pin; wrong]
    LastCycle   \* bound: cycles 0 .. LastCycle

VARIABLES
    stream,     \* the items' keys and classes, and the rule
    trace,      \* the events of view "a" and of view "b", in order
    chk,        \* the checkers: [live, seen, left, last, cyc, errs]
    at,         \* the view that runs, its cycle, and the wrong events so far
    wrong
vars == <<stream, trace, chk, at, wrong>>

Views == {"a", "b"}
Items == DOMAIN stream.key

Binds(x, y) ==
    /\ stream.per_key => stream.key[x] = stream.key[y]
    /\ <<stream.cls[x], stream.cls[y]>> \notin stream.allow_pass

-----------------------------------------------------------------------------
(* check: the checker's state, one event at a time. *)

Fresh == [live |-> <<>>, seen |-> <<>>, left |-> {}, last |-> {}, cyc |-> -1, errs |-> {}]

Report(w, kinds) == [w EXCEPT !.errs = @ \cup kinds]
Enter(w, e) ==
    IF e.id \in ToSet(w.seen) THEN Report(w, {"DUPLICATE"})
    ELSE [w EXCEPT !.seen = Append(@, e.id), !.live = Append(@, e)]

\* Does an item that left in this cycle, and entered before y, forbid y to leave in it?
\* Mutant: whoever entered first.
SameCycle_AnyEntry(w, last, y) ==
    \E x \in last : Binds(x, y) /\ <<stream.cls[x], stream.cls[y]>> \in stream.strict_after
SameCycle(w, last, y) ==
    \E x \in last :
        /\ \E i, j \in DOMAIN w.seen : i < j /\ w.seen[i] = x /\ w.seen[j] = y
        /\ Binds(x, y)
        /\ <<stream.cls[x], stream.cls[y]>> \in stream.strict_after
Passed(w, place) == \E i \in 1 .. place - 1 : Binds(w.live[i].id, w.live[place].id)
Leave(w, e) ==
    LET places == {i \in DOMAIN w.live : w.live[i].id = e.id}
        place == CHOOSE i \in places : TRUE
        last == IF e.cyc = w.cyc THEN w.last ELSE {}
        kinds == {k \in {"DATA", "REORDER", "SAME_CYCLE"} :
                    \/ k = "DATA" /\ w.live[place].data # e.data
                    \/ k = "REORDER" /\ Passed(w, place)
                    \/ k = "SAME_CYCLE" /\ SameCycle(w, last, e.id)}
    IN  IF e.id \in w.left THEN Report(w, {"DUPLICATE"})
        ELSE IF places = {} THEN Report(w, {"UNKNOWN"})
        ELSE [Report(w, kinds) EXCEPT
                !.live = RemoveAt(@, place), !.left = @ \cup {e.id},
                !.last = last \cup {e.id}, !.cyc = e.cyc]

Finish(w) == IF w.live = <<>> THEN w.errs ELSE w.errs \cup {"LOST"}

-----------------------------------------------------------------------------
(* canonical and compare, of whole traces. *)

Places(t, ev) == {i \in DOMAIN t : t[i].ev = ev}
Outs(t) == {t[i] : i \in Places(t, "out")}
Ins(t) == {t[i] : i \in Places(t, "in")}
Ids(es) == {e.id : e \in es}
\* The order of a list's ids, as the pairs of an id and a later one: an id that is
\* there twice has been reported, and lists of the same ids differ if these do.
Ahead(t, ev) == {<<t[p[1]].id, t[p[2]].id>> : p \in {q \in Places(t, ev) \X Places(t, ev) : q[1] < q[2]}}

BoundPairs(t) == {p \in Ahead(t, "in") : Binds(p[1], p[2]) /\ {p[1], p[2]} \subseteq Ids(Outs(t))}
\* The bound relative orders: all, those of each key, or those of each bound pair.
Order(t) ==
    IF stream.allow_pass = {}
    THEN {p \in Ahead(t, "out") : stream.per_key => stream.key[p[1]] = stream.key[p[2]]}
    ELSE {<<p, p \in Ahead(t, "out")>> : p \in BoundPairs(t)}
Canonical(t) ==
    [items |-> {<<e.id, e.data>> : e \in Outs(t)},
     order |-> Order(t),
     cycles |-> IF stream.pin THEN {<<e.id, e.cyc>> : e \in Outs(t)} ELSE {}]
\* compare returns no difference.
NoDiffs ==
    /\ \A v \in Views : Finish(chk[v]) = {}
    /\ Canonical(trace["a"]) = Canonical(trace["b"])

-----------------------------------------------------------------------------
(* The two views. *)

Init ==
    /\ stream \in Streams
    /\ trace = [v \in Views |-> <<>>]
    /\ chk = [v \in Views |-> Fresh]
    /\ at = [view |-> "a", cyc |-> 0]
    /\ wrong = 0

See(e, w) ==
    /\ trace' = [trace EXCEPT ![at.view] = Append(@, e)]
    /\ chk' = [chk EXCEPT ![at.view] = w]
Entered == Ids(Ins(trace[at.view]))
Left == Ids(Outs(trace[at.view]))

Symmetric == \A p \in stream.allow_pass : <<p[2], p[1]>> \in stream.allow_pass
Timed == stream.pin \/ stream.strict_after # {}
\* Bound: the wrong events of view "b".
MaxWrong == IF at.view = "a" THEN 0 ELSE stream.wrong
\* An item enters; view "a" takes them in the order of their ids, and all first.
EnterItem(x, data) ==
    LET e == [ev |-> "in", id |-> x, data |-> data, cyc |-> at.cyc]
        again == IF x \in Entered THEN 1 ELSE 0
    IN  /\ wrong + again <= MaxWrong
        /\ at.view = "a" \/ ~Symmetric => \A y \in Items \ {x} : y < x => y \in Entered
        /\ data = 0 \/ (at.view = "b" /\ Cardinality(Entered) = 0)
        /\ See(e, Enter(chk[at.view], e))
        /\ wrong' = wrong + again
        /\ UNCHANGED <<stream, at>>
LeaveItem(x, data) ==
    LET e == [ev |-> "out", id |-> x, data |-> data, cyc |-> at.cyc]
        right == \E i \in DOMAIN chk[at.view].live :
                    chk[at.view].live[i].id = x /\ chk[at.view].live[i].data = data
        slip == IF right THEN 0 ELSE 1
    IN  /\ wrong + slip <= MaxWrong
        /\ at.view = "a" => Entered = Items /\ Leave(chk["a"], e).errs = {}
        /\ See(e, Leave(chk[at.view], e))
        /\ wrong' = wrong + slip
        /\ UNCHANGED <<stream, at>>
Tick ==
    /\ at.cyc < LastCycle
    /\ Timed /\ Left # {}
    /\ at' = [at EXCEPT !.cyc = @ + 1]
    /\ UNCHANGED <<stream, trace, chk, wrong>>
NextView ==
    /\ at.view = "a"
    /\ Left = Items
    /\ at' = [view |-> "b", cyc |-> 0]
    /\ UNCHANGED <<stream, trace, chk, wrong>>

Next ==
    \/ \E x \in Items, data \in 0 .. 1 : EnterItem(x, data) \/ LeaveItem(x, data)
    \/ Tick
    \/ NextView
Spec == Init /\ [][Next]_vars

-----------------------------------------------------------------------------
(* Properties. *)

Events(t, ev, x) == {i \in DOMAIN t : t[i].ev = ev /\ t[i].id = x}
When(t, ev, x) == CHOOSE i \in Events(t, ev, x) : TRUE
Before(t, ev, x, y) == When(t, ev, x) < When(t, ev, y)
Cyc(t, x) == t[When(t, "out", x)].cyc

\* What the rule promises of one view: each item that came left once, later and
\* with its data, and each bound pair in the order it entered, in different
\* cycles if it is strict.
Orderly(t) ==
    LET here == {e.id : e \in ToSet(t)}
    IN  /\ \A x \in here :
            /\ Cardinality(Events(t, "in", x)) = 1
            /\ Cardinality(Events(t, "out", x)) = 1
            /\ When(t, "in", x) < When(t, "out", x)
            /\ t[When(t, "in", x)].data = t[When(t, "out", x)].data
        /\ \A x, y \in here :
            (x # y /\ Before(t, "in", x, y) /\ Binds(x, y)) =>
                /\ Before(t, "out", x, y)
                /\ <<stream.cls[x], stream.cls[y]>> \in stream.strict_after => Cyc(t, x) < Cyc(t, y)
SameStream ==
    LET a == trace["a"]
        b == trace["b"]
        items == {e.id : e \in ToSet(a)}
    IN  /\ {<<e.id, e.data>> : e \in Ins(a)} = {<<e.id, e.data>> : e \in Ins(b)}
        /\ \A x, y \in items :
            (x # y /\ Binds(x, y) /\ Binds(y, x)) => (Before(a, "out", x, y) <=> Before(b, "out", x, y))
        /\ stream.pin => \A x \in items : Cyc(a, x) = Cyc(b, x)

\* compare finds no difference just when both views kept the rule and are the
\* same function: the same items with the same data, each bound pair in the same
\* order, in the same cycles if they are pinned (canon.py:159's "empty when they
\* are the same function").
SameFunction ==
    at.view = "b" =>
        (NoDiffs <=> Orderly(trace["a"]) /\ Orderly(trace["b"]) /\ SameStream)
================================================================================
