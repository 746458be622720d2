-------------------------------- MODULE Readings -------------------------------
(***************************************************************************)
(* The same SV code read twice, and both readings run side by side:        *)
(* a component's class as SV and as the IR the static mapper makes of it,  *)
(* a clocked process as the elaboration interpreter runs it and as the     *)
(* translator's logic does.                                                *)
(***************************************************************************)
EXTENDS StepMap, TermRead

CONSTANTS
    Classes,    \* component classes (StepMap), with `offers`: what each port and memory may hold
    Processes   \* clocked processes: [vars, body, inputs]

VARIABLES
    prog,       \* the class or the process
    ir,         \* what the static mapper makes of the class
    sv,         \* the variables, by symbol, as SV has them
    hw,         \* the state of the other reading
    ops         \* the channel operations of the last activation, of both
vars == <<prog, ir, sv, hw, ops>>

IsClass(p) == "chain" \in DOMAIN p
Start(v) == IF IsArray(v.t) THEN [i \in 1 .. v.t.arr |-> 0] ELSE v.e.v
VarOf(p, n) == p.vars[CHOOSE i \in DOMAIN p.vars : p.vars[i].n = n]
Started(p) == [n \in Symbols(p.vars) |-> Start(VarOf(p, n))]
\* A property initialiser is an expression of the property's type.
IrStart(v) == IF v.e = None THEN IrZero(v.t) ELSE Hold(IrZero(v.t), Const(v.t, v.e.v))
IrStarted(p) ==
    LET names == BodyNames(p)
        own == {n \in Symbols(p.vars) : n[2] = 0}
        kept == Symbols(p.vars) \ own
    IN  [f |-> [n \in own |-> IrStart(VarOf(p, n))],
         l |-> [x \in {names[n] : n \in kept} |-> IrStart(VarOf(p, CHOOSE n \in kept : names[n] = x))]]

Init ==
    /\ prog \in {c \in Classes : Accepted(c)} \cup Processes
    /\ ir = IF IsClass(prog) THEN MapComponent(prog) ELSE None
    /\ sv = Started(prog)
    /\ hw = IF IsClass(prog) THEN IrStarted(prog) ELSE Started(prog)
    /\ ops = <<<<>>, <<>>>>

Queues(p) == {q \in DOMAIN p.offers : q \notin DOMAIN p.mems /\ Api(p, q).flow = "ready_valid"}
Stalls(p) == {q \in p.outs : Api(p, q).stalls}
\* One activation of the class, whatever its ports offer and its outputs accept.
Activate ==
    /\ IsClass(prog)
    /\ \E offers \in {o \in [DOMAIN prog.offers -> UNION {prog.offers[q] : q \in DOMAIN prog.offers}] :
                        \A q \in DOMAIN o : o[q] \in prog.offers[q]},
          refused \in SUBSET Stalls(prog) :
        LET ready == prog.outs \ refused
            a == Activation(prog, TRUE, sv, offers, ready)
            b == IrActivation(ir, hw, offers, Queues(prog), ready)
        IN  /\ sv' = a.v
            /\ hw' = b.st
            /\ ops' = <<<<a.log, a.out>>, <<b.log, b.out>>>>
    /\ UNCHANGED <<prog, ir>>
\* One clock of the process, with its inputs at any values.
Clock ==
    /\ ~IsClass(prog)
    /\ \E i \in prog.inputs :
        /\ sv' = Activation(prog, FALSE, i @@ sv, <<>>, {}).v
        /\ hw' = TermClock(prog.body, i @@ hw)
    /\ UNCHANGED <<prog, ir, ops>>
Next == Activate \/ Clock
Spec == Init /\ [][Next]_vars

-----------------------------------------------------------------------------
\* What the IR holds in the place of symbol n.
IrHolds(n) == LET x == IF n[2] = 0 THEN hw.f[n] ELSE hw.l[BodyNames(prog)[n]]
              IN  IF "a" \in DOMAIN x THEN x.a ELSE x.v
(* Every variable of a class has, after any activations, the value that SV   *)
(* gives it, in the IR too: no conversion, select, scope, loop or call means *)
(* something else there.                                                     *)
SameState == IsClass(prog) => \A n \in DOMAIN sv : sv[n] = IrHolds(n)
(* The IR does the channel operations and memory accesses that SV does, in   *)
(* their order and with their values, and stalls or blocks when SV does.     *)
SameOps == IsClass(prog) => ops[1] = ops[2]
(* The registers of a translated process hold, after every clock, what the   *)
(* interpreter's run of the process leaves in its fields.                    *)
SameRegisters == IsClass(prog) \/ sv = hw
=============================================================================
