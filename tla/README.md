# fw-hdl: TLA+ models, checks and proofs

fw-hdl is a SystemVerilog class library for writing hardware as communicating
components, with a Python flow that turns the same classes into RTL. Its central
promise is that **a component written as a cycle step behaves in the model, clock
edge by clock edge, as its RTL does** (`docs/methodology/components.md`,
`docs/reference/lib.md`). Two things carry the promise. The class library: the step
context with its undo log, three channel classes, the step loop, the RTL FIFOs
that stand in for the channels, and the library steps built on them. And the
flow: the interpreter that elaborates the classes, the translators that turn a
thread or a step into synthesizable IR, the register generator, and the tasks from a
knob file to a netlist. This directory models both, checks them with TLC, and proves
theorems about the library, the co-synthesis pass and the order contracts with TLAPS.

Paths below are relative to the repository; the library is under `src/`, the flow
under `python/fw/hdl/`.

## 1. Inventory

| Component | State | Operations | Talks to | Hard because |
|---|---|---|---|---|
| Step kernel: `fw_steppable.svh`, `fw_atomic_step.svh` | the executing step, `stalled`, the undo `log`, the outputs `held` as sent; a step's `s` and `m_saved` | `begin_step`, `record`, `stall`, `sent`, `end_step`, `step_save`, `step_restore` | every channel (they ask `hidden` and `atomic` and log their effects) | steps of one edge run in any order; a stall undoes some effects and keeps others |
| Channels: `std/fw_channel`, `fw_valid_channel`, `fw_level_channel` | `m_q`, `m_t`, edge counters, `m_sent`; `value`, `m_prev` | `put`, `get`, `try_get`, `put_or_stall`, `set`, `get` and their undos | two components each | visibility and space are "as when the edge began", while the queue has already changed; processes act between steps |
| Run phase: `fw_component::do_run` | runnable and step lists | fork `run()`; per step: tick, save, begin, step, end, restore | clock, kernel | scheduling order |
| RTL FIFOs: `rtl/fw_rv_fifo.sv`, `rtl/fw_sram_fifo.sv` (+ RAM) | pointers, count; output stage, read in flight, RAM pointers | one clock edge, reset | ready/valid neighbours | wrap at a depth that is no power of two; a read that lands a cycle later |
| Credit sender: `std/credit/fw_credit_tx.svh` | pool, reserves, holds, last VC | `step()` | input streams, a valid channel, the credit return | credits in flight on both sides; reserves against a shared pool |
| Keyed table: `std/table/fw_keyed_table.svh` | keys, values, live mask | `step()`: lookup, install, write, remove at one edge | four request streams, two stalling responses | the four requests meet on the same slots; one response goes while the other stalls the step |
| Token pool: `std/pool/fw_token_pool.svh` | held mask | `step()`: grant, release | requesters, releasers | both at one edge, pool empty or full |
| Dependency tracker: `std/dep/fw_dep_tracker.svh` | live producers as masks and links, a producer per dependent | `step()`: entry, retire | the source of entries, the completer, dependents that read the level `ok` | a linked list in bit masks, unlinked in any order; a dependent that enters as its producer retires |
| Other library steps: arbiter, slot reserve, match set, single-port memory | holds, counts | `step()` each | channels | several requests of one edge on the same state |
| Order contracts: `std/order/fw_order_pkg.sv`, `verif/canon.py` | live items, ids seen and left, the cycle's last leavers | `check` per event; `canonical`, `compare` of two traces | monitors, recorded traces | items leave in other orders than they entered; ids used again |
| Transactors: `std/rv/` | a ring buffer and a state machine each | `send`, `recv`, clocked block, reset | pins on one side, a process on the other | the process and the clocked block share the ring; reset in mid-beat |
| Event sets, quantum keeper, clock domains | triggers, wake order; offset; divider | `notify`, `wait_any`, `sync`, `tick` | processes | lost wake-ups; time accounted twice or never |
| View context, factory | names, overrides | elaboration | once, before time 0 | sequential |
| Debug domain: `dbg/` | record pools, tracks, catalogs | event macros | observes everything, changes nothing | pool limits |
| Registers: `fw_reg_base`, `fw_reg_block`, `fw_reg_set` | values, masks, offsets, watch-sets | construction, masked read, write and update, `signal` | bus ports, providers, consumers that wait | a consumer's update wakes others; access to one address reaches an element of nested arrays |
| Register synthesis: `regmap.py`, `fe/reg_mapper.py`, `native.py`, `emit/regblock.py`, `reg_consumer.py`, `mmio.py` | a register map, what consumers need of it | map, core (decode, storage, strobes), FSMs, wiring | the elaborated objects or the constructor's text | software, FSMs and hardware write one word in one cycle |
| Elaboration interpreter: `fe/elab/interp.py` | heap, threads, ready list, pending nonblocking writes | run until quiet; statements, calls, forks, events, waits | the class sources | interleaving of threads; who is resumed, and how often |
| Thread translator: `fe/elab/translate.py` | partial state: locals, flags, fields known to change | one pass per discovered field; merge, inline, await | the blocked thread and its heap | a static value that is not static; a flag that is not reset; an await too many |
| Static mapper: `fe/static_mapper.py` | scopes, names | class to IR with static widths | the component's class | width and sign of every expression; names of one spelling |
| Knob files: `knobs.py` | merged values and their origins | load, merge, check, resolve, queries | every task | shared and circular `base:`, sections that merge by key |
| Component tree, partition: `fe/elab/hier.py`, `fe/structure.py`, `spl_flow.py` | binds, shells, groups | read `connect()`, split, group | knobs, interpreter | binds through structural children; what is inside a group |
| Storage, integration, boundary checks: `storage.py`, `spl_flow.py`, `check/boundary.py` | a binding per channel and memory; one module per class | `plan`, `integrate`, `check` | partition, codegen | two instances of one class; combinational paths through groups and levels of hierarchy |
| Latency, facts, contracts: `latency.py`, `facts.py`, `check/contracts.py` | stages, facts, paths | report, check before and after codegen | knobs, schedules | paths that join; a contract refused too early or passed too late |
| Co-synthesis: `cosynth/` | contract clauses, applied transformations | `run_pass`, `build_top`, the harness | a lowered pipeline | what an environment must keep for a flop to go |
| Wrappers, formal, co-simulation, command line | text of other tools | | SBY, yosys, simulators | what they promise is in those tools |

What makes the modelled ones correct:

- **kernel and channels**: a step sees of each channel what was there when its edge
  began, whatever ran before it; a stalled step leaves nothing behind but the values
  its `put_or_stall`s sent; a stalling output takes at most one value per commit; and
  between two steps a channel moves values exactly as `fw_rv_fifo` does.
- **RTL FIFOs**: both implement the same per-cycle contract.
- **credit sender**: no credit is lost or made, the receiver's buffer never
  overflows, a VC's reserve is its own, values stay in order within a VC.
- **keyed table**: a cycle is lookup, install, write and remove done one after
  another; keys stay unique; no slot is live for nobody.
- **token pool and tracker**: a token has one owner, so a producer tag names one live
  producer; a dependent waits for the youngest producer that entered before it, and
  for no other.
- **interpreter and translator**: a thread is resumed once for each thing it waits for;
  elaboration carries no thread over a clock edge; the process made of a thread has,
  clock by clock, the thread's state and waits where the thread waits.
- **static mapper**: the IR of a class computes what its SV does, in every width and
  sign, and makes the same channel operations.
- **registers**: the generated core holds, answers and signals what the class does.
- **flow**: a knob's value is the last file's; the netlist is the tree that `connect()`
  wrote, with each channel bound as reported; a combinational loop that leaves an island
  is found, through any number of groups and levels of hierarchy; the reported latency
  holds; a contract refused before codegen is one that no schedule meets.
- **co-synthesis**: a rewritten pipeline gives the same results, as much earlier as
  reported, if its environment keeps the clauses named for what was applied.
- **order contracts**: two traces compare equal just when both keep the contract and are
  the same function.

`PROJECT.json` lists every component with its status and, under `hazards`, what is hard
to test in this code, each at its line with the properties that cover it.

## 2. Modules

| Module | Models | Kind |
|---|---|---|
| `FifoCycle` | what a channel of DEPTH >= 1 promises per cycle | abstract specification |
| `FwStep` | `fw_step_ctx`, the step loop and the three channel classes | detailed; implements `FifoCycle` per stream |
| `FwRvFifo` | `rtl/fw_rv_fifo.sv` | implements `FifoCycle` |
| `FwSramFifo` | `rtl/fw_sram_fifo.sv` with `rtl/fw_ram_1r1w_model.sv` | same handshake as `FwRvFifo`; implements `FifoCycle` |
| `FwCreditTx` | `fw_credit_tx`: fields and `step()` | component |
| `CreditLink` | the sender, its link, a receiver and the credit return | composition |
| `KeyedTable` | a sequential table that takes a cycle's requests one after another | abstract specification |
| `FwKeyedTable` | `fw_keyed_table`: slots, ports, `step()` | component |
| `TableUse` | the table between the processes that use it | composition; implements `KeyedTable` |
| `FwTokenPool` | `fw_token_pool`: held mask and `step()` | component |
| `DepOrder` | the live producers as a list, and each dependent's producer | abstract specification |
| `FwDepTracker` | `fw_dep_tracker`: masks, links, `step()` | component |
| `TagUse` | pool and tracker with their users | composition; implements `DepOrder` |
| `SvThread` | the code of a thread and how `interp.py` runs it until it blocks | semantics |
| `Elab` | the interpreter's scheduler: ready list, waits, forks, events, nonblocking writes | component |
| `ProcIR` | terms, statements and clocks of the process IR (external) as `translate.py` uses it | semantics |
| `Translate` | `translate.py`: a blocked thread to a process | algorithm |
| `ThreadProc` | elaboration, translation, then thread and process clocked side by side | composition |
| `SvRead` | bit vectors, and what SV expressions, statements and channel operations do (`values.py`, `interp.py`) | semantics |
| `StepMap` | `static_mapper.py`: a class to IR; and the IR run (external back end) | algorithm, semantics |
| `TermRead` | the translator's fixed-width terms for expressions and assignments | algorithm |
| `Readings` | a class beside its IR, a process beside its terms | composition |
| `FwReg` | the values of `fw_reg_base`, and the flops, decode, read mux and strobes of `emit/regblock.py`; a bank of both under one bus | component |
| `RegCore` | construction and decode of `fw_reg_block`; the two ways to a register map; what consumers need of a core, and the FSMs made of them | algorithm |
| `RegSync`, `RegDesigns` | a block's class objects and its core under the same accesses; the blocks | composition |
| `Knobs` | `knobs.py`: load, merge, origins, queries | algorithm |
| `Partition` | the tree, the shells, groups, storage | algorithm |
| `Netlist` | `integrate` and the boundary checks | algorithm |
| `Latency` | facts, stages, paths, contracts | algorithm |
| `Flow` | the tasks from knobs to netlist, and its first values | composition |
| `Cosynth` | `cosynth/rewrite.py` and the harness of `cosynth/equiv.py` | component |
| `Canon` | the order rule, its checker, `compare` | component |
| `MCFifos`, `MCFwStep`, `MCThreadProc`, `MCReadings`, `MCFlow` | instances for TLC | |
| `MCFifos_proof`, `FwStep_proof`, `CreditLink_proof`, `TableUse_proof`, `TagUse_proof`, `FwReg_proof`, `Cosynth_proof`, `Canon_proof` | theorems about the module of that name (`MCFifos_proof`: the two FIFOs) | proofs |

The class model and two pieces of RTL meet in `FifoCycle`: its state is the values
held (`q`) and what each side did in the last cycle (`wr`, `rd`), and it decides
everything from `q` at the start of the cycle.

### FwStep

State and actions are named after the code. `m_q[c]` pairs each value with a flag for
its `m_t` stamp. The code only ever compares `$realtime` stamps with *now*, so the flag
says "stamped at the current moment"; `Tick` clears all flags and zeroes the edge
counters, which is what the code's comparisons amount to when time has moved.

| Code | Action |
|---|---|
| `clock.t.tick(1)` returning in some step loops | `Tick(E)`, E the steps whose clocks rise |
| `step_save(); begin_step(a)` | `BeginStep` |
| one channel call of the body | `TryGet`, `PutOrStall`, `ValidPut`, `LevelSet` (`LevelGet` reads) |
| `end_step`, and each turn of its loop | `EndStep`, `Undo` |
| `step_restore` | `Restore` |
| `run()` processes | `ProcPut`, `ProcGet`, and `ValidPut`, `LevelSet` outside a step |

A body runs without yielding, so nothing else acts in phases `body` and `undo`. What a
body calls, and in which order, is left open: any sequence is allowed, which covers
every class built on the library. The fields `s` follow the last value taken, enough to
see whether they are put back. `q0, lv0, wr, rd, wr0, rd0, pre, since, broken` are
observations for the properties; no action of the code reads them.

Bounds: `MaxTake` takes of one channel per step and edge, `MaxLog` undo records of one
step, one valid put per channel and edge and at most one value beyond DEPTH in a valid
channel (both in `ValidPut`).

Not in FwStep: DEPTH 0 (a rendezvous that only processes may use; a step on it is a
`$fatal`), and `check_atomic`, which is `PutOrStall`'s guard for the same reason.

### FwRvFifo, FwSramFifo

One action per clock edge, `Clock` and `Reset`; the combinational wires are operators of
the same names. `in_op` and `out_op` remember what the edge moved. A register that reset
leaves alone starts with any value. Counter widths are covered by `TypeOK`: each value
fits the code's width, so nothing wraps. DEPTH 0 of `fw_rv_fifo` is a wire and has no
state.

### FwCreditTx, CreditLink

`TxStep(offer, g, r)` is the whole of `step()`: `g` sends, holds fill, credit `r` comes
back. `CreditLink` joins it to the link (an `fw_valid_channel`), the credit return and a
receiver. One action per clock edge moves all of them on what the channels held when the
edge began; `FwStep` shows that the steps do see that. The receiver and the producers
are not in the library: the receiver takes from the link when it likes and returns the
credits it owes in any order, as late as it likes; producers offer whenever they like.
`CREDITS < (DEPTH + 1) * CHECK` says the credits fit the buffer, which is what the
class is told by whoever instantiates it.

### FwKeyedTable, TableUse

`entry[i]` is slot i's key and value, `None` where `live[i]` is 0. The action `Step` is
the whole of `step()` at one edge: requests at the four ports are read, the two
responses go or stall, and at the commit `Updated(i)` is the masks `im`, `wm` and `rmm`
with the code's precedence. A response that went before a stall is kept in `lkp_sent`
or `ins_sent`, which stands for the channel's `m_sent`: the step runs again and does not
repeat it. In `TableUse` the users are `run()` processes, one call per action, at any
moment between two edges. They write to and remove slots they own only; `WAITS` says
whether they first wait until a lookup, put after they were told, has found the entry.
`of` in a response and `own`, `older`, `seen` are the users' book.

`KeyedTable` maps each live key to its slot and value; `ByKey` is the refinement mapping.
The comparison is made at each commit with the answers that went out for it.

### FwTokenPool, FwDepTracker, TagUse

`PoolStep` and `DepStep` are the two `step()`s. Bit masks are sets: `m_live`, `m_pv`,
`m_wait`, `m_held`. Operators carry the names of the code's wires (`prev`, `pv`, `top`,
`tv`, `pm`, `dm`, `on`). `order` is an observation, the list `DepOrder` keeps.

`TagUse` uses the two as `docs/reference/lib.md` does: producers are named by tokens of
the pool, a dependent's tag is used again once it went on, completions retire producers
in any order and the token goes back in the same cycle or later. One action per edge
moves everything on what the channels held when the edge began. The requester, source,
completer and dependents are outside the library and act freely. `told(d)` is the rule
they must keep: `ok` is a level, so at the edge at which the tracker takes d's entry it
still shows the bit from before; a dependent may trust its bit from the edge after.

### SvThread, Elab, ProcIR, Translate, ThreadProc

A thread's continuation (in the code, the stack of Python generators) is the stack `k`.
`Elab` has one action per turn of `Interpreter.run`: `Step` resumes the thread at the
head of `ready`, `Wake` makes the threads ready whose wait is over (in the code's order)
when none is, `Settle` applies the nonblocking writes of a time slot. When all is quiet
(`Quiet`), `MakeProcess` translates the thread that is in an infinite loop, and `Clock`
clocks thread and process with one input `net`. `Translate`'s record `tr` has the
translator's fields; a pass that finds a field to be state (`_Restart`) starts over with
it in `dyn`. All variables have one width, `Modulus` values.

`ProcIR` is the process IR of `zuspec.synth.proc`, which is not in this repository: its
constructors are modelled as `translate.py` calls them, and its meaning (blocking and
nonblocking assignment, `await` once per clock) as the docstrings there say.

`MCThreadProc` has 16 fragments, each a construct of the language, in every ordered
pair, before and after the pair's clock edge, and 7 programs that fork, join, wait and
trigger before they loop: 519 designs. A process that takes `MaxTurns` turns of
its loop without an await has a zero-time loop; no design here needs as many.

### SvRead, StepMap, TermRead, Readings

`SvRead` evaluates and assigns as `interp.py` does. The elaborated expression tree says
where a conversion propagates its context's type; the flag `lrm` says whether it then
extends by that type (the SystemVerilog rule, and the static mapper's) or by the
operand's own sign (`Interpreter._convert`). `StepMap` is the mapper: it fixes width and
sign of each node from the operands' and inserts casts; its `Ir` operators run what comes
out, by the rules of `docs/zuspec-semantics.md` 6.3.1, for the back end is external. `TermRead`
is the translator on expressions and assignments, which `Translate` leaves to one width.
`Activate` runs a class's `step()` (or one turn of its `run()` loop) in both readings,
with every offer at the inputs and every subset of stalling outputs refused; `Clock`
does so for a process.

Widths are up to 8 bits, `int` as 5 or 6 bits signed in indices. The programs do not use
constructs on which the two readings are known to differ (Findings): signed division in
a process, writes to a run-time index out of range, nonblocking writes whose index or
pending value changes later in the clock, unpacked reads out of range, propagated
conversions of mixed sign in processes, negative positions. `run()` programs block at
their first operation only.

### FwReg, RegCore, RegSync

A word is the set of its bits that are 1. One `Cycle` of `RegSync` is a bus access, an
update by other hardware and the answers of the consumers: on the class side one after
the other, with `Wake` as `signal()` runs the waiters; on the RTL side as one clock edge
of the core, with FSMs that read back answering a cycle later (`armed`). Software is
`Polite`: while an FSM is about to read it goes to watched registers only, does not read,
and it writes a watched register to change it (unless the block says that answering twice
is the same). The core signals on any write, the class on a change of value.
Masks are of whole fields, for that is what the map keeps; see Findings for what is lost.

`FwReg` has what one cycle does, on each side, without recursion: the class's operations
on a word (`AfterWrite`, `AfterRead`, `AfterUpdate`, `OnRead`) and, for a core given as a
function of its registers, the flops (`Flops`, by signal), their `always_ff`
(`NextField`), the read mux and the strobes. `Fits` says what a core must be to hold
the values of registers so declared. `RegCore` has what walks a tree: nested blocks and
arrays, the maps made of them, and the consumers' bodies. In `RegSync` a core comes out of
that tree, and `SameRegs` checks three things together: the core that is made `Fits`, its
offsets decode as the nested block does (`Reached` is `Decoded`), and it does hold the
values, consumers' FSMs and all. `BankSpec`, in `FwReg`, is any core that fits, by itself.

### Knobs, Partition, Netlist, Latency, Flow

A job is a set of knob files, a set of classes and a top. The phases of `Flow` are the
tasks of `dfm_tasks.py` in their order; one that fails leads to `rejected`. `Codegen`
gives each XLS block, in any order, any schedule its knobs allow (`MaxStages` bounds a
block for which only a period is given). Then the netlist runs its first values: a block
fires when all its inputs have come, after the cycles its schedule or its facts say (a
fact without a maximum takes its minimum or one more).

Assumed: a class is named by its spelling; each leaf's engine (xls, extern, native,
library) is given and the assignment's own errors are not modelled; a class has one
schedule, the same in a group as alone, in which no send comes before a receive; no
levels in timed designs; port types fit; contracts on blocks not in groups; wrapper
FIFOs are registered; library classes not in groups; a group's port `<instance>_<port>`
is the pair. Groups are applied one after another, each to what those before left, in
the order of the knob file; that order is not kept with the knobs, so `PartitionTask`
takes any.

### Cosynth, Canon

`Cosynth` clocks the lowered pipeline and the rewritten one on the same ports, which keep
the clauses of the *applied* transformations and no others: weaker than the harness,
which assumes all. One assumption is no clause: the host's MODE=0 (`HostMode`), which the
harness makes of every job (`equiv.py:146`) and the model where the mode is tied (X6) or
the operands need not be stable. Stage 0 forgets the upper half of the key in AES-128 mode; the others
pass on what they get, of which the harness's projections are parts.

In `Canon` view `a` keeps the contract; view `b` sees the items enter and leave in any
order, and up to `wrong` events of it are wrong (twice, never entered, other data). The
instance has three items, one wrong event in streams whose cycles do not matter, and
cycles `0 .. 1` in those whose cycles do. `canonical`'s lists of ids are sets of pairs of
an id and a later one: the lists are compared only when both checkers are content, so no
id is in one twice, and then lists of the same ids differ just when these do.

`MCFlow` runs registers, flow, co-synthesis and order contracts in one state space, of
which a behaviour takes one part: the four never meet.

## 3. Runs

| Run | Instance | Shows |
|---|---|---|
| `fifos` | both FIFOs at DEPTH 4, two values, the same puts, takes and resets | pointers and count agree; the first implements `FifoCycle`, the second has its handshake; no value lost between stage, flight and RAM; no word clash |
| `steps` | five networks: two stalling steps in a row; all three kinds of channel from a step that may stall; two stalling outputs between processes; a step that takes two values; a plain step between processes | all-or-nothing, one value per commit, readers see the edge's start, no credit violation goes unreported, the channel contract |
| `step_report` | the second network with one undo record | **violated**, see Findings |
| `credit` | 2 VCs, 3 credits, 1 reserved each, CHECK 1, pool first | conservation, no overflow, reserves, order, progress |
| `table_seen` | 2 slots, 2 keys, 2 values, responses of DEPTH 1, `WAITS` | unique keys, the users' book agrees with the table, implements `KeyedTable` |
| `table_told` | the same without `WAITS` | **violated**, see Findings |
| `tag_use` | 3 tokens and producers, 1 dependent | tags name one producer, what a dependent waits for, the list is entry order, implements `DepOrder`, requests granted |
| `thread_proc` | 519 designs, `Modulus` 4 | thread and process have one state and one await; each resumed once; no thread passes an edge |
| `thread_default` | one design | **violated**, see Findings |
| `readings` | 11 classes, 2 processes | class and IR: same state and operations; process and terms: same registers |
| `flow` | 71 jobs; 12 register blocks; 76 rewritten pipelines; 6 streams | what the flow promises, part by part |
| `flow_bindings` | two instances of one structural class | **violated**, see Findings |

Why the bounds are enough. DEPTH 4 is the smallest at which the RAM FIFO's stage, flight
and RAM can all be occupied with a RAM word to spare, and its 3-word RAM wraps off a
power of two; `fw_rv_fifo`'s wrap at other depths is proved. Two values tell a reordering
or a stale word from the
right one. In `FwStep` the interactions are between one step's calls and what other
steps or processes did at the same edge: two steps, one and two places, two values and
two undo records give every order of them; the state carried between edges is the queues
and the sent flags, all of which are reached full and empty. In `CreditLink` the pool, a
reserve and every place a credit can be in are reached empty and full, and the credit
counts beyond that are covered by the proofs. Values of a VC are numbered modulo one
more than the VC can have in flight, so a loss, a repeat or a swap shows. The table is
reached empty, full and with each key a duplicate; two slots are what a request meets
that aims at another's slot. Of three producers one can retire from the middle of the
list, the only case in which a link is moved; the tracker treats each dependent alike
and by itself, so one is enough.

The translator's errors are in how two constructs meet (what one leaves in a local, a
flag, the pending writes or the merge, the next finds), so pairs are what is enumerated;
four values tell the inputs, the loop counters and their overflow apart. The mapper
works node by node: each program puts operators of different widths and signs below and
above each other, with run-time offsets at and beyond the ends. The register blocks have
two to a few registers of two bytes, nested arrays, every kind of field and consumer,
three words; all accesses meet in all orders. Flow jobs have two to four blocks: a chain,
a fork and join with paths of different length, a ring, components in components, with
and without groups, each knob section at least twice, and for each check both a design
that passes and one that does not. Two stages with every subset of transformations show
every way a flop goes or stays. Three items show an overtaking and an item in between.

The thread, reading and flow runs have CHECK_DEADLOCK FALSE: elaborations, tasks and
traces end. In the others the clock always ticks on, and deadlock is checked.

Every property has a mutant in `PROJECT.json`: an alternative to one operator of the
model, the way a plausible bug in the code would change it, with which TLC finds the
property violated.

### Fairness

`ReserveMakesProgress` (in `credit`): `FairSpec` assumes that the
clock goes on (`Ticking`), that the receiver goes on taking values from the link
(`Taking`: the link cannot be stalled and its reader is a step or a process that drains
it) and that credits of VC 0 are given back in the end (`Giving(0)`, strong fairness,
for the return channel may be full in between). Nothing is assumed of the other VCs'
credits: the reserve must do without. The scan order of the sender is the code's.

`RequestsGranted` (in `tag_use`): `FairSpec` assumes that the clock goes on (`Next`), that
the source enters what it was granted (`Entering`), and that each producer is completed
(`Completing`) and its token put back (`PuttingBack`) in the end; all weak fairness, for
each stays possible until it is done. Nothing is assumed of the order, nor of the
dependents: they may wait, or go on and enter again for ever.

## 4. Findings

`step_report`: `fw_valid_channel::ch_put` counts and reports a credit violation as soon
as a body puts to a full channel. If the step then stalls, the undo drops the value and
leaves `n_violations`; at the next edge the same put may find room. `fw_steppable.svh`
says of a stalled step that "no valid put or level set happens". The simulation
reports an error the RTL cannot show.

`table_told`: `fw_keyed_table.svh` promises that a cycle is "the same as lookup, install,
write, remove done one after another". The two responses stall separately. When
`lkp_rsp` is full, `{ok, slot}` of an install can go out while the step stalls; its owner
puts a write or a remove of that slot; at the commit the masks look at the slot as it was
when the edge began, not yet live, and drop the request. A written value is lost, or a
removed slot stays live with no owner. `table_seen` shows which users are safe: those
who wait for a later lookup to find the entry.

`thread_default`: the translator gives a local that one branch of a run-time `if` writes
a default on the other side, after the merge has put the local's captured constant there.
`int y = 2; if (c) y = g; h = y;` ends with 0 in `h` where the thread has 2
(`translate.py:424-431`).

`flow_bindings`: `integrate` writes one module per structural class, the first instance's
(`spl_flow.py:594`), while `storage.plan` binds each instance's channels by path. A
second instance's own binding is lost, and `storage.json` says it holds.

### Differences seen while modelling, without a run

The models follow the code; the instances avoid these cases, so that the properties say
what holds for the rest.

- *FIFO*: the RAM FIFO never uses its last RAM word, so `NoWordClash` has slack.
- *Interpreter*: a thread that triggers the event it last waited on is resumed past its
  next clock edge (`Differ.again` in `MCThreadProc` breaks `NoEdgePassed`); an index of
  a nonblocking target is evaluated when the write is applied (`x[i] <= v; i = i+1`),
  the translator's at the statement; `_fixed_index` takes `abs(idx - left)`, so an index
  below `[2:5]` reads another element; `int(a / b)` loses precision above 2^53.
- *Translator*: a loop-carried local modified before the first await of a nested
  residual loop has a wrong initial value; the return flag of such a loop in an inlined
  task is never reset; a call in a loop's condition is evaluated once; an unconditional
  `break` in a residual loop is ignored; `x = i++` with a run-time `i` uses the new value;
  `&&` and `?:` run both sides' side effects; the steps of an unrolled `for` are not
  guarded after a run-time `break`; a write through a union of handles evaluates later
  conditions after earlier writes; two partial nonblocking writes through two inlined
  calls do not merge (two to elements of one element, `x.y[0] <=` and `x.y[1] <=`, are not
  among the programs); signed division is folded unsigned; a run-time index wraps
  (`_dyn_insert`), so a write out of range changes element 0.
- *Registers*: `RegMapper`'s argument positions (`reg_mapper.py:30`) are not those of
  `fw_reg.svh:16`, so with the current class it finds only registers added with `add(r)`;
  the current path is `native.py`. Masks widen to whole fields; `pulse_mask` is ignored by
  `native.py`, and RO/WO by the core; addresses beyond a block alias in its child wrapper; a block of one
  register slices its index beyond its address (`regblock.py:207-209`);
  an update by another FSM wakes nobody in the RTL; the emitted formal contract of a field
  that software writes and a read clears does not allow the software write.
- *Knobs*: the resolved file keeps relative paths but not the files they came from
  (`knobs.py:156-161`), so filesets and facts resolve against the working directory;
  `docs/reference/knobs.md:38-39` says relative to the knob file.
- *Partition*: a group in a structural child is applied to a temporary shell
  (`spl_flow.py:148-157`, `463-466`) and its package is never instantiated; a group takes
  its first member's options; two classes of one name in two packages share a spelling.
- *Boundary checks*: a combinational loop on the channels inside one group is nobody's:
  `_apply_groups` moves them into the group's block (`spl_flow.py:437-467`), of which
  `boundary.check` sees what its outputs depend on (`boundary.py:161-179`). The docs ask
  no more (`islands.md:9-13`), and `LoopsFound` says no more: a job of the run `flow`
  has such a loop and goes through.
- *Storage*: an overriding entry keeps the default's `macro`, `files` and `module`.
- *Contracts*: the first check takes extern and structural children to have 0 to
  `stages - 1` cycles and can refuse what would pass; the last looks at the shortest
  latency only.
- *Co-synthesis*: `rewrite.py:7` says a transformation is applied only if its clauses name
  it in `consumed_by`; `run_pass` notes that they do not, and applies it.
- *Order contracts*: with a one-sided `allow_pass` and different entry orders `canonical`
  differs though every bound pair leaves in order; `fw_dep_check` never forgets a
  retired id.

## 5. Proofs

Each theorem holds for every value of the constants that satisfies the module's named
assumption.

**`MCFifos_proof`**. For `FwRvFifo` (every `DEPTH \in Nat \ {0}`, any `Val`) the inductive
invariant is `IInv`: `TypeOK` and `PointersAgree` (wr is `count` slots after rd). Types
alone are not inductive: nothing would stop a push from landing on a waiting value. From
it: `TypeCorrect`, `PointersAlwaysAgree`, and `RvFifoImplementsFifoCycle`, by showing that
`Held` under each edge is `FifoCycle`'s queue after `Cycle` or `Reset`.

For `FwSramFifo` beside it (every `DEPTH >= 3`, the smallest that elaborates) the
invariant is `BothInv`: `IInv`; `RamInv`, which is the types, `PlacesAgree` and
`StageFilled`; and `SameHeld`, that the i-th value held is the same in both, wherever the
second keeps it. `PlacesAgree` alone is not inductive: that the head is in the stage
follows only because values stay in the RAM only while the stage, with the read in flight,
is full, so an edge that takes from the stage always has a read to fill it. `RamMoves` and
`RvMoves` show that an edge moves the held values alike. `RamFifoImplementsFifoCycle` needs `RamInv`
and `RamMoves` only: by itself, the RAM FIFO implements `FifoCycle`, with the queue of its
three places (`RamQueue`). From all of it: `HandshakeStaysSame`
and `NoWordEverClashes` (a read and a write of one word would need a RAM that is empty,
and then nothing is read, or one that holds every value, and then the stage is empty).

**`FwStep_proof`** (`StepAssumption`: any number of networks, steps and channels, any
depths; the marks that stand for "no value" in observations are no values). The invariant
`IInv` is `TypeOK` and

- `Control`: a step runs once an edge, only an atomic one has a log or stalls, and the takes
  in its log are its own;
- `Puts`: a stalling output is sent to at most once an edge, and `m_sent` says so until its
  producer commits;
- `Room`, `Reads`, `Reports`: a put was accepted, a poll answered and a violation reported
  as the edge's start had it;
- `SeenNow`: a queue holds first what is left of the edge's start, in order, then what was
  put at this edge (`Shape`); a level shows its value from then;
- `Began`, `History`: while an atomic step runs, there is a chain of states (`Unwinds`), one
  per record of the log, from the present one back to the one it began in, but for what it
  sent. Each undo goes one link down the chain, and each state in it is one that `SeenNow`
  allows, so the other parts hold at every turn of the undo loop and not only at its end.

Without `History` nothing is inductive: an undo is right only for the record that the
call before it made. From it: `TypesKept` (no undo takes a counter below zero),
`StallLeavesNothing`, `StallingOutputsSendOnce`, `StepsSeeTheEdgesStart` (of levels, while a
step runs: only then does it read), `ViolationsAreReported`. `StreamsKeepTheContract` is the
refinement of `FifoCycle`, with the hypothesis `OneTake`: in a network with a stream between
two steps a step takes at most one value of a channel at an edge, for `FifoCycle` moves one
a cycle, as the RTL does.

**`CreditLink_proof`** (`CreditAssumption`, `LinkAssumption`: any number of VCs,
credits, reserve, CHECK, either policy). A sum over the VCs is not inductively provable
without an induction over data, so the model carries the running sums of the reserves
(`sums[k]`, that of the first k VCs) as an observation. `IInv` is `Kinds` (types),
`SumsOK` (each sum is the one before plus one reserve), `SumsGrow` (so each is at least
every reserve in it), `Conservation` and `NoViolation`. The argument for `NoViolation`:
a send needs CHECK credits in hand, so by conservation the link's values account for at
most CREDITS - CHECK, hence fewer than DEPTH of them. `ReserveKept` is inductive by
the one thing `fw_credit_tx` does for it: a returned credit goes to the pool only when its
VC's reserve is full, so what a reserve misses is out on its own values. For `InOrder` a
VC's values in the link are one run of consecutive numbers, from the receiver's next to the
one in the hold or still to be offered (`Runs`); `RunsTail` and `RunsPut` are a run that
loses its first and gains its last. `TypeCorrect` gives that no credit
counter leaves `0 .. CREDITS`, which is why the models may ignore the width of `cnt_t`.

**`TableUse_proof`** (`TableAssumption`, `UseAssumption`: any slots, keys, values and
depth, users that wait or do not). `KeysStayUnique` from `IInv`: `Kinds` and
`UniqueKeys`. At a commit at most one slot is installed, the lowest free one, and only
if no live slot has the key; a slot that is not installed has the key it had, or none.

`BookAlwaysAgrees` and `TableIsSequential` have the hypothesis `WAITS`: without it they are
false, as `table_told` shows. The invariant (`Sent`, `Book`) follows a slot through its life:
answered by an install that has not committed (`Sent`: a stalled edge changes no entry, so
the answer is still right), told to one user only (`OneTold`), not found by a lookup until
the commit (`Unfound`), owned (`Owned`), with a write (`Writing`) or a remove (`Removing`) on
its way, and never live for nobody (`NoneLeaks`). The users' wait makes `EarlyOwn` and
`Unfound` enough: nobody aims at a slot whose install has not committed, so the masks of the
commit meet the slots as the answers did (`EarlyIs`, `Answers`). `TableIsSequential` follows
one commit through two tables between the old and the new one, after the install and after
the write (`InstallIs`, `WriteIs`, `RemoveIs`), as `KeyedTable` does. No response record is
`None` (`TableAssumption`).

**`TagUse_proof`** (`DepAssumption`: any number of producers and dependents). `DepInv` is
`DepKinds` (the registers' types), `ListIsOrder` (following the links from `m_top` visits
the live producers in entry order) and `WaitsOnLive` (a dependent waits on a live
producer only, so a retire of another tag releases nobody). `Retire` shows that removing
the k-th of the list is what moving one link does; `Enter`, that an entry goes on top;
together `TrackerStep`: no entry and no retire breaks `DepInv`, whatever they name.
`WaitsAsPlain` compares the dependents. With `UseKinds` (the tokens that travel are
tags) this gives `LinksAreOrder` and `TrackerImplements`.

For the whole use of pool and tracker, `UseInv` adds to it: `Apart` (a token that is held
is in one place of its life, and no queue holds it twice), `OnTheirWay` (the producers
entered and not completed are the tracker's list without the one that retires, then the
one that enters; so a token can come back to the pool only after its entry has left the
list) and `WaitsAreBehind` (the producer a dependent was put behind is the one the
tracker has recorded or records at this edge, until it retires). Neither the pool nor the
tracker gives any of these alone. `TokensNameOne` and `DependentsWait` follow; the counts
in `HeldOnce` are those of disjoint finite sets (`PlacesAddUp`).

**`FwReg_proof`** (`WordsFit`: a word has a byte). The theorems are about `BankSpec`: any
number of registers with any fields, masks, offsets and reset values, a core that `Fits`
them, and in each cycle any access to a whole word together with any updates by hardware.
`BankInv` is `FlopsHeld` (each flop has its field's bits of the class value) and `RestHeld`
(bits outside every field are 0, and those that nobody writes are as declared), without
which a level output, that puts a constant where there is no flop, would not be known to be
the word. `SelIsOffset` is the decode: at a whole word of the core's span, the sliced
index selects just the register at that offset. `FlopsStayHeld` then follows one field:
hardware's pin over the software write over the clear, against the class's write or read
and then its update; the two agree since an update has all of a field or nothing, and since
the class makes the access of a cycle before the updates (an order that `BankCycle` takes
from the core's priority: the other one would let software win).
`CoreHoldsTheValues` and `CoreShowsTheValues` follow; `WordIsValue` is the word read, with
the bits that a provider supplies left out.

What `Fits` asks is what the register map can carry, and each part is needed: masks of
whole fields in the declared word, in which fields do not overlap; no pulse bits (the class
never stores them, the map drops them); nothing that software writes in a read-only
register, and nothing that a read clears in a write-only one, for the core does not know
who may access; no observer on a read-only register; and an address that ends where a sliced
index does, since a wider one would alias. A bank of one register is outside: its one-bit
index would be sliced from beyond its address. `Readable`, under which the words
read agree, also asks for one register at an offset, none write-only (the class reads 0
there, the core its flops), reserved bits that are reset to 0, and a provider only where
it supplies the word or owns no bit. The run `flow` checks that every core it makes `Fits`,
and that those with a bus are `Readable`.

**`Cosynth_proof`** (`JobsFit`: a pipeline has a stage, the ports carry numbers). The
invariant is `Kinds`, `Started` (the operation about to be taken is the one in flight, and
its inputs are in the flops of both pipelines) and one of two: with input flops the
pipelines are `InStep`, what is valid in one is valid and the same in the other at the same
stage; folded, the rewritten one is `OneAhead` by a stage. A stage's data agree only where
they are valid: a register that is no longer reset, or no longer enabled, differs
elsewhere. The clauses enter through `TakesTheSame` and `TakesThePorts`, where a flop that
went is read at the port instead. `RewriteKeepsResults` is what `MCFlow`'s `SameResults`
checks in the run `flow`, for any number of stages.

**`Canon_proof`** (`ItemsFit`: items are numbered). `Orderly`, the rule of a whole trace, is
not what a checker in mid-trace knows: items are still inside. `UpToNow` is the rule of a
trace so far, and what breaks it breaks it for good (`BrokenStays`); so "no error reported
just when `UpToNow`" is an invariant (`Exact`), together with what an error-free checker
knows of the trace (`Follows`: who was seen, is inside and has left, in which order, and
who left in the last cycle). `EnterIsExact` and `LeaveIsExact` are about any event at all, so
the theorem does not depend on which wrong events the views make. `CheckerIsExact`: with
nothing left inside, `UpToNow` is `Orderly`. `CompareIsExact`: of two orderly traces the
canonical forms are equal just when they are the same stream (`SameForm`), if `allow_pass`
is symmetric or both views take the items in one order (`Numbered`, a guard of `EnterItem`;
Section 4 says why). It is what `MCFlow`'s `SameFunction` checks in the run `flow`.

Only model-checked:

- liveness under fairness (`ReserveMakesProgress`, `RequestsGranted`), out of the prover's
  reach as ENABLED is;
- `thread_proc`. The interpreter and the translator walk syntax trees by recursive
  operators, which the prover does not take, and what such a recursion computes would
  need an induction over data. `ResumedOnce` and `NoEdgePassed` are moreover not true of
  every program: a thread that triggers the event it last waited on is made ready again
  while it runs (Section 4), so they can only be said of the programs enumerated;
- `readings`, and in `flow` the knobs, the netlist and the latencies, for the same reason:
  trees of expressions and components, and the paths of a graph. Of the registers, what walks
  a tree: that the core made of nested blocks fits them, and the FSMs made of consumers.

## 6. Not modelled

Of the library: the rendezvous channel (DEPTH 0); the arbiter, slot reserve, transactors,
event sets, quantum keeper and clock domains (planned below); view context and factory,
which resolve names once; the debug domain, which observes only; the match set (static
functions) and the memory (an array behind one step); `fw_dep_check`.

Of the flow: `foreach`, queues, system functions, class construction and constraints in
the interpreter, which run in order with no other thread; combinational processes,
interface variables and aggregates in the translator; tables, packing of aggregates and
diagnostics in the mapper; the SystemVerilog knob package and exceptions; facts other than
latency (capacity, ii, area); every task that writes text for, or reads text of, another
tool (XLS code generation, yosys, SBY, simulators, PPA reports), and with them `formal/`,
`verif/cosim.py`, `cli.py`, and the wrapper and API generators. What those promise is in
the tools.

External, modelled from how the code here uses it: the process IR, the IR's back end, the
schedules that XLS makes, and the combinational dependencies inside a leaf.

## 7. Plan

In this order:

1. `FwArbiter` and its two ends: round-robin order under back-pressure, fairness;
   `FwSlotReserve`; the rendezvous channel.
2. Transactors: initiator and target state machines joined over the pins, with resets.
3. `FwEventSet` and `FwQuantumKeeper`: lost wake-ups and lost time.

Each with its proof: the modules are free of recursion, and the tools are there
(`FwStep_proof`'s account of an edge, `CreditLink_proof`'s runs of values,
`MCFifos_proof`'s two-sided invariant).

`fw_steppable.svh`'s rules are checked once, in `FwStep`; later modules take one action
per edge, as `CreditLink` does.
