---------------------------------- MODULE Knobs --------------------------------
(***************************************************************************)
(* Knob files (knobs.py): how the files of a base: chain merge into one    *)
(* set of knobs, where each value came from, and what the tasks ask of it. *)
(*                                                                         *)
(* A file is [dir, base, vals]: its directory, the files it names in       *)
(* base:, and a value for every path of keys it has; the value of a path   *)
(* with keys below is Map.  Paths are tuples of keys.  A set of knobs is   *)
(* [vals, from, files]: also the file each path came from (none once it    *)
(* has been written and read again), and the files in load order.          *)
(***************************************************************************)
EXTENDS Integers, FiniteSets, Sequences, SequencesExt, TLC

CONSTANTS
    Map,        \* the value of a path with keys below it
    None,       \* no value
    Absolute    \* names of files that do not depend on a directory

NoKnobs == [vals |-> <<>>, from |-> <<>>, files |-> <<>>, err |-> FALSE]

\* _merge: dicts merge key by key, anything else of src replaces dst's.
MergeInto(dst, src, both) ==
    LET kept == {q \in DOMAIN dst.vals : \A p \in DOMAIN src.vals \ both : ~IsPrefix(p, q)}
    IN  [dst EXCEPT !.vals = src.vals @@ [q \in kept |-> @[q]],
                    !.from = src.from @@ [q \in kept |-> @[q]],
                    !.files = @ \o SelectSeq(src.files, LAMBDA f : f \notin ToSet(@)),
                    !.err = @ \/ src.err]
\* Mutant: only what dst lacks is taken.
Merge_KeepsFirst(dst, src) == MergeInto(src, dst, {p \in DOMAIN src.vals : src.vals[p] = Map})
Merge(dst, src) ==
    MergeInto(dst, src, {p \in DOMAIN src.vals : p \in DOMAIN dst.vals /\ src.vals[p] = Map /\ dst.vals[p] = Map})

\* What the schema asks of a file by itself.
Valid(vals) ==
    /\ \A p \in DOMAIN vals : Len(p) = 2 /\ p[1] = "storage" => Append(p, "bind") \in DOMAIN vals
    /\ \A p \in DOMAIN vals : Len(p) = 3 /\ p[2] = "extern" => Append(p, "signature") \in DOMAIN vals

\* _load: a file's bases, in order, then its own values.
RECURSIVE Load(_, _, _)
Load(all, f, stack) ==
    IF f \in stack \/ ~Valid(all[f].vals) THEN [NoKnobs EXCEPT !.err = TRUE]
    ELSE LET bases == FoldLeft(LAMBDA k, b : Merge(k, Load(all, b, stack \cup {f})), NoKnobs, all[f].base)
             vals == all[f].vals
         IN  Merge(bases, [vals |-> vals, from |-> [p \in DOMAIN vals |-> f], files |-> <<f>>, err |-> FALSE])

\* resolved, written and read again (from_resolved): the values, but not where
\* they came from.
FromResolved(k) == [k EXCEPT !.from = <<>>]

-----------------------------------------------------------------------------
(* What the tasks ask. *)

Get(k, p, default) == IF p \in DOMAIN k.vals THEN k.vals[p] ELSE default
Keys(k, p) == {q[Len(p) + 1] : q \in {q \in DOMAIN k.vals : Len(q) = Len(p) + 1 /\ IsPrefix(p, q)}}

\* The file of a path, or of the longest of its prefixes that has one.
Origin(k, p) ==
    LET known == {n \in 0 .. Len(p) : SubSeq(p, 1, n) \in DOMAIN k.from}
    IN  IF known = {} THEN None ELSE k.from[SubSeq(p, 1, CHOOSE n \in known : \A m \in known : m <= n)]
\* Files named at p: absolute, or in the directory of the file named by its
\* origin; without an origin in the working directory.
Resolved(k, all, p, names) ==
    LET o == Origin(k, p)
        dir == IF o = None THEN "." ELSE all[o].dir
    IN  [i \in DOMAIN names |-> <<IF names[i] \in Absolute THEN "/" ELSE dir, names[i]>>]

FactsFiles(k, all) == Resolved(k, all, <<"design", "facts">>, Get(k, <<"design", "facts">>, <<>>))
\* The entries of storage:, their files resolved.
StorageSection(k, all) ==
    [n \in Keys(k, <<"storage">>) |->
        LET p == <<"storage", n>>
        IN  [f \in Keys(k, p) |-> IF f = "files" THEN Resolved(k, all, p, k.vals[Append(p, f)])
                                  ELSE k.vals[Append(p, f)]]]

XlsBlocks(k) == ToSet(Get(k, <<"design", "xls">>, <<>>))
\* An option of a block: its own, or xls.default's.
Option(k, b, o) == Get(k, <<"xls", "blocks", b, o>>, Get(k, <<"xls", "default", o>>, None))
PeriodPs(k, b) ==
    IF Option(k, b, "clock_period_ps") = None THEN None
    ELSE Option(k, b, "clock_period_ps") * Get(k, <<"delay", "scale">>, 1)
Schedule(k, b) ==
    <<Option(k, b, "pipeline_stages"), Option(k, b, "clock_period_ps"), Option(k, b, "worst_case_throughput")>>

\* What codegen is given of the schedule: the period and, beside it, the stages
\* as an argument; or the stages alone.
ScheduleOptions(k, b) ==
    [period |-> PeriodPs(k, b), stages |-> Option(k, b, "pipeline_stages"),
     throughput |-> Option(k, b, "worst_case_throughput")]

\* The register on a channel: its own entry, or the block's for that side.
FlopOption(side) == IF side = "inputs" THEN "flop_inputs" ELSE "flop_outputs"
FlopKind(side) == IF side = "inputs" THEN "flop_inputs_kind" ELSE "flop_outputs_kind"
ChanFlop(k, b, c, side) ==
    LET own == <<"xls", "chan_flop", <<b, c>>>>
        kind == Option(k, b, FlopKind(side))
    IN  IF own \in DOMAIN k.vals THEN k.vals[own]
        ELSE IF Option(k, b, FlopOption(side)) # TRUE THEN "none"
        ELSE IF kind = None THEN "flop" ELSE kind

Groups(k) == [g \in Keys(k, <<"island", "groups">>) |-> k.vals[<<"island", "groups", g>>]]
GroupOf(k, b) == {g \in DOMAIN Groups(k) : b \in ToSet(Groups(k)[g])}
Contracts(k) == Keys(k, <<"contracts", "latency">>)

\* _check: what the schema cannot say.
Checked(k) ==
    LET known == XlsBlocks(k)
        grouped == UNION {ToSet(bs) : bs \in {Groups(k)[g] : g \in DOMAIN Groups(k)}}
    IN  /\ known # {} => Keys(k, <<"xls", "blocks">>) \cup grouped \subseteq known
        /\ \A b \in grouped : Cardinality(GroupOf(k, b)) = 1
        /\ \A g \in DOMAIN Groups(k) : Cardinality({Schedule(k, b) : b \in ToSet(Groups(k)[g])}) = 1
\* load
Knobs(all, f) ==
    LET k == Load(all, f, {})
    IN  IF k.err \/ ~Checked(k) THEN [k EXCEPT !.err = TRUE] ELSE k
================================================================================
