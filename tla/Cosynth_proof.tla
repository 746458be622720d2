----------------------------- MODULE Cosynth_proof -----------------------------
(***************************************************************************)
(* The rewritten pipeline against the one it was made from, for every      *)
(* number of stages, every set of transformations and clauses, and all     *)
(* values of the ports.                                                    *)
(***************************************************************************)
EXTENDS Cosynth, TLAPS

\* A job has a stage, and the ports carry numbers.
JobsFit ==
  /\ Inputs \subseteq [Port -> Nat]
  /\ \A j \in Jobs : j.stages \in Nat \ {0}

\* What stage s of the pipeline as lowered makes.
Made(s) == IF s = 0 THEN Stage0(pre.in) ELSE pre.p[s]

Kinds ==
  /\ job \in Jobs
  /\ pre.in \in [Port -> Nat]
  /\ pre.v \in [0 .. job.stages -> BOOLEAN] /\ post.v \in [0 .. job.stages -> BOOLEAN]

\* An operation that stage 0 is about to take is the one in flight, and its inputs
\* are in the flops of both.
Started ==
  pre.v[0] =>
    /\ busy /\ pre.in = sampled /\ post.in = sampled /\ sampled \in [Port -> Nat]
    /\ "X6" \in Applied(job) \/ ~job.stable => sampled["key_width"] = 0

\* What is valid in one pipeline is valid in the other, and is the same: at the same
\* stage, or in a folded pipeline one stage later.
InStep ==
  /\ \A s \in 0 .. job.stages : post.v[s] = pre.v[s]
  /\ \A s \in 1 .. job.stages - 1 : pre.v[s] => post.p[s] = pre.p[s]
  /\ pre.v[job.stages] => post.out = pre.out

OneAhead ==
  /\ \A s \in 1 .. job.stages : post.v[s] = pre.v[s - 1]
  /\ \A s \in 1 .. job.stages - 1 : pre.v[s - 1] => post.p[s] = Made(s - 1)
  /\ pre.v[job.stages - 1] => post.out = Made(job.stages - 1)
  /\ last.ov = pre.v[job.stages]
  /\ last.ov => last.out = pre.out

IInv ==
  /\ Kinds /\ Started
  /\ Expected(job) => IF Fold(Applied(job)) THEN OneAhead ELSE InStep

------------------------------------------------------------------------------
\* With the transformation that assumes AES-128 the tied ports do not matter.
LEMMA TiedIsUnread ==
  ASSUME NEW xs, NEW d \in [Port -> Nat], NEW in, NEW ports,
         \A p \in Port \ Tied(xs) : d[p] = IF p \in Direct(xs) THEN ports[p] ELSE in[p],
         "X6" \in xs => d["key_width"] = 0
  PROVE  Stage0(Source(xs, in, ports)) = Stage0(d)
<1> DEFINE e == Source(xs, in, ports)
<1>1. e = [p \in Port |-> IF p \in Tied(xs) THEN 0
                          ELSE IF p \in Direct(xs) THEN ports[p] ELSE in[p]]
  BY DEF Source
<1>2. \A p \in Port : e[p] = IF p \in Tied(xs) THEN 0 ELSE d[p]
  BY <1>1
<1>3. e = [p \in Port |-> e[p]] /\ d = [p \in Port |-> d[p]]
  BY <1>1
<1> HIDE DEF e
<1>4. CASE "X6" \notin xs
  <2>1. e = d
    BY <1>2, <1>3, <1>4 DEF Tied
  <2>2. QED
    BY <2>1 DEF e
<1>5. CASE "X6" \in xs
  <2>1. /\ \A p \in Port \ {"key_hi", "key_width"} : e[p] = d[p]
        /\ e["key_width"] = 0 /\ d["key_width"] = 0
    BY <1>2, <1>5 DEF Tied, Port
  <2>2. Stage0(e) = [e EXCEPT !["key_hi"] = 0] /\ Stage0(d) = [d EXCEPT !["key_hi"] = 0]
    BY <2>1 DEF Stage0
  <2>3. \A p \in Port : [e EXCEPT !["key_hi"] = 0][p] = [d EXCEPT !["key_hi"] = 0][p]
    BY <1>3, <2>1 DEF Port
  <2>4. [e EXCEPT !["key_hi"] = 0] = [d EXCEPT !["key_hi"] = 0]
    BY <1>3, <2>3
  <2>5. QED
    BY <2>2, <2>4 DEF e
<1>6. QED
  BY <1>4, <1>5

\* The flops are all gone only where the key and the block are read directly.
LEMMA FoldIs ==
  ASSUME NEW xs
  PROVE  Fold(xs) <=> \A p \in Port : p \in Tied(xs) \cup Direct(xs)
  BY DEF Fold, InFlops

LEMMA NeverFolded == ~Fold({})
  BY DEF Fold, InFlops, Tied, Direct, Port

\* A clause of an applied transformation is kept, but for the stability of the
\* operands where the job leaves it out.
LEMMA ClausesKept ==
  ASSUME job.stable
  PROVE  /\ "X1" \in Applied(job) => "block_stable" \in Kept(job)
         /\ "X2" \in Applied(job) => {"key_stable_op", "mode_fixed"} \subseteq Kept(job)
<1>1. \A x \in Applied(job) : Reasons(x) \subseteq Kept(job)
  BY DEF Applied, Kept
<1>2. /\ "block_stable" \in Reasons("X1")
      /\ {"key_stable_op", "mode_fixed"} \subseteq Reasons("X2")
  BY DEF Reasons
<1>3. QED
  BY <1>1, <1>2

\* What the operation in flight brought is what stage 0 of the rewritten pipeline
\* reads when it takes it.
LEMMA TakesTheSame ==
  ASSUME Kinds, Started, Expected(job), ~Fold(Applied(job)), pre.v[0],
         NEW iv, NEW ports, Allowed(job, iv, ports)
  PROVE  Stage0(Source(Applied(job), post.in, ports)) = Stage0(pre.in)
<1> DEFINE A == Applied(job)
<1>1. /\ busy /\ pre.in = sampled /\ post.in = sampled /\ sampled \in [Port -> Nat]
      /\ "X6" \in A \/ ~job.stable => sampled["key_width"] = 0
  BY DEF Started
<1>2. \A p \in Port : p \in Direct(A) => ports[p] = sampled[p]
  <2>1. CASE job.stable
    <3>1. "X1" \in A => ports["block"] = sampled["block"]
      BY <1>1, <2>1, ClausesKept DEF Allowed
    <3>2. "X2" \in A => /\ ports["key_hi"] = sampled["key_hi"]
                        /\ ports["key_lo"] = sampled["key_lo"]
                        /\ ports["key_width"] = sampled["key_width"]
      BY <1>1, <2>1, ClausesKept DEF Allowed
    <3> HIDE DEF A
    <3>3. QED
      BY <3>1, <3>2 DEF Direct, KeyPort, Port
  <2>2. CASE ~job.stable
    <3>1. "X1" \notin A /\ "X2" \notin A
      BY <2>2 DEF Expected
    <3>2. QED
      BY <3>1 DEF Direct
  <2>3. QED
    BY <2>1, <2>2
<1> HIDE DEF A
<1>3. \A p \in Port \ Tied(A) :
        sampled[p] = IF p \in Direct(A) THEN ports[p] ELSE post.in[p]
  BY <1>1, <1>2
<1>4. Stage0(Source(A, post.in, ports)) = Stage0(sampled)
  BY <1>1, <1>3, TiedIsUnread
<1>5. QED
  BY <1>1, <1>4 DEF A

\* A folded pipeline takes the operation from the ports.
LEMMA TakesThePorts ==
  ASSUME JobsFit, Fold(Applied(job)),
         NEW iv, NEW ports \in Inputs, Allowed(job, iv, ports)
  PROVE  Stage0(Source(Applied(job), post.in, ports)) = Stage0(ports)
<1> DEFINE A == Applied(job)
<1>1. ports \in [Port -> Nat]
  BY DEF JobsFit
<1>2. "X6" \in A => ports["key_width"] = 0
  BY DEF Allowed, HostMode
<1>3. \A p \in Port \ Tied(A) : p \in Direct(A)
  BY FoldIs
<1> HIDE DEF A
<1>4. Stage0(Source(A, post.in, ports)) = Stage0(ports)
  BY <1>1, <1>2, <1>3, TiedIsUnread
<1>5. QED
  BY <1>4 DEF A

\* What an edge does to the pipeline as lowered.
LEMMA LoweredEdge ==
  ASSUME JobsFit, Kinds, NEW iv \in BOOLEAN, NEW ports, Cycle(iv, ports)
  PROVE  /\ pre'.v = [s \in 0 .. job.stages |-> IF s = 0 THEN iv ELSE pre.v[s - 1]]
         /\ pre'.in = IF iv THEN ports ELSE pre.in
         /\ pre'.p = [s \in 1 .. job.stages - 1 |->
                        IF pre.v[s - 1] THEN Made(s - 1) ELSE pre.p[s]]
         /\ pre'.out = IF pre.v[job.stages - 1] THEN Made(job.stages - 1) ELSE pre.out
<1> DEFINE n == job.stages
<1>1. pre' = Clocked({}, n, pre, iv, ports)
  BY DEF Cycle
<1>2. \A s : Enabled({}, pre, iv, s) = pre.v[s]
  BY NeverFolded DEF Enabled, Starts
<1>3. \A p \in Port : p \notin Tied({}) /\ p \notin Direct({})
  BY DEF Tied, Direct
<1>4. Source({}, pre.in, ports) = pre.in
  BY <1>3 DEF Source, Kinds
<1>5. \A s : StageOut({}, pre, ports, s) = Made(s)
  BY <1>4 DEF StageOut, Made
<1>6. n \in Nat \ {0}
  BY DEF JobsFit, Kinds
<1> HIDE DEF n
<1> DEFINE v == [s \in 0 .. n |-> IF s = 0 THEN iv ELSE pre.v[s - 1]]
           p == [s \in 1 .. n - 1 |-> IF pre.v[s - 1] THEN Made(s - 1) ELSE pre.p[s]]
           out == IF pre.v[n - 1] THEN Made(n - 1) ELSE pre.out
<1>7. pre' = [v |-> v, in |-> IF iv THEN ports ELSE pre.in, p |-> p, out |-> out]
  BY <1>1, <1>2, <1>5 DEF Clocked
<1> HIDE DEF v, p, out
<1>8. pre'.v = v /\ pre'.in = (IF iv THEN ports ELSE pre.in) /\ pre'.p = p /\ pre'.out = out
  BY <1>7
<1>9. QED
  BY <1>8 DEF n, v, p, out

------------------------------------------------------------------------------
LEMMA InitHolds ==
  ASSUME JobsFit, Init
  PROVE  IInv
<1> DEFINE n == job.stages
           A == Applied(job)
<1>1. n \in Nat \ {0}
  BY DEF Init, JobsFit
<1>2. /\ pre.v = [s \in 0 .. n |-> FALSE] /\ post.v = [s \in 0 .. n |-> FALSE]
      /\ pre.in = Zero
  BY DEF Init, AfterReset
<1>3. last.ov = FALSE
  BY DEF Init
<1> HIDE DEF n
<1>4. Kinds
  <2>1. Zero \in [Port -> Nat]
    BY DEF Zero
  <2>2. job \in Jobs
    BY DEF Init
  <2>3. QED
    BY <1>1, <1>2, <2>1, <2>2 DEF Kinds, n
<1>5. Started
  <2>1. 0 \in 0 .. n
    BY <1>1
  <2>2. ~pre.v[0]
    BY <1>2, <2>1
  <2>3. QED
    BY <2>2 DEF Started
<1>6. InStep /\ OneAhead
  <2>1. \A s \in 0 .. n : pre.v[s] = FALSE /\ post.v[s] = FALSE
    BY <1>2
  <2>2. n \in 0 .. n /\ \A s \in 1 .. n : s \in 0 .. n /\ s - 1 \in 0 .. n
    BY <1>1
  <2>3. \A s \in 1 .. n - 1 : s \in 1 .. n
    BY <1>1
  <2>4. n \in 1 .. n
    BY <1>1
  <2>5. InStep
    BY <2>1, <2>2, <2>3 DEF InStep, n
  <2>6. OneAhead
    BY <1>3, <2>1, <2>2, <2>3, <2>4 DEF OneAhead, n
  <2>7. QED
    BY <2>5, <2>6
<1>7. QED
  BY <1>4, <1>5, <1>6 DEF IInv

LEMMA KindsKept ==
  ASSUME JobsFit, Kinds, NEW iv \in BOOLEAN, NEW ports \in Inputs, Cycle(iv, ports)
  PROVE  Kinds'
<1> DEFINE n == job.stages
<1>1. job' = job /\ job \in Jobs /\ n \in Nat \ {0}
  BY DEF Cycle, Kinds, JobsFit
<1>2. pre'.in = IF iv THEN ports ELSE pre.in
  BY LoweredEdge
<1>3. pre'.v = [s \in 0 .. n |-> IF s = 0 THEN iv ELSE pre.v[s - 1]]
  BY LoweredEdge
<1>4. post' = Clocked(Applied(job), n, post, iv, ports)
  BY DEF Cycle
<1>5. post'.v = [s \in 0 .. n |-> IF s = 0 THEN iv ELSE Enabled(Applied(job), post, iv, s - 1)]
  BY <1>4 DEF Clocked
<1> HIDE DEF n
<1>6. \A s \in 1 .. n : s - 1 \in 0 .. n
  BY <1>1
<1>7. ASSUME NEW s \in 0 .. n PROVE Enabled(Applied(job), post, iv, s) \in BOOLEAN
  <2>1. post.v[s] \in BOOLEAN
    BY DEF Kinds, n
  <2>2. QED
    BY <2>1 DEF Enabled, Starts
<1>8. pre'.v \in [0 .. n -> BOOLEAN]
  <2>1. ASSUME NEW s \in 0 .. n PROVE (IF s = 0 THEN iv ELSE pre.v[s - 1]) \in BOOLEAN
    <3>1. CASE s = 0
      BY <3>1
    <3>2. CASE s # 0
      <4>1. s - 1 \in 0 .. n
        BY <1>1, <3>2
      <4>2. QED
        BY <3>2, <4>1 DEF Kinds, n
    <3>3. QED
      BY <3>1, <3>2
  <2>2. QED
    BY <1>3, <2>1
<1>9. post'.v \in [0 .. n -> BOOLEAN]
  <2>1. ASSUME NEW s \in 0 .. n
        PROVE  (IF s = 0 THEN iv ELSE Enabled(Applied(job), post, iv, s - 1)) \in BOOLEAN
    <3>1. CASE s = 0
      BY <3>1
    <3>2. CASE s # 0
      <4>1. s - 1 \in 0 .. n
        BY <1>1, <3>2
      <4>2. QED
        BY <1>7, <3>2, <4>1
    <3>3. QED
      BY <3>1, <3>2
  <2>2. QED
    BY <1>5, <2>1
<1>10. pre'.in \in [Port -> Nat]
  BY <1>2 DEF Kinds, JobsFit
<1>11. QED
  BY <1>1, <1>8, <1>9, <1>10 DEF Kinds, n

LEMMA StartedKept ==
  ASSUME JobsFit, Kinds, Started, NEW iv \in BOOLEAN, NEW ports \in Inputs, Cycle(iv, ports)
  PROVE  Started'
<1>1. job' = job /\ job.stages \in Nat \ {0}
  BY DEF Cycle, Kinds, JobsFit
<1>2. pre'.v[0] = iv
  <2>1. pre'.v = [s \in 0 .. job.stages |-> IF s = 0 THEN iv ELSE pre.v[s - 1]]
    BY LoweredEdge
  <2>2. 0 \in 0 .. job.stages
    BY <1>1
  <2>3. QED
    BY <2>1, <2>2
<1>3. ASSUME iv
      PROVE  /\ busy' /\ pre'.in = ports /\ post'.in = ports /\ sampled' = ports
             /\ ports \in [Port -> Nat]
             /\ "X6" \in Applied(job) \/ ~job.stable => ports["key_width"] = 0
  <2>1. pre'.in = ports
    BY <1>3, LoweredEdge
  <2>2. post'.in = ports
    BY <1>3 DEF Cycle, Clocked
  <2>3. busy' /\ sampled' = ports
    BY <1>3 DEF Cycle
  <2>4. "X6" \in Applied(job) \/ ~job.stable => ports["key_width"] = 0
    BY DEF Cycle, Allowed, HostMode
  <2>5. QED
    BY <2>1, <2>2, <2>3, <2>4 DEF JobsFit
<1>4. QED
  BY <1>1, <1>2, <1>3 DEF Started

\* A pipeline with input flops stays in step: a stage makes what the original's does
\* whenever that makes something valid.
LEMMA StaysInStep ==
  ASSUME JobsFit, Kinds, Started, InStep, Expected(job), ~Fold(Applied(job)),
         NEW iv \in BOOLEAN, NEW ports \in Inputs, Cycle(iv, ports)
  PROVE  InStep'
<1> DEFINE n == job.stages
           A == Applied(job)
<1>1. job' = job /\ n \in Nat \ {0} /\ Allowed(job, iv, ports)
  BY DEF Cycle, Kinds, JobsFit
<1>2. /\ pre'.v = [s \in 0 .. n |-> IF s = 0 THEN iv ELSE pre.v[s - 1]]
      /\ pre'.p = [s \in 1 .. n - 1 |-> IF pre.v[s - 1] THEN Made(s - 1) ELSE pre.p[s]]
      /\ pre'.out = IF pre.v[n - 1] THEN Made(n - 1) ELSE pre.out
  BY LoweredEdge
<1>3. \A s : Enabled(A, post, iv, s) = post.v[s]
  BY DEF Enabled, Starts
<1>4. ASSUME NEW s \in 0 .. n - 1, pre.v[s] PROVE StageOut(A, post, ports, s) = Made(s)
  <2>1. CASE s = 0
    BY <1>1, <1>4, <2>1, TakesTheSame DEF StageOut, Made
  <2>2. CASE s # 0
    <3>1. s \in 1 .. n - 1
      BY <1>1, <2>2
    <3>2. post.p[s] = pre.p[s]
      BY <1>4, <3>1 DEF InStep
    <3>3. QED
      BY <2>2, <3>2 DEF StageOut, Made
  <2>3. QED
    BY <2>1, <2>2
<1>5. post' = Clocked(A, n, post, iv, ports)
  BY DEF Cycle
<1> HIDE DEF A
<1>6. /\ post'.v = [s \in 0 .. n |-> IF s = 0 THEN iv ELSE post.v[s - 1]]
      /\ post'.p = [s \in 1 .. n - 1 |->
                      IF "X3" \in A \/ post.v[s - 1] THEN StageOut(A, post, ports, s - 1)
                      ELSE post.p[s]]
      /\ post'.out = IF post.v[n - 1] THEN StageOut(A, post, ports, n - 1) ELSE post.out
  BY <1>3, <1>5 DEF Clocked
<1>7. \A s \in 0 .. n : post.v[s] = pre.v[s]
  BY DEF InStep
<1> HIDE DEF n
<1>8. ASSUME NEW s \in 1 .. n PROVE s - 1 \in 0 .. n - 1 /\ s - 1 \in 0 .. n /\ s \in 0 .. n /\ s # 0
  BY <1>1
<1>9. \A s \in 0 .. n : post'.v[s] = pre'.v[s]
  <2>1. ASSUME NEW s \in 0 .. n PROVE post'.v[s] = pre'.v[s]
    <3>1. CASE s = 0
      BY <1>2, <1>6, <3>1
    <3>2. CASE s # 0
      <4>1. post.v[s - 1] = pre.v[s - 1]
        BY <1>1, <1>7, <3>2
      <4>2. QED
        BY <1>2, <1>6, <4>1
    <3>3. QED
      BY <3>1, <3>2
  <2>2. QED
    BY <2>1
<1>10. ASSUME NEW s \in 1 .. n, pre'.v[s]
       PROVE  /\ pre.v[s - 1] /\ post.v[s - 1]
              /\ StageOut(A, post, ports, s - 1) = Made(s - 1)
  <2>1. pre'.v[s] = pre.v[s - 1]
    BY <1>2, <1>8
  <2>2. pre.v[s - 1] /\ post.v[s - 1]
    BY <1>7, <1>8, <1>10, <2>1
  <2>3. QED
    BY <1>4, <1>8, <2>2
<1>11. ASSUME NEW s \in 1 .. n - 1, pre'.v[s] PROVE post'.p[s] = pre'.p[s]
  <2>1. s \in 1 .. n
    BY <1>1
  <2>2. /\ pre.v[s - 1] /\ post.v[s - 1]
        /\ StageOut(A, post, ports, s - 1) = Made(s - 1)
    BY <1>10, <1>11, <2>1
  <2>3. post'.p[s] = StageOut(A, post, ports, s - 1) /\ pre'.p[s] = Made(s - 1)
    BY <1>2, <1>6, <2>2
  <2>4. QED
    BY <2>2, <2>3
<1>12. pre'.v[n] => post'.out = pre'.out
  <2>1. n \in 1 .. n
    BY <1>1
  <2>2. QED
    BY <1>2, <1>6, <1>10, <2>1
<1>13. QED
  BY <1>1, <1>9, <1>11, <1>12 DEF InStep, n

\* What the original's stages make after the edge.
MadeNext(s) == IF s = 0 THEN Stage0(pre'.in) ELSE pre'.p[s]

\* A folded pipeline stays one stage ahead: it takes at this edge what the original's
\* flops take.
LEMMA StaysAhead ==
  ASSUME JobsFit, Kinds, OneAhead, Fold(Applied(job)),
         NEW iv \in BOOLEAN, NEW ports \in Inputs, Cycle(iv, ports)
  PROVE  OneAhead'
<1> DEFINE n == job.stages
           A == Applied(job)
<1>1. job' = job /\ n \in Nat \ {0} /\ Allowed(job, iv, ports)
  BY DEF Cycle, Kinds, JobsFit
<1>2. /\ pre'.v = [s \in 0 .. n |-> IF s = 0 THEN iv ELSE pre.v[s - 1]]
      /\ pre'.in = IF iv THEN ports ELSE pre.in
      /\ pre'.p = [s \in 1 .. n - 1 |-> IF pre.v[s - 1] THEN Made(s - 1) ELSE pre.p[s]]
      /\ pre'.out = IF pre.v[n - 1] THEN Made(n - 1) ELSE pre.out
  BY LoweredEdge
<1>3. \A s : Enabled(A, post, iv, s) = IF s = 0 THEN iv ELSE post.v[s]
  BY DEF Enabled, Starts
<1>4. StageOut(A, post, ports, 0) = Stage0(ports)
  BY <1>1, TakesThePorts DEF StageOut
<1>5. \A s \in 1 .. n : StageOut(A, post, ports, s) = post.p[s]
  BY <1>1 DEF StageOut
<1>6. post' = Clocked(A, n, post, iv, ports) /\ last' = [ov |-> post.v[n], out |-> post.out]
  BY DEF Cycle, OutputValid
<1> HIDE DEF A
<1> DEFINE on(s) == IF s = 0 THEN iv ELSE post.v[s]
<1>7. /\ post'.v = [s \in 0 .. n |-> IF s = 0 THEN iv ELSE on(s - 1)]
      /\ post'.p = [s \in 1 .. n - 1 |->
                      IF "X3" \in A \/ on(s - 1) THEN StageOut(A, post, ports, s - 1)
                      ELSE post.p[s]]
      /\ post'.out = IF on(n - 1) THEN StageOut(A, post, ports, n - 1) ELSE post.out
  BY <1>3, <1>6 DEF Clocked
<1>8. /\ \A s \in 1 .. n : post.v[s] = pre.v[s - 1]
      /\ \A s \in 1 .. n - 1 : pre.v[s - 1] => post.p[s] = Made(s - 1)
      /\ pre.v[n - 1] => post.out = Made(n - 1)
  BY DEF OneAhead
<1> HIDE DEF n
<1>9. ASSUME NEW s \in 0 .. n - 1 PROVE on(s) = pre'.v[s]
  <2>1. CASE s = 0
    BY <1>1, <1>2, <2>1
  <2>2. CASE s # 0
    BY <1>1, <1>2, <1>8, <2>2
  <2>3. QED
    BY <2>1, <2>2
<1>10. ASSUME NEW s \in 0 .. n - 1, pre'.v[s]
       PROVE  on(s) /\ StageOut(A, post, ports, s) = MadeNext(s)
  <2>1. CASE s = 0
    <3>1. iv
      BY <1>9, <1>10, <2>1
    <3>2. QED
      BY <1>2, <1>4, <2>1, <3>1 DEF MadeNext
  <2>2. CASE s # 0
    <3>1. s \in 1 .. n - 1 /\ s \in 1 .. n /\ s \in 0 .. n
      BY <1>1, <2>2
    <3>2. pre'.v[s] = pre.v[s - 1]
      BY <1>2, <2>2, <3>1
    <3>3. post.p[s] = Made(s - 1) /\ pre'.p[s] = Made(s - 1)
      BY <1>2, <1>8, <1>10, <3>1, <3>2
    <3>4. QED
      BY <1>5, <1>9, <1>10, <2>2, <3>1, <3>3 DEF MadeNext
  <2>3. QED
    BY <2>1, <2>2
<1> HIDE DEF on
<1>11. ASSUME NEW s \in 1 .. n PROVE s - 1 \in 0 .. n - 1 /\ s \in 0 .. n /\ s # 0
  BY <1>1
<1>12. ASSUME NEW s \in 1 .. n PROVE post'.v[s] = pre'.v[s - 1]
  BY <1>7, <1>9, <1>11
<1>13. ASSUME NEW s \in 1 .. n - 1, pre'.v[s - 1] PROVE post'.p[s] = MadeNext(s - 1)
  <2>1. s - 1 \in 0 .. n - 1
    BY <1>1
  <2>2. QED
    BY <1>7, <1>10, <1>13, <2>1
<1>14. pre'.v[n - 1] => post'.out = MadeNext(n - 1)
  <2>1. n - 1 \in 0 .. n - 1
    BY <1>1
  <2>2. QED
    BY <1>7, <1>10, <2>1
<1>15. last'.ov = pre'.v[n] /\ (last'.ov => last'.out = pre'.out)
  <2>1. n \in 1 .. n /\ n \in 0 .. n /\ n # 0
    BY <1>1
  <2>2. pre'.v[n] = pre.v[n - 1] /\ post.v[n] = pre.v[n - 1]
    BY <1>2, <1>8, <2>1
  <2>3. QED
    BY <1>2, <1>6, <1>8, <2>2
<1>16. QED
  BY <1>1, <1>12, <1>13, <1>14, <1>15 DEF OneAhead, Made, MadeNext, n

LEMMA NextKeeps ==
  ASSUME JobsFit
  PROVE  IInv /\ [Next]_vars => IInv'
<1> SUFFICES ASSUME IInv, [Next]_vars PROVE IInv'
  OBVIOUS
<1>1. CASE UNCHANGED vars
  BY <1>1 DEF vars, IInv, Kinds, Started, InStep, OneAhead, Made
<1>2. ASSUME NEW iv \in BOOLEAN, NEW ports \in Inputs, Cycle(iv, ports) PROVE IInv'
  <2>1. Kinds' /\ Started'
    BY JobsFit, <1>2, KindsKept, StartedKept DEF IInv
  <2>2. job' = job
    BY <1>2 DEF Cycle
  <2>3. Expected(job) /\ ~Fold(Applied(job)) => InStep'
    BY JobsFit, <1>2, StaysInStep DEF IInv
  <2>4. Expected(job) /\ Fold(Applied(job)) => OneAhead'
    BY JobsFit, <1>2, StaysAhead DEF IInv
  <2>5. QED
    BY <2>1, <2>2, <2>3, <2>4 DEF IInv
<1>3. QED
  BY <1>1, <1>2 DEF Next

\* The rewritten pipeline gives the results of the one it was made from, as many cycles
\* earlier as the report says, for every number of stages and every set of
\* transformations whose clauses are there, if the environment keeps the clauses named.
THEOREM RewriteKeepsResults ==
  ASSUME JobsFit
  PROVE  Spec => []SameResults
<1>1. Init => IInv
  BY JobsFit, InitHolds
<1>2. IInv /\ [Next]_vars => IInv'
  BY JobsFit, NextKeeps
<1>3. IInv => SameResults
  <2> SUFFICES ASSUME IInv, Expected(job), fresh > Shift(job)
               PROVE  LET got == IF Shift(job) = 0
                                 THEN [ov |-> OutputValid(post, job.stages), out |-> post.out]
                                 ELSE last
                      IN  /\ got.ov = OutputValid(pre, job.stages)
                          /\ got.ov => got.out = pre.out
    BY DEF SameResults
  <2>1. job.stages \in Nat \ {0}
    BY JobsFit DEF IInv, Kinds, JobsFit
  <2>2. Shift(job) = IF Fold(Applied(job)) THEN 1 ELSE 0
    BY <2>1, NeverFolded DEF Shift, Latency
  <2>3. CASE Fold(Applied(job))
    BY <2>2, <2>3 DEF IInv, OneAhead, OutputValid
  <2>4. CASE ~Fold(Applied(job))
    <3>1. job.stages \in 0 .. job.stages
      BY <2>1
    <3>2. QED
      BY <2>2, <2>4, <3>1 DEF IInv, InStep, OutputValid
  <2>5. QED
    BY <2>3, <2>4
<1>4. QED
  BY <1>1, <1>2, <1>3, PTL DEF Spec
================================================================================
