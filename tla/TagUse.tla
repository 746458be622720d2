-------------------------------- MODULE TagUse --------------------------------
(***************************************************************************)
(* fw_token_pool and fw_dep_tracker in the use docs/reference/lib.md gives *)
(* them: producers are named by tokens, dependents wait for the youngest   *)
(* producer that entered before them, completions retire the producers in  *)
(* any order and give the tokens back.  One clock edge per action; every   *)
(* step acts on what its channels held when the edge began (FwStep).       *)
(*                                                                         *)
(* The pool and the tracker never stall and take from rel, ent and ret at  *)
(* every edge, so each of these channels holds one value at most and is    *)
(* always ready.  The four users are outside the library: a requester, the *)
(* source of entries, a completer and the dependents.                      *)
(***************************************************************************)
EXTENDS FwDepTracker, FiniteSets

VARIABLES
  m_held,         (* fw_token_pool                                         *)
  req, tok, rel,  (* the pool's channels                                   *)
  ent, ret,       (* the tracker's channels                                *)
  granted,        (* the source: tokens granted and not yet entered        *)
  out,            (* producers entered and not completed, in entry order   *)
  done,           (* tokens of completed producers not yet put back        *)
  asked,          (* dependents that entered and have not gone             *)
  behind          (* per dependent: the youngest producer that entered     *)
                  (* before it, until it completes                         *)

INSTANCE FwTokenPool        \* one token for each producer tag

usevars == <<req, tok, rel, ent, ret, granted, out, done, asked, behind>>
vars    == <<m_held, depvars, usevars>>

Init ==
  /\ PoolInit /\ DepInit
  /\ req = FALSE /\ tok = None /\ rel = None /\ ent = None /\ ret = None
  /\ granted = <<>> /\ out = <<>> /\ done = {} /\ asked = {}
  /\ behind = [d \in Dep |-> None]

\* A dependent may trust its bit of `ok` from the second edge after it entered:
\* before that the level is from before its entry.
told(d) == d \in asked /\ ent # Dependent(d) /\ d \in ok

\* The entry a source can make: its oldest granted token, or an idle dependent.
enterable ==
  {Producer(granted[i]) : i \in DOMAIN granted \cap {1}}
  \cup {Dependent(d) : d \in Dep \ asked}

enters(e) == e # None /\ e.kind = "producer"
asks(e)   == {d \in Dep : e = Dependent(d)}
youngest  == IF out = <<>> THEN None ELSE out[Len(out)]

\* What d has to wait for, once it entered with e and producer p completed.
left_behind(e, p, d) ==
  LET b == IF d \in asks(e) THEN youngest ELSE behind[d] IN IF b = p THEN None ELSE b

\* One edge.  ask: a request is put.  e: the source's entry.  p: the producer that
\* completes.  back: the token put back.  go: the dependents that go on.
Edge(ask, e, p, back, go) ==
  /\ ask => ~req
  /\ back # None => back = p \/ back \in done
  /\ PoolStep(req, rel)
  /\ req' = ((req /\ ~taken(req)) \/ ask)
  /\ tok' = IF taken(req) THEN oh ELSE None
  /\ rel' = back
  /\ DepStep(ent, ret)
  /\ ent' = e /\ ret' = p
  /\ granted' = (IF enters(e) THEN Tail(granted) ELSE granted)
                \o (IF tok = None THEN <<>> ELSE <<tok>>)
  /\ out' = Plain!Without(out, p) \o (IF enters(e) THEN <<e.tag>> ELSE <<>>)
  /\ done' = (done \cup ({p} \ {None})) \ {back}
  /\ asked' = (asked \ go) \cup asks(e)
  /\ behind' = [d \in Dep |-> left_behind(e, p, d)]

completable == {out[i] : i \in DOMAIN out}

Next ==
  \E ask \in BOOLEAN, e \in enterable \cup {None}, p \in completable \cup {None},
     back \in done \cup completable \cup {None}, go \in SUBSET {d \in Dep : told(d)} :
    Edge(ask, e, p, back, go)

Spec == Init /\ [][Next]_vars

------------------------------------------------------------------------------
\* A token has one owner: the tokens held are the ones on their way to the
\* source, entered, completed or on their way back, and each is in one place.
HeldOnce ==
  LET on_way(c) == {c} \ {None}
      queued    == {granted[i] : i \in DOMAIN granted}
  IN  /\ m_held = on_way(tok) \cup queued \cup completable \cup done \cup on_way(rel)
      /\ Cardinality(m_held) =
           Cardinality(on_way(tok)) + Len(granted) + Len(out) + Cardinality(done)
           + Cardinality(on_way(rel))

\* The pool's tokens have one owner and name one live producer each: no producer
\* enters with the tag of one that is still live, and no retire finds its
\* producer gone.
TagsNameOne ==
  /\ HeldOnce
  /\ ent # None /\ ent.kind = "producer" => ent.tag \notin m_live \ {ret}
  /\ ret # None => ret \in m_live

\* A dependent goes on only when the youngest producer that entered before it has
\* completed, and waits no longer than that producer's retire is on its way.
WaitsForYoungest ==
  \A d \in asked : ent # Dependent(d) =>
    /\ d \in ok => behind[d] = None
    /\ d \notin ok /\ behind[d] = None => ret # None /\ m_on[d] = ret

\* The links and masks are the plain list of DepOrder, in every cycle.
TrackerSpec == Plain!Init /\ [][Plain!Cycle(ent, ret)]_<<ent, ret, order, waits>>

------------------------------------------------------------------------------
(* Liveness.  The clock goes on (each step of Next is an edge, at which    *)
(* the pool and the tracker act); the source enters what it was granted;   *)
(* producers complete and their tokens are put back.  Nothing is assumed   *)
(* of the order of these, nor of the dependents, who may wait or go on and *)
(* enter again for ever.                                                   *)

Entering      == granted # <<>> /\ ent' = Producer(granted[1])
Completing(t) == t \in completable /\ ret' = t
PuttingBack(t) == t \in done /\ rel' = t

FairSpec ==
  /\ Spec /\ WF_vars(Next) /\ WF_ent(Entering)
  /\ \A t \in Tokens : WF_ret(Completing(t)) /\ WF_rel(PuttingBack(t))

\* A request is granted in the end: no token is lost, and no release waits for a
\* grant.
RequestsGranted == req ~> ~req
===============================================================================
