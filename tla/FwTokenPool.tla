----------------------------- MODULE FwTokenPool -----------------------------
(***************************************************************************)
(* std/pool/fw_token_pool.svh: its step(), where `asked` says that a       *)
(* request waits at `req` and r is the token at `rel`, None where there is *)
(* none.  The value a request carries through goes with its grant.         *)
(***************************************************************************)
EXTENDS Naturals

CONSTANT N                      (* tokens                                  *)

Tokens == 0 .. N - 1

VARIABLE m_held                 (* the tokens that are held                *)

PoolInit == m_held = {}

fr_Any == Tokens    \* mutant: held tokens are granted too
fr == Tokens \ m_held
oh == CHOOSE i \in fr : \A j \in fr : i <= j

\* The request is taken: req is ready while a token is free.
taken(asked) == asked /\ fr # {}
grant(asked) == IF taken(asked) THEN {oh} ELSE {}

\* Mutant: a token put back stays held.
held_Kept(asked, r) == m_held \cup grant(asked)
held(asked, r) == (m_held \ {r}) \cup grant(asked)

PoolStep(asked, r) == m_held' = held(asked, r)
==============================================================================
