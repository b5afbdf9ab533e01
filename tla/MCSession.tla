----------------------------- MODULE MCSession -----------------------------
(***************************************************************************)
(* Instances of Session for TLC.                                           *)
(***************************************************************************)
EXTENDS Session, TLC

CONSTANTS w1, w2, p1, k1, k2, i1

Symmetry == UNION {Permutations(S) : S \in {WorkerTasks, PopupTasks, Keys, Items}}

\* What follows a wallet created over the stock of another is wallet_recreate's.
OneWallet == ~recreated
=============================================================================
