--------------------------- MODULE MCImportQueue ---------------------------
(***************************************************************************)
(* Instances of ImportQueue for TLC.                                       *)
(***************************************************************************)
EXTENDS ImportQueue, TLC

CONSTANTS a, t1, t2

\* One transfer settled by two witness transactions.
PairWitnesses == a :> {t1, t2}

\* One transfer, one witness.
SingleWitness == a :> {t1}
=============================================================================
