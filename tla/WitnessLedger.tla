--------------------------- MODULE WitnessLedger ---------------------------
(***************************************************************************)
(* What the persisted RGB stock promises about the witness transactions of *)
(* the consignments it has absorbed, whatever the import queue goes        *)
(* through: a witness counts as mined (its allocation as spendable) only   *)
(* once the chain has mined it and from then on for good, only one that is *)
(* not mined is archived, and nothing is forgotten.  ImportQueue           *)
(* implements this with ord <- disk.                                       *)
(***************************************************************************)
CONSTANT Txids

VARIABLES
  chain,  \* what the chain says of each witness transaction
  ord     \* the WitnessOrd the persisted stock holds for it

LedgerInit == ord = [t \in Txids |-> "unknown"]

ChainStep ==
  /\ \A t \in Txids : chain[t] = "mined" => chain'[t] = "mined"
  /\ UNCHANGED ord

Absorbs(t) == ord[t] # "mined" /\ ord'[t] = "tentative"
Settles(t) == chain[t] = "mined" /\ ord'[t] = "mined"
Archives(t) == ord[t] # "mined" /\ ord'[t] = "archived"

\* One write of the stock may move any number of witnesses.
StockStep ==
  /\ \A t \in Txids : ord'[t] = ord[t] \/ Absorbs(t) \/ Settles(t) \/ Archives(t)
  /\ DOMAIN ord' = Txids
  /\ UNCHANGED chain

LedgerSpec == LedgerInit /\ [][ChainStep \/ StockStep]_<<chain, ord>>
=============================================================================
