------------------------- MODULE SignFindingsProofs ------------------------
(***************************************************************************)
(* Proofs about SignFindings: what a signature has passed, for any         *)
(* outpoints, allocations and requests and any number of locks, drains and *)
(* offers.                                                                 *)
(*                                                                         *)
(* Nothing here adds amounts up: SignAmountProofs does.                    *)
(***************************************************************************)
EXTENDS SignFindings, TLAPS

Delivering == {"valuing", "verifying", "naming", "shown", "signing", "signed"}
Verified == {"naming", "shown", "signing", "signed"}
Named == {"shown", "signing", "signed"}
Unblocked == findings \cap Blocks = {}

\* A sale consignment of the wallet's own names what one export chose.
SaleIsExported ==
  sale # None /\ sale.own => \E f \in offers : Chosen(f.picked) = sale.names

\* The request is one of those there are, and each gate left a block or was passed.
VettingInv ==
  /\ pc # "none" => req \in Requests
  /\ ours \in BOOLEAN
  /\ SaleIsExported
  /\ pc \in Delivering /\ Unblocked => BuyIsCovered
  /\ pc \in Verified /\ Unblocked => HistoryIsMined /\ QuoteIsKept
  /\ pc \in Named /\ Unblocked /\ sale # None /\ SpentAnchors # {} =>
       sale.graph /\ SpentAnchors \subseteq sale.names
  /\ pc = "signed" => Unblocked

LEMMA RequestFacts ==
  ASSUME NEW q \in Requests
  PROVE  /\ q.spends \subseteq Outpoints /\ q.receives \in BOOLEAN /\ q.payout \in BOOLEAN
         /\ q.consignment # None =>
              /\ q.consignment.graph \in BOOLEAN
              /\ q.consignment.mined \in BOOLEAN
PROOF BY FindingsAssumption DEF RequestType, Consignments

LEMMA InitVetting == Init => VettingInv
PROOF BY DEF Init, VettingInv, SaleIsExported, Delivering, Verified, Named

\* The findings only grow.
LEMMA FindsMore ==
  ASSUME NEW names, Finds(names), Unblocked'
  PROVE  Unblocked /\ names \cap Blocks = {}
PROOF BY DEF Finds, Unblocked

\* A step that leaves the request and what was read of it alone passes no gate.
LEMMA Elsewhere ==
  ASSUME VettingInv, UNCHANGED <<req, sale, ours, rgbIn, rgbOut, findings>>,
         offers \subseteq offers',
         pc' # "none" => pc # "none",
         pc' \in Delivering => pc \in Delivering,
         pc' \in Verified => pc \in Verified,
         pc' \in Named => pc \in Named,
         pc' = "signed" => Unblocked
  PROVE  VettingInv'
PROOF
<1>1. SaleIsExported'
  BY DEF VettingInv, SaleIsExported, Chosen
<1>2. (Unblocked' <=> Unblocked) /\ SpentAnchors' = SpentAnchors
  BY DEF Unblocked, SpentAnchors
<1>3. (BuyIsCovered' <=> BuyIsCovered) /\ (HistoryIsMined' <=> HistoryIsMined) /\ (QuoteIsKept' <=> QuoteIsKept)
  BY DEF BuyIsCovered, SignInputs, HistoryIsMined, QuoteIsKept
<1> QED BY <1>1, <1>2, <1>3 DEF VettingInv

LEMMA AskVetting == VettingInv /\ Ask => VettingInv'
PROOF
<1> SUFFICES ASSUME VettingInv, Ask PROVE VettingInv'
  OBVIOUS
<1>1. pc' = "opening" /\ req' \in Requests /\ ours' \in BOOLEAN
  BY DEF Ask, Goes, result, VettingInv
<1>2. SaleIsExported'
  <2> SUFFICES ASSUME sale' # None, sale'.own
               PROVE  \E f \in offers' : Chosen(f.picked)' = sale'.names
    BY DEF SaleIsExported
  <2>1. PICK f \in offers : sale' = [graph |-> TRUE, own |-> TRUE, names |-> Chosen(f.picked)]
    BY DEF Ask
  <2> QED BY <2>1 DEF Ask, Chosen
<1> QED BY <1>1, <1>2 DEF VettingInv, Delivering, Verified, Named

LEMMA DecodeVetting == VettingInv /\ unlocked \in BOOLEAN /\ Decode => VettingInv'
PROOF
<1> SUFFICES ASSUME VettingInv, unlocked \in BOOLEAN, Decode PROVE VettingInv'
  OBVIOUS
<1>1. pc = "decoding" /\ pc' = "delivering" /\ ours' \in BOOLEAN /\ UNCHANGED <<req, sale, offers>>
  BY DEF Decode, Goes, request
<1> QED BY <1>1 DEF VettingInv, SaleIsExported, Chosen, Delivering, Verified, Named

\* What delivers to the receive seals covers the purchase.
LEMMA DeliverVetting == VettingInv /\ Deliver => VettingInv'
PROOF
<1> SUFFICES ASSUME VettingInv, Deliver PROVE VettingInv'
  OBVIOUS
<1>1. pc = "delivering" /\ pc' = "valuing" /\ UNCHANGED <<req, sale, ours, offers>>
  BY DEF Deliver, Goes, request
<1>2. req \in Requests /\ SaleIsExported'
  BY <1>1 DEF VettingInv, SaleIsExported, Chosen
<1>3. ASSUME Unblocked' PROVE BuyIsCovered'
  <2> DEFINE reads == Receives /\ req.consignment # None
             valid == reads /\ unlocked /\ req.consignment.graph
             delivers == valid /\ req.consignment.gives # None
             names == CASE ~(Receives /\ PayingBtc) \/ delivers -> {}
                        [] Receives /\ PayingBtc /\ reads /\ ~valid -> {"invalid"}
                        [] OTHER -> {"no_delivery"}
  <2>1. Finds(names)
    BY DEF Deliver
  <2>2. names \cap Blocks = {}
    <3> HIDE DEF names
    <3> QED BY <1>3, <2>1, FindsMore
  <2>3. ~(Receives /\ PayingBtc) \/ delivers
    BY <2>2 DEF Blocks
  <2>4. ~(Receives /\ PayingBtc) =>
          ~(SignInputs.btc /\ req.receives)
    BY DEF Receives, PayingBtc, SignInputs
  <2>5. BuyIsCovered
    BY <2>3, <2>4 DEF BuyIsCovered
  <2> QED BY <1>1, <2>5 DEF BuyIsCovered, SignInputs
<1> QED BY <1>1, <1>2, <1>3 DEF VettingInv, Delivering, Verified, Named

LEMMA ValueVetting == VettingInv /\ Value => VettingInv'
PROOF
<1> SUFFICES ASSUME VettingInv, Value PROVE VettingInv'
  OBVIOUS
<1>1. pc = "valuing" /\ pc' \in {"failed", "verifying"} /\ UNCHANGED <<req, sale, ours, offers>>
  BY DEF Value, Goes, request
<1>2. req \in Requests /\ SaleIsExported'
  BY <1>1 DEF VettingInv, SaleIsExported, Chosen
<1>3. Unblocked' => Unblocked
  BY DEF Value, Finds, Unblocked
<1>4. BuyIsCovered' <=> BuyIsCovered
  BY <1>1 DEF BuyIsCovered, SignInputs
<1> QED BY <1>1, <1>2, <1>3, <1>4 DEF VettingInv, Delivering, Verified, Named

\* A check that could not be made blocks like one that failed.
LEMMA VerifyVetting == VettingInv /\ Verify => VettingInv'
PROOF
<1> SUFFICES ASSUME VettingInv, Verify PROVE VettingInv'
  OBVIOUS
<1>1. /\ pc = "verifying" /\ pc' = "naming"
      /\ UNCHANGED <<req, sale, ours, offers, rgbIn, rgbOut>>
  BY DEF Verify, Goes, request
<1>2. req \in Requests /\ SaleIsExported'
  BY <1>1 DEF VettingInv, SaleIsExported, Chosen
<1>3. BuyIsCovered' <=> BuyIsCovered
  BY <1>1 DEF BuyIsCovered, SignInputs
<1>4. ASSUME Unblocked' PROVE Unblocked /\ (HistoryIsMined /\ QuoteIsKept)'
  <2>1. PICK checked \in BOOLEAN :
          Finds(QuoteFindings \cup
            CASE req.consignment = None -> {}
              [] req.consignment # None /\ ~checked -> {"unverified"}
              [] OTHER -> IF req.consignment.mined THEN {} ELSE {"not_mined"})
    <3>1. PICK answers \in BOOLEAN :
            Finds(QuoteFindings \cup
              CASE req.consignment = None -> {}
                [] req.consignment # None /\ ~(unlocked /\ answers) -> {"unverified"}
                [] OTHER -> IF req.consignment.mined THEN {} ELSE {"not_mined"})
      BY DEF Verify
    <3>2. (unlocked /\ answers) \in BOOLEAN
      OBVIOUS
    <3> QED BY <3>1, <3>2
  <2> DEFINE history == CASE req.consignment = None -> {}
                          [] req.consignment # None /\ ~checked -> {"unverified"}
                          [] OTHER -> IF req.consignment.mined THEN {} ELSE {"not_mined"}
  <2>2. Unblocked /\ QuoteFindings \cap Blocks = {} /\ history \cap Blocks = {}
    <3>1. Finds(QuoteFindings \cup history)
      BY <2>1
    <3> HIDE DEF history
    <3>2. Unblocked /\ (QuoteFindings \cup history) \cap Blocks = {}
      BY <1>4, <3>1, FindsMore
    <3> QED BY <3>2
  <2>3. HistoryIsMined
    BY <2>2 DEF HistoryIsMined, Blocks
  <2>4. QuoteIsKept
    <3> SUFFICES ASSUME req.expected # "none"
                 PROVE  req.expected = "same" /\ (rgbIn < rgbOut => req.payout)
      BY DEF QuoteIsKept
    <3>1. "substituted" \notin QuoteFindings /\ "no_payout" \notin QuoteFindings
      BY <2>2 DEF Blocks
    <3>2. req.expected # "other"
      BY <3>1 DEF QuoteFindings
    <3>3. rgbIn < rgbOut => ours /\ req.payout
      BY <3>1 DEF QuoteFindings
    <3>4. req.expected \in {"none", "same", "other"}
      BY <1>2, FindingsAssumption DEF RequestType
    <3> QED BY <3>2, <3>3, <3>4
  <2> QED BY <1>1, <2>2, <2>3, <2>4 DEF HistoryIsMined, QuoteIsKept
<1> QED BY <1>1, <1>2, <1>3, <1>4 DEF VettingInv, Delivering, Verified, Named

\* Nor does a sale consignment that cannot be read let anything pass.
LEMMA NameVetting == VettingInv /\ Name => VettingInv'
PROOF
<1> SUFFICES ASSUME VettingInv, Name PROVE VettingInv'
  OBVIOUS
<1>1. /\ pc = "naming" /\ pc' = "shown"
      /\ UNCHANGED <<req, sale, ours, offers, rgbIn, rgbOut>>
  BY DEF Name, Goes, request
<1>2. req \in Requests /\ SaleIsExported'
  BY <1>1 DEF VettingInv, SaleIsExported, Chosen
<1>3. /\ BuyIsCovered' <=> BuyIsCovered
      /\ HistoryIsMined' <=> HistoryIsMined
      /\ QuoteIsKept' <=> QuoteIsKept
      /\ SpentAnchors' = SpentAnchors
  BY <1>1 DEF BuyIsCovered, SignInputs, HistoryIsMined, QuoteIsKept, SpentAnchors
<1>4. ASSUME Unblocked'
      PROVE  Unblocked /\ (sale # None /\ SpentAnchors # {} =>
                             sale.graph /\ SpentAnchors \subseteq sale.names)
  <2> DEFINE checked == unlocked /\ sale # None /\ sale.graph
             names == CASE sale = None \/ SpentAnchors = {} -> {}
                        [] ~(sale = None \/ SpentAnchors = {}) /\ ~checked -> {"unnamed"}
                        [] OTHER -> IF Within(SpentAnchors, sale.names) THEN {} ELSE {"spliced"}
  <2>1. Finds(names)
    BY DEF Name
  <2>2. Unblocked /\ names \cap Blocks = {}
    <3> HIDE DEF names
    <3> QED BY <1>4, <2>1, FindsMore
  <2>3. CASE sale = None \/ SpentAnchors = {}
    BY <2>2, <2>3
  <2>4. CASE ~(sale = None \/ SpentAnchors = {})
    <3>1. checked
      BY <2>2, <2>4 DEF Blocks
    <3>2. Within(SpentAnchors, sale.names)
      BY <2>2, <2>4, <3>1 DEF Blocks
    <3> QED BY <2>2, <3>1, <3>2 DEF Within
  <2> QED BY <2>3, <2>4
<1> QED BY <1>1, <1>2, <1>3, <1>4 DEF VettingInv, Delivering, Verified, Named

LEMMA StepVetting == VettingInv /\ unlocked \in BOOLEAN /\ [Next]_vars => VettingInv'
PROOF
<1> SUFFICES ASSUME VettingInv, unlocked \in BOOLEAN, [Next]_vars PROVE VettingInv'
  OBVIOUS
<1>1. ASSUME NEW c \in Contracts, NEW n \in Wanted, NEW owned \in SUBSET Outpoints, Offer(c, n, owned)
      PROVE  VettingInv'
  BY <1>1, Elsewhere DEF Offer, request, result, VettingInv
<1>2. CASE Ask
  BY <1>2, AskVetting
<1>3. CASE OpenStock
  BY <1>3, Elsewhere DEF OpenStock, Goes, request, result, Delivering, Verified, Named
<1>4. CASE Build
  BY <1>3, <1>4, DecodeVetting, DeliverVetting, ValueVetting, VerifyVetting, NameVetting DEF Build
<1>5. CASE Throws
  BY <1>5, Elsewhere DEF Throws, Goes, Building, request, result, Delivering, Verified, Named
<1>6. ASSUME NEW approve \in BOOLEAN, Decide(approve) PROVE VettingInv'
  BY <1>6, Elsewhere DEF Decide, Goes, request, result, Delivering, Verified, Named
<1>7. CASE Sign
  BY <1>7, Elsewhere DEF Sign, Goes, request, result, Delivering, Verified, Named, Unblocked
<1>8. CASE LockOrUnlock
  BY <1>8, Elsewhere DEF LockOrUnlock, request, result, VettingInv
<1>9. ASSUME NEW a \in Allocs, Drain(a) PROVE VettingInv'
  BY <1>9, Elsewhere DEF Drain, request, result, VettingInv
<1>10. CASE UNCHANGED vars
  BY <1>10, Elsewhere DEF vars, VettingInv
<1> QED BY <1>1, <1>2, <1>4, <1>5, <1>6, <1>7, <1>8, <1>9, <1>10 DEF Next

LEMMA UnlockedType == unlocked \in BOOLEAN /\ [Next]_vars => (unlocked \in BOOLEAN)'
PROOF BY DEF Next, Offer, Ask, Build, OpenStock, Decode, Deliver, Value, Verify, Name, Throws,
             Decide, Sign, LockOrUnlock, Drain, vars

LEMMA VettingHolds == Spec => []VettingInv
PROOF
<1>1. Init => VettingInv /\ unlocked \in BOOLEAN
  BY InitVetting DEF Init
<1>2. (VettingInv /\ unlocked \in BOOLEAN) /\ [Next]_vars => (VettingInv /\ unlocked \in BOOLEAN)'
  BY StepVetting, UnlockedType
<1> QED BY <1>1, <1>2, PTL DEF Spec

\* Whatever fails, locks or arrives between the reads, what is signed has passed every
\* gate: a purchase is delivered, a history is mined, a quote is kept.
THEOREM SignaturesAreVetted == Spec => []SignedIsVetted
PROOF
<1>1. VettingInv => SignedIsVetted
  BY DEF VettingInv, SignedIsVetted, Signed, Delivering, Verified
<1> QED BY <1>1, VettingHolds, PTL

\* With a sale consignment, nothing but what it names is spent at keychain 10, and with
\* one of the wallet's own nothing but what one export chose, however many exports,
\* receipts and locks come in between and whatever other consignments there are.
THEOREM SalesAreOffered == Spec => []SaleIsOffered
PROOF
<1>1. VettingInv => SaleIsOffered
  BY DEF VettingInv, SaleIsExported, SaleIsOffered, Signed, Named
<1> QED BY <1>1, VettingHolds, PTL
=============================================================================
