---------------------------- MODULE SignFindings ----------------------------
(***************************************************************************)
(* What a signature is allowed to do: createTransfer() of                  *)
(* src/wallet/store.ts, which exports the consignment of a sale, and one   *)
(* sign request from buildSignRequest() of src/worker/background.ts, with  *)
(* deriveRgbDelta() (src/colorex/rgb-delta.ts) and the readers in rgb-wasm *)
(* it is built from, to finalize().                                        *)
(*                                                                         *)
(* The reads of a build are awaits: the stock grows and the wallet locks   *)
(* between them, and while the user looks at the screen.  Requests share   *)
(* nothing that they write, so one is enough; windows, decisions and the   *)
(* allow-list are in Approvals.                                            *)
(***************************************************************************)
EXTENDS Integers, FiniteSets, FiniteSetsExt

CONSTANTS
  Outpoints,  \* the wallet's own outpoints, of the keychains 0, 1 and 10
  Anchors,    \* those of keychain 10
  Contracts,  \* the RGB contracts there are
  Allocs,     \* the allocations there may be at them: an outpoint may have several
  At,         \* the outpoint an allocation is at
  Of,         \* the contract it is of
  Worth,      \* its amount
  Scan,       \* its place in the stock's list of allocations
  Listing,    \* the place of each contract in the stock's list
  Requests,   \* the PSBTs with what comes with them, but for the sale
  Deliveries, \* what a valid consignment of somebody else's may name of them
  Wanted,     \* amounts a sale may ask for
  OffersAt,   \* bound: where the request is when one is exported for a sale
  MaxOffers,  \* bound: consignments exported for a sale
  MaxLocks,   \* bound: locks and unlocks
  MaxDrains,  \* bound: changes of the stock
  Stocks,     \* the allocations there may be at first
  None        \* nothing: no consignment, no contract, no sale

\* A request.  The PSBT: which of Outpoints it spends, whether the wallet's BTC
\* goes down, is even, or goes up, whether an own output gets any and whether one
\* is of keychain 10.  The intent: the consignment, and how the expected witness
\* txid compares.
Consignments ==
  [graph : BOOLEAN,                   \* it passes the RGB validation
   gives : Contracts \cup {None},     \* what it delivers to the receive seals
   mined : BOOLEAN]                   \* its witnesses are mined, the PSBT's apart

RequestType ==
  [spends : SUBSET Outpoints,
   btc : {"pays", "even", "earns"},
   payout : BOOLEAN,
   receives : BOOLEAN,
   expected : {"none", "same", "other"},
   consignment : Consignments \cup {None}]

\* A saleConsignment: whether it is valid, whether createTransfer() exported it
\* (which the wallet does not know), and the own outpoints among its terminals.
Sales == [graph : BOOLEAN, own : BOOLEAN, names : SUBSET Outpoints]
Offers == [of : Contracts, want : Wanted, picked : SUBSET Allocs]

ASSUME FindingsAssumption ==
  /\ Anchors \subseteq Outpoints
  /\ IsFiniteSet(Allocs) /\ IsFiniteSet(Contracts)
  /\ At \in [Allocs -> Outpoints] /\ Of \in [Allocs -> Contracts]
  /\ Worth \in [Allocs -> Nat \ {0}]
  /\ Scan \in [Allocs -> Nat]
  /\ \A a, b \in Allocs : Scan[a] = Scan[b] => a = b
  /\ Listing \in [Contracts -> Nat]
  /\ Requests \subseteq RequestType
  /\ Deliveries \subseteq SUBSET Outpoints
  /\ Wanted \subseteq Nat
  /\ MaxOffers \in Nat /\ MaxLocks \in Nat /\ MaxDrains \in Nat
  /\ Stocks \subseteq SUBSET Allocs
  /\ None \notin Contracts /\ None \notin Consignments

VARIABLES
  holds,     \* the worker's stock: the allocations at own outpoints
  known,     \* the contracts it lists
  unlocked,  \* the worker has the key, and with it the stock
  offers,    \* the sales exported, and the allocations each one is for
  pc,        \* where the request is
  req,       \* the request
  sale,      \* its saleConsignment
  ours,      \* decode_psbt knew the wallet's addresses
  rgbIn,     \* rgbInRaw
  rgbOut,    \* rgbOutRaw
  label,     \* contractId, of which ticker and precision are
  findings,  \* the findings, by name
  locks,     \* locks and unlocks so far
  drains,    \* changes of the stock so far
  grown,     \* history: the stock changed after the anchors were valued
  failed     \* history: a read of the build failed

request == <<req, sale>>
bounds == <<locks, drains>>
result == <<ours, rgbIn, rgbOut, label, findings>>
vars == <<holds, known, unlocked, offers, pc, req, sale, ours, rgbIn, rgbOut, label,
          findings, locks, drains, grown, failed>>

Building == {"opening", "decoding", "delivering", "valuing", "verifying", "naming"}
Pending == {"shown", "signing"}
Ended == {"signed", "failed", "rejected"}
Blocks == {"invalid", "no_delivery", "not_mined", "unverified", "substituted",
           "no_payout", "spliced", "unnamed"}
Warns == {"unverified_spend"}

TypeOK ==
  /\ holds \subseteq Allocs
  /\ known \subseteq Contracts
  /\ unlocked \in BOOLEAN
  /\ offers \subseteq Offers
  /\ pc \in {"none"} \cup Building \cup Pending \cup Ended
  /\ req \in RequestType \cup {None}
  /\ sale \in Sales \cup {None}
  /\ ours \in BOOLEAN
  /\ rgbIn \in Nat /\ rgbOut \in Nat
  /\ label \in Contracts \cup {None}
  /\ findings \subseteq Blocks \cup Warns
  /\ locks \in 0 .. MaxLocks /\ drains \in 0 .. MaxDrains
  /\ {grown, failed} \subseteq BOOLEAN

Init ==
  /\ holds \in Stocks
  /\ known = {Of[a] : a \in holds}
  /\ unlocked = TRUE
  /\ offers = {}
  /\ pc = "none" /\ req = None /\ sale = None
  /\ ours = FALSE /\ rgbIn = 0 /\ rgbOut = 0 /\ label = None /\ findings = {}
  /\ locks = 0 /\ drains = 0 /\ grown = FALSE /\ failed = FALSE

Finds(names) == findings' = findings \cup names
Goes(place) == pc' = place

----------------------------------------------------------------------------
\* createTransfer().

Total(S) == MapThenSumSet(LAMBDA a : Worth[a], S)

\* Mutant: smallest first.
BeforeSmall(a, b) == Worth[a] < Worth[b] \/ (Worth[a] = Worth[b] /\ Scan[a] < Scan[b])

\* allocs.sort(): largest first, and equals as the stock lists them.
Before(a, b) == Worth[a] > Worth[b] \/ (Worth[a] = Worth[b] /\ Scan[a] < Scan[b])

\* Taken from S in that order until n is covered: those before which it was not.
Picked(S, n) == {a \in S : Total({b \in S : Before(b, a)}) < n}

\* chosen, as a set: two allocations at an outpoint name it twice.
Chosen(S) == {At[a] : a \in S}

\* The scan of an address that fails counts as empty: any subset may be owned.  An
\* amount that is not covered throws, and so does an empty choice (create_transfer).
Offer(c, n, owned) ==
  LET picked == Picked({a \in holds : Of[a] = c /\ At[a] \in owned}, n) IN
  /\ pc \in OffersAt /\ Cardinality(offers) < MaxOffers
  /\ unlocked
  /\ Total(picked) >= n /\ picked # {}
  /\ offers' = offers \cup {[of |-> c, want |-> n, picked |-> picked]}
  /\ UNCHANGED <<holds, known, unlocked, pc, request, result, bounds, grown, failed>>

----------------------------------------------------------------------------
\* buildSignRequest().

\* The page forwards no sale consignment, an invalid one, one the wallet exported, or
\* any other that is valid, such as one that once delivered to it.
Ask ==
  /\ pc = "none"
  /\ Goes("opening")
  /\ req' \in Requests
  /\ \/ sale' = None
     \/ sale' = [graph |-> FALSE, own |-> FALSE, names |-> {}]
     \/ \E f \in offers : sale' = [graph |-> TRUE, own |-> TRUE, names |-> Chosen(f.picked)]
     \/ \E names \in Deliveries : sale' = [graph |-> TRUE, own |-> FALSE, names |-> names]
  /\ UNCHANGED <<holds, known, unlocked, offers, result, bounds, grown, failed>>

\* decodePsbt(): openStock() throws without a key.
OpenStock ==
  /\ pc = "opening"
  /\ Goes(IF unlocked THEN "decoding" ELSE "failed")
  /\ UNCHANGED <<holds, known, unlocked, offers, request, result, bounds, grown, failed>>

\* ownedAddresses() is empty without one, and then nothing is the wallet's.
Decode ==
  /\ pc = "decoding"
  /\ ours' = unlocked
  /\ Goes("delivering")
  /\ UNCHANGED <<holds, known, unlocked, offers, request, rgbIn, rgbOut, label, findings,
                 bounds, grown, failed>>

\* signInputs: what decode_psbt tells signPsbt() to sign, own inputs of every keychain.
SignInputs ==
  [outpoints |-> IF ours THEN req.spends ELSE {}, btc |-> ours /\ req.btc = "pays"]

\* The keychain-10 inputs and outputs, and the sign of btcDeltaSats, as decoded.
SpentAnchors == IF ours THEN req.spends \cap Anchors ELSE {}
Receives == ours /\ req.receives
PayingBtc == ours /\ req.btc = "pays"

\* Mutant: an invalid consignment is like none, and one is enough.
DeliverLax ==
  LET reads == Receives /\ req.consignment # None
      valid == reads /\ unlocked /\ req.consignment.graph
      delivers == valid /\ req.consignment.gives # None
  IN /\ pc = "delivering"
     /\ rgbIn' = IF delivers THEN 1 ELSE 0
     /\ label' = IF delivers THEN req.consignment.gives ELSE label
     /\ Finds(IF Receives /\ PayingBtc /\ ~reads THEN {"no_delivery"} ELSE {})
     /\ failed' = (failed \/ (reads /\ ~unlocked))
     /\ Goes("valuing")
     /\ UNCHANGED <<holds, known, unlocked, offers, request, ours, rgbOut, bounds, grown>>

\* RGB in: consignment_delivery_to_me on the receive seals, which throws for an
\* invalid consignment and without a stock.
Deliver ==
  LET reads == Receives /\ req.consignment # None
      valid == reads /\ unlocked /\ req.consignment.graph
      delivers == valid /\ req.consignment.gives # None
  IN /\ pc = "delivering"
     /\ rgbIn' = IF delivers THEN 1 ELSE 0
     /\ label' = IF delivers THEN req.consignment.gives ELSE label
     /\ Finds(CASE ~(Receives /\ PayingBtc) \/ delivers -> {}
                [] Receives /\ PayingBtc /\ reads /\ ~valid -> {"invalid"}
                [] OTHER -> {"no_delivery"})
     /\ failed' = (failed \/ (reads /\ ~unlocked))
     /\ Goes("valuing")
     /\ UNCHANGED <<holds, known, unlocked, offers, request, ours, rgbOut, bounds, grown>>

\* The first of the contracts the stock lists, those with no balance included.
First == CHOOSE c \in known : \A d \in known : Listing[c] <= Listing[d]

\* Mutants: the balance of the first contract only; what comes back taken off already.
GrossOfFirst(S) == Total({a \in holds : At[a] \in S /\ Of[a] = First})
GrossLessIn(S) == Total({a \in holds : At[a] \in S}) - rgbIn

\* The balances at the outpoints S, all contracts together (list_assets_owned).
Gross(S) == Total({a \in holds : At[a] \in S})

\* Mutant: RGB that comes in is taken for change of what goes out.
ValueEither ==
  LET gross == Gross(SpentAnchors) IN
  /\ pc = "valuing"
  /\ IF SpentAnchors # {} /\ ~unlocked
       THEN Goes("failed") /\ UNCHANGED <<rgbOut, label, findings>>
       ELSE /\ Goes("verifying")
            /\ rgbOut' = IF rgbIn > 0 THEN 0 ELSE gross
            /\ label' = IF gross > 0 THEN First ELSE label
            /\ Finds(IF gross > 0 /\ req.consignment = None THEN {"unverified_spend"} ELSE {})
  /\ UNCHANGED <<holds, known, unlocked, offers, request, ours, rgbIn, bounds, grown, failed>>

\* RGB out: the anchors as the stock values them; without a stock the build fails.
Value ==
  LET gross == Gross(SpentAnchors) IN
  /\ pc = "valuing"
  /\ IF SpentAnchors # {} /\ ~unlocked
       THEN Goes("failed") /\ UNCHANGED <<rgbOut, label, findings>>
       ELSE /\ Goes("verifying")
            /\ rgbOut' = gross
            /\ label' = IF gross > 0 THEN First ELSE label
            /\ Finds(IF gross > 0 /\ req.consignment = None THEN {"unverified_spend"} ELSE {})
  /\ UNCHANGED <<holds, known, unlocked, offers, request, ours, rgbIn, bounds, grown, failed>>

\* The swap-leg gates, for a request that names the quote's transaction.
QuoteFindings ==
  IF req.expected = "none" THEN {}
    ELSE (IF req.expected = "other" THEN {"substituted"} ELSE {})
           \cup (IF rgbIn < rgbOut /\ ~(ours /\ req.payout) THEN {"no_payout"} ELSE {})

\* verifyMinedAncestry(), the PSBT's own transaction exempt: its answer, or an
\* exception.  Then the gates that need no read.
Verify ==
  /\ pc = "verifying"
  /\ \E answers \in BOOLEAN :
       LET checked == unlocked /\ answers IN
       /\ Finds(QuoteFindings \cup
            CASE req.consignment = None -> {}
              [] req.consignment # None /\ ~checked -> {"unverified"}
              [] OTHER -> IF req.consignment.mined THEN {} ELSE {"not_mined"})
       /\ failed' = (failed \/ (req.consignment # None /\ ~checked))
  /\ Goes("naming")
  /\ UNCHANGED <<holds, known, unlocked, offers, request, ours, rgbIn, rgbOut, label, bounds, grown>>

\* Mutants: one anchor that is named is enough; all that is named must go.
WithinAny(S, names) == S \cap names # {}
WithinAll(S, names) == S = names

Within(S, names) == S \subseteq names

\* The anti-sweep gate, and the request is registered.
Name ==
  LET checked == unlocked /\ sale # None /\ sale.graph IN
  /\ pc = "naming"
  /\ Finds(CASE sale = None \/ SpentAnchors = {} -> {}
             [] ~(sale = None \/ SpentAnchors = {}) /\ ~checked -> {"unnamed"}
             [] OTHER -> IF Within(SpentAnchors, sale.names) THEN {} ELSE {"spliced"})
  /\ failed' = (failed \/ (sale # None /\ SpentAnchors # {} /\ ~unlocked))
  /\ Goes("shown")
  /\ UNCHANGED <<holds, known, unlocked, offers, request, ours, rgbIn, rgbOut, label, bounds, grown>>

\* The decoding throws, or a call of storage.
Throws ==
  /\ pc \in Building
  /\ Goes("failed")
  /\ UNCHANGED <<holds, known, unlocked, offers, request, result, bounds, grown, failed>>

----------------------------------------------------------------------------
\* finalize().

Decide(approve) ==
  /\ pc = "shown"
  /\ Goes(IF approve THEN "signing" ELSE "rejected")
  /\ UNCHANGED <<holds, known, unlocked, offers, request, result, bounds, grown, failed>>

Sign ==
  /\ pc = "signing"
  /\ Goes(IF unlocked /\ findings \cap Blocks = {} THEN "signed" ELSE "failed")
  /\ UNCHANGED <<holds, known, unlocked, offers, request, result, bounds, grown, failed>>

----------------------------------------------------------------------------
\* Meanwhile.  What comes after the request was answered is left out.

\* A lock takes the key and the stock from memory, an unlock brings them back.
LockOrUnlock ==
  /\ pc \notin Ended
  /\ locks < MaxLocks /\ locks' = locks + 1
  /\ unlocked' = ~unlocked
  /\ UNCHANGED <<holds, known, offers, pc, request, result, drains, grown, failed>>

\* The drain accepts an allocation at an own outpoint, or archives one.
Drain(a) ==
  /\ pc \notin Ended
  /\ drains < MaxDrains /\ drains' = drains + 1
  /\ unlocked
  /\ holds' = IF a \in holds THEN holds \ {a} ELSE holds \cup {a}
  /\ known' = known \cup {Of[a]}
  /\ grown' = (grown \/ pc \in {"verifying", "naming"} \cup Pending)
  /\ UNCHANGED <<unlocked, offers, pc, request, result, locks, failed>>

Build == OpenStock \/ Decode \/ Deliver \/ Value \/ Verify \/ Name

Next ==
  \/ \E c \in Contracts, n \in Wanted, owned \in SUBSET Outpoints : Offer(c, n, owned)
  \/ Ask
  \/ Build \/ Throws
  \/ \E approve \in BOOLEAN : Decide(approve)
  \/ Sign
  \/ LockOrUnlock
  \/ \E a \in Allocs : Drain(a)

Spec == Init /\ [][Next]_vars
----------------------------------------------------------------------------
\* Properties.

Signed == pc = "signed"

\* Whatever fails, locks or arrives while a request is built and looked at, a
\* signature that pays BTC against an own receive seal has a valid consignment that
\* delivers there, no consignment with unconfirmed history goes with a signature, and
\* a signature under a quote is under that quote's transaction and, if RGB goes out
\* on balance, pays something back (buildSignRequest, finalize).
BuyIsCovered ==
  SignInputs.btc /\ req.receives =>
    /\ req.consignment # None
    /\ req.consignment.graph
    /\ req.consignment.gives # None
HistoryIsMined == req.consignment # None => req.consignment.mined
QuoteIsKept ==
  req.expected # "none" => req.expected = "same" /\ (rgbIn < rgbOut => req.payout)
SignedIsVetted == Signed => BuyIsCovered /\ HistoryIsMined /\ QuoteIsKept

\* The anti-sweep gate: with a sale consignment a signature spends no keychain-10
\* outpoint that it does not name, and with one the wallet exported none but what one
\* call of createTransfer() chose, whatever was offered, received or locked since.
\* Another valid consignment passes too, over what it names (README, section 10).
SaleIsOffered ==
  Signed /\ sale # None /\ SpentAnchors # {} =>
    /\ SpentAnchors \subseteq sale.names
    /\ sale.own => \E f \in offers : SpentAnchors \subseteq Chosen(f.picked)

\* Spending RGB at keychain 10 with no consignment to show for it carries the warning,
\* also when several contracts share the anchors, unless the stock changed after it was
\* read.  RGB at the other keychains is signed without one (README, section 10).
RiskIsShown ==
  Signed /\ ~grown /\ req.consignment = None
    /\ (\E a \in holds : At[a] \in SpentAnchors) => "unverified_spend" \in findings

\* "deltas are ALWAYS wallet-derived" (docs/sign-request.md): the RGB row names the
\* contract that moves and the amount the signature moves of it, never more in the
\* wallet's favour, and less only after a failed read.  It holds of requests that
\* are about the one contract the wallet knows, as long as the stock is the one the
\* anchors were valued from, and where no RGB sits at a signed input of keychain 0
\* or 1, which the row leaves out (README, section 10).
Delivered(c) ==
  req.receives /\ req.consignment # None /\ req.consignment.graph /\ req.consignment.gives = c
Moved(c) ==
  (IF Delivered(c) THEN 1 ELSE 0)
    - Total({a \in holds : Of[a] = c /\ At[a] \in SignInputs.outpoints})
ShownOf(c) == IF c = label THEN rgbIn - rgbOut ELSE 0
OneContract ==
  rgbOut = 0 \/ Cardinality(known \cup {c \in Contracts : Delivered(c)}) = 1
AtAnchors == \A a \in holds : At[a] \in SignInputs.outpoints => At[a] \in Anchors
ShownIsMoved ==
  Signed /\ ~grown /\ OneContract /\ AtAnchors /\ (SignInputs.outpoints # {} \/ SignInputs.btc) =>
    \A c \in Contracts : ShownOf(c) <= Moved(c) /\ (ShownOf(c) = Moved(c) \/ failed)

\* An honest trade can be signed: no block without a reason in the request itself,
\* unless a read failed, by which is meant also that verifyMinedAncestry() gave no
\* answer, as it does for an empty list (nothing_to_check in Ancestry).
Honest ==
  /\ req.consignment # None => req.consignment.graph /\ req.consignment.mined
  /\ PayingBtc /\ Receives => req.consignment # None /\ req.consignment.gives # None
  /\ req.expected # "other" /\ req.payout
  /\ sale # None => sale.graph /\ SpentAnchors \subseteq sale.names
HonestIsNotBlocked == pc \in Pending /\ Honest /\ ~failed => findings \cap Blocks = {}

\* What is offered is of the contract and covers the amount, and no allocation taken
\* could be left out.  An outpoint could: the code weighs the allocations one by one,
\* and one at the same outpoint as another comes with it.
OfferIsTight ==
  [][\A f \in offers' \ offers :
       /\ \A a \in f.picked :
            a \in holds /\ Of[a] = f.of /\ Total(f.picked \ {a}) < f.want
       /\ Total(f.picked) >= f.want]_vars
=============================================================================
