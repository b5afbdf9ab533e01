---------------------------- MODULE ImportQueue ----------------------------
(***************************************************************************)
(* The consignment import queue of the service worker                      *)
(* (src/wallet/import-queue.ts) together with the RGB stock it writes      *)
(* (acceptConsignmentOrds, updateWitnesses, openStock and persist of       *)
(* src/wallet/store.ts, and the witness ords of rgb-wasm).                 *)
(*                                                                         *)
(* Every action is the code between two awaits of one asynchronous task:   *)
(* the drain, an enqueue, a dismissal.  The worker's event loop may run    *)
(* any other task, a lock, or the end of the worker itself between them.   *)
(***************************************************************************)
EXTENDS Naturals

CONSTANTS
  Ids,          \* queue items, keyed by the witness txids of their consignment
  Txids,        \* witness transactions
  Witnesses,    \* the witness transactions each consignment carries
  Valid,        \* the consignments that the stock's validation accepts
  MaxAttempts,  \* MAX_ATTEMPTS
  MaxFaults,    \* bound: failed requests, failed writes, restarts and locks
  NoItem,       \* no such record in the import-queue object store
  NoStock       \* the module variable `stock` is null

ASSUME QueueAssumption ==
  /\ Witnesses \in [Ids -> SUBSET Txids]
  /\ Valid \subseteq Ids
  /\ MaxAttempts \in Nat \ {0}
  /\ MaxFaults \in Nat
  /\ NoItem \notin Ids

Chain == {"absent", "mempool", "mined"}
Ords == {"unknown", "tentative", "mined", "archived"}
Stocks == [Txids -> Ords]

States == {"pending", "importing", "tentative", "confirmed", "reverted", "failed"}

\* ImportItem, less the display fields: `seen` is seenInMempool.
Items == [state : States, seen : BOOLEAN, attempts : 0 .. MaxAttempts + 1]

\* Records are told from the sentinels by the assumptions below.
ASSUME SentinelAssumption == NoItem \notin Items /\ NoStock \notin Stocks

\* What a patch() in flight is for; the drain's position between two awaits.
Goals == {"none", "importing", "accepted", "promoted", "watched", "reverted", "failed"}
Positions == {"idle", "pick", "fetch", "stock", "persist", "get", "put"}

VARIABLES
  chain,      \* what esplora would answer for each witness transaction
  session,    \* storage.session holds a valid unlocked entry
  key,        \* the worker's unlockedXprv is set
  stock,      \* the worker's decrypted stock, or NoStock
  disk,       \* the stock sealed in IndexedDB
  queue,      \* the import-queue object store
  arming,     \* what an enqueue() in flight will put
  dismissing, \* dismissals the popup has sent and the worker has not handled
  faults,     \* faults so far
  pc,         \* where the drain is
  snap,       \* getQueue()'s snapshot: the items this drain has still to process
  cur,        \* the item being processed
  stat,       \* the statuses fetched for its witnesses
  goal,       \* what the stock operation or patch in progress is for
  saving,     \* the snapshot persist() is sealing
  buf         \* the merged item patch() is about to put

drainVars == <<pc, snap, cur, stat, goal, saving, buf>>
taskVars == <<arming, dismissing>>
vars == <<chain, session, key, stock, disk, queue, taskVars, faults, drainVars>>

Unread == [t \in Txids |-> "unread"]

TypeOK ==
  /\ chain \in [Txids -> Chain]
  /\ session \in BOOLEAN
  /\ key \in BOOLEAN
  /\ stock \in Stocks \cup {NoStock}
  /\ disk \in Stocks
  /\ queue \in [Ids -> Items \cup {NoItem}]
  /\ arming \in [Ids -> Items \cup {NoItem}]
  /\ dismissing \subseteq Ids
  /\ faults \in Nat
  /\ pc \in Positions
  /\ snap \in [Ids -> Items \cup {NoItem}]
  /\ cur \in Ids \cup {NoItem}
  /\ stat \in [Txids -> Chain \cup {"unread"}]
  /\ goal \in Goals
  /\ saving \in Stocks \cup {NoStock}
  /\ buf \in Items \cup {NoItem}

\* A wallet that exists: its (empty) stock is sealed on disk, and the worker
\* has just been started by the browser with nothing in memory.
Init ==
  /\ chain = [t \in Txids |-> "absent"]
  /\ session = TRUE
  /\ key = FALSE
  /\ stock = NoStock
  /\ disk = [t \in Txids |-> "unknown"]
  /\ queue = [id \in Ids |-> NoItem]
  /\ arming = [id \in Ids |-> NoItem]
  /\ dismissing = {}
  /\ faults = 0
  /\ pc = "idle"
  /\ snap = [id \in Ids |-> NoItem]
  /\ cur = NoItem
  /\ stat = Unread
  /\ goal = "none"
  /\ saving = NoStock
  /\ buf = NoItem

In(item, states) == item # NoItem /\ item.state \in states

Fault == faults < MaxFaults /\ faults' = faults + 1

----------------------------------------------------------------------------
\* The chain, as esplora reports it.  A mined witness stays mined: the code
\* treats one confirmation as final.

Broadcast(t) ==
  /\ chain[t] = "absent"
  /\ chain' = [chain EXCEPT ![t] = "mempool"]
  /\ UNCHANGED <<session, key, stock, disk, queue, taskVars, faults, drainVars>>

Mine(t) ==
  /\ chain[t] = "mempool"
  /\ chain' = [chain EXCEPT ![t] = "mined"]
  /\ UNCHANGED <<session, key, stock, disk, queue, taskVars, faults, drainVars>>

Drop(t) ==
  /\ chain[t] = "mempool"
  /\ chain' = [chain EXCEPT ![t] = "absent"]
  /\ UNCHANGED <<session, key, stock, disk, queue, taskVars, faults, drainVars>>

----------------------------------------------------------------------------
\* The session.  The popup unlocks, locks and lets the entry expire; only the
\* worker's own lock() clears the worker's copies.

PopupUnlock ==
  /\ ~session
  /\ session' = TRUE
  /\ UNCHANGED <<chain, key, stock, disk, queue, taskVars, faults, drainVars>>

PopupLock ==
  /\ session
  /\ session' = FALSE
  /\ Fault
  /\ UNCHANGED <<chain, key, stock, disk, queue, taskVars, drainVars>>

WorkerLock ==
  /\ key \/ session
  /\ key' = FALSE
  /\ stock' = NoStock
  /\ session' = FALSE
  /\ Fault
  /\ UNCHANGED <<chain, disk, queue, taskVars, drainVars>>

\* The browser ends the worker: what is not in storage is gone.
WorkerRestart ==
  /\ key \/ pc # "idle" \/ \E id \in Ids : arming[id] # NoItem
  /\ key' = FALSE
  /\ stock' = NoStock
  /\ arming' = [id \in Ids |-> NoItem]
  /\ dismissing' = {}
  /\ pc' = "idle"
  /\ snap' = [id \in Ids |-> NoItem]
  /\ cur' = NoItem
  /\ stat' = Unread
  /\ goal' = "none"
  /\ saving' = NoStock
  /\ buf' = NoItem
  /\ Fault
  /\ UNCHANGED <<chain, session, disk, queue>>

\* openStock(): the decrypted stock, loaded from disk if this worker has none.
\* Decryption needs the worker's own key.
CanOpen == key \/ stock # NoStock
Opened == IF stock = NoStock THEN disk ELSE stock

\* Another handler of the worker (a signature, an address) calls signingKey(),
\* which restores the session and opens the stock.  Bound: the user does not
\* lock and unlock again while persist() is sealing one snapshot.
WorkerRestore ==
  /\ session /\ ~key
  /\ pc # "persist"
  /\ key' = TRUE
  /\ stock' = Opened
  /\ UNCHANGED <<chain, session, disk, queue, taskVars, faults, drainVars>>

----------------------------------------------------------------------------

\* enqueue(): dedupe on the witness txids.  An item in one of these states is
\* returned untouched, any other is armed again.
Absorbed == {"confirmed", "tentative", "importing"}

Armed(item) ==
  [state |-> "pending", attempts |-> 0,
   seen |-> IF item = NoItem THEN FALSE ELSE item.seen]

Enqueue(id) ==
  /\ CanOpen
  /\ arming[id] = NoItem
  /\ ~In(queue[id], Absorbed)
  /\ arming' = [arming EXCEPT ![id] = Armed(queue[id])]
  /\ stock' = Opened
  /\ UNCHANGED <<chain, session, key, disk, queue, dismissing, faults, drainVars>>

EnqueuePut(id) ==
  /\ arming[id] # NoItem
  /\ queue' = [queue EXCEPT ![id] = arming[id]]
  /\ arming' = [arming EXCEPT ![id] = NoItem]
  /\ UNCHANGED <<chain, session, key, stock, disk, dismissing, faults, drainVars>>

\* The popup offers to dismiss the items it shows as reverted or failed; the
\* worker deletes whatever is stored when the message arrives.
ClickDismiss(id) ==
  /\ In(queue[id], {"reverted", "failed"})
  /\ dismissing' = dismissing \cup {id}
  /\ UNCHANGED <<chain, session, key, stock, disk, queue, arming, faults, drainVars>>

RemoveItem(id) ==
  /\ id \in dismissing
  /\ dismissing' = dismissing \ {id}
  /\ queue' = [queue EXCEPT ![id] = NoItem]
  /\ UNCHANGED <<chain, session, key, stock, disk, arming, faults, drainVars>>

----------------------------------------------------------------------------
\* drain(): single-flight, so it starts only when none is running.

\* Mutants: a confirmed item is looked at again; a failed one is terminal.
SkippedReverted(item) ==
  item.state = "reverted" \/ (item.state = "failed" /\ item.attempts >= MaxAttempts)

SkippedFailed(item) == item.state \in {"confirmed", "reverted", "failed"}

Skipped(item) ==
  \/ item.state \in {"confirmed", "reverted"}
  \/ item.state = "failed" /\ item.attempts >= MaxAttempts

\* canAccessStock() restores the session into a worker without a key, opening
\* the stock; then getQueue() takes the snapshot the loop runs over.
DrainStart ==
  /\ pc = "idle"
  /\ key \/ session
  /\ key' = TRUE
  /\ stock' = IF key THEN stock ELSE Opened
  /\ snap' = [id \in Ids |->
                IF queue[id] = NoItem \/ Skipped(queue[id]) THEN NoItem ELSE queue[id]]
  /\ pc' = "pick"
  /\ UNCHANGED <<chain, session, disk, queue, taskVars, faults, cur, stat, goal, saving, buf>>

DrainEnd ==
  /\ pc = "pick"
  /\ \A id \in Ids : snap[id] = NoItem
  /\ pc' = "idle"
  /\ UNCHANGED <<chain, session, key, stock, disk, queue, taskVars, faults,
                 snap, cur, stat, goal, saving, buf>>

PickItem(id) ==
  /\ pc = "pick"
  /\ snap[id] # NoItem
  /\ cur' = id
  /\ pc' = "fetch"
  /\ UNCHANGED <<chain, session, key, stock, disk, queue, taskVars, faults,
                 snap, stat, goal, saving, buf>>

\* txStatusOrNull for one witness: its answer is what the chain was then.
FetchStatus(t) ==
  /\ pc = "fetch"
  /\ t \in Witnesses[cur]
  /\ stat[t] = "unread"
  /\ stat' = [stat EXCEPT ![t] = chain[t]]
  /\ UNCHANGED <<chain, session, key, stock, disk, queue, taskVars, faults,
                 pc, snap, cur, goal, saving, buf>>

\* A request that fails rejects the Promise.all: drainOnce's catch.
FetchFails ==
  /\ pc = "fetch"
  /\ \E t \in Witnesses[cur] : stat[t] = "unread"
  /\ pc' = "get"
  /\ goal' = "failed"
  /\ Fault
  /\ UNCHANGED <<chain, session, key, stock, disk, queue, taskVars,
                 snap, cur, stat, saving, buf>>

\* Mutants: one mined witness is enough; every witness must be gone.
AnyMined == \E t \in Witnesses[cur] : stat[t] = "mined"
AllAbsent == snap[cur].seen /\ \A t \in Witnesses[cur] : stat[t] = "absent"

AnySeen == \E t \in Witnesses[cur] : stat[t] \in {"mempool", "mined"}
AnyAbsent == \E t \in Witnesses[cur] : stat[t] = "absent"
AllMined == Witnesses[cur] # {} /\ \A t \in Witnesses[cur] : stat[t] = "mined"
SeenNow == snap[cur].seen \/ AnySeen

\* What processItem does with the statuses: the position and goal it goes to.
Dropped == snap[cur].seen /\ AnyAbsent
\* Mutant: a watched item is taken for one that never reached the stock.
NotYetInStock == {"importing"}
InStock == {"tentative", "importing"}

Decision ==
  IF Dropped
    THEN <<IF snap[cur].state \in InStock THEN "stock" ELSE "get", "reverted">>
    ELSE IF snap[cur].state # "tentative"
      THEN <<"get", "importing">>
      ELSE IF AllMined THEN <<"stock", "promoted">> ELSE <<"get", "watched">>

Decide ==
  /\ pc = "fetch"
  /\ \A t \in Witnesses[cur] : stat[t] # "unread"
  /\ pc' = Decision[1]
  /\ goal' = Decision[2]
  /\ UNCHANGED <<chain, session, key, stock, disk, queue, taskVars, faults,
                 snap, cur, stat, saving, buf>>

----------------------------------------------------------------------------
\* The stock operations.  accept_consignment sets the ord of every witness of
\* the consignment; update_witnesses those of the listed, known ones.

\* Mutants: a mempool witness accepted as mined; an overlay that touches every
\* known witness, listed or not.
AcceptOrdSeen(t) == IF stat[t] = "absent" THEN "tentative" ELSE "mined"

OverlayAll(base, listed, ord) ==
  [t \in Txids |-> IF base[t] # "unknown" THEN ord ELSE base[t]]

AcceptOrd(t) == IF stat[t] = "mined" THEN "mined" ELSE "tentative"

Absorb(base) ==
  [t \in Txids |-> IF t \in Witnesses[cur] THEN AcceptOrd(t) ELSE base[t]]

Overlay(base, listed, ord) ==
  [t \in Txids |-> IF t \in listed /\ base[t] # "unknown" THEN ord ELSE base[t]]

Updated(base) ==
  IF goal = "accepted"
    THEN Absorb(base)
    ELSE IF goal = "promoted"
      THEN Overlay(base, Witnesses[cur], "mined")
      ELSE Overlay(base, {t \in Witnesses[cur] : stat[t] = "absent"}, "archived")

\* The stock is opened, changed in memory and snapshot by persist() in one turn.
StockOp ==
  /\ pc = "stock"
  /\ CanOpen
  /\ goal = "accepted" => cur \in Valid
  /\ stock' = Updated(Opened)
  /\ saving' = Updated(Opened)
  /\ pc' = "persist"
  /\ UNCHANGED <<chain, session, key, disk, queue, taskVars, faults,
                 snap, cur, stat, goal, buf>>

\* openStock throws in a locked worker; accept_consignment throws on a
\* consignment that does not validate, leaving the (opened) stock as it was.
StockOpFails ==
  /\ pc = "stock"
  /\ ~CanOpen \/ (goal = "accepted" /\ cur \notin Valid)
  /\ stock' = IF CanOpen THEN Opened ELSE stock
  /\ pc' = "get"
  /\ goal' = "failed"
  /\ UNCHANGED <<chain, session, key, disk, queue, taskVars, faults,
                 snap, cur, stat, saving, buf>>

\* An internal error on the way: in update_witnesses, when the accept before it
\* has changed the stock in memory already, or earlier.
StockOpBreaks ==
  /\ pc = "stock"
  /\ CanOpen
  /\ goal = "accepted" => cur \in Valid
  /\ Fault
  /\ stock' \in {Opened, Updated(Opened)}
  /\ pc' = "get"
  /\ goal' = "failed"
  /\ UNCHANGED <<chain, session, key, disk, queue, taskVars,
                 snap, cur, stat, saving, buf>>

\* Mutant: acceptConsignmentOrds returns without persisting.
PersistForgotten ==
  /\ pc = "persist"
  /\ saving' = NoStock
  /\ pc' = "get"
  /\ UNCHANGED <<chain, session, key, stock, disk, queue, taskVars, faults,
                 snap, cur, stat, goal, buf>>

PersistDone ==
  /\ pc = "persist"
  /\ disk' = saving
  /\ saving' = NoStock
  /\ pc' = "get"
  /\ UNCHANGED <<chain, session, key, stock, queue, taskVars, faults,
                 snap, cur, stat, goal, buf>>

\* kvPutAll's transaction aborts: the change stays in memory only.
PersistFails ==
  /\ pc = "persist"
  /\ saving' = NoStock
  /\ pc' = "get"
  /\ goal' = "failed"
  /\ Fault
  /\ UNCHANGED <<chain, session, key, stock, disk, queue, taskVars,
                 snap, cur, stat, buf>>

----------------------------------------------------------------------------
\* patch(): getItem and putItem are two transactions, other tasks run between.

\* Mutant: every look at an item counts as an attempt.
PatchedCounting(item) ==
  [item EXCEPT
     !.state = CASE goal = "accepted" -> IF AllMined THEN "confirmed" ELSE "tentative"
                 [] goal = "promoted" -> "confirmed"
                 [] goal = "watched" -> @
                 [] OTHER -> goal,
     !.seen = IF goal = "failed" THEN @ ELSE SeenNow,
     !.attempts = snap[cur].attempts + 1]

Patched(item) ==
  [item EXCEPT
     !.state = CASE goal = "accepted" -> IF AllMined THEN "confirmed" ELSE "tentative"
                 [] goal = "promoted" -> "confirmed"
                 [] goal = "watched" -> @
                 [] OTHER -> goal,
     !.seen = IF goal = "failed" THEN @ ELSE SeenNow,
     !.attempts = IF goal \in {"accepted", "failed"} THEN snap[cur].attempts + 1 ELSE @]

\* After the "importing" patch processItem accepts; any other ends the item.
AfterPatch ==
  IF goal = "importing"
    THEN /\ pc' = "stock"
         /\ goal' = "accepted"
         /\ UNCHANGED <<snap, cur, stat>>
    ELSE /\ pc' = "pick"
         /\ goal' = "none"
         /\ snap' = [snap EXCEPT ![cur] = NoItem]
         /\ cur' = NoItem
         /\ stat' = Unread

PatchGet ==
  /\ pc = "get"
  /\ queue[cur] # NoItem
  /\ buf' = Patched(queue[cur])
  /\ pc' = "put"
  /\ UNCHANGED <<chain, session, key, stock, disk, queue, taskVars, faults,
                 snap, cur, stat, goal, saving>>

PatchGone ==
  /\ pc = "get"
  /\ queue[cur] = NoItem
  /\ AfterPatch
  /\ UNCHANGED <<chain, session, key, stock, disk, queue, taskVars, faults, saving, buf>>

PatchPut ==
  /\ pc = "put"
  /\ queue' = [queue EXCEPT ![cur] = buf]
  /\ buf' = NoItem
  /\ AfterPatch
  /\ UNCHANGED <<chain, session, key, stock, disk, taskVars, faults, saving>>

----------------------------------------------------------------------------
Drain ==
  \/ DrainStart \/ DrainEnd
  \/ \E id \in Ids : PickItem(id)
  \/ \E t \in Txids : FetchStatus(t)
  \/ Decide
  \/ StockOp \/ StockOpFails \/ StockOpBreaks
  \/ PersistDone
  \/ PatchGet \/ PatchGone \/ PatchPut

Next ==
  \/ \E t \in Txids : Broadcast(t) \/ Mine(t) \/ Drop(t)
  \/ PopupUnlock \/ PopupLock \/ WorkerLock \/ WorkerRestart \/ WorkerRestore
  \/ \E id \in Ids :
       Enqueue(id) \/ EnqueuePut(id) \/ ClickDismiss(id) \/ RemoveItem(id)
  \/ Drain
  \/ FetchFails \/ PersistFails

Spec == Init /\ [][Next]_vars

\* The alarm wakes the worker every minute, and the browser answers every
\* storage and network request it was given, one way or the other.
FairSpec == Spec /\ WF_vars(Drain) /\ \A id \in Ids : WF_vars(EnqueuePut(id))
----------------------------------------------------------------------------
\* Properties.

Live(base, t) == base[t] \in {"tentative", "mined"}

\* Received RGB is final only when its witness is: an item the queue shows as
\* confirmed has every witness mined in the stock on disk, whatever restarts,
\* failed writes, locks and re-deliveries came between (processItem, persist).
ConfirmedIsMinedOnDisk ==
  \A id \in Ids : In(queue[id], {"confirmed"}) => \A t \in Witnesses[id] : disk[t] = "mined"

\* The queue never runs ahead of the stock: an item that is watched rather than
\* imported is absorbed in the stock on disk, so a worker that dies between the
\* stock's write and the item's leaves work to repeat, never work to lose.
TentativeIsOnDisk ==
  \A id \in Ids : In(queue[id], {"tentative"}) => \A t \in Witnesses[id] : disk[t] # "unknown"

\* No allocation is spendable on an unconfirmed witness: an ord is Mined, in
\* memory, in the snapshot being sealed and on disk, only for a mined witness.
MinedOrdIsMined ==
  \A t \in Txids :
    \A base \in {stock, saving, disk} \ {NoStock} : base[t] = "mined" => chain[t] = "mined"

Reverts(id) == In(queue[id], {"tentative"}) /\ In(queue'[id], {"reverted"})
SomeArchived(id) == \E t \in Witnesses[id] : disk[t] = "archived"

\* "a true revert, not just a UI flag": an item that is being watched becomes
\* reverted only with a witness archived in the stock on disk.
RevertArchives == [][\A id \in Ids : Reverts(id) => SomeArchived(id)]_vars

\* What has ended stays ended: no drain, with whatever snapshot or half-done patch,
\* takes an item out of confirmed or reverted; only an enqueue or a dismissal in
\* flight does (drainOnce's skip, patch).
Ended == {"confirmed", "reverted"}
EndedIsFinal ==
  [][\A id \in Ids : In(queue[id], Ended) /\ queue'[id] # queue[id] =>
       arming[id] # NoItem \/ id \in dismissing]_vars

\* The persisted stock, step by step, is a witness ledger.
Ledger == INSTANCE WitnessLedger WITH ord <- disk
LedgerSpec == Ledger!LedgerSpec

\* The same said of every item the queue reports as reverted: some witness of
\* it no longer counts.  The code does not keep this.
RevertedIsNotHeld ==
  \A id \in Ids : In(queue[id], {"reverted"}) => \E t \in Witnesses[id] : ~Live(disk, t)

\* Retries are spent on faults only: whatever is re-delivered, watched or reverted,
\* a valid consignment fails once at most for each fault, and is accepted once at
\* most before, between and after them.  So it is given up (failed, with no attempt
\* left) only after faults for half of the budget (patch, drainOnce, MAX_ATTEMPTS).
Earned(item) == 2 * faults + IF item.state \in {"pending", "importing", "failed"} THEN 0 ELSE 1
RetriesAreForFaults ==
  \A id \in Valid : queue[id] # NoItem => queue[id].attempts <= Earned(queue[id])

\* With fewer faults than the retry budget and a wallet that is unlocked from
\* some point on, a valid consignment whose witnesses mine ends up confirmed,
\* unless it was reverted or the user dismissed it (drainOnce, MAX_ATTEMPTS).
MinedIsConfirmed ==
  <>[]session =>
    \A id \in Valid :
      (queue[id] # NoItem /\ \A t \in Witnesses[id] : chain[t] = "mined")
        ~> (queue[id] = NoItem \/ In(queue[id], {"confirmed", "reverted"}))

\* On the same terms, an item seen in the mempool with a witness that is gone
\* for good does not stay tentative for ever.
DroppedIsNoticed ==
  <>[]session =>
    \A id \in Ids : \A t \in Witnesses[id] :
      ~<>[](In(queue[id], {"tentative"}) /\ queue[id].seen /\ chain[t] = "absent")
=============================================================================
