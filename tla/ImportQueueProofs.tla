------------------------- MODULE ImportQueueProofs -------------------------
(***************************************************************************)
(* Theorems about the import queue, for every set of items, witnesses and  *)
(* every retry budget.                                                     *)
(***************************************************************************)
EXTENDS ImportQueue, TLAPS

----------------------------------------------------------------------------
\* The inductive strengthening of TypeOK.  An attempt is counted from the
\* snapshot, so the retry budget holds only because a snapshot never lags the
\* stored item, and because a skipped item is not in it.

\* What an item of each state has left of its retries.
Budget(item) ==
  /\ item.state \in {"pending", "importing"} => item.attempts < MaxAttempts
  /\ item.state # "failed" => item.attempts <= MaxAttempts

Busy == {"fetch", "stock", "persist", "get", "put"}

QueueBudget == \A id \in Ids : queue[id] # NoItem => Budget(queue[id])

ArmingFresh ==
  \A id \in Ids : arming[id] # NoItem =>
    arming[id].state = "pending" /\ arming[id].attempts = 0

SnapBudget ==
  \A id \in Ids : snap[id] # NoItem =>
    /\ Budget(snap[id])
    /\ ~Skipped(snap[id])
    /\ queue[id] # NoItem => queue[id].attempts <= snap[id].attempts

DrainShape ==
  /\ pc \in Busy => cur \in Ids /\ snap[cur] # NoItem
  /\ pc \in {"stock", "persist"} => goal \in {"accepted", "promoted", "reverted"}
  /\ pc \in {"persist", "get", "put"} => goal # "none"
  /\ pc \in {"stock", "persist", "get", "put"} /\ goal \in {"importing", "accepted"}
       => snap[cur].state # "tentative"
  /\ pc = "persist" => saving # NoStock
  /\ pc = "put" =>
       /\ buf # NoItem
       /\ Budget(buf)
       /\ goal = "importing" => buf.attempts <= snap[cur].attempts

TypeInv == TypeOK /\ QueueBudget /\ ArmingFresh /\ SnapBudget /\ DrainShape

----------------------------------------------------------------------------
\* patch() keeps an item an item: an attempt is counted on top of a snapshot
\* that had one left, and every other field comes from the stored item.
LEMMA PatchedItem ==
  ASSUME TypeInv, pc = "get", queue[cur] # NoItem
  PROVE  /\ Patched(queue[cur]) \in Items
         /\ Budget(Patched(queue[cur]))
         /\ goal = "importing" => Patched(queue[cur]).attempts <= snap[cur].attempts
<1> DEFINE old == queue[cur]
           new == Patched(queue[cur])
           state == CASE goal = "accepted" -> IF AllMined THEN "confirmed" ELSE "tentative"
                      [] goal = "promoted" -> "confirmed"
                      [] goal = "watched" -> old.state
                      [] OTHER -> goal
           seen == IF goal = "failed" THEN old.seen ELSE SeenNow
           attempts == IF goal \in {"accepted", "failed"} THEN snap[cur].attempts + 1
                                                          ELSE old.attempts
<1>1. /\ cur \in Ids
      /\ snap[cur] \in Items
      /\ Budget(snap[cur])
      /\ ~Skipped(snap[cur])
      /\ old.attempts <= snap[cur].attempts
  BY DEF TypeInv, TypeOK, DrainShape, SnapBudget, Busy
<1>2. old \in Items /\ Budget(old)
  BY <1>1 DEF TypeInv, TypeOK, QueueBudget
<1>3. goal \in Goals \ {"none"}
  BY DEF TypeInv, TypeOK, DrainShape
<1>4. goal \in {"importing", "accepted"} => snap[cur].state # "tentative"
  BY DEF TypeInv, DrainShape
<1>5. snap[cur].attempts \in 0 .. MaxAttempts /\ MaxAttempts \in Nat
  BY <1>1, QueueAssumption DEF Items, States, Budget, Skipped
<1>6. new = [state |-> state, seen |-> seen, attempts |-> attempts]
  <2>1. new = [old EXCEPT !.state = state, !.seen = seen, !.attempts = attempts]
    BY DEF Patched
  <2> HIDE DEF old, new, state, seen, attempts
  <2> QED
    BY <1>2, <2>1 DEF Items
<1>7. state \in States
  BY <1>2, <1>3 DEF Goals, States, Items
<1>8. seen \in BOOLEAN
  BY <1>1, <1>2 DEF Items, SeenNow, AnySeen
<1>9. attempts \in 0 .. MaxAttempts + 1
  BY <1>2, <1>5 DEF Items
<1>10. new \in Items
  BY <1>6, <1>7, <1>8, <1>9 DEF Items
<1>11. state \in {"pending", "importing"} => attempts < MaxAttempts
  <2>1. CASE goal = "importing"
    BY <2>1, <1>1, <1>2, <1>4, <1>5 DEF Items, States, Budget, Skipped
  <2>2. CASE goal = "watched"
    BY <2>2, <1>2, <1>5 DEF Items, States, Budget
  <2>3. CASE goal \in {"accepted", "promoted", "reverted", "failed"}
    BY <2>3
  <2> QED
    BY <2>1, <2>2, <2>3, <1>3 DEF Goals
<1>12. state # "failed" => attempts <= MaxAttempts
  <2>1. CASE goal = "accepted"
    BY <2>1, <1>1, <1>4, <1>5 DEF Items, States, Budget, Skipped
  <2>2. CASE goal \in {"importing", "promoted", "watched", "reverted"}
    BY <2>2, <1>1, <1>2, <1>5 DEF Items, States
  <2>3. CASE goal = "failed"
    BY <2>3
  <2> QED
    BY <2>1, <2>2, <2>3, <1>3 DEF Goals
<1>13. Budget(new)
  BY <1>6, <1>11, <1>12 DEF Budget
<1>14. goal = "importing" => new.attempts <= snap[cur].attempts
  BY <1>1, <1>6
<1> QED
  BY <1>10, <1>13, <1>14

\* Every value the stock takes is a stock.
LEMMA UpdatedStock ==
  ASSUME NEW base \in Stocks
  PROVE  Updated(base) \in Stocks
<1>1. Absorb(base) \in Stocks
  BY DEF Stocks, Ords, Absorb, AcceptOrd
<1>2. ASSUME NEW listed, NEW ord \in Ords
      PROVE  Overlay(base, listed, ord) \in Stocks
  BY <1>2 DEF Stocks, Overlay
<1>3. "mined" \in Ords /\ "archived" \in Ords
  BY DEF Ords
<1> QED
  BY <1>1, <1>2, <1>3 DEF Updated

LEMMA OpenedStock ==
  ASSUME TypeOK
  PROVE  Opened \in Stocks
BY DEF TypeOK, Opened

\* The wallet starts with nothing queued and no drain running.
LEMMA InitTypeInv ==
  ASSUME Init
  PROVE  TypeInv
<1>1. TypeOK
  BY DEF Init, TypeOK, Chain, Stocks, Ords, Positions, Goals, Unread
<1>2. QueueBudget /\ ArmingFresh /\ SnapBudget /\ DrainShape
  BY DEF Init, QueueBudget, ArmingFresh, SnapBudget, DrainShape, Busy
<1> QED
  BY <1>1, <1>2 DEF TypeInv
\* A step that leaves the items, the snapshot and the drain's place alone only
\* has to keep the types.
LEMMA FrameTypeInv ==
  ASSUME TypeInv, TypeOK',
         UNCHANGED <<queue, arming, snap, pc, cur, goal, saving, buf>>
  PROVE  TypeInv'
BY DEF TypeInv, QueueBudget, ArmingFresh, SnapBudget, DrainShape, Budget, Skipped, Busy

\* A write of item `item` to the queue: the snapshot may not fall behind it.
LEMMA PutTypeInv ==
  ASSUME TypeInv, NEW id \in Ids, NEW item \in Items,
         Budget(item),
         queue' = [queue EXCEPT ![id] = item],
         snap[id] # NoItem => item.attempts <= snap[id].attempts
                              \/ snap'[id] = NoItem,
         \A i \in Ids : snap'[i] \in {snap[i], NoItem}
  PROVE  QueueBudget' /\ SnapBudget' /\ queue' \in [Ids -> Items \cup {NoItem}]
<1>1. queue \in [Ids -> Items \cup {NoItem}]
  BY DEF TypeInv, TypeOK
<1>2. queue' \in [Ids -> Items \cup {NoItem}]
  BY <1>1
<1>3. QueueBudget'
  BY <1>1 DEF TypeInv, QueueBudget, Budget
<1>4. SnapBudget'
  <2> SUFFICES ASSUME NEW i \in Ids, snap'[i] # NoItem
               PROVE  /\ Budget(snap'[i])
                      /\ ~Skipped(snap'[i])
                      /\ queue'[i] # NoItem => queue'[i].attempts <= snap'[i].attempts
    BY DEF SnapBudget, Budget, Skipped
  <2>1. snap'[i] = snap[i]
    OBVIOUS
  <2>2. Budget(snap[i]) /\ ~Skipped(snap[i])
    BY <2>1 DEF TypeInv, SnapBudget
  <2>3. queue'[i] # NoItem => queue'[i].attempts <= snap[i].attempts
    BY <1>1, <2>1 DEF TypeInv, SnapBudget
  <2> QED
    BY <2>1, <2>2, <2>3
<1> QED
  BY <1>2, <1>3, <1>4

\* patch() leaves the drain either on the same item, about to accept it, or
\* without an item.
LEMMA AfterPatchShape ==
  ASSUME TypeInv, AfterPatch, pc \in {"get", "put"}
  PROVE  /\ pc' \in Positions /\ goal' \in Goals
         /\ snap' \in [Ids -> Items \cup {NoItem}]
         /\ cur' \in Ids \cup {NoItem}
         /\ stat' \in [Txids -> Chain \cup {"unread"}]
         /\ \A i \in Ids : snap'[i] \in {snap[i], NoItem}
         /\ goal # "importing" => snap'[cur] = NoItem
         /\ DrainShape'
<1>1. cur \in Ids /\ snap[cur] # NoItem /\ snap \in [Ids -> Items \cup {NoItem}]
  BY DEF TypeInv, TypeOK, DrainShape, Busy
<1>2. CASE goal = "importing"
  <2>1. pc' = "stock" /\ goal' = "accepted" /\ UNCHANGED <<snap, cur, stat>>
    BY <1>2 DEF AfterPatch
  <2> QED
    BY <1>1, <1>2, <2>1 DEF TypeInv, TypeOK, DrainShape, Busy, Positions, Goals
<1>3. CASE goal # "importing"
  <2>1. /\ pc' = "pick" /\ goal' = "none" /\ cur' = NoItem /\ stat' = Unread
        /\ snap' = [snap EXCEPT ![cur] = NoItem]
    BY <1>3 DEF AfterPatch
  <2> QED
    BY <1>1, <1>3, <2>1
    DEF TypeInv, TypeOK, DrainShape, Busy, Positions, Goals, Unread
<1> QED
  BY <1>2, <1>3

\* Every step keeps the types and the retry budget.
LEMMA NextTypeInv ==
  ASSUME TypeInv, [Next]_vars
  PROVE  TypeInv'
<1> USE DEF TypeInv
<1> USE QueueAssumption, SentinelAssumption
<1>1. ASSUME NEW t \in Txids, Broadcast(t) \/ Mine(t) \/ Drop(t)
      PROVE  TypeInv'
  <2>1. TypeOK'
    BY <1>1 DEF TypeOK, Broadcast, Mine, Drop, Chain, drainVars, taskVars
  <2> QED
    BY <1>1, <2>1, FrameTypeInv DEF Broadcast, Mine, Drop, drainVars, taskVars
<1>2. CASE PopupUnlock \/ PopupLock \/ WorkerLock
  <2>1. /\ session' \in BOOLEAN /\ key' \in BOOLEAN
        /\ stock' \in Stocks \cup {NoStock}
        /\ faults' \in Nat
    <3>1. session' \in BOOLEAN /\ key' \in {key, FALSE}
      BY <1>2 DEF PopupUnlock, PopupLock, WorkerLock
    <3>2. stock' \in {stock, NoStock}
      BY <1>2 DEF PopupUnlock, PopupLock, WorkerLock
    <3>3. faults' \in {faults, faults + 1}
      BY <1>2 DEF PopupUnlock, PopupLock, WorkerLock, Fault
    <3>4. key' \in BOOLEAN
      BY <3>1, Zenon DEF TypeOK
    <3>5. stock' \in Stocks \cup {NoStock} /\ faults' \in Nat
      BY <3>2, <3>3 DEF TypeOK
    <3> QED
      BY <3>1, <3>4, <3>5
  <2>2. UNCHANGED <<chain, disk, queue, arming, dismissing, drainVars>>
    BY <1>2 DEF PopupUnlock, PopupLock, WorkerLock, taskVars
  <2>3. TypeOK'
    BY <2>1, <2>2 DEF TypeOK, drainVars
  <2> QED
    BY <2>2, <2>3, FrameTypeInv DEF drainVars
<1>3. CASE WorkerRestart
  <2>1. faults' \in Nat
    BY <1>3 DEF TypeOK, WorkerRestart, Fault
  <2>2. stat' \in [Txids -> Chain \cup {"unread"}]
    BY <1>3 DEF WorkerRestart, Unread
  <2>3. TypeOK'
    BY <1>3, <2>1, <2>2 DEF TypeOK, WorkerRestart, Positions, Goals
  <2> QED
    BY <1>3, <2>3
    DEF WorkerRestart, QueueBudget, Budget, ArmingFresh, SnapBudget, DrainShape, Busy
<1>4. ASSUME NEW id \in Ids, Enqueue(id)
      PROVE  TypeInv'
  <2>1. Armed(queue[id]) \in Items
    <3>1. queue[id] # NoItem => queue[id].seen \in BOOLEAN
      BY DEF TypeOK, Items
    <3>2. Armed(queue[id]).seen \in BOOLEAN
      BY <3>1 DEF Armed
    <3>3. Armed(queue[id]).seen \in BOOLEAN =>
            [state |-> "pending", attempts |-> 0, seen |-> Armed(queue[id]).seen] \in Items
      BY DEF Items, States
    <3> QED
      BY <3>2, <3>3 DEF Armed
  <2>2. TypeOK'
    BY <1>4, <2>1, OpenedStock DEF TypeOK, Enqueue, drainVars
  <2>3. ArmingFresh'
    BY <1>4 DEF TypeOK, Enqueue, ArmingFresh, Armed
  <2>4. QueueBudget' /\ SnapBudget' /\ DrainShape'
    BY <1>4 DEF Enqueue, drainVars, QueueBudget, SnapBudget, DrainShape, Budget, Skipped, Busy
  <2> QED
    BY <2>2, <2>3, <2>4
<1>5. ASSUME NEW id \in Ids, EnqueuePut(id)
      PROVE  TypeInv'
  <2>1. /\ arming[id] \in Items
        /\ arming[id].state = "pending"
        /\ arming[id].attempts = 0
    BY <1>5 DEF TypeOK, EnqueuePut, ArmingFresh
  <2>2. Budget(arming[id])
    BY <2>1 DEF Budget
  <2>3. snap[id] # NoItem => arming[id].attempts <= snap[id].attempts
    BY <2>1 DEF TypeOK, Items
  <2>4. QueueBudget' /\ SnapBudget' /\ queue' \in [Ids -> Items \cup {NoItem}]
    BY <1>5, <2>1, <2>2, <2>3, PutTypeInv DEF EnqueuePut, drainVars
  <2>5. TypeOK'
    BY <1>5, <2>4 DEF TypeOK, EnqueuePut, drainVars
  <2>6. ArmingFresh' /\ DrainShape'
    BY <1>5 DEF TypeOK, EnqueuePut, ArmingFresh, DrainShape, Budget, Busy, drainVars
  <2> QED
    BY <2>4, <2>5, <2>6
<1>6. ASSUME NEW id \in Ids, ClickDismiss(id)
      PROVE  TypeInv'
  <2>1. TypeOK'
    BY <1>6 DEF TypeOK, ClickDismiss, drainVars
  <2> QED
    BY <1>6, <2>1, FrameTypeInv DEF ClickDismiss, drainVars
<1>7. ASSUME NEW id \in Ids, RemoveItem(id)
      PROVE  TypeInv'
  <2>1. TypeOK'
    BY <1>7 DEF TypeOK, RemoveItem, drainVars
  <2>2. QueueBudget' /\ SnapBudget'
    BY <1>7 DEF TypeOK, RemoveItem, drainVars, QueueBudget, SnapBudget, Budget, Skipped
  <2>3. ArmingFresh' /\ DrainShape'
    BY <1>7 DEF RemoveItem, ArmingFresh, DrainShape, Budget, Busy, drainVars
  <2> QED
    BY <2>1, <2>2, <2>3
<1>8. CASE DrainStart
  <2>1. snap' \in [Ids -> Items \cup {NoItem}]
    BY <1>8 DEF TypeOK, DrainStart
  <2>2. TypeOK'
    BY <1>8, <2>1, OpenedStock DEF TypeOK, DrainStart, Positions, taskVars
  <2>3. SnapBudget'
    BY <1>8 DEF TypeOK, DrainStart, QueueBudget, SnapBudget, Budget, Skipped, Items
  <2>4. QueueBudget' /\ ArmingFresh' /\ DrainShape'
    BY <1>8 DEF DrainStart, QueueBudget, ArmingFresh, DrainShape, Budget, Busy, taskVars
  <2> QED
    BY <2>2, <2>3, <2>4
<1>9. CASE DrainEnd
  <2>1. TypeOK'
    BY <1>9 DEF TypeOK, DrainEnd, Positions, taskVars
  <2> QED
    BY <1>9, <2>1
    DEF DrainEnd, QueueBudget, ArmingFresh, SnapBudget, DrainShape, Budget, Skipped, Busy, taskVars
<1>10. ASSUME NEW id \in Ids, PickItem(id)
       PROVE  TypeInv'
  <2>1. TypeOK'
    BY <1>10 DEF TypeOK, PickItem, Positions, taskVars
  <2> QED
    BY <1>10, <2>1
    DEF PickItem, QueueBudget, ArmingFresh, SnapBudget, DrainShape, Budget, Skipped, Busy, taskVars
<1>11. ASSUME NEW t \in Txids, FetchStatus(t)
       PROVE  TypeInv'
  <2>1. TypeOK'
    BY <1>11 DEF TypeOK, FetchStatus, taskVars
  <2> QED
    BY <1>11, <2>1, FrameTypeInv DEF FetchStatus, taskVars
<1>12. CASE FetchFails
  <2>1. TypeOK'
    BY <1>12 DEF TypeOK, FetchFails, Fault, Positions, Goals, taskVars
  <2> QED
    BY <1>12, <2>1
    DEF FetchFails, QueueBudget, ArmingFresh, SnapBudget, DrainShape, Budget, Skipped, Busy, taskVars
<1>13. CASE Decide
  <2>1. \/ pc' = "stock" /\ goal' \in {"reverted", "promoted"}
        \/ pc' = "get" /\ goal' \in {"reverted", "watched"}
        \/ pc' = "get" /\ goal' = "importing" /\ snap[cur].state # "tentative"
    BY <1>13 DEF Decide, Decision
  <2>2. TypeOK'
    BY <1>13, <2>1 DEF TypeOK, Decide, Positions, Goals, taskVars
  <2>3. DrainShape'
    BY <1>13, <2>1 DEF Decide, DrainShape, Busy, taskVars
  <2> QED
    BY <1>13, <2>2, <2>3
    DEF Decide, QueueBudget, ArmingFresh, SnapBudget, Budget, Skipped, taskVars
<1>14. CASE StockOp
  <2>1. Updated(Opened) \in Stocks
    BY OpenedStock, UpdatedStock
  <2>2. TypeOK'
    BY <1>14, <2>1 DEF TypeOK, StockOp, Positions, taskVars
  <2>3. DrainShape'
    BY <1>14, <2>1 DEF StockOp, DrainShape, Busy, taskVars
  <2> QED
    BY <1>14, <2>2, <2>3
    DEF StockOp, QueueBudget, ArmingFresh, SnapBudget, Budget, Skipped, taskVars
<1>15. CASE StockOpFails
  <2>1. TypeOK'
    BY <1>15, OpenedStock DEF TypeOK, StockOpFails, Positions, Goals, taskVars
  <2> QED
    BY <1>15, <2>1
    DEF StockOpFails, QueueBudget, ArmingFresh, SnapBudget, DrainShape, Budget, Skipped, Busy, taskVars
<1>23. CASE StockOpBreaks
  <2>1. Updated(Opened) \in Stocks
    BY OpenedStock, UpdatedStock
  <2>2. TypeOK'
    BY <1>23, <2>1, OpenedStock DEF TypeOK, StockOpBreaks, Fault, Positions, Goals, taskVars
  <2> QED
    BY <1>23, <2>2
    DEF StockOpBreaks, QueueBudget, ArmingFresh, SnapBudget, DrainShape, Budget, Skipped, Busy, taskVars
<1>16. CASE PersistDone
  <2>1. TypeOK'
    BY <1>16 DEF TypeOK, PersistDone, DrainShape, Positions, taskVars
  <2> QED
    BY <1>16, <2>1
    DEF PersistDone, QueueBudget, ArmingFresh, SnapBudget, DrainShape, Budget, Skipped, Busy, taskVars
<1>17. CASE PersistFails
  <2>1. TypeOK'
    BY <1>17 DEF TypeOK, PersistFails, Fault, Positions, Goals, taskVars
  <2> QED
    BY <1>17, <2>1
    DEF PersistFails, QueueBudget, ArmingFresh, SnapBudget, DrainShape, Budget, Skipped, Busy, taskVars
<1>18. CASE PatchGet
  <2>1. /\ buf' \in Items
        /\ Budget(buf')
        /\ goal = "importing" => buf'.attempts <= snap[cur].attempts
    BY <1>18, PatchedItem DEF PatchGet
  <2>2. TypeOK'
    BY <1>18, <2>1 DEF TypeOK, PatchGet, Positions, taskVars
  <2>3. DrainShape'
    BY <1>18, <2>1 DEF PatchGet, DrainShape, Busy, taskVars
  <2> QED
    BY <1>18, <2>2, <2>3
    DEF PatchGet, QueueBudget, ArmingFresh, SnapBudget, Budget, Skipped, taskVars
<1>19. CASE PatchGone
  <2>1. AfterPatch /\ pc = "get"
    BY <1>19 DEF PatchGone
  <2>2. TypeOK'
    BY <1>19, <2>1, AfterPatchShape DEF TypeOK, PatchGone, taskVars
  <2>3. SnapBudget'
    BY <1>19, <2>1, AfterPatchShape DEF PatchGone, SnapBudget, Budget, Skipped
  <2> QED
    BY <1>19, <2>1, <2>2, <2>3, AfterPatchShape
    DEF PatchGone, QueueBudget, ArmingFresh, Budget, taskVars
<1>20. CASE PatchPut
  <2>1. AfterPatch /\ pc = "put"
    BY <1>20 DEF PatchPut
  <2>2. /\ cur \in Ids
        /\ buf \in Items
        /\ Budget(buf)
        /\ goal = "importing" => buf.attempts <= snap[cur].attempts
    BY <2>1 DEF TypeOK, DrainShape, Busy
  <2>3. QueueBudget' /\ SnapBudget' /\ queue' \in [Ids -> Items \cup {NoItem}]
    BY <1>20, <2>1, <2>2, AfterPatchShape, PutTypeInv DEF PatchPut
  <2>4. TypeOK'
    BY <1>20, <2>1, <2>3, AfterPatchShape DEF TypeOK, PatchPut, taskVars
  <2> QED
    BY <1>20, <2>1, <2>3, <2>4, AfterPatchShape DEF PatchPut, ArmingFresh, taskVars
<1>21. CASE WorkerRestore
  <2>1. TypeOK'
    BY <1>21, OpenedStock DEF TypeOK, WorkerRestore, drainVars, taskVars
  <2> QED
    BY <1>21, <2>1, FrameTypeInv DEF WorkerRestore, drainVars, taskVars
<1>22. CASE UNCHANGED vars
  <2>1. TypeOK'
    BY <1>22 DEF vars, TypeOK, drainVars, taskVars
  <2> QED
    BY <1>22, <2>1, FrameTypeInv DEF vars, drainVars, taskVars
<1> QED
  BY <1>1, <1>2, <1>3, <1>4, <1>5, <1>6, <1>7, <1>8, <1>9, <1>10, <1>11, <1>12,
     <1>13, <1>14, <1>15, <1>16, <1>17, <1>18, <1>19, <1>20, <1>21, <1>22, <1>23
  DEF Next, Drain

\* Every state of the import queue and of the stock it writes is well typed; in
\* particular no item is ever retried past MAX_ATTEMPTS (drainOnce).
THEOREM TypeCorrect == Spec => []TypeOK
<1>1. Init => TypeInv
  BY InitTypeInv
<1>2. TypeInv /\ [Next]_vars => TypeInv'
  BY NextTypeInv
<1>3. TypeInv => TypeOK
  BY DEF TypeInv
<1> QED
  BY <1>1, <1>2, <1>3, PTL DEF Spec
----------------------------------------------------------------------------
\* The inductive strengthening of MinedOrdIsMined: a fetched status is never
\* ahead of the chain, and a promotion is decided on mined witnesses only.
StatusIsPast == \A t \in Txids : stat[t] = "mined" => chain[t] = "mined"
PromotesMined == pc \in {"stock", "persist"} /\ goal = "promoted" => AllMined

MinedInv == MinedOrdIsMined /\ StatusIsPast /\ PromotesMined

\* A copy of the stock counts as mined only witnesses that are.
Honest(base) == \A t \in Txids : base[t] = "mined" => chain[t] = "mined"

LEMMA HonestBases == MinedOrdIsMined <=> \A base \in {stock, saving, disk} \ {NoStock} : Honest(base)
BY DEF MinedOrdIsMined, Honest

LEMMA HonestOpened ==
  ASSUME TypeOK, MinedOrdIsMined
  PROVE  Honest(Opened)
<1>1. disk # NoStock
  BY SentinelAssumption DEF TypeOK
<1> QED
  BY <1>1 DEF MinedOrdIsMined, Honest, Opened

\* No stock operation makes a witness mined that its status, and so the chain,
\* does not.
LEMMA UpdatedHonest ==
  ASSUME TypeInv, MinedInv, pc = "stock", NEW base \in Stocks, Honest(base)
  PROVE  Honest(Updated(base))
<1> SUFFICES ASSUME NEW t \in Txids, Updated(base)[t] = "mined"
             PROVE  chain[t] = "mined"
  BY DEF Honest
<1>1. base[t] = "mined" => chain[t] = "mined"
  BY DEF Honest
<1>2. stat[t] = "mined" => chain[t] = "mined"
  BY DEF MinedInv, StatusIsPast
<1>3. CASE goal = "accepted"
  BY <1>1, <1>2, <1>3 DEF Updated, Absorb, AcceptOrd
<1>4. CASE goal = "promoted"
  BY <1>1, <1>2, <1>4 DEF Updated, Overlay, MinedInv, PromotesMined, AllMined
<1>5. CASE goal \notin {"accepted", "promoted"}
  BY <1>1, <1>5 DEF Updated, Overlay
<1> QED
  BY <1>3, <1>4, <1>5

\* A step that fetches nothing and keeps, among the copies of the stock, only
\* ones there were before.
LEMMA FrameMined ==
  ASSUME MinedInv,
         \A t \in Txids : chain[t] = "mined" => chain'[t] = "mined",
         stock' \in {stock, saving, disk, NoStock},
         saving' \in {stock, saving, disk, NoStock},
         disk' \in {stock, saving, disk},
         stat' \in {stat, Unread}
  PROVE  MinedOrdIsMined' /\ StatusIsPast'
<1>1. MinedOrdIsMined'
  BY DEF MinedInv, MinedOrdIsMined
<1>2. StatusIsPast'
  BY DEF MinedInv, StatusIsPast, Unread
<1> QED
  BY <1>1, <1>2

\* Every step keeps mined ords honest.
LEMMA NextMinedInv ==
  ASSUME TypeInv, MinedInv, [Next]_vars
  PROVE  MinedInv'
<1>1. ASSUME NEW t \in Txids, Broadcast(t) \/ Mine(t) \/ Drop(t)
      PROVE  MinedInv'
  <2>1. \A u \in Txids : chain[u] = "mined" => chain'[u] = "mined"
    BY <1>1 DEF Broadcast, Mine, Drop, TypeInv, TypeOK
  <2>2. UNCHANGED <<stock, saving, disk, stat, pc, goal, cur>>
    BY <1>1 DEF Broadcast, Mine, Drop, drainVars
  <2>3. PromotesMined'
    BY <2>2 DEF MinedInv, PromotesMined, AllMined
  <2> QED
    BY <2>1, <2>2, <2>3, FrameMined DEF MinedInv
<1>2. CASE PopupUnlock \/ PopupLock \/ WorkerLock \/ WorkerRestore
  <2>1. /\ UNCHANGED <<chain, saving, disk, stat, pc, goal, cur>>
        /\ stock' \in {stock, disk, NoStock}
    BY <1>2 DEF PopupUnlock, PopupLock, WorkerLock, WorkerRestore, Opened, drainVars
  <2>2. PromotesMined'
    BY <2>1 DEF MinedInv, PromotesMined, AllMined
  <2> QED
    BY <2>1, <2>2, FrameMined DEF MinedInv
<1>3. CASE WorkerRestart
  BY <1>3, FrameMined DEF WorkerRestart, MinedInv, PromotesMined
<1>4. ASSUME NEW id \in Ids,
             Enqueue(id) \/ EnqueuePut(id) \/ ClickDismiss(id) \/ RemoveItem(id)
      PROVE  MinedInv'
  <2>1. /\ UNCHANGED <<chain, saving, disk, stat, pc, goal, cur>>
        /\ stock' \in {stock, disk}
    BY <1>4 DEF Enqueue, EnqueuePut, ClickDismiss, RemoveItem, drainVars, Opened
  <2>2. PromotesMined'
    BY <2>1 DEF MinedInv, PromotesMined, AllMined
  <2> QED
    BY <2>1, <2>2, FrameMined DEF MinedInv
<1>5. CASE DrainStart \/ DrainEnd \/ \E id \in Ids : PickItem(id)
  <2>1. /\ UNCHANGED <<chain, saving, disk, stat>>
        /\ stock' \in {stock, disk}
        /\ pc' \in {"idle", "pick", "fetch"}
    BY <1>5 DEF DrainStart, DrainEnd, PickItem, Opened
  <2>2. PromotesMined'
    BY <2>1 DEF PromotesMined
  <2> QED
    BY <2>1, <2>2, FrameMined DEF MinedInv
<1>6. ASSUME NEW t \in Txids, FetchStatus(t)
      PROVE  MinedInv'
  <2>1. /\ UNCHANGED <<chain, stock, saving, disk, pc>>
        /\ pc = "fetch"
        /\ stat' = [stat EXCEPT ![t] = chain[t]]
    BY <1>6 DEF FetchStatus
  <2>2. StatusIsPast'
    BY <2>1 DEF TypeInv, TypeOK, MinedInv, StatusIsPast
  <2> QED
    BY <2>1, <2>2 DEF MinedInv, MinedOrdIsMined, PromotesMined
<1>7. CASE FetchFails \/ StockOpFails \/ PersistFails
  <2>1. /\ UNCHANGED <<chain, disk, stat>>
        /\ stock' \in {stock, disk}
        /\ saving' \in {saving, NoStock}
        /\ pc' = "get"
    BY <1>7 DEF FetchFails, StockOpFails, PersistFails, Opened
  <2>2. PromotesMined'
    BY <2>1 DEF PromotesMined
  <2> QED
    BY <2>1, <2>2, FrameMined DEF MinedInv
<1>8. CASE Decide
  <2>1. UNCHANGED <<chain, stock, saving, disk, stat, cur>>
    BY <1>8 DEF Decide
  <2>2. goal' = "promoted" => AllMined
    BY <1>8 DEF Decide, Decision
  <2>3. PromotesMined'
    BY <2>1, <2>2 DEF PromotesMined, AllMined
  <2> QED
    BY <2>1, <2>3, FrameMined DEF MinedInv
<1>9. CASE StockOp
  <2>1. /\ UNCHANGED <<chain, disk, stat, goal, cur>>
        /\ stock' = Updated(Opened)
        /\ saving' = Updated(Opened)
        /\ pc = "stock"
    BY <1>9 DEF StockOp
  <2>2. Honest(Updated(Opened))
    BY <2>1, OpenedStock, HonestOpened, UpdatedHonest DEF TypeInv, MinedInv
  <2>3. MinedOrdIsMined'
    BY <2>1, <2>2 DEF MinedInv, MinedOrdIsMined, Honest
  <2>4. StatusIsPast'
    BY <2>1 DEF MinedInv, StatusIsPast
  <2>5. PromotesMined'
    BY <2>1 DEF MinedInv, PromotesMined, AllMined
  <2> QED
    BY <2>3, <2>4, <2>5 DEF MinedInv
<1>13. CASE StockOpBreaks
  <2>1. /\ UNCHANGED <<chain, saving, disk, stat, cur>>
        /\ stock' = Opened \/ stock' = Updated(Opened)
        /\ pc = "stock" /\ pc' = "get"
    BY <1>13 DEF StockOpBreaks
  <2>2. Honest(Opened) /\ Honest(Updated(Opened))
    BY <2>1, OpenedStock, HonestOpened, UpdatedHonest DEF TypeInv, MinedInv
  <2>3. MinedOrdIsMined'
    BY <2>1, <2>2 DEF MinedInv, MinedOrdIsMined, Honest
  <2>4. StatusIsPast'
    BY <2>1 DEF MinedInv, StatusIsPast
  <2>5. PromotesMined'
    BY <2>1 DEF PromotesMined
  <2> QED
    BY <2>3, <2>4, <2>5 DEF MinedInv
<1>10. CASE PersistDone
  BY <1>10, FrameMined DEF PersistDone, MinedInv, PromotesMined
<1>11. CASE PatchGet \/ PatchGone \/ PatchPut
  <2>1. /\ UNCHANGED <<chain, stock, saving, disk>>
        /\ stat' \in {stat, Unread}
        /\ pc' \in {"stock", "put", "pick"}
        /\ pc' = "stock" => goal' = "accepted"
    BY <1>11 DEF PatchGet, PatchGone, PatchPut, AfterPatch
  <2>2. PromotesMined'
    BY <2>1 DEF PromotesMined
  <2> QED
    BY <2>1, <2>2, FrameMined DEF MinedInv
<1>12. CASE UNCHANGED vars
  BY <1>12 DEF vars, drainVars, MinedInv, MinedOrdIsMined, StatusIsPast, PromotesMined, AllMined
<1> QED
  BY <1>1, <1>2, <1>3, <1>4, <1>5, <1>6, <1>7, <1>8, <1>9, <1>10, <1>11, <1>12, <1>13
  DEF Next, Drain

LEMMA TypeInvHolds == Spec => []TypeInv
BY InitTypeInv, NextTypeInv, PTL DEF Spec

\* No allocation is spendable on an unconfirmed witness: whatever the order of
\* restarts, locks, failures and re-deliveries, an ord is Mined, in memory or on
\* disk, only for a witness the chain has mined (processItem, JsResolver).
THEOREM SpendableOnlyIfMined == Spec => []MinedOrdIsMined
<1>1. Init => MinedInv
  BY DEF Init, MinedInv, MinedOrdIsMined, StatusIsPast, PromotesMined, Unread
<1>2. TypeInv /\ MinedInv /\ [Next]_vars => MinedInv'
  BY NextMinedInv
<1>3. MinedInv => MinedOrdIsMined
  BY DEF MinedInv
<1> QED
  BY <1>1, <1>2, <1>3, TypeInvHolds, PTL DEF Spec

----------------------------------------------------------------------------
\* The inductive strengthening of the properties that relate the queue to the
\* stock on disk.

\* Only the drain writes the stock, so a status read as unconfirmed is of a
\* witness that no copy of the stock counts as mined, even if it mines since.
FreshStatus ==
  \A t \in Txids : \A base \in {stock, saving, disk} \ {NoStock} :
    stat[t] \in {"absent", "mempool"} => base[t] # "mined"

\* The worker has a stock exactly while it has the key to open one, and while
\* persist() is sealing there is no other copy in memory.
OneCopy ==
  /\ key <=> stock # NoStock
  /\ pc = "persist" => stock \in {saving, NoStock}

\* What is on disk, memory knows too.
NothingForgotten ==
  \A t \in Txids : \A base \in {stock, saving} \ {NoStock} :
    /\ disk[t] # "unknown" => base[t] # "unknown"
    /\ disk[t] = "mined" => base[t] = "mined"

Known(id) == \A t \in Witnesses[id] : disk[t] # "unknown"
Settled(id) == \A t \in Witnesses[id] : disk[t] = "mined"

\* The snapshot's watched items are absorbed, and while an item is in the snapshot
\* nothing but the drain's own patch makes the queue watch it or give it up.
SnapWatched ==
  \A id \in Ids :
    /\ In(snap[id], {"tentative"}) => Known(id)
    /\ snap[id] # NoItem /\ In(queue[id], {"tentative"}) => snap[id].state = "tentative"
    /\ snap[id] # NoItem => ~In(queue[id], {"reverted"})

\* Statuses are all read before anything is done with them.
AllRead ==
  pc \in {"stock", "persist", "get", "put"} /\ goal # "failed"
    => \A t \in Witnesses[cur] : stat[t] # "unread"

StockReady ==
  pc = "stock" =>
    /\ goal = "promoted" => snap[cur].state = "tentative"
    /\ goal = "reverted" => AnyAbsent

\* What a stock operation has to have done before its patch.
Achieved(base) ==
  /\ goal = "accepted" =>
       \A t \in Witnesses[cur] : base[t] # "unknown" /\ (AllMined => base[t] = "mined")
  /\ goal = "promoted" => \A t \in Witnesses[cur] : base[t] = "mined"
  /\ goal = "reverted" /\ snap[cur].state = "tentative"
       => \E t \in Witnesses[cur] : base[t] = "archived"

WorkDone ==
  /\ pc = "persist" => Achieved(saving)
  /\ pc \in {"get", "put"} => Achieved(disk)
  /\ pc = "put" =>
       /\ In(buf, {"tentative"}) => Known(cur)
       /\ In(buf, {"confirmed"}) => Settled(cur)
       /\ goal = "importing" => In(buf, {"importing"})
       /\ In(buf, {"reverted"}) => goal = "reverted"

StockInv ==
  /\ ConfirmedIsMinedOnDisk /\ TentativeIsOnDisk
  /\ OneCopy /\ FreshStatus /\ NothingForgotten
  /\ SnapWatched /\ AllRead /\ StockReady /\ WorkDone
\* A copy of the stock that is behind neither the disk nor the statuses.
UpToDate(base) ==
  \A t \in Txids :
    /\ stat[t] \in {"absent", "mempool"} => base[t] # "mined"
    /\ disk[t] # "unknown" => base[t] # "unknown"
    /\ disk[t] = "mined" => base[t] = "mined"

LEMMA UpToDateOpened ==
  ASSUME TypeInv, StockInv
  PROVE  UpToDate(Opened)
<1>1. disk # NoStock
  BY SentinelAssumption DEF TypeInv, TypeOK
<1> QED
  BY <1>1 DEF StockInv, FreshStatus, NothingForgotten, UpToDate, Opened

\* A stock operation leaves the stock up to date and does what its patch will
\* report.
LEMMA UpdatedAchieves ==
  ASSUME TypeInv, MinedInv, StockInv, pc = "stock", NEW base \in Stocks, UpToDate(base)
  PROVE  UpToDate(Updated(base)) /\ Achieved(Updated(base))
<1> DEFINE new == Updated(base)
<1>1. cur \in Ids /\ Witnesses[cur] \subseteq Txids
  BY QueueAssumption DEF TypeInv, DrainShape, Busy
<1>2. goal \in {"accepted", "promoted", "reverted"}
  BY DEF TypeInv, DrainShape
<1>3. \A t \in Witnesses[cur] : stat[t] \in Chain
  BY <1>1, <1>2 DEF TypeInv, TypeOK, StockInv, AllRead
<1>4. \A t \in Txids : stat[t] \in {"absent", "mempool"} => disk[t] # "mined"
  BY SentinelAssumption DEF TypeInv, TypeOK, StockInv, FreshStatus
<1>5. CASE goal = "accepted"
  <2>1. \A t \in Txids :
          new[t] = IF t \in Witnesses[cur]
                     THEN IF stat[t] = "mined" THEN "mined" ELSE "tentative"
                     ELSE base[t]
    BY <1>5 DEF Updated, Absorb, AcceptOrd
  <2>2. UpToDate(new)
    BY <1>3, <1>4, <2>1 DEF UpToDate, Chain
  <2>3. Achieved(new)
    BY <1>1, <1>5, <2>1 DEF Achieved, AllMined
  <2> QED
    BY <2>2, <2>3
<1>6. CASE goal = "promoted"
  <2>1. \A t \in Witnesses[cur] : stat[t] = "mined"
    BY <1>6 DEF MinedInv, PromotesMined, AllMined
  <2>2. \A t \in Witnesses[cur] : base[t] # "unknown"
    BY <1>1, <1>6
    DEF TypeInv, DrainShape, Busy, StockInv, StockReady, SnapWatched, In, Known, UpToDate
  <2>3. \A t \in Txids : new[t] = IF t \in Witnesses[cur] THEN "mined" ELSE base[t]
    BY <1>6, <2>2 DEF Updated, Overlay
  <2>4. UpToDate(new)
    BY <2>1, <2>3 DEF UpToDate
  <2>5. Achieved(new)
    BY <1>1, <1>6, <2>3 DEF Achieved
  <2> QED
    BY <2>4, <2>5
<1>7. CASE goal = "reverted"
  <2>1. \A t \in Txids :
          new[t] = IF /\ t \in Witnesses[cur] /\ stat[t] = "absent"
                      /\ base[t] # "unknown"
                     THEN "archived" ELSE base[t]
    BY <1>7 DEF Updated, Overlay
  <2>2. UpToDate(new)
    BY <1>4, <2>1 DEF UpToDate
  <2>3. PICK t \in Witnesses[cur] : stat[t] = "absent"
    BY <1>7 DEF StockInv, StockReady, AnyAbsent
  <2>4. snap[cur].state = "tentative" => base[t] # "unknown"
    BY <1>1, <2>3 DEF TypeInv, DrainShape, Busy, StockInv, SnapWatched, In, Known, UpToDate
  <2>5. Achieved(new)
    BY <1>1, <1>7, <2>1, <2>3, <2>4 DEF Achieved
  <2> QED
    BY <2>2, <2>5
<1> QED
  BY <1>2, <1>5, <1>6, <1>7

\* Three frames: steps that leave the copies of the stock, the queue's claims or
\* the drain's work as they were.
LEMMA KeepStocks ==
  ASSUME TypeInv, StockInv,
         disk' = disk,
         saving' \in {saving, NoStock},
         stock' \in {stock, disk, NoStock},
         stat' \in {stat, Unread}
  PROVE  FreshStatus' /\ NothingForgotten'
<1>1. disk # NoStock
  BY SentinelAssumption DEF TypeInv, TypeOK
<1>2. \A t \in Txids : stat'[t] \in {stat[t], "unread"}
  BY DEF Unread
<1>3. FreshStatus'
  BY <1>1, <1>2 DEF StockInv, FreshStatus
<1>4. NothingForgotten'
  BY <1>1 DEF StockInv, NothingForgotten
<1> QED
  BY <1>3, <1>4

LEMMA KeepQueue ==
  ASSUME TypeInv, StockInv,
         disk' = disk,
         \A id \in Ids :
           \/ queue'[id] = queue[id]
           \/ ~In(queue'[id], {"tentative", "confirmed", "reverted"}),
         \A id \in Ids : snap'[id] \in {snap[id], NoItem}
  PROVE  ConfirmedIsMinedOnDisk' /\ TentativeIsOnDisk' /\ SnapWatched'
<1>1. ConfirmedIsMinedOnDisk'
  BY DEF StockInv, ConfirmedIsMinedOnDisk, In
<1>2. TentativeIsOnDisk'
  BY DEF StockInv, TentativeIsOnDisk, In
<1>3. SnapWatched'
  BY DEF StockInv, SnapWatched, In, Known
<1> QED
  BY <1>1, <1>2, <1>3

LEMMA KeepDrain ==
  ASSUME StockInv, UNCHANGED <<disk, saving, stat, snap, pc, cur, goal, buf>>
  PROVE  AllRead' /\ StockReady' /\ WorkDone'
BY DEF StockInv, AllRead, StockReady, WorkDone, Achieved, AllMined, AnyAbsent,
       Known, Settled, In

LEMMA NoWorkYet ==
  ASSUME pc' \in {"idle", "pick", "fetch"}
  PROVE  AllRead' /\ StockReady' /\ WorkDone'
BY DEF AllRead, StockReady, WorkDone
\* Every step keeps the queue's claims about the stock on disk true.
LEMMA NextStockInv ==
  ASSUME TypeInv, MinedInv, StockInv, TypeInv', [Next]_vars
  PROVE  StockInv'
<1> USE DEF TypeInv
<1>0. disk # NoStock /\ disk' # NoStock
  BY SentinelAssumption DEF TypeOK
<1>1. ASSUME NEW t \in Txids, Broadcast(t) \/ Mine(t) \/ Drop(t)
      PROVE  StockInv'
  <2>1. UNCHANGED <<key, stock, saving, disk, stat, queue, snap, pc, cur, goal, buf>>
    BY <1>1 DEF Broadcast, Mine, Drop, drainVars
  <2>2. OneCopy'
    BY <2>1 DEF StockInv, OneCopy
  <2> QED
    BY <2>1, <2>2, KeepStocks, KeepQueue, KeepDrain DEF StockInv
<1>2. CASE PopupUnlock \/ PopupLock \/ WorkerLock \/ WorkerRestore
  <2>1. UNCHANGED <<saving, disk, stat, queue, snap, pc, cur, goal, buf>>
    BY <1>2 DEF PopupUnlock, PopupLock, WorkerLock, WorkerRestore, drainVars
  <2>2. \/ UNCHANGED <<key, stock>>
        \/ key' = FALSE /\ stock' = NoStock
        \/ key' = TRUE /\ stock' = Opened /\ pc # "persist"
    BY <1>2 DEF PopupUnlock, PopupLock, WorkerLock, WorkerRestore
  <2>3. stock' \in {stock, disk, NoStock}
    BY <2>2 DEF Opened
  <2>4. OneCopy'
    BY <1>0, <2>1, <2>2 DEF StockInv, OneCopy, Opened
  <2> QED
    BY <2>1, <2>3, <2>4, KeepStocks, KeepQueue, KeepDrain DEF StockInv
<1>3. CASE WorkerRestart
  <2>1. /\ UNCHANGED <<disk, queue>>
        /\ stock' = NoStock /\ saving' = NoStock /\ stat' = Unread
        /\ pc' = "idle" /\ key' = FALSE
        /\ \A id \in Ids : snap'[id] = NoItem
    BY <1>3 DEF WorkerRestart
  <2>2. OneCopy'
    BY <2>1 DEF OneCopy
  <2> QED
    BY <2>1, <2>2, KeepStocks, KeepQueue, NoWorkYet DEF StockInv
<1>4. ASSUME NEW id \in Ids,
             Enqueue(id) \/ EnqueuePut(id) \/ ClickDismiss(id) \/ RemoveItem(id)
      PROVE  StockInv'
  <2>1. /\ UNCHANGED <<key, saving, disk, stat, snap, pc, cur, goal, buf>>
        /\ \/ stock' = stock
           \/ CanOpen /\ stock' = Opened
    BY <1>4 DEF Enqueue, EnqueuePut, ClickDismiss, RemoveItem, drainVars
  <2>2. \A i \in Ids : queue'[i] \in {queue[i], NoItem} \/ In(queue'[i], {"pending"})
    BY <1>4
    DEF TypeOK, ArmingFresh, Enqueue, EnqueuePut, ClickDismiss, RemoveItem, In, drainVars
  <2>3. \A i \in Ids : queue'[i] = queue[i] \/ ~In(queue'[i], {"tentative", "confirmed", "reverted"})
    BY <2>2 DEF In
  <2>4. stock' = stock
    BY <1>0, <2>1 DEF StockInv, OneCopy, CanOpen, Opened
  <2>5. OneCopy'
    BY <2>1, <2>4 DEF StockInv, OneCopy
  <2> QED
    BY <2>1, <2>3, <2>4, <2>5, KeepStocks, KeepQueue, KeepDrain DEF StockInv
<1>5. CASE DrainStart
  <2>1. /\ UNCHANGED <<disk, stat, saving, queue>>
        /\ key' = TRUE
        /\ stock' = IF key THEN stock ELSE Opened
        /\ pc' = "pick"
        /\ \A id \in Ids : snap'[id] \in {queue[id], NoItem}
        /\ \A id \in Ids : snap'[id] # NoItem => queue[id].state # "reverted"
    BY <1>5 DEF DrainStart, Skipped
  <2>2. OneCopy'
    BY <1>0, <2>1 DEF StockInv, OneCopy, Opened
  <2>3. ConfirmedIsMinedOnDisk' /\ TentativeIsOnDisk'
    BY <2>1 DEF StockInv, ConfirmedIsMinedOnDisk, TentativeIsOnDisk, In
  <2>4. SnapWatched'
    BY <2>1 DEF StockInv, TentativeIsOnDisk, SnapWatched, In, Known
  <2>5. stock' \in {stock, disk, NoStock}
    BY <2>1 DEF Opened
  <2> QED
    BY <2>1, <2>2, <2>3, <2>4, <2>5, KeepStocks, NoWorkYet DEF StockInv
<1>6. CASE DrainEnd \/ \E id \in Ids : PickItem(id)
  <2>1. UNCHANGED <<key, stock, saving, disk, stat, queue, snap>> /\ pc' \in {"idle", "fetch"}
    BY <1>6 DEF DrainEnd, PickItem
  <2>2. OneCopy'
    BY <2>1 DEF StockInv, OneCopy
  <2> QED
    BY <2>1, <2>2, KeepStocks, KeepQueue, NoWorkYet DEF StockInv
<1>7. ASSUME NEW t \in Txids, FetchStatus(t)
      PROVE  StockInv'
  <2>1. /\ UNCHANGED <<key, stock, saving, disk, queue, snap, pc>>
        /\ pc = "fetch"
        /\ stat' = [stat EXCEPT ![t] = chain[t]]
    BY <1>7 DEF FetchStatus
  <2>2. FreshStatus'
    BY <2>1 DEF TypeOK, MinedInv, MinedOrdIsMined, StockInv, FreshStatus
  <2>3. OneCopy' /\ NothingForgotten'
    BY <2>1 DEF StockInv, OneCopy, NothingForgotten
  <2> QED
    BY <2>1, <2>2, <2>3, KeepQueue, NoWorkYet DEF StockInv
<1>8. CASE FetchFails \/ StockOpFails \/ PersistFails
  <2>1. /\ UNCHANGED <<key, disk, stat, queue, snap>>
        /\ \/ stock' = stock
           \/ CanOpen /\ stock' = Opened
        /\ saving' \in {saving, NoStock}
        /\ pc' = "get" /\ goal' = "failed"
    BY <1>8 DEF FetchFails, StockOpFails, PersistFails
  <2>2. stock' = stock
    BY <1>0, <2>1 DEF StockInv, OneCopy, CanOpen, Opened
  <2>3. OneCopy'
    BY <2>1, <2>2 DEF StockInv, OneCopy
  <2>4. AllRead' /\ StockReady' /\ WorkDone'
    BY <2>1 DEF AllRead, StockReady, WorkDone, Achieved
  <2> QED
    BY <2>1, <2>2, <2>3, <2>4, KeepStocks, KeepQueue DEF StockInv
<1>9. CASE Decide
  <2>1. /\ UNCHANGED <<key, stock, saving, disk, stat, queue, snap, cur>>
        /\ pc = "fetch"
        /\ \A t \in Witnesses[cur] : stat[t] # "unread"
        /\ pc' = Decision[1] /\ goal' = Decision[2]
    BY <1>9 DEF Decide
  <2>2. OneCopy'
    BY <2>1 DEF StockInv, OneCopy, Decision
  <2>3. AllRead'
    BY <2>1 DEF AllRead
  <2>4. StockReady'
    BY <2>1 DEF StockReady, Decision, Dropped, AnyAbsent
  <2>5. WorkDone'
    BY <2>1 DEF WorkDone, Achieved, Decision, InStock
  <2> QED
    BY <2>1, <2>2, <2>3, <2>4, <2>5, KeepStocks, KeepQueue DEF StockInv
<1>10. CASE StockOp
  <2> DEFINE new == Updated(Opened)
  <2>1. /\ UNCHANGED <<key, disk, stat, queue, snap, cur, goal>>
        /\ CanOpen
        /\ stock' = new /\ saving' = new
        /\ pc = "stock" /\ pc' = "persist"
    BY <1>10 DEF StockOp
  <2>2. UpToDate(new) /\ Achieved(new) /\ new \in Stocks
    BY <2>1, OpenedStock, UpToDateOpened, UpdatedAchieves, UpdatedStock
  <2> HIDE DEF new
  <2>3. OneCopy'
    BY <2>1, <2>2, SentinelAssumption DEF StockInv, OneCopy, CanOpen
  <2>4. FreshStatus'
    BY <2>1, <2>2 DEF StockInv, FreshStatus, UpToDate
  <2>5. NothingForgotten'
    BY <2>1, <2>2 DEF NothingForgotten, UpToDate
  <2>6. StockReady' /\ WorkDone'
    BY <2>1, <2>2 DEF StockReady, WorkDone, Achieved, AllMined
  <2>7. goal # "failed" => \A t \in Witnesses[cur] : stat[t] # "unread"
    BY <2>1 DEF StockInv, AllRead
  <2>8. AllRead'
    BY <2>1, <2>7 DEF AllRead
  <2> QED
    BY <2>1, <2>3, <2>4, <2>5, <2>6, <2>8, KeepQueue DEF StockInv
<1>15. CASE StockOpBreaks
  <2>1. /\ UNCHANGED <<key, disk, stat, saving, queue, snap, cur>>
        /\ CanOpen
        /\ stock' = Opened \/ stock' = Updated(Opened)
        /\ pc = "stock" /\ pc' = "get" /\ goal' = "failed"
    BY <1>15 DEF StockOpBreaks
  <2>2. /\ UpToDate(Opened) /\ Opened \in Stocks
        /\ UpToDate(Updated(Opened)) /\ Updated(Opened) \in Stocks
    BY <2>1, OpenedStock, UpToDateOpened, UpdatedAchieves, UpdatedStock
  <2>3. UpToDate(stock') /\ stock' \in Stocks
    BY <2>1, <2>2
  <2>4. OneCopy'
    BY <2>1, <2>3, SentinelAssumption DEF StockInv, OneCopy, CanOpen, DrainShape
  <2>5. FreshStatus'
    BY <2>1, <2>3 DEF StockInv, FreshStatus, UpToDate
  <2>6. NothingForgotten'
    BY <2>1, <2>3 DEF StockInv, NothingForgotten, UpToDate
  <2>7. AllRead' /\ StockReady' /\ WorkDone'
    BY <2>1 DEF AllRead, StockReady, WorkDone, Achieved
  <2> QED
    BY <2>1, <2>4, <2>5, <2>6, <2>7, KeepQueue DEF StockInv
<1>11. CASE PersistDone
  <2>1. /\ UNCHANGED <<key, stock, stat, queue, snap, cur, goal>>
        /\ disk' = saving /\ saving' = NoStock
        /\ pc = "persist" /\ pc' = "get"
    BY <1>11 DEF PersistDone
  <2>2. saving # NoStock /\ cur \in Ids
    BY <2>1 DEF DrainShape, Busy
  <2>3. \A t \in Txids :
          /\ disk[t] # "unknown" => disk'[t] # "unknown"
          /\ disk[t] = "mined" => disk'[t] = "mined"
    BY <2>1, <2>2 DEF StockInv, NothingForgotten
  <2>4. \A id \in Ids :
          /\ Known(id) => \A t \in Witnesses[id] : disk'[t] # "unknown"
          /\ Settled(id) => \A t \in Witnesses[id] : disk'[t] = "mined"
    <3>1. \A id \in Ids : \A t \in Witnesses[id] :
            /\ disk[t] # "unknown" => disk'[t] # "unknown"
            /\ disk[t] = "mined" => disk'[t] = "mined"
      <4> TAKE id \in Ids
      <4> TAKE t \in Witnesses[id]
      <4>1. t \in Txids
        BY QueueAssumption
      <4> QED
        BY <2>3, <4>1
    <3> QED
      BY <3>1 DEF Known, Settled
  <2>5. ConfirmedIsMinedOnDisk' /\ TentativeIsOnDisk'
    BY <2>1, <2>4
    DEF StockInv, ConfirmedIsMinedOnDisk, TentativeIsOnDisk, Known, Settled, In
  <2>6. SnapWatched'
    BY <2>1, <2>4 DEF StockInv, SnapWatched, Known, In
  <2>7. OneCopy' /\ FreshStatus'
    BY <2>1, <2>2 DEF StockInv, OneCopy, FreshStatus
  <2>8. NothingForgotten'
    BY <2>1 DEF StockInv, OneCopy, NothingForgotten
  <2>9. AllRead'
    <3>1. goal # "failed" => \A t \in Witnesses[cur] : stat[t] # "unread"
      BY <2>1 DEF StockInv, AllRead
    <3> QED
      BY <2>1, <3>1 DEF AllRead
  <2>10. StockReady' /\ WorkDone'
    BY <2>1 DEF StockInv, StockReady, WorkDone, Achieved, AllMined
  <2> QED
    BY <2>5, <2>6, <2>7, <2>8, <2>9, <2>10 DEF StockInv
<1>12. CASE PatchGet
  <2>1. /\ UNCHANGED <<key, stock, saving, disk, stat, queue, snap, cur, goal>>
        /\ pc = "get" /\ pc' = "put"
        /\ queue[cur] # NoItem
        /\ buf' = Patched(queue[cur])
        /\ cur \in Ids
    BY <1>12 DEF PatchGet, DrainShape, Busy
  <2>2. OneCopy'
    BY <2>1 DEF StockInv, OneCopy
  <2>3. AllRead' /\ StockReady'
    BY <2>1 DEF StockInv, AllRead, StockReady
  <2>4. Achieved(disk)'
    BY <2>1 DEF StockInv, WorkDone, Achieved, AllMined
  <2>5. /\ In(buf', {"tentative"}) => Known(cur)
        /\ In(buf', {"confirmed"}) => Settled(cur)
    <3>1. queue[cur] \in Items
      BY <2>1 DEF TypeOK
    <3>2. buf'.state = CASE goal = "accepted" -> IF AllMined THEN "confirmed" ELSE "tentative"
                         [] goal = "promoted" -> "confirmed"
                         [] goal = "watched" -> queue[cur].state
                         [] OTHER -> goal
      BY <2>1, <3>1 DEF Patched, Items
    <3>3. CASE goal \in {"accepted", "promoted"}
      BY <2>1, <3>2, <3>3 DEF StockInv, WorkDone, Achieved, Known, Settled, In
    <3>4. CASE goal = "watched"
      BY <2>1, <3>2, <3>4
      DEF StockInv, TentativeIsOnDisk, ConfirmedIsMinedOnDisk, Known, Settled, In
    <3>5. CASE goal \notin {"accepted", "promoted", "watched"}
      <4>1. buf'.state = goal
        BY <3>2, <3>5
      <4> QED
        BY <4>1 DEF TypeOK, Goals, In
    <3> QED
      BY <3>3, <3>4, <3>5
  <2>6. /\ goal = "importing" => In(buf', {"importing"})
        /\ In(buf', {"reverted"}) => goal = "reverted"
    <3>1. queue[cur] \in Items /\ queue[cur].state # "reverted"
      BY <2>1 DEF TypeOK, DrainShape, Busy, StockInv, SnapWatched, In
    <3>2. buf' \in Items
      BY <2>1, PatchedItem
    <3>3. buf'.state = CASE goal = "accepted" -> IF AllMined THEN "confirmed" ELSE "tentative"
                         [] goal = "promoted" -> "confirmed"
                         [] goal = "watched" -> queue[cur].state
                         [] OTHER -> goal
      BY <2>1, <3>1 DEF Patched, Items
    <3> QED
      BY <3>1, <3>2, <3>3, SentinelAssumption DEF In
  <2>7. WorkDone'
    BY <2>1, <2>4, <2>5, <2>6 DEF WorkDone, Known, Settled, In
  <2> QED
    BY <2>1, <2>2, <2>3, <2>7, KeepStocks, KeepQueue DEF StockInv
<1>13. CASE PatchGone \/ PatchPut
  <2>1. /\ UNCHANGED <<key, stock, saving, disk>>
        /\ AfterPatch
        /\ pc \in {"get", "put"}
        /\ cur \in Ids
        /\ queue' = queue \/ (pc = "put" /\ queue' = [queue EXCEPT ![cur] = buf])
    BY <1>13 DEF PatchGone, PatchPut, DrainShape, Busy
  <2>2. /\ stat' \in {stat, Unread}
        /\ pc' \in {"stock", "pick"}
        /\ \A id \in Ids : snap'[id] \in {snap[id], NoItem}
    BY <2>1, AfterPatchShape DEF AfterPatch
  <2>3. OneCopy'
    BY <2>1, <2>2 DEF StockInv, OneCopy
  <2>4. AllRead' /\ StockReady' /\ WorkDone'
    <3>1. CASE goal = "importing"
      <4>1. pc' = "stock" /\ goal' = "accepted" /\ UNCHANGED <<cur, stat>>
        BY <2>1, <3>1 DEF AfterPatch
      <4> QED
        BY <2>1, <3>1, <4>1 DEF StockInv, AllRead, StockReady, WorkDone
    <3>2. CASE goal # "importing"
      <4>1. pc' = "pick"
        BY <2>1, <3>2 DEF AfterPatch
      <4> QED
        BY <4>1, NoWorkYet
    <3> QED
      BY <3>1, <3>2
  <2>5. CASE queue' = queue
    BY <2>1, <2>2, <2>3, <2>4, <2>5, KeepStocks, KeepQueue DEF StockInv
  <2>6. CASE pc = "put" /\ queue' = [queue EXCEPT ![cur] = buf]
    <3>1. /\ In(buf, {"tentative"}) => Known(cur)
          /\ In(buf, {"confirmed"}) => Settled(cur)
      BY <2>6 DEF StockInv, WorkDone
    <3>2. \A id \in Ids : queue'[id] = IF id = cur THEN buf ELSE queue[id]
      BY <2>1, <2>6 DEF TypeOK
    <3>3. ConfirmedIsMinedOnDisk' /\ TentativeIsOnDisk'
      BY <2>1, <3>1, <3>2
      DEF StockInv, ConfirmedIsMinedOnDisk, TentativeIsOnDisk, Known, Settled, In
    <3>4. SnapWatched'
      <4>1. \A id \in Ids \ {cur} : snap'[id] \in {snap[id], NoItem} /\ queue'[id] = queue[id]
        BY <2>2, <3>2
      <4>2. snap'[cur] = NoItem \/ (In(buf, {"importing"}) /\ snap'[cur] = snap[cur])
        <5>1. CASE goal = "importing"
          <6>1. snap' = snap
            BY <2>1, <5>1 DEF AfterPatch
          <6>2. In(buf, {"importing"})
            BY <2>6, <5>1 DEF StockInv, WorkDone
          <6> QED
            BY <6>1, <6>2
        <5>2. CASE goal # "importing"
          BY <2>1, <5>2, AfterPatchShape
        <5> QED
          BY <5>1, <5>2
      <4> QED
        BY <2>1, <3>2, <4>1, <4>2 DEF StockInv, SnapWatched, Known, In
    <3> QED
      BY <2>1, <2>2, <2>3, <2>4, <3>3, <3>4, KeepStocks DEF StockInv
  <2> QED
    BY <2>1, <2>5, <2>6
<1>14. CASE UNCHANGED vars
  <2>1. UNCHANGED <<key, stock, saving, disk, stat, queue, snap, pc, cur, goal, buf>>
    BY <1>14 DEF vars, drainVars
  <2>2. OneCopy'
    BY <2>1 DEF StockInv, OneCopy
  <2> QED
    BY <2>1, <2>2, KeepStocks, KeepQueue, KeepDrain DEF StockInv
<1> QED
  BY <1>1, <1>2, <1>3, <1>4, <1>5, <1>6, <1>7, <1>8, <1>9, <1>10, <1>11, <1>12,
     <1>13, <1>14, <1>15
  DEF Next, Drain
LEMMA InitStockInv ==
  ASSUME Init
  PROVE  StockInv
<1>1. ConfirmedIsMinedOnDisk /\ TentativeIsOnDisk
  BY DEF Init, ConfirmedIsMinedOnDisk, TentativeIsOnDisk, In
<1>2. OneCopy /\ FreshStatus /\ NothingForgotten
  BY DEF Init, OneCopy, FreshStatus, NothingForgotten, Unread
<1>3. SnapWatched /\ AllRead /\ StockReady /\ WorkDone
  BY DEF Init, SnapWatched, AllRead, StockReady, WorkDone, In
<1> QED
  BY <1>1, <1>2, <1>3 DEF StockInv

\* Everything the theorems below need of a reachable state.
Inv == TypeInv /\ MinedInv /\ StockInv

LEMMA InvHolds == Spec => []Inv
<1>1. Init => Inv
  <2>1. Init => MinedInv
    BY DEF Init, MinedInv, MinedOrdIsMined, StatusIsPast, PromotesMined, Unread
  <2> QED
    BY <2>1, InitTypeInv, InitStockInv DEF Inv
<1>2. Inv /\ [Next]_vars => Inv'
  BY NextTypeInv, NextMinedInv, NextStockInv DEF Inv
<1> QED
  BY <1>1, <1>2, PTL DEF Spec

\* Received RGB is final only when its witnesses are: an item the queue shows as
\* confirmed has every witness Mined in the stock on disk (processItem, persist).
THEOREM ConfirmedIsFinal == Spec => []ConfirmedIsMinedOnDisk
<1>1. Inv => ConfirmedIsMinedOnDisk
  BY DEF Inv, StockInv
<1> QED
  BY <1>1, InvHolds, PTL

\* The queue never runs ahead of the stock: a watched item is absorbed on disk.
THEOREM WatchedIsAbsorbed == Spec => []TentativeIsOnDisk
<1>1. Inv => TentativeIsOnDisk
  BY DEF Inv, StockInv
<1> QED
  BY <1>1, InvHolds, PTL

\* A watched item turns reverted only over a stock on disk in which a witness of
\* it is archived: "a true revert, not just a UI flag" (processItem).
THEOREM RevertIsTrue == Spec => RevertArchives
<1>1. Inv /\ [Next]_vars => [\A id \in Ids : Reverts(id) => SomeArchived(id)]_vars
  <2> SUFFICES ASSUME Inv, Next, NEW id \in Ids, Reverts(id)
               PROVE  SomeArchived(id)
    OBVIOUS
  <2>1. queue'[id] # queue[id] /\ queue'[id] # NoItem
    BY DEF Reverts, In
  <2>2. PatchPut \/ EnqueuePut(id)
    BY <2>1
    DEF Inv, TypeInv, TypeOK, Next, Drain, Broadcast, Mine, Drop, PopupUnlock, PopupLock,
        WorkerLock, WorkerRestart, WorkerRestore, Enqueue, EnqueuePut, ClickDismiss,
        RemoveItem, DrainStart, DrainEnd, PickItem, FetchStatus, FetchFails, Decide,
        StockOp, StockOpFails, StockOpBreaks, PersistDone, PersistFails, PatchGet, PatchGone
  <2>3. CASE EnqueuePut(id)
    <3>1. queue'[id].state = "pending"
      BY <2>3 DEF Inv, TypeInv, TypeOK, ArmingFresh, EnqueuePut
    <3> QED
      BY <3>1 DEF Reverts, In
  <2>4. CASE PatchPut
    <3>1. pc = "put" /\ queue' = [queue EXCEPT ![cur] = buf] /\ cur \in Ids
      BY <2>4 DEF PatchPut, Inv, TypeInv, DrainShape, Busy
    <3>2. id = cur /\ buf.state = "reverted"
      BY <2>1, <3>1 DEF Inv, TypeInv, TypeOK, Reverts, In
    <3>3. goal = "reverted"
      BY <3>1, <3>2 DEF Inv, TypeInv, DrainShape, StockInv, WorkDone, In
    <3>4. snap[cur].state = "tentative"
      BY <3>1, <3>2
      DEF Inv, TypeInv, DrainShape, Busy, StockInv, SnapWatched, Reverts, In
    <3> QED
      BY <3>1, <3>2, <3>3, <3>4 DEF Inv, StockInv, WorkDone, Achieved, SomeArchived
  <2> QED
    BY <2>2, <2>3, <2>4
<1> QED
  BY <1>1, InvHolds, PTL DEF Spec, RevertArchives

\* The stock on disk implements the witness ledger: every write of it moves each
\* witness as the ledger allows, and nothing else touches it.
THEOREM StockIsLedger == Spec => LedgerSpec
<1>1. Init => Ledger!LedgerInit
  BY DEF Init, Ledger!LedgerInit
<1>2. Inv /\ [Next]_vars => [Ledger!ChainStep \/ Ledger!StockStep]_<<chain, disk>>
  <2> SUFFICES ASSUME Inv, Next, <<chain, disk>>' # <<chain, disk>>
               PROVE  Ledger!ChainStep \/ Ledger!StockStep
    BY DEF vars
  <2>1. PersistDone \/ \E t \in Txids : Broadcast(t) \/ Mine(t) \/ Drop(t)
    BY DEF Next, Drain, PopupUnlock, PopupLock,
        WorkerLock, WorkerRestart, WorkerRestore, Enqueue, EnqueuePut, ClickDismiss,
        RemoveItem, DrainStart, DrainEnd, PickItem, FetchStatus, FetchFails, Decide,
        StockOp, StockOpFails, StockOpBreaks, PersistFails, PatchGet, PatchGone, PatchPut
  <2>2. ASSUME NEW t \in Txids, Broadcast(t) \/ Mine(t) \/ Drop(t)
        PROVE  Ledger!ChainStep
    BY <2>2 DEF Broadcast, Mine, Drop, Ledger!ChainStep, Inv, TypeInv, TypeOK
  <2>3. CASE PersistDone
    <3>1. /\ disk' = saving /\ chain' = chain
          /\ saving \in Stocks /\ saving # NoStock
      BY <2>3 DEF PersistDone, Inv, TypeInv, TypeOK, DrainShape
    <3>2. ASSUME NEW t \in Txids
          PROVE  \/ disk'[t] = disk[t]
                 \/ Ledger!Absorbs(t) \/ Ledger!Settles(t) \/ Ledger!Archives(t)
      <4>1. saving[t] \in Ords
        BY <3>1 DEF Stocks
      <4>2. /\ disk[t] # "unknown" => saving[t] # "unknown"
            /\ disk[t] = "mined" => saving[t] = "mined"
        BY <3>1 DEF Inv, StockInv, NothingForgotten
      <4>3. disk[t] \in Ords
        BY DEF Inv, TypeInv, TypeOK, Stocks
      <4>4. saving[t] = "mined" => chain[t] = "mined"
        BY <3>1 DEF Inv, MinedInv, MinedOrdIsMined
      <4> QED
        BY <3>1, <4>1, <4>2, <4>3, <4>4
        DEF Ords, Ledger!Absorbs, Ledger!Settles, Ledger!Archives
    <3>3. DOMAIN disk' = Txids
      BY <3>1 DEF Stocks
    <3> QED
      BY <3>1, <3>2, <3>3 DEF Ledger!StockStep
  <2> QED
    BY <2>1, <2>2, <2>3
<1> QED
  BY <1>1, <1>2, InvHolds, PTL DEF Spec, LedgerSpec, Ledger!LedgerSpec
----------------------------------------------------------------------------
\* The inductive strengthening of RetriesAreForFaults.  A failure is counted from
\* the snapshot and paid by a fault since that snapshot: the failed request or
\* write itself, or the lock that took the stock away from under the drain.

SnapEarned ==
  \A id \in Valid : snap[id] # NoItem =>
    /\ snap[id].attempts <= Earned(snap[id])
    /\ ~CanOpen => snap[id].attempts < 2 * faults

FailurePaid ==
  pc \in {"get", "put"} /\ goal = "failed" /\ cur \in Valid => snap[cur].attempts < 2 * faults

BufEarned == pc = "put" /\ cur \in Valid => buf.attempts <= Earned(buf)

RetryInv == RetriesAreForFaults /\ SnapEarned /\ FailurePaid /\ BufEarned

\* Attempts and faults are numbers.
LEMMA Counts ==
  ASSUME TypeOK
  PROVE  /\ faults \in Nat
         /\ \A id \in Valid : queue[id] # NoItem => queue[id] \in Items /\ queue[id].attempts \in Nat
         /\ \A id \in Valid : snap[id] # NoItem => snap[id] \in Items /\ snap[id].attempts \in Nat
         /\ buf # NoItem => buf \in Items /\ buf.attempts \in Nat
BY QueueAssumption DEF TypeOK, Items

\* A step of another task leaves the drain alone; it may arm or delete an item, and
\* it is a fault if it takes the stock away.
LEMMA KeepRetries ==
  ASSUME TypeInv, RetryInv,
         faults' \in {faults, faults + 1},
         \A id \in Valid : queue'[id] # NoItem =>
           (queue[id] # NoItem /\ queue'[id] = queue[id]) \/ queue'[id].attempts = 0,
         CanOpen /\ ~CanOpen' => faults' = faults + 1,
         UNCHANGED <<pc, snap, cur, goal, buf>>
  PROVE  RetryInv'
<1>1. faults \in Nat /\ \A id \in Valid : snap[id] # NoItem => snap[id].attempts \in Nat
  BY Counts DEF TypeInv
<1>2. pc = "put" => buf.attempts \in Nat
  BY Counts DEF TypeInv, DrainShape
<1>3. RetriesAreForFaults'
  <2> SUFFICES ASSUME NEW id \in Valid, queue'[id] # NoItem
               PROVE  queue'[id].attempts <= Earned(queue[id])'
    BY DEF RetriesAreForFaults
  <2>1. CASE queue[id] # NoItem /\ queue'[id] = queue[id]
    <3>1. queue[id].attempts \in Nat /\ queue[id].attempts <= Earned(queue[id])
      BY <2>1, Counts DEF TypeInv, RetryInv, RetriesAreForFaults
    <3> QED
      BY <1>1, <2>1, <3>1 DEF Earned
  <2>2. CASE queue'[id].attempts = 0
    BY <1>1, <2>2 DEF Earned
  <2> QED
    BY <2>1, <2>2
<1>4. SnapEarned'
  <2> SUFFICES ASSUME NEW id \in Valid, snap[id] # NoItem
               PROVE  /\ snap[id].attempts <= Earned(snap[id])'
                      /\ ~CanOpen' => snap[id].attempts < 2 * faults'
    BY DEF SnapEarned
  <2>1. /\ snap[id].attempts <= Earned(snap[id])
        /\ ~CanOpen => snap[id].attempts < 2 * faults
    BY DEF RetryInv, SnapEarned
  <2> QED
    BY <1>1, <2>1 DEF Earned
<1>5. FailurePaid'
  <2> SUFFICES ASSUME pc \in {"get", "put"}, goal = "failed", cur \in Valid
               PROVE  snap[cur].attempts < 2 * faults'
    BY DEF FailurePaid
  <2>1. snap[cur].attempts < 2 * faults /\ snap[cur] # NoItem
    BY DEF RetryInv, FailurePaid, TypeInv, DrainShape, Busy
  <2> QED
    BY <1>1, <2>1
<1>6. BufEarned'
  BY <1>1, <1>2 DEF RetryInv, BufEarned, Earned
<1> QED
  BY <1>3, <1>4, <1>5, <1>6 DEF RetryInv

\* The drain moves on within an item, or to another one, without writing the queue.
LEMMA MoveRetries ==
  ASSUME TypeInv, RetryInv,
         faults' \in {faults, faults + 1},
         UNCHANGED <<queue, key>>,
         CanOpen => CanOpen',
         \A id \in Valid : snap'[id] # NoItem => snap'[id] = snap[id],
         pc' # "put",
         pc' = "get" /\ goal' = "failed" =>
           cur' = cur /\ snap' = snap /\ cur \in Ids /\ snap[cur] # NoItem
             /\ (faults' = faults + 1 \/ ~CanOpen \/ cur \notin Valid)
  PROVE  RetryInv'
<1>1. faults \in Nat /\ \A id \in Valid : snap[id] # NoItem => snap[id].attempts \in Nat
  BY Counts DEF TypeInv
<1>2. ASSUME NEW id \in Valid, snap[id] # NoItem
      PROVE  /\ snap[id].attempts <= Earned(snap[id])
             /\ ~CanOpen => snap[id].attempts < 2 * faults
  BY <1>2 DEF RetryInv, SnapEarned
<1>3. RetriesAreForFaults'
  <2> SUFFICES ASSUME NEW id \in Valid, queue[id] # NoItem
               PROVE  queue[id].attempts <= Earned(queue[id])'
    BY DEF RetriesAreForFaults
  <2>1. queue[id].attempts \in Nat /\ queue[id].attempts <= Earned(queue[id])
    BY Counts DEF TypeInv, RetryInv, RetriesAreForFaults
  <2> QED
    BY <1>1, <2>1 DEF Earned
<1>4. SnapEarned'
  <2> SUFFICES ASSUME NEW id \in Valid, snap'[id] # NoItem
               PROVE  /\ snap'[id].attempts <= Earned(snap[id])'
                      /\ ~CanOpen' => snap'[id].attempts < 2 * faults'
    BY DEF SnapEarned
  <2>1. snap'[id] = snap[id] /\ snap[id] # NoItem
    OBVIOUS
  <2> QED
    BY <1>1, <1>2, <2>1 DEF Earned
<1>5. FailurePaid'
  <2> SUFFICES ASSUME pc' = "get", goal' = "failed", cur' \in Valid
               PROVE  snap'[cur'].attempts < 2 * faults'
    BY DEF FailurePaid
  <2>1. /\ cur' = cur /\ snap' = snap /\ snap[cur] # NoItem /\ cur \in Valid
        /\ faults' = faults + 1 \/ ~CanOpen
    OBVIOUS
  <2> QED
    BY <1>1, <1>2, <2>1 DEF Earned
<1>6. BufEarned'
  BY DEF BufEarned
<1> QED
  BY <1>3, <1>4, <1>5, <1>6 DEF RetryInv

\* What patch() is about to put has cost no more than its state allows.
LEMMA PatchEarned ==
  ASSUME TypeInv, RetryInv, pc = "get", cur \in Valid, queue[cur] # NoItem
  PROVE  Patched(queue[cur]).attempts <= Earned(Patched(queue[cur]))
<1> DEFINE old == queue[cur]
           new == Patched(queue[cur])
<1>1. /\ snap[cur] # NoItem /\ snap[cur] \in Items /\ snap[cur].attempts \in Nat
      /\ old \in Items /\ old.attempts \in Nat
      /\ faults \in Nat
  BY Counts DEF TypeInv, DrainShape, Busy
<1>2. /\ old.attempts <= Earned(old)
      /\ old.attempts <= snap[cur].attempts
      /\ snap[cur].attempts <= Earned(snap[cur])
      /\ goal = "failed" => snap[cur].attempts < 2 * faults
      /\ ~Skipped(snap[cur])
  BY <1>1, QueueAssumption
  DEF RetryInv, RetriesAreForFaults, SnapEarned, FailurePaid, TypeInv, SnapBudget
<1>3. goal \in {"importing", "accepted"} => snap[cur].attempts <= 2 * faults
  BY <1>1, <1>2 DEF TypeInv, DrainShape, Earned, Skipped, Items, States
<1>4. /\ new.state = CASE goal = "accepted" -> IF AllMined THEN "confirmed" ELSE "tentative"
                       [] goal = "promoted" -> "confirmed"
                       [] goal = "watched" -> old.state
                       [] OTHER -> goal
      /\ new.attempts = IF goal \in {"accepted", "failed"} THEN snap[cur].attempts + 1
                                                           ELSE old.attempts
  BY <1>1 DEF Patched, Items
<1>5. goal \in {"importing", "accepted", "promoted", "watched", "reverted", "failed"}
  BY DEF TypeInv, TypeOK, DrainShape, Goals
<1> HIDE DEF old, new
<1>6. ASSUME goal \in {"accepted", "failed", "importing"}
      PROVE  new.attempts <= Earned(new)
  BY <1>1, <1>2, <1>3, <1>4, <1>6 DEF Earned
<1>7. ASSUME goal \in {"promoted", "reverted"}
      PROVE  new.attempts <= Earned(new)
  BY <1>1, <1>2, <1>4, <1>7 DEF Earned
<1>8. ASSUME goal = "watched"
      PROVE  new.attempts <= Earned(new)
  BY <1>1, <1>2, <1>4, <1>8 DEF Earned
<1> QED
  BY <1>5, <1>6, <1>7, <1>8 DEF new

\* Every step keeps the accounts.
LEMMA NextRetryInv ==
  ASSUME TypeInv, RetryInv, [Next]_vars
  PROVE  RetryInv'
<1> USE QueueAssumption
<1>1. ASSUME NEW t \in Txids, Broadcast(t) \/ Mine(t) \/ Drop(t)
      PROVE  RetryInv'
  BY <1>1, KeepRetries DEF Broadcast, Mine, Drop, drainVars, CanOpen
<1>2. CASE PopupUnlock \/ PopupLock \/ WorkerLock \/ WorkerRestore
  BY <1>2, KeepRetries
  DEF PopupUnlock, PopupLock, WorkerLock, WorkerRestore, Fault, drainVars, CanOpen
<1>3. CASE WorkerRestart
  <2>1. /\ faults' = faults + 1 /\ queue' = queue /\ pc' = "idle"
        /\ \A id \in Ids : snap'[id] = NoItem
    BY <1>3 DEF WorkerRestart, Fault
  <2>2. faults \in Nat /\ \A id \in Valid : queue[id] # NoItem => queue[id].attempts \in Nat
    BY Counts DEF TypeInv
  <2>3. RetriesAreForFaults'
    BY <2>1, <2>2 DEF RetryInv, RetriesAreForFaults, Earned
  <2> QED
    BY <2>1, <2>3 DEF RetryInv, SnapEarned, FailurePaid, BufEarned
<1>4. ASSUME NEW id \in Ids,
             Enqueue(id) \/ EnqueuePut(id) \/ ClickDismiss(id) \/ RemoveItem(id)
      PROVE  RetryInv'
  <2>1. \A i \in Valid : queue'[i] # NoItem =>
          (queue[i] # NoItem /\ queue'[i] = queue[i]) \/ queue'[i].attempts = 0
    BY <1>4 DEF Enqueue, EnqueuePut, ClickDismiss, RemoveItem, TypeInv, TypeOK, ArmingFresh
  <2>2. /\ faults' = faults
        /\ CanOpen => CanOpen'
        /\ UNCHANGED <<pc, snap, cur, goal, buf>>
    BY <1>4, SentinelAssumption
    DEF Enqueue, EnqueuePut, ClickDismiss, RemoveItem, drainVars, CanOpen, Opened, TypeInv, TypeOK
  <2> QED
    BY <2>1, <2>2, KeepRetries
<1>5. CASE DrainStart
  <2>1. /\ UNCHANGED <<queue, faults>> /\ key' = TRUE /\ pc' = "pick"
        /\ \A id \in Valid : snap'[id] # NoItem => snap'[id] = queue[id] /\ queue[id] # NoItem
    BY <1>5 DEF DrainStart
  <2> QED
    BY <2>1 DEF RetryInv, RetriesAreForFaults, SnapEarned, FailurePaid, BufEarned, CanOpen, Earned
<1>6. CASE DrainEnd \/ (\E id \in Ids : PickItem(id)) \/ (\E t \in Txids : FetchStatus(t))
  BY <1>6, MoveRetries DEF DrainEnd, PickItem, FetchStatus, CanOpen
<1>7. CASE FetchFails \/ PersistFails
  BY <1>7, MoveRetries DEF FetchFails, PersistFails, Fault, CanOpen, TypeInv, DrainShape, Busy
<1>8. CASE Decide
  BY <1>8, MoveRetries DEF Decide, Decision, CanOpen
<1>9. CASE StockOp \/ PersistDone
  <2>1. CASE StockOp
    <3>1. /\ UNCHANGED <<queue, key, faults, snap, cur, goal>>
          /\ CanOpen /\ pc' = "persist" /\ stock' = Updated(Opened)
      BY <2>1 DEF StockOp
    <3>2. Updated(Opened) # NoStock
      BY <3>1, OpenedStock, UpdatedStock, SentinelAssumption DEF TypeInv
    <3>3. CanOpen'
      BY <3>1, <3>2 DEF CanOpen
    <3> QED
      BY <3>1, <3>3, MoveRetries
  <2>2. CASE PersistDone
    <3>1. /\ UNCHANGED <<queue, key, stock, faults, snap, cur, goal>>
          /\ pc = "persist" /\ pc' = "get"
      BY <2>2 DEF PersistDone
    <3>2. goal # "failed"
      BY <3>1 DEF TypeInv, DrainShape
    <3> QED
      BY <3>1, <3>2, MoveRetries DEF CanOpen
  <2> QED
    BY <1>9, <2>1, <2>2
<1>10. CASE StockOpFails
  <2>1. /\ UNCHANGED <<queue, key, faults, snap, cur>>
        /\ CanOpen => CanOpen'
        /\ pc' = "get" /\ goal' = "failed"
        /\ ~CanOpen \/ cur \notin Valid
        /\ cur \in Ids /\ snap[cur] # NoItem
    BY <1>10, OpenedStock, SentinelAssumption
    DEF StockOpFails, CanOpen, TypeInv, TypeOK, DrainShape, Busy
  <2> QED
    BY <2>1, MoveRetries
<1>14. CASE StockOpBreaks
  <2>1. Opened # NoStock /\ Updated(Opened) # NoStock
    BY <1>14, OpenedStock, UpdatedStock, SentinelAssumption DEF StockOpBreaks, TypeInv
  <2>2. CanOpen'
    BY <1>14, <2>1 DEF StockOpBreaks, CanOpen
  <2> QED
    BY <1>14, <2>2, MoveRetries DEF StockOpBreaks, Fault, TypeInv, DrainShape, Busy
<1>11. CASE PatchGet
  <2>1. /\ UNCHANGED <<queue, key, stock, faults, snap, cur, goal>>
        /\ pc = "get" /\ pc' = "put"
        /\ queue[cur] # NoItem /\ buf' = Patched(queue[cur])
    BY <1>11 DEF PatchGet
  <2>2. BufEarned'
    BY <2>1, PatchEarned DEF BufEarned, Earned
  <2> QED
    BY <2>1, <2>2 DEF RetryInv, RetriesAreForFaults, SnapEarned, FailurePaid, CanOpen, Earned
<1>12. CASE PatchGone \/ PatchPut
  <2>1. /\ UNCHANGED <<key, stock, faults>>
        /\ pc' \in {"stock", "pick"}
        /\ \A id \in Valid : snap'[id] # NoItem => snap'[id] = snap[id]
    BY <1>12 DEF PatchGone, PatchPut, AfterPatch, TypeInv, TypeOK
  <2>2. RetriesAreForFaults'
    <3>1. CASE PatchGone
      BY <3>1 DEF PatchGone, RetryInv, RetriesAreForFaults, Earned
    <3>2. CASE PatchPut
      <4>1. pc = "put" /\ faults' = faults /\ queue' = [queue EXCEPT ![cur] = buf]
        BY <3>2 DEF PatchPut
      <4> SUFFICES ASSUME NEW id \in Valid, queue'[id] # NoItem
                   PROVE  queue'[id].attempts <= Earned(queue'[id])
        BY <4>1 DEF RetriesAreForFaults, Earned
      <4>2. CASE id = cur
        BY <4>1, <4>2 DEF RetryInv, BufEarned, TypeInv, TypeOK
      <4>3. CASE id # cur
        BY <4>1, <4>3 DEF RetryInv, RetriesAreForFaults, TypeInv, TypeOK
      <4> QED
        BY <4>2, <4>3
    <3> QED
      BY <1>12, <3>1, <3>2
  <2> QED
    BY <2>1, <2>2 DEF RetryInv, SnapEarned, FailurePaid, BufEarned, CanOpen, Earned
<1>13. CASE UNCHANGED vars
  BY <1>13, KeepRetries DEF vars, drainVars, CanOpen
<1> QED
  BY <1>1, <1>2, <1>3, <1>4, <1>5, <1>6, <1>7, <1>8, <1>9, <1>10, <1>11, <1>12, <1>13, <1>14
  DEF Next, Drain

\* Retries are spent on faults only: watching, reverting, re-delivering and locking
\* between drains cost a valid consignment nothing, and no number of them gives it up
\* (drainOnce, processItem, patch).
THEOREM RetriesArePaidFor == Spec => []RetriesAreForFaults
<1>1. Init => RetryInv
  BY QueueAssumption
  DEF Init, RetryInv, RetriesAreForFaults, SnapEarned, FailurePaid, BufEarned
<1>2. TypeInv /\ RetryInv /\ [Next]_vars => RetryInv'
  BY NextRetryInv
<1>3. RetryInv => RetriesAreForFaults
  BY DEF RetryInv
<1> QED
  BY <1>1, <1>2, <1>3, TypeInvHolds, PTL DEF Spec

\* An item is given up when the drain skips it for want of attempts.
GivenUp(item) == In(item, {"failed"}) /\ Skipped(item)

\* A budget of more than two attempts for each fault is enough: no valid consignment
\* is ever given up (MAX_ATTEMPTS is 8, so it takes four faults).  This is the safe
\* half of MinedIsConfirmed.
THEOREM ValidIsNotGivenUp ==
  ASSUME 2 * MaxFaults < MaxAttempts
  PROVE  Spec => [](\A id \in Valid : ~GivenUp(queue[id]))
<1> DEFINE Bounded == faults <= MaxFaults
<1>1. Init => Bounded
  BY QueueAssumption DEF Init
<1>2. TypeInv /\ Bounded /\ [Next]_vars => Bounded'
  <2> SUFFICES ASSUME TypeInv, Bounded, [Next]_vars
               PROVE  Bounded'
    OBVIOUS
  <2>1. faults' = faults \/ Fault
    BY DEF Next, Drain, Broadcast, Mine, Drop, PopupUnlock, PopupLock, WorkerLock,
        WorkerRestart, WorkerRestore, Enqueue, EnqueuePut, ClickDismiss, RemoveItem,
        DrainStart, DrainEnd, PickItem, FetchStatus, FetchFails, Decide, StockOp, StockOpFails,
        StockOpBreaks, PersistDone, PersistFails, PatchGet, PatchGone, PatchPut, vars
  <2> QED
    BY <2>1, QueueAssumption DEF Fault, TypeInv, TypeOK
<1>3. TypeInv /\ RetriesAreForFaults /\ Bounded => \A id \in Valid : ~GivenUp(queue[id])
  <2> SUFFICES ASSUME TypeInv, RetriesAreForFaults, Bounded,
                      NEW id \in Valid, GivenUp(queue[id])
               PROVE  FALSE
    OBVIOUS
  <2>1. /\ queue[id] # NoItem /\ queue[id].state = "failed"
        /\ queue[id].attempts >= MaxAttempts
    BY DEF GivenUp, In, Skipped
  <2>2. queue[id].attempts \in Nat /\ faults \in Nat
    BY <2>1, Counts DEF TypeInv
  <2>3. queue[id].attempts <= 2 * faults
    BY <2>1, <2>2 DEF RetriesAreForFaults, Earned
  <2> QED
    BY <2>1, <2>2, <2>3, QueueAssumption
<1> QED
  BY <1>1, <1>2, <1>3, TypeInvHolds, RetriesArePaidFor, PTL DEF Spec

----------------------------------------------------------------------------
\* What has ended stays ended.  A snapshot holds no item that has ended since, as
\* only the drain ends items, and takes each out of the snapshot as it does.

SnapOpen == \A id \in Ids : snap[id] # NoItem => ~In(queue[id], Ended)
BufImports == pc = "put" /\ goal = "importing" => buf.state = "importing"
EndedInv == SnapOpen /\ BufImports

LEMMA NextEndedInv ==
  ASSUME TypeInv, EndedInv, [Next]_vars
  PROVE  EndedInv'
<1>1. CASE \/ \E t \in Txids : Broadcast(t) \/ Mine(t) \/ Drop(t)
           \/ PopupUnlock \/ PopupLock \/ WorkerLock \/ WorkerRestore
           \/ UNCHANGED vars
  BY <1>1
  DEF Broadcast, Mine, Drop, PopupUnlock, PopupLock, WorkerLock, WorkerRestore, vars, drainVars,
      EndedInv, SnapOpen, BufImports, In
<1>2. CASE WorkerRestart
  BY <1>2 DEF WorkerRestart, EndedInv, SnapOpen, BufImports
<1>3. ASSUME NEW id \in Ids,
             Enqueue(id) \/ EnqueuePut(id) \/ ClickDismiss(id) \/ RemoveItem(id)
      PROVE  EndedInv'
  <2>1. \A i \in Ids : In(queue[i], Ended)' => In(queue[i], Ended)
    BY <1>3
    DEF Enqueue, EnqueuePut, ClickDismiss, RemoveItem, TypeInv, TypeOK, ArmingFresh, In, Ended
  <2>2. UNCHANGED <<pc, goal, buf, snap>>
    BY <1>3 DEF Enqueue, EnqueuePut, ClickDismiss, RemoveItem, drainVars
  <2> QED
    BY <2>1, <2>2 DEF EndedInv, SnapOpen, BufImports
<1>4. CASE DrainStart
  BY <1>4 DEF DrainStart, Skipped, Ended, In, EndedInv, SnapOpen, BufImports
<1>5. CASE \/ DrainEnd \/ (\E id \in Ids : PickItem(id)) \/ (\E t \in Txids : FetchStatus(t))
           \/ FetchFails \/ Decide \/ StockOp \/ StockOpFails \/ StockOpBreaks \/ PersistDone
           \/ PersistFails
  <2>1. UNCHANGED <<queue, snap>> /\ pc' # "put"
    BY <1>5
    DEF DrainEnd, PickItem, FetchStatus, FetchFails, Decide, Decision, StockOp, StockOpFails, StockOpBreaks,
        PersistDone, PersistFails
  <2> QED
    BY <2>1 DEF EndedInv, SnapOpen, BufImports, In
<1>6. CASE PatchGet
  <2>1. /\ UNCHANGED <<queue, snap, goal>> /\ buf' = Patched(queue[cur])
        /\ cur \in Ids /\ queue[cur] \in Items
    BY <1>6 DEF PatchGet, TypeInv, TypeOK, DrainShape, Busy
  <2>2. goal = "importing" => Patched(queue[cur]).state = "importing"
    BY <2>1 DEF Patched, Items
  <2> QED
    BY <2>1, <2>2 DEF EndedInv, SnapOpen, BufImports, In
<1>7. CASE PatchGone \/ PatchPut
  <2>1. /\ pc' # "put" /\ cur \in Ids
        /\ \A id \in Ids : snap'[id] # NoItem => snap'[id] = snap[id]
        /\ goal # "importing" => snap'[cur] = NoItem
        /\ \A id \in Ids \ {cur} : queue'[id] = queue[id]
    BY <1>7 DEF PatchGone, PatchPut, AfterPatch, TypeInv, TypeOK, DrainShape, Busy
  <2>2. goal = "importing" => queue'[cur] = NoItem \/ queue'[cur].state = "importing"
    BY <1>7, <2>1 DEF PatchGone, PatchPut, EndedInv, BufImports, TypeInv, TypeOK
  <2>3. SnapOpen'
    BY <2>1, <2>2 DEF EndedInv, SnapOpen, In, Ended
  <2> QED
    BY <2>1, <2>3 DEF EndedInv, BufImports
<1> QED
  BY <1>1, <1>2, <1>3, <1>4, <1>5, <1>6, <1>7 DEF Next, Drain

\* A confirmed or reverted item is final for every drain: only an enqueue that read
\* it before, or a dismissal, takes it away (drainOnce, patch, enqueue, removeItem).
THEOREM EndIsFinal == Spec => EndedIsFinal
<1>1. Init => EndedInv
  BY DEF Init, EndedInv, SnapOpen, BufImports
<1>2. TypeInv /\ EndedInv /\ [Next]_vars
        => [\A id \in Ids : In(queue[id], Ended) /\ queue'[id] # queue[id] =>
              arming[id] # NoItem \/ id \in dismissing]_vars
  <2> SUFFICES ASSUME TypeInv, EndedInv, Next, NEW id \in Ids,
                      In(queue[id], Ended), queue'[id] # queue[id]
               PROVE  arming[id] # NoItem \/ id \in dismissing
    OBVIOUS
  <2>1. PatchPut \/ \E i \in Ids : EnqueuePut(i) \/ RemoveItem(i)
    BY DEF Next, Drain, Broadcast, Mine, Drop, PopupUnlock, PopupLock, WorkerLock,
        WorkerRestart, WorkerRestore, Enqueue, ClickDismiss, DrainStart, DrainEnd, PickItem,
        FetchStatus, FetchFails, Decide, StockOp, StockOpFails, StockOpBreaks, PersistDone, PersistFails,
        PatchGet, PatchGone
  <2>2. CASE PatchPut
    <3>1. cur \in Ids /\ snap[cur] # NoItem
      BY <2>2 DEF PatchPut, TypeInv, DrainShape, Busy
    <3>2. id = cur
      BY <2>2 DEF PatchPut, TypeInv, TypeOK
    <3> QED
      BY <3>1, <3>2 DEF EndedInv, SnapOpen
  <2>3. ASSUME NEW i \in Ids, EnqueuePut(i) \/ RemoveItem(i)
        PROVE  arming[id] # NoItem \/ id \in dismissing
    BY <2>3 DEF EnqueuePut, RemoveItem, TypeInv, TypeOK
  <2> QED
    BY <2>1, <2>2, <2>3
<1>3. TypeInv /\ EndedInv /\ [Next]_vars => EndedInv'
  BY NextEndedInv
<1> QED
  BY <1>1, <1>2, <1>3, TypeInvHolds, PTL DEF Spec, EndedIsFinal

----------------------------------------------------------------------------
\* What the ledger promises: a witness counts as mined only if it is, from then on for
\* good, and none is forgotten.  With StockIsLedger, it holds of the stock on disk.

MinedIsTrue == \A t \in Txids : disk[t] = "mined" => chain[t] = "mined"
NothingUndone ==
  \A t \in Txids :
    /\ disk[t] = "mined" => disk'[t] = "mined"
    /\ disk[t] # "unknown" => disk'[t] # "unknown"

\* The abstract specification means what its comment says, of any chain in which a
\* mined transaction stays mined.
THEOREM LedgerIsSound ==
  LedgerSpec => []MinedIsTrue /\ [][NothingUndone]_<<chain, disk>>
<1> DEFINE Step == Ledger!ChainStep \/ Ledger!StockStep
<1>1. Ledger!LedgerInit => MinedIsTrue
  BY DEF Ledger!LedgerInit, MinedIsTrue
<1>2. ASSUME MinedIsTrue, Ledger!ChainStep
      PROVE  MinedIsTrue' /\ NothingUndone
  BY <1>2 DEF MinedIsTrue, NothingUndone, Ledger!ChainStep
<1>3. ASSUME MinedIsTrue, Ledger!StockStep
      PROVE  MinedIsTrue' /\ NothingUndone
  <2> SUFFICES ASSUME NEW t \in Txids
               PROVE  /\ disk'[t] = "mined" => chain'[t] = "mined"
                      /\ disk[t] = "mined" => disk'[t] = "mined"
                      /\ disk[t] # "unknown" => disk'[t] # "unknown"
    BY DEF MinedIsTrue, NothingUndone
  <2>1. /\ disk'[t] = disk[t] \/ Ledger!Absorbs(t) \/ Ledger!Settles(t) \/ Ledger!Archives(t)
        /\ chain' = chain
    BY <1>3 DEF Ledger!StockStep
  <2> QED
    BY <1>3, <2>1 DEF MinedIsTrue, Ledger!Absorbs, Ledger!Settles, Ledger!Archives
<1>4. MinedIsTrue /\ [Step]_<<chain, disk>> => MinedIsTrue' /\ [NothingUndone]_<<chain, disk>>
  <2>1. CASE UNCHANGED <<chain, disk>>
    BY <2>1 DEF MinedIsTrue
  <2> QED
    BY <1>2, <1>3, <2>1
<1> QED
  BY <1>1, <1>4, PTL DEF LedgerSpec, Ledger!LedgerSpec
=============================================================================
