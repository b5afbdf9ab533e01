--------------------------- MODULE ApprovalProofs ---------------------------
(***************************************************************************)
(* Theorems about connect and sign requests, for every set of requests,    *)
(* origins and ids.  Those about what is granted assume DistinctIds.       *)
(***************************************************************************)
EXTENDS Approvals, TLAPS

----------------------------------------------------------------------------

\* Every variable keeps its type in every handler, click and event.
THEOREM TypeCorrect == Spec => []TypeOK
<1>1. Init => TypeOK
  BY DEF Init, TypeOK, WindowStates
<1>2. TypeOK /\ [Next]_vars => TypeOK'
  <2> SUFFICES ASSUME TypeOK, [Next]_vars
               PROVE  TypeOK'
    OBVIOUS
  <2> USE RequestAssumption
  <2>1. ASSUME NEW r \in Requests, AskConnect(r)
        PROVE  TypeOK'
    BY <2>1 DEF TypeOK, AskConnect, Goes, OpensWindow, InWorker, WindowStates, openVars, pastVars
  <2>2. ASSUME NEW r \in Requests, AskSign(r)
        PROVE  TypeOK'
    BY <2>2 DEF TypeOK, AskSign, Goes, InWorker, windowVars, openVars, pastVars
  <2>3. ASSUME NEW r \in Requests, CheckOrigin(r)
        PROVE  TypeOK'
    BY <2>3 DEF TypeOK, CheckOrigin, Goes, InWorker, Answers, Denied, windowVars, openVars, pastVars
  <2>4. ASSUME NEW r \in Requests, Build(r)
        PROVE  TypeOK'
    BY <2>4 DEF TypeOK, Build, Goes, OpensWindow, InWorker, WindowStates, openVars, pastVars
  <2>5. ASSUME NEW r \in Requests, Throws(r)
        PROVE  TypeOK'
    BY <2>5 DEF TypeOK, Throws, Goes, Answers, Denied, windowVars, openVars, pastVars
  <2>6. ASSUME NEW r \in Requests, WindowAnswers(r)
        PROVE  TypeOK'
    <3>1. win' \in [Requests -> WindowStates]
      BY <2>6 DEF TypeOK, WindowAnswers, WindowOpens, WindowFails, WindowStates
    <3>2. CASE WindowOpens(r)
      BY <3>1, <3>2 DEF TypeOK, WindowOpens, pastVars
    <3>3. CASE WindowFails(r)
      BY <3>1, <3>3 DEF TypeOK, WindowFails, workerVars, openVars, pastVars
    <3> QED
      BY <2>6, <3>2, <3>3 DEF WindowAnswers
  <2>19. ASSUME NEW r \in Requests, WindowKnown(r)
         PROVE  TypeOK'
    BY <2>19 DEF TypeOK, WindowKnown, windowVars, pastVars
  <2>7. ASSUME NEW r \in Requests, Fetch(r)
        PROVE  TypeOK'
    <3>1. pending[IdOf[r]] \in Requests \cup {None}
      BY DEF TypeOK
    <3>2. pendingConnect[IdOf[r]] \in Requests \cup {None}
      BY DEF TypeOK
    <3> QED
      BY <2>7, <3>1, <3>2 DEF TypeOK, Fetch, WindowStates, workerVars, openVars, pastVars
  <2>8. ASSUME NEW r \in Requests, Close(r)
        PROVE  TypeOK'
    BY <2>8 DEF TypeOK, Close, WindowStates, workerVars, openVars, pastVars
  <2>9. ASSUME NEW r \in Requests, NEW approve \in BOOLEAN, Click(r, approve)
        PROVE  TypeOK'
    <3>1. approve => shown[r] \in Requests
      BY <2>9 DEF TypeOK, Click, Offers, openVars, pastVars
    <3>2. decisions' \subseteq Requests \X BOOLEAN
      BY <2>9 DEF TypeOK, Click, openVars, pastVars
    <3>3. consent' \subseteq Requests
      BY <2>9, <3>1 DEF TypeOK, Click, openVars, pastVars
    <3> QED
      BY <2>9, <3>2, <3>3 DEF TypeOK, Click, workerVars, openVars, pastVars, windowVars
  <2>10. ASSUME NEW w \in Requests, NEW approve \in BOOLEAN, DecideConnect(w, approve)
         PROVE  TypeOK'
    <3>1. pendingConnect[IdOf[w]] \in Requests \cup {None}
      BY DEF TypeOK
    <3>2. AfterConnect(approve) \in InWorker \cup Answers
      BY DEF AfterConnect, InWorker, Answers, Denied
    <3>3. at' \in [Requests -> {"unsent"} \cup InWorker \cup Answers]
      BY <2>10, <3>1, <3>2 DEF TypeOK, DecideConnect, Goes
    <3>4. /\ pendingConnect' \in [Ids -> Requests \cup {None}]
          /\ decisions' \subseteq Requests \X BOOLEAN
      BY <2>10 DEF TypeOK, DecideConnect
    <3> QED
      BY <2>10, <3>3, <3>4 DEF TypeOK, DecideConnect, windowVars, openVars, pastVars
  <2>11. ASSUME NEW w \in Requests, NEW approve \in BOOLEAN, Decide(w, approve)
         PROVE  TypeOK'
    <3>1. pending[IdOf[w]] \in Requests \cup {None}
      BY DEF TypeOK
    <3> QED
      BY <2>11, <3>1 DEF TypeOK, Decide, Goes, InWorker, Answers, Denied, windowVars, openVars, pastVars
  <2>12. ASSUME NEW w \in Requests, OnRemoved(w)
         PROVE  TypeOK'
    <3>1. pendingConnect[IdOf[w]] \in Requests \cup {None}
      BY DEF TypeOK
    <3>2. CASE w \in connectWindows /\ pendingConnect[IdOf[w]] # None
      BY <2>12, <3>1, <3>2 DEF TypeOK, OnRemoved, Goes, AfterConnect, Answers, Denied, windowVars, openVars, pastVars
    <3>3. CASE ~(w \in connectWindows /\ pendingConnect[IdOf[w]] # None)
      BY <2>12, <3>3 DEF TypeOK, OnRemoved, windowVars, openVars, pastVars
    <3> QED
      BY <3>2, <3>3
  <2>13. ASSUME NEW r \in Requests, Sign(r)
         PROVE  TypeOK'
    BY <2>13 DEF TypeOK, Sign, Goes, Answers, Granted, Denied, windowVars, openVars, pastVars
  <2>14. ASSUME NEW r \in Requests, MarkGet(r)
         PROVE  TypeOK'
    BY <2>14 DEF TypeOK, MarkGet, Goes, InWorker, Answers, Granted, windowVars, openVars, pastVars
  <2>15. ASSUME NEW r \in Requests, MarkPut(r)
         PROVE  TypeOK'
    <3>1. at' \in [Requests -> {"unsent"} \cup InWorker \cup Answers]
      BY <2>15 DEF TypeOK, MarkPut, Goes, Answers, Granted
    <3>2. connected' \subseteq Origins
      BY <2>15 DEF TypeOK, MarkPut
    <3> QED
      BY <2>15, <3>1, <3>2 DEF TypeOK, MarkPut, windowVars, openVars, pastVars
  <2>18. ASSUME NEW r \in Requests, NEW approve \in BOOLEAN, RelayDecision(r, approve)
         PROVE  TypeOK'
    BY <2>18 DEF TypeOK, RelayDecision, workerVars, openVars, pastVars, windowVars
  <2>16. CASE Restart
    <3>1. connected' \subseteq Origins
      BY <2>16 DEF TypeOK, Restart, openVars, pastVars
    <3>2. at' \in [Requests -> {"unsent"} \cup InWorker \cup Answers]
      BY <2>16 DEF TypeOK, Restart, Answers, Denied, openVars, pastVars
    <3>3. win' \in [Requests -> WindowStates]
      BY <2>16 DEF TypeOK, Restart, WindowStates, openVars, pastVars
    <3> QED
      BY <2>16, <3>1, <3>2, <3>3 DEF TypeOK, Restart, openVars, pastVars
  <2>17. CASE UNCHANGED vars
    BY <2>17 DEF TypeOK, vars
  <2> QED
    BY <2>1, <2>2, <2>3, <2>4, <2>5, <2>6, <2>7, <2>8, <2>9, <2>10, <2>11, <2>12,
       <2>13, <2>14, <2>15, <2>16, <2>17, <2>18, <2>19 DEF Next, Proceed, Deliver
<1> QED
  BY <1>1, <1>2, PTL DEF Spec

----------------------------------------------------------------------------
\* The inductive invariant.  With ids of their own, requests cannot meet in the
\* maps: the slot of an id holds the request that carries it exactly while that
\* request waits, so a screen shows the request of its own window, a decision
\* concerns the request it was clicked for, and consent precedes every grant.

Slots ==
  /\ \A r \in Requests :
       /\ pending[IdOf[r]] = IF r \in Signs /\ at[r] = "waiting" THEN r ELSE None
       /\ pendingConnect[IdOf[r]] = IF r \in Connects /\ at[r] = "waiting" THEN r ELSE None
  /\ \A id \in Ids : (\A r \in Requests : IdOf[r] # id) =>
       pending[id] = None /\ pendingConnect[id] = None

Kinds ==
  /\ \A r \in Requests : at[r] \in {"checking", "building", "signing", "signed"} => r \in Signs
  /\ \A r \in Requests : at[r] \in {"marking", "putting", "connected"} => r \in Connects
  /\ blocked \subseteq Signs

\* A request that the user may have been asked about.
Asked(r) == at[r] \notin {"unsent", "checking", "building"}

ShownIsOwn == \A w \in Requests : shown[w] # None => shown[w] = w /\ Asked(w)

\* An approval in flight is of a request the user consented to.
Approving(w) == <<w, TRUE>> \in decisions

ConsentFirst ==
  /\ \A r \in consent : Asked(r)
  /\ \A w \in Requests : Approving(w) => w \in consent \cup relayed
  /\ \A r \in Requests : at[r] \in {"marking", "putting", "signing"} => r \in consent \cup relayed

Approved(o) == \E c \in Connects \cap (consent \cup relayed) : OriginOf[c] = o

OriginsApproved ==
  /\ \A o \in connected : Approved(o)
  /\ \A r \in Requests : \A o \in read[r] : Approved(o)
  /\ \A s \in Signs :
       (at[s] \in {"building", "waiting", "signing", "signed"} \/ shown[s] # None)
         => Approved(OriginOf[s])

ApprovalInv == TypeOK /\ Slots /\ Kinds /\ ShownIsOwn /\ ConsentFirst /\ OriginsApproved

\* A slot is filled when its request begins to wait, and emptied in the same step as
\* the request stops waiting.
LEMMA KeepsSlots ==
  ASSUME DistinctIds, TypeOK, Slots, Kinds, ShownIsOwn, ConsentFirst, OriginsApproved,
         [Next]_vars
  PROVE  Slots'
<1> USE RequestAssumption DEF TypeOK, Slots, Signs
<1>1. ASSUME NEW r \in Requests, AskConnect(r)
      PROVE  Slots'
  BY <1>1, DistinctIds DEF DistinctIds, AskConnect, Goes, OpensWindow, openVars, pastVars
<1>2. ASSUME NEW r \in Requests, AskSign(r)
      PROVE  Slots'
  BY <1>2 DEF AskSign, Goes, windowVars, openVars, pastVars
<1>3. ASSUME NEW r \in Requests, CheckOrigin(r)
      PROVE  Slots'
  BY <1>3 DEF CheckOrigin, Goes, windowVars, openVars, pastVars
<1>4. ASSUME NEW r \in Requests, Build(r)
      PROVE  Slots'
  BY <1>4, DistinctIds DEF DistinctIds, Kinds, Build, Goes, OpensWindow, openVars, pastVars
<1>5. ASSUME NEW r \in Requests, Throws(r)
      PROVE  Slots'
  BY <1>5 DEF Throws, Goes, InWorker, windowVars, openVars, pastVars
<1>6. ASSUME NEW r \in Requests, WindowAnswers(r)
      PROVE  Slots'
  BY <1>6 DEF WindowAnswers, WindowOpens, WindowFails, workerVars, openVars, pastVars
<1>19. ASSUME NEW r \in Requests, WindowKnown(r)
      PROVE  Slots'
  BY <1>19 DEF WindowKnown, windowVars, pastVars
<1>7. ASSUME NEW r \in Requests, Fetch(r)
      PROVE  Slots'
  BY <1>7 DEF Fetch, workerVars, openVars, pastVars
<1>8. ASSUME NEW r \in Requests, Close(r)
      PROVE  Slots'
  BY <1>8 DEF Close, workerVars, openVars, pastVars
<1>9. ASSUME NEW r \in Requests, NEW approve \in BOOLEAN, Click(r, approve)
      PROVE  Slots'
  BY <1>9 DEF Click, Offers, workerVars, openVars, pastVars, windowVars
<1>10. ASSUME NEW r \in Requests, NEW approve \in BOOLEAN, DecideConnect(r, approve)
      PROVE  Slots'
  BY <1>10 DEF DecideConnect, Goes, AfterConnect, windowVars, openVars, pastVars
<1>11. ASSUME NEW r \in Requests, NEW approve \in BOOLEAN, Decide(r, approve)
      PROVE  Slots'
  BY <1>11 DEF Decide, Goes, windowVars, openVars, pastVars
<1>12. ASSUME NEW r \in Requests, OnRemoved(r)
      PROVE  Slots'
  BY <1>12 DEF OnRemoved, Goes, AfterConnect, windowVars, openVars, pastVars
<1>13. ASSUME NEW r \in Requests, Sign(r)
      PROVE  Slots'
  BY <1>13 DEF Sign, Goes, windowVars, openVars, pastVars
<1>14. ASSUME NEW r \in Requests, MarkGet(r)
      PROVE  Slots'
  BY <1>14 DEF MarkGet, Goes, windowVars, openVars, pastVars
<1>15. ASSUME NEW r \in Requests, MarkPut(r)
      PROVE  Slots'
  BY <1>15 DEF MarkPut, Goes, windowVars, openVars, pastVars
<1>18. ASSUME NEW r \in Requests, NEW approve \in BOOLEAN, RelayDecision(r, approve)
      PROVE  Slots'
  BY <1>18 DEF RelayDecision, workerVars, openVars, pastVars, windowVars
<1>16. CASE Restart
  BY <1>16 DEF Restart, InWorker, openVars, pastVars
<1>17. CASE UNCHANGED vars
  BY <1>17 DEF vars
<1> QED
  BY <1>1, <1>2, <1>3, <1>4, <1>5, <1>6, <1>7, <1>8, <1>9,
     <1>10, <1>11, <1>12, <1>13, <1>14, <1>15, <1>16, <1>17, <1>18, <1>19 DEF Next, Proceed, Deliver

\* A request stays on the path of its kind; only sign requests get findings.
LEMMA KeepsKinds ==
  ASSUME DistinctIds, TypeOK, Slots, Kinds, ShownIsOwn, ConsentFirst, OriginsApproved,
         [Next]_vars
  PROVE  Kinds'
<1> USE RequestAssumption DEF TypeOK, Kinds, Signs
<1>1. ASSUME NEW r \in Requests, AskConnect(r)
      PROVE  Kinds'
  BY <1>1 DEF AskConnect, Goes, OpensWindow, openVars, pastVars
<1>2. ASSUME NEW r \in Requests, AskSign(r)
      PROVE  Kinds'
  BY <1>2 DEF AskSign, Goes, windowVars, openVars, pastVars
<1>3. ASSUME NEW r \in Requests, CheckOrigin(r)
      PROVE  Kinds'
  BY <1>3 DEF CheckOrigin, Goes, windowVars, openVars, pastVars
<1>4. ASSUME NEW r \in Requests, Build(r)
      PROVE  Kinds'
  BY <1>4 DEF Build, Goes, OpensWindow, openVars, pastVars
<1>5. ASSUME NEW r \in Requests, Throws(r)
      PROVE  Kinds'
  BY <1>5 DEF Throws, Goes, InWorker, windowVars, openVars, pastVars
<1>6. ASSUME NEW r \in Requests, WindowAnswers(r)
      PROVE  Kinds'
  BY <1>6 DEF WindowAnswers, WindowOpens, WindowFails, workerVars, openVars, pastVars
<1>19. ASSUME NEW r \in Requests, WindowKnown(r)
      PROVE  Kinds'
  BY <1>19 DEF WindowKnown, windowVars, pastVars
<1>7. ASSUME NEW r \in Requests, Fetch(r)
      PROVE  Kinds'
  BY <1>7 DEF Fetch, workerVars, openVars, pastVars
<1>8. ASSUME NEW r \in Requests, Close(r)
      PROVE  Kinds'
  BY <1>8 DEF Close, workerVars, openVars, pastVars
<1>9. ASSUME NEW r \in Requests, NEW approve \in BOOLEAN, Click(r, approve)
      PROVE  Kinds'
  BY <1>9 DEF Click, Offers, workerVars, openVars, pastVars, windowVars
<1>10. ASSUME NEW r \in Requests, NEW approve \in BOOLEAN, DecideConnect(r, approve)
      PROVE  Kinds'
  BY <1>10 DEF Slots, DecideConnect, Goes, AfterConnect, windowVars, openVars, pastVars
<1>11. ASSUME NEW r \in Requests, NEW approve \in BOOLEAN, Decide(r, approve)
      PROVE  Kinds'
  BY <1>11 DEF Slots, Decide, Goes, windowVars, openVars, pastVars
<1>12. ASSUME NEW r \in Requests, OnRemoved(r)
      PROVE  Kinds'
  BY <1>12 DEF OnRemoved, Goes, AfterConnect, windowVars, openVars, pastVars
<1>13. ASSUME NEW r \in Requests, Sign(r)
      PROVE  Kinds'
  BY <1>13 DEF Sign, Goes, windowVars, openVars, pastVars
<1>14. ASSUME NEW r \in Requests, MarkGet(r)
      PROVE  Kinds'
  BY <1>14, DistinctIds DEF DistinctIds, MarkGet, Goes, windowVars, openVars, pastVars
<1>15. ASSUME NEW r \in Requests, MarkPut(r)
      PROVE  Kinds'
  BY <1>15 DEF MarkPut, Goes, windowVars, openVars, pastVars
<1>18. ASSUME NEW r \in Requests, NEW approve \in BOOLEAN, RelayDecision(r, approve)
      PROVE  Kinds'
  BY <1>18 DEF RelayDecision, workerVars, openVars, pastVars, windowVars
<1>16. CASE Restart
  BY <1>16 DEF Restart, InWorker, openVars, pastVars
<1>17. CASE UNCHANGED vars
  BY <1>17 DEF vars
<1> QED
  BY <1>1, <1>2, <1>3, <1>4, <1>5, <1>6, <1>7, <1>8, <1>9,
     <1>10, <1>11, <1>12, <1>13, <1>14, <1>15, <1>16, <1>17, <1>18, <1>19 DEF Next, Proceed, Deliver

\* A window fetches by the id of its own request.
LEMMA KeepsShownIsOwn ==
  ASSUME DistinctIds, TypeOK, Slots, Kinds, ShownIsOwn, ConsentFirst, OriginsApproved,
         [Next]_vars
  PROVE  ShownIsOwn'
<1> USE RequestAssumption DEF TypeOK, ShownIsOwn, Asked, Slots
<1>1. ASSUME NEW r \in Requests, AskConnect(r)
      PROVE  ShownIsOwn'
  BY <1>1 DEF AskConnect, Goes, OpensWindow, openVars, pastVars
<1>2. ASSUME NEW r \in Requests, AskSign(r)
      PROVE  ShownIsOwn'
  BY <1>2 DEF AskSign, Goes, windowVars, openVars, pastVars
<1>3. ASSUME NEW r \in Requests, CheckOrigin(r)
      PROVE  ShownIsOwn'
  BY <1>3 DEF CheckOrigin, Goes, windowVars, openVars, pastVars
<1>4. ASSUME NEW r \in Requests, Build(r)
      PROVE  ShownIsOwn'
  BY <1>4 DEF Build, Goes, OpensWindow, openVars, pastVars
<1>5. ASSUME NEW r \in Requests, Throws(r)
      PROVE  ShownIsOwn'
  BY <1>5 DEF Throws, Goes, InWorker, windowVars, openVars, pastVars
<1>6. ASSUME NEW r \in Requests, WindowAnswers(r)
      PROVE  ShownIsOwn'
  BY <1>6 DEF WindowAnswers, WindowOpens, WindowFails, workerVars, openVars, pastVars
<1>19. ASSUME NEW r \in Requests, WindowKnown(r)
      PROVE  ShownIsOwn'
  BY <1>19 DEF WindowKnown, windowVars, pastVars
<1>7. ASSUME NEW r \in Requests, Fetch(r)
      PROVE  ShownIsOwn'
  BY <1>7 DEF Fetch, workerVars, openVars, pastVars
<1>8. ASSUME NEW r \in Requests, Close(r)
      PROVE  ShownIsOwn'
  BY <1>8 DEF Close, workerVars, openVars, pastVars
<1>9. ASSUME NEW r \in Requests, NEW approve \in BOOLEAN, Click(r, approve)
      PROVE  ShownIsOwn'
  BY <1>9 DEF Click, Offers, workerVars, openVars, pastVars, windowVars
<1>10. ASSUME NEW r \in Requests, NEW approve \in BOOLEAN, DecideConnect(r, approve)
      PROVE  ShownIsOwn'
  BY <1>10 DEF DecideConnect, Goes, AfterConnect, windowVars, openVars, pastVars
<1>11. ASSUME NEW r \in Requests, NEW approve \in BOOLEAN, Decide(r, approve)
      PROVE  ShownIsOwn'
  BY <1>11 DEF Decide, Goes, windowVars, openVars, pastVars
<1>12. ASSUME NEW r \in Requests, OnRemoved(r)
      PROVE  ShownIsOwn'
  BY <1>12 DEF OnRemoved, Goes, AfterConnect, windowVars, openVars, pastVars
<1>13. ASSUME NEW r \in Requests, Sign(r)
      PROVE  ShownIsOwn'
  BY <1>13 DEF Sign, Goes, windowVars, openVars, pastVars
<1>14. ASSUME NEW r \in Requests, MarkGet(r)
      PROVE  ShownIsOwn'
  BY <1>14 DEF MarkGet, Goes, windowVars, openVars, pastVars
<1>15. ASSUME NEW r \in Requests, MarkPut(r)
      PROVE  ShownIsOwn'
  BY <1>15 DEF MarkPut, Goes, windowVars, openVars, pastVars
<1>18. ASSUME NEW r \in Requests, NEW approve \in BOOLEAN, RelayDecision(r, approve)
      PROVE  ShownIsOwn'
  BY <1>18 DEF RelayDecision, workerVars, openVars, pastVars, windowVars
<1>16. CASE Restart
  BY <1>16 DEF Restart, InWorker, openVars, pastVars
<1>17. CASE UNCHANGED vars
  BY <1>17 DEF vars
<1> QED
  BY <1>1, <1>2, <1>3, <1>4, <1>5, <1>6, <1>7, <1>8, <1>9,
     <1>10, <1>11, <1>12, <1>13, <1>14, <1>15, <1>16, <1>17, <1>18, <1>19 DEF Next, Proceed, Deliver

\* A request goes on from "waiting" only by a decision that was clicked for it.
LEMMA KeepsConsentFirst ==
  ASSUME DistinctIds, TypeOK, Slots, Kinds, ShownIsOwn, ConsentFirst, OriginsApproved,
         [Next]_vars
  PROVE  ConsentFirst'
<1> USE RequestAssumption DEF TypeOK, ConsentFirst, Asked, ShownIsOwn, Slots, Approving
<1>1. ASSUME NEW r \in Requests, AskConnect(r)
      PROVE  ConsentFirst'
  BY <1>1, DistinctIds DEF DistinctIds, AskConnect, Goes, OpensWindow, openVars, pastVars
<1>2. ASSUME NEW r \in Requests, AskSign(r)
      PROVE  ConsentFirst'
  BY <1>2 DEF AskSign, Goes, windowVars, openVars, pastVars
<1>3. ASSUME NEW r \in Requests, CheckOrigin(r)
      PROVE  ConsentFirst'
  BY <1>3 DEF CheckOrigin, Goes, windowVars, openVars, pastVars
<1>4. ASSUME NEW r \in Requests, Build(r)
      PROVE  ConsentFirst'
  BY <1>4 DEF Build, Goes, OpensWindow, openVars, pastVars
<1>5. ASSUME NEW r \in Requests, Throws(r)
      PROVE  ConsentFirst'
  BY <1>5, DistinctIds DEF DistinctIds, Throws, Goes, InWorker, windowVars, openVars, pastVars
<1>6. ASSUME NEW r \in Requests, WindowAnswers(r)
      PROVE  ConsentFirst'
  BY <1>6 DEF WindowAnswers, WindowOpens, WindowFails, workerVars, openVars, pastVars
<1>19. ASSUME NEW r \in Requests, WindowKnown(r)
      PROVE  ConsentFirst'
  BY <1>19 DEF WindowKnown, windowVars, pastVars
<1>7. ASSUME NEW r \in Requests, Fetch(r)
      PROVE  ConsentFirst'
  BY <1>7 DEF Fetch, workerVars, openVars, pastVars
<1>8. ASSUME NEW r \in Requests, Close(r)
      PROVE  ConsentFirst'
  BY <1>8 DEF Close, workerVars, openVars, pastVars
<1>9. ASSUME NEW r \in Requests, NEW approve \in BOOLEAN, Click(r, approve)
      PROVE  ConsentFirst'
  BY <1>9 DEF Click, Offers, workerVars, openVars, pastVars, windowVars
<1>10. ASSUME NEW r \in Requests, NEW approve \in BOOLEAN, DecideConnect(r, approve)
      PROVE  ConsentFirst'
  <2>1. UNCHANGED <<consent, relayed>> /\ (approve = TRUE => Approving(r))
    BY <1>10 DEF DecideConnect, pastVars
  <2>2. \A w \in Requests : Approving(w)' => Approving(w)
    BY <1>10 DEF DecideConnect
  <2>3. \A q \in Requests : at'[q] = at[q] \/ at'[q] = "rejected"
                             \/ (q = r /\ approve = TRUE /\ at'[q] = "marking")
    BY <1>10 DEF DecideConnect, Goes, AfterConnect
  <2> HIDE DEF Approving
  <2> QED
    BY <2>1, <2>2, <2>3
<1>11. ASSUME NEW r \in Requests, NEW approve \in BOOLEAN, Decide(r, approve)
      PROVE  ConsentFirst'
  <2>1. UNCHANGED <<consent, relayed>> /\ (approve = TRUE => Approving(r))
    BY <1>11 DEF Decide, pastVars
  <2>2. \A w \in Requests : Approving(w)' => Approving(w)
    BY <1>11 DEF Decide
  <2>3. \A q \in Requests : at'[q] = at[q] \/ at'[q] = "rejected"
                             \/ (q = r /\ approve = TRUE /\ at'[q] = "signing")
    BY <1>11 DEF Decide, Goes
  <2> HIDE DEF Approving
  <2> QED
    BY <2>1, <2>2, <2>3
<1>12. ASSUME NEW r \in Requests, OnRemoved(r)
      PROVE  ConsentFirst'
  <2>1. UNCHANGED <<consent, relayed, decisions>>
    BY <1>12 DEF OnRemoved
  <2>2. \A q \in Requests : at'[q] = at[q] \/ at'[q] = "rejected"
    BY <1>12 DEF OnRemoved, Goes, AfterConnect
  <2>3. \A w \in Requests : Approving(w)' => Approving(w)
    BY <2>1
  <2> HIDE DEF Approving
  <2> QED
    BY <2>1, <2>2, <2>3
<1>13. ASSUME NEW r \in Requests, Sign(r)
      PROVE  ConsentFirst'
  BY <1>13 DEF Sign, Goes, windowVars, openVars, pastVars
<1>14. ASSUME NEW r \in Requests, MarkGet(r)
      PROVE  ConsentFirst'
  BY <1>14 DEF MarkGet, Goes, windowVars, openVars, pastVars
<1>15. ASSUME NEW r \in Requests, MarkPut(r)
      PROVE  ConsentFirst'
  BY <1>15 DEF MarkPut, Goes, windowVars, openVars, pastVars
<1>18. ASSUME NEW r \in Requests, NEW approve \in BOOLEAN, RelayDecision(r, approve)
      PROVE  ConsentFirst'
  BY <1>18 DEF RelayDecision, workerVars, openVars, pastVars, windowVars
<1>16. CASE Restart
  BY <1>16 DEF Restart, InWorker, openVars, pastVars
<1>17. CASE UNCHANGED vars
  BY <1>17 DEF vars
<1> HIDE DEF TypeOK, ConsentFirst, Asked, ShownIsOwn, Slots, Approving
<1> QED
  BY <1>1, <1>2, <1>3, <1>4, <1>5, <1>6, <1>7, <1>8, <1>9,
     <1>10, <1>11, <1>12, <1>13, <1>14, <1>15, <1>16, <1>17, <1>18, <1>19 DEF Next, Proceed, Deliver

\* markConnected() writes what it read and an origin that was just approved.
LEMMA KeepsOriginsApproved ==
  ASSUME DistinctIds, TypeOK, Slots, Kinds, ShownIsOwn, ConsentFirst, OriginsApproved,
         [Next]_vars
  PROVE  OriginsApproved'
<1> USE RequestAssumption DEF TypeOK, OriginsApproved, Approved, Kinds, ConsentFirst, Slots, Signs
<1>1. ASSUME NEW r \in Requests, AskConnect(r)
      PROVE  OriginsApproved'
  BY <1>1 DEF AskConnect, Goes, OpensWindow, openVars, pastVars
<1>2. ASSUME NEW r \in Requests, AskSign(r)
      PROVE  OriginsApproved'
  BY <1>2 DEF AskSign, Goes, windowVars, openVars, pastVars
<1>3. ASSUME NEW r \in Requests, CheckOrigin(r)
      PROVE  OriginsApproved'
  BY <1>3 DEF CheckOrigin, Goes, windowVars, openVars, pastVars
<1>4. ASSUME NEW r \in Requests, Build(r)
      PROVE  OriginsApproved'
  BY <1>4 DEF Build, Goes, OpensWindow, openVars, pastVars
<1>5. ASSUME NEW r \in Requests, Throws(r)
      PROVE  OriginsApproved'
  BY <1>5 DEF Throws, Goes, InWorker, windowVars, openVars, pastVars
<1>6. ASSUME NEW r \in Requests, WindowAnswers(r)
      PROVE  OriginsApproved'
  BY <1>6 DEF WindowAnswers, WindowOpens, WindowFails, workerVars, openVars, pastVars
<1>19. ASSUME NEW r \in Requests, WindowKnown(r)
      PROVE  OriginsApproved'
  BY <1>19 DEF WindowKnown, windowVars, pastVars
<1>7. ASSUME NEW r \in Requests, Fetch(r)
      PROVE  OriginsApproved'
  BY <1>7 DEF Fetch, workerVars, openVars, pastVars
<1>8. ASSUME NEW r \in Requests, Close(r)
      PROVE  OriginsApproved'
  BY <1>8 DEF Close, workerVars, openVars, pastVars
<1>9. ASSUME NEW r \in Requests, NEW approve \in BOOLEAN, Click(r, approve)
      PROVE  OriginsApproved'
  BY <1>9 DEF Click, Offers, workerVars, openVars, pastVars, windowVars
<1>10. ASSUME NEW r \in Requests, NEW approve \in BOOLEAN, DecideConnect(r, approve)
      PROVE  OriginsApproved'
  BY <1>10 DEF DecideConnect, Goes, AfterConnect, windowVars, openVars, pastVars
<1>11. ASSUME NEW r \in Requests, NEW approve \in BOOLEAN, Decide(r, approve)
      PROVE  OriginsApproved'
  BY <1>11 DEF Decide, Goes, windowVars, openVars, pastVars
<1>12. ASSUME NEW r \in Requests, OnRemoved(r)
      PROVE  OriginsApproved'
  BY <1>12 DEF OnRemoved, Goes, AfterConnect, windowVars, openVars, pastVars
<1>13. ASSUME NEW r \in Requests, Sign(r)
      PROVE  OriginsApproved'
  BY <1>13 DEF Sign, Goes, windowVars, openVars, pastVars
<1>14. ASSUME NEW r \in Requests, MarkGet(r)
      PROVE  OriginsApproved'
  BY <1>14 DEF MarkGet, Goes, windowVars, openVars, pastVars
<1>15. ASSUME NEW r \in Requests, MarkPut(r)
      PROVE  OriginsApproved'
  BY <1>15 DEF MarkPut, Goes, windowVars, openVars, pastVars
<1>18. ASSUME NEW r \in Requests, NEW approve \in BOOLEAN, RelayDecision(r, approve)
      PROVE  OriginsApproved'
  BY <1>18 DEF RelayDecision, workerVars, openVars, pastVars, windowVars
<1>16. CASE Restart
  BY <1>16 DEF Restart, InWorker, openVars, pastVars
<1>17. CASE UNCHANGED vars
  BY <1>17 DEF vars
<1> QED
  BY <1>1, <1>2, <1>3, <1>4, <1>5, <1>6, <1>7, <1>8, <1>9,
     <1>10, <1>11, <1>12, <1>13, <1>14, <1>15, <1>16, <1>17, <1>18, <1>19 DEF Next, Proceed, Deliver

----------------------------------------------------------------------------
\* The worker starts with empty maps and nothing connected.
LEMMA InitApprovalInv ==
  ASSUME Init
  PROVE  ApprovalInv
<1> USE RequestAssumption DEF Init
<1>1. TypeOK
  BY DEF TypeOK, WindowStates
<1>2. Slots
  BY DEF Slots
<1>3. Kinds /\ ShownIsOwn /\ ConsentFirst
  BY DEF Kinds, ShownIsOwn, ConsentFirst, Approving
<1>4. OriginsApproved
  BY DEF OriginsApproved, Signs
<1> QED
  BY <1>1, <1>2, <1>3, <1>4 DEF ApprovalInv

\* The five parts together are inductive.
LEMMA Inductive ==
  ASSUME DistinctIds
  PROVE  Spec => []ApprovalInv
<1>1. Spec => []TypeOK
  BY TypeCorrect
<1>2. ApprovalInv /\ TypeOK' /\ [Next]_vars => ApprovalInv'
  <2> SUFFICES ASSUME ApprovalInv, TypeOK', [Next]_vars
               PROVE  ApprovalInv'
    OBVIOUS
  <2>1. TypeOK /\ Slots /\ Kinds /\ ShownIsOwn /\ ConsentFirst /\ OriginsApproved
    BY DEF ApprovalInv
  <2>2. Slots'
    BY <2>1, DistinctIds, KeepsSlots
  <2>3. Kinds'
    BY <2>1, DistinctIds, KeepsKinds
  <2>4. ShownIsOwn'
    BY <2>1, DistinctIds, KeepsShownIsOwn
  <2>5. ConsentFirst'
    BY <2>1, DistinctIds, KeepsConsentFirst
  <2>6. OriginsApproved'
    BY <2>1, DistinctIds, KeepsOriginsApproved
  <2> QED
    BY <2>2, <2>3, <2>4, <2>5, <2>6 DEF ApprovalInv
<1> QED
  BY <1>1, <1>2, InitApprovalInv, PTL DEF Spec

\* No promise is orphaned and no entry left over: the two maps hold exactly the
\* requests that wait for the user (requestConnect, signAndSend, finalize).
THEOREM NothingIsLost ==
  ASSUME DistinctIds
  PROVE  Spec => []RegistryIsExact
<1>1. ApprovalInv => RegistryIsExact
  <2> SUFFICES ASSUME TypeOK, Slots
               PROVE  Waiting = Registered \ {None}
    BY DEF ApprovalInv, RegistryIsExact
  <2>1. ASSUME NEW r \in Waiting
        PROVE  r \in Registered \ {None}
    <3>1. r \in Requests /\ at[r] = "waiting" /\ r # None /\ IdOf[r] \in Ids
      BY <2>1, RequestAssumption DEF Waiting
    <3>2. pending[IdOf[r]] = r \/ pendingConnect[IdOf[r]] = r
      BY <3>1 DEF Slots, Signs
    <3> QED
      BY <3>1, <3>2 DEF Registered
  <2>2. ASSUME NEW r \in Registered, r # None
        PROVE  r \in Waiting
    <3>1. PICK id \in Ids : r = pending[id] \/ r = pendingConnect[id]
      BY <2>2 DEF Registered
    <3>2. PICK q \in Requests : IdOf[q] = id
      BY <2>2, <3>1 DEF Slots
    <3> QED
      BY <2>2, <3>1, <3>2 DEF Slots, Waiting
  <2> QED
    BY <2>1, <2>2
<1> QED
  BY <1>1, Inductive, DistinctIds, PTL

\* The allow-list is enforced at the sign entry: a request is built, shown or
\* signed only for a named origin that a connect request named which the user
\* approved on its screen, or a page by a message of its own (signAndSend,
\* markConnected).
THEOREM ConnectComesFirst ==
  ASSUME DistinctIds
  PROVE  Spec => []AdmittedWasConnected
<1>1. ApprovalInv => AdmittedWasConnected
  BY DEF ApprovalInv, OriginsApproved, Approved, AdmittedWasConnected, Admitted
<1> QED
  BY <1>1, Inductive, DistinctIds, PTL

\* What waits stays attended: only its own decision or close event takes the last
\* way to an answer away, and that step answers it.
LEMMA KeepsAttended ==
  ASSUME DistinctIds, TypeOK, Slots, Kinds, WaitingIsAttended, [Next]_vars
  PROVE  WaitingIsAttended'
<1> USE RequestAssumption DEF TypeOK, WaitingIsAttended, Waiting, Signs
<1>1. ASSUME NEW r \in Requests, AskConnect(r)
      PROVE  WaitingIsAttended'
  BY <1>1 DEF AskConnect, OpensWindow, Goes, openVars, pastVars
<1>2. ASSUME NEW r \in Requests, AskSign(r)
      PROVE  WaitingIsAttended'
  BY <1>2 DEF AskSign, Goes, windowVars, openVars, pastVars
<1>3. ASSUME NEW r \in Requests, CheckOrigin(r)
      PROVE  WaitingIsAttended'
  BY <1>3 DEF CheckOrigin, Goes, windowVars, openVars, pastVars
<1>4. ASSUME NEW r \in Requests, Build(r)
      PROVE  WaitingIsAttended'
  BY <1>4 DEF Build, Goes, OpensWindow, openVars, pastVars
<1>5. ASSUME NEW r \in Requests, Throws(r)
      PROVE  WaitingIsAttended'
  BY <1>5 DEF Throws, Goes, windowVars, openVars, pastVars
<1>6. ASSUME NEW r \in Requests, WindowAnswers(r)
      PROVE  WaitingIsAttended'
  BY <1>6 DEF WindowAnswers, WindowOpens, WindowFails, workerVars, openVars, pastVars
<1>19. ASSUME NEW r \in Requests, WindowKnown(r)
      PROVE  WaitingIsAttended'
  BY <1>19 DEF WindowKnown, windowVars, pastVars
<1>7. ASSUME NEW r \in Requests, Fetch(r)
      PROVE  WaitingIsAttended'
  BY <1>7 DEF Fetch, Slots, workerVars, openVars, pastVars
<1>8. ASSUME NEW r \in Requests, Close(r)
      PROVE  WaitingIsAttended'
  BY <1>8 DEF Close, workerVars, openVars, pastVars
<1>9. ASSUME NEW r \in Requests, NEW approve \in BOOLEAN, Click(r, approve)
      PROVE  WaitingIsAttended'
  BY <1>9 DEF Click, workerVars, openVars, pastVars, windowVars
<1>10. ASSUME NEW w \in Requests, NEW approve \in BOOLEAN, DecideConnect(w, approve)
      PROVE  WaitingIsAttended'
  BY <1>10 DEF DecideConnect, Slots, Goes, AfterConnect, windowVars, openVars, pastVars
<1>11. ASSUME NEW w \in Requests, NEW approve \in BOOLEAN, Decide(w, approve)
      PROVE  WaitingIsAttended'
  BY <1>11 DEF Decide, Slots, Goes, windowVars, openVars, pastVars
<1>12. ASSUME NEW w \in Requests, OnRemoved(w)
      PROVE  WaitingIsAttended'
  BY <1>12 DEF OnRemoved, Slots, Goes, AfterConnect, windowVars, openVars, pastVars
<1>13. ASSUME NEW r \in Requests, Sign(r)
      PROVE  WaitingIsAttended'
  BY <1>13 DEF Sign, Goes, windowVars, openVars, pastVars
<1>14. ASSUME NEW r \in Requests, MarkGet(r)
      PROVE  WaitingIsAttended'
  BY <1>14 DEF MarkGet, Goes, windowVars, openVars, pastVars
<1>15. ASSUME NEW r \in Requests, MarkPut(r)
      PROVE  WaitingIsAttended'
  BY <1>15 DEF MarkPut, Goes, windowVars, openVars, pastVars
<1>18. ASSUME NEW r \in Requests, NEW approve \in BOOLEAN, RelayDecision(r, approve)
      PROVE  WaitingIsAttended'
  BY <1>18 DEF RelayDecision, workerVars, openVars, pastVars, windowVars
<1>16. CASE Restart
  BY <1>16 DEF Restart, InWorker, openVars, pastVars
<1>17. CASE UNCHANGED vars
  BY <1>17 DEF vars
<1> QED
  BY <1>1, <1>2, <1>3, <1>4, <1>5, <1>6, <1>7, <1>8, <1>9,
     <1>10, <1>11, <1>12, <1>13, <1>14, <1>15, <1>16, <1>17, <1>18, <1>19 DEF Next, Proceed, Deliver

\* What waits can still be answered, whatever windows are closed and whenever the
\* worker ends: only a sign window closed undecided, or a window that could not be
\* opened, leaves a request without anyone to answer it (openApprovalWindow,
\* windows.onRemoved, getSignRequest).
THEOREM WaitingCanBeAnswered ==
  ASSUME DistinctIds
  PROVE  Spec => []WaitingIsAttended
<1>1. Init => WaitingIsAttended
  BY DEF Init, WaitingIsAttended, Waiting
<1>2. ApprovalInv /\ WaitingIsAttended /\ [Next]_vars => WaitingIsAttended'
  BY DistinctIds, KeepsAttended DEF ApprovalInv
<1> QED
  BY <1>1, <1>2, Inductive, DistinctIds, PTL DEF Spec

----------------------------------------------------------------------------
\* The refinement.  bar is the register's view of where the requests are.

bar == [r \in Requests |-> Status(at[r])]

\* A request that moves changes its own status only.
LEMMA Moved ==
  ASSUME TypeOK, NEW r \in Requests, NEW place, Goes(r, place)
  PROVE  bar' = [bar EXCEPT ![r] = Status(place)]
BY DEF TypeOK, Goes, bar

\* The status of each kind of place.
LEMMA Statuses ==
  /\ Status("unsent") = "new"
  /\ \A place \in InWorker : Status(place) = "open"
  /\ \A place \in Granted : Status(place) = "granted"
  /\ \A place \in Denied : Status(place) = "denied"
BY DEF Status, InWorker, Granted, Denied

\* A request within the worker, or one that moves on inside it, stutters.
LEMMA StaysOpen ==
  ASSUME TypeOK, NEW r \in Requests, NEW place \in InWorker,
         at[r] \in InWorker, Goes(r, place)
  PROVE  bar' = bar
<1>1. bar' = [bar EXCEPT ![r] = Status(place)]
  BY Moved
<1>2. Status(place) = "open" /\ bar[r] = "open"
  BY Statuses DEF bar
<1> QED
  BY <1>1, <1>2 DEF bar

\* An answer that refuses denies one open request.
LEMMA Refuses ==
  ASSUME TypeOK, NEW r \in Requests, NEW place \in Denied,
         at[r] \in InWorker, Goes(r, place), UNCHANGED <<consent, relayed, blocked>>
  PROVE  Register!Deny({r})
<1>1. bar' = [bar EXCEPT ![r] = Status(place)]
  BY Moved
<1>2. Status(place) = "denied" /\ bar[r] = "open"
  BY Statuses DEF bar
<1>3. bar' = [q \in Requests |-> IF q \in {r} THEN "denied" ELSE bar[q]]
  BY <1>1, <1>2 DEF bar
<1> QED
  BY <1>2, <1>3 DEF Register!Deny, bar

\* An answer that grants does so with consent and without a veto.
LEMMA Grants ==
  ASSUME TypeOK, NEW r \in Requests, NEW place \in Granted,
         at[r] \in InWorker, r \in (consent \cup relayed) \ blocked, Goes(r, place),
         UNCHANGED <<consent, relayed, blocked>>
  PROVE  Register!Grant(r)
<1>1. bar' = [bar EXCEPT ![r] = Status(place)]
  BY Moved
<1>2. Status(place) = "granted" /\ bar[r] = "open"
  BY Statuses DEF bar
<1> QED
  BY <1>1, <1>2 DEF Register!Grant, bar

\* Denying and granting are steps of the register.
LEMMA RegisterSteps ==
  ASSUME NEW r \in Requests
  PROVE  /\ Register!Deny({r}) => Register!Next
         /\ Register!Grant(r) => Register!Next
BY DEF Register!Next

\* What the register sees of a step: its four variables.
View == <<bar, consent, relayed, blocked>>

\* Every step of the worker, the windows and the browser is one of the register.
LEMMA RegisterStep ==
  ASSUME DistinctIds, ApprovalInv, [Next]_vars
  PROVE  Register!Next \/ UNCHANGED View
<1> USE RequestAssumption
<1>1. TypeOK /\ Slots /\ Kinds /\ ShownIsOwn /\ ConsentFirst
  BY DEF ApprovalInv
<1>2. ASSUME NEW r \in Requests, AskConnect(r) \/ AskSign(r)
      PROVE  Register!Next
  <2>1. PICK place \in InWorker : Goes(r, place)
    BY <1>2 DEF AskConnect, AskSign, InWorker, openVars, pastVars
  <2>2. at[r] = "unsent" /\ UNCHANGED <<consent, relayed, blocked>>
    BY <1>2 DEF AskConnect, AskSign, openVars, pastVars
  <2>3. bar' = [bar EXCEPT ![r] = "open"]
    BY <1>1, <2>1, Moved, Statuses
  <2>4. bar[r] = "new"
    BY <2>2, Statuses DEF bar
  <2> QED
    BY <2>2, <2>3, <2>4 DEF Register!Next, Register!Open, bar
<1>3. ASSUME NEW r \in Requests, CheckOrigin(r)
      PROVE  Register!Next \/ UNCHANGED View
  <2>1. at[r] \in InWorker /\ UNCHANGED <<consent, relayed, blocked>>
    BY <1>3 DEF CheckOrigin, InWorker, openVars, pastVars
  <2>2. CASE OriginOf[r] \in connected
    <3>1. Goes(r, "building")
      BY <1>3, <2>2 DEF CheckOrigin, openVars, pastVars
    <3> QED
      BY <1>1, <2>1, <3>1, StaysOpen DEF InWorker, View
  <2>3. CASE OriginOf[r] \notin connected
    <3>1. Goes(r, "refused")
      BY <1>3, <2>3 DEF CheckOrigin, openVars, pastVars
    <3> QED
      BY <1>1, <2>1, <3>1, Refuses, RegisterSteps DEF Denied
  <2> QED
    BY <2>2, <2>3
<1>4. ASSUME NEW r \in Requests, Build(r)
      PROVE  Register!Next \/ UNCHANGED View
  <2>1. at[r] = "building" /\ Goes(r, "waiting") /\ UNCHANGED <<consent, relayed>>
    BY <1>4 DEF Build, pastVars
  <2>2. bar' = bar
    BY <1>1, <2>1, StaysOpen DEF InWorker
  <2>3. r \notin consent
    BY <1>1, <2>1 DEF ConsentFirst, Asked
  <2>4. bar[r] = "open"
    BY <2>1, Statuses DEF bar, InWorker
  <2>5. CASE blocked' = blocked
    BY <2>1, <2>2, <2>5 DEF View
  <2>6. CASE blocked' = blocked \cup {r}
    BY <2>1, <2>2, <2>3, <2>4, <2>6 DEF Register!Next, Register!Veto, bar
  <2> QED
    BY <1>4, <2>5, <2>6 DEF Build, openVars, pastVars
<1>5. ASSUME NEW r \in Requests, Throws(r)
      PROVE  Register!Next
  <2>1. at[r] \in InWorker /\ Goes(r, "failed") /\ UNCHANGED <<consent, relayed, blocked>>
    BY <1>5 DEF Throws, openVars, pastVars
  <2> QED
    BY <1>1, <2>1, Refuses, RegisterSteps DEF Denied
<1>6. ASSUME NEW r \in Requests, WindowAnswers(r) \/ WindowKnown(r) \/ Fetch(r) \/ Close(r)
      PROVE  UNCHANGED View
  BY <1>6 DEF WindowAnswers, WindowOpens, WindowKnown, WindowFails, Fetch, Close, workerVars, openVars, pastVars, View, bar
<1>7. ASSUME NEW w \in Requests, NEW approve \in BOOLEAN, Click(w, approve)
      PROVE  Register!Next \/ UNCHANGED View
  <2>1. shown[w] = w /\ Asked(w) /\ UNCHANGED <<at, blocked, relayed>>
    BY <1>1, <1>7 DEF Click, Offers, ShownIsOwn, workerVars, openVars, pastVars
  <2>2. bar' = bar
    BY <2>1 DEF bar
  <2>3. bar[w] # "new"
    BY <1>1, <2>1 DEF bar, Status, Asked, InWorker, Granted
  <2>4. CASE approve
    <3>1. consent' = consent \cup {w}
      BY <1>7, <2>1, <2>4 DEF Click, openVars, pastVars
    <3> QED
      BY <2>1, <2>2, <2>3, <3>1 DEF Register!Next, Register!Consent, bar
  <2>5. CASE ~approve
    BY <1>7, <2>1, <2>2, <2>5 DEF Click, View, openVars, pastVars
  <2> QED
    BY <2>4, <2>5
<1>8. ASSUME NEW w \in Requests, NEW approve \in BOOLEAN, DecideConnect(w, approve)
      PROVE  Register!Next \/ UNCHANGED View
  <2>1. UNCHANGED <<consent, relayed, blocked>>
    BY <1>8 DEF DecideConnect, openVars, pastVars
  <2>2. CASE pendingConnect[IdOf[w]] = None
    BY <1>8, <2>1, <2>2 DEF DecideConnect, View, bar, openVars, pastVars
  <2>3. CASE pendingConnect[IdOf[w]] # None
    <3>1. pendingConnect[IdOf[w]] = w /\ at[w] \in InWorker
      BY <1>1, <2>3 DEF Slots, InWorker
    <3>2. Goes(w, AfterConnect(approve))
      BY <1>8, <3>1 DEF DecideConnect, openVars, pastVars
    <3>3. CASE approve
      BY <1>1, <2>1, <3>1, <3>2, <3>3, StaysOpen DEF AfterConnect, InWorker, View
    <3>4. CASE ~approve
      BY <1>1, <2>1, <3>1, <3>2, <3>4, Refuses, RegisterSteps DEF AfterConnect, Denied
    <3> QED
      BY <3>3, <3>4
  <2> QED
    BY <2>2, <2>3
<1>9. ASSUME NEW w \in Requests, NEW approve \in BOOLEAN, Decide(w, approve)
      PROVE  Register!Next \/ UNCHANGED View
  <2>1. UNCHANGED <<consent, relayed, blocked>>
    BY <1>9 DEF Decide, openVars, pastVars
  <2>2. CASE pending[IdOf[w]] = None
    BY <1>9, <2>1, <2>2 DEF Decide, View, bar, openVars, pastVars
  <2>3. CASE pending[IdOf[w]] # None
    <3>1. pending[IdOf[w]] = w /\ at[w] \in InWorker
      BY <1>1, <2>3 DEF Slots, InWorker
    <3>2. Goes(w, IF approve THEN "signing" ELSE "rejected")
      BY <1>9, <3>1 DEF Decide, openVars, pastVars
    <3>3. CASE approve
      BY <1>1, <2>1, <3>1, <3>2, <3>3, StaysOpen DEF InWorker, View
    <3>4. CASE ~approve
      BY <1>1, <2>1, <3>1, <3>2, <3>4, Refuses, RegisterSteps DEF Denied
    <3> QED
      BY <3>3, <3>4
  <2> QED
    BY <2>2, <2>3
<1>10. ASSUME NEW w \in Requests, OnRemoved(w)
       PROVE  Register!Next \/ UNCHANGED View
  <2>1. UNCHANGED <<consent, relayed, blocked>>
    BY <1>10 DEF OnRemoved, openVars, pastVars
  <2>2. CASE w \in connectWindows /\ pendingConnect[IdOf[w]] # None
    <3>1. pendingConnect[IdOf[w]] = w /\ at[w] \in InWorker
      BY <1>1, <2>2 DEF Slots, InWorker
    <3>2. Goes(w, "rejected")
      BY <1>10, <2>2, <3>1 DEF OnRemoved, AfterConnect, openVars, pastVars
    <3> QED
      BY <1>1, <2>1, <3>1, <3>2, Refuses, RegisterSteps DEF Denied
  <2>3. CASE ~(w \in connectWindows /\ pendingConnect[IdOf[w]] # None)
    BY <1>10, <2>1, <2>3 DEF OnRemoved, View, bar, openVars, pastVars
  <2> QED
    BY <2>2, <2>3
<1>11. ASSUME NEW r \in Requests, Sign(r)
       PROVE  Register!Next
  <2>1. at[r] = "signing" /\ UNCHANGED <<consent, relayed, blocked>>
    BY <1>11 DEF Sign, openVars, pastVars
  <2>2. CASE r \in blocked
    <3>1. Goes(r, "failed")
      BY <1>11, <2>2 DEF Sign, openVars, pastVars
    <3> QED
      BY <1>1, <2>1, <3>1, Refuses, RegisterSteps DEF InWorker, Denied
  <2>3. CASE r \notin blocked
    <3>1. Goes(r, "signed") /\ r \in consent \cup relayed
      BY <1>1, <1>11, <2>1, <2>3 DEF Sign, ConsentFirst, openVars, pastVars
    <3> QED
      BY <1>1, <2>1, <2>3, <3>1, Grants, RegisterSteps DEF InWorker, Granted
  <2> QED
    BY <2>2, <2>3
<1>12. ASSUME NEW r \in Requests, MarkGet(r) \/ MarkPut(r)
       PROVE  Register!Next \/ UNCHANGED View
  <2>1. at[r] \in {"marking", "putting"} /\ UNCHANGED <<consent, relayed, blocked>>
    BY <1>12 DEF MarkGet, MarkPut, openVars, pastVars
  <2>2. r \in (consent \cup relayed) \ blocked
    BY <1>1, <2>1 DEF ConsentFirst, Kinds, Signs
  <2>3. CASE Goes(r, "connected")
    BY <1>1, <2>1, <2>2, <2>3, Grants, RegisterSteps DEF InWorker, Granted
  <2>4. CASE Goes(r, "putting")
    BY <1>1, <2>1, <2>4, StaysOpen DEF InWorker, View
  <2> QED
    BY <1>12, <2>3, <2>4 DEF MarkGet, MarkPut, openVars, pastVars
<1>15. ASSUME NEW r \in Requests, NEW approve \in BOOLEAN, RelayDecision(r, approve)
       PROVE  Register!Next \/ UNCHANGED View
  <2>1. UNCHANGED <<at, consent, blocked>> /\ relayed' \in {relayed, relayed \cup {r}}
    BY <1>15 DEF RelayDecision, workerVars
  <2>2. bar' = bar
    BY <2>1 DEF bar
  <2> QED
    BY <2>1, <2>2 DEF Register!Next, Register!Relay, View, bar
<1>13. CASE Restart
  <2> DEFINE R == {r \in Requests : at[r] \in InWorker}
  <2>1. \A r \in R : bar[r] = "open"
    BY Statuses DEF bar
  <2>2. bar' = [r \in Requests |-> IF r \in R THEN "denied" ELSE bar[r]]
    BY <1>13, Statuses DEF Restart, bar, Denied, openVars, pastVars
  <2>3. UNCHANGED <<consent, relayed, blocked>>
    BY <1>13 DEF Restart, openVars, pastVars
  <2>4. Register!Deny(R)
    BY <2>1, <2>2, <2>3 DEF Register!Deny, bar
  <2> QED
    BY <2>4 DEF Register!Next
<1>14. CASE UNCHANGED vars
  BY <1>14 DEF vars, View, bar
<1> QED
  BY <1>2, <1>3, <1>4, <1>5, <1>6, <1>7, <1>8, <1>9, <1>10, <1>11, <1>12, <1>13, <1>14, <1>15
     DEF Next, Proceed, Deliver

\* Requests are answered once, and granted only with an approval of them, the
\* user's or a page's message, and no veto: Approvals implements ApprovalRegister.
THEOREM RequestsAreRegistered ==
  ASSUME DistinctIds
  PROVE  Spec => RegisterSpec
<1>1. Init => Register!Init
  BY Statuses DEF Init, Register!Init
<1>2. ApprovalInv /\ [Next]_vars => [Register!Next]_(Register!vars)
  BY DistinctIds, RegisterStep DEF Register!vars, View, bar
<1> QED
  BY <1>1, <1>2, Inductive, DistinctIds, PTL DEF Spec, RegisterSpec, Register!RegisterSpec
----------------------------------------------------------------------------
\* What the register promises, and so, by RequestsAreRegistered, the worker: what is
\* granted was approved and has no finding against it, and an answer is final.

GrantedIsConsented == \A r \in Requests : bar[r] = "granted" => r \in (consent \cup relayed) \ blocked
AnswersAreFinal == \A r \in Requests : bar[r] \in {"granted", "denied"} => bar'[r] = bar[r]

\* The abstract specification means what its comment says.
THEOREM RegisterIsSound ==
  RegisterSpec => []GrantedIsConsented /\ [][AnswersAreFinal]_View
<1> DEFINE Typed == bar \in [Requests -> {"new", "open", "granted", "denied"}]
           Good == Typed /\ GrantedIsConsented
<1>1. Register!Init => Good
  BY DEF Register!Init, bar, GrantedIsConsented
<1>2. ASSUME Good, NEW r \in Requests, Register!Open(r) \/ Register!Grant(r)
      PROVE  Good' /\ AnswersAreFinal
  BY <1>2 DEF Register!Open, Register!Grant, bar, GrantedIsConsented, AnswersAreFinal
<1>3. ASSUME Good, NEW r \in Requests,
             Register!Veto(r) \/ Register!Consent(r) \/ Register!Relay(r)
      PROVE  Good' /\ AnswersAreFinal
  BY <1>3 DEF Register!Veto, Register!Consent, Register!Relay, bar, GrantedIsConsented, AnswersAreFinal
<1>4. ASSUME Good, NEW R \in SUBSET Requests, Register!Deny(R)
      PROVE  Good' /\ AnswersAreFinal
  BY <1>4 DEF Register!Deny, bar, GrantedIsConsented, AnswersAreFinal
<1>5. Good /\ UNCHANGED View => Good'
  BY DEF View, GrantedIsConsented
<1>6. Good /\ [Register!Next]_(Register!vars) => Good' /\ [AnswersAreFinal]_View
  <2>1. Register!vars = View /\ Register!vars' = View'
    BY DEF Register!vars, View, bar
  <2> QED
    BY <1>2, <1>3, <1>4, <1>5, <2>1 DEF Register!Next
<1>7. Good => GrantedIsConsented
  OBVIOUS
<1> QED
  BY <1>1, <1>6, <1>7, PTL DEF RegisterSpec, Register!RegisterSpec

\* A request for which no page posts an approval of its own is granted only with the
\* user's consent, given on a screen that showed it, and no finding against it
\* (finalize, decideConnect, windows.onRemoved).
THEOREM QuietPagesNeedConsent ==
  ASSUME DistinctIds
  PROVE  Spec => [](\A r \in Requests :
                      at[r] \in Granted /\ <<r, TRUE>> \notin Posted => r \in consent \ blocked)
<1> DEFINE Consented == \A r \in Requests :
             at[r] \in Granted /\ <<r, TRUE>> \notin Posted => r \in consent \ blocked
<1>1. TypeOK /\ GrantedIsConsented => Consented
  BY Statuses DEF TypeOK, GrantedIsConsented, bar
<1> QED
  BY <1>1, TypeCorrect, RequestsAreRegistered, RegisterIsSound, DistinctIds, PTL
=============================================================================
