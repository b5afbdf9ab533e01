----------------------------- MODULE Approvals -----------------------------
(***************************************************************************)
(* Connect and sign requests of dApps (src/worker/background.ts), the      *)
(* approval windows the worker opens for them (src/ui/App.tsx, screens/    *)
(* ConnectScreen.tsx, SignScreen.tsx) and the relay that answers the page  *)
(* when the worker cannot (src/provider/content-script.ts).                *)
(*                                                                         *)
(* Every action is the code between two awaits of one handler, one click,  *)
(* or one event of the browser; messages between windows and worker are in *)
(* flight for as long as they like.  Whether the worker has the key when   *)
(* it signs belongs to the session: here signing works or throws.          *)
(***************************************************************************)
EXTENDS Naturals

CONSTANTS
  Requests,   \* calls of connect() and signAndSend()
  Connects,   \* those of connect()
  Origins,    \* the origins of the calling pages
  OriginOf,   \* the origin each request names: msg.origin, not the sender's
  Ids,        \* request ids, made by each page from its clock and a counter
  IdOf,       \* the id each request carries
  Posted,     \* the decisions, <<request, approve>>, that pages post of their own accord
  None        \* no such entry in a map

ASSUME RequestAssumption ==
  /\ Connects \subseteq Requests
  /\ OriginOf \in [Requests -> Origins]
  /\ IdOf \in [Requests -> Ids]
  /\ Posted \subseteq Requests \X BOOLEAN
  /\ None \notin Requests

\* The pages do not coordinate their ids; the properties are about requests
\* that got different ones.
DistinctIds == \A r, s \in Requests : IdOf[r] = IdOf[s] => r = s

Signs == Requests \ Connects

\* Where a request is: unsent, in an await of its handler in the worker, or
\* answered.  "rejected" and "refused" are the user's and the allow-list's no.
InWorker == {"checking", "building", "waiting", "marking", "putting", "signing"}
Granted == {"connected", "signed"}
Denied == {"rejected", "refused", "failed"}
Answers == Granted \cup Denied

\* An approval window: being created, gating on unlock, showing a screen.
\* "orphan" is one being created for a worker that has ended.
WindowStates == {"none", "creating", "orphan", "failed", "gate", "screen", "closed"}

VARIABLES
  at,              \* where each request is
  pending,         \* pending: sign requests by id
  pendingConnect,  \* pendingConnect: connect requests by id
  created,         \* connect windows whose windows.create has yet to answer the worker
  connectWindows,  \* the windows in connectWindows
  blocked,         \* sign requests whose findings hold a block
  connected,       \* the list `connected` in storage.local
  read,            \* what each markConnected() read of it
  win,             \* the approval window of each request
  shown,           \* the request each window was given to show
  decisions,       \* `decide` and `decideConnect` messages in flight
  removed,         \* windows.onRemoved events in flight
  consent,         \* history: requests approved on a screen that showed them
  relayed,         \* history: requests approved by a message of a page
  early            \* history: windows whose close event came before their creation's answer

openVars == <<created, connectWindows>>
workerVars == <<at, pending, pendingConnect, openVars, blocked>>
windowVars == <<win, shown>>
pastVars == <<consent, relayed, early>>
vars == <<at, pending, pendingConnect, created, connectWindows, blocked, connected, read,
          win, shown, decisions, removed, consent, relayed, early>>

TypeOK ==
  /\ at \in [Requests -> {"unsent"} \cup InWorker \cup Answers]
  /\ pending \in [Ids -> Requests \cup {None}]
  /\ pendingConnect \in [Ids -> Requests \cup {None}]
  /\ created \subseteq Connects
  /\ connectWindows \subseteq Requests
  /\ blocked \subseteq Requests
  /\ connected \subseteq Origins
  /\ read \in [Requests -> SUBSET Origins]
  /\ win \in [Requests -> WindowStates]
  /\ shown \in [Requests -> Requests \cup {None}]
  /\ decisions \subseteq Requests \X BOOLEAN
  /\ removed \subseteq Requests
  /\ consent \subseteq Requests
  /\ relayed \subseteq {r \in Requests : <<r, TRUE>> \in Posted}
  /\ early \subseteq Requests

Init ==
  /\ at = [r \in Requests |-> "unsent"]
  /\ pending = [id \in Ids |-> None]
  /\ pendingConnect = [id \in Ids |-> None]
  /\ created = {}
  /\ connectWindows = {}
  /\ blocked = {}
  /\ connected = {}
  /\ read = [r \in Requests |-> {}]
  /\ win = [r \in Requests |-> "none"]
  /\ shown = [r \in Requests |-> None]
  /\ decisions = {}
  /\ removed = {}
  /\ consent = {}
  /\ relayed = {}
  /\ early = {}

Goes(r, place) == at' = [at EXCEPT ![r] = place]
OpensWindow(r) == win' = [win EXCEPT ![r] = "creating"]

----------------------------------------------------------------------------
\* connect(): registered and its window asked for in one turn of the worker.

AskConnect(r) ==
  /\ r \in Connects
  /\ at[r] = "unsent"
  /\ Goes(r, "waiting")
  /\ pendingConnect' = [pendingConnect EXCEPT ![IdOf[r]] = r]
  /\ OpensWindow(r)
  /\ UNCHANGED <<pending, openVars, blocked, connected, read, shown, decisions, removed, pastVars>>

\* signAndSend(): the allow-list is read, the request is built and decoded, and
\* only then registered.
AskSign(r) ==
  /\ r \in Signs
  /\ at[r] = "unsent"
  /\ Goes(r, "checking")
  /\ UNCHANGED <<pending, pendingConnect, openVars, blocked, connected, read,
                 windowVars, decisions, removed, pastVars>>

\* Mutant: the allow-list is only the pill on the screen.
CheckIsCosmetic(r) ==
  /\ at[r] = "checking"
  /\ Goes(r, "building")
  /\ UNCHANGED <<pending, pendingConnect, openVars, blocked, connected, read,
                 windowVars, decisions, removed, pastVars>>

CheckOrigin(r) ==
  /\ at[r] = "checking"
  /\ Goes(r, IF OriginOf[r] \in connected THEN "building" ELSE "refused")
  /\ UNCHANGED <<pending, pendingConnect, openVars, blocked, connected, read,
                 windowVars, decisions, removed, pastVars>>

Build(r) ==
  /\ at[r] = "building"
  /\ blocked' \in {blocked, blocked \cup {r}}
  /\ Goes(r, "waiting")
  /\ pending' = [pending EXCEPT ![IdOf[r]] = r]
  /\ OpensWindow(r)
  /\ UNCHANGED <<pendingConnect, openVars, connected, read, shown, decisions, removed, pastVars>>

\* A storage call, the decoding or the signing throws: the handler's catch.
Throws(r) ==
  /\ at[r] \in InWorker \ {"waiting"}
  /\ Goes(r, "failed")
  /\ UNCHANGED <<pending, pendingConnect, openVars, blocked, connected, read,
                 windowVars, decisions, removed, pastVars>>

----------------------------------------------------------------------------
\* Approval windows.

\* The window is there; the answer of windows.create is on its way to the worker
\* that asked for it.
WindowOpens(r) ==
  /\ win[r] \in {"creating", "orphan"}
  /\ win' = [win EXCEPT ![r] = "gate"]
  /\ created' = IF r \in Connects /\ win[r] = "creating" THEN created \cup {r} ELSE created
  /\ UNCHANGED <<at, pending, pendingConnect, connectWindows, blocked, connected, read, shown,
                 decisions, removed, pastVars>>

\* The answer: the worker maps the connect window to its request, open or not.
WindowKnown(r) ==
  /\ r \in created
  /\ created' = created \ {r}
  /\ connectWindows' = connectWindows \cup {r}
  /\ UNCHANGED <<at, pending, pendingConnect, blocked, connected, read, windowVars,
                 decisions, removed, pastVars>>

\* windows.create rejects; nobody handles it.
WindowFails(r) ==
  /\ win[r] \in {"creating", "orphan"}
  /\ win' = [win EXCEPT ![r] = "failed"]
  /\ UNCHANGED <<workerVars, connected, read, shown, decisions, removed, pastVars>>

\* Unlocked, the window asks the worker once what to show.
Fetch(r) ==
  /\ win[r] = "gate"
  /\ win' = [win EXCEPT ![r] = "screen"]
  /\ shown' = [shown EXCEPT ![r] =
                 IF r \in Connects THEN pendingConnect[IdOf[r]] ELSE pending[IdOf[r]]]
  /\ UNCHANGED <<workerVars, connected, read, decisions, removed, pastVars>>

\* A screen offers its buttons when it has a request, and not Sign on a block.
\* A second click before the first is answered is left possible on both screens.
Offers(w, approve) ==
  /\ shown[w] # None
  /\ approve => shown[w] \notin blocked

Click(w, approve) ==
  /\ win[w] = "screen"
  /\ Offers(w, approve)
  /\ decisions' = decisions \cup {<<w, approve>>}
  /\ consent' = IF approve THEN consent \cup {shown[w]} ELSE consent
  /\ UNCHANGED <<workerVars, connected, read, windowVars, removed, relayed, early>>

\* The content script relays a page's message whatever its kind, and the worker
\* does not ask who sent one: a decision may come from a page.  (Of a request
\* that waits for one; any other finds nothing to decide.)
RelayDecision(r, approve) ==
  /\ <<r, approve>> \in Posted
  /\ at[r] = "waiting"
  /\ decisions' = decisions \cup {<<r, approve>>}
  /\ relayed' = IF approve THEN relayed \cup {r} ELSE relayed
  /\ UNCHANGED <<workerVars, connected, read, windowVars, removed, consent, early>>

\* Closed by the user, or by the screen after its decision.
Close(w) ==
  /\ win[w] \in {"gate", "screen"}
  /\ win' = [win EXCEPT ![w] = "closed"]
  /\ shown' = [shown EXCEPT ![w] = None]
  /\ removed' = removed \cup {w}
  /\ UNCHANGED <<workerVars, connected, read, decisions, pastVars>>

----------------------------------------------------------------------------
\* Decisions.  Each takes its request out of the map in the turn that reads it.

\* Mutant: a window that is closed counts as an approval.
AfterAnyConnect(approve) == "marking"

\* The settled connect() goes on to markConnected(), or answers the page.
AfterConnect(approve) == IF approve THEN "marking" ELSE "rejected"

\* Mutant: the settled connect stays registered.
DecideConnectKeeps(w, approve) ==
  LET r == pendingConnect[IdOf[w]] IN
  /\ w \in Connects
  /\ <<w, approve>> \in decisions
  /\ decisions' = decisions \ {<<w, approve>>}
  /\ IF r = None THEN UNCHANGED at ELSE Goes(r, AfterConnect(approve))
  /\ UNCHANGED <<pending, pendingConnect, openVars, blocked, connected, read,
                 windowVars, removed, pastVars>>

DecideConnect(w, approve) ==
  LET r == pendingConnect[IdOf[w]] IN
  /\ w \in Connects
  /\ <<w, approve>> \in decisions
  /\ decisions' = decisions \ {<<w, approve>>}
  /\ IF r = None THEN UNCHANGED at ELSE Goes(r, AfterConnect(approve))
  /\ pendingConnect' = [pendingConnect EXCEPT ![IdOf[w]] = None]
  /\ UNCHANGED <<pending, openVars, blocked, connected, read, windowVars, removed, pastVars>>

\* Mutant: closing a connect window settles nothing.
OnRemovedForgets(w) ==
  /\ w \in removed
  /\ removed' = removed \ {w}
  /\ connectWindows' = connectWindows \ {w}
  /\ early' = IF w \in created THEN early \cup {w} ELSE early
  /\ UNCHANGED <<at, pending, pendingConnect, created, blocked, connected, read, windowVars,
                 decisions, consent, relayed>>

\* windows.onRemoved: an undecided connect is rejected.  Sign windows are not in
\* connectWindows; nor is a connect window before its creation has answered.
OnRemoved(w) ==
  LET r == pendingConnect[IdOf[w]] IN
  /\ w \in removed
  /\ removed' = removed \ {w}
  /\ connectWindows' = connectWindows \ {w}
  /\ IF w \in connectWindows /\ r # None
       THEN /\ Goes(r, AfterConnect(FALSE))
            /\ pendingConnect' = [pendingConnect EXCEPT ![IdOf[w]] = None]
       ELSE UNCHANGED <<at, pendingConnect>>
  /\ early' = IF w \in created THEN early \cup {w} ELSE early
  /\ UNCHANGED <<pending, created, blocked, connected, read, windowVars, decisions,
                 consent, relayed>>

\* finalize(), up to its await of the key.  An unknown id is answered to the
\* window only.
Decide(w, approve) ==
  LET r == pending[IdOf[w]] IN
  /\ w \in Signs
  /\ <<w, approve>> \in decisions
  /\ decisions' = decisions \ {<<w, approve>>}
  /\ IF r = None THEN UNCHANGED at ELSE Goes(r, IF approve THEN "signing" ELSE "rejected")
  /\ pending' = [pending EXCEPT ![IdOf[w]] = None]
  /\ UNCHANGED <<pendingConnect, openVars, blocked, connected, read, windowVars,
                 removed, pastVars>>

\* finalize() with the key: a blocking finding throws.
Sign(r) ==
  /\ at[r] = "signing"
  /\ Goes(r, IF r \in blocked THEN "failed" ELSE "signed")
  /\ UNCHANGED <<pending, pendingConnect, openVars, blocked, connected, read,
                 windowVars, decisions, removed, pastVars>>

\* markConnected(): read, then write the whole list back.
MarkGet(r) ==
  /\ at[r] = "marking"
  /\ Goes(r, IF OriginOf[r] \in connected THEN "connected" ELSE "putting")
  /\ read' = [read EXCEPT ![r] = connected]
  /\ UNCHANGED <<pending, pendingConnect, openVars, blocked, connected,
                 windowVars, decisions, removed, pastVars>>

\* Mutant: the request is listed instead of its origin.
MarkPutRequest(r) ==
  /\ at[r] = "putting"
  /\ Goes(r, "connected")
  /\ connected' = read[r] \cup {r}
  /\ UNCHANGED <<pending, pendingConnect, openVars, blocked, read,
                 windowVars, decisions, removed, pastVars>>

MarkPut(r) ==
  /\ at[r] = "putting"
  /\ Goes(r, "connected")
  /\ connected' = read[r] \cup {OriginOf[r]}
  /\ UNCHANGED <<pending, pendingConnect, openVars, blocked, read,
                 windowVars, decisions, removed, pastVars>>

----------------------------------------------------------------------------
\* The browser ends the worker.  The maps are gone; the content script answers
\* every page that waits; a write under way lands or not; windows stay.
Restart ==
  /\ created \cup connectWindows # {} \/ \E r \in Requests : at[r] \in InWorker
  /\ at' = [r \in Requests |-> IF at[r] \in InWorker THEN "failed" ELSE at[r]]
  /\ pending' = [id \in Ids |-> None]
  /\ pendingConnect' = [id \in Ids |-> None]
  /\ created' = {}
  /\ connectWindows' = {}
  /\ win' = [r \in Requests |-> IF win[r] = "creating" THEN "orphan" ELSE win[r]]
  /\ connected' \in {connected} \cup
       {read[r] \cup {OriginOf[r]} : r \in {q \in Requests : at[q] = "putting"}}
  /\ UNCHANGED <<blocked, read, shown, decisions, removed, pastVars>>

----------------------------------------------------------------------------
WindowAnswers(r) == WindowOpens(r) \/ WindowFails(r)

Proceed(r) ==
  \/ CheckOrigin(r) \/ Build(r) \/ Sign(r) \/ MarkGet(r) \/ MarkPut(r)
  \/ Throws(r)

Deliver(w) ==
  \/ OnRemoved(w)
  \/ \E approve \in BOOLEAN : DecideConnect(w, approve) \/ Decide(w, approve)

Next ==
  \/ \E r \in Requests :
       \/ AskConnect(r) \/ AskSign(r)
       \/ Proceed(r)
       \/ WindowAnswers(r) \/ WindowKnown(r) \/ Fetch(r) \/ Close(r)
       \/ \E approve \in BOOLEAN : Click(r, approve) \/ RelayDecision(r, approve)
       \/ Deliver(r)
  \/ Restart

Spec == Init /\ [][Next]_vars

\* What is on its way for a request arrives: storage calls return, windows.create
\* answers, messages and events get there, and the user closes its window some time.
FairSpec ==
  /\ Spec
  /\ \A r \in Requests :
       /\ WF_vars(Proceed(r) \/ WindowAnswers(r) \/ WindowKnown(r) \/ Close(r) \/ OnRemoved(r))
       /\ WF_vars(\E approve \in BOOLEAN : DecideConnect(r, approve) \/ Decide(r, approve))
----------------------------------------------------------------------------
\* Properties.

\* No request is lost or left over in the worker: what waits for the user is
\* what the two maps hold (requestConnect, signAndSend, finalize, onRemoved).
Waiting == {r \in Requests : at[r] = "waiting"}
Registered == {pending[id] : id \in Ids} \cup {pendingConnect[id] : id \in Ids}
RegistryIsExact == Waiting = Registered \ {None}

\* The allow-list at the sign entry means something: a request is decoded, shown
\* or signed only for a named origin that a connect request named and the user
\* approved on its screen, or, since the worker does not ask who sends a decision,
\* a message of a page did.
Admitted(r) == at[r] \in {"building", "signing", "signed"} \/ shown[r] # None
AdmittedWasConnected ==
  \A r \in Signs :
    Admitted(r) => \E c \in Connects \cap (consent \cup relayed) : OriginOf[c] = OriginOf[r]

\* Consent and answers, step by step: every request is answered once, and one is
\* granted only if it was approved, on a screen that showed that request or by a
\* message of a page, and no blocking finding was made of it; no finding is made
\* after the user's approval.
Status(place) ==
  CASE place = "unsent" -> "new"
    [] place \in InWorker -> "open"
    [] place \in Granted -> "granted"
    [] OTHER -> "denied"

Register == INSTANCE ApprovalRegister WITH
  status <- [r \in Requests |-> Status(at[r])], vetoed <- blocked
RegisterSpec == Register!RegisterSpec

\* Somebody can still answer what waits: its window is being opened, waits for
\* the unlock or shows that request, or has failed to open; closed, it was a sign
\* window, or its close event is on the way to a worker that knows it or is about
\* to, or came too early.  (Whoever closes, decides or restarts in between.)
WaitingIsAttended ==
  \A r \in Waiting :
    /\ win[r] \notin {"none", "orphan"}
    /\ win[r] = "screen" => shown[r] = r
    /\ r \in Connects /\ win[r] \in {"gate", "screen", "closed"} => r \in created \cup connectWindows
    /\ r \in Connects /\ win[r] = "closed" => r \in removed \cup early

\* A request that waits for the user is answered at last, whatever window is
\* closed and whenever the worker ends, unless its window could not be opened,
\* or was closed without a decision and is a sign window or one whose close event
\* overtook the answer of windows.create.  (A request waits once.)
Abandoned(r) ==
  /\ r \in Signs \cup early
  /\ win[r] = "closed"
  /\ \A approve \in BOOLEAN : <<r, approve>> \notin decisions

WaitingIsAnswered == <>[](\A r \in Waiting : win[r] = "failed" \/ Abandoned(r))

\* "so responses can be correlated and promises resolved" (worker/messages.ts):
\* the same without the exception for closed windows.  The code does not keep it.
PromisesResolved ==
  \A r \in Requests : at[r] = "waiting" ~> (at[r] \in Answers \/ win[r] = "failed")
=============================================================================
