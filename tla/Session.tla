------------------------------ MODULE Session ------------------------------
(***************************************************************************)
(* The session and the RGB stock of the two JavaScript realms that link    *)
(* src/wallet/store.ts: the service worker and the popup (src/ui/App.tsx). *)
(* Each realm has its own copy of the module variables unlockedXprv and    *)
(* stock; they share the entry in storage.session and IndexedDB.           *)
(*                                                                         *)
(* A task is one call in flight, an action the code between two of its     *)
(* awaits: the value an await reads is used in the step that reads it, and *)
(* openStock's answer in the step that assigns the stock.  lock() and the  *)
(* removal it sends are one step.  A write under way when a realm ends has *)
(* happened just before, or not.                                           *)
(***************************************************************************)
EXTENDS Naturals

CONSTANTS
  WorkerTasks,  \* calls the worker can have in flight
  PopupTasks,   \* calls the popup can have in flight
  Keys,         \* account keys, each generated once: bounds the wallets created
  Items,        \* consignments to absorb
  MaxEvents,    \* bound: locks, expiries, realms ending, failed requests
  None

ASSUME SessionAssumption ==
  /\ WorkerTasks \cap PopupTasks = {}
  /\ None \notin Keys \cup Items
  /\ MaxEvents \in Nat

Tasks == WorkerTasks \cup PopupTasks
Realms == {"worker", "popup"}
RealmOf(t) == IF t \in WorkerTasks THEN "worker" ELSE "popup"

Ops == {"restore", "read", "absorb", "unlock", "create"}
Points == {"idle", "asking", "dropping", "reading", "loading", "sealing", "renewing",
           "describing", "fetching", "verifying", "generating", "vaulting"}
Screens == {"closed", "loading", "lock", "onboarding", "phrase", "home"}

\* The key is null when it was cleared before it could be saved.
Entries == [key : Keys \cup {None}, live : BOOLEAN]
Blobs == [by : Keys, items : SUBSET Items]

ASSUME SentinelAssumption ==
  /\ None \notin Ops
  /\ None \notin Entries \cup Blobs
  /\ \A items \in SUBSET Items : items # None

\* A task: the await it is at, what it is for and about, whether it is inside
\* restoreSession() and what key that has read, the blobs it read or is writing.
Frames == [pc : Points, op : Ops \cup {None}, arg : Keys \cup Items \cup {None},
           nested : BOOLEAN, got : Keys \cup {None}, buf : Blobs \cup {None}]
Idle == [pc |-> "idle", op |-> None, arg |-> None,
         nested |-> FALSE, got |-> None, buf |-> None]

VARIABLES
  vault,      \* the key the vault on disk derives
  sealed,     \* the stock blobs on disk: the key they are sealed under, what they hold
  entry,      \* storage.session: the key and whether it has not expired
  key,        \* unlockedXprv of each realm
  stock,      \* stock of each realm
  screen,     \* App's route in the popup
  task,       \* the calls in flight
  generated,  \* keys generated so far
  events,     \* locks, expiries, ends and failed requests so far
  reported,   \* history: items whose absorption was reported done
  relocked,   \* history: the last lock() came after the last unlock or create
  suspects,   \* history: tasks that had read the session when that lock() came
  stale,      \* history: the worker took a stock that lacked something absorbed
  recreated   \* history: a wallet was created over another, or over a failed creation's stock

disk == <<vault, sealed>>
memory == <<key, stock>>
history == <<reported, relocked, suspects, stale, recreated>>
vars == <<disk, entry, memory, screen, task, generated, events, history>>

TypeOK ==
  /\ vault \in Keys \cup {None}
  /\ sealed \in Blobs \cup {None}
  /\ entry \in Entries \cup {None}
  /\ key \in [Realms -> Keys \cup {None}]
  /\ stock \in [Realms -> (SUBSET Items) \cup {None}]
  /\ screen \in Screens
  /\ task \in [Tasks -> Frames]
  /\ generated \subseteq Keys
  /\ events \in 0 .. MaxEvents
  /\ reported \subseteq Items
  /\ suspects \subseteq Tasks
  /\ {relocked, stale, recreated} \subseteq BOOLEAN

Init ==
  /\ vault = None /\ sealed = None /\ entry = None
  /\ key = [r \in Realms |-> None]
  /\ stock = [r \in Realms |-> None]
  /\ screen = "closed"
  /\ task = [t \in Tasks |-> Idle]
  /\ generated = {} /\ events = 0
  /\ reported = {} /\ suspects = {}
  /\ relocked = FALSE /\ stale = FALSE /\ recreated = FALSE

Event == events < MaxEvents /\ events' = events + 1

Live == entry # None /\ entry.live
At(t, point) == task[t].pc = point
InRestore(t) == task[t].nested

Begins(t, o, point, a) ==
  /\ At(t, "idle")
  /\ task' = [task EXCEPT ![t] = [Idle EXCEPT !.pc = point, !.op = o, !.arg = a]]
Goes(t, point) == task' = [task EXCEPT ![t].pc = point]
Ends(t) == task' = [task EXCEPT ![t] = Idle]

----------------------------------------------------------------------------
\* openStock() and persist().

\* Where a call goes on once openStock() has answered.
AfterOpen(t) ==
  CASE InRestore(t) -> "renewing"
    [] ~InRestore(t) /\ task[t].op = "read" -> "describing"
    [] ~InRestore(t) /\ task[t].op = "unlock" -> "renewing"
    [] ~InRestore(t) /\ task[t].op = "create" -> "vaulting"
    [] OTHER -> "fetching"

Opened(t) == task' = [task EXCEPT ![t].pc = AfterOpen(t), ![t].buf = None]

Absorbing(t) == task[t].op = "absorb" /\ ~InRestore(t)

\* Mutant: persist() does not ask whether there is a key to seal under.
PersistsAnyway(t, s, k) ==
  task' = [task EXCEPT ![t].pc = "sealing", ![t].buf = [by |-> k, items |-> s]]

\* persist() from the realm's memory: sealed under its key, or it throws.
Persists(t, s, k) ==
  IF k = None THEN Ends(t)
    ELSE task' = [task EXCEPT ![t].pc = "sealing", ![t].buf = [by |-> k, items |-> s]]

\* openStock() answers t with a stock that holds s; acceptConsignmentOrds() accepts
\* into it, updateWitnesses() changes its witnesses, and both persist it.
Has(t, s) ==
  LET r == RealmOf(t)
      held == IF Absorbing(t) THEN s \cup ({task[t].arg} \ {None}) ELSE s
  IN /\ stock' = [stock EXCEPT ![r] = held]
     /\ IF Absorbing(t) THEN Persists(t, held, key[r]) ELSE Opened(t)

\* The blobs are read: none yet, not ours to open, or to be decrypted.
ReadBlobs(t) ==
  LET r == RealmOf(t) IN
  /\ At(t, "reading")
  /\ IF sealed = None
       THEN /\ stock' = [stock EXCEPT ![r] = {}]
            /\ Persists(t, {}, key[r])
       ELSE /\ IF key[r] = sealed.by
                 THEN task' = [task EXCEPT ![t].pc = "loading", ![t].buf = sealed]
                 ELSE Ends(t)
            /\ UNCHANGED stock
  /\ UNCHANGED <<disk, entry, key, screen, generated, events, history>>

\* What the worker has absorbed as far as its memory, the disk and its writes know.
Known ==
  (IF sealed = None THEN {} ELSE sealed.items)
    \cup (IF stock["worker"] = None THEN {} ELSE stock["worker"])
    \cup UNION {task[t].buf.items : t \in {u \in WorkerTasks : At(u, "sealing")}}

\* Mutant: every load is persisted again, not only a legacy one.
LoadRewrites(t) ==
  /\ At(t, "loading")
  /\ stock' = [stock EXCEPT ![RealmOf(t)] = task[t].buf.items]
  /\ Persists(t, task[t].buf.items, key[RealmOf(t)])
  /\ stale' = (stale \/ (t \in WorkerTasks /\ ~(Known \subseteq task[t].buf.items)))
  /\ UNCHANGED <<disk, entry, key, screen, generated, events, reported, relocked, suspects, recreated>>

\* The stock is assigned, whatever the module variable holds by now.
Load(t) ==
  /\ At(t, "loading")
  /\ Has(t, task[t].buf.items)
  /\ stale' = (stale \/ (t \in WorkerTasks /\ ~(Known \subseteq task[t].buf.items)))
  /\ UNCHANGED <<disk, entry, key, screen, generated, events, reported, relocked, suspects, recreated>>

\* kvPutAll of the three blobs is complete.
Seal(t) ==
  LET b == task[t].buf IN
  /\ At(t, "sealing")
  /\ sealed' = b
  /\ IF Absorbing(t) /\ task[t].arg \in b.items \cup {None}
       THEN reported' = reported \cup ({task[t].arg} \ {None}) /\ Ends(t)
       ELSE UNCHANGED reported /\ Opened(t)
  /\ UNCHANGED <<vault, entry, memory, screen, generated, events, relocked, suspects, stale, recreated>>

\* A request fails, of IndexedDB or in the drain of the chain: the call ends with
\* its exception, and what it has put into memory stays there.
Throws(t) ==
  /\ Event
  /\ task[t].pc \in {"reading", "sealing", "vaulting", "describing", "fetching"}
  /\ Ends(t)
  /\ UNCHANGED <<disk, entry, memory, screen, generated, history>>

----------------------------------------------------------------------------
\* restoreSession(), signingKey().

\* Where a call goes on once restoreSession() or signingKey() has answered.
\* k is the realm's key by then.
AfterRestore(t, restored, k) ==
  /\ IF task[t].op = "absorb" /\ k # None
       THEN task' = [task EXCEPT ![t].pc = "fetching", ![t].nested = FALSE, ![t].got = None]
       ELSE Ends(t)
  /\ screen' = IF task[t].op # "restore" THEN screen ELSE IF restored THEN "home" ELSE "lock"

Ask(t) ==
  LET r == RealmOf(t) IN
  /\ At(t, "asking")
  /\ IF Live
       THEN /\ key' = [key EXCEPT ![r] = entry.key]
            /\ task' = [task EXCEPT ![t].nested = TRUE, ![t].got = entry.key,
                         ![t].pc = IF stock[r] = None THEN "reading" ELSE "renewing"]
       ELSE Goes(t, "dropping") /\ UNCHANGED key
  /\ UNCHANGED <<disk, entry, stock, screen, generated, events, history>>

\* No entry, or an expired one: it is removed.
DropEntry(t) ==
  /\ At(t, "dropping")
  /\ entry' = None
  /\ AfterRestore(t, FALSE, key[RealmOf(t)])
  /\ UNCHANGED <<disk, memory, generated, events, history>>

\* persistSession() at the end of restoreSession(): the value that was read.
RenewRestored(t) ==
  /\ At(t, "renewing") /\ InRestore(t)
  /\ entry' = [key |-> task[t].got, live |-> TRUE]
  /\ AfterRestore(t, TRUE, key[RealmOf(t)])
  /\ UNCHANGED <<disk, memory, generated, events, history>>

\* persistSession() at the end of unlock() and createWallet(): the realm's key.
RenewOwn(t) ==
  /\ At(t, "renewing") /\ ~InRestore(t)
  /\ entry' = [key |-> key[RealmOf(t)], live |-> TRUE]
  /\ relocked' = FALSE
  /\ screen' = CASE task[t].op = "unlock" -> "home"
                 [] task[t].op = "create" /\ screen = "onboarding" -> "phrase"
                 [] OTHER -> screen
  /\ Ends(t)
  /\ UNCHANGED <<disk, memory, generated, events, reported, suspects, stale, recreated>>

----------------------------------------------------------------------------
\* The worker's handlers and the popup's balance reads.

\* accountBalances(), decodePsbt(): openStock() first, without asking for a key.
CallRead(t) ==
  /\ t \in PopupTasks => screen = "home"
  /\ Begins(t, "read", IF stock[RealmOf(t)] = None THEN "reading" ELSE "describing", None)
  /\ UNCHANGED <<disk, entry, memory, screen, generated, events, history>>

\* Mutant: every use of the cached key slides the session's expiry.
DescribeSlides(t) ==
  /\ At(t, "describing")
  /\ task' = [task EXCEPT ![t].nested = TRUE, ![t].got = key[RealmOf(t)],
               ![t].pc = IF key[RealmOf(t)] = None THEN "asking" ELSE "renewing"]
  /\ UNCHANGED <<disk, entry, memory, screen, generated, events, history>>

\* getDescriptor(): it has the blob and asks for the key.
Describe(t) ==
  /\ At(t, "describing")
  /\ IF key[RealmOf(t)] = None THEN Goes(t, "asking") ELSE Ends(t)
  /\ UNCHANGED <<disk, entry, memory, screen, generated, events, history>>

\* The drain: canAccessStock(), then chain requests, then the accept of i, or an
\* update (None).  One at a time.
CallAbsorb(t, i) ==
  /\ t \in WorkerTasks
  /\ "absorb" \notin {task[u].op : u \in WorkerTasks}
  /\ i \in (Items \ reported) \cup {None}
  /\ Begins(t, "absorb", IF key["worker"] = None THEN "asking" ELSE "fetching", i)
  /\ UNCHANGED <<disk, entry, memory, screen, generated, events, history>>

Accept(t) ==
  /\ At(t, "fetching")
  /\ IF stock["worker"] = None THEN Goes(t, "reading") /\ UNCHANGED stock
       ELSE Has(t, stock["worker"])
  /\ UNCHANGED <<disk, entry, key, screen, generated, events, history>>

----------------------------------------------------------------------------
\* The popup.

OpenPopup(t) ==
  /\ t \in PopupTasks
  /\ screen = "closed"
  /\ IF vault = None
       THEN screen' = "onboarding" /\ UNCHANGED task
       ELSE screen' = "loading" /\ Begins(t, "restore", "asking", None)
  /\ UNCHANGED <<disk, entry, memory, generated, events, history>>

ClosePopup ==
  /\ Event
  /\ screen # "closed"
  /\ screen' = "closed"
  /\ key' = [key EXCEPT !["popup"] = None]
  /\ stock' = [stock EXCEPT !["popup"] = None]
  /\ task' = [t \in Tasks |-> IF t \in PopupTasks THEN Idle ELSE task[t]]
  /\ UNCHANGED <<disk, entry, generated, history>>

\* Lock.tsx: "Set up a new wallet"; Onboarding.tsx: "Back", also over the phrase.
SetUp == screen = "lock" /\ screen' = "onboarding"
Back == screen \in {"onboarding", "phrase"} /\ screen' = "lock"
Continue == screen = "phrase" /\ screen' = "home"
Navigate ==
  /\ SetUp \/ Back \/ Continue
  /\ UNCHANGED <<disk, entry, memory, task, generated, events, history>>

\* unlock(): the vault is read and decrypted; one call at a time (`busy`).
CallUnlock(t) ==
  /\ t \in PopupTasks
  /\ screen = "lock"
  /\ vault # None
  /\ \A u \in PopupTasks : task[u].op # "unlock"
  /\ Begins(t, "unlock", "verifying", vault)
  /\ UNCHANGED <<disk, entry, memory, screen, generated, events, history>>

\* The key is derived and cached, then the stock opened.
CachesKey(t) ==
  /\ key' = [key EXCEPT !["popup"] = task[t].arg]
  /\ Goes(t, IF stock["popup"] = None THEN "reading" ELSE AfterOpen(t))

Verified(t) ==
  /\ At(t, "verifying")
  /\ \/ CachesKey(t)
     \/ Ends(t) /\ UNCHANGED key
  /\ UNCHANGED <<disk, entry, stock, screen, generated, events, history>>

\* createWallet(): keys are generated, the seed encrypted, then as for unlock().  The
\* form can be sent again after a creation that threw.
CallCreate(t, k) ==
  /\ t \in PopupTasks
  /\ screen = "onboarding"
  /\ k \notin generated
  /\ generated' = generated \cup {k}
  /\ recreated' = (recreated \/ vault # None \/ stock["popup"] # None
                     \/ \E u \in PopupTasks : task[u].op = "create")
  /\ Begins(t, "create", "generating", k)
  /\ UNCHANGED <<disk, entry, memory, screen, events, reported, relocked, suspects, stale>>

\* Mutant: the vault is written before the stock is opened.
GeneratedVaultFirst(t) ==
  /\ At(t, "generating")
  /\ CachesKey(t)
  /\ vault' = task[t].arg
  /\ UNCHANGED <<sealed, entry, stock, screen, generated, events, history>>

\* Mutant: the session is saved before the stock is opened.
GeneratedSession(t) ==
  /\ At(t, "generating")
  /\ CachesKey(t)
  /\ entry' = [key |-> task[t].arg, live |-> TRUE]
  /\ UNCHANGED <<disk, stock, screen, generated, events, history>>

Generated(t) ==
  /\ At(t, "generating")
  /\ CachesKey(t)
  /\ UNCHANGED <<disk, entry, stock, screen, generated, events, history>>

\* kvPutAll({ descriptor, vault }).
PutVault(t) ==
  /\ At(t, "vaulting")
  /\ vault' = task[t].arg
  /\ Goes(t, "renewing")
  /\ UNCHANGED <<sealed, entry, memory, screen, generated, events, history>>

----------------------------------------------------------------------------
\* Locks, expiry, the end of the worker.

\* lock(): on the popup's button, or in the worker when the user is idle or the
\* screen locks.
Lock(r) ==
  /\ Event
  /\ IF r = "popup" THEN screen = "home" /\ screen' = "lock" ELSE UNCHANGED screen
  /\ key' = [key EXCEPT ![r] = None]
  /\ stock' = [stock EXCEPT ![r] = None]
  /\ entry' = None
  /\ relocked' = TRUE
  /\ suspects' = {t \in Tasks : InRestore(t)}
  /\ UNCHANGED <<disk, task, generated, reported, stale, recreated>>

Expire ==
  /\ Event
  /\ Live
  /\ entry' = [entry EXCEPT !.live = FALSE]
  /\ UNCHANGED <<disk, memory, screen, task, generated, history>>

EndWorker ==
  /\ Event
  /\ key' = [key EXCEPT !["worker"] = None]
  /\ stock' = [stock EXCEPT !["worker"] = None]
  /\ task' = [t \in Tasks |-> IF t \in WorkerTasks THEN Idle ELSE task[t]]
  /\ UNCHANGED <<disk, entry, screen, generated, history>>

Proceed(t) ==
  \/ ReadBlobs(t) \/ Load(t) \/ Seal(t)
  \/ Ask(t) \/ DropEntry(t) \/ RenewRestored(t) \/ RenewOwn(t)
  \/ Describe(t) \/ Accept(t)
  \/ Verified(t) \/ Generated(t) \/ PutVault(t)
  \/ Throws(t)

Call(t) ==
  \/ CallRead(t) \/ CallUnlock(t)
  \/ \E i \in Items \cup {None} : CallAbsorb(t, i)
  \/ \E k \in Keys : CallCreate(t, k)

Next ==
  \/ \E t \in Tasks : Call(t) \/ Proceed(t) \/ OpenPopup(t)
  \/ ClosePopup \/ Navigate
  \/ \E r \in Realms : Lock(r)
  \/ Expire \/ EndWorker

Spec == Init /\ [][Next]_vars

----------------------------------------------------------------------------
\* Properties.

\* What the vault's password yields opens the stock on disk: unlock() and every
\* restoreSession() depend on it.  createWallet() takes it for granted, "openStock
\* /persist seal the stock under it": not when the popup still holds the stock of
\* a wallet it has just made, or of a creation that threw.
VaultOpensStock == vault # None => sealed # None /\ sealed.by = vault

\* It does hold for a wallet that is created once, however often a creation was
\* begun before and cut short by the popup's end, whichever requests fail and
\* whichever realm writes, locks or ends.  Excepted with the second wallet is the
\* creation that is tried again in the popup where one threw after opening a stock.
OneWalletOpens == ~recreated => VaultOpensStock

\* No realm carries on with a key that is not the stored wallet's: not the session
\* entry, which outlives popup and worker, nor the worker, which signs and seals
\* with what it finds there.
SessionIsVaults ==
  ~recreated => /\ entry # None => entry.key \in {vault, None}
                /\ key["worker"] \in {vault, None}

\* What was reported absorbed stays in the stock on disk.
AbsorbedIsKept == reported # {} => sealed # None /\ reported \subseteq sealed.items

\* It does, through locks, restarts, popups and failed persists, unless the worker
\* takes a stock it read before something was absorbed: two calls of openStock()
\* that overlap, or one that overlaps a persist().
KeptUnlessStale == ~stale /\ ~recreated => AbsorbedIsKept

\* "lock() clears both the in-memory key and the shared session entry so every
\* context re-locks" (worker/background.ts): no session comes back to life until
\* somebody enters the password.  The code does not keep it.
LockHolds == relocked => ~Live

\* It does as long as no restoreSession() has read the entry when lock() removes it.
LockHoldsUnlessRestoring == suspects = {} => LockHolds
=============================================================================
