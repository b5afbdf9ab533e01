--------------------------- MODULE SessionProofs ---------------------------
(***************************************************************************)
(* Theorems about the session and the stock of the two realms, for any     *)
(* number of calls in flight, of keys, items and locks.                    *)
(***************************************************************************)
EXTENDS Session, TLAPS

Opening == {"reading", "loading", "sealing"}

\* Where a call may be, by what it is: which realm makes it, with what argument, at
\* which awaits of its own or, inside restoreSession(), of that.
FrameOK(t, f) ==
  /\ f \in Frames
  /\ f.op \in {"unlock", "create"} => t \in PopupTasks /\ f.arg \in Keys
  /\ f.op = "absorb" => t \in WorkerTasks /\ f.arg \in Items \cup {None}
  /\ f.nested => f.op \in {"restore", "read", "absorb"} /\ f.pc \in Opening \cup {"renewing"}
  /\ ~f.nested => \/ f.op = None /\ f.pc = "idle"
                  \/ f.op = "restore" /\ f.pc \in {"asking", "dropping"}
                  \/ f.op = "read" /\ f.pc \in Opening \cup {"describing", "asking", "dropping"}
                  \/ f.op = "absorb" /\ f.pc \in Opening \cup {"asking", "dropping", "fetching"}
                  \/ f.op = "unlock" /\ f.pc \in Opening \cup {"verifying", "renewing"}
                  \/ f.op = "create" /\ f.pc \in Opening \cup {"generating", "vaulting", "renewing"}
  /\ f.pc \in {"loading", "sealing"} => f.buf \in Blobs

FramesOK == task \in [Tasks -> Frames] /\ \A t \in Tasks : FrameOK(t, task[t])
TypeInv == TypeOK /\ FramesOK

----------------------------------------------------------------------------
\* What the helpers leave in the frame of the call that takes a step.

LEMMA IdleFrame == \A t \in Tasks : FrameOK(t, Idle)
PROOF
<1>1. Idle \in Frames
  BY DEF Idle, Frames, Points
<1>2. Idle.op = None /\ Idle.pc = "idle" /\ Idle.nested = FALSE
  BY DEF Idle
<1> QED BY <1>1, <1>2, SentinelAssumption DEF FrameOK, Ops

LEMMA Replaced ==
  ASSUME FramesOK, NEW t \in Tasks, NEW f, FrameOK(t, f), task' = [task EXCEPT ![t] = f]
  PROVE  /\ FramesOK'
         /\ task'[t] = f
         /\ \A u \in Tasks : u # t => task'[u] = task[u]
PROOF
<1>1. f \in Frames
  BY DEF FrameOK
<1>2. task' \in [Tasks -> Frames]
  BY <1>1 DEF FramesOK
<1>3. task'[t] = f /\ \A u \in Tasks : u # t => task'[u] = task[u]
  BY DEF FramesOK
<1>4. \A u \in Tasks : FrameOK(u, task'[u])
  BY <1>3 DEF FramesOK
<1> QED BY <1>2, <1>3, <1>4 DEF FramesOK

LEMMA EndsFrame ==
  ASSUME FramesOK, NEW t \in Tasks, Ends(t)
  PROVE  /\ FramesOK'
         /\ task'[t] = Idle
         /\ \A u \in Tasks : u # t => task'[u] = task[u]
PROOF BY IdleFrame, Replaced DEF Ends

LEMMA GoesFrame ==
  ASSUME FramesOK, NEW t \in Tasks, NEW p \in Points, Goes(t, p),
         FrameOK(t, [task[t] EXCEPT !.pc = p])
  PROVE  /\ FramesOK'
         /\ task'[t] = [task[t] EXCEPT !.pc = p]
         /\ \A u \in Tasks : u # t => task'[u] = task[u]
PROOF
<1>1. task' = [task EXCEPT ![t] = [task[t] EXCEPT !.pc = p]]
  BY DEF Goes, FramesOK
<1> QED BY <1>1, Replaced

\* The call goes on from openStock() at a place of its own.
LEMMA OpenedPlace ==
  ASSUME NEW t \in Tasks, FrameOK(t, task[t]),
         task[t].pc \in Opening \cup {"verifying", "generating"}
  PROVE  FrameOK(t, [task[t] EXCEPT !.pc = AfterOpen(t), !.buf = None])
         /\ FrameOK(t, [task[t] EXCEPT !.pc = AfterOpen(t)])
PROOF
<1> DEFINE p == AfterOpen(t)
           f == [task[t] EXCEPT !.pc = p, !.buf = None]
           g == [task[t] EXCEPT !.pc = p]
<1>1. p \in {"renewing", "describing", "vaulting", "fetching"}
  BY DEF AfterOpen
<1>2. task[t] \in Frames
  BY DEF FrameOK
<1>3. f \in Frames /\ g \in Frames
  BY <1>1, <1>2 DEF Frames, Points
<1>4. /\ f.op = task[t].op /\ f.arg = task[t].arg /\ f.nested = task[t].nested /\ f.pc = p
      /\ g.op = task[t].op /\ g.arg = task[t].arg /\ g.nested = task[t].nested /\ g.pc = p
  BY <1>2 DEF Frames
<1>5. task[t].nested \in BOOLEAN
  BY <1>2 DEF Frames
<1>6. CASE task[t].nested
  <2>1. p = "renewing"
    BY <1>6 DEF AfterOpen, InRestore
  <2> QED BY <1>3, <1>4, <1>6, <2>1 DEF FrameOK
<1>7. CASE ~task[t].nested
  <2>1. task[t].op \in {"read", "absorb", "unlock", "create"}
    BY <1>7 DEF FrameOK, Opening
  <2>2. p = CASE task[t].op = "read" -> "describing" [] task[t].op = "unlock" -> "renewing"
              [] task[t].op = "create" -> "vaulting" [] OTHER -> "fetching"
    BY <1>7, <2>1 DEF AfterOpen, InRestore
  <2> QED BY <1>3, <1>4, <1>7, <2>1, <2>2 DEF FrameOK
<1> QED BY <1>5, <1>6, <1>7

LEMMA OpenedFrame ==
  ASSUME FramesOK, NEW t \in Tasks, Opened(t), task[t].pc \in Opening
  PROVE  /\ FramesOK'
         /\ task'[t] = [task[t] EXCEPT !.pc = AfterOpen(t), !.buf = None]
         /\ \A u \in Tasks : u # t => task'[u] = task[u]
PROOF
<1>1. FrameOK(t, [task[t] EXCEPT !.pc = AfterOpen(t), !.buf = None])
  BY OpenedPlace DEF FramesOK
<1>2. task' = [task EXCEPT ![t] = [task[t] EXCEPT !.pc = AfterOpen(t), !.buf = None]]
  BY DEF Opened, FramesOK
<1> QED BY <1>1, <1>2, Replaced

\* persist() writes what it is given under the key it is given, or the call is over.
LEMMA PersistsFrame ==
  ASSUME FramesOK, NEW t \in Tasks, NEW s \in SUBSET Items, NEW k \in Keys \cup {None},
         Persists(t, s, k), task[t].pc \in Opening \cup {"fetching"}
  PROVE  /\ FramesOK'
         /\ IF k = None THEN task'[t] = Idle
              ELSE task'[t] = [task[t] EXCEPT !.pc = "sealing", !.buf = [by |-> k, items |-> s]]
         /\ \A u \in Tasks : u # t => task'[u] = task[u]
PROOF
<1>1. CASE k = None
  BY <1>1, EndsFrame DEF Persists
<1>2. CASE k # None
  <2> DEFINE b == [by |-> k, items |-> s]
             f == [task[t] EXCEPT !.pc = "sealing", !.buf = b]
  <2>1. b \in Blobs
    BY <1>2 DEF Blobs
  <2>2. task[t] \in Frames
    BY DEF FramesOK
  <2>3. f \in Frames /\ f.buf = b /\ f.pc = "sealing"
        /\ f.op = task[t].op /\ f.arg = task[t].arg /\ f.nested = task[t].nested
    BY <2>1, <2>2 DEF Frames, Points
  <2>4. FrameOK(t, task[t])
    BY DEF FramesOK
  <2>5. FrameOK(t, f)
    BY <2>1, <2>3, <2>4 DEF FrameOK, Opening
  <2>6. task' = [task EXCEPT ![t] = f]
    BY <1>2, <2>2 DEF Persists, FramesOK
  <2> HIDE DEF f
  <2>7. FramesOK' /\ task'[t] = f /\ \A u \in Tasks : u # t => task'[u] = task[u]
    BY <2>5, <2>6, Replaced
  <2> QED BY <1>2, <2>7 DEF f
<1> QED BY <1>1, <1>2
\* A call begins, outside restoreSession().
Beginning(t, o, p, a) ==
  /\ o \in Ops /\ p \in Points /\ a \in Keys \cup Items \cup {None}
  /\ \/ o = "restore" /\ p = "asking"
     \/ o = "read" /\ p \in {"reading", "describing"}
     \/ o = "absorb" /\ p \in {"asking", "fetching"} /\ t \in WorkerTasks /\ a \in Items \cup {None}
     \/ o = "unlock" /\ p = "verifying" /\ t \in PopupTasks /\ a \in Keys
     \/ o = "create" /\ p = "generating" /\ t \in PopupTasks /\ a \in Keys

LEMMA BeginsFrame ==
  ASSUME FramesOK, NEW t \in Tasks, NEW o, NEW p, NEW a, Begins(t, o, p, a), Beginning(t, o, p, a)
  PROVE  /\ FramesOK'
         /\ task'[t].pc = p /\ task'[t].op = o /\ task'[t].arg = a
         /\ ~task'[t].nested /\ task'[t].got = None /\ task'[t].buf = None
         /\ \A u \in Tasks : u # t => task'[u] = task[u]
PROOF
<1> DEFINE f == [Idle EXCEPT !.pc = p, !.op = o, !.arg = a]
<1>1. f \in Frames
  BY DEF Idle, Frames, Beginning
<1>2. /\ f.pc = p /\ f.op = o /\ f.arg = a
      /\ ~f.nested /\ f.got = None /\ f.buf = None
  BY DEF Idle
<1>3. task' = [task EXCEPT ![t] = f]
  BY DEF Begins
<1> HIDE DEF f
<1>4. FrameOK(t, f)
  BY <1>1, <1>2 DEF FrameOK, Opening, Beginning
<1>5. FramesOK' /\ task'[t] = f /\ \A u \in Tasks : u # t => task'[u] = task[u]
  BY <1>3, <1>4, Replaced
<1> QED BY <1>2, <1>5

\* openStock() has answered: the stock is assigned, with what this call absorbs.
Held(t, s) == IF Absorbing(t) THEN s \cup ({task[t].arg} \ {None}) ELSE s

LEMMA RealmType == \A t \in Tasks : RealmOf(t) \in Realms
PROOF BY DEF RealmOf, Realms

LEMMA HasFrame ==
  ASSUME TypeInv, NEW t \in Tasks, NEW s \in SUBSET Items, Has(t, s),
         task[t].pc \in Opening \/ (task[t].pc = "fetching" /\ Absorbing(t))
  PROVE  /\ FramesOK'
         /\ Held(t, s) \in SUBSET Items
         /\ stock' = [stock EXCEPT ![RealmOf(t)] = Held(t, s)]
         /\ \A u \in Tasks : u # t => task'[u] = task[u]
         /\ ~Absorbing(t) => task'[t] = [task[t] EXCEPT !.pc = AfterOpen(t), !.buf = None]
         /\ Absorbing(t) /\ key[RealmOf(t)] = None => task'[t] = Idle
         /\ Absorbing(t) /\ key[RealmOf(t)] # None =>
              task'[t] = [task[t] EXCEPT !.pc = "sealing",
                                         !.buf = [by |-> key[RealmOf(t)], items |-> Held(t, s)]]
PROOF
<1>1. Held(t, s) \in SUBSET Items
  BY DEF Held, Absorbing, TypeInv, FramesOK, FrameOK
<1>2. stock' = [stock EXCEPT ![RealmOf(t)] = Held(t, s)]
  BY DEF Has, Held
<1>3. key[RealmOf(t)] \in Keys \cup {None}
  BY RealmType DEF TypeInv, TypeOK
<1>4. CASE Absorbing(t)
  <2>1. Persists(t, Held(t, s), key[RealmOf(t)])
    BY <1>4 DEF Has, Held
  <2>2. task[t].pc \in Opening \cup {"fetching"}
    OBVIOUS
  <2>3. /\ FramesOK'
        /\ IF key[RealmOf(t)] = None THEN task'[t] = Idle
             ELSE task'[t] = [task[t] EXCEPT !.pc = "sealing",
                                !.buf = [by |-> key[RealmOf(t)], items |-> Held(t, s)]]
        /\ \A u \in Tasks : u # t => task'[u] = task[u]
    BY <1>1, <1>3, <2>1, <2>2, PersistsFrame DEF TypeInv
  <2> QED BY <1>1, <1>2, <1>4, <2>3
<1>5. CASE ~Absorbing(t)
  <2>1. Opened(t)
    BY <1>5 DEF Has
  <2> QED BY <1>1, <1>2, <1>5, <2>1, OpenedFrame DEF TypeInv
<1> QED BY <1>4, <1>5

LEMMA AfterRestoreFrame ==
  ASSUME FramesOK, NEW t \in Tasks, NEW restored \in BOOLEAN, NEW k, AfterRestore(t, restored, k)
  PROVE  /\ FramesOK'
         /\ \A u \in Tasks : u # t => task'[u] = task[u]
         /\ IF task[t].op = "absorb" /\ k # None
              THEN task'[t] = [task[t] EXCEPT !.pc = "fetching", !.nested = FALSE, !.got = None]
              ELSE task'[t] = Idle
PROOF
<1>1. CASE task[t].op = "absorb" /\ k # None
  <2> DEFINE f == [task[t] EXCEPT !.pc = "fetching", !.nested = FALSE, !.got = None]
  <2>1. task[t] \in Frames /\ FrameOK(t, task[t])
    BY DEF FramesOK
  <2>2. f \in Frames /\ f.pc = "fetching" /\ ~f.nested /\ f.got = None
        /\ f.op = task[t].op /\ f.arg = task[t].arg
    BY <2>1 DEF Frames, Points
  <2>3. task' = [task EXCEPT ![t] = f]
    BY <1>1, <2>1 DEF AfterRestore, FramesOK
  <2> HIDE DEF f
  <2>4. FrameOK(t, f)
    BY <1>1, <2>1, <2>2 DEF FrameOK
  <2>5. FramesOK' /\ task'[t] = f /\ \A u \in Tasks : u # t => task'[u] = task[u]
    BY <2>3, <2>4, Replaced
  <2> QED BY <1>1, <2>5 DEF f
<1>2. CASE ~(task[t].op = "absorb" /\ k # None)
  <2>1. Ends(t)
    BY <1>2 DEF AfterRestore
  <2> QED BY <1>2, <2>1, EndsFrame
<1> QED BY <1>1, <1>2

\* A realm ends: its calls are gone.
LEMMA EndedFrames ==
  ASSUME FramesOK, NEW S, task' = [t \in Tasks |-> IF t \in S THEN Idle ELSE task[t]]
  PROVE  FramesOK' /\ \A t \in Tasks : task'[t] = IF t \in S THEN Idle ELSE task[t]
PROOF
<1>1. \A t \in Tasks : task'[t] = IF t \in S THEN Idle ELSE task[t]
  OBVIOUS
<1>2. \A t \in Tasks : FrameOK(t, task'[t])
  BY <1>1, IdleFrame DEF FramesOK
<1>3. task' \in [Tasks -> Frames]
  BY <1>2 DEF FrameOK
<1> QED BY <1>1, <1>2, <1>3 DEF FramesOK

----------------------------------------------------------------------------
LEMMA InitType == Init => TypeInv
PROOF
<1> SUFFICES ASSUME Init PROVE TypeInv
  OBVIOUS
<1>1. FramesOK
  <2>1. task = [t \in Tasks |-> Idle]
    BY DEF Init
  <2>2. \A t \in Tasks : FrameOK(t, task[t])
    BY <2>1, IdleFrame
  <2>3. Idle \in Frames
    BY DEF Idle, Frames, Points
  <2>4. task \in [Tasks -> Frames]
    BY <2>1, <2>3
  <2> QED BY <2>2, <2>4 DEF FramesOK
<1>2. TypeOK
  <2>1. key \in [Realms -> Keys \cup {None}] /\ stock \in [Realms -> (SUBSET Items) \cup {None}]
    BY DEF Init
  <2>2. events \in 0 .. MaxEvents /\ screen \in Screens
    BY SessionAssumption DEF Init, Screens
  <2>3. {relocked, stale, recreated} \subseteq BOOLEAN
    BY DEF Init
  <2> QED BY <1>1, <2>1, <2>2, <2>3 DEF Init, TypeOK, FramesOK
<1> QED BY <1>1, <1>2 DEF TypeInv

LEMMA StepType == TypeInv /\ [Next]_vars => TypeInv'
PROOF
<1> SUFFICES ASSUME TypeInv, [Next]_vars PROVE TypeInv'
  OBVIOUS
<1> USE DEF TypeInv
<1>t. FramesOK /\ TypeOK
  OBVIOUS
<1>0. ASSUME FramesOK', UNCHANGED <<disk, entry, memory, events, history>>,
             generated' \subseteq Keys, screen' \in Screens
      PROVE  TypeInv'
  BY <1>0 DEF TypeOK, FramesOK, disk, memory, history
<1>s. ASSUME NEW t \in Tasks PROVE task[t] \in Frames /\ FrameOK(t, task[t]) /\ RealmOf(t) \in Realms
  BY RealmType DEF FramesOK
<1>1. ASSUME NEW t \in Tasks, ReadBlobs(t) PROVE TypeInv'
  <2>1. key[RealmOf(t)] \in Keys \cup {None} /\ {} \in SUBSET Items
    BY <1>s DEF TypeOK
  <2>2. CASE sealed = None
    <3>1. FramesOK'
      BY <1>1, <2>1, <2>2, PersistsFrame DEF ReadBlobs, At, Opening
    <3> QED BY <1>1, <1>s, <2>2, <3>1 DEF ReadBlobs, TypeOK, FramesOK, disk, history
  <2>3. CASE sealed # None
    <3>1. CASE key[RealmOf(t)] = sealed.by
      <4> DEFINE f == [task[t] EXCEPT !.pc = "loading", !.buf = sealed]
      <4>1. sealed \in Blobs
        BY <2>3 DEF TypeOK
      <4>2. f \in Frames /\ f.pc = "loading" /\ f.nested = task[t].nested /\ f.buf = sealed
            /\ f.op = task[t].op /\ f.arg = task[t].arg
        BY <1>s, <4>1 DEF Frames, Points
      <4>3. task' = [task EXCEPT ![t] = f]
        BY <1>1, <1>s, <2>3, <3>1 DEF ReadBlobs, FramesOK
      <4>4. task[t].pc = "reading"
        BY <1>1 DEF ReadBlobs, At
      <4> HIDE DEF f
      <4>5. FrameOK(t, f)
        BY <1>s, <4>1, <4>2, <4>4 DEF FrameOK, Opening
      <4>6. FramesOK'
        BY <4>3, <4>5, Replaced
      <4> QED BY <1>1, <2>3, <4>6 DEF ReadBlobs, TypeOK, FramesOK, disk, history
    <3>2. CASE key[RealmOf(t)] # sealed.by
      <4>1. FramesOK'
        BY <1>1, <2>3, <3>2, EndsFrame DEF ReadBlobs
      <4> QED BY <1>1, <2>3, <4>1 DEF ReadBlobs, TypeOK, FramesOK, disk, history
    <3> QED BY <3>1, <3>2
  <2> QED BY <2>2, <2>3
<1>2. ASSUME NEW t \in Tasks, Load(t) PROVE TypeInv'
  <2>1. task[t].buf \in Blobs /\ task[t].buf.items \in SUBSET Items
    BY <1>2, <1>s DEF Load, At, FrameOK, Blobs
  <2>2. FramesOK' /\ Held(t, task[t].buf.items) \in SUBSET Items
        /\ stock' = [stock EXCEPT ![RealmOf(t)] = Held(t, task[t].buf.items)]
    BY <1>2, <2>1, HasFrame DEF Load, At, Opening
  <2>3. stale' \in BOOLEAN
    BY <1>2 DEF Load, TypeOK
  <2>4. stock' \in [Realms -> (SUBSET Items) \cup {None}]
    BY <2>2 DEF TypeOK
  <2> QED BY <1>2, <2>2, <2>3, <2>4 DEF Load, TypeOK, FramesOK, disk
<1>3. ASSUME NEW t \in Tasks, Seal(t) PROVE TypeInv'
  <2>1. task[t].buf \in Blobs
    BY <1>3, <1>s DEF Seal, At, FrameOK
  <2>2. CASE Absorbing(t) /\ task[t].arg \in task[t].buf.items \cup {None}
    <3>1. FramesOK'
      BY <1>3, <2>2, EndsFrame DEF Seal
    <3>2. reported' \subseteq Items
      BY <1>3, <1>s, <2>2 DEF Seal, TypeOK, Absorbing, FrameOK
    <3> QED BY <1>3, <2>1, <3>1, <3>2 DEF Seal, TypeOK, FramesOK, memory
  <2>3. CASE ~(Absorbing(t) /\ task[t].arg \in task[t].buf.items \cup {None})
    <3>1. FramesOK'
      BY <1>3, <2>3, OpenedFrame DEF Seal, At, Opening
    <3> QED BY <1>3, <2>1, <2>3, <3>1 DEF Seal, TypeOK, FramesOK, memory
  <2> QED BY <2>2, <2>3
<1>4. ASSUME NEW t \in Tasks, Ask(t) PROVE TypeInv'
  <2>1. CASE Live
    <3> DEFINE p == IF stock[RealmOf(t)] = None THEN "reading" ELSE "renewing"
               f == [task[t] EXCEPT !.nested = TRUE, !.got = entry.key, !.pc = p]
    <3>1. p \in {"reading", "renewing"}
      OBVIOUS
    <3>2. entry.key \in Keys \cup {None}
      BY <2>1 DEF Live, TypeOK, Entries
    <3>3. task' = [task EXCEPT ![t] = f]
      BY <1>4, <1>s, <2>1 DEF Ask, FramesOK
    <3> HIDE DEF p
    <3>4. f \in Frames /\ f.pc = p /\ f.nested = TRUE /\ f.op = task[t].op /\ f.arg = task[t].arg
      BY <1>s, <3>1, <3>2 DEF Frames, Points
    <3>5. task[t].pc = "asking"
      BY <1>4 DEF Ask, At
    <3> HIDE DEF f
    <3>6. FrameOK(t, f)
      BY <1>s, <3>1, <3>4, <3>5 DEF FrameOK, Opening
    <3>7. FramesOK'
      BY <3>3, <3>6, Replaced
    <3>8. key' \in [Realms -> Keys \cup {None}]
      BY <1>4, <2>1, <3>2 DEF Ask, TypeOK
    <3> QED BY <1>4, <3>7, <3>8 DEF Ask, TypeOK, FramesOK, disk, history
  <2>2. CASE ~Live
    <3>1. task[t].pc = "asking"
      BY <1>4 DEF Ask, At
    <3> DEFINE f == [task[t] EXCEPT !.pc = "dropping"]
    <3>2. f \in Frames /\ f.pc = "dropping" /\ f.nested = task[t].nested /\ f.op = task[t].op /\ f.arg = task[t].arg
      BY <1>s DEF Frames, Points
    <3>3. FrameOK(t, f)
      BY <1>s, <3>1, <3>2 DEF FrameOK, Opening
    <3>4. FramesOK'
      BY <1>4, <2>2, <3>3, GoesFrame DEF Ask, Points
    <3> QED BY <1>4, <2>2, <3>4 DEF Ask, TypeOK, FramesOK, disk, history
  <2> QED BY <2>1, <2>2
<1>5. ASSUME NEW t \in Tasks, DropEntry(t) PROVE TypeInv'
  <2>1. FramesOK'
    BY <1>5, AfterRestoreFrame DEF DropEntry
  <2>2. screen' \in Screens
    BY <1>5 DEF DropEntry, AfterRestore, TypeOK, Screens
  <2> QED BY <1>5, <2>1, <2>2 DEF DropEntry, TypeOK, FramesOK, disk, memory, history
<1>6. ASSUME NEW t \in Tasks, RenewRestored(t) PROVE TypeInv'
  <2>1. FramesOK'
    BY <1>6, AfterRestoreFrame DEF RenewRestored
  <2>2. screen' \in Screens
    BY <1>6 DEF RenewRestored, AfterRestore, TypeOK, Screens
  <2>3. entry' \in Entries
    BY <1>6, <1>s DEF RenewRestored, Frames, Entries
  <2> QED BY <1>6, <2>1, <2>2, <2>3 DEF RenewRestored, TypeOK, FramesOK, disk, memory, history
<1>7. ASSUME NEW t \in Tasks, RenewOwn(t) PROVE TypeInv'
  <2>1. FramesOK'
    BY <1>7, EndsFrame DEF RenewOwn
  <2>2. screen' \in Screens
    BY <1>7 DEF RenewOwn, TypeOK, Screens
  <2>3. entry' \in Entries
    BY <1>7, <1>s DEF RenewOwn, TypeOK, Entries
  <2> QED BY <1>7, <2>1, <2>2, <2>3 DEF RenewOwn, TypeOK, FramesOK, disk, memory
<1>8. ASSUME NEW t \in Tasks, CallRead(t) PROVE TypeInv'
  <2>1. (IF stock[RealmOf(t)] = None THEN "reading" ELSE "describing") \in {"reading", "describing"}
    OBVIOUS
  <2>2. FramesOK'
    BY <1>8, <2>1, BeginsFrame DEF CallRead, Ops, Points, Beginning
  <2> QED BY <1>8, <1>0, <2>2 DEF CallRead, TypeOK
<1>9. ASSUME NEW t \in Tasks, Describe(t) PROVE TypeInv'
  <2>1. FramesOK'
    <3>1. CASE key[RealmOf(t)] = None
      <4> DEFINE f == [task[t] EXCEPT !.pc = "asking"]
      <4>1. f \in Frames /\ f.pc = "asking" /\ f.nested = task[t].nested /\ f.op = task[t].op /\ f.arg = task[t].arg
        BY <1>s DEF Frames, Points
      <4>2. task[t].pc = "describing"
        BY <1>9 DEF Describe, At
      <4>3. FrameOK(t, f)
        BY <1>s, <4>1, <4>2 DEF FrameOK, Opening
      <4> QED BY <1>9, <3>1, <4>3, GoesFrame DEF Describe, Points
    <3>2. CASE key[RealmOf(t)] # None
      BY <1>9, <3>2, EndsFrame DEF Describe
    <3> QED BY <3>1, <3>2
  <2> QED BY <1>9, <1>0, <2>1 DEF Describe, TypeOK
<1>10. ASSUME NEW t \in Tasks, NEW i \in Items \cup {None}, CallAbsorb(t, i) PROVE TypeInv'
  <2>1. (IF key["worker"] = None THEN "asking" ELSE "fetching") \in {"asking", "fetching"}
    OBVIOUS
  <2>2. FramesOK'
    BY <1>10, <2>1, BeginsFrame DEF CallAbsorb, Ops, Points, Beginning
  <2> QED BY <1>10, <1>0, <2>2 DEF CallAbsorb, TypeOK
<1>11. ASSUME NEW t \in Tasks, Accept(t) PROVE TypeInv'
  <2>0. task[t].pc = "fetching" /\ task[t].op = "absorb" /\ Absorbing(t)
    BY <1>11, <1>s DEF Accept, At, FrameOK, Opening, Absorbing, InRestore
  <2>1. CASE stock["worker"] = None
    <3> DEFINE f == [task[t] EXCEPT !.pc = "reading"]
    <3>1. f \in Frames /\ f.pc = "reading" /\ f.nested = task[t].nested /\ f.op = task[t].op /\ f.arg = task[t].arg
      BY <1>s DEF Frames, Points
    <3>2. FrameOK(t, f)
      BY <1>s, <2>0, <3>1 DEF FrameOK, Opening
    <3>3. FramesOK'
      BY <1>11, <2>1, <3>2, GoesFrame DEF Accept, Points
    <3> QED BY <1>11, <2>1, <3>3 DEF Accept, TypeOK, FramesOK, disk, history
  <2>2. CASE stock["worker"] # None
    <3>1. stock["worker"] \in SUBSET Items
      BY <2>2 DEF TypeOK, Realms
    <3>2. FramesOK' /\ Held(t, stock["worker"]) \in SUBSET Items
          /\ stock' = [stock EXCEPT ![RealmOf(t)] = Held(t, stock["worker"])]
      BY <1>11, <2>0, <2>2, <3>1, HasFrame DEF Accept
    <3>3. stock' \in [Realms -> (SUBSET Items) \cup {None}]
      BY <3>2 DEF TypeOK
    <3> QED BY <1>11, <3>2, <3>3 DEF Accept, TypeOK, FramesOK, disk, history
  <2> QED BY <2>1, <2>2
<1>12. ASSUME NEW t \in Tasks, OpenPopup(t) PROVE TypeInv'
  <2>1. FramesOK'
    BY <1>12, BeginsFrame DEF OpenPopup, Ops, Points, Beginning, FramesOK
  <2>2. screen' \in Screens
    BY <1>12 DEF OpenPopup, Screens
  <2> QED BY <1>12, <1>0, <2>1, <2>2 DEF OpenPopup, TypeOK
<1>13. CASE ClosePopup
  <2>1. FramesOK'
    BY <1>13, EndedFrames DEF ClosePopup
  <2>2. key' \in [Realms -> Keys \cup {None}] /\ stock' \in [Realms -> (SUBSET Items) \cup {None}]
    BY <1>13 DEF ClosePopup, TypeOK
  <2>3. events' \in 0 .. MaxEvents /\ screen' \in Screens
    BY <1>13, SessionAssumption DEF ClosePopup, Event, TypeOK, Screens
  <2> QED BY <1>13, <2>1, <2>2, <2>3 DEF ClosePopup, TypeOK, FramesOK, disk, history
<1>14. CASE Navigate
  <2>1. screen' \in Screens
    BY <1>14 DEF Navigate, SetUp, Back, Continue, Screens
  <2> QED BY <1>14, <1>0, <2>1 DEF Navigate, TypeOK, FramesOK
<1>15. ASSUME NEW t \in Tasks, CallUnlock(t) PROVE TypeInv'
  <2>1. vault \in Keys
    BY <1>15 DEF CallUnlock, TypeOK
  <2>2. FramesOK'
    BY <1>15, <2>1, BeginsFrame DEF CallUnlock, Ops, Points, Beginning
  <2> QED BY <1>15, <1>0, <2>2 DEF CallUnlock, TypeOK
<1>c. ASSUME NEW t \in Tasks, CachesKey(t), task[t].pc \in {"verifying", "generating"}
      PROVE  FramesOK' /\ key' \in [Realms -> Keys \cup {None}]
  <2>1. task[t].arg \in Keys
    BY <1>c, <1>s DEF FrameOK, Opening
  <2>2. key' \in [Realms -> Keys \cup {None}]
    BY <1>c, <2>1 DEF CachesKey, TypeOK
  <2>3. CASE stock["popup"] = None
    <3> DEFINE f == [task[t] EXCEPT !.pc = "reading"]
    <3>1. f \in Frames /\ f.pc = "reading" /\ f.nested = task[t].nested /\ f.op = task[t].op /\ f.arg = task[t].arg
      BY <1>s DEF Frames, Points
    <3>2. FrameOK(t, f)
      BY <1>s, <1>c, <3>1 DEF FrameOK, Opening
    <3> QED BY <1>c, <2>2, <2>3, <3>2, GoesFrame DEF CachesKey, Points
  <2>4. CASE stock["popup"] # None
    <3>1. AfterOpen(t) \in Points
      BY DEF AfterOpen, Points
    <3>2. FrameOK(t, [task[t] EXCEPT !.pc = AfterOpen(t)])
      BY <1>c, <1>s, OpenedPlace
    <3> QED BY <1>c, <2>2, <2>4, <3>1, <3>2, GoesFrame DEF CachesKey
  <2> QED BY <2>3, <2>4
<1>16. ASSUME NEW t \in Tasks, Verified(t) PROVE TypeInv'
  <2>1. FramesOK' /\ key' \in [Realms -> Keys \cup {None}]
    <3>1. CASE CachesKey(t)
      BY <1>16, <1>c, <3>1 DEF Verified, At
    <3>2. CASE Ends(t) /\ UNCHANGED key
      BY <3>2, EndsFrame DEF TypeOK
    <3> QED BY <1>16, <3>1, <3>2 DEF Verified
  <2> QED BY <1>16, <2>1 DEF Verified, TypeOK, FramesOK, disk, history
<1>17. ASSUME NEW t \in Tasks, NEW k \in Keys, CallCreate(t, k) PROVE TypeInv'
  <2>1. FramesOK'
    BY <1>17, BeginsFrame DEF CallCreate, Ops, Points, Beginning
  <2>2. recreated' \in BOOLEAN
    BY <1>17 DEF CallCreate, TypeOK
  <2> QED BY <1>17, <2>1, <2>2 DEF CallCreate, TypeOK, FramesOK, disk, memory
<1>18. ASSUME NEW t \in Tasks, Generated(t) PROVE TypeInv'
  <2>1. FramesOK' /\ key' \in [Realms -> Keys \cup {None}]
    BY <1>18, <1>c DEF Generated, At
  <2> QED BY <1>18, <2>1 DEF Generated, TypeOK, FramesOK, disk, history
<1>19. ASSUME NEW t \in Tasks, PutVault(t) PROVE TypeInv'
  <2>0. task[t].pc = "vaulting"
    BY <1>19 DEF PutVault, At
  <2>1. task[t].arg \in Keys
    BY <2>0, <1>s DEF FrameOK, Opening
  <2> DEFINE f == [task[t] EXCEPT !.pc = "renewing"]
  <2>2. f \in Frames /\ f.pc = "renewing" /\ f.nested = task[t].nested /\ f.op = task[t].op /\ f.arg = task[t].arg
    BY <1>s DEF Frames, Points
  <2>3. FrameOK(t, f)
    BY <1>s, <2>0, <2>2 DEF FrameOK, Opening
  <2>4. FramesOK'
    BY <1>19, <2>3, GoesFrame DEF PutVault, Points
  <2> QED BY <1>19, <2>1, <2>4 DEF PutVault, TypeOK, FramesOK, memory, history
<1>20. ASSUME NEW r \in Realms, Lock(r) PROVE TypeInv'
  <2>1. FramesOK' /\ task' = task
    BY <1>20 DEF Lock, FramesOK
  <2>2. key' \in [Realms -> Keys \cup {None}] /\ stock' \in [Realms -> (SUBSET Items) \cup {None}]
    BY <1>20 DEF Lock, TypeOK
  <2>3. events' \in 0 .. MaxEvents /\ screen' \in Screens
    BY <1>20, SessionAssumption DEF Lock, Event, TypeOK, Screens
  <2>4. suspects' \subseteq Tasks
    BY <1>20 DEF Lock
  <2> QED BY <1>20, <2>1, <2>2, <2>3, <2>4 DEF Lock, TypeOK, disk
<1>21. CASE Expire
  <2>1. entry' \in Entries
    BY <1>21 DEF Expire, Live, TypeOK, Entries
  <2>2. events' \in 0 .. MaxEvents
    BY <1>21, SessionAssumption DEF Expire, Event, TypeOK
  <2> QED BY <1>21, <2>1, <2>2 DEF Expire, TypeOK, FramesOK, disk, memory, history
<1>22. CASE EndWorker
  <2>1. FramesOK'
    BY <1>22, EndedFrames DEF EndWorker
  <2>2. key' \in [Realms -> Keys \cup {None}] /\ stock' \in [Realms -> (SUBSET Items) \cup {None}]
    BY <1>22 DEF EndWorker, TypeOK
  <2>3. events' \in 0 .. MaxEvents
    BY <1>22, SessionAssumption DEF EndWorker, Event, TypeOK
  <2> QED BY <1>22, <2>1, <2>2, <2>3 DEF EndWorker, TypeOK, FramesOK, disk, history
<1>23. CASE UNCHANGED vars
  <2>1. FramesOK'
    BY <1>23 DEF vars, FramesOK
  <2> QED BY <1>23, <2>1 DEF vars, TypeOK, disk, memory, history
<1>24. ASSUME NEW t \in Tasks, Throws(t) PROVE TypeInv'
  <2>1. FramesOK'
    BY <1>24, EndsFrame DEF Throws
  <2>2. events' \in 0 .. MaxEvents
    BY <1>24, SessionAssumption DEF Throws, Event, TypeOK
  <2> QED BY <1>24, <2>1, <2>2 DEF Throws, TypeOK, FramesOK, disk, memory, history
<1> QED BY <1>1, <1>2, <1>3, <1>4, <1>5, <1>6, <1>7, <1>8, <1>9, <1>10, <1>11, <1>12, <1>13,
           <1>14, <1>15, <1>16, <1>17, <1>18, <1>19, <1>20, <1>21, <1>22, <1>23, <1>24
        DEF Next, Call, Proceed

\* Every variable keeps its type: in particular no call sees the argument of a call
\* of another kind, and what is sealed or loaded is a stock under a key.
THEOREM TypeCorrect == Spec => []TypeOK
PROOF
<1>1. TypeInv => TypeOK
  BY DEF TypeInv
<1> QED BY <1>1, InitType, StepType, PTL DEF Spec
----------------------------------------------------------------------------
\* What each step does to the frame of the call that takes it; the others stay.

Others(t) == \A u \in Tasks : u # t => task'[u] = task[u]
Same(t) ==
  /\ task'[t].op = task[t].op /\ task'[t].arg = task[t].arg
  /\ task'[t].nested = task[t].nested /\ task'[t].got = task[t].got
Writes(t, k, s) == Same(t) /\ task'[t].pc = "sealing" /\ task'[t].buf = [by |-> k, items |-> s]
OpensAt(t) == Same(t) /\ task'[t].pc = AfterOpen(t)
MovesTo(t, p) == Same(t) /\ task'[t].pc = p

LEMMA Framed == ASSUME TypeInv, NEW t \in Tasks PROVE task[t] \in Frames /\ FrameOK(t, task[t])
PROOF BY DEF TypeInv, FramesOK

LEMMA GoesEffect ==
  ASSUME TypeInv, NEW t \in Tasks, NEW p, Goes(t, p)
  PROVE  Others(t) /\ MovesTo(t, p)
PROOF
<1>1. task' = [task EXCEPT ![t] = [task[t] EXCEPT !.pc = p]]
  BY DEF Goes, TypeInv, FramesOK
<1>2. task[t] \in Frames
  BY Framed
<1>3. task'[t] = [task[t] EXCEPT !.pc = p] /\ Others(t)
  BY <1>1 DEF Others, TypeInv, FramesOK
<1> QED BY <1>2, <1>3 DEF MovesTo, Same, Frames

LEMMA EndsEffect ==
  ASSUME TypeInv, NEW t \in Tasks, Ends(t)
  PROVE  Others(t) /\ task'[t] = Idle
PROOF BY EndsFrame DEF Others, TypeInv

LEMMA HasEffect ==
  ASSUME TypeInv, NEW t \in Tasks, NEW s \in SUBSET Items, Has(t, s),
         task[t].pc \in Opening \/ (task[t].pc = "fetching" /\ Absorbing(t))
  PROVE  /\ Others(t)
         /\ stock' = [stock EXCEPT ![RealmOf(t)] = Held(t, s)]
         /\ ~Absorbing(t) => OpensAt(t)
         /\ Absorbing(t) /\ key[RealmOf(t)] = None => task'[t] = Idle
         /\ Absorbing(t) /\ key[RealmOf(t)] # None => Writes(t, key[RealmOf(t)], Held(t, s))
PROOF
<1>1. task[t] \in Frames
  BY Framed
<1>2. CASE ~Absorbing(t)
  <2>1. task'[t] = [task[t] EXCEPT !.pc = AfterOpen(t), !.buf = None]
    BY <1>2, HasFrame
  <2>2. OpensAt(t)
    BY <1>1, <2>1 DEF OpensAt, Same, Frames
  <2> QED BY <1>2, <2>2, HasFrame DEF Others
<1>3. CASE Absorbing(t)
  <2>1. key[RealmOf(t)] # None => Writes(t, key[RealmOf(t)], Held(t, s))
    <3> SUFFICES ASSUME key[RealmOf(t)] # None PROVE Writes(t, key[RealmOf(t)], Held(t, s))
      OBVIOUS
    <3>1. task'[t] = [task[t] EXCEPT !.pc = "sealing",
                                     !.buf = [by |-> key[RealmOf(t)], items |-> Held(t, s)]]
      BY <1>3, HasFrame
    <3> QED BY <1>1, <3>1 DEF Writes, Same, Frames
  <2> QED BY <1>3, <2>1, HasFrame DEF Others
<1> QED BY <1>2, <1>3

LEMMA ReadBlobsEffect ==
  ASSUME TypeInv, NEW t \in Tasks, ReadBlobs(t)
  PROVE  /\ Others(t)
         /\ sealed = None => stock' = [stock EXCEPT ![RealmOf(t)] = {}]
         /\ sealed # None => stock' = stock
         /\ sealed = None /\ key[RealmOf(t)] = None => task'[t] = Idle
         /\ sealed = None /\ key[RealmOf(t)] # None => Writes(t, key[RealmOf(t)], {})
         /\ sealed # None /\ key[RealmOf(t)] = sealed.by => MovesTo(t, "loading")
         /\ sealed # None /\ key[RealmOf(t)] # sealed.by => task'[t] = Idle
PROOF
<1>1. task[t] \in Frames /\ task[t].pc = "reading"
  BY Framed DEF ReadBlobs, At
<1>2. CASE sealed = None
  <2>1. key[RealmOf(t)] \in Keys \cup {None} /\ {} \in SUBSET Items
    BY RealmType DEF TypeInv, TypeOK
  <2>2. Persists(t, {}, key[RealmOf(t)]) /\ stock' = [stock EXCEPT ![RealmOf(t)] = {}]
    BY <1>2 DEF ReadBlobs
  <2>3. /\ Others(t)
        /\ IF key[RealmOf(t)] = None THEN task'[t] = Idle
             ELSE task'[t] = [task[t] EXCEPT !.pc = "sealing", !.buf = [by |-> key[RealmOf(t)], items |-> {}]]
    <3>1. FramesOK /\ task[t].pc \in Opening \cup {"fetching"}
      BY <1>1 DEF TypeInv, Opening
    <3>2. \A u \in Tasks : u # t => task'[u] = task[u]
      BY <2>1, <2>2, <3>1, PersistsFrame
    <3> DEFINE k == key[RealmOf(t)]
    <3>4. k \in Keys \cup {None} /\ Persists(t, {}, k)
      BY <2>1, <2>2
    <3> HIDE DEF k
    <3>5. IF k = None THEN task'[t] = Idle
            ELSE task'[t] = [task[t] EXCEPT !.pc = "sealing", !.buf = [by |-> k, items |-> {}]]
      BY <2>1, <3>1, <3>4, PersistsFrame
    <3>3. IF key[RealmOf(t)] = None THEN task'[t] = Idle
            ELSE task'[t] = [task[t] EXCEPT !.pc = "sealing", !.buf = [by |-> key[RealmOf(t)], items |-> {}]]
      BY <3>5 DEF k
    <3> QED BY <3>2, <3>3 DEF Others
  <2>4. key[RealmOf(t)] # None => Writes(t, key[RealmOf(t)], {})
    BY <1>1, <2>3 DEF Writes, Same, Frames
  <2> QED BY <1>2, <2>2, <2>3, <2>4
<1>3. CASE sealed # None /\ key[RealmOf(t)] = sealed.by
  <2>1. task' = [task EXCEPT ![t] = [task[t] EXCEPT !.pc = "loading", !.buf = sealed]]
    BY <1>1, <1>3 DEF ReadBlobs, TypeInv, FramesOK
  <2>2. task'[t] = [task[t] EXCEPT !.pc = "loading", !.buf = sealed] /\ Others(t)
    BY <2>1 DEF Others, TypeInv, FramesOK
  <2>3. MovesTo(t, "loading")
    BY <1>1, <2>2 DEF MovesTo, Same, Frames
  <2> QED BY <1>3, <2>2, <2>3 DEF ReadBlobs
<1>4. CASE sealed # None /\ key[RealmOf(t)] # sealed.by
  BY <1>4, EndsEffect DEF ReadBlobs
<1> QED BY <1>2, <1>3, <1>4

LEMMA SealEffect ==
  ASSUME TypeInv, NEW t \in Tasks, Seal(t)
  PROVE  /\ Others(t) /\ sealed' = task[t].buf /\ task[t].buf \in Blobs
         /\ \/ /\ Absorbing(t) /\ task[t].arg \in task[t].buf.items \cup {None}
               /\ task'[t] = Idle
               /\ reported' = reported \cup ({task[t].arg} \ {None})
            \/ OpensAt(t) /\ reported' = reported
PROOF
<1>1. task[t] \in Frames /\ task[t].pc = "sealing" /\ task[t].buf \in Blobs
  BY Framed DEF Seal, At, FrameOK
<1>2. CASE Absorbing(t) /\ task[t].arg \in task[t].buf.items \cup {None}
  BY <1>1, <1>2, EndsEffect DEF Seal
<1>3. CASE ~(Absorbing(t) /\ task[t].arg \in task[t].buf.items \cup {None})
  <2>1. Opened(t) /\ reported' = reported
    BY <1>3 DEF Seal
  <2>2. task'[t] = [task[t] EXCEPT !.pc = AfterOpen(t), !.buf = None] /\ Others(t)
    BY <1>1, <2>1, OpenedFrame DEF TypeInv, Opening, Others
  <2>3. OpensAt(t)
    BY <1>1, <2>2 DEF OpensAt, Same, Frames
  <2> QED BY <1>1, <2>1, <2>2, <2>3 DEF Seal
<1> QED BY <1>2, <1>3

LEMMA AskEffect ==
  ASSUME TypeInv, NEW t \in Tasks, Ask(t)
  PROVE  /\ Others(t)
         /\ Live => /\ task'[t].pc \in {"reading", "renewing"}
                    /\ task'[t].op = task[t].op /\ task'[t].arg = task[t].arg
                    /\ task'[t].nested /\ task'[t].got = entry.key
                    /\ key' = [key EXCEPT ![RealmOf(t)] = entry.key]
         /\ ~Live => MovesTo(t, "dropping") /\ key' = key
PROOF
<1>1. task[t] \in Frames
  BY Framed
<1>2. CASE Live
  <2> DEFINE p == IF stock[RealmOf(t)] = None THEN "reading" ELSE "renewing"
  <2>1. p \in {"reading", "renewing"}
    OBVIOUS
  <2>2. task' = [task EXCEPT ![t] = [task[t] EXCEPT !.nested = TRUE, !.got = entry.key, !.pc = p]]
    BY <1>1, <1>2 DEF Ask, TypeInv, FramesOK
  <2> HIDE DEF p
  <2>3. task'[t] = [task[t] EXCEPT !.nested = TRUE, !.got = entry.key, !.pc = p] /\ Others(t)
    BY <2>2 DEF Others, TypeInv, FramesOK
  <2>4. /\ task'[t].pc = p /\ task'[t].op = task[t].op /\ task'[t].arg = task[t].arg
        /\ task'[t].nested /\ task'[t].got = entry.key
    BY <1>1, <2>3 DEF Frames
  <2> QED BY <1>2, <2>1, <2>3, <2>4 DEF Ask
<1>3. CASE ~Live
  BY <1>3, GoesEffect DEF Ask
<1> QED BY <1>2, <1>3

LEMMA AfterRestoreEffect ==
  ASSUME TypeInv, NEW t \in Tasks, NEW restored \in BOOLEAN, NEW k, AfterRestore(t, restored, k)
  PROVE  /\ Others(t)
         /\ \/ task'[t] = Idle
            \/ /\ task[t].op = "absorb" /\ k # None
               /\ task'[t].pc = "fetching" /\ task'[t].op = task[t].op /\ task'[t].arg = task[t].arg
               /\ ~task'[t].nested /\ task'[t].got = None
PROOF
<1>1. task[t] \in Frames
  BY Framed
<1>2. Others(t)
  BY AfterRestoreFrame DEF TypeInv, Others
<1>3. CASE task[t].op = "absorb" /\ k # None
  <2>1. task'[t] = [task[t] EXCEPT !.pc = "fetching", !.nested = FALSE, !.got = None]
    <3>1. FramesOK
      BY DEF TypeInv
    <3>2. IF task[t].op = "absorb" /\ k # None
            THEN task'[t] = [task[t] EXCEPT !.pc = "fetching", !.nested = FALSE, !.got = None]
            ELSE task'[t] = Idle
      BY <3>1, AfterRestoreFrame
    <3> QED BY <1>3, <3>2
  <2> QED BY <1>1, <1>2, <1>3, <2>1 DEF Frames
<1>4. CASE ~(task[t].op = "absorb" /\ k # None)
  BY <1>2, <1>4, AfterRestoreFrame DEF TypeInv
<1> QED BY <1>3, <1>4

Begun(t, o, a) ==
  task'[t].op = o /\ task'[t].arg = a /\ ~task'[t].nested /\ task'[t].got = None

LEMMA CallEffect ==
  ASSUME TypeInv, NEW t \in Tasks
  PROVE  /\ CallRead(t) => Others(t) /\ Begun(t, "read", None) /\ task'[t].pc \in {"reading", "describing"}
         /\ \A i \in Items \cup {None} : CallAbsorb(t, i) =>
              Others(t) /\ Begun(t, "absorb", i) /\ task'[t].pc \in {"asking", "fetching"}
              /\ (key["worker"] = None => task'[t].pc = "asking")
         /\ CallUnlock(t) => Others(t) /\ Begun(t, "unlock", vault) /\ task'[t].pc = "verifying"
         /\ \A k \in Keys : CallCreate(t, k) => Others(t) /\ Begun(t, "create", k) /\ task'[t].pc = "generating"
         /\ OpenPopup(t) /\ vault # None => Others(t) /\ Begun(t, "restore", None) /\ task'[t].pc = "asking"
PROOF
<1>0. FramesOK
  BY DEF TypeInv
<1> USE DEF Others, Begun
<1>1. ASSUME CallRead(t)
      PROVE  Others(t) /\ Begun(t, "read", None) /\ task'[t].pc \in {"reading", "describing"}
  <2> DEFINE p == IF stock[RealmOf(t)] = None THEN "reading" ELSE "describing"
  <2>1. p \in {"reading", "describing"}
    OBVIOUS
  <2>2. Begins(t, "read", p, None)
    BY <1>1 DEF CallRead
  <2> HIDE DEF p
  <2>3. Beginning(t, "read", p, None)
    BY <2>1 DEF Beginning, Ops, Points
  <2> QED BY <1>0, <2>1, <2>2, <2>3, BeginsFrame
<1>2. ASSUME NEW i \in Items \cup {None}, CallAbsorb(t, i)
      PROVE  /\ Others(t) /\ Begun(t, "absorb", i) /\ task'[t].pc \in {"asking", "fetching"}
             /\ key["worker"] = None => task'[t].pc = "asking"
  <2> DEFINE p == IF key["worker"] = None THEN "asking" ELSE "fetching"
  <2>1. p \in {"asking", "fetching"} /\ (key["worker"] = None => p = "asking")
    OBVIOUS
  <2>2. Begins(t, "absorb", p, i) /\ t \in WorkerTasks
    BY <1>2 DEF CallAbsorb
  <2> HIDE DEF p
  <2>3. Beginning(t, "absorb", p, i)
    BY <2>1, <2>2 DEF Beginning, Ops, Points
  <2> QED BY <1>0, <2>1, <2>2, <2>3, BeginsFrame
<1>3. ASSUME CallUnlock(t)
      PROVE  Others(t) /\ Begun(t, "unlock", vault) /\ task'[t].pc = "verifying"
  <2>1. Begins(t, "unlock", "verifying", vault) /\ t \in PopupTasks /\ vault \in Keys
    BY <1>3 DEF CallUnlock, TypeInv, TypeOK
  <2>2. Beginning(t, "unlock", "verifying", vault)
    BY <2>1 DEF Beginning, Ops, Points
  <2> QED BY <1>0, <2>1, <2>2, BeginsFrame
<1>4. ASSUME NEW k \in Keys, CallCreate(t, k)
      PROVE  Others(t) /\ Begun(t, "create", k) /\ task'[t].pc = "generating"
  <2>1. Begins(t, "create", "generating", k) /\ t \in PopupTasks
    BY <1>4 DEF CallCreate
  <2>2. Beginning(t, "create", "generating", k)
    BY <2>1 DEF Beginning, Ops, Points
  <2> QED BY <1>0, <2>1, <2>2, BeginsFrame
<1>5. ASSUME OpenPopup(t), vault # None
      PROVE  Others(t) /\ Begun(t, "restore", None) /\ task'[t].pc = "asking"
  <2>1. Begins(t, "restore", "asking", None)
    BY <1>5 DEF OpenPopup
  <2>2. Beginning(t, "restore", "asking", None)
    BY DEF Beginning, Ops, Points
  <2> QED BY <1>0, <2>1, <2>2, BeginsFrame
<1> QED BY <1>1, <1>2, <1>3, <1>4, <1>5

LEMMA DescribeEffect ==
  ASSUME TypeInv, NEW t \in Tasks, Describe(t)
  PROVE  Others(t) /\ (task'[t] = Idle \/ MovesTo(t, "asking"))
PROOF BY GoesEffect, EndsEffect DEF Describe

LEMMA AcceptEffect ==
  ASSUME TypeInv, NEW t \in Tasks, Accept(t)
  PROVE  /\ Absorbing(t) /\ t \in WorkerTasks /\ RealmOf(t) = "worker" /\ Others(t)
         /\ stock["worker"] = None => stock' = stock /\ MovesTo(t, "reading")
         /\ stock["worker"] # None =>
              /\ stock["worker"] \in SUBSET Items
              /\ stock' = [stock EXCEPT !["worker"] = Held(t, stock["worker"])]
              /\ key["worker"] = None => task'[t] = Idle
              /\ key["worker"] # None => Writes(t, key["worker"], Held(t, stock["worker"]))
PROOF
<1>1. task[t].pc = "fetching" /\ Absorbing(t) /\ t \in WorkerTasks /\ RealmOf(t) = "worker"
  BY Framed DEF Accept, At, FrameOK, Opening, Absorbing, InRestore, RealmOf
<1>2. CASE stock["worker"] = None
  BY <1>1, <1>2, GoesEffect DEF Accept
<1>3. CASE stock["worker"] # None
  <2>1. stock["worker"] \in SUBSET Items
    BY <1>3 DEF TypeInv, TypeOK, Realms
  <2>2. Has(t, stock["worker"])
    BY <1>3 DEF Accept
  <2> QED BY <1>1, <1>3, <2>1, <2>2, HasEffect
<1> QED BY <1>2, <1>3

LEMMA CachesKeyEffect ==
  ASSUME TypeInv, NEW t \in Tasks, CachesKey(t)
  PROVE  /\ Others(t) /\ key' = [key EXCEPT !["popup"] = task[t].arg]
         /\ stock["popup"] = None => MovesTo(t, "reading")
         /\ stock["popup"] # None => OpensAt(t)
PROOF BY GoesEffect DEF CachesKey, OpensAt, MovesTo

LEMMA EndedEffect ==
  ASSUME TypeInv, NEW S, task' = [t \in Tasks |-> IF t \in S THEN Idle ELSE task[t]]
  PROVE  \A t \in Tasks : (t \in S => task'[t] = Idle) /\ (t \notin S => task'[t] = task[t])
PROOF OBVIOUS

LEMMA IdleFields ==
  Idle.pc = "idle" /\ Idle.op = None /\ Idle.arg = None /\ ~Idle.nested
  /\ Idle.got = None /\ Idle.buf = None
PROOF BY DEF Idle
----------------------------------------------------------------------------
\* After a lock that no restoreSession() had got ahead of, no call is inside one: a
\* call enters it only on a live entry, and there is none before the next password.
LockInv == relocked /\ suspects = {} => ~Live /\ \A t \in Tasks : ~InRestore(t)

\* A call enters restoreSession() by Ask() only.
LEMMA EntersByAsk ==
  ASSUME TypeInv, [Next]_vars, \A t \in Tasks : ~(Ask(t) /\ Live)
  PROVE  \A u \in Tasks : task'[u].nested => task[u].nested
PROOF
<1> SUFFICES ASSUME NEW u \in Tasks PROVE task'[u].nested => task[u].nested
  OBVIOUS
<1> USE IdleFields
<1>o. ASSUME NEW t \in Tasks, Others(t), Same(t) \/ ~task'[t].nested
      PROVE  task'[u].nested => task[u].nested
  BY <1>o DEF Others, Same
<1>1. ASSUME NEW t \in Tasks, ReadBlobs(t) PROVE task'[u].nested => task[u].nested
  BY <1>1, <1>o, ReadBlobsEffect DEF Writes, MovesTo
<1>2. ASSUME NEW t \in Tasks, Load(t) PROVE task'[u].nested => task[u].nested
  <2>1. task[t].buf.items \in SUBSET Items /\ task[t].pc \in Opening /\ Has(t, task[t].buf.items)
    BY <1>2, Framed DEF Load, At, FrameOK, Blobs, Opening
  <2> QED BY <1>o, <2>1, HasEffect DEF Writes, OpensAt
<1>3. ASSUME NEW t \in Tasks, Seal(t) PROVE task'[u].nested => task[u].nested
  BY <1>3, <1>o, SealEffect DEF OpensAt
<1>4. ASSUME NEW t \in Tasks, Ask(t) PROVE task'[u].nested => task[u].nested
  BY <1>4, <1>o, AskEffect DEF MovesTo
<1>5. ASSUME NEW t \in Tasks, DropEntry(t) \/ RenewRestored(t) PROVE task'[u].nested => task[u].nested
  BY <1>5, <1>o, AfterRestoreEffect DEF DropEntry, RenewRestored
<1>6. ASSUME NEW t \in Tasks, RenewOwn(t) PROVE task'[u].nested => task[u].nested
  BY <1>6, <1>o, EndsEffect DEF RenewOwn
<1>7. ASSUME NEW t \in Tasks, Describe(t) PROVE task'[u].nested => task[u].nested
  BY <1>7, <1>o, DescribeEffect DEF MovesTo
<1>8. ASSUME NEW t \in Tasks, Accept(t) PROVE task'[u].nested => task[u].nested
  BY <1>8, <1>o, AcceptEffect DEF MovesTo, Writes
<1>9. ASSUME NEW t \in Tasks, Verified(t) \/ Generated(t) PROVE task'[u].nested => task[u].nested
  BY <1>9, <1>o, CachesKeyEffect, EndsEffect DEF Verified, Generated, MovesTo, OpensAt
<1>10. ASSUME NEW t \in Tasks, PutVault(t) PROVE task'[u].nested => task[u].nested
  BY <1>10, <1>o, GoesEffect DEF PutVault, MovesTo
<1>11. ASSUME NEW t \in Tasks, Call(t) PROVE task'[u].nested => task[u].nested
  BY <1>11, <1>o, CallEffect DEF Call, Begun
<1>12. ASSUME NEW t \in Tasks, OpenPopup(t) PROVE task'[u].nested => task[u].nested
  <2>1. CASE vault = None
    BY <1>12, <2>1 DEF OpenPopup
  <2>2. CASE vault # None
    BY <1>12, <1>o, <2>2, CallEffect DEF Begun
  <2> QED BY <2>1, <2>2
<1>13. CASE ClosePopup
  BY <1>13, EndedEffect DEF ClosePopup
<1>14. CASE EndWorker
  BY <1>14, EndedEffect DEF EndWorker
<1>15. CASE task' = task
  BY <1>15
<1>16. ASSUME NEW t \in Tasks, Throws(t) PROVE task'[u].nested => task[u].nested
  BY <1>16, <1>o, EndsEffect DEF Throws
<1> QED BY <1>1, <1>2, <1>3, <1>4, <1>5, <1>6, <1>7, <1>8, <1>9, <1>10, <1>11, <1>12, <1>13, <1>14,
           <1>15, <1>16
        DEF Next, Proceed, Navigate, Lock, Expire, vars

LEMMA StepLock == TypeInv /\ LockInv /\ [Next]_vars => LockInv'
PROOF
<1> SUFFICES ASSUME TypeInv, LockInv, [Next]_vars, relocked', suspects' = {}
             PROVE  ~Live' /\ \A t \in Tasks : ~InRestore(t)'
  BY DEF LockInv
<1>1. ASSUME NEW r \in Realms, Lock(r)
      PROVE  ~Live' /\ \A t \in Tasks : ~InRestore(t)'
  BY <1>1 DEF Lock, Live, InRestore
<1>2. ASSUME NEW t \in Tasks, RenewOwn(t)
      PROVE  FALSE
  BY <1>2 DEF RenewOwn
<1>3. CASE /\ ~\E r \in Realms : Lock(r)
           /\ ~\E t \in Tasks : RenewOwn(t)
  <2>1. relocked /\ suspects = {}
    BY <1>3 DEF Next, Call, Proceed, ReadBlobs, Load, Seal, Ask, DropEntry, RenewRestored, Describe,
       Accept, Throws, Verified, Generated, PutVault, CallRead, CallUnlock, CallAbsorb, CallCreate, OpenPopup,
       ClosePopup, Navigate, Expire, EndWorker, vars, history
  <2>2. ~Live /\ \A t \in Tasks : ~InRestore(t)
    BY <2>1 DEF LockInv
  <2>3. \A t \in Tasks : ~InRestore(t)'
    BY <2>2, EntersByAsk DEF InRestore
  <2>4. ASSUME NEW t \in Tasks PROVE ~RenewRestored(t)
    BY <2>2 DEF RenewRestored
  <2>5. entry' = entry \/ entry' = None
    BY <1>3, <2>2, <2>4 DEF Next, Call, Proceed, ReadBlobs, Load, Seal, Ask, DropEntry, Describe,
       Accept, Throws, Verified, Generated, PutVault, CallRead, CallUnlock, CallAbsorb, CallCreate, OpenPopup,
       ClosePopup, Navigate, Expire, EndWorker, vars
  <2> QED BY <2>2, <2>3, <2>5 DEF Live
<1> QED BY <1>1, <1>2, <1>3

\* No session comes back to life after a lock unless a restoreSession() had read the
\* entry when lock() removed it, in either realm and at any await.
THEOREM LockIsHeld == Spec => []LockHoldsUnlessRestoring
PROOF
<1>1. Init => LockInv
  BY DEF Init, LockInv
<1>2. LockInv => LockHoldsUnlessRestoring
  BY DEF LockInv, LockHoldsUnlessRestoring, LockHolds
<1> QED BY <1>1, <1>2, InitType, StepType, StepLock, PTL DEF Spec
----------------------------------------------------------------------------
\* One wallet, before its vault is on disk: no session and no worker has a key, and
\* the only calls in the popup are creations, one at a time, whose key is the one the
\* popup holds and either what the blobs are sealed under or refused by them.  It
\* begins over no stock: one that threw may have left the popup with its own.
Creating(t) == task[t].op = "create"
BeforeTask(t) ==
  /\ ~task[t].nested
  /\ t \in WorkerTasks => task[t].pc \notin {"loading", "sealing"}
  /\ t \in PopupTasks => task[t].op \in {None, "create"}
  /\ Creating(t) =>
       /\ task[t].arg \in generated /\ task[t].pc \notin {"loading", "renewing"}
       /\ task[t].pc = "generating" => stock["popup"] = None
       /\ task[t].pc \in {"generating", "reading"} /\ sealed # None => sealed.by # task[t].arg
       /\ task[t].pc \in {"reading", "sealing", "vaulting"} => key["popup"] = task[t].arg
       /\ task[t].pc = "sealing" => task[t].buf.by = task[t].arg
       /\ task[t].pc = "vaulting" => sealed # None /\ sealed.by = task[t].arg
OneCreation == \A t, u \in PopupTasks : Creating(t) /\ Creating(u) => t = u
BeforeVault ==
  /\ entry = None /\ key["worker"] = None
  /\ screen \in {"closed", "onboarding", "lock"}
  /\ sealed # None => sealed.by \in generated
  /\ OneCreation
  /\ \A t \in Tasks : BeforeTask(t)

\* After it: every key about is the vault's, and every blob under way is the drain's.
AfterTask(t) ==
  /\ task[t].nested => task[t].got \in {vault, None}
  /\ task[t].pc = "sealing" => Absorbing(t) /\ task[t].buf.by = vault
  /\ task[t].op = "unlock" => task[t].arg = vault
  /\ Creating(t) => task[t].pc = "renewing"
AfterVault ==
  /\ sealed # None /\ sealed.by = vault
  /\ entry # None => entry.key \in {vault, None}
  /\ \A r \in Realms : key[r] \in {vault, None}
  /\ \A t \in Tasks : AfterTask(t)

WalletInv == ~recreated => (vault = None => BeforeVault) /\ (vault # None => AfterVault)

LEMMA RealmsOfCallers ==
  /\ \A t \in WorkerTasks : t \in Tasks /\ t \notin PopupTasks /\ RealmOf(t) = "worker"
  /\ \A t \in PopupTasks : t \in Tasks /\ t \notin WorkerTasks /\ RealmOf(t) = "popup"
PROOF BY SessionAssumption DEF RealmOf, Tasks

\* A step that leaves the shared state and moves one call keeps what holds of others.
LEMMA BeforeOthers ==
  ASSUME BeforeVault, NEW t \in Tasks, Others(t), NEW u \in Tasks, u # t,
         generated \subseteq generated', sealed' = sealed, stock'["popup"] = stock["popup"],
         key'["popup"] = key["popup"]
  PROVE  BeforeTask(u)'
PROOF BY DEF BeforeVault, BeforeTask, Others, Creating

\* The worker's calls before there is a vault: none of them seals, restores or unlocks.
LEMMA BeforeByWorker ==
  ASSUME BeforeVault, NEW t \in WorkerTasks, Others(t), ~task'[t].nested, task'[t].op # "create",
         task'[t].pc \notin {"loading", "sealing"},
         entry' = None, key'["worker"] = None, screen' \in {"closed", "onboarding", "lock"},
         generated' = generated, sealed' = sealed, stock'["popup"] = stock["popup"],
         key'["popup"] = key["popup"]
  PROVE  BeforeVault'
PROOF
<1>1. t \in Tasks /\ t \notin PopupTasks
  BY RealmsOfCallers
<1>2. \A u \in PopupTasks : u \in Tasks /\ u # t /\ task'[u] = task[u]
  BY <1>1, RealmsOfCallers DEF Others
<1>3. \A u \in Tasks : BeforeTask(u)'
  <2>1. BeforeTask(t)'
    BY <1>1 DEF BeforeTask, Creating
  <2> QED BY <1>1, <2>1, BeforeOthers
<1>4. OneCreation'
  BY <1>2 DEF BeforeVault, OneCreation, Creating
<1> QED BY <1>3, <1>4 DEF BeforeVault

\* The one creation moves on.
LEMMA BeforeByCreation ==
  ASSUME TypeInv, BeforeVault, NEW t \in PopupTasks, Creating(t), Others(t), Creating(t)', BeforeTask(t)',
         UNCHANGED <<entry, screen, generated>>, key'["worker"] = None,
         sealed' # None => sealed'.by \in generated'
  PROVE  BeforeVault'
PROOF
<1>1. t \in Tasks
  BY RealmsOfCallers
<1>2. \A u \in PopupTasks : u # t => ~Creating(u) /\ task'[u] = task[u]
  BY RealmsOfCallers DEF BeforeVault, OneCreation, Others
<1>3. ASSUME NEW u \in Tasks, u # t PROVE BeforeTask(u)'
  <2>1. task'[u] = task[u] /\ BeforeTask(u)
    BY <1>3 DEF Others, BeforeVault
  <2>2. ~Creating(u)
    <3>1. CASE u \in PopupTasks
      BY <1>2, <1>3, <3>1
    <3>2. CASE u \in WorkerTasks
      BY <3>2, Framed, RealmsOfCallers DEF FrameOK, Creating
    <3> QED BY <3>1, <3>2 DEF Tasks
  <2> QED BY <2>1, <2>2 DEF BeforeTask, Creating
<1>4. OneCreation'
  BY <1>2 DEF OneCreation, Creating
<1> QED BY <1>1, <1>3, <1>4 DEF BeforeVault
\* What a worker's call may be while there is no key.
LEMMA WorkerFrame ==
  ASSUME TypeInv, BeforeVault, NEW t \in WorkerTasks
  PROVE  /\ t \in Tasks /\ ~task[t].nested /\ ~Creating(t) /\ RealmOf(t) = "worker"
         /\ task[t].pc \in {"idle", "asking", "dropping", "reading", "describing", "fetching"}
         /\ task[t].pc = "describing" => task[t].op = "read"
PROOF
<1>1. t \in Tasks /\ t \notin PopupTasks /\ RealmOf(t) = "worker"
  BY RealmsOfCallers
<1>2. FrameOK(t, task[t]) /\ BeforeTask(t)
  BY <1>1, Framed DEF BeforeVault
<1>3. ~task[t].nested /\ task[t].pc \notin {"loading", "sealing"}
  BY <1>2 DEF BeforeTask
<1>4. task[t].op \notin {"unlock", "create"}
  BY <1>1, <1>2 DEF FrameOK
<1> QED BY <1>1, <1>2, <1>3, <1>4 DEF FrameOK, Opening, Creating

\* And a popup's.
LEMMA PopupFrame ==
  ASSUME TypeInv, BeforeVault, NEW t \in PopupTasks
  PROVE  /\ t \in Tasks /\ ~task[t].nested /\ ~Absorbing(t) /\ RealmOf(t) = "popup"
         /\ task[t].pc # "idle" => Creating(t)
         /\ task[t].pc \in {"idle", "generating", "reading", "sealing", "vaulting"}
PROOF
<1>1. t \in Tasks /\ t \notin WorkerTasks /\ RealmOf(t) = "popup"
  BY RealmsOfCallers
<1>2. FrameOK(t, task[t]) /\ BeforeTask(t)
  BY <1>1, Framed DEF BeforeVault
<1>3. ~task[t].nested /\ task[t].op \in {None, "create"}
  BY <1>2 DEF BeforeTask
<1>4. None # "read" /\ None # "absorb" /\ None # "restore" /\ None # "unlock" /\ None # "create"
  BY SentinelAssumption DEF Ops
<1>5. CASE task[t].op = None
  BY <1>1, <1>2, <1>3, <1>4, <1>5 DEF FrameOK, Absorbing
<1>6. CASE task[t].op = "create"
  BY <1>1, <1>2, <1>3, <1>4, <1>6 DEF FrameOK, Absorbing, BeforeTask, Creating, Opening
<1> QED BY <1>3, <1>5, <1>6

\* The steps of openStock() and persist() before there is a vault.
LEMMA StockStepsBefore ==
  ASSUME TypeInv, BeforeVault, NEW t \in Tasks, ReadBlobs(t) \/ Load(t) \/ Seal(t) \/ Accept(t)
  PROVE  BeforeVault'
PROOF
<1> USE IdleFields
<1>n. None # "create" /\ None \notin Keys
  BY SentinelAssumption, SessionAssumption DEF Ops
<1>s. entry = None /\ key["worker"] = None /\ screen \in {"closed", "onboarding", "lock"}
      /\ (sealed # None => sealed.by \in generated /\ sealed.by \in Keys)
  BY DEF BeforeVault, TypeInv, TypeOK, Blobs
<1>1. CASE ReadBlobs(t)
  <2>0. task[t].pc = "reading" /\ UNCHANGED <<sealed, entry, key, screen, generated>>
    BY <1>1 DEF ReadBlobs, At, disk
  <2>1. CASE t \in WorkerTasks
    <3>1. RealmOf(t) = "worker"
      BY <2>1, RealmsOfCallers
    <3>2. Others(t) /\ task'[t] = Idle
      BY <1>1, <1>s, <1>n, <3>1, ReadBlobsEffect
    <3>3. stock'["popup"] = stock["popup"]
      BY <1>1, <3>1, ReadBlobsEffect DEF TypeInv, TypeOK, Realms
    <3> QED BY <1>n, <1>s, <2>0, <2>1, <3>2, <3>3, BeforeByWorker
  <2>2. CASE t \in PopupTasks
    <3>1. Creating(t) /\ RealmOf(t) = "popup" /\ BeforeTask(t) /\ ~task[t].nested
      BY <2>0, <2>2, PopupFrame DEF BeforeVault
    <3>2. key["popup"] = task[t].arg /\ task[t].arg \in generated /\ task[t].arg \in Keys
      BY <2>0, <3>1, Framed DEF BeforeTask, FrameOK, Creating
    <3>3. CASE sealed = None
      <4>1. Others(t) /\ Writes(t, task[t].arg, {})
        BY <1>1, <1>n, <3>1, <3>2, <3>3, ReadBlobsEffect
      <4>2. Creating(t)' /\ task'[t].pc = "sealing" /\ task'[t].arg = task[t].arg
            /\ ~task'[t].nested /\ task'[t].buf.by = task[t].arg
        BY <3>1, <4>1 DEF Writes, Same, Creating
      <4>3. BeforeTask(t)'
        BY <2>0, <2>2, <3>2, <4>2, RealmsOfCallers DEF BeforeTask, Creating
      <4> QED BY <1>s, <2>0, <2>2, <3>1, <4>1, <4>2, <4>3, BeforeByCreation
    <3>4. CASE sealed # None
      <4>1. sealed.by # task[t].arg
        BY <2>0, <3>1, <3>4 DEF BeforeTask
      <4>2. Others(t) /\ task'[t] = Idle /\ stock' = stock
        BY <1>1, <3>1, <3>2, <3>4, <4>1, ReadBlobsEffect
      <4>4. BeforeTask(t)'
        BY <1>n, <2>2, <4>2, RealmsOfCallers DEF BeforeTask, Creating
      <4>5. \A u \in Tasks : BeforeTask(u)'
        BY <2>0, <4>2, <4>4, BeforeOthers
      <4>6. OneCreation'
        BY <1>n, <4>2, RealmsOfCallers DEF OneCreation, Creating, Others, BeforeVault
      <4> QED BY <1>s, <2>0, <4>2, <4>5, <4>6 DEF BeforeVault
    <3> QED BY <3>3, <3>4
  <2> QED BY <2>1, <2>2 DEF Tasks
<1>2. CASE Load(t)
  <2>1. task[t].pc = "loading"
    BY <1>2 DEF Load, At
  <2> QED BY <2>1, WorkerFrame, PopupFrame DEF Tasks
<1>3. CASE Seal(t)
  <2>0. task[t].pc = "sealing" /\ UNCHANGED <<entry, key, stock, screen, generated>>
    BY <1>3 DEF Seal, At, memory
  <2>1. t \in PopupTasks
    BY <2>0, WorkerFrame DEF Tasks
  <2>2. Creating(t) /\ ~Absorbing(t) /\ BeforeTask(t) /\ ~task[t].nested
    BY <2>0, <2>1, PopupFrame DEF BeforeVault
  <2>3. Others(t) /\ OpensAt(t) /\ sealed' = task[t].buf /\ task[t].buf \in Blobs
    BY <1>3, <2>2, SealEffect
  <2>4. AfterOpen(t) = "vaulting"
    BY <2>2 DEF AfterOpen, InRestore, Creating
  <2>5. Creating(t)' /\ task'[t].pc = "vaulting" /\ task'[t].arg = task[t].arg /\ ~task'[t].nested
    BY <2>2, <2>3, <2>4 DEF OpensAt, Same, Creating
  <2>6. /\ key["popup"] = task[t].arg /\ task[t].arg \in generated
        /\ sealed'.by = task[t].arg /\ sealed' # None
    BY <2>0, <2>2, <2>3, SentinelAssumption DEF BeforeTask
  <2>7. BeforeTask(t)'
    BY <2>0, <2>1, <2>5, <2>6, RealmsOfCallers DEF BeforeTask, Creating
  <2> QED BY <1>s, <2>0, <2>1, <2>2, <2>3, <2>5, <2>6, <2>7, BeforeByCreation
<1>4. CASE Accept(t)
  <2>0. UNCHANGED <<sealed, entry, key, screen, generated>>
    BY <1>4 DEF Accept, disk
  <2>1. t \in WorkerTasks /\ Others(t) /\ ~task[t].nested /\ ~Creating(t)
    BY <1>4, AcceptEffect, WorkerFrame
  <2>2. CASE stock["worker"] = None
    <3>1. stock' = stock /\ MovesTo(t, "reading")
      BY <1>4, <2>2, AcceptEffect
    <3>2. ~task'[t].nested /\ task'[t].op # "create" /\ task'[t].pc = "reading"
      BY <2>1, <3>1 DEF MovesTo, Same, Creating
    <3> QED BY <1>s, <2>0, <2>1, <3>1, <3>2, BeforeByWorker
  <2>3. CASE stock["worker"] # None
    <3>1. task'[t] = Idle /\ stock' = [stock EXCEPT !["worker"] = Held(t, stock["worker"])]
      BY <1>4, <1>s, <2>3, AcceptEffect
    <3>2. stock'["popup"] = stock["popup"]
      BY <3>1 DEF TypeInv, TypeOK, Realms
    <3> QED BY <1>n, <1>s, <2>0, <2>1, <3>1, <3>2, BeforeByWorker
  <2> QED BY <2>2, <2>3
<1> QED BY <1>1, <1>2, <1>3, <1>4
\* The calls of the worker, and what restores a session, before there is a vault.
LEMMA CallStepsBefore ==
  ASSUME TypeInv, BeforeVault, NEW t \in Tasks,
         \/ Ask(t) \/ DropEntry(t) \/ RenewRestored(t) \/ RenewOwn(t)
         \/ CallRead(t) \/ Describe(t) \/ \E i \in Items \cup {None} : CallAbsorb(t, i)
  PROVE  BeforeVault'
PROOF
<1> USE IdleFields
<1>n. None # "create"
  BY SentinelAssumption DEF Ops
<1>s. entry = None /\ key["worker"] = None /\ screen \in {"closed", "onboarding", "lock"} /\ ~Live
  BY DEF BeforeVault, Live
<1>w. ASSUME t \in WorkerTasks, Others(t), ~task'[t].nested, task'[t].op # "create",
             task'[t].pc \notin {"loading", "sealing"}, entry' = None, screen' \in {screen, "lock"},
             UNCHANGED <<disk, memory, generated>>
      PROVE  BeforeVault'
  BY <1>s, <1>w, BeforeByWorker DEF disk, memory
<1>1. CASE Ask(t)
  <2>1. task[t].pc = "asking" /\ Others(t) /\ MovesTo(t, "dropping") /\ key' = key
    BY <1>1, <1>s, AskEffect DEF Ask, At
  <2>2. t \in WorkerTasks /\ ~task[t].nested /\ ~Creating(t)
    BY <2>1, PopupFrame, WorkerFrame DEF Tasks
  <2> QED BY <1>1, <1>s, <1>w, <2>1, <2>2 DEF Ask, MovesTo, Same, Creating, memory
<1>2. CASE DropEntry(t)
  <2>1. task[t].pc = "dropping"
    BY <1>2 DEF DropEntry, At
  <2>2. t \in WorkerTasks /\ RealmOf(t) = "worker"
    BY <2>1, PopupFrame, WorkerFrame DEF Tasks
  <2>3. AfterRestore(t, FALSE, None)
    BY <1>2, <1>s, <2>2 DEF DropEntry
  <2>4. Others(t) /\ task'[t] = Idle
    BY <2>3, AfterRestoreEffect
  <2>5. screen' \in {screen, "lock"}
    BY <2>3 DEF AfterRestore
  <2> QED BY <1>2, <1>n, <1>w, <2>2, <2>4, <2>5 DEF DropEntry
<1>3. CASE RenewRestored(t)
  BY <1>3, PopupFrame, WorkerFrame DEF RenewRestored, At, Tasks
<1>4. CASE RenewOwn(t)
  BY <1>4, PopupFrame, WorkerFrame DEF RenewOwn, At, Tasks
<1>5. CASE CallRead(t)
  <2>1. t \in WorkerTasks
    BY <1>5, <1>s DEF CallRead, Tasks
  <2>2. Others(t) /\ Begun(t, "read", None) /\ task'[t].pc \in {"reading", "describing"}
    BY <1>5, CallEffect
  <2> QED BY <1>5, <1>s, <1>w, <2>1, <2>2 DEF CallRead, Begun
<1>6. CASE Describe(t)
  <2>1. task[t].pc = "describing"
    BY <1>6 DEF Describe, At
  <2>2. t \in WorkerTasks /\ ~task[t].nested /\ ~Creating(t)
    BY <2>1, PopupFrame, WorkerFrame DEF Tasks
  <2>3. Others(t) /\ (task'[t] = Idle \/ MovesTo(t, "asking"))
    BY <1>6, DescribeEffect
  <2>4. ~task'[t].nested /\ task'[t].op # "create" /\ task'[t].pc \in {"idle", "asking"}
    BY <1>n, <2>2, <2>3 DEF MovesTo, Same, Creating
  <2> QED BY <1>6, <1>s, <1>w, <2>2, <2>3, <2>4 DEF Describe
<1>7. ASSUME NEW i \in Items \cup {None}, CallAbsorb(t, i) PROVE BeforeVault'
  <2>1. Others(t) /\ Begun(t, "absorb", i) /\ task'[t].pc = "asking"
    BY <1>7, <1>s, CallEffect
  <2> QED BY <1>7, <1>s, <1>w, <2>1 DEF CallAbsorb, Begun
<1> QED BY <1>1, <1>2, <1>3, <1>4, <1>5, <1>6, <1>7

\* A request that fails before there is a vault: a creation that throws leaves its stock
\* to the popup and its blobs on disk, and no key that is saved.
LEMMA ThrowsBefore ==
  ASSUME TypeInv, BeforeVault, NEW t \in Tasks, Throws(t)
  PROVE  BeforeVault'
PROOF
<1> USE IdleFields
<1>n. None # "create"
  BY SentinelAssumption DEF Ops
<1>1. UNCHANGED <<sealed, entry, key, stock, screen, generated>> /\ Others(t) /\ task'[t] = Idle
  BY EndsEffect DEF Throws, disk, memory
<1>2. BeforeTask(t)'
  BY <1>n, <1>1 DEF BeforeTask, Creating
<1>3. \A u \in Tasks : BeforeTask(u)'
  BY <1>1, <1>2, BeforeOthers
<1>4. OneCreation'
  BY <1>n, <1>1, RealmsOfCallers DEF OneCreation, Creating, Others, BeforeVault
<1> QED BY <1>1, <1>3, <1>4 DEF BeforeVault

\* The popup's calls, before there is a vault.
LEMMA PopupStepsBefore ==
  ASSUME TypeInv, BeforeVault, vault = None, ~recreated', NEW t \in Tasks,
         \/ OpenPopup(t) \/ CallUnlock(t) \/ Verified(t) \/ Generated(t)
         \/ \E k \in Keys : CallCreate(t, k)
  PROVE  BeforeVault'
PROOF
<1>s. entry = None /\ key["worker"] = None /\ screen \in {"closed", "onboarding", "lock"}
      /\ (sealed # None => sealed.by \in generated)
  BY DEF BeforeVault
<1>1. CASE OpenPopup(t)
  <2>1. UNCHANGED <<task, entry, key, stock, sealed, generated>> /\ screen' = "onboarding"
    BY <1>1 DEF OpenPopup, disk, memory
  <2> QED BY <2>1 DEF BeforeVault, BeforeTask, OneCreation, Creating
<1>2. CASE CallUnlock(t)
  BY <1>2 DEF CallUnlock
<1>3. CASE Verified(t)
  BY <1>3, PopupFrame, WorkerFrame DEF Verified, At, Tasks
<1>4. CASE Generated(t)
  <2>0. task[t].pc = "generating" /\ UNCHANGED <<entry, sealed, stock, screen, generated>> /\ CachesKey(t)
    BY <1>4 DEF Generated, At, disk
  <2>1. t \in PopupTasks
    BY <2>0, WorkerFrame DEF Tasks
  <2>2. Creating(t) /\ BeforeTask(t) /\ ~task[t].nested
    BY <2>0, <2>1, PopupFrame DEF BeforeVault
  <2>3. stock["popup"] = None
    BY <2>0, <2>2 DEF BeforeTask
  <2>4. Others(t) /\ key' = [key EXCEPT !["popup"] = task[t].arg] /\ MovesTo(t, "reading")
    BY <2>0, <2>3, CachesKeyEffect
  <2>5. key'["worker"] = None /\ key'["popup"] = task[t].arg
    BY <1>s, <2>4 DEF TypeInv, TypeOK, Realms
  <2>6. Creating(t)' /\ task'[t].pc = "reading" /\ task'[t].arg = task[t].arg /\ ~task'[t].nested
    BY <2>2, <2>4 DEF MovesTo, Same, Creating
  <2>7. BeforeTask(t)'
    BY <2>0, <2>1, <2>2, <2>5, <2>6, RealmsOfCallers DEF BeforeTask, Creating
  <2> QED BY <1>s, <2>0, <2>1, <2>2, <2>3, <2>4, <2>5, <2>6, <2>7, BeforeByCreation
<1>5. ASSUME NEW k \in Keys, CallCreate(t, k) PROVE BeforeVault'
  <2>0. /\ t \in PopupTasks /\ k \notin generated /\ generated' = generated \cup {k}
        /\ UNCHANGED <<entry, sealed, key, stock, screen>>
    BY <1>5 DEF CallCreate, disk, memory
  <2>1. \A u \in PopupTasks : ~Creating(u)
    BY <1>5 DEF CallCreate, Creating
  <2>2. Others(t) /\ Begun(t, "create", k) /\ task'[t].pc = "generating"
    BY <1>5, CallEffect
  <2>3. stock["popup"] = None
    BY <1>5 DEF CallCreate
  <2>4. BeforeTask(t)'
    BY <1>s, <2>0, <2>2, <2>3, RealmsOfCallers DEF BeforeTask, Creating, Begun
  <2>5. \A u \in Tasks : BeforeTask(u)'
    BY <2>0, <2>2, <2>4, BeforeOthers
  <2>6. OneCreation'
    BY <2>1, <2>2, RealmsOfCallers DEF OneCreation, Creating, Others
  <2> QED BY <1>s, <2>0, <2>3, <2>5, <2>6 DEF BeforeVault
<1> QED BY <1>1, <1>2, <1>3, <1>4, <1>5

\* Locks, expiry, closing and ends, before there is a vault.
LEMMA EventsBefore ==
  ASSUME TypeInv, BeforeVault,
         \/ ClosePopup \/ Navigate \/ Expire \/ EndWorker \/ UNCHANGED vars
         \/ \E r \in Realms : Lock(r)
  PROVE  BeforeVault'
PROOF
<1> USE IdleFields
<1>n. None # "create"
  BY SentinelAssumption DEF Ops
<1>s. entry = None /\ key["worker"] = None /\ screen \in {"closed", "onboarding", "lock"} /\ ~Live
  BY DEF BeforeVault, Live
<1>k. key \in [Realms -> Keys \cup {None}] /\ stock \in [Realms -> (SUBSET Items) \cup {None}]
      /\ Realms = {"worker", "popup"}
  BY DEF TypeInv, TypeOK, Realms
<1>1. CASE ClosePopup
  <2>1. /\ \A t \in Tasks : (t \in PopupTasks => task'[t] = Idle) /\ (t \notin PopupTasks => task'[t] = task[t])
        /\ UNCHANGED <<entry, sealed, generated>> /\ screen' = "closed"
        /\ key'["worker"] = None /\ stock'["popup"] = None
    BY <1>1, <1>s, <1>k, EndedEffect DEF ClosePopup, disk
  <2>2. \A t \in PopupTasks : t \in Tasks /\ ~Creating(t)'
    BY <1>n, <2>1, RealmsOfCallers DEF Creating
  <2>3. ASSUME NEW t \in Tasks PROVE BeforeTask(t)'
    <3>1. CASE t \in PopupTasks
      BY <1>n, <2>1, <2>2, <3>1, RealmsOfCallers DEF BeforeTask, Creating
    <3>2. CASE t \in WorkerTasks
      BY <2>1, <3>2, WorkerFrame, RealmsOfCallers DEF BeforeTask, Creating
    <3> QED BY <3>1, <3>2 DEF Tasks
  <2> QED BY <1>s, <2>1, <2>2, <2>3 DEF BeforeVault, OneCreation
<1>2. CASE EndWorker
  <2>1. /\ \A t \in Tasks : (t \in WorkerTasks => task'[t] = Idle) /\ (t \notin WorkerTasks => task'[t] = task[t])
        /\ UNCHANGED <<entry, sealed, generated, screen>>
        /\ key'["worker"] = None /\ stock'["popup"] = stock["popup"] /\ key'["popup"] = key["popup"]
    BY <1>2, <1>s, <1>k, EndedEffect DEF EndWorker, disk
  <2>2. \A t \in PopupTasks : t \in Tasks /\ t \notin WorkerTasks /\ task'[t] = task[t]
    BY <2>1, RealmsOfCallers
  <2>3. ASSUME NEW t \in Tasks PROVE BeforeTask(t)'
    <3>1. CASE t \in PopupTasks
      BY <2>1, <2>2, <3>1 DEF BeforeTask, Creating, BeforeVault
    <3>2. CASE t \in WorkerTasks
      BY <1>n, <2>1, <3>2, RealmsOfCallers DEF BeforeTask, Creating
    <3> QED BY <3>1, <3>2 DEF Tasks
  <2>4. OneCreation'
    BY <2>2 DEF BeforeVault, OneCreation, Creating
  <2> QED BY <1>s, <2>1, <2>2, <2>3, <2>4 DEF BeforeVault, Creating
<1>3. ASSUME NEW r \in Realms, Lock(r) PROVE BeforeVault'
  <2>1. r = "worker"
    BY <1>3, <1>s, <1>k DEF Lock
  <2>2. /\ UNCHANGED <<task, sealed, generated, screen>> /\ entry' = None
        /\ key'["worker"] = None /\ stock'["popup"] = stock["popup"] /\ key'["popup"] = key["popup"]
    BY <1>3, <1>k, <2>1 DEF Lock, disk
  <2> QED BY <2>2 DEF BeforeVault, BeforeTask, OneCreation, Creating
<1>4. CASE Navigate
  <2>1. UNCHANGED <<task, entry, key, stock, sealed, generated>> /\ screen' \in {"onboarding", "lock"}
    BY <1>4, <1>s DEF Navigate, SetUp, Back, Continue, disk, memory
  <2> QED BY <2>1 DEF BeforeVault, BeforeTask, OneCreation, Creating
<1>5. CASE Expire
  BY <1>5, <1>s DEF Expire
<1>6. CASE UNCHANGED vars
  BY <1>6 DEF vars, disk, memory, BeforeVault, BeforeTask, OneCreation, Creating
<1> QED BY <1>1, <1>2, <1>3, <1>4, <1>5, <1>6

\* The vault is written: what the one creation has sealed, it opens.
LEMMA VaultStep ==
  ASSUME TypeInv, BeforeVault, NEW t \in Tasks, PutVault(t)
  PROVE  vault' # None /\ AfterVault'
PROOF
<1>0. task[t].pc = "vaulting" /\ vault' = task[t].arg /\ UNCHANGED <<entry, sealed, key>>
      /\ Goes(t, "renewing")
  BY DEF PutVault, At, memory
<1>1. t \in PopupTasks
  BY <1>0, WorkerFrame DEF Tasks
<1>2. Creating(t) /\ BeforeTask(t) /\ ~task[t].nested
  BY <1>0, <1>1, PopupFrame DEF BeforeVault
<1>3. /\ key["popup"] = task[t].arg /\ sealed # None /\ sealed.by = task[t].arg
      /\ task[t].arg \in Keys
  BY <1>0, <1>2, Framed DEF BeforeTask, FrameOK, Creating
<1>4. Others(t) /\ MovesTo(t, "renewing")
  BY <1>0, GoesEffect
<1>5. ASSUME NEW u \in Tasks PROVE AfterTask(u)'
  <2>1. CASE u = t
    BY <1>2, <1>4, <2>1 DEF AfterTask, MovesTo, Same, Creating
  <2>2. CASE u # t /\ u \in PopupTasks
    <3>1. task'[u] = task[u] /\ ~Creating(u)
      BY <1>1, <1>2, <1>4, <2>2 DEF Others, BeforeVault, OneCreation
    <3>2. task[u].pc = "idle" /\ ~task[u].nested
      BY <2>2, <3>1, PopupFrame
    <3>3. task[u].op # "unlock"
      BY <2>2, SentinelAssumption DEF BeforeVault, BeforeTask, Ops
    <3> QED BY <3>1, <3>2, <3>3 DEF AfterTask, Creating
  <2>3. CASE u # t /\ u \in WorkerTasks
    <3>1. task'[u] = task[u] /\ ~task[u].nested /\ ~Creating(u) /\ task[u].pc # "sealing"
      BY <1>4, <2>3, WorkerFrame DEF Others
    <3>2. task[u].op # "unlock"
      BY <2>3, Framed, RealmsOfCallers DEF FrameOK
    <3> QED BY <3>1, <3>2 DEF AfterTask, Creating
  <2> QED BY <2>1, <2>2, <2>3 DEF Tasks
<1>6. \A r \in Realms : key[r] \in {task[t].arg, None}
  BY <1>3 DEF BeforeVault, Realms
<1> QED BY <1>0, <1>3, <1>5, <1>6, SessionAssumption DEF AfterVault, BeforeVault
----------------------------------------------------------------------------
\* After the vault: a step that leaves vault and blobs and moves one call.
LEMMA AfterByCall ==
  ASSUME AfterVault, NEW t \in Tasks, Others(t), AfterTask(t)', vault' = vault, sealed' = sealed,
         entry' # None => entry'.key \in {vault, None},
         \A r \in Realms : key'[r] \in {vault, None}
  PROVE  AfterVault'
PROOF
<1>1. ASSUME NEW u \in Tasks, u # t PROVE AfterTask(u)'
  BY <1>1 DEF AfterVault, AfterTask, Others, Creating, Absorbing, InRestore
<1> QED BY <1>1 DEF AfterVault

LEMMA IdleAfter == ASSUME NEW t \in Tasks, task'[t] = Idle PROVE AfterTask(t)'
PROOF BY IdleFields, SentinelAssumption DEF AfterTask, Creating, Ops

\* What a call is after the vault.
LEMMA AfterFrame ==
  ASSUME TypeInv, AfterVault, NEW t \in Tasks
  PROVE  /\ AfterTask(t) /\ FrameOK(t, task[t]) /\ key[RealmOf(t)] \in {vault, None}
         /\ Creating(t) => task[t].pc = "renewing"
         /\ Absorbing(t) => t \in WorkerTasks /\ RealmOf(t) = "worker"
PROOF
<1>1. FrameOK(t, task[t]) /\ RealmOf(t) \in Realms
  BY Framed, RealmType
<1>2. Absorbing(t) => t \in WorkerTasks /\ RealmOf(t) = "worker"
  BY <1>1 DEF Absorbing, FrameOK, RealmOf
<1> QED BY <1>1, <1>2 DEF AfterVault, AfterTask

\* From openStock() a call goes on to nothing that seals.
LEMMA OpensAfter ==
  ASSUME TypeInv, AfterVault, NEW t \in Tasks, OpensAt(t), task[t].pc # "renewing", vault' = vault
  PROVE  AfterTask(t)'
PROOF
<1>1. AfterOpen(t) # "sealing"
  BY DEF AfterOpen
<1>2. AfterTask(t) /\ ~Creating(t)
  BY AfterFrame
<1> QED BY <1>1, <1>2 DEF OpensAt, Same, AfterTask, Creating

LEMMA MovesAfter ==
  ASSUME TypeInv, AfterVault, NEW t \in Tasks, NEW p, MovesTo(t, p), p # "sealing",
         task[t].pc # "renewing", vault' = vault
  PROVE  AfterTask(t)'
PROOF BY AfterFrame DEF MovesTo, Same, AfterTask, Creating

\* A stock that is persisted is the drain's, under the worker's key.
LEMMA WritesAfter ==
  ASSUME TypeInv, AfterVault, vault # None, NEW t \in Tasks, NEW s, Absorbing(t), vault' = vault,
         key[RealmOf(t)] # None, Writes(t, key[RealmOf(t)], s)
  PROVE  AfterTask(t)'
PROOF
<1>1. key[RealmOf(t)] = vault
  BY AfterFrame
<1>2. task[t].op = "absorb" /\ ~task[t].nested
  BY DEF Absorbing, InRestore
<1>3. task'[t].op = "absorb" /\ ~task'[t].nested /\ task'[t].pc = "sealing" /\ task'[t].buf.by = vault
  BY <1>1, <1>2 DEF Writes, Same
<1> QED BY <1>3 DEF AfterTask, Creating, Absorbing, InRestore

LEMMA StockStepsAfter ==
  ASSUME TypeInv, AfterVault, vault # None, NEW t \in Tasks,
         ReadBlobs(t) \/ Load(t) \/ Seal(t) \/ Accept(t)
  PROVE  AfterVault' /\ vault' = vault
PROOF
<1>s. sealed # None /\ sealed.by = vault /\ (entry # None => entry.key \in {vault, None})
      /\ (\A r \in Realms : key[r] \in {vault, None})
  BY DEF AfterVault
<1>1. CASE ReadBlobs(t)
  <2>1. task[t].pc = "reading" /\ UNCHANGED <<vault, sealed, entry, key>>
    BY <1>1 DEF ReadBlobs, At, disk
  <2>2. Others(t) /\ (MovesTo(t, "loading") \/ task'[t] = Idle)
    BY <1>1, <1>s, ReadBlobsEffect
  <2>3. AfterTask(t)'
    BY <2>1, <2>2, MovesAfter, IdleAfter
  <2> QED BY <1>s, <2>1, <2>2, <2>3, AfterByCall
<1>2. CASE Load(t)
  <2>1. task[t].pc = "loading" /\ UNCHANGED <<vault, sealed, entry, key>> /\ Has(t, task[t].buf.items)
    BY <1>2 DEF Load, At, disk
  <2>2. task[t].buf.items \in SUBSET Items /\ task[t].pc \in Opening
    BY <2>1, Framed DEF FrameOK, Blobs, Opening
  <2>3. /\ Others(t)
        /\ ~Absorbing(t) => OpensAt(t)
        /\ Absorbing(t) /\ key[RealmOf(t)] = None => task'[t] = Idle
        /\ Absorbing(t) /\ key[RealmOf(t)] # None =>
             Writes(t, key[RealmOf(t)], Held(t, task[t].buf.items))
    BY <2>1, <2>2, HasEffect
  <2>4. AfterTask(t)'
    <3>1. CASE ~Absorbing(t)
      BY <2>1, <2>3, <3>1, OpensAfter
    <3>2. CASE Absorbing(t) /\ key[RealmOf(t)] = None
      BY <2>3, <3>2, IdleAfter
    <3>3. CASE Absorbing(t) /\ key[RealmOf(t)] # None
      BY <2>1, <2>3, <3>3, WritesAfter
    <3> QED BY <3>1, <3>2, <3>3
  <2> QED BY <1>s, <2>1, <2>3, <2>4, AfterByCall
<1>3. CASE Seal(t)
  <2>1. task[t].pc = "sealing" /\ UNCHANGED <<vault, entry, key>>
    BY <1>3 DEF Seal, At, memory
  <2>2. Others(t) /\ sealed' = task[t].buf /\ task[t].buf \in Blobs /\ (task'[t] = Idle \/ OpensAt(t))
    BY <1>3, SealEffect
  <2>3. sealed' # None /\ sealed'.by = vault
    BY <2>1, <2>2, AfterFrame, SentinelAssumption DEF AfterTask
  <2>4. AfterTask(t)'
    BY <2>1, <2>2, OpensAfter, IdleAfter
  <2>5. ASSUME NEW u \in Tasks, u # t PROVE AfterTask(u)'
    BY <2>1, <2>2, <2>5 DEF AfterVault, AfterTask, Others, Creating, Absorbing, InRestore
  <2> QED BY <1>s, <2>1, <2>3, <2>4, <2>5 DEF AfterVault
<1>4. CASE Accept(t)
  <2>1. UNCHANGED <<vault, sealed, entry, key>> /\ task[t].pc = "fetching"
    BY <1>4 DEF Accept, disk, At
  <2>2. Absorbing(t) /\ Others(t) /\ RealmOf(t) = "worker"
        /\ (\/ MovesTo(t, "reading") \/ task'[t] = Idle
            \/ key["worker"] # None /\ Writes(t, key["worker"], Held(t, stock["worker"])))
    BY <1>4, AcceptEffect
  <2>3. AfterTask(t)'
    BY <2>1, <2>2, MovesAfter, IdleAfter, WritesAfter
  <2> QED BY <1>s, <2>1, <2>2, <2>3, AfterByCall
<1> QED BY <1>1, <1>2, <1>3, <1>4

LEMMA CallStepsAfter ==
  ASSUME TypeInv, AfterVault, vault # None, ~recreated', NEW t \in Tasks,
         \/ Ask(t) \/ DropEntry(t) \/ RenewRestored(t) \/ RenewOwn(t)
         \/ Describe(t) \/ Call(t) \/ OpenPopup(t)
  PROVE  AfterVault' /\ vault' = vault
PROOF
<1>s. sealed # None /\ sealed.by = vault /\ (entry # None => entry.key \in {vault, None})
      /\ (\A r \in Realms : key[r] \in {vault, None})
  BY DEF AfterVault
<1>n. "sealing" \notin {"reading", "renewing", "asking", "dropping", "fetching", "describing", "verifying"}
  OBVIOUS
<1>b. ASSUME NEW o, NEW a, Begun(t, o, a), task'[t].pc # "sealing", o # "create",
             o = "unlock" => a = vault, vault' = vault
      PROVE  AfterTask(t)'
  BY <1>b DEF AfterTask, Begun, Creating
<1>1. CASE Ask(t)
  <2>1. UNCHANGED <<vault, sealed, entry>> /\ task[t].pc = "asking" /\ Others(t)
    BY <1>1, AskEffect DEF Ask, At, disk
  <2>2. ~Creating(t) /\ AfterTask(t)
    BY <2>1, AfterFrame
  <2>3. CASE Live
    <3>1. entry.key \in {vault, None}
      BY <1>s, <2>3 DEF Live
    <3>2. /\ task'[t].pc \in {"reading", "renewing"}
          /\ task'[t].op = task[t].op /\ task'[t].arg = task[t].arg
          /\ task'[t].got = entry.key /\ key' = [key EXCEPT ![RealmOf(t)] = entry.key]
      BY <1>1, <2>3, AskEffect
    <3>3. AfterTask(t)'
      BY <2>1, <2>2, <3>1, <3>2 DEF AfterTask, Creating
    <3>4. \A r \in Realms : key'[r] \in {vault, None}
      BY <1>s, <3>1, <3>2 DEF TypeInv, TypeOK
    <3> QED BY <1>s, <2>1, <3>3, <3>4, AfterByCall
  <2>4. CASE ~Live
    <3>1. MovesTo(t, "dropping") /\ key' = key
      BY <1>1, <2>4, AskEffect
    <3> QED BY <1>s, <2>1, <3>1, MovesAfter, AfterByCall
  <2> QED BY <2>3, <2>4
<1>r. ASSUME Others(t), \/ task'[t] = Idle
                        \/ /\ task[t].op = "absorb" /\ task'[t].pc = "fetching" /\ task'[t].op = task[t].op
                           /\ ~task'[t].nested
      PROVE  AfterTask(t)'
  BY <1>r, IdleAfter DEF AfterTask, Creating
<1>2. CASE DropEntry(t)
  <2>1. UNCHANGED <<vault, sealed, key>> /\ entry' = None /\ AfterRestore(t, FALSE, key[RealmOf(t)])
    BY <1>2 DEF DropEntry, disk, memory
  <2>2. Others(t) /\ AfterTask(t)'
    BY <1>r, <2>1, AfterRestoreEffect
  <2> QED BY <1>s, <2>1, <2>2, AfterByCall
<1>3. CASE RenewRestored(t)
  <2>1. /\ UNCHANGED <<vault, sealed, key>> /\ AfterRestore(t, TRUE, key[RealmOf(t)])
        /\ entry' = [key |-> task[t].got, live |-> TRUE] /\ task[t].nested
    BY <1>3 DEF RenewRestored, disk, memory, InRestore
  <2>2. Others(t) /\ AfterTask(t)'
    BY <1>r, <2>1, AfterRestoreEffect
  <2>3. task[t].got \in {vault, None}
    BY <2>1, AfterFrame DEF AfterTask
  <2> QED BY <1>s, <2>1, <2>2, <2>3, AfterByCall
<1>4. CASE RenewOwn(t)
  <2>1. /\ UNCHANGED <<vault, sealed, key>> /\ entry' = [key |-> key[RealmOf(t)], live |-> TRUE]
        /\ Others(t) /\ task'[t] = Idle
    BY <1>4, EndsEffect DEF RenewOwn, disk, memory
  <2>2. AfterTask(t)' /\ key[RealmOf(t)] \in {vault, None}
    BY <2>1, IdleAfter, AfterFrame
  <2> QED BY <1>s, <2>1, <2>2, AfterByCall
<1>5. CASE Describe(t)
  <2>1. /\ UNCHANGED <<vault, sealed, entry, key>> /\ task[t].pc = "describing"
        /\ Others(t) /\ (task'[t] = Idle \/ MovesTo(t, "asking"))
    BY <1>5, DescribeEffect DEF Describe, At, disk, memory
  <2>2. AfterTask(t)'
    BY <2>1, IdleAfter, MovesAfter
  <2> QED BY <1>s, <2>1, <2>2, AfterByCall
<1>6. CASE CallRead(t)
  <2>1. /\ UNCHANGED <<vault, sealed, entry, key>> /\ Others(t)
        /\ Begun(t, "read", None) /\ task'[t].pc \in {"reading", "describing"}
    BY <1>6, CallEffect DEF CallRead, disk, memory
  <2> QED BY <1>s, <1>b, <2>1, AfterByCall
<1>7. ASSUME NEW i \in Items \cup {None}, CallAbsorb(t, i) PROVE AfterVault' /\ vault' = vault
  <2>1. /\ UNCHANGED <<vault, sealed, entry, key>> /\ Others(t)
        /\ Begun(t, "absorb", i) /\ task'[t].pc \in {"asking", "fetching"}
    BY <1>7, CallEffect DEF CallAbsorb, disk, memory
  <2> QED BY <1>s, <1>b, <2>1, AfterByCall
<1>8. CASE CallUnlock(t)
  <2>1. /\ UNCHANGED <<vault, sealed, entry, key>> /\ Others(t)
        /\ Begun(t, "unlock", vault) /\ task'[t].pc = "verifying"
    BY <1>8, CallEffect DEF CallUnlock, disk, memory
  <2> QED BY <1>s, <1>b, <2>1, AfterByCall
<1>9. ASSUME NEW k \in Keys, CallCreate(t, k) PROVE FALSE
  BY <1>9 DEF CallCreate
<1>10. CASE OpenPopup(t)
  <2>1. /\ UNCHANGED <<vault, sealed, entry, key>> /\ Others(t)
        /\ Begun(t, "restore", None) /\ task'[t].pc = "asking"
    BY <1>10, CallEffect DEF OpenPopup, disk, memory
  <2> QED BY <1>s, <1>b, <2>1, AfterByCall
<1> QED BY <1>1, <1>2, <1>3, <1>4, <1>5, <1>6, <1>7, <1>8, <1>9, <1>10 DEF Call

LEMMA KeyStepsAfter ==
  ASSUME TypeInv, AfterVault, vault # None, NEW t \in Tasks, Verified(t) \/ Generated(t) \/ PutVault(t)
  PROVE  AfterVault' /\ vault' = vault
PROOF
<1>s. sealed # None /\ sealed.by = vault /\ (entry # None => entry.key \in {vault, None})
      /\ (\A r \in Realms : key[r] \in {vault, None})
  BY DEF AfterVault
<1>1. CASE Generated(t) \/ PutVault(t)
  <2>1. task[t].pc \in {"generating", "vaulting"}
    BY <1>1 DEF Generated, PutVault, At
  <2> QED BY <2>1, AfterFrame DEF FrameOK, Opening, Creating
<1>2. CASE Verified(t)
  <2>1. UNCHANGED <<vault, sealed, entry>> /\ task[t].pc = "verifying"
        /\ (CachesKey(t) \/ (Ends(t) /\ key' = key))
    BY <1>2 DEF Verified, At, disk
  <2>2. task[t].op = "unlock" /\ task[t].arg = vault /\ ~task[t].nested
    BY <2>1, AfterFrame DEF AfterTask, FrameOK, Opening
  <2>3. CASE CachesKey(t)
    <3>1. Others(t) /\ key' = [key EXCEPT !["popup"] = vault]
          /\ (MovesTo(t, "reading") \/ OpensAt(t))
      BY <2>2, <2>3, CachesKeyEffect
    <3>2. AfterTask(t)'
      BY <2>1, <3>1, MovesAfter, OpensAfter
    <3>3. \A r \in Realms : key'[r] \in {vault, None}
      BY <1>s, <3>1 DEF TypeInv, TypeOK
    <3> QED BY <1>s, <2>1, <3>1, <3>2, <3>3, AfterByCall
  <2>4. CASE Ends(t) /\ key' = key
    BY <1>s, <2>1, <2>4, EndsEffect, IdleAfter, AfterByCall
  <2> QED BY <2>1, <2>3, <2>4
<1> QED BY <1>1, <1>2

LEMMA ThrowsAfter ==
  ASSUME TypeInv, AfterVault, vault # None, NEW t \in Tasks, Throws(t)
  PROVE  AfterVault' /\ vault' = vault
PROOF
<1>1. UNCHANGED <<vault, sealed, entry, key>> /\ Others(t) /\ task'[t] = Idle
  BY EndsEffect DEF Throws, disk, memory
<1>2. AfterTask(t)'
  BY <1>1, IdleAfter
<1>3. (entry' # None => entry'.key \in {vault, None}) /\ \A r \in Realms : key'[r] \in {vault, None}
  BY <1>1 DEF AfterVault
<1> QED BY <1>1, <1>2, <1>3, AfterByCall

LEMMA EventsAfter ==
  ASSUME TypeInv, AfterVault, vault # None,
         \/ ClosePopup \/ Navigate \/ Expire \/ EndWorker \/ UNCHANGED vars
         \/ \E r \in Realms : Lock(r)
  PROVE  AfterVault' /\ vault' = vault
PROOF
<1>s. sealed # None /\ sealed.by = vault /\ (entry # None => entry.key \in {vault, None})
      /\ (\A r \in Realms : key[r] \in {vault, None}) /\ (\A t \in Tasks : AfterTask(t))
      /\ key \in [Realms -> Keys \cup {None}]
  BY DEF AfterVault, TypeInv, TypeOK
<1>1. UNCHANGED <<vault, sealed>>
  BY DEF ClosePopup, Navigate, Expire, EndWorker, Lock, vars, disk
<1>2. entry' # None => entry'.key \in {vault, None}
  <2>1. CASE Expire
    BY <1>s, <2>1 DEF Expire, Live, TypeInv, TypeOK, Entries
  <2>2. CASE ~Expire
    BY <1>s, <2>2 DEF ClosePopup, Navigate, EndWorker, Lock, vars
  <2> QED BY <2>1, <2>2
<1>3. \A r \in Realms : key'[r] \in {vault, None}
  BY <1>s DEF ClosePopup, Navigate, Expire, EndWorker, Lock, vars, memory
<1>4. ASSUME NEW t \in Tasks PROVE AfterTask(t)'
  <2>1. task'[t] = task[t] \/ task'[t] = Idle
    <3>1. CASE ClosePopup
      BY <3>1, EndedEffect DEF ClosePopup
    <3>2. CASE EndWorker
      BY <3>2, EndedEffect DEF EndWorker
    <3>3. CASE Navigate \/ Expire \/ UNCHANGED vars \/ \E r \in Realms : Lock(r)
      BY <3>3 DEF Navigate, Expire, Lock, vars
    <3> QED BY <3>1, <3>2, <3>3
  <2>2. CASE task'[t] = Idle
    BY <2>2, IdleAfter
  <2>3. CASE task'[t] = task[t]
    BY <1>s, <1>1, <2>3 DEF AfterTask, Creating, Absorbing, InRestore
  <2> QED BY <2>1, <2>2, <2>3
<1> QED BY <1>s, <1>1, <1>2, <1>3, <1>4 DEF AfterVault

LEMMA StepWallet == TypeInv /\ WalletInv /\ [Next]_vars => WalletInv'
PROOF
<1> SUFFICES ASSUME TypeInv, WalletInv, [Next]_vars, ~recreated'
             PROVE  (vault' = None => BeforeVault') /\ (vault' # None => AfterVault')
  BY DEF WalletInv
<1>1. ~recreated
  <2>1. recreated \in BOOLEAN
    BY DEF TypeInv, TypeOK
  <2> QED BY <2>1 DEF Next, Call, Proceed, ReadBlobs, Load, Seal, Ask, DropEntry, RenewRestored, RenewOwn,
       Describe, Accept, Throws, Verified, Generated, PutVault, CallRead, CallUnlock, CallAbsorb, CallCreate,
       OpenPopup, ClosePopup, Navigate, Lock, Expire, EndWorker, vars, history
<1>2. CASE vault = None
  <2>1. BeforeVault
    BY <1>1, <1>2 DEF WalletInv
  <2>2. ASSUME NEW t \in Tasks, PutVault(t) PROVE vault' # None /\ AfterVault'
    BY <2>1, <2>2, VaultStep
  <2>3. CASE ~\E t \in Tasks : PutVault(t)
    <3>1. vault' = None
      BY <1>2, <2>3 DEF Next, Call, Proceed, ReadBlobs, Load, Seal, Ask, DropEntry, RenewRestored, RenewOwn,
       Describe, Accept, Throws, Verified, Generated, CallRead, CallUnlock, CallAbsorb, CallCreate,
       OpenPopup, ClosePopup, Navigate, Lock, Expire, EndWorker, vars, disk
    <3>2. BeforeVault'
      BY <1>2, <2>1, <2>3, StockStepsBefore, CallStepsBefore, ThrowsBefore, PopupStepsBefore, EventsBefore
      DEF Next, Call, Proceed
    <3> QED BY <3>1, <3>2
  <2> QED BY <2>2, <2>3
<1>3. CASE vault # None
  <2>1. AfterVault
    BY <1>1, <1>3 DEF WalletInv
  <2>2. AfterVault' /\ vault' = vault
    BY <1>3, <2>1, StockStepsAfter, CallStepsAfter, ThrowsAfter, KeyStepsAfter, EventsAfter DEF Next, Proceed
  <2> QED BY <1>3, <2>2
<1> QED BY <1>2, <1>3

LEMMA InitWallet == Init => WalletInv
PROOF
<1> SUFFICES ASSUME Init PROVE BeforeVault /\ vault = None
  BY DEF WalletInv
<1>1. \A t \in Tasks : task[t] = Idle
  BY DEF Init
<1>2. \A t \in Tasks : ~task[t].nested /\ task[t].pc = "idle" /\ task[t].op = None /\ ~Creating(t)
  BY <1>1, IdleFields, SentinelAssumption DEF Creating, Ops
<1>3. \A t \in Tasks : BeforeTask(t)
  BY <1>2 DEF BeforeTask
<1>4. OneCreation
  BY <1>2, RealmsOfCallers DEF OneCreation
<1> QED BY <1>3, <1>4 DEF Init, BeforeVault, Realms

\* A wallet created once is always openable by what its vault decrypts to, however
\* often its creation was cut short before, whichever realm writes, locks or ends.
THEOREM VaultOpensItsStock == Spec => []OneWalletOpens
PROOF
<1>1. WalletInv => OneWalletOpens
  BY DEF WalletInv, OneWalletOpens, VaultOpensStock, AfterVault
<1> QED BY <1>1, InitType, StepType, InitWallet, StepWallet, PTL DEF Spec

\* No session entry and no worker carries on with another key than the vault's.
THEOREM SessionIsTheVaults == Spec => []SessionIsVaults
PROOF
<1>1. WalletInv => SessionIsVaults
  BY DEF WalletInv, SessionIsVaults, BeforeVault, AfterVault, Realms
<1> QED BY <1>1, InitType, StepType, InitWallet, StepWallet, PTL DEF Spec
----------------------------------------------------------------------------
\* Absorbing is the drain's, one call at a time, so one write of the worker's stock at
\* most is under way; and the memory, the disk and that write all hold what was
\* reported, as long as no load brings back a stock that lacks some of it.
OneDrain == \A t, u \in WorkerTasks : task[t].op = "absorb" /\ task[u].op = "absorb" => t = u
Stored == IF sealed = None THEN {} ELSE sealed.items
AllHeld ==
  /\ vault = None => reported = {}
  /\ reported \subseteq Stored
  /\ stock["worker"] # None => reported \subseteq stock["worker"]
  /\ \A t \in WorkerTasks : task[t].pc = "sealing" =>
       /\ reported \subseteq task[t].buf.items
       /\ stock["worker"] # None => task[t].buf.items \subseteq stock["worker"]
KeptInv == OneDrain /\ (~stale /\ ~recreated => AllHeld)

\* A call begins to absorb by CallAbsorb() only, and goes on to seal by the steps of
\* openStock() and persist() only.
SealsStay == \A u \in Tasks : task'[u].pc = "sealing" => task'[u] = task[u]

LEMMA OtherSteps ==
  ASSUME TypeInv, NEW t \in Tasks,
         \/ Ask(t) \/ DropEntry(t) \/ RenewRestored(t) \/ RenewOwn(t) \/ Describe(t)
         \/ Verified(t) \/ Generated(t) \/ PutVault(t) \/ Throws(t)
         \/ Call(t) \/ OpenPopup(t)
  PROVE  /\ SealsStay
         /\ UNCHANGED <<sealed, stock, reported, stale>>
PROOF
<1> USE IdleFields
<1>o. ASSUME Others(t), task'[t].pc # "sealing"
      PROVE  SealsStay
  BY <1>o DEF Others, SealsStay
<1>1. UNCHANGED <<sealed, stock, reported, stale>>
  BY DEF Ask, DropEntry, RenewRestored, RenewOwn, Describe, Verified, Generated, PutVault, Throws, Call,
     CallRead, CallUnlock, CallAbsorb, CallCreate, OpenPopup, disk, memory, history
<1>2. ASSUME Ask(t) PROVE SealsStay
  BY <1>o, <1>2, AskEffect DEF MovesTo
<1>3. ASSUME DropEntry(t) \/ RenewRestored(t) PROVE SealsStay
  BY <1>o, <1>3, AfterRestoreEffect DEF DropEntry, RenewRestored
<1>4. ASSUME RenewOwn(t) \/ Throws(t) PROVE SealsStay
  BY <1>o, <1>4, EndsEffect DEF RenewOwn, Throws
<1>5. ASSUME Describe(t) PROVE SealsStay
  BY <1>o, <1>5, DescribeEffect DEF MovesTo
<1>6. ASSUME Verified(t) \/ Generated(t) PROVE SealsStay
  <2>1. AfterOpen(t) # "sealing"
    BY DEF AfterOpen
  <2> QED BY <1>o, <1>6, <2>1, CachesKeyEffect, EndsEffect DEF Verified, Generated, MovesTo, OpensAt
<1>7. ASSUME PutVault(t) PROVE SealsStay
  BY <1>o, <1>7, GoesEffect DEF PutVault, MovesTo
<1>8. ASSUME Call(t) PROVE SealsStay
  BY <1>o, <1>8, CallEffect DEF Call
<1>9. ASSUME OpenPopup(t) PROVE SealsStay
  <2>1. CASE vault = None
    BY <1>9, <2>1 DEF OpenPopup, SealsStay
  <2>2. CASE vault # None
    BY <1>o, <1>9, <2>2, CallEffect
  <2> QED BY <2>1, <2>2
<1> QED BY <1>1, <1>2, <1>3, <1>4, <1>5, <1>6, <1>7, <1>8, <1>9

\* No call begins to absorb unless by CallAbsorb().
LEMMA AbsorbsByCall ==
  ASSUME TypeInv, [Next]_vars, ~\E t \in Tasks, i \in Items \cup {None} : CallAbsorb(t, i)
  PROVE  \A u \in Tasks : task'[u].op = "absorb" => task[u].op = "absorb"
PROOF
<1> SUFFICES ASSUME NEW u \in Tasks PROVE task'[u].op = "absorb" => task[u].op = "absorb"
  OBVIOUS
<1> USE IdleFields
<1>n. None # "absorb"
  BY SentinelAssumption DEF Ops
<1>o. ASSUME NEW t \in Tasks, Others(t), task'[t].op = task[t].op \/ task'[t].op # "absorb"
      PROVE  task'[u].op = "absorb" => task[u].op = "absorb"
  BY <1>o DEF Others
<1> USE <1>n
<1>1. ASSUME NEW t \in Tasks, ReadBlobs(t) PROVE task'[u].op = "absorb" => task[u].op = "absorb"
  BY <1>1, <1>o, ReadBlobsEffect DEF Writes, MovesTo, Same
<1>2. ASSUME NEW t \in Tasks, Load(t) PROVE task'[u].op = "absorb" => task[u].op = "absorb"
  <2>1. task[t].buf.items \in SUBSET Items /\ task[t].pc \in Opening /\ Has(t, task[t].buf.items)
    BY <1>2, Framed DEF Load, At, FrameOK, Blobs, Opening
  <2> QED BY <1>o, <2>1, HasEffect DEF Writes, OpensAt, Same
<1>3. ASSUME NEW t \in Tasks, Seal(t) PROVE task'[u].op = "absorb" => task[u].op = "absorb"
  BY <1>3, <1>o, SealEffect DEF OpensAt, Same
<1>4. ASSUME NEW t \in Tasks, Ask(t) PROVE task'[u].op = "absorb" => task[u].op = "absorb"
  BY <1>4, <1>o, AskEffect DEF MovesTo, Same
<1>5. ASSUME NEW t \in Tasks, DropEntry(t) \/ RenewRestored(t) PROVE task'[u].op = "absorb" => task[u].op = "absorb"
  BY <1>5, <1>o, AfterRestoreEffect DEF DropEntry, RenewRestored
<1>6. ASSUME NEW t \in Tasks, RenewOwn(t) PROVE task'[u].op = "absorb" => task[u].op = "absorb"
  BY <1>6, <1>o, EndsEffect DEF RenewOwn
<1>7. ASSUME NEW t \in Tasks, Describe(t) PROVE task'[u].op = "absorb" => task[u].op = "absorb"
  BY <1>7, <1>o, DescribeEffect DEF MovesTo, Same
<1>8. ASSUME NEW t \in Tasks, Accept(t) PROVE task'[u].op = "absorb" => task[u].op = "absorb"
  BY <1>8, <1>o, AcceptEffect DEF MovesTo, Writes, Same
<1>9. ASSUME NEW t \in Tasks, Verified(t) \/ Generated(t) PROVE task'[u].op = "absorb" => task[u].op = "absorb"
  BY <1>9, <1>o, CachesKeyEffect, EndsEffect DEF Verified, Generated, MovesTo, OpensAt, Same
<1>10. ASSUME NEW t \in Tasks, PutVault(t) PROVE task'[u].op = "absorb" => task[u].op = "absorb"
  BY <1>10, <1>o, GoesEffect DEF PutVault, MovesTo, Same
<1>11. ASSUME NEW t \in Tasks, Call(t) PROVE task'[u].op = "absorb" => task[u].op = "absorb"
  BY <1>11, <1>o, CallEffect DEF Call, Begun
<1>12. ASSUME NEW t \in Tasks, OpenPopup(t) PROVE task'[u].op = "absorb" => task[u].op = "absorb"
  <2>1. CASE vault = None
    BY <1>12, <2>1 DEF OpenPopup
  <2>2. CASE vault # None
    BY <1>12, <1>o, <2>2, CallEffect DEF Begun
  <2> QED BY <2>1, <2>2
<1>13. CASE ClosePopup
  BY <1>13, EndedEffect DEF ClosePopup
<1>14. CASE EndWorker
  BY <1>14, EndedEffect DEF EndWorker
<1>15. CASE task' = task
  BY <1>15
<1>16. ASSUME NEW t \in Tasks, Throws(t) PROVE task'[u].op = "absorb" => task[u].op = "absorb"
  BY <1>16, <1>o, EndsEffect DEF Throws
<1> QED BY <1>1, <1>2, <1>3, <1>4, <1>5, <1>6, <1>7, <1>8, <1>9, <1>10, <1>11, <1>12, <1>13, <1>14,
           <1>15, <1>16
        DEF Next, Proceed, Navigate, Lock, Expire, vars

LEMMA StepDrain == TypeInv /\ OneDrain /\ [Next]_vars => OneDrain'
PROOF
<1> SUFFICES ASSUME TypeInv, OneDrain, [Next]_vars PROVE OneDrain'
  OBVIOUS
<1>1. CASE ~\E t \in Tasks, i \in Items \cup {None} : CallAbsorb(t, i)
  BY <1>1, AbsorbsByCall, RealmsOfCallers DEF OneDrain
<1>2. ASSUME NEW t \in Tasks, NEW i \in Items \cup {None}, CallAbsorb(t, i) PROVE OneDrain'
  <2>1. Others(t) /\ \A u \in WorkerTasks : task[u].op # "absorb"
    BY <1>2, CallEffect DEF CallAbsorb
  <2> QED BY <2>1, RealmsOfCallers DEF OneDrain, Others
<1> QED BY <1>1, <1>2

\* What is on disk, in memory and under way covers what was reported: a load that is
\* not stale brings all of it back.
LEMMA KnownCovers ==
  ASSUME AllHeld
  PROVE  /\ reported \subseteq Known
         /\ \A t \in WorkerTasks : task[t].pc = "sealing" => task[t].buf.items \subseteq Known
PROOF BY DEF AllHeld, Known, Stored, At

LEMMA StepKept == TypeInv /\ WalletInv /\ KeptInv /\ [Next]_vars => KeptInv'
PROOF
<1> SUFFICES ASSUME TypeInv, WalletInv, KeptInv, [Next]_vars, ~stale', ~recreated'
             PROVE  AllHeld'
  BY StepDrain DEF KeptInv
<1>0. ~recreated /\ ~stale
  <2>1. recreated \in BOOLEAN /\ stale \in BOOLEAN
    BY DEF TypeInv, TypeOK
  <2> QED BY <2>1 DEF Next, Call, Proceed, ReadBlobs, Load, Seal, Ask, DropEntry, RenewRestored, RenewOwn,
       Describe, Accept, Throws, Verified, Generated, PutVault, CallRead, CallUnlock, CallAbsorb, CallCreate,
       OpenPopup, ClosePopup, Navigate, Lock, Expire, EndWorker, vars, history
<1>1. /\ vault = None => BeforeVault /\ reported = {}
      /\ vault # None => AfterVault /\ sealed # None
  BY <1>0 DEF WalletInv, KeptInv, AllHeld, AfterVault
<1>2. AllHeld /\ OneDrain
  BY <1>0 DEF KeptInv
<1>3. /\ stock \in [Realms -> (SUBSET Items) \cup {None}] /\ Realms = {"worker", "popup"}
      /\ None \notin SUBSET Items
  BY SentinelAssumption DEF TypeInv, TypeOK, Realms
<1>v. ASSUME reported' = reported, vault' = vault \/ vault' # None PROVE vault' = None => reported' = {}
  BY <1>2, <1>v DEF AllHeld
<1>u. ASSUME NEW t \in WorkerTasks, Others(t)
      PROVE  \A u \in WorkerTasks : u # t => task'[u] = task[u] /\ u \in Tasks
  BY <1>u, RealmsOfCallers DEF Others
<1>4. ASSUME NEW t \in Tasks, ReadBlobs(t) PROVE AllHeld'
  <2>0. UNCHANGED <<vault, sealed, reported>> /\ task[t].pc = "reading"
    BY <1>4 DEF ReadBlobs, disk, history, At
  <2>1. CASE sealed # None
    <3>1. stock' = stock /\ Others(t) /\ task'[t].pc # "sealing"
      BY <1>4, <2>1, ReadBlobsEffect, IdleFields DEF MovesTo
    <3>2. \A u \in WorkerTasks : task'[u].pc = "sealing" => task'[u] = task[u]
      BY <3>1, RealmsOfCallers DEF Others
    <3> QED BY <1>2, <2>0, <3>1, <3>2 DEF AllHeld, Stored
  <2>2. CASE sealed = None
    <3>1. vault = None /\ BeforeVault /\ reported = {}
      BY <1>1, <2>2
    <3>2. Others(t) /\ stock' = [stock EXCEPT ![RealmOf(t)] = {}]
      BY <1>4, <2>2, ReadBlobsEffect
    <3>3. \A u \in WorkerTasks : task'[u].pc # "sealing"
      <4>1. CASE t \in WorkerTasks
        <5>1. RealmOf(t) = "worker" /\ key["worker"] = None
          BY <3>1, <4>1, WorkerFrame DEF BeforeVault
        <5>2. task'[t].pc = "idle"
          BY <1>4, <2>2, <5>1, ReadBlobsEffect, IdleFields
        <5> QED BY <1>u, <3>1, <3>2, <4>1, <5>2, WorkerFrame
      <4>2. CASE t \notin WorkerTasks
        BY <3>1, <3>2, <4>2, WorkerFrame DEF Others
      <4> QED BY <4>1, <4>2
    <3> QED BY <2>0, <3>1, <3>3 DEF AllHeld
  <2> QED BY <2>1, <2>2
<1>5. ASSUME NEW t \in Tasks, Load(t) PROVE AllHeld'
  <2>0. UNCHANGED <<vault, sealed, reported>> /\ task[t].pc = "loading" /\ Has(t, task[t].buf.items)
        /\ stale' = (stale \/ (t \in WorkerTasks /\ ~(Known \subseteq task[t].buf.items)))
    BY <1>5 DEF Load, disk, At
  <2>1. task[t].buf.items \in SUBSET Items /\ task[t].pc \in Opening
    BY <2>0, Framed DEF FrameOK, Blobs, Opening
  <2> DEFINE s == task[t].buf.items
  <2>2. /\ Others(t) /\ stock' = [stock EXCEPT ![RealmOf(t)] = Held(t, s)]
        /\ ~Absorbing(t) => OpensAt(t)
        /\ Absorbing(t) /\ key[RealmOf(t)] = None => task'[t] = Idle
        /\ Absorbing(t) /\ key[RealmOf(t)] # None => Writes(t, key[RealmOf(t)], Held(t, s))
    BY <2>0, <2>1, HasEffect
  <2>3. s \subseteq Held(t, s)
    BY DEF Held
  <2>4. task'[t].pc = "sealing" => task'[t].buf.items = Held(t, s)
    <3>1. CASE ~Absorbing(t)
      <4>1. AfterOpen(t) # "sealing"
        BY DEF AfterOpen
      <4> QED BY <2>2, <3>1, <4>1 DEF OpensAt
    <3>2. CASE Absorbing(t) /\ key[RealmOf(t)] = None
      BY <2>2, <3>2, IdleFields
    <3>3. CASE Absorbing(t) /\ key[RealmOf(t)] # None
      BY <2>2, <3>3 DEF Writes
    <3> QED BY <3>1, <3>2, <3>3
  <2> HIDE DEF s
  <2>5. CASE t \in WorkerTasks
    <3>1. Known \subseteq s
      BY <2>0, <2>5 DEF s
    <3>2. stock'["worker"] = Held(t, s)
      BY <1>3, <2>2, <2>5, RealmsOfCallers
    <3>3. reported \subseteq Held(t, s)
      BY <1>2, <2>3, <3>1, KnownCovers
    <3>4. \A u \in WorkerTasks : task'[u].pc = "sealing" =>
            reported \subseteq task'[u].buf.items /\ task'[u].buf.items \subseteq Held(t, s)
      <4>1. ASSUME NEW u \in WorkerTasks, task'[u].pc = "sealing", u # t
            PROVE  reported \subseteq task'[u].buf.items /\ task'[u].buf.items \subseteq Held(t, s)
        <5>1. task'[u] = task[u]
          BY <1>u, <2>2, <2>5, <4>1
        <5>2. reported \subseteq task[u].buf.items
          BY <1>2, <4>1, <5>1 DEF AllHeld
        <5>3. task[u].buf.items \subseteq Known
          BY <1>2, <4>1, <5>1, KnownCovers
        <5> QED BY <2>3, <3>1, <5>1, <5>2, <5>3
      <4> QED BY <2>4, <3>3, <4>1
    <3> QED BY <1>2, <2>0, <3>2, <3>3, <3>4 DEF AllHeld, Stored
  <2>6. CASE t \in PopupTasks
    <3>1. stock'["worker"] = stock["worker"]
      BY <1>3, <2>2, <2>6, RealmsOfCallers
    <3>2. \A u \in WorkerTasks : task'[u] = task[u]
      BY <2>2, <2>6, RealmsOfCallers DEF Others
    <3> QED BY <1>2, <2>0, <3>1, <3>2 DEF AllHeld, Stored
  <2> QED BY <2>5, <2>6 DEF Tasks
<1>6. ASSUME NEW t \in Tasks, Seal(t) PROVE AllHeld'
  <2>0. UNCHANGED <<vault, stock>> /\ task[t].pc = "sealing"
    BY <1>6 DEF Seal, memory, At
  <2>1. Others(t) /\ sealed' = task[t].buf /\ sealed' # None
    BY <1>6, SealEffect, SentinelAssumption
  <2>2. CASE vault = None
    <3>1. BeforeVault /\ reported = {} /\ t \in PopupTasks
      BY <1>1, <2>0, <2>2, WorkerFrame DEF Tasks
    <3>2. reported' = {}
      BY <1>6, <3>1, PopupFrame, SealEffect
    <3>3. \A u \in WorkerTasks : task'[u].pc # "sealing"
      BY <2>1, <3>1, WorkerFrame, RealmsOfCallers DEF Others
    <3> QED BY <3>2, <3>3 DEF AllHeld
  <2>3. CASE vault # None
    <3>1. Absorbing(t) /\ t \in WorkerTasks /\ RealmOf(t) = "worker"
      BY <1>1, <2>0, <2>3, AfterFrame DEF AfterTask
    <3>2. reported \subseteq task[t].buf.items
          /\ (stock["worker"] # None => task[t].buf.items \subseteq stock["worker"])
      BY <1>2, <2>0, <3>1 DEF AllHeld
    <3>3. reported' \subseteq task[t].buf.items
      BY <1>6, <3>2, SealEffect
    <3>4. ASSUME NEW u \in WorkerTasks PROVE task'[u].pc # "sealing"
      <4>1. CASE u = t
        <5>1. AfterOpen(t) # "sealing"
          BY DEF AfterOpen
        <5> QED BY <1>6, <4>1, <5>1, SealEffect, IdleFields DEF OpensAt
      <4>2. CASE u # t
        <5>1. task'[u] = task[u] /\ u \in Tasks
          BY <1>u, <2>1, <3>1, <4>2
        <5>2. task[u].pc = "sealing" => Absorbing(u)
          BY <1>1, <2>3, <5>1, AfterFrame DEF AfterTask
        <5> QED BY <1>2, <3>1, <4>2, <5>1, <5>2 DEF OneDrain, Absorbing
      <4> QED BY <4>1, <4>2
    <3> QED BY <2>0, <2>1, <2>3, <3>2, <3>3, <3>4 DEF AllHeld, Stored
  <2> QED BY <2>2, <2>3
<1>7. ASSUME NEW t \in Tasks, Accept(t) PROVE AllHeld'
  <2>0. UNCHANGED <<vault, sealed, reported>> /\ task[t].pc = "fetching"
    BY <1>7 DEF Accept, disk, history, At
  <2>1. Absorbing(t) /\ t \in WorkerTasks /\ Others(t)
    BY <1>7, AcceptEffect
  <2>2. CASE stock["worker"] = None
    <3>1. stock' = stock /\ task'[t].pc # "sealing"
      BY <1>7, <2>2, AcceptEffect DEF MovesTo
    <3>2. \A u \in WorkerTasks : task'[u].pc = "sealing" => task'[u] = task[u]
      BY <1>u, <2>1, <3>1
    <3> QED BY <1>2, <2>0, <3>1, <3>2 DEF AllHeld, Stored
  <2>3. CASE stock["worker"] # None
    <3> DEFINE h == Held(t, stock["worker"])
    <3>1. /\ stock'["worker"] = h /\ stock["worker"] \subseteq h
          /\ task'[t].pc = "sealing" => task'[t].buf.items = h
      <4>1. stock'["worker"] = h
        BY <1>3, <1>7, <2>3, AcceptEffect
      <4>2. stock["worker"] \subseteq h
        BY DEF Held
      <4>3. task'[t].pc = "sealing" => task'[t].buf.items = h
        <5>1. CASE key["worker"] = None
          BY <1>7, <2>3, <5>1, AcceptEffect, IdleFields
        <5>2. CASE key["worker"] # None
          <6>1. Writes(t, key["worker"], h)
            BY <1>7, <2>3, <5>2, AcceptEffect
          <6>2. task'[t].buf = [by |-> key["worker"], items |-> h]
            BY <6>1 DEF Writes
          <6> HIDE DEF h
          <6> QED BY <6>2
        <5> QED BY <5>1, <5>2
      <4> QED BY <4>1, <4>2, <4>3
    <3> HIDE DEF h
    <3>2. reported \subseteq h
      BY <1>2, <2>3, <3>1 DEF AllHeld
    <3>3. \A u \in WorkerTasks : task'[u].pc = "sealing" =>
            reported \subseteq task'[u].buf.items /\ task'[u].buf.items \subseteq h
      <4>1. ASSUME NEW u \in WorkerTasks, task'[u].pc = "sealing", u # t
            PROVE  reported \subseteq task'[u].buf.items /\ task'[u].buf.items \subseteq h
        <5>1. task'[u] = task[u]
          BY <1>u, <2>1, <4>1
        <5> QED BY <1>2, <2>3, <3>1, <4>1, <5>1 DEF AllHeld
      <4> QED BY <3>1, <3>2, <4>1
    <3> QED BY <1>2, <2>0, <3>1, <3>2, <3>3 DEF AllHeld, Stored
  <2> QED BY <2>2, <2>3
<1>8. ASSUME NEW t \in Tasks,
             \/ Ask(t) \/ DropEntry(t) \/ RenewRestored(t) \/ RenewOwn(t) \/ Describe(t)
             \/ Verified(t) \/ Generated(t) \/ PutVault(t) \/ Throws(t) \/ Call(t) \/ OpenPopup(t)
      PROVE  AllHeld'
  <2>1. UNCHANGED <<sealed, stock, reported>>
        /\ \A u \in WorkerTasks : task'[u].pc = "sealing" => task'[u] = task[u]
    BY <1>8, OtherSteps, RealmsOfCallers DEF SealsStay
  <2>2. vault' = None => vault = None
    <3>1. CASE PutVault(t)
      BY <3>1, Framed, SessionAssumption DEF PutVault, At, FrameOK, Opening
    <3>2. CASE ~PutVault(t)
      BY <1>8, <3>2 DEF Ask, DropEntry, RenewRestored, RenewOwn, Describe, Verified, Generated, Throws, Call,
         CallRead, CallUnlock, CallAbsorb, CallCreate, OpenPopup, disk
    <3> QED BY <3>1, <3>2
  <2> QED BY <1>2, <2>1, <2>2 DEF AllHeld, Stored
<1>9. CASE \/ ClosePopup \/ Navigate \/ Expire \/ EndWorker \/ UNCHANGED vars
           \/ \E r \in Realms : Lock(r)
  <2>1. UNCHANGED <<vault, sealed, reported>>
    BY <1>9 DEF ClosePopup, Navigate, Expire, EndWorker, Lock, vars, disk, history
  <2>2. stock'["worker"] \in {stock["worker"], None}
    BY <1>3, <1>9 DEF ClosePopup, Navigate, Expire, EndWorker, Lock, vars, memory
  <2>3. \A u \in WorkerTasks : task'[u].pc = "sealing" => task'[u] = task[u]
    <3>1. CASE ClosePopup
      BY <3>1, EndedEffect, RealmsOfCallers DEF ClosePopup
    <3>2. CASE EndWorker
      BY <3>2, EndedEffect, RealmsOfCallers, IdleFields DEF EndWorker
    <3>3. CASE Navigate \/ Expire \/ UNCHANGED vars \/ \E r \in Realms : Lock(r)
      BY <3>3 DEF Navigate, Expire, Lock, vars
    <3> QED BY <1>9, <3>1, <3>2, <3>3
  <2> QED BY <1>2, <2>1, <2>2, <2>3 DEF AllHeld, Stored
<1> QED BY <1>4, <1>5, <1>6, <1>7, <1>8, <1>9 DEF Next, Proceed

\* What was reported absorbed stays in the stock on disk, through locks, ends, popups
\* and failed writes, unless the worker takes a stock read before some of it was in.
THEOREM AbsorbedStays == Spec => []KeptUnlessStale
PROOF
<1>1. Init => KeptInv
  <2> SUFFICES ASSUME Init PROVE KeptInv
    OBVIOUS
  <2>1. \A t \in WorkerTasks : task[t].op # "absorb" /\ task[t].pc = "idle"
    BY IdleFields, RealmsOfCallers, SentinelAssumption DEF Init, Ops
  <2> QED BY <2>1 DEF Init, KeptInv, OneDrain, AllHeld, Stored
<1>2. WalletInv /\ KeptInv => KeptUnlessStale
  <2> SUFFICES ASSUME KeptInv, ~stale, ~recreated PROVE AbsorbedIsKept
    BY DEF KeptUnlessStale
  <2> QED BY DEF KeptInv, AllHeld, Stored, AbsorbedIsKept
<1> QED BY <1>1, <1>2, InitType, StepType, InitWallet, StepWallet, StepKept, PTL DEF Spec
=============================================================================
