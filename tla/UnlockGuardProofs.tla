------------------------- MODULE UnlockGuardProofs -------------------------
(***************************************************************************)
(* Proofs about UnlockGuard: its safety properties, for any number of      *)
(* windows, any lockout steps and any number of guesses and faults.        *)
(***************************************************************************)
EXTENDS UnlockGuard, TLAPS

\* lockoutFor() is a delay for every count, and none only before the free tries
\* are used up.
LEMMA LockoutForType ==
  ASSUME NEW fails \in Nat
  PROVE  /\ LockoutFor(fails) \in Nat
         /\ LockoutFor(fails) > 0 <=> fails >= FreeTries
PROOF
<1>1. CASE fails < FreeTries
  BY <1>1, GuardAssumption DEF LockoutFor
<1>2. CASE fails >= FreeTries
  <2> DEFINE i == IF fails - FreeTries < Len(Steps) THEN fails - FreeTries + 1 ELSE Len(Steps)
  <2>1. i \in 1 .. Len(Steps)
    BY <1>2, GuardAssumption
  <2>2. Steps[i] \in Nat \ {0}
    BY <2>1, GuardAssumption
  <2>3. LockoutFor(fails) = Steps[i]
    BY <1>2, GuardAssumption DEF LockoutFor
  <2> QED BY <1>2, <2>2, <2>3
<1> QED BY <1>1, <1>2, GuardAssumption

\* One more failure keeps a guard a guard.
LEMMA BumpedType ==
  ASSUME NEW g \in Guards
  PROVE  /\ Bumped(g) \in Guards
         /\ Bumped(g).fails = g.fails + 1
         /\ Bumped(g).left > 0 <=> g.fails + 1 >= FreeTries
PROOF
<1>1. g.fails + 1 \in Nat
  BY DEF Guards
<1> QED BY <1>1, LockoutForType DEF Bumped, Guards

LEMMA LessType ==
  ASSUME NEW time \in Nat
  PROVE  Less(time) \in Nat /\ Less(time) <= time
PROOF BY DEF Less

----------------------------------------------------------------------------
LEMMA InitType == Init => TypeOK
PROOF
<1> SUFFICES ASSUME Init PROVE TypeOK
  OBVIOUS
<1>1. NoGuard \in Guards
  BY DEF NoGuard, Guards
<1>2. guesses \in 0 .. MaxGuesses /\ faults \in 0 .. MaxFaults
  BY GuardAssumption DEF Init
<1>3. lapsed \in BOOLEAN /\ {holding, replaced} \subseteq BOOLEAN
  BY DEF Init
<1>4. pc \in [Windows -> Screens \cup Reading \cup InFlight]
  BY DEF Init, Screens
<1> QED BY <1>1, <1>2, <1>3, <1>4 DEF Init, TypeOK

GuardTypeOK ==
  /\ guard \in Guards /\ owed \in Nat /\ failures \in Nat /\ since \in Nat
  /\ stale \subseteq Windows /\ lapsed \in BOOLEAN

\* A write, or a clearing, of the guard keeps what it touches in type.
LEMMA LandsType ==
  ASSUME TypeOK, NEW w \in Windows, Lands(w)
  PROVE  GuardTypeOK'
PROOF
<1>1. held[w] \in Guards /\ held[w].left \in Nat
  BY DEF TypeOK, Guards
<1>2. guard' \in Guards /\ owed' \in Nat /\ since' \in Nat /\ failures' \in Nat
  BY <1>1 DEF Lands, TypeOK
<1>3. stale' \subseteq Windows
  BY DEF Lands, Reads
<1>4. lapsed' \in BOOLEAN
  BY DEF Lands, TypeOK
<1> QED BY <1>2, <1>3, <1>4 DEF GuardTypeOK

LEMMA ClearsType ==
  ASSUME TypeOK, NEW w \in Windows, Clears(w)
  PROVE  GuardTypeOK'
PROOF
<1>1. NoGuard \in Guards
  BY DEF NoGuard, Guards
<1>2. stale' \subseteq Windows
  BY DEF Clears, Reads
<1> QED BY <1>1, <1>2 DEF Clears, TypeOK, GuardTypeOK

LEMMA StepType == TypeOK /\ [Next]_vars => TypeOK'
PROOF
<1> SUFFICES ASSUME TypeOK, [Next]_vars PROVE TypeOK'
  OBVIOUS
<1> USE GuardAssumption DEF TypeOK, Screens, wallet
<1>0. NoGuard \in Guards
  BY DEF NoGuard, Guards
<1>1. ASSUME NEW w \in Windows, Open(w) PROVE TypeOK'
  BY <1>1 DEF Open, Goes, Waits, history
<1>2. ASSUME NEW w \in Windows, Close(w) PROVE TypeOK'
  <2>1. CASE UNCHANGED <<guard, history>>
    BY <1>0, <1>2, <2>1 DEF Close, Goes, Holds, Waits, history
  <2>2. CASE Lands(w)
    BY <1>0, <1>2, <2>2, LandsType DEF GuardTypeOK, Close, Goes, Holds, Waits
  <2>3. CASE Clears(w)
    BY <1>0, <1>2, <2>3, ClearsType DEF GuardTypeOK, Close, Goes, Holds, Waits
  <2> QED BY <1>2, <2>1, <2>2, <2>3 DEF Close
<1>3. ASSUME NEW w \in Windows, NEW right \in BOOLEAN, Submit(w, right) PROVE TypeOK'
  BY <1>3 DEF Submit, Goes, history, Reading
<1>4. ASSUME NEW w \in Windows, Read(w) PROVE TypeOK'
  <2>1. wait' \in [Windows -> Nat]
    BY <1>4 DEF Read, Waits, Guards
  <2> QED BY <1>4, <2>1 DEF Read, Goes, Holds, InFlight
<1>5. ASSUME NEW w \in Windows, ReadFails(w) PROVE TypeOK'
  BY <1>0, <1>5 DEF ReadFails, Goes, Holds, InFlight, Fault
<1>6. ASSUME NEW w \in Windows, Fails(w) PROVE TypeOK'
  <2>1. Bumped(held[w]) \in Guards
    BY BumpedType
  <2> QED BY <1>6, <2>1 DEF Fails, Goes, Holds, InFlight
<1>7. ASSUME NEW w \in Windows, Decrypts(w) PROVE TypeOK'
  BY <1>7 DEF Decrypts, Goes, InFlight, history
<1>8. ASSUME NEW w \in Windows, Answers(w)
      PROVE  /\ pc' \in [Windows -> Screens \cup Reading \cup InFlight]
             /\ held' \in [Windows -> Guards] /\ wait' \in [Windows -> Nat]
             /\ guesses' \in 0 .. MaxGuesses
  <2>1. wait' \in [Windows -> Nat]
    BY <1>8 DEF Answers, Waits, Guards
  <2> QED BY <1>0, <1>8, <2>1 DEF Answers, Goes, Holds
<1>9. ASSUME NEW w \in Windows, Write(w) PROVE TypeOK'
  BY <1>8, <1>9, LandsType DEF GuardTypeOK, Write, Answers
<1>10. ASSUME NEW w \in Windows, WriteFails(w) PROVE TypeOK'
  BY <1>8, <1>10 DEF WriteFails, Answers, Fault
<1>11. ASSUME NEW w \in Windows, Clear(w) PROVE TypeOK'
  BY <1>0, <1>11, ClearsType DEF GuardTypeOK, Clear, Cleared, Goes, InFlight
<1>12. ASSUME NEW w \in Windows, ClearFails(w) PROVE TypeOK'
  BY <1>12 DEF ClearFails, Cleared, Goes, Fault, history, InFlight
<1>13. ASSUME Create PROVE TypeOK'
  BY <1>13 DEF Create, Goes, InFlight, history
<1>14. ASSUME Tick PROVE TypeOK'
  <2>1. guard' \in Guards
    BY <1>14, LessType DEF Tick, Guards
  <2>2. held' \in [Windows -> Guards]
    BY <1>14, LessType DEF Tick, Guards
  <2>3. wait' \in [Windows -> Nat] /\ owed' \in Nat
    BY <1>14, LessType DEF Tick
  <2> QED BY <1>14, <2>1, <2>2, <2>3 DEF Tick
<1>15. CASE UNCHANGED vars
  BY <1>15 DEF vars
<1>16. ASSUME Remount PROVE TypeOK'
  BY <1>16 DEF Remount, Goes, Waits, history
<1>17. ASSUME NEW w \in Windows, Opens(w) PROVE TypeOK'
  BY <1>17 DEF Opens, Goes, history
<1>18. ASSUME NEW w \in Windows, Throws(w) PROVE TypeOK'
  BY <1>18 DEF Throws, Goes, Fault, history
<1> HIDE DEF TypeOK
<1> QED BY <1>1, <1>2, <1>3, <1>4, <1>5, <1>6, <1>7, <1>9, <1>10, <1>11, <1>12, <1>13, <1>14, <1>15,
           <1>16, <1>17, <1>18
        DEF Next, Proceed, Reaches

\* Every reachable state is well typed: a lockout is a number of milliseconds for
\* every count of failures, however large (lockoutFor, clamped to the last step).
THEOREM TypeCorrect == Spec => []TypeOK
PROOF
<1>1. Init => TypeOK BY InitType
<1>2. TypeOK /\ [Next]_vars => TypeOK' BY StepType
<1> QED BY <1>1, <1>2, PTL DEF Spec
----------------------------------------------------------------------------
\* Counts: nobody counts more failures than there were, and only a count that
\* used up the free tries has a lockout.

Counted(g) == g.fails <= failures /\ (g.left > 0 => g.fails >= FreeTries)

CountsOK ==
  /\ Counted(guard)
  /\ \A w \in Windows : Counted(held[w])
  /\ \A w \in Windows : wait[w] > 0 => failures >= FreeTries

LEMMA InitCounts == Init => CountsOK
PROOF BY GuardAssumption DEF Init, CountsOK, Counted, NoGuard

LEMMA StepCounts == TypeOK /\ CountsOK /\ [Next]_vars => CountsOK'
PROOF
<1> SUFFICES ASSUME TypeOK, CountsOK, [Next]_vars PROVE CountsOK'
  OBVIOUS
<1> USE GuardAssumption
<1>0. /\ guard.fails \in Nat /\ guard.left \in Nat
      /\ \A w \in Windows : held[w].fails \in Nat /\ held[w].left \in Nat /\ wait[w] \in Nat
      /\ failures \in Nat
  BY DEF TypeOK, Guards
<1>z. NoGuard.fails = 0 /\ NoGuard.left = 0
  BY DEF NoGuard
<1>1. ASSUME NEW w \in Windows, Open(w) PROVE CountsOK'
  BY <1>1 DEF Open, Waits, history, CountsOK, Counted, TypeOK
<1>a. ASSUME NEW w \in Windows, Answers(w), UNCHANGED failures,
             guard' = guard \/ guard' = held[w]
      PROVE  CountsOK'
  BY <1>0, <1>z, <1>a DEF Answers, Holds, Waits, CountsOK, Counted, TypeOK
<1>2. ASSUME NEW w \in Windows, Close(w) PROVE CountsOK'
  <2>1. UNCHANGED failures /\ (guard' = guard \/ guard' = held[w] \/ guard' = NoGuard)
    BY <1>2 DEF Close, Lands, Clears, history
  <2> QED BY <1>0, <1>z, <1>2, <2>1 DEF Close, Holds, Waits, CountsOK, Counted, TypeOK
<1>3. ASSUME NEW w \in Windows, NEW right \in BOOLEAN, Submit(w, right) PROVE CountsOK'
  BY <1>3 DEF Submit, history, CountsOK, Counted
<1>4. ASSUME NEW w \in Windows, Read(w) PROVE CountsOK'
  <2>1. CASE guard.left > 0
    BY <1>0, <1>4, <2>1 DEF Read, Waits, CountsOK, Counted, TypeOK
  <2>2. CASE ~(guard.left > 0)
    BY <1>4, <2>2 DEF Read, Holds, CountsOK, Counted, TypeOK
  <2> QED BY <2>1, <2>2
<1>5. ASSUME NEW w \in Windows, ReadFails(w) PROVE CountsOK'
  BY <1>0, <1>z, <1>5 DEF ReadFails, Holds, CountsOK, Counted, TypeOK
<1>6. ASSUME NEW w \in Windows, Fails(w) PROVE CountsOK'
  <2>1. /\ Bumped(held[w]).fails = held[w].fails + 1
        /\ Bumped(held[w]).left > 0 <=> held[w].fails + 1 >= FreeTries
    BY BumpedType DEF TypeOK
  <2> QED BY <1>0, <1>6, <2>1 DEF Fails, Holds, CountsOK, Counted, TypeOK
<1>7. ASSUME NEW w \in Windows, Decrypts(w) PROVE CountsOK'
  BY <1>7 DEF Decrypts, history, CountsOK, Counted
<1>9. ASSUME NEW w \in Windows, Write(w) PROVE CountsOK'
  BY <1>a, <1>9 DEF Write, Lands
<1>10. ASSUME NEW w \in Windows, WriteFails(w) PROVE CountsOK'
  BY <1>a, <1>10 DEF WriteFails
<1>11. ASSUME NEW w \in Windows, Clear(w) PROVE CountsOK'
  BY <1>0, <1>z, <1>11 DEF Clear, Cleared, Clears, CountsOK, Counted
<1>12. ASSUME NEW w \in Windows, ClearFails(w) PROVE CountsOK'
  BY <1>12 DEF ClearFails, Cleared, history, CountsOK, Counted
<1>13. ASSUME Create PROVE CountsOK'
  BY <1>13 DEF Create, history, CountsOK, Counted
<1>14. ASSUME Tick PROVE CountsOK'
  <2>1. guard'.fails = guard.fails /\ guard'.left \in Nat /\ guard'.left <= guard.left
    BY <1>0, <1>14, LessType DEF Tick, TypeOK, Guards
  <2>2. \A w \in Windows :
          held'[w].fails = held[w].fails /\ held'[w].left \in Nat /\ held'[w].left <= held[w].left
    BY <1>0, <1>14, LessType DEF Tick, TypeOK, Guards
  <2>3. \A w \in Windows : wait'[w] \in Nat /\ wait'[w] <= wait[w]
    BY <1>0, <1>14, LessType DEF Tick
  <2>4. UNCHANGED failures
    BY <1>14 DEF Tick
  <2>5. Counted(guard)'
    BY <1>0, <2>1, <2>4 DEF CountsOK, Counted
  <2>6. ASSUME NEW w \in Windows PROVE Counted(held[w])'
    BY <1>0, <2>2, <2>4 DEF CountsOK, Counted
  <2>7. ASSUME NEW w \in Windows PROVE (wait[w] > 0 => failures >= FreeTries)'
    BY <1>0, <2>3, <2>4 DEF CountsOK
  <2> QED BY <2>5, <2>6, <2>7 DEF CountsOK
<1>15. CASE UNCHANGED vars
  BY <1>15 DEF vars, history, CountsOK, Counted
<1>16. ASSUME Remount PROVE CountsOK'
  BY <1>16 DEF Remount, Waits, history, CountsOK, Counted, TypeOK
<1>17. ASSUME NEW w \in Windows, Opens(w) \/ Throws(w) PROVE CountsOK'
  BY <1>17 DEF Opens, Throws, history, CountsOK, Counted
<1> QED BY <1>1, <1>2, <1>3, <1>4, <1>5, <1>6, <1>7, <1>9, <1>10, <1>11, <1>12, <1>13, <1>14, <1>15,
           <1>16, <1>17
        DEF Next, Proceed, Reaches
----------------------------------------------------------------------------
\* As long as nothing failed and no call wrote over a newer guard, the guard keeps
\* every lockout that was imposed and every failure since it was cleared, and a call
\* that is not stale works from the guard as it is.

InStep(w) ==
  w \in Reads /\ w \notin stale =>
    /\ guard.left = 0
    /\ held[w].fails = IF pc[w] = "writing" THEN guard.fails + 1 ELSE guard.fails

Tracks ==
  ~lapsed =>
    /\ guard.left = owed
    /\ guard.fails = since
    /\ \A w \in Windows : InStep(w)

LEMMA InitTracks == Init => Tracks
PROOF BY DEF Init, Tracks, InStep, NoGuard, Reads

LEMMA LandsTracks ==
  ASSUME TypeOK, Tracks, NEW w \in Windows, Lands(w), pc[w] = "writing",
         NEW place, place \notin {"wrong", "right", "writing"},
         Goes(w, place)
  PROVE  Tracks'
PROOF
<1> SUFFICES ASSUME ~lapsed' PROVE Tracks'
  BY DEF Tracks
<1>1. ~lapsed /\ w \notin stale /\ w \in Reads
  BY DEF Lands, Reads
<1>2. guard.left = 0 /\ owed = 0 /\ held[w].fails = since + 1
  BY <1>1 DEF Tracks, InStep
<1>3. held[w].left \in Nat
  BY DEF TypeOK, Guards
<1>4. guard'.left = owed' /\ guard'.fails = since'
  BY <1>2, <1>3 DEF Lands
<1>5. \A v \in Windows : v \in Reads' => v \in stale'
  BY DEF Lands, Reads, Goes, TypeOK
<1> QED BY <1>4, <1>5 DEF Tracks, InStep

LEMMA ClearsTracks ==
  ASSUME TypeOK, NEW w \in Windows, Clears(w),
         NEW place, place \notin {"wrong", "right", "writing"},
         Goes(w, place)
  PROVE  Tracks'
PROOF
<1>1. guard'.left = owed' /\ guard'.fails = since'
  BY DEF Clears, NoGuard
<1>2. \A v \in Windows : v \in Reads' => v \in stale'
  BY DEF Clears, Reads, Goes, TypeOK
<1> QED BY <1>1, <1>2 DEF Tracks, InStep

\* What leaves the guard and its history alone, and moves a window out of a call
\* or not into one, keeps everybody else's place.
LEMMA MovesTrack ==
  ASSUME TypeOK, Tracks, NEW w \in Windows,
         NEW place, place \notin {"wrong", "right", "writing"},
         Goes(w, place),
         \A v \in Windows : v # w => held'[v] = held[v],
         UNCHANGED guard, UNCHANGED owed, UNCHANGED since, UNCHANGED stale, UNCHANGED lapsed
  PROVE  Tracks'
PROOF
<1>1. ASSUME NEW v \in Windows, v \in Reads' PROVE v # w /\ v \in Reads /\ pc'[v] = pc[v]
  BY <1>1 DEF Reads, Goes, TypeOK
<1> QED BY <1>1 DEF Tracks, InStep

LEMMA StepTracks == TypeOK /\ Tracks /\ [Next]_vars => Tracks'
PROOF
<1> SUFFICES ASSUME TypeOK, Tracks, [Next]_vars PROVE Tracks'
  OBVIOUS
<1>1. ASSUME NEW w \in Windows, Open(w) PROVE Tracks'
  BY <1>1, MovesTrack DEF Open, history
<1>2. ASSUME NEW w \in Windows, Close(w) PROVE Tracks'
  <2>1. CASE UNCHANGED <<guard, history>>
    BY <1>2, <2>1, MovesTrack DEF Close, Holds, history, TypeOK
  <2>2. CASE pc[w] = "writing" /\ Lands(w)
    BY <1>2, <2>2, LandsTracks DEF Close
  <2>3. CASE Clears(w)
    BY <1>2, <2>3, ClearsTracks DEF Close
  <2> QED BY <1>2, <2>1, <2>2, <2>3 DEF Close
<1>3. ASSUME NEW w \in Windows, NEW right \in BOOLEAN, Submit(w, right) PROVE Tracks'
  <2>1. (IF right THEN "reading_right" ELSE "reading") \notin {"wrong", "right", "writing"}
    OBVIOUS
  <2> QED BY <1>3, <2>1, MovesTrack DEF Submit, history
<1>4. ASSUME NEW w \in Windows, Read(w) PROVE Tracks'
  <2>1. CASE guard.left > 0
    BY <1>4, <2>1, MovesTrack DEF Read
  <2>2. CASE ~(guard.left > 0)
    <3>1. guard.left = 0
      BY <2>2 DEF TypeOK, Guards
    <3>2. held'[w] = guard /\ pc'[w] \in {"wrong", "right"}
      BY <1>4, <2>2 DEF Read, Holds, Goes, TypeOK
    <3>3. ASSUME NEW v \in Windows, v # w
          PROVE  held'[v] = held[v] /\ pc'[v] = pc[v] /\ (v \in stale' <=> v \in stale)
      BY <1>4, <2>2, <3>3 DEF Read, Holds, Goes, TypeOK
    <3> QED BY <1>4, <3>1, <3>2, <3>3 DEF Read, Tracks, InStep, Reads
  <2> QED BY <2>1, <2>2
<1>5. ASSUME NEW w \in Windows, ReadFails(w) PROVE Tracks'
  <2> SUFFICES ASSUME ~lapsed' PROVE Tracks'
    BY DEF Tracks
  <2>0. ~lapsed /\ guard = NoGuard
    BY <1>5 DEF ReadFails
  <2>1. ~lapsed /\ guard = NoGuard /\ guard.left = 0
    BY <2>0 DEF NoGuard
  <2>2. held'[w] = guard /\ pc'[w] \in {"wrong", "right"}
    BY <1>5, <2>1 DEF ReadFails, Holds, Goes, TypeOK
  <2>3. ASSUME NEW v \in Windows, v # w
        PROVE  held'[v] = held[v] /\ pc'[v] = pc[v] /\ (v \in stale' <=> v \in stale)
    BY <1>5, <2>3 DEF ReadFails, Holds, Goes, TypeOK
  <2> QED BY <1>5, <2>1, <2>2, <2>3 DEF ReadFails, Tracks, InStep, Reads
<1>6. ASSUME NEW w \in Windows, Fails(w) PROVE Tracks'
  <2>1. held'[w].fails = held[w].fails + 1 /\ pc[w] = "wrong" /\ pc'[w] = "writing"
    BY <1>6, BumpedType DEF Fails, Holds, Goes, TypeOK
  <2>2. ASSUME NEW v \in Windows, v # w PROVE held'[v] = held[v] /\ pc'[v] = pc[v]
    BY <1>6, <2>2 DEF Fails, Holds, Goes, TypeOK
  <2> QED BY <1>6, <2>1, <2>2 DEF Fails, Tracks, InStep, Reads
<1>7. ASSUME NEW w \in Windows, Decrypts(w) PROVE Tracks'
  BY <1>7, MovesTrack DEF Decrypts, history
<1>9. ASSUME NEW w \in Windows, Write(w) PROVE Tracks'
  BY <1>9, LandsTracks DEF Write, Answers
<1>10. ASSUME NEW w \in Windows, WriteFails(w) PROVE Tracks'
  BY <1>10 DEF WriteFails, Tracks
<1>11. ASSUME NEW w \in Windows, Clear(w) PROVE Tracks'
  BY <1>11, ClearsTracks DEF Clear, Cleared
<1>12. ASSUME NEW w \in Windows, ClearFails(w) PROVE Tracks'
  BY <1>12, MovesTrack DEF ClearFails, Cleared, history
<1>13. ASSUME Create PROVE Tracks'
  BY <1>13, GuardAssumption, MovesTrack DEF Create, history
<1>14. ASSUME Tick PROVE Tracks'
  <2> SUFFICES ASSUME ~lapsed PROVE Tracks'
    BY <1>14 DEF Tick, Tracks
  <2>1. guard.fails' = guard.fails /\ guard.left' = Less(guard.left)
    BY <1>14 DEF Tick, TypeOK, Guards
  <2>2. \A w \in Windows : held'[w].fails = held[w].fails
    BY <1>14 DEF Tick, TypeOK, Guards
  <2>3. guard'.left = owed' /\ guard'.fails = since'
    BY <1>14, <2>1 DEF Tick, Tracks
  <2>4. ASSUME NEW w \in Windows PROVE InStep(w)'
    <3>1. (w \in Reads)' <=> w \in Reads
      BY <1>14 DEF Tick, Reads
    <3>2. UNCHANGED stale /\ pc'[w] = pc[w]
      BY <1>14 DEF Tick
    <3>3. guard.left = 0 => guard.left' = 0
      BY <2>1 DEF Less
    <3> QED BY <2>1, <2>2, <3>1, <3>2, <3>3 DEF Tracks, InStep
  <2> QED BY <2>3, <2>4 DEF Tracks
<1>15. CASE UNCHANGED vars
  BY <1>15 DEF vars, history, Tracks, InStep, Reads
<1>16. ASSUME Remount PROVE Tracks'
  BY <1>16, GuardAssumption, MovesTrack DEF Remount, history
<1>17. ASSUME NEW w \in Windows, Opens(w) \/ Throws(w) PROVE Tracks'
  BY <1>17, MovesTrack DEF Opens, Throws, history
<1> QED BY <1>1, <1>2, <1>3, <1>4, <1>5, <1>6, <1>7, <1>9, <1>10, <1>11, <1>12, <1>13, <1>14, <1>15,
           <1>16, <1>17
        DEF Next, Proceed, Reaches

\* However many windows guess at once and whatever storage does, a lockout is never
\* imposed before LOCK_FREE_TRIES passwords were wrong, since the guard was cleared
\* where no count was lost or written over (lockoutFor, writeGuard, clearGuard).
THEOREM LockoutIsEarned == Spec => []NoEarlyLockout
PROOF
<1>1. Init => TypeOK /\ CountsOK /\ Tracks BY InitType, InitCounts, InitTracks
<1>2. (TypeOK /\ CountsOK /\ Tracks) /\ [Next]_vars => (TypeOK /\ CountsOK /\ Tracks)'
  BY StepType, StepCounts, StepTracks
<1>3. TypeOK /\ CountsOK /\ Tracks => NoEarlyLockout
  BY GuardAssumption DEF TypeOK, Guards, CountsOK, Counted, Tracks, NoEarlyLockout
<1> QED BY <1>1, <1>2, <1>3, PTL DEF Spec

\* No password is tried before every lockout imposed so far is over, in any window
\* and across any closing and reopening of them, unless storage failed or two calls
\* wrote over each other (readGuard before decryptSeed in unlock).
THEOREM LockoutsAreKept == Spec => GuessesWait
PROOF
<1>1. Init => TypeOK /\ Tracks BY InitType, InitTracks
<1>2. (TypeOK /\ Tracks) /\ [Next]_vars => (TypeOK /\ Tracks)' BY StepType, StepTracks
<1>3. (TypeOK /\ Tracks) /\ [Next]_vars => [\A w \in Windows : Starts(w) => owed = 0 \/ lapsed']_vars
  <2> SUFFICES ASSUME TypeOK, Tracks, Next, NEW w \in Windows, Starts(w), ~lapsed'
               PROVE  owed = 0
    OBVIOUS
  <2>1. Read(w) \/ ReadFails(w)
    <3>1. ASSUME NEW v \in Windows, NEW place, Goes(v, place), place \notin {"wrong", "right"}
          PROVE  FALSE
      BY <3>1 DEF Starts, Reading, Goes, TypeOK
    <3>2. ASSUME NEW v \in Windows, Read(v) \/ ReadFails(v) PROVE v = w
      BY <3>2 DEF Starts, Reading, Read, ReadFails, Goes, TypeOK
    <3>3. ~Tick
      BY DEF Starts, Reading, Tick
    <3> QED BY <3>1, <3>2, <3>3, GuardAssumption
            DEF Next, Proceed, Reaches, Open, Close, Submit, Fails, Decrypts, Write, WriteFails,
                Answers, Cleared, Clear, ClearFails, Create, Remount, Opens, Throws
  <2>2. ~lapsed /\ guard.left = 0
    <3>1. CASE Read(w)
      <4>1. ~lapsed
        BY <3>1 DEF Read
      <4>2. ~(guard.left > 0)
        BY <3>1 DEF Read, Starts, Goes, TypeOK
      <4> QED BY <4>1, <4>2 DEF TypeOK, Guards
    <3>2. CASE ReadFails(w)
      <4>1. ~lapsed /\ guard = NoGuard
        BY <3>2 DEF ReadFails
      <4> QED BY <4>1 DEF NoGuard
    <3> QED BY <2>1, <3>1, <3>2
  <2> QED BY <2>2 DEF Tracks
<1> QED BY <1>1, <1>2, <1>3, PTL DEF Spec, GuessesWait

\* From the LOCK_FREE_TRIES-th failure since the guard was cleared, every password
\* found wrong imposes a lockout, whichever windows they were entered in.
THEOREM FailuresLock == Spec => EveryFailureLocks
PROOF
<1>1. Init => TypeOK /\ Tracks BY InitType, InitTracks
<1>2. (TypeOK /\ Tracks) /\ [Next]_vars => (TypeOK /\ Tracks)' BY StepType, StepTracks
<1>3. (TypeOK /\ Tracks) /\ [Next]_vars =>
        [\A w \in Windows :
           FoundWrong(w) /\ since + 1 >= FreeTries => held'[w].left > 0 \/ w \in stale \/ lapsed]_vars
  <2> SUFFICES ASSUME TypeOK, Tracks, Next, NEW w \in Windows, FoundWrong(w),
                      since + 1 >= FreeTries, w \notin stale, ~lapsed
               PROVE  held'[w].left > 0
    OBVIOUS
  <2>1. Fails(w)
    <3>1. ASSUME NEW v \in Windows, NEW place, Goes(v, place), place # "writing"
          PROVE  FALSE
      BY <3>1 DEF FoundWrong, Goes, TypeOK
    <3>2. ASSUME NEW v \in Windows, Fails(v) PROVE v = w
      BY <3>2 DEF FoundWrong, Fails, Goes, TypeOK
    <3>3. ASSUME NEW v \in Windows, Read(v) PROVE FALSE
      BY <3>1, <3>3 DEF Read
    <3>4. ~Tick
      BY DEF FoundWrong, Tick
    <3> QED BY <3>1, <3>2, <3>3, <3>4, GuardAssumption
            DEF Next, Proceed, Reaches, Open, Close, Submit, ReadFails, Decrypts, Write, WriteFails,
                Answers, Cleared, Clear, ClearFails, Create, Remount, Opens, Throws
  <2>2. held[w].fails = since
    BY DEF FoundWrong, Tracks, InStep, Reads
  <2>3. held'[w] = Bumped(held[w])
    BY <2>1 DEF Fails, Holds, TypeOK
  <2> QED BY <2>2, <2>3, BumpedType DEF TypeOK
<1> QED BY <1>1, <1>2, <1>3, PTL DEF Spec, EveryFailureLocks
=============================================================================
