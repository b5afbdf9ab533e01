---------------------------- MODULE UnlockGuard ----------------------------
(***************************************************************************)
(* Guessing the password: the unlock guard of src/wallet/store.ts, as      *)
(* unlock() uses it from the windows that show screens/Lock.tsx (the popup *)
(* and any number of approval windows).                                    *)
(*                                                                         *)
(* The guard is one entry in storage.local.  A call reads it, decrypts the *)
(* vault for a second or so, and writes it back: each action is what runs  *)
(* between two of these awaits.  Points in time are kept as the time left  *)
(* to them, which Tick counts down.  A failed call of storage.local is     *)
(* silent, as the code makes it; a failed request of IndexedDB is not, and *)
(* leaves the lock screen busy.  There is a vault from the start.          *)
(***************************************************************************)
EXTENDS Naturals, Sequences

CONSTANTS
  Windows,      \* windows that may show the lock screen
  Owner,        \* one of them: its user knows the password
  FreeTries,    \* LOCK_FREE_TRIES
  Steps,        \* LOCKOUT_STEPS_MS, in ticks
  MaxGuesses,   \* bound: wrong passwords submitted
  MaxFaults     \* bound: storage calls and requests that fail

ASSUME GuardAssumption ==
  /\ Owner \in Windows
  /\ FreeTries \in Nat \ {0}
  /\ Steps \in Seq(Nat \ {0}) /\ Len(Steps) > 0
  /\ MaxGuesses \in Nat /\ MaxFaults \in Nat

VARIABLES
  guard,     \* the unlockGuard entry
  pc,        \* where each window's call of unlock() or createWallet() is
  held,      \* the guard each call works from: what it read, then what it writes
  wait,      \* lockMs of each window: its button is disabled so long
  guesses,   \* wrong passwords submitted
  faults,    \* storage calls and requests that failed
  holding,   \* the owner's popup still has the stock of the wallet it made
  replaced,  \* the vault is of a second wallet, the stock on disk of the first
  owed,      \* history: time left of the lockouts imposed, unless cleared since
  failures,  \* history: passwords found wrong
  since,     \* history: those written to the guard since it was cleared
  stale,     \* history: calls that work from a guard changed since
  lapsed     \* history: a call ignored the guard or wrote over a newer one

wallet == <<holding, replaced>>
vars == <<guard, pc, held, wait, guesses, faults, wallet, owed, failures, since, stale, lapsed>>
history == <<owed, failures, since, stale, lapsed>>

Guards == [fails : Nat, left : Nat]
NoGuard == [fails |-> 0, left |-> 0]
Reading == {"reading", "reading_right"}
InFlight == {"wrong", "right", "writing", "clearing", "making", "opening"}

\* "stuck": unlock() threw, and the screen goes on showing that it is busy.
Screens == {"closed", "lock", "unlocked", "stuck"}

TypeOK ==
  /\ guard \in Guards
  /\ pc \in [Windows -> Screens \cup Reading \cup InFlight]
  /\ held \in [Windows -> Guards]
  /\ wait \in [Windows -> Nat]
  /\ guesses \in 0 .. MaxGuesses
  /\ faults \in 0 .. MaxFaults
  /\ {holding, replaced} \subseteq BOOLEAN
  /\ owed \in Nat
  /\ failures \in Nat /\ since \in Nat
  /\ stale \subseteq Windows
  /\ lapsed \in BOOLEAN

Init ==
  /\ guard = NoGuard
  /\ holding \in BOOLEAN /\ replaced = FALSE
  /\ pc = [w \in Windows |-> IF w = Owner /\ holding THEN "lock" ELSE "closed"]
  /\ held = [w \in Windows |-> NoGuard]
  /\ wait = [w \in Windows |-> 0]
  /\ guesses = 0 /\ faults = 0
  /\ owed = 0 /\ failures = 0 /\ since = 0 /\ stale = {} /\ lapsed = FALSE

Goes(w, place) == pc' = [pc EXCEPT ![w] = place]
Holds(w, g) == held' = [held EXCEPT ![w] = g]
Waits(w, time) == wait' = [wait EXCEPT ![w] = time]
Fault == faults < MaxFaults /\ faults' = faults + 1

----------------------------------------------------------------------------
\* Mutant: the lockout begins after the free tries only, as the comment says.
LockoutForLate(fails) ==
  IF fails <= FreeTries THEN 0
    ELSE Steps[IF fails - FreeTries < Len(Steps) THEN fails - FreeTries ELSE Len(Steps)]

\* Mutant: the first failure locks already.
LockoutForEarly(fails) ==
  Steps[IF fails < Len(Steps) THEN fails ELSE Len(Steps)]

\* lockoutFor(): clamped to the last step.
LockoutFor(fails) ==
  IF fails < FreeTries THEN 0
    ELSE Steps[IF fails - FreeTries < Len(Steps) THEN fails - FreeTries + 1 ELSE Len(Steps)]

\* Mutant: tries are counted down.
BumpedDown(g) == [fails |-> g.fails - 1, left |-> 0]

\* The guard after one more failure.
Bumped(g) == [fails |-> g.fails + 1, left |-> LockoutFor(g.fails + 1)]

\* The lock screen comes up with no memory of an earlier one.
Open(w) ==
  /\ pc[w] = "closed"
  /\ Goes(w, "lock")
  /\ Waits(w, 0)
  /\ UNCHANGED <<guard, held, guesses, faults, wallet, history>>

\* "Set up a new wallet" and back again: another lock screen.
Remount ==
  /\ pc[Owner] \in {"lock", "stuck"}
  /\ Goes(Owner, "lock")
  /\ Waits(Owner, 0)
  /\ UNCHANGED <<guard, held, guesses, faults, wallet, history>>

\* submit(): not while `busy`, not while the window counts a lockout down.
Submit(w, right) ==
  /\ pc[w] = "lock"
  /\ wait[w] = 0
  /\ IF right THEN guesses' = guesses ELSE guesses < MaxGuesses /\ guesses' = guesses + 1
  /\ Goes(w, IF right THEN "reading_right" ELSE "reading")
  /\ UNCHANGED <<guard, held, wait, faults, wallet, history>>

\* Mutant: a refused attempt starts the lockout again.
ReadRenews(w) ==
  /\ pc[w] \in Reading
  /\ IF guard.left > 0
       THEN /\ Goes(w, "lock") /\ Waits(w, LockoutFor(guard.fails))
            /\ guard' = [guard EXCEPT !.left = LockoutFor(guard.fails)]
            /\ UNCHANGED <<held, stale>>
       ELSE /\ Goes(w, IF pc[w] = "reading" THEN "wrong" ELSE "right")
            /\ Holds(w, guard)
            /\ stale' = stale \ {w}
            /\ UNCHANGED <<guard, wait>>
  /\ UNCHANGED <<guesses, faults, wallet, owed, failures, since, lapsed>>

\* Mutant: only the window that was told of a lockout keeps to it.
ReadTrusts(w) ==
  /\ pc[w] \in Reading
  /\ Goes(w, IF pc[w] = "reading" THEN "wrong" ELSE "right")
  /\ Holds(w, guard)
  /\ stale' = stale \ {w}
  /\ UNCHANGED <<guard, wait, guesses, faults, wallet, owed, failures, since, lapsed>>

\* readGuard(): refused while a lockout lasts, with the time it still takes.
Read(w) ==
  /\ pc[w] \in Reading
  /\ IF guard.left > 0
       THEN Goes(w, "lock") /\ Waits(w, guard.left) /\ UNCHANGED <<held, stale>>
       ELSE /\ Goes(w, IF pc[w] = "reading" THEN "wrong" ELSE "right")
            /\ Holds(w, guard)
            /\ stale' = stale \ {w}
            /\ UNCHANGED wait
  /\ UNCHANGED <<guard, guesses, faults, wallet, owed, failures, since, lapsed>>

\* The read fails: as if there were no guard.
ReadFails(w) ==
  /\ pc[w] \in Reading
  /\ Fault
  /\ Goes(w, IF pc[w] = "reading" THEN "wrong" ELSE "right")
  /\ Holds(w, NoGuard)
  /\ stale' = stale \ {w}
  /\ lapsed' = (lapsed \/ guard # NoGuard)
  /\ UNCHANGED <<guard, wait, guesses, wallet, owed, failures, since>>

\* decryptSeed() throws: the failure is added to the guard that was read.
Fails(w) ==
  /\ pc[w] = "wrong"
  /\ Goes(w, "writing")
  /\ Holds(w, Bumped(held[w]))
  /\ failures' = failures + 1
  /\ UNCHANGED <<guard, wait, guesses, faults, wallet, owed, since, stale, lapsed>>

Decrypts(w) ==
  /\ pc[w] = "right"
  /\ Goes(w, "clearing")
  /\ UNCHANGED <<guard, held, wait, guesses, faults, wallet, history>>

\* Calls that have read the guard and not yet written it.
Reads == {w \in Windows : pc[w] \in {"wrong", "right", "writing"}}

\* writeGuard() lands: whatever the guard is by now.
Lands(w) ==
  /\ guard' = held[w]
  /\ owed' = IF owed > held[w].left THEN owed ELSE held[w].left
  /\ since' = since + 1
  /\ stale' = Reads \ {w}
  /\ lapsed' = (lapsed \/ w \in stale)
  /\ UNCHANGED failures

\* The answer: locked out from now on, or just wrong.
Answers(w) ==
  /\ pc[w] = "writing"
  /\ Goes(w, "lock")
  /\ Waits(w, held[w].left)
  /\ Holds(w, NoGuard)
  /\ UNCHANGED <<guesses, wallet>>

Write(w) == Answers(w) /\ Lands(w) /\ UNCHANGED faults

\* "fail open (no lockout) rather than brick unlock": only this window waits.
WriteFails(w) ==
  /\ Answers(w)
  /\ Fault
  /\ lapsed' = TRUE
  /\ UNCHANGED <<guard, owed, failures, since, stale>>

Clears(w) ==
  /\ guard' = NoGuard
  /\ owed' = 0
  /\ since' = 0
  /\ stale' = Reads \ {w}
  /\ UNCHANGED <<failures, lapsed>>

\* clearGuard(): unlock() has the stock to open yet, createWallet() is done.
Cleared(w) ==
  /\ pc[w] \in {"clearing", "making"}
  /\ Goes(w, IF pc[w] = "clearing" THEN "opening" ELSE "unlocked")
  /\ UNCHANGED <<held, wait, guesses, wallet>>

Clear(w) == Cleared(w) /\ Clears(w) /\ UNCHANGED faults

ClearFails(w) == Cleared(w) /\ Fault /\ UNCHANGED <<guard, history>>

\* The stored formats are upgraded, the stock opened, the session saved.
Opens(w) ==
  /\ pc[w] = "opening"
  /\ Goes(w, "unlocked")
  /\ UNCHANGED <<guard, held, wait, guesses, faults, wallet, history>>

\* unlock() throws: a request for the vault or the stock fails, or the stock is sealed
\* under another key than the vault's, as it may be still after a second wallet.
Throws(w) ==
  /\ \/ pc[w] \in Reading \cup {"opening"} /\ Fault
     \/ pc[w] = "opening" /\ replaced /\ UNCHANGED faults
  /\ Goes(w, "stuck")
  /\ UNCHANGED <<guard, held, wait, guesses, wallet, history>>

\* createWallet() over the stored one, from the popup's lock screen: it throws before
\* it has stored anything, unless the popup still holds the stock of the first.
Create ==
  /\ pc[Owner] \in {"lock", "stuck"}
  /\ holding
  /\ replaced' = TRUE
  /\ Goes(Owner, "making")
  /\ UNCHANGED <<guard, held, wait, guesses, faults, holding, history>>

\* The window is closed, with its call.  A write that was sent may still land.
Close(w) ==
  /\ pc[w] # "closed"
  /\ Goes(w, "closed")
  /\ Holds(w, NoGuard)
  /\ Waits(w, 0)
  /\ holding' = (holding /\ w # Owner)
  /\ \/ UNCHANGED <<guard, history>>
     \/ pc[w] = "writing" /\ Lands(w)
     \/ pc[w] \in {"clearing", "making"} /\ Clears(w)
  /\ UNCHANGED <<guesses, faults, replaced>>

\* Time passes, as long as there is something to wait for.
Less(time) == IF time > 0 THEN time - 1 ELSE 0
Tick ==
  /\ \E time \in {guard.left, owed} \cup {wait[w] : w \in Windows} \cup {held[w].left : w \in Windows} : time > 0
  /\ guard' = [guard EXCEPT !.left = Less(guard.left)]
  /\ held' = [w \in Windows |-> [held[w] EXCEPT !.left = Less(held[w].left)]]
  /\ wait' = [w \in Windows |-> Less(wait[w])]
  /\ owed' = Less(owed)
  /\ UNCHANGED <<pc, guesses, faults, wallet, failures, since, stale, lapsed>>

Reaches(w) == Read(w) \/ ReadFails(w)
Proceed(w) ==
  \/ Reaches(w) \/ Fails(w) \/ Decrypts(w)
  \/ Write(w) \/ WriteFails(w) \/ Clear(w) \/ ClearFails(w)
  \/ Opens(w) \/ Throws(w)

Next ==
  \/ \E w \in Windows :
       \/ Open(w) \/ Close(w) \/ Proceed(w)
       \/ \E right \in BOOLEAN : Submit(w, right)
  \/ Remount \/ Create
  \/ Tick

Spec == Init /\ [][Next]_vars

\* Calls go on and time passes; who knows the password goes on entering it.
FairSpec ==
  /\ Spec
  /\ WF_vars(Tick)
  /\ \A w \in Windows : WF_vars(Proceed(w))
  /\ WF_vars(Submit(Owner, TRUE))
----------------------------------------------------------------------------
\* Properties.

\* "escalating lockouts that PERSIST across popup closes": no password is tried,
\* in any window, before every lockout imposed so far is over, unless a storage
\* call failed or two calls overlapped so that one wrote over the other's count.
Starts(w) == pc[w] \in Reading /\ pc'[w] \in {"wrong", "right"}
GuessesWait == [][\A w \in Windows : Starts(w) => owed = 0 \/ lapsed']_vars

\* On the same terms, from the LOCK_FREE_TRIES-th failure on, every failure locks
\* (lockoutFor, and the count carried from window to window by the guard).
FoundWrong(w) == pc[w] = "wrong" /\ pc'[w] = "writing"
EveryFailureLocks ==
  [][\A w \in Windows :
       FoundWrong(w) /\ since + 1 >= FreeTries => held'[w].left > 0 \/ w \in stale \/ lapsed]_vars

\* Whatever overlaps or fails, nobody is locked out, by the guard or by a window,
\* before LOCK_FREE_TRIES passwords were wrong: counts get lost, never made up.  And
\* where none was lost or written over, clearing the guard starts the count anew.
NoEarlyLockout ==
  /\ guard.left > 0 \/ (\E w \in Windows : wait[w] > 0) => failures >= FreeTries
  /\ guard.left > 0 => since >= FreeTries \/ lapsed

\* Who knows the password and keeps a window open gets in, whatever other windows
\* go through: a lockout ends, and being refused does not extend it.  Excepted is the
\* screen that stays busy because unlock() threw, after the right password or before.
OwnerGetsIn ==
  <>[](pc[Owner] \notin {"closed", "stuck"}) => <>[](pc[Owner] = "unlocked")
=============================================================================
