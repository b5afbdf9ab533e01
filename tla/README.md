# Verification of colorex-wallet

TLA+ models of the colorex wallet (a Manifest V3 browser extension that holds
bitcoin and RGB assets and signs swap transactions), the TLC runs that check
them on small instances, and theorems about them that TLAPS proves for every
instance. Paths are relative to the repository root (`src/` here).

## 1. Inventory

The extension has two kinds of JavaScript realm that share nothing but storage:
the **service worker** (`src/worker/background.ts`), which the browser starts for
an event and ends when it likes, and the **popup and approval windows**
(`src/ui/`). Both link `src/wallet/`, so each realm has its own copies of that
code's module variables. Below both is `rgb-wasm/` (Rust, compiled to wasm).

| part | source | state | operations |
| --- | --- | --- | --- |
| import queue | `src/wallet/import-queue.ts` | IndexedDB store `import-queue`; `draining` | `enqueue`, `removeItem`, `drain` -> `processItem` |
| RGB stock | `src/wallet/store.ts`, `rgb-wasm/src/lib.rs` | `stock` per realm; sealed `stash/state/index` in IndexedDB | `openStock`, `persist`, `acceptConsignmentOrds`, `updateWitnesses` |
| session and lock | `src/wallet/store.ts` | `unlockedXprv` per realm; `storage.session` entry with a sliding expiry | `unlock`, `lock`, `restoreSession`, `signingKey`, idle auto-lock |
| unlock guard | `src/wallet/store.ts` | `unlockGuard` in `storage.local` | the guard part of `unlock` |
| approvals | `src/worker/background.ts`, `src/ui/screens` | `pending`, `pendingConnect`, `connectWindows`; `connected` in `storage.local` | `requestConnect`, `signAndSend`, `handlePopup`, `finalize`, `markConnected`, window closing |
| sign findings | `src/worker/background.ts`, `src/colorex/rgb-delta.ts` | none (computed per request) | `buildSignRequest`, `deriveRgbDelta` |
| SPV checks | `src/wallet/spv-verify.ts`, `rgb-wasm/src/spv/` | cache of verified witnesses | `verifyMinedAncestry`, header run and merkle validation |
| checkpoints | `src/wallet/checkpoint*.ts` | baked table; local store | `reconcile`, `extendLocalCheckpoints`, `nearestCheckpoint` |
| chain client | `src/wallet/esplora.ts` | none | status, headers, proofs, UTXOs |
| coin selection, sending | `src/wallet/store.ts` | none | `createTransfer`, balances |
| provider relay | `src/provider/` | requests in flight by id | `inject.ts` promises, content script forwarding |
| key material | `src/wallet/vault.ts`, `keys.ts`, `sign.ts`, `password.ts` | none | encryption, derivation, signing |
| screens, SDK, broker client | `src/ui/`, `src/sdk/`, `src/colorex/` | view state | rendering, calls into the above |

How they interact. A dApp's request goes page -> content script -> worker. An
approval opens a window whose decision comes back as a message. The popup's pastes
and dismissals are messages to the worker, which alone drains the queue; but the
popup opens the stock itself for balances. Worker and popup meet in
`storage.session` (the key), `storage.local` (guard, connected origins) and
IndexedDB (vault, sealed stock, queue).

What is hard: every `await` lets another task of the same realm run; the worker may
end at any of them and loses its memory; the two realms race on storage that they
read, change and write in separate transactions; chain statuses are stale when they
are used; requests fail one at a time.

What makes each part correct:

* import queue and stock: the queue never claims more than the stock on disk holds;
  allocations are spendable only on mined witnesses; a revert is real; one asset's
  update does not touch another's; mined transfers end confirmed.
* session: after a lock no realm holds key or stock; a lock is not undone by
  something that was in flight; no realm overwrites a newer stock.
* unlock guard: nobody is locked out early, the owner gets in; and, unless storage fails or
  two windows' calls overlap, every wrong guess counts and no lockout is cut short.
* approvals: a signature needs an approval (as the worker takes one, from whoever sends it),
  an origin that a connect named and no blocking finding; every request is settled once, and
  is eventually settled.
* findings: the gates together never let a request through that spends an anchor its sale does
  not name, pays for a delivery that nobody proves, or is not the quoted transaction.
* SPV and checkpoints: a witness counts as mined only under a header chain that
  links to a trusted checkpoint; a merge never replaces a trusted checkpoint, and
  every table it yields keeps the epoch spacing.

## 2. Plan

Modules in the order they were written.

1. `WitnessLedger` (abstract), `ImportQueue`, `MCImportQueue`, `ImportQueueProofs`.
2. `ApprovalRegister` (abstract), `Approvals`, `MCApprovals`, `ApprovalProofs`.
3. `Session`, `MCSession`, `SessionProofs`: worker and popup, the shared entry, the stored wallet.
4. `MinedAncestry`, `MCMinedAncestry`, `MinedAncestryProofs`, `MinedWitnessProofs`: a
   consignment's check, the checkpoint store and the task that extends it, over a chain that
   reorganises.
5. `UnlockGuard`, `MCUnlockGuard`, `UnlockGuardProofs`: windows guessing against one guard.
6. `SignFindings`, `MCSignFindings`, `SignFindingsProofs`, `SignAmountProofs`: the export of a sale's consignment,
   and the gates of one sign request, await by await.

Left for later: approval windows as a third realm of `Session`.

Abstract specifications: `WitnessLedger` (refined by `ImportQueue`) and `ApprovalRegister`
(refined by `Approvals`).

## 3. The import queue

`ImportQueue.tla` models `import-queue.ts` with the parts of `store.ts`, `esplora.ts`
and `lib.rs` it drives. An action is what runs between two awaits.

| model | code |
| --- | --- |
| `queue`, `arming`, `dismissing` | the object store; an `enqueue` between its `getItem` and `putItem`; dismissal messages under way |
| `stock`, `disk`, `saving` | the module variable, the sealed blobs, the bytes a `persist` is sealing |
| `key`, `session` | the worker's `unlockedXprv`, the entry in `storage.session` |
| `pc`, `snap`, `cur`, `stat`, `goal`, `buf` | where `drainOnce`/`processItem` is: the snapshot of the queue, the item, the fetched statuses, what the operation is for, the item `patch` will put |
| `DrainStart` ... `DrainEnd` | `drain`, `drainOnce` |
| `FetchStatus`, `FetchFails`, `Decide` | `processItem`'s `Promise.all` and the decision on it |
| `StockOp`, `StockOpFails`, `StockOpBreaks`, `PersistDone`, `PersistFails` | `acceptConsignmentOrds`, `updateWitnesses` (which may fail before or after they changed the stock in memory), `persist` |
| `PatchGet`, `PatchGone`, `PatchPut` | `patch` |
| `Enqueue`, `EnqueuePut`, `ClickDismiss`, `RemoveItem` | `enqueue`, the popup's dismiss button, `removeItem` |
| `PopupUnlock`, `PopupLock`, `WorkerLock`, `WorkerRestore`, `WorkerRestart` | the popup's session changes, the idle lock, another handler restoring the key, the browser ending the worker |
| `Broadcast`, `Mine`, `Drop` | the chain (external) |

A stock is reduced to the `WitnessOrd` it holds for each witness transaction: this is
all the queue changes in it. A consignment is the set of witnesses it carries (with
those of its history) and whether it validates.

Abstractions, each named in the module or here: the order of the items in a drain is
open (the code: newest first); one `enqueue` per item is in flight at a time;
`openStock` is one step, and nobody locks and unlocks again during one `persist`
(both belong to `Session`); esplora answers truthfully or fails; a mined
witness stays mined (no reorganisation); IndexedDB fails only under `persist`.

### Runs

| run | instance | shows |
| --- | --- | --- |
| `import_queue` | one transfer, two witnesses, 3 attempts, 1 fault | types and retry budget, the relations between queue, stock, disk and chain below, the refinement, and liveness |
| `import_phantom` | one transfer, one witness | the counterexample of section 10 |

Bounds. `MaxFaults` bounds failed requests, failed writes, locks and worker ends
together. `MaxAttempts` stands for `MAX_ATTEMPTS` (8): the cap matters at the boundary only,
and with three attempts one fault and one refusal still leave a try. Two witnesses are what
it takes to be partly mined or partly dropped. One fault and one item keep liveness within
reach. That items do not disturb each other (an update that touches another asset's
allocations), and that more faults change nothing, the run cannot show: it is what the
theorems of section 9, `StockIsLedger` first, say of the safety properties.

Fairness. `FairSpec` gives weak fairness to the drain as a whole (the alarm fires
every minute and survives the worker; every request is answered or fails) and to
the write of an enqueue. The chain, the user and faults are not fair. The liveness
properties assume the session is valid from some point on.

### Properties

* `ConfirmedIsMinedOnDisk`, `TentativeIsOnDisk`: what the queue says of an item holds
  of the stock on disk, between any two steps.
* `MinedOrdIsMined`: no copy of the stock counts a witness as mined before the chain.
* `RevertArchives`: a watched item becomes reverted only with a witness archived on disk.
* `RetriesAreForFaults`: a valid consignment is charged at most one refusal and one accept for each
  fault. Watching, reverting, re-delivering and dismissing cost it nothing.
* `EndedIsFinal`: no drain, with whatever old snapshot or half-done patch, takes an item out of
  `confirmed` or `reverted`; only an enqueue or a dismissal in flight does.
* `LedgerSpec`: the stock on disk refines `WitnessLedger`: a mined witness is final, is
  never archived by another item's update, and nothing is forgotten.
* `MinedIsConfirmed`, `DroppedIsNoticed`: liveness.

## 4. Approvals

`Approvals.tla` models what happens to a `connect()` or `signAndSend()` call between the
page's question and its answer.

| model | code |
| --- | --- |
| `at` | where the handler of each request is: unsent, at an await (`checking`, `building`, `waiting`, `marking`, `putting`, `signing`), or the answer it gave |
| `pending`, `pendingConnect`, `connectWindows` | the maps of `background.ts` |
| `created` | connect windows that are there, while `windows.create` has yet to answer the worker |
| `blocked` | requests whose `findings` hold a `block` |
| `connected`, `read` | the list in `storage.local`, what each `markConnected` read of it |
| `win`, `shown` | the approval window of each request and the request it displays |
| `decisions`, `removed` | messages and `windows.onRemoved` events under way |
| `OriginOf`, `Posted` | what a page puts in its messages: the `origin` its request names, and decisions it posts of its own accord |
| `AskConnect`, `AskSign`, `CheckOrigin`, `Build` | `requestConnect`, `signAndSend` with `buildSignRequest` |
| `WindowOpens`, `WindowKnown`, `WindowFails` | `openApprovalWindow`; `connectWindows.set` when it answers |
| `Fetch`, `Click`, `Close` | the screens |
| `RelayDecision` | `content-script.ts`, which relays a message whatever its kind, and the listener, which does not ask who sent it |
| `DecideConnect`, `Decide`, `Sign`, `OnRemoved`, `MarkGet`, `MarkPut` | `handlePopup`, `finalize`, `windows.onRemoved`, `markConnected` |
| `Restart` | the browser ends the worker; the content script answers the pages |
| `consent`, `relayed` | history: which requests were approved on a screen that showed them, and which by a message of a page |
| `early` | history: windows whose close event came before their creation's answer |

Abstractions. `Build` chooses whether a finding blocks (which is the subject of `SignFindings`).
Whether the key is at hand when it is needed belongs to `Session`: `Throws` may follow any
await. The buttons are not disabled after a click, so two decisions for one window are
possible. `Restart` leaves the windows: their decisions reach a worker that knows nothing of them.
A request is asked once. A decision that a page posts while its request is not waiting for one
finds nothing to decide and is left out.

Ids come from the pages (`inject.ts`: a clock and a counter), and nothing keeps two pages
from choosing the same: `IdOf` is a parameter, the run and the theorems assume
`DistinctIds`. With equal ids the later request takes the earlier one's place in the map.

### Runs

| run | instance | shows |
| --- | --- | --- |
| `approvals` | a connect and a sign request of one origin, which posts approvals of both, and a sign request of another | types and the five properties below |
| `sign_window_hang` | a connect and a sign request of one origin | the counterexample of section 10 |

Bounds. The connected origin gives the sequence connect, then sign; the other
one is the origin that must be kept out. Nothing else is bounded: each request goes through its steps once (165,954
states).

Fairness. For each request the worker, the browser and the user go on: storage calls,
`windows.create` and events are answered and its window is closed some time; and so do its
decisions, which no number of further clicks holds up. Deciding is not fair: a user may just close. The
runs stop when every request is answered and every window closed (`CHECK_DEADLOCK FALSE`).

### Properties

* `RegistryIsExact`: the requests in the maps are exactly those that wait for the user.
* `WaitingIsAttended`: somebody can still answer what waits. Its window shows that request, or is on
  its way to; or it closed and the worker, which knows the window or is about to, will hear of it.
  Excepted are a window that failed to open, a sign window closed undecided, and a connect window
  whose close event overtook the answer of `windows.create` (`early`, section 10).
* `AdmittedWasConnected`: a sign request is built, shown or signed only for an origin that a
  connect request named and that was approved: on its screen, or by a message of a page.
* `RegisterSpec`: refinement of `ApprovalRegister`: each request is answered once; it is granted
  only if it was approved, by the user on a screen that showed it or by a message of a page, and
  not over a veto; and no veto comes after the user's approval.
* `WaitingIsAnswered`: in the end nothing waits (and a request waits once), except a request whose window could not be
  opened, and a sign window or an `early` one closed undecided (`Abandoned`).

The last words of the third and the fourth are how the code is: the worker ties a decision
to a request id and to no sender, and an origin to nothing. What the wallet's own windows
guarantee is the theorem `QuietPagesNeedConsent` (section 9): a request whose approval no page
posts is granted only with the user's consent to that very request.

## 5. Session

`Session.tla` models the calls of `store.ts` in two realms, each with its own `key`
(`unlockedXprv`) and `stock`, against the shared `entry` and the disk.

| model | code |
| --- | --- |
| `vault`, `sealed` | the key the vault decrypts to; the blobs: sealed under which key, holding what |
| `entry` | the entry of `storage.session`; `live` until it expires |
| `key`, `stock` | the module variables of each realm |
| `screen` | the popup's route; `phrase` is onboarding with the recovery phrase |
| `task` | the calls in flight: which await each is at and what for |
| `ReadBlobs`, `Load`, `Seal` | `openStock`, `persist` |
| `Throws` | a request to IndexedDB or esplora that fails: the call ends with its exception, what it has put into memory stays |
| `Ask`, `DropEntry`, `RenewRestored` | `restoreSession` |
| `CallUnlock`, `Verified`, `RenewOwn`; `CallCreate`, `Generated`, `PutVault`, `RenewOwn` | `unlock`; `createWallet` |
| `CallRead`, `Describe` | `accountBalances` and the like, `getDescriptor` |
| `CallAbsorb`, `Accept` | the drain's `canAccessStock`, then `acceptConsignmentOrds` or `updateWitnesses` |
| `Lock`, `Expire`, `EndWorker`, `OpenPopup`, `ClosePopup`, `Navigate` | `lock()` in either realm, the clock, the browser, the user |

Abstractions. Keys are values, and sealing under a key is a label: a blob opens with its
key only. What a password decrypts is right or an error. The three blobs are read in one
step, a value an `await` delivers is used in the step that reads it, and `lock()` and
the removal it sends are one step. Approval windows, which unlock and restore like the
popup but cannot create, are not a realm of their own. `Onboarding.tsx` shows a creation's
exception and lets the form be sent again, so `CallCreate` may follow a creation that threw.
A failed call of `storage.session` is caught by the code and is like an expired entry; the
lock screen that stays busy after an exception is left to `UnlockGuard` (here it can be tried
again, which allows more).

### Runs

| run | instance | shows |
| --- | --- | --- |
| `session` | two calls in the worker, one in the popup, two keys, one item, three events | the properties below |
| `wallet_recreate`, `session_relock` | one call in each realm, no event and one | the counterexamples of section 10 |

Bounds. `MaxEvents` counts locks, expiries, ends of a realm and failed requests: three, for a
creation that throws, the popup's end and a lock; a failed write, a lock and the end of
the worker; or a creation cut short twice (1.7 million states). Two calls in the worker overlap;
one item suffices because updates persist too. `Keys` bounds the wallets begun. The
constraint `OneWallet` stops where `recreated` begins: at a second wallet over the first, which
is `wallet_recreate`'s, and at a creation tried again in the popup where one left its stock.

### Properties

* `OneWalletOpens`: a wallet created once is always openable by what its vault decrypts to,
  however often its creation was cut short by the popup's end before and whichever requests
  fail. "Once" is a premise (`recreated`): a creation that throws after it has opened a
  stock, and is tried again in the same popup, ends as in `wallet_recreate` (section 10).
* `SessionIsVaults`: the session entry and the worker's key are the stored wallet's.
* `KeptUnlessStale`: what was reported absorbed is in the stock on disk, unless the worker
  has taken a stock that it read before something was absorbed.
* `LockHoldsUnlessRestoring`: no session revives after a lock unless a `restoreSession` had
  read the entry when it came.

The exceptions are where the code's claims fail (section 10): overlapping calls of
`openStock`, or one that overlaps a `persist`, are excluded and not caught. No fairness is assumed.

## 6. Mined ancestry

`MinedAncestry.tla` models `verifyMinedAncestry` (with the Rust functions it calls) and
`extendLocalCheckpoints`, which share `storage.local`, against the chain a server follows.

| model | code |
| --- | --- |
| `chain`; `Mine`, `Reorg` | the server's best chain, external; a block is the chain up to it, so "hash" and "links to" are equality and prefix |
| `baked`, `local`, `cache` | the table in the binary, `spvCheckpoints`, `spvVerified` |
| `Kept`, `LoadTable`, `Clean` | `reconcileCheckpoints`, and the save that prunes the store |
| `ReadTip`, `Partition`, `FetchProof`, `FetchHash`, `FetchRun` | the awaits of `verifyMinedAncestry`, one by one |
| `FromSegments`, `ValidRun`, `Vouched`, `Judge` | `from_segments`, `validate_run`, `verify_pack` with `header_at` and `compute_merkle_root` |
| `Recall`, `Record`, `Harvest`, `Save` | `recordVerified`, the harvest and its save |
| `CallExtend`, `ReadTip`, `FetchEpoch`, `Save` | `catchUpCheckpoints` and `extendLocalCheckpoints` |
| `Update`, `EndWorker`, `Fail` | a release with a longer table, the browser, a failed request |

Abstractions. A run of headers is fetched one by one, but one that links is the chain below
its last header, so it is read in one step (and `Fail` is the run that does not link). A
merkle root identifies its block. The network is signet, the only one with a baked table:
no proof of work, no difficulty, one confirmation. Witnesses and groups are taken in any
order. The server is honest about the chain it follows; the chain is what changes, and a chain that
was left does not come back (the blocks of a reorganisation are new).

### Runs

| run | instance | shows |
| --- | --- | --- |
| `mined_ancestry` | two witnesses, one check, one extension, six blocks, epochs of two, a reorganisation of one block | the properties below |
| `skipped_witness`, `nothing_to_check` | the same | the counterexamples of section 10 |

Bounds. `MaxHeight` gives two epochs above the baked one, so the store can have a gap, a
run can be over its cap and a release can overtake the store; `MaxReorgs` is one, and one
block deep (`MaxDepth`), which is less than `BuryDepth`: deeper ones the code excludes.
`K < BURY_DEPTH <= EPOCH` and `MAX_HEADER_RUN` just above `EPOCH` are kept. The
constraint `OneEach` puts the witnesses in blocks of their own. No fairness is assumed.

### Properties

* `TableIsOneChain`: no two checkpoints of a table, stored or in a call's hands, are rivals. (A
  table may still be one chain that the server has left: section 10.)
* `TableHasNoGap`: no epoch is missing below its frontier, whichever save came last.
* `AcceptedIsMined`: what is accepted was mined, on one chain at one moment: when a run of
  headers was read, or, for what was skipped, when it was skipped, if no reorganisation had
  touched it. Tip, proof and block hash come from other moments.
* `MinedIsAccepted`: a check that nothing disturbs accepts deep witnesses within a run of the
  table, if there are any to check and the table is on the chain. Both provisos are places where
  the code refuses what it says it accepts (section 10).

## 7. Unlock guard

`UnlockGuard.tla` models the guard part of `unlock()` and of `createWallet()` in `store.ts`,
called from any number of windows that show `Lock.tsx`, against one entry in `storage.local`,
with what `unlock()` does after it has cleared the guard.

| model | code |
| --- | --- |
| `guard` | the `unlockGuard` entry: failures, and the time left of `lockedUntil` |
| `pc`, `held` | where each window's call is, and the guard it works from: what it read, then what it writes |
| `wait` | `lockMs`: the window's button is disabled so long |
| `Submit`, `Answers` | `submit()` in `Lock.tsx` |
| `Read`, `ReadFails` | `readGuard()`; its `catch` answers that there is no guard |
| `Fails`, `Bumped`, `LockoutFor` | the failed decryption, the guard after it, `lockoutFor()` |
| `Write`, `WriteFails`, `Lands` | `writeGuard()`; its `catch` gives no lockout |
| `Decrypts`, `Clear`, `ClearFails` | the right password, `clearGuard()` |
| `Opens`, `Throws` | the upgrades, `openStock()` and `persistSession()` behind it, or an exception of one, or of the vault's read: `submit()` has no `finally`, and the screen stays busy (`stuck`) |
| `Create`, `holding`, `replaced` | `createWallet()` over the stored wallet, which clears the guard too: it gets there only in a popup that still has the first one's stock, and afterwards the vault may not open the stock on disk |
| `Remount` | "Set up a new wallet" and back: a new lock screen in the same popup |
| `Open`, `Close`, `Tick` | the browser, the user, the clock |
| `owed`, `failures`, `since`, `stale`, `lapsed` | history: what the guard ought to hold |

Abstractions. A point in time is the time left to it, and `Tick` counts all of them down. A
password is right or wrong; there is a vault from the start. A closed window's
write may still land. Whether the stock of a replaced wallet can be opened by the time it is tried
belongs to `Session` and is left open here. The wipe is left out (`WIPE_AFTER_FAILS` is 0).

| run | instance | shows |
| --- | --- | --- |
| `unlock_guard` | two windows, two free tries, steps of 1 and 2, four wrong guesses, one failed call or request | all the properties below |

Bounds. Two windows overlap; four guesses reach the first lockout, the last step and the
clamp behind it; one failure at any of its places (421,559 states). The theorems have no such
bound.

Fairness. Time passes, a call goes on, and the owner, who knows the password, enters it
whenever the button allows it. Nobody else is fair.

* `NoEarlyLockout`: nobody is locked out before `FreeTries` failures, whatever overlaps or fails;
  and, unless a count was lost or written over, not before that many since the guard was cleared.
* `GuessesWait`: no password is tried, in any window, before every lockout imposed is over;
  `EveryFailureLocks`: from the `FreeTries`-th on, each failure since the last right password
  locks. Both except a guard that a failed storage call lost (`lapsed`) and calls that worked
  from a guard another call had changed since (`stale`): the code excludes neither, and the
  two properties do not catch such an overlap, they say that nothing else goes wrong.
* `OwnerGetsIn`: if the owner keeps a window open from some point on, and no screen of it is left
  busy by an exception, the wallet opens there. An exception is exactly what the code does not
  recover from (section 10).

## 8. Sign findings

`SignFindings.tla` models the export of a sale's consignment (`createTransfer()`), then one
sign request from `buildSignRequest()` with `deriveRgbDelta()` and the Rust readers behind
it, to `finalize()`.

| model | code |
| --- | --- |
| `holds`, `known` | the allocations of the worker's stock at the wallet's outpoints, the contracts it lists |
| `At`, `Of`, `Worth`, `Scan` | an allocation's outpoint, contract, amount and place in the stock's list; an outpoint may have several |
| `Outpoints`, `Anchors` | the wallet's outpoints of the keychains 0, 1 and 10; those of keychain 10 |
| `unlocked` | the worker has the key and the stock |
| `offers`, `Offer`, `Picked`, `Before`, `Chosen` | exported consignments: the allocations `createTransfer()` picks, largest first, equals as the stock lists them, and their outpoints |
| `Requests` | the PSBT: own inputs, the sign of the BTC delta, payout and receive outputs; the intent: consignment and expected txid |
| `Sales`, `Deliveries` | the `saleConsignment`: none, an invalid one, one the wallet exported, or another valid one and the own outpoints among its terminals |
| `SignInputs`, `SpentAnchors` | the inputs that get signed, of every keychain; those that the gates and the row look at, of keychain 10 |
| `OpenStock`, `Decode` | `decodePsbt()`, `decode_psbt` with `ownedAddresses()` |
| `Deliver`, `Value` | the two halves of `deriveRgbDelta()`: what comes in, what goes out |
| `Verify`, `QuoteFindings` | `verifyMinedAncestry()` and its `catch`; the swap-leg gates |
| `Name` | the anti-sweep gate, `consignment_outpoints` |
| `Decide`, `Sign` | the decision; `finalize()` and `signPsbt()` |
| `LockOrUnlock`, `Drain` | what other tasks do at each await |

Abstractions. A consignment is what it proves: whether it validates, what it delivers to the
receive seals, whether its history is mined. That the terminals of an export are the chosen
outpoints is taken from the RGB libraries (as `lib.rs:610-622` does). The legs and fee on the screen are left
out, and so are the dust and the exact amounts of BTC. A delivery is worth 1, less than what
any outpoint loses or equal to it.

| run | instance | shows |
| --- | --- | --- |
| `sign_findings` | two anchors and an outpoint of keychain 0, five allocations of two contracts, all plausible requests, one offer, two locks, one change of the stock | all the properties below |

Bounds. `Plausible` holds buys, sales and sends with and without change, under a quote,
against one or without one, and everything that may be wrong with a consignment, one thing
at a time. `Shares` starts the stock with two contracts, with two allocations at one anchor (the
amount 3 then takes one there and one elsewhere, though the anchor has that much), or with
RGB at keychain 0; `Deliveries` has one consignment of somebody else's that names an anchor.
`OffersFirst`: an export after the request only adds to the offers. `TwoEvents`: a lock and an
unlock, or one of them and a drain. That gives 1.8 million states. A request ends
(`CHECK_DEADLOCK FALSE`); no fairness.

* `SignedIsVetted`: whatever fails, locks or arrives between the awaits, a signature that pays
  against a receive seal has a valid consignment that delivers, no unconfirmed history goes with
  it, and a quote is kept.
* `SaleIsOffered`: a signature with a sale consignment spends no anchor that it does not name; and
  with one the wallet exported, none but what one `createTransfer()` chose. That the
  consignment is an export is not checked by the code (section 10).
* `RiskIsShown`: spending RGB at keychain 10 with no consignment carries the warning.
* `ShownIsMoved`: the RGB row names what moves, never more in the wallet's favour than the
  signature moves, of all that it signs. This and the one before except a stock that changed
  after the anchors were valued; this one also requests with several contracts, and stocks
  with RGB at a signed input of keychain 0 or 1 (section 10).
* `HonestIsNotBlocked`: a request with nothing wrong in it is blocked only if a read failed, by which
  is meant also that `verifyMinedAncestry` gave no answer.
* `OfferIsTight`: what is offered covers the amount, and no allocation in it could be left out. An
  outpoint could (section 10).

## 9. Proofs

`ImportQueueProofs.tla` proves, for any items, witnesses, `MaxAttempts > 0` and number
of faults, under the two assumptions on constants of `ImportQueue`
(`QueueAssumption`, `SentinelAssumption`: the sentinels are not items or stocks):

* `TypeCorrect`: `Spec => []TypeOK`. `attempts` is bounded by `MaxAttempts + 1`, which
  is not inductive: the code counts from the snapshot. `TypeInv` adds that a snapshot
  is never behind the stored item (`SnapBudget`), a skipped item is not in it, and
  that the item about to be put has budget left (`DrainShape`).
* `SpendableOnlyIfMined`: `Spec => []MinedOrdIsMined`. `MinedInv` adds that a fetched
  status is never ahead of the chain and that a promotion is decided on mined witnesses.
* `ConfirmedIsFinal`, `WatchedIsAbsorbed`: from `StockInv`: a status read as unconfirmed
  is of a witness no copy of the stock counts as mined (`FreshStatus`), memory is never
  behind the disk (`NothingForgotten`, `OneCopy`), and what an operation has to have done
  is done before its patch (`WorkDone`).
* `RevertIsTrue`: `Spec => RevertArchives`, from the same invariant.
* `StockIsLedger`: `Spec => LedgerSpec`, the refinement: the write of `PersistDone` moves
  each witness as `WitnessLedger` allows, everything else stutters or moves the chain.
  `LedgerIsSound` says what that is worth: every behaviour of the ledger counts as mined only
  what is, and undoes and forgets nothing.
* `RetriesArePaidFor`: `Spec => []RetriesAreForFaults`. The attempts of an item are bounded by the
  faults so far, and one more may be unpaid when it has just been accepted. What a patch will write
  comes from the snapshot, so `RetryInv` says the same of the snapshot (`SnapEarned`: and strictly less if
  the key was lost since, as the next step of the drain will fail), of a failure about to be
  written (`FailurePaid`) and of the item in `patch`'s hands (`BufEarned`).
* `ValidIsNotGivenUp`: assuming `2 * MaxFaults < MaxAttempts`, no valid item is `failed` with its
  budget spent. With the code's `MAX_ATTEMPTS` of 8 it takes four faults to give up one. It is the safe
  half of `MinedIsConfirmed`: until an item is confirmed, the drain will always try it again.
* `EndIsFinal`: `Spec => EndedIsFinal`, from `EndedInv`: no item still in the snapshot has ended
  (`SnapOpen`): only the drain ends items, with the last patch of each, and it then has done with it;
  the patch before it writes `importing` (`BufImports`).

`ApprovalProofs.tla` proves, for any requests, origins and ids, under `RequestAssumption`:

* `TypeCorrect`: `Spec => []TypeOK`.
* `WaitingCanBeAnswered`: `WaitingIsAttended`, for `DistinctIds`; given `Slots` and `ShownIsOwn` below it
  is inductive. It is the safe half of `WaitingIsAnswered`, and says what fairness then
  turns into an answer.
* `NothingIsLost`, `ConnectComesFirst`, `RequestsAreRegistered`: `RegistryIsExact`,
  `AdmittedWasConnected` and `RegisterSpec`, each for `DistinctIds`. They share `ApprovalInv`:
  a map's slot holds a waiting request with that id (`Slots`) of its own kind (`Kinds`); a
  window shows its own request only (`ShownIsOwn`); an approval in flight, or a request
  past it, has consent or comes from a page (`ConsentFirst`); and the list in storage, with everything
  `markConnected` has read of it, holds approved origins only (`OriginsApproved`). None of these
  follows from the properties, and each is needed: `ConsentFirst` to grant, `OriginsApproved`
  for a `MarkPut` that writes what it read long before.
* `RegisterIsSound`: every behaviour of the register grants only with an approval and no veto, and
  never changes an answer; with `RequestsAreRegistered`, so does the worker.
* `QuietPagesNeedConsent`: from both, a request whose approval no page posts is granted only with
  the user's consent, given on a screen that showed it, and no blocking finding.

`SessionProofs.tla` proves, for any tasks, keys, items and number of events, under
`SessionAssumption` and `SentinelAssumption` (`None` is no key):

* `TypeCorrect`: `Spec => []TypeOK`, from `TypeInv`, which adds what a call holds at each await.
* `LockIsHeld`: `LockHoldsUnlessRestoring`, from `LockInv`: after a lock that no `restoreSession`
  had got ahead of, there is no live entry and no call is inside `restoreSession`, until the next
  password: a call enters it on a live entry only.
* `VaultOpensItsStock`, `SessionIsTheVaults`: `OneWalletOpens` and `SessionIsVaults`, from
  `WalletInv`: until a second wallet is begun, or a creation tried again over the stock that
  one left in memory when it threw, everything is in one of two states: before the
  vault is stored only the creating call has keys, and from then on every key in a
  realm, an entry, a seal or a call is the vault's.
* `AbsorbedStays`: `KeptUnlessStale`, from `KeptInv`: what was reported is on disk, in the stock the
  worker has loaded, and in whatever a `persist` of the worker is sealing.

`MinedAncestryProofs.tla` and `MinedWitnessProofs.tla` prove, for any witnesses and groups,
epoch, burial and depth and any number of blocks, reorganisations, faults and releases, under
`MinedAncestryAssumption` and `SentinelAssumption`:

* `TypeCorrect`: `Spec => []TypeOK`.
* `TablesAreOneChain`, `TablesHaveNoGap`: `TableIsOneChain` and `TableHasNoGap`. Neither is
  inductive: a release (`Update`) puts a new baked block under a store, and calls, that may
  know its rival. `TableInv` adds that every set of checkpoints the store, or a call, has or
  is about to save is, over the baked table it began with, one chain with every epoch below its frontier
  (`Good`, per await: `PlaceOK`, `HandsOK`, `RunsOK`). Nothing missing below a frontier is
  what makes a release safe: a store that reaches above the release's height has a block at
  that height, and either it is the same one or reconciling drops all of them. And only a run
  from the frontier can reach the next epoch, so a harvest adds the next one, or none.
* `AcceptedWasMined`: `AcceptedIsMined`, from `WitnessInv` on top: a transaction is in one block
  (`Once`), and what a call or the cache keeps of a witness, its height or its proof, is true of the
  chain unless the witness has been dropped (`HeightsOK`, `WitnessOK`).
* `MinedWasAccepted`: `MinedIsAccepted`, assuming `Confs = 1`, which is `recommended_confs()` of
  signet, the network modelled. From `CalmInv`: what an undisturbed call holds is what there is
  (the table, the tip, each proof and block, and runs that are prefixes of the chain and reach
  all witnesses of their group), and no block below the first checkpoint confirms a witness, so
  there is a checkpoint below each. With `Confs > 1` the property does not hold: two segments can
  overlap, and the later one, though shorter, wins (section 10).

`UnlockGuardProofs.tla` proves, for any windows, steps and number of guesses and faults, under
`GuardAssumption`: `TypeCorrect`; `LockoutIsEarned` (`NoEarlyLockout`), from `CountsOK`: no
count, stored or in a call's hands, exceeds the failures there were, and, for its second
half, from `Tracks`; `LockoutsAreKept`
(`GuessesWait`) and `FailuresLock` (`EveryFailureLocks`), from `Tracks`: unless it lapsed, the
guard holds exactly the failures since it was cleared and the time that is owed, and so
does what a call has read and is not stale.

`SignFindingsProofs.tla` proves, for any outpoints, allocations, contracts, requests and
consignments and any number of locks, drains and offers: `SignaturesAreVetted` (`SignedIsVetted`)
and `SalesAreOffered` (`SaleIsOffered`), from `VettingInv`: from each gate on, the request has
what the gate asks or a finding that blocks it; and `SaleIsExported`: a sale consignment
of the wallet's own names what one of the offers chose. That findings are never taken back is
why the order of the gates, and what fails between them, does not matter.

`SignAmountProofs.tla` proves the rest of it, where amounts are added up, from
`FindingsAssumption` (there are finitely many allocations and contracts, and no two allocations
have one place in the list). A sum over a set is a recursion on
CHOOSE, so `SetInduction`, an induction over the subsets of a finite set that speaks of a set and
not of a predicate, first gives `SumExists`, `SumIsUnique` and `SumRemove` (any element could
have been taken first). Then:

* `TypeCorrect`: `Spec => []TypeOK`, with `StockInv`: what the stock holds, it lists.
* `OffersAreTight` (`OfferIsTight`): what is taken before the last allocation falls short
  (`LastOne`), and the last one is the least.
* `HonestPasses`, `RiskIsWarned`, `RowIsMoved` (`HonestIsNotBlocked`, `RiskIsShown`,
  `ShownIsMoved`), from `ReadInv`: what has been read by each place of the build, and that it is the
  stock's as long as the stock has not changed since. With one contract, and none of it at a
  signed input of another keychain, the sum of the row is over the allocations that move.

Only model-checked: the four liveness properties `MinedIsConfirmed`, `DroppedIsNoticed`,
`WaitingIsAnswered` and `OwnerGetsIn`, because fairness and ENABLED are out of TLAPS's reach. Every
invariant, action property and refinement of the passing runs is proved.

Not stated at all: that a popup which shows its home screen has the key and the stock. It holds of one
call at a time, but an onboarding and an unlock that overlap, reached by leaving one screen for
the other, break it; nothing in the repository says they may not.

## 10. Findings

* `import_phantom` / `RevertedIsNotHeld`: an item that was absorbed, then failed one
  status request (so `failed`), then dropped, is reported as reverted while the stock
  keeps its tentative allocation, for good: `processItem` archives only for the states
  `tentative` and `importing`, and reverted items are skipped. The header of
  `import-queue.ts` promises "a true revert, not just a UI flag".

* `sign_window_hang` / `PromisesResolved`: a sign window closed without a decision leaves the
  page's promise unsettled for as long as the worker lives; only connect windows are
  recorded in `connectWindows`. `messages.ts` says every call's promise is resolved.
* `wallet_recreate` / `VaultOpensStock`: create a wallet, press Back under the recovery phrase,
  then "Set up a new wallet" and create again: `openStock` finds the first wallet's stock in memory and
  persists nothing, the vault is replaced, and from then on `unlock` and `restoreSession` throw.
  `createWallet` says that its `openStock` ensures a stock is persisted under the new key. A
  creation whose last write fails (`store.ts:568`) and that is sent again from the same form
  (`Onboarding.tsx:42-46`) ends in the same way, with only one wallet ever stored.
* `session_relock` / `LockHolds`: a `restoreSession` that read the entry before a lock writes it
  back after it, and the wallet is unlocked again. `background.ts` says every context
  re-locks.
* `skipped_witness` / `SkippedIsMined`: the cache takes a witness's height when it is one block deep and
  later counts its burial from there to the frontier. After a one-block reorganisation that
  drops the witness, the frontier of the new chain buries it, and it is never looked at again.
* `nothing_to_check` / `NothingToCheckIsAccepted`: with every witness cached (or exempt, as for the first
  sale from a genesis allocation) there are no segments, `from_segments` is an error on an
  empty list, and the request is blocked.

Met while modelling, not given a run:

* A boundary block becomes a checkpoint as soon as it is the tip. If it is reorganised away,
  every extension and every check of a later witness throws "checkpoint mismatch", and nothing
  removes it until a release bakes that height: reconcile compares with the baked table
  only. `checkpoint-extend.ts:9` says it "drops anything inconsistent on read",
  `spv-verify.ts:87` that a stale store "self-heals on use".
* `docs/spv-consignment-verification.md` says that with an empty local store "verification still works with
  a longer run"; `MAX_HEADER_RUN` (`esplora.ts:120`) refuses a run longer than an epoch and 64.
* `spv-verify.ts:137` calls the segments disjoint. A run goes `K` blocks past its highest witness, so it can
  hold the next checkpoint's blocks, with its own top as theirs, and the later of two segments
  wins: with `K > 1` (not signet) a deep witness there may be reported unmined.

* `openStock` is called "idempotent", but two calls that overlap load two stocks. What was
  absorbed into the first is missing from the second, and the next `persist` makes that
  permanent; the queue's item says confirmed. A `persist` under way across a lock and an unlock
  does the same. (`AbsorbedIsKept` in `Session` states the claim without the exception.)
* The popup keeps the stock it has loaded. When an item is confirmed, `Home.tsx:58` re-pulls the
  assets ("the stock changed under us"), but from the popup's own old copy.
* If the popup closes between `createWallet`'s stock and its vault, the stock stays sealed under a
  lost key, and creating a wallet fails from then on.
* `signingKey` trusts the worker's cached key: a lock in the popup or an expired session does not
  reach it, though `finalize` says a session that locked ends in `sign_failed`.
* `accountBalances` opens the stock without asking for the key first: a fresh worker with a
  valid session answers zero balances.
* `markConnected` reads and writes in two calls: of two origins approved together one is lost.
* `docs/threat-model.md:74-75` says that the origin shown "is the real sender origin, not a
  dApp-supplied string". The worker takes `msg.origin` (`background.ts:164`, `216`, `273-276`), which
  `inject.ts:44` and `56` put into the message. The model's `OriginOf` is the one that is named.
* The content script relays messages of every kind, and the worker's listener sends the popup's
  kinds to `handlePopup` without looking at the sender (`content-script.ts:9-13`,
  `background.ts:150-157`): a decision need not come from a window of the wallet's.
* `connectWindows` learns of a window when `windows.create` answers (`background.ts:260-262`). If the
  close event comes first, the connect is not settled by it, though the comment at `58-59`
  says that it is, "not a hang".

* The comment on the guard says the first `LOCK_FREE_TRIES` wrong guesses are free
  (`store.ts:139`); the fifth failure locks, and so only four are.
* Two windows that guess together: the later write puts back the count it read before the
  other's, so a failure is lost, and a lockout the other one imposed is erased. A failed
  storage call has the same effect; that one the code intends ("fail open").
* After `clearGuard` the rest of `unlock` may throw (`store.ts:332-341`), as may its read of the
  vault. `submit()` in `Lock.tsx:38-40` resets `busy` only when `unlock` returns: the screen stays
  busy, with no message, until it is left or closed.
* The RGB row names one contract. Its label is set by what comes in and then by what goes out:
  the first contract the stock lists, whether or not it has a balance at the spent outpoints
  (`lib.rs:487`), while the amounts of all contracts are added up.
* The gates and the row consider inputs and outputs of keychain 10 only (`rgb-delta.ts:78`,
  `background.ts:379`). `store.ts:475` says that an allocation "can sit on any keychain", and inputs of 0
  and 1 are signed too (`lib.rs:339-345`): RGB there moves without a row or a warning. The
  comment at `rgb-delta.ts:14` says that a plain BTC send "moves no RGB".
* `lib.rs:622` speaks of "a consignment the dApp can't forge". The anti-sweep gate takes any valid one
  and compares with its terminals, whoever exported it and when: one that once delivered to the
  wallet names an outpoint that no `createTransfer` chose.
* `createTransfer` weighs allocations and not outpoints (`store.ts:673-684`, `lib.rs:782-794`): with 3 and 3
  at one outpoint and 5 at another, the amount 6 takes the 5 and a 3 and so names both, though
  the first would do.
* Nothing is read again between the build and the signature: an allocation that the drain accepts at
  a spent anchor while the user looks at the screen is spent without a row or a warning.
* A lock between `openStock` and the derivation of the addresses makes the PSBT look like
  somebody else's: the row says nothing moves. It does no harm, as nothing is then signed.
* The payout gate asks for BTC back at an output of the wallet's; the dust on its own RGB
  change output satisfies it. `rgb-delta.ts` says "We never hard-refuse"; `background.ts`
  blocks on what it finds.
* `openStock` reads its three blobs in three transactions; a `persist` of the other realm in
  between yields a stock of two versions. `restoreSession` removes an entry it found expired, though
  an unlock may have written a new one since. `kvPutAll` has no `onabort` handler: a
  write the browser aborts is never answered, and neither is the drain that waits for it.

* A lock in the middle of a drain makes `openStock` throw, which costs the item an
  attempt; the comment at `import-queue.ts:12-15` says no attempt is burned while locked.
* `patch` re-reads "to avoid clobbering a concurrent write" but in a transaction of its
  own: a dismissal between its read and its write is undone.
* `enqueue` can re-arm an item that the drain confirmed between its read and its write.
* A failed request for a watched item counts against the cap of failed accepts, so an
  item can end `failed` though no accept of it ever failed.

## 11. Not modelled

Key material, password strength and cryptography; the screens and their wording; the
page's side of the provider relay; the broker client and SDK types (the direct `signPsbt` always
throws); consensus validation inside the RGB libraries (a consignment validates or does not);
balances as the screens show them (reads without state); `wipeWallet`, which a constant
disables, and the upgrades of legacy formats; build and CI scripts; hashing, proof of work and
difficulty in the SPV checks, which signet does not use.
