--------------------------- MODULE MinedAncestry ---------------------------
(***************************************************************************)
(* The SPV check of a consignment's witnesses (src/wallet/spv-verify.ts),  *)
(* the checkpoint store it anchors to and the task that extends that store *)
(* (checkpoint-reconcile.ts, checkpoint-extend.ts), over one chain that    *)
(* grows and reorganises between any two requests.                         *)
(*                                                                         *)
(* A block is the chain up to it, as its hash commits to all before it: a  *)
(* block's height is its length and a checkpoint is a block.  The server   *)
(* answers from its best chain.  A run of headers is read in one step: one *)
(* that links was the server's chain when its last header was read.  The   *)
(* network is signet, so headers carry no proof of work.                   *)
(***************************************************************************)
EXTENDS Naturals, Sequences, Functions

CONSTANTS
  Witnesses,   \* witness transactions
  Verifiers,   \* sign requests whose consignment can be checked at one time
  Extenders,   \* alarms and worker starts that can extend at one time
  Epoch,       \* EPOCH, RETARGET_INTERVAL
  RunCap,      \* MAX_HEADER_RUN
  Confs,       \* recommended_confs()
  BuryDepth,   \* BURY_DEPTH
  MaxEpochs,   \* MAX_EPOCHS_PER_WAKE
  MaxHeight,   \* bound: blocks
  MaxReorgs,   \* bound: reorganisations
  MaxDepth,    \* no reorganisation is deeper
  None

ASSUME MinedAncestryAssumption ==
  /\ Verifiers \cap Extenders = {}
  /\ {Epoch, RunCap, Confs, BuryDepth, MaxEpochs, MaxDepth} \subseteq Nat \ {0}
  /\ Confs < Epoch /\ Epoch < RunCap
  /\ {MaxHeight, MaxReorgs} \subseteq Nat
  /\ Epoch <= MaxHeight

Tasks == Verifiers \cup Extenders

\* What tells a block from its rivals: the reorganisation that brought it, and the
\* witnesses it confirms.
Contents == [fork : 0 .. MaxReorgs, txs : SUBSET Witnesses]
Blocks == {b \in Seq(Contents) : Len(b) <= MaxHeight}
Heights == 0 .. MaxHeight

ASSUME SentinelAssumption == None \notin Blocks /\ None # "mined"

VARIABLES
  chain,    \* the server's best chain
  baked,    \* the table in the binary
  local,    \* spvCheckpoints in storage.local
  cache,    \* spvVerified in storage.local: a witness's height, 0 if it has none
  task,     \* the calls in flight, and the last answer of each verifier
  seen,     \* history: witnesses Confs deep when they were skipped or headers were read
  dropped,  \* history: witnesses a reorganisation took out of their block
  calm      \* history: nothing but this call has happened since the call

history == <<seen, dropped, calm>>
vars == <<chain, baked, local, cache, task, history>>

Points == {"idle", "loading", "cleaning", "tip", "partition", "proving", "hashing",
           "running", "recalling", "recording", "saving", "done"}
Runs == [cp : Blocks, top : Blocks]  \* segments: the headers from cp to top
Idle == [pc |-> "idle", want |-> {}, kept |-> {}, tip |-> 0, skip |-> {},
         proof |-> [w \in Witnesses |-> None], anchor |-> [w \in Witnesses |-> None],
         runs |-> <<>>, recalled |-> [w \in Witnesses |-> 0], add |-> {}, left |-> 0,
         answer |-> None]

TaskOK(f) ==
  /\ DOMAIN f = DOMAIN Idle
  /\ f.pc \in Points
  /\ f.want \subseteq Witnesses /\ f.skip \subseteq f.want
  /\ f.kept \subseteq Blocks /\ f.add \subseteq Blocks /\ f.runs \in Seq(Runs)
  /\ f.tip \in Heights /\ f.left \in 0 .. MaxEpochs
  /\ f.proof \in [Witnesses -> Blocks \cup {None}] /\ f.anchor \in [Witnesses -> Blocks \cup {None}]
  /\ f.recalled \in [Witnesses -> Heights]
  /\ f.answer \in {None, "mined", "refused", "threw"}

TypeOK ==
  /\ chain \in Blocks
  /\ baked \subseteq Blocks /\ local \subseteq Blocks
  /\ \A c \in baked \cup local : Len(c) % Epoch = 0
  /\ cache \in [Witnesses -> Heights]
  /\ DOMAIN task = Tasks /\ \A t \in Tasks : TaskOK(task[t])
  /\ seen \in [Verifiers -> SUBSET Witnesses]
  /\ dropped \subseteq Witnesses
  /\ calm \in [Verifiers -> BOOLEAN]

----------------------------------------------------------------------------
\* Blocks and tables.

BlockAt(h) == SubSeq(chain, 1, h)
Linked(a, b) == Len(a) <= Len(b) /\ SubSeq(b, 1, Len(a)) = a

HeightIn(b, w) == CHOOSE h \in 1 .. Len(b) : w \in b[h].txs
Confirmed(b) == UNION {b[h].txs : h \in 1 .. Len(b)}
Deep(b) == {w \in Confirmed(b) : Len(b) + 1 >= HeightIn(b, w) + Confs}

\* bakedCheckpoints is never empty here, so neither table is.
Frontier(table) == CHOOSE c \in table : \A d \in table : Len(d) <= Len(c)
Nearest(table, h) == Frontier({c \in table : Len(c) <= h})

\* Mutant: a conflict with the baked table is not looked for.
KeptUnchecked(cps) == {c \in cps : \A b \in baked : b # c}

\* reconcileCheckpoints(): baked wins; a conflict drops all from its height up, and
\* what is kept is above every baked height, so above every conflict.
Kept(cps) ==
  IF \E c \in cps, b \in baked : Len(b) = Len(c) /\ b # c
    THEN {}
    ELSE {c \in cps : Len(c) > Len(Frontier(baked))}

Table(t) == baked \cup task[t].kept

Init ==
  /\ chain = [h \in 1 .. Epoch |-> [fork |-> 0, txs |-> {}]]
  /\ baked = {chain}
  /\ local = {}
  /\ cache = [w \in Witnesses |-> 0]
  /\ task = [t \in Tasks |-> Idle]
  /\ seen = [v \in Verifiers |-> {}]
  /\ dropped = {}
  /\ calm = [v \in Verifiers |-> FALSE]

At(t, point) == task[t].pc = point
Running(v) == task[v].pc \notin {"idle", "done"}

Answers(v, a) ==
  task' = [task EXCEPT ![v] = [Idle EXCEPT !.pc = "done", !.want = task[v].want,
                                           !.skip = task[v].skip, !.answer = a]]
\* The call throws: buildSignRequest blocks the request, catchUpCheckpoints waits for
\* the next alarm.
Throws(t) ==
  IF t \in Verifiers THEN Answers(t, "threw") ELSE task' = [task EXCEPT ![t] = Idle]

Disturbs(t) == calm' = [v \in Verifiers |-> calm[v] /\ v = t]
Storage == <<baked, local, cache>>

----------------------------------------------------------------------------
\* The chain, external to the wallet.

ChainBecomes(b) ==
  /\ Len(b) <= MaxHeight
  /\ chain' = b
  /\ calm' = [v \in Verifiers |-> FALSE]
  /\ UNCHANGED <<Storage, task, seen>>

Mine(txs) ==
  /\ txs \cap Confirmed(chain) = {}
  /\ ChainBecomes(Append(chain, [fork |-> chain[Len(chain)].fork, txs |-> txs]))
  /\ UNCHANGED dropped

\* The best chain loses its d top blocks to a longer one, which confirms txs.
Reorg(d, txs) ==
  LET base == BlockAt(Len(chain) - d)
      fork == chain[Len(chain)].fork + 1
      lost == Confirmed(chain) \ Confirmed(base)
      rival == [i \in 1 .. d + 1 |-> [fork |-> fork, txs |-> IF i = 1 THEN txs ELSE {}]]
  IN /\ d <= Len(chain) - Len(Frontier(baked))
     /\ fork <= MaxReorgs
     /\ txs \subseteq lost
     /\ ChainBecomes(base \o rival)
     /\ dropped' = dropped \cup lost

----------------------------------------------------------------------------
\* Both tasks: the table is read and reconciled, then the tip is asked.

CallVerify(v, witnesses) ==
  /\ v \in Verifiers /\ ~Running(v)
  /\ task' = [task EXCEPT ![v] = [Idle EXCEPT !.pc = "loading", !.want = witnesses]]
  /\ seen' = [seen EXCEPT ![v] = {}]
  /\ calm' = [calm EXCEPT ![v] = TRUE]
  /\ UNCHANGED <<chain, Storage, dropped>>

CallExtend(e) ==
  /\ e \in Extenders /\ At(e, "idle")
  /\ task' = [task EXCEPT ![e] = [Idle EXCEPT !.pc = "loading", !.left = MaxEpochs]]
  /\ UNCHANGED <<chain, Storage, history>>

LoadTable(t) ==
  /\ At(t, "loading")
  /\ task' = [task EXCEPT ![t].kept = Kept(local),
                          ![t].pc = IF t \in Verifiers /\ Kept(local) # local THEN "cleaning" ELSE "tip"]
  /\ UNCHANGED <<chain, Storage, history>>

\* The reconciled set is persisted, over whatever the store holds by now.
Clean(t) ==
  /\ At(t, "cleaning")
  /\ local' = task[t].kept
  /\ task' = [task EXCEPT ![t].pc = "tip"]
  /\ Disturbs(t)
  /\ UNCHANGED <<chain, baked, cache, seen, dropped>>

ReadTip(t) ==
  /\ At(t, "tip")
  /\ IF t \in Verifiers
       THEN task' = [task EXCEPT ![t].tip = Len(chain), ![t].pc = "partition"]
       ELSE task' = [task EXCEPT ![t] = IF Len(Frontier(Table(t))) + Epoch > Len(chain)
                                          THEN Idle ELSE [@ EXCEPT !.pc = "running"]]
  /\ UNCHANGED <<chain, Storage, history>>

----------------------------------------------------------------------------
\* verifyMinedAncestry().

\* partitionByCache(): against the validated frontier.
Buried(v, heights) ==
  {w \in task[v].want :
     heights[w] # 0 /\ Len(Frontier(Table(v))) + 1 >= heights[w] + BuryDepth}

Checked(v) == task[v].want \ task[v].skip
Anchored(v) == {w \in Checked(v) : task[v].anchor[w] # None}
NextPoint(v, anchored) == IF anchored = Checked(v) THEN "running" ELSE "proving"

Partition(v) ==
  /\ At(v, "partition")
  /\ LET skip == Buried(v, cache) IN
     /\ task' = [task EXCEPT ![v].skip = skip,
                             ![v].pc = IF skip = task[v].want THEN "running" ELSE "proving"]
     /\ seen' = [seen EXCEPT ![v] = Deep(chain) \cap skip]
  /\ UNCHANGED <<chain, Storage, dropped, calm>>

\* A witness's merkle proof names its block by height.
FetchProof(v, w) ==
  /\ At(v, "proving")
  /\ w \in Checked(v) \ Anchored(v)
  /\ IF w \in Confirmed(chain) /\ HeightIn(chain, w) <= task[v].tip
          /\ \E c \in Table(v) : Len(c) <= HeightIn(chain, w)
       THEN task' = [task EXCEPT ![v].proof[w] = BlockAt(HeightIn(chain, w)), ![v].pc = "hashing"]
       ELSE Throws(v)
  /\ UNCHANGED <<chain, Storage, history>>

\* The hash of the block at that height, asked for after the proof.
FetchHash(v, w) ==
  /\ At(v, "hashing")
  /\ task[v].proof[w] # None /\ task[v].anchor[w] = None
  /\ task' = [task EXCEPT ![v].anchor[w] = BlockAt(Len(task[v].proof[w])),
                          ![v].pc = NextPoint(v, Anchored(v) \cup {w})]
  /\ UNCHANGED <<chain, Storage, history>>

\* groups: the witnesses of each checkpoint.
CheckpointOf(v, w) == Nearest(Table(v), Len(task[v].anchor[w]))
Group(v, c) == {w \in Checked(v) : CheckpointOf(v, w) = c}
Groups(v) == {CheckpointOf(v, w) : w \in Checked(v)}
RunTop(v, c) ==
  LET highest == CHOOSE h \in {Len(task[v].anchor[w]) : w \in Group(v, c)} :
                   \A w \in Group(v, c) : Len(task[v].anchor[w]) <= h
  IN IF highest + Confs <= task[v].tip THEN highest + Confs ELSE task[v].tip

Segments(v) == Range(task[v].runs)

\* fetchHeaderRun() of one group; it refuses a run over its cap.
FetchRun(v, c) ==
  LET to == RunTop(v, c)
      fetched == Append(task[v].runs, [cp |-> c, top |-> BlockAt(to)])
  IN /\ v \in Verifiers /\ At(v, "running")
     /\ c \in Groups(v) \ {r.cp : r \in Segments(v)}
     /\ IF to - Len(c) + 1 <= RunCap
          THEN task' = [task EXCEPT ![v].runs = fetched]
          ELSE Throws(v)
     /\ seen' = [seen EXCEPT ![v] = @ \cup (Deep(chain) \cap Checked(v))]
     /\ UNCHANGED <<chain, Storage, dropped, calm>>

\* validate_run(): from the checkpoint, each header on the one before.
ValidRun(r) == Linked(r.cp, r.top)

\* Mutant: the checkpoint's own block is not entered.
HoldsAbove(r, b) == Len(r.cp) < Len(b) /\ Linked(b, r.top)

Holds(r, b) == Len(r.cp) <= Len(b) /\ Linked(b, r.top)

\* Mutant: the proof is folded against nothing but itself.
VouchedByHeight(v, w) ==
  \E r \in Segments(v) :
    /\ Len(r.cp) <= Len(task[v].anchor[w]) /\ Len(task[v].anchor[w]) <= Len(r.top)
    /\ Len(r.top) + 1 >= Len(task[v].anchor[w]) + Confs

\* compute_merkle_root() from the proof gives the root in a block's header: a merkle root
\* is one block's.
RootIs(v, w, b) == task[v].proof[w] = b

\* verify_pack() and header_at(): the block is in a validated run at the claimed height,
\* Confs deep in the last such run, and its merkle root is that of the proof.
Vouched(v, w) ==
  LET b == task[v].anchor[w]
      runs == task[v].runs
  IN \E i \in DOMAIN runs :
       /\ Holds(runs[i], b)
       /\ \A j \in DOMAIN runs : Holds(runs[j], b) => j <= i
       /\ Len(runs[i].top) + 1 >= Len(b) + Confs
       /\ RootIs(v, w, b)

\* from_segments(): every run validates, and there is one.
FromSegments(v) == task[v].runs # <<>> /\ \A r \in Segments(v) : ValidRun(r)

\* verify_consignment_spv_segments().
Judge(v) ==
  /\ v \in Verifiers /\ At(v, "running")
  /\ {r.cp : r \in Segments(v)} = Groups(v)
  /\ CASE ~FromSegments(v) -> Throws(v)
       [] FromSegments(v) /\ (\A w \in Checked(v) : Vouched(v, w)) ->
            task' = [task EXCEPT ![v].pc = "recalling"]
       [] OTHER -> Answers(v, "refused")
  /\ UNCHANGED <<chain, Storage, history>>

\* recordVerified() reads the cache, merges and writes it.
Recall(v) ==
  /\ At(v, "recalling")
  /\ task' = [task EXCEPT ![v].recalled = cache, ![v].pc = "recording"]
  /\ UNCHANGED <<chain, Storage, history>>

\* Mutant: every block of a run is harvested.
BoundariesAll(b, low) == {SubSeq(b, 1, h) : h \in low .. Len(b)}

\* epoch_checkpoints() of the validated runs, above the frontier.
Boundaries(b, low) == {SubSeq(b, 1, h) : h \in {i \in low .. Len(b) : i % Epoch = 0}}
Harvest(v) ==
  {c \in UNION {Boundaries(r.top, Len(r.cp)) : r \in Segments(v)} :
     Len(c) > Len(Frontier(Table(v)))}

Record(v) ==
  /\ At(v, "recording")
  /\ cache' = [w \in Witnesses |-> IF w \in Checked(v) THEN Len(task[v].anchor[w])
                                                       ELSE task[v].recalled[w]]
  /\ IF Harvest(v) = {}
       THEN Answers(v, "mined")
       ELSE task' = [task EXCEPT ![v].add = Harvest(v), ![v].pc = "saving"]
  /\ Disturbs(v)
  /\ UNCHANGED <<chain, baked, local, seen, dropped>>

----------------------------------------------------------------------------
\* extendLocalCheckpoints(), and the store both tasks write.

\* One epoch's run from the frontier, validated: its upper boundary is to be added.
FetchEpoch(e) ==
  LET from == Frontier(Table(e))
      to == Len(from) + Epoch
  IN /\ e \in Extenders /\ At(e, "running")
     /\ IF Linked(from, BlockAt(to))
          THEN task' = [task EXCEPT ![e].add = {BlockAt(to)}, ![e].pc = "saving"]
          ELSE Throws(e)
     /\ UNCHANGED <<chain, Storage, history>>

\* Mutant: only what is new is written.
SaveAdded(t) ==
  /\ At(t, "saving")
  /\ local' = task[t].add
  /\ Throws(t)
  /\ Disturbs(t)
  /\ UNCHANGED <<chain, baked, cache, seen, dropped>>

\* What was kept when the table was read, and what is new.
Save(t) ==
  /\ At(t, "saving")
  /\ local' = task[t].kept \cup task[t].add
  /\ IF t \in Verifiers
       THEN Answers(t, "mined")
       ELSE task' = [task EXCEPT ![t] = IF @.left > 1
              THEN [Idle EXCEPT !.pc = "loading", !.left = task[t].left - 1] ELSE Idle]
  /\ Disturbs(t)
  /\ UNCHANGED <<chain, baked, cache, seen, dropped>>

----------------------------------------------------------------------------
\* Failures and restarts.

\* A request or a storage call fails: the call throws, and what it would have answered
\* is not known.  A harvest that does not save is not fatal.
Fail(t) ==
  /\ task[t].pc \notin {"idle", "done"}
  /\ IF t \in Verifiers /\ At(t, "saving")
       THEN Answers(t, "mined")
       ELSE task' = [task EXCEPT ![t] = Idle]
  /\ calm' = [v \in Verifiers |-> calm[v] /\ v # t]
  /\ UNCHANGED <<chain, Storage, seen, dropped>>

Restart ==
  /\ task' = [t \in Tasks |-> Idle]
  /\ seen' = [v \in Verifiers |-> {}]
  /\ calm' = [v \in Verifiers |-> FALSE]
  /\ UNCHANGED <<chain, local, cache, dropped>>

EndWorker == Restart /\ UNCHANGED baked

\* A release with one more epoch in its table, one no reorganisation reaches.
Update ==
  LET h == Len(Frontier(baked)) + Epoch IN
  /\ h + MaxDepth <= Len(chain)
  /\ baked' = baked \cup {BlockAt(h)}
  /\ Restart

Proceed(t) ==
  \/ LoadTable(t) \/ Clean(t) \/ ReadTip(t)
  \/ Partition(t) \/ Judge(t) \/ Recall(t) \/ Record(t)
  \/ \E w \in Witnesses : FetchProof(t, w) \/ FetchHash(t, w)
  \/ \E c \in Table(t) : FetchRun(t, c)
  \/ FetchEpoch(t) \/ Save(t)

Next ==
  \/ \E txs \in SUBSET Witnesses : Mine(txs) \/ \E d \in 1 .. MaxDepth : Reorg(d, txs)
  \/ \E v \in Verifiers, s \in SUBSET Witnesses : CallVerify(v, s)
  \/ \E e \in Extenders : CallExtend(e)
  \/ \E t \in Tasks : Proceed(t) \/ Fail(t)
  \/ EndWorker \/ Update

Spec == Init /\ [][Next]_vars

----------------------------------------------------------------------------
\* Properties.

\* The table that a call anchors to, from the store or in the call's hands, is one
\* chain: no two checkpoints of it are rivals, whatever was read before a
\* reorganisation, a release or another call's save and written after it.
IsOneChain(table) == \A c, d \in table : Linked(c, d) \/ Linked(d, c)
TableIsOneChain ==
  /\ IsOneChain(baked \cup Kept(local))
  /\ \A t \in Tasks : IsOneChain(Table(t) \cup task[t].add)

\* No epoch is missing from it, so the nearest checkpoint stays "at most one epoch
\* below" (checkpoint-extend.ts) what is below the frontier.
TableHasNoGap ==
  LET table == baked \cup Kept(local) IN
  \A h \in Epoch .. Len(Frontier(table)) : h % Epoch = 0 => \E c \in table : Len(c) = h

\* A consignment is accepted only if each witness checked was Confs deep in the chain
\* the server had when a run of headers was read, though the tip, the proof and the
\* block's hash came from earlier moments; and each one skipped was Confs deep in the
\* chain when it was skipped, unless a reorganisation has ever touched it.  (The run is
\* not always its own group's: header_at() takes the last segment that holds the block.)
AcceptedIsMined ==
  \A v \in Verifiers : task[v].answer = "mined" =>
    /\ Checked(v) \subseteq seen[v]
    /\ task[v].skip \subseteq seen[v] \cup dropped

\* "A cached witness now >= BURY_DEPTH confirmations deep is trusted (reorg-safe)"
\* (verified-witness-cache.ts): one that is skipped is mined.  It need not be: the
\* height was recorded when the witness was Confs deep, and the depth is that of the
\* frontier, which may be on the other side of a reorganisation.
SkippedIsMined ==
  \A v \in Verifiers : task[v].answer = "mined" => task[v].skip \subseteq seen[v]

\* Where an undisturbed call can reach everything it has to check.
Reachable(v) ==
  LET table == baked \cup Kept(local) IN
  \A w \in Checked(v) :
    /\ w \in Deep(chain)
    /\ HeightIn(chain, w) + Confs - Len(Nearest(table, HeightIn(chain, w))) < RunCap

\* Mined history is not refused: a call during which nothing else happens accepts a
\* consignment whose witnesses to check are all deep and within a run of the table,
\* provided there is one and no stored checkpoint has left the chain.
MinedIsAccepted ==
  \A v \in Verifiers :
    /\ At(v, "done") /\ calm[v]
    /\ \A c \in baked \cup Kept(local) : Linked(c, chain)
    /\ Checked(v) # {} /\ Reachable(v)
    => task[v].answer = "mined"

\* "Skipped ones are exempted from the wasm check; we re-verify the rest" (spv-verify.ts):
\* with no rest, the consignment is accepted.  It is not: from_segments() rejects.
NothingToCheckIsAccepted ==
  \A v \in Verifiers :
    At(v, "done") /\ calm[v] /\ task[v].skip # {} /\ Checked(v) = {} =>
      task[v].answer = "mined"
=============================================================================
