------------------------- MODULE MinedWitnessProofs -------------------------
(***************************************************************************)
(* Proofs about MinedAncestry, for any constants, under                    *)
(* MinedAncestryAssumption and SentinelAssumption: an accepted witness was *)
(* mined, on one chain at one moment; and, where one confirmation is       *)
(* enough, mined history is accepted by a call that nothing disturbs.      *)
(*                                                                         *)
(* A height, once read, outlives the block it was read from: what is kept  *)
(* of a witness is true of the chain as long as no reorganisation dropped  *)
(* it, and AcceptedIsMined excepts what was skipped and dropped, no more.  *)
(* An undisturbed call holds what there is, so the last run that holds a   *)
(* witness's block vouches for it; with more than one confirmation that run *)
(* may be too short.                                                       *)
(***************************************************************************)
EXTENDS MinedAncestryProofs

----------------------------------------------------------------------------
\* The invariant, over a chain b and the witnesses d that were dropped from it.

\* A witness is in one block.
Once(b) == \A i, j \in 1 .. Len(b) : b[i].txs \cap b[j].txs # {} => i = j

\* A witness that was read at height h is there still, or was dropped.
StillIn(b, d, w, h) == w \in d \/ (h \in 1 .. Len(b) /\ w \in b[h].txs)

\* A recorded height was Confs deep when it was recorded.
HeightsOK(b, d, heights) ==
  \A w \in Witnesses : heights[w] # 0 =>
    StillIn(b, d, w, heights[w]) /\ Len(b) + 1 >= heights[w] + Confs

\* What a call has read of each witness, and s, what it has seen.
WitnessOK(b, d, f, s) ==
  /\ \A w \in Witnesses : f.proof[w] # None =>
       StillIn(b, d, w, Len(f.proof[w])) /\ w \in f.proof[w][Len(f.proof[w])].txs
  /\ \A i \in DOMAIN f.runs :
       /\ Once(f.runs[i].top) /\ Len(f.runs[i].top) <= Len(b)
       /\ Deep(f.runs[i].top) \cap (f.want \ f.skip) \subseteq s
  /\ f.pc \in {"recalling", "recording"} =>
       \A w \in f.want \ f.skip : Len(b) + 1 >= Len(f.anchor[w]) + Confs
  /\ f.pc \in {"recalling", "recording", "saving"} \/ f.answer = "mined" =>
       f.want \ f.skip \subseteq s
  /\ HeightsOK(b, d, f.recalled)
  /\ f.skip \subseteq s \cup d
  /\ f.pc # "done" => f.answer = None

WitnessInv ==
  /\ Once(chain)
  /\ HeightsOK(chain, dropped, cache)
  /\ \A v \in Verifiers : WitnessOK(chain, dropped, task[v], seen[v])

LEMMA VerifierFacts ==
  ASSUME TableInv, NEW v \in Verifiers
  PROVE  v \in Tasks /\ v \notin Extenders
BY MinedAncestryAssumption DEF Tasks

\* In a block that has each witness once, where it is found is where it is.
LEMMA FoundWhereItIs ==
  ASSUME NEW b \in Blocks, Once(b), NEW h \in 1 .. Len(b), NEW w \in b[h].txs
  PROVE  w \in Confirmed(b) /\ HeightIn(b, w) = h
<1>1. w \in Confirmed(b)
  BY DEF Confirmed
<1>2. HeightIn(b, w) \in 1 .. Len(b) /\ w \in b[HeightIn(b, w)].txs
  BY <1>1, HeightFacts
<1> QED
  BY <1>1, <1>2 DEF Once

LEMMA PrefixOnce ==
  ASSUME NEW b \in Blocks, Once(b), NEW h \in Nat, h <= Len(b)
  PROVE  Once(SubSeq(b, 1, h)) /\ Deep(SubSeq(b, 1, h)) \subseteq Deep(b)
<1> DEFINE a == SubSeq(b, 1, h)
<1>1. a \in Blocks /\ Len(a) = h /\ \A i \in 1 .. h : a[i] = b[i]
  BY PrefixFacts
<1>2. Len(b) \in Nat
  BY BlockFacts
<1> HIDE DEF a
<1>3. \A i \in 1 .. h : i \in 1 .. Len(b)
  BY <1>2
<1>4. Once(a)
  BY <1>1, <1>3 DEF Once
<1>5. Deep(a) \subseteq Deep(b)
  <2> SUFFICES ASSUME NEW w \in Deep(a)
               PROVE  w \in Deep(b)
    OBVIOUS
  <2>1. w \in Confirmed(a) /\ Len(a) + 1 >= HeightIn(a, w) + Confs
    BY DEF Deep
  <2>2. HeightIn(a, w) \in 1 .. h /\ w \in a[HeightIn(a, w)].txs
    BY <1>1, <2>1, HeightFacts
  <2>3. w \in Confirmed(b) /\ HeightIn(b, w) = HeightIn(a, w)
    BY <1>1, <1>3, <2>2, FoundWhereItIs
  <2>4. Len(b) + 1 >= HeightIn(b, w) + Confs
    BY <1>1, <1>2, <2>1, <2>2, <2>3, Constants
  <2> QED
    BY <2>3, <2>4 DEF Deep
<1> QED
  BY <1>4, <1>5 DEF a

LEMMA InitWitness == Init => WitnessInv
<1> SUFFICES ASSUME Init
             PROVE  WitnessInv
  OBVIOUS
<1>1. Once(chain)
  <2>1. Len(chain) = Epoch /\ \A i \in 1 .. Epoch : chain[i].txs = {}
    BY Constants DEF Init
  <2> QED
    BY <2>1 DEF Once
<1>2. HeightsOK(chain, dropped, cache)
  BY DEF Init, HeightsOK
<1>3. \A v \in Verifiers : task[v] = Idle
  BY DEF Init, Tasks
<1>4. \A v \in Verifiers : WitnessOK(chain, dropped, task[v], seen[v])
  BY <1>3, IdleFields DEF WitnessOK, HeightsOK
<1> QED
  BY <1>1, <1>2, <1>4 DEF WitnessInv

----------------------------------------------------------------------------
\* The chain.

\* What was read of a witness is still so when the chain has grown, or it was dropped.
LEMMA WitnessesStay ==
  ASSUME NEW b \in Blocks, NEW c \in Blocks, Len(b) <= Len(c), NEW d, NEW e, d \subseteq e,
         \A w \in Witnesses : \A h \in 1 .. Len(b) :
           w \in b[h].txs => StillIn(c, e, w, h)
  PROVE  /\ \A w \in Witnesses : \A h : StillIn(b, d, w, h) => StillIn(c, e, w, h)
         /\ \A heights \in [Witnesses -> Heights] :
              HeightsOK(b, d, heights) => HeightsOK(c, e, heights)
<1>1. \A w \in Witnesses : \A h : StillIn(b, d, w, h) => StillIn(c, e, w, h)
  BY DEF StillIn
<1>2. Len(b) \in Nat /\ Len(c) \in Nat
  BY BlockFacts
<1>3. ASSUME NEW heights \in [Witnesses -> Heights], HeightsOK(b, d, heights)
      PROVE  HeightsOK(c, e, heights)
  <2> SUFFICES ASSUME NEW w \in Witnesses, heights[w] # 0
               PROVE  StillIn(c, e, w, heights[w]) /\ Len(c) + 1 >= heights[w] + Confs
    BY DEF HeightsOK
  <2>1. StillIn(b, d, w, heights[w]) /\ Len(b) + 1 >= heights[w] + Confs
    BY <1>3 DEF HeightsOK
  <2>2. heights[w] \in Nat
    BY Constants DEF Heights
  <2> QED
    BY <1>1, <1>2, <2>1, <2>2, Constants
<1> QED
  BY <1>1, <1>3

LEMMA ChainWitness ==
  ASSUME TableInv, WitnessInv, NEW b \in Blocks, Len(chain) <= Len(b), chain' = b,
         UNCHANGED <<cache, task, seen>>, dropped \subseteq dropped', Once(b),
         \A w \in Witnesses : \A h \in 1 .. Len(chain) :
           w \in chain[h].txs => StillIn(b, dropped', w, h)
  PROVE  WitnessInv'
<1>1. /\ \A w \in Witnesses : \A h : StillIn(chain, dropped, w, h) => StillIn(b, dropped', w, h)
      /\ \A heights \in [Witnesses -> Heights] :
           HeightsOK(chain, dropped, heights) => HeightsOK(b, dropped', heights)
  BY WitnessesStay DEF TableInv, TypeOK
<1>2. Len(chain) \in Nat /\ Len(b) \in Nat
  BY BlockFacts DEF TableInv, TypeOK
<1>3. ASSUME NEW v \in Verifiers
      PROVE  WitnessOK(b, dropped', task[v], seen[v])
  <2> DEFINE f == task[v]
  <2>1. v \in Tasks /\ TaskInv(Len(chain), baked, v, f) /\ TaskOK(f)
    BY <1>3, TaskFacts, VerifierFacts
  <2>2. WitnessOK(chain, dropped, f, seen[v])
    BY <1>3 DEF WitnessInv
  <2> HIDE DEF f
  <2>3. \A w \in Witnesses : f.proof[w] # None =>
          StillIn(b, dropped', w, Len(f.proof[w])) /\ w \in f.proof[w][Len(f.proof[w])].txs
    BY <1>1, <2>2 DEF WitnessOK
  <2>4. \A i \in DOMAIN f.runs : Len(f.runs[i].top) <= Len(b)
    <3> TAKE i \in DOMAIN f.runs
    <3>1. f.runs[i] \in Runs
      BY <2>1 DEF TaskOK
    <3>2. Len(f.runs[i].top) \in Nat /\ Len(f.runs[i].top) <= Len(chain)
      BY <2>2, <3>1, BlockFacts DEF WitnessOK, Runs
    <3> QED
      BY <1>2, <3>2
  <2>5. f.pc \in {"recalling", "recording"} =>
          \A w \in f.want \ f.skip : Len(b) + 1 >= Len(f.anchor[w]) + Confs
    <3> SUFFICES ASSUME f.pc \in {"recalling", "recording"}, NEW w \in f.want \ f.skip
                 PROVE  Len(b) + 1 >= Len(f.anchor[w]) + Confs
      OBVIOUS
    <3>1. f.anchor[w] # None /\ w \in Witnesses
      BY <1>3, <2>1 DEF TaskInv, TaskOK, PlaceOK, Judging
    <3>2. Len(f.anchor[w]) \in Nat
      BY <2>1, <3>1, BlockFacts DEF TaskOK
    <3>3. Len(chain) + 1 >= Len(f.anchor[w]) + Confs
      BY <2>2 DEF WitnessOK
    <3> QED
      BY <1>2, <3>2, <3>3, Constants
  <2>6. HeightsOK(b, dropped', f.recalled)
    BY <1>1, <2>1, <2>2 DEF WitnessOK, TaskOK
  <2>7. f.skip \subseteq seen[v] \cup dropped'
    BY <2>2 DEF WitnessOK
  <2>8. WitnessOK(b, dropped', f, seen[v])
    BY <2>2, <2>3, <2>4, <2>5, <2>6, <2>7 DEF WitnessOK
  <2> QED
    BY <2>8 DEF f
<1>4. HeightsOK(b, dropped', cache)
  BY <1>1 DEF WitnessInv, TableInv, TypeOK
<1> QED
  BY <1>3, <1>4 DEF WitnessInv

LEMMA MineWitness ==
  ASSUME TableInv, WitnessInv, NEW txs \in SUBSET Witnesses, Mine(txs)
  PROVE  WitnessInv'
<1>1. /\ chain' \in Blocks /\ Len(chain') = Len(chain) + 1
      /\ \A i \in 1 .. Len(chain) : chain'[i] = chain[i]
      /\ chain'[Len(chain) + 1].txs = txs
  BY MineBlock
<1>2. Len(chain) \in Nat /\ chain \in Blocks
  BY TaskFacts, BlockFacts DEF TableInv, TypeOK
<1>3. UNCHANGED <<cache, task, seen, dropped>>
  BY DEF Mine, ChainBecomes, Storage
<1>4. \A i \in 1 .. Len(chain) : txs \cap chain[i].txs = {}
  BY DEF Mine, Confirmed
<1>5. Once(chain')
  <2> SUFFICES ASSUME NEW i \in 1 .. Len(chain'), NEW j \in 1 .. Len(chain'),
                      chain'[i].txs \cap chain'[j].txs # {}
               PROVE  i = j
    BY DEF Once
  <2>1. (i \in 1 .. Len(chain) \/ i = Len(chain) + 1) /\ (j \in 1 .. Len(chain) \/ j = Len(chain) + 1)
    BY <1>1, <1>2
  <2>2. CASE i \in 1 .. Len(chain) /\ j \in 1 .. Len(chain)
    BY <1>1, <2>2 DEF WitnessInv, Once
  <2>3. CASE i \in 1 .. Len(chain) /\ j = Len(chain) + 1
    BY <1>1, <1>4, <2>3
  <2>4. CASE i = Len(chain) + 1 /\ j \in 1 .. Len(chain)
    BY <1>1, <1>4, <2>4
  <2> QED
    BY <2>1, <2>2, <2>3, <2>4
<1>6. \A w \in Witnesses : \A h \in 1 .. Len(chain) :
        w \in chain[h].txs => StillIn(chain', dropped', w, h)
  BY <1>1, <1>2 DEF StillIn
<1> QED
  BY <1>1, <1>2, <1>3, <1>5, <1>6, ChainWitness

LEMMA ReorgWitness ==
  ASSUME TableInv, WitnessInv, NEW txs \in SUBSET Witnesses, NEW d \in 1 .. MaxDepth, Reorg(d, txs)
  PROVE  WitnessInv'
<1>1. PICK m \in Nat :
           /\ m < Len(chain)
           /\ chain' \in Blocks /\ Len(chain) < Len(chain')
           /\ \A i \in 1 .. m : chain'[i] = chain[i]
           /\ \A i \in m + 1 .. Len(chain') : chain'[i].txs = IF i = m + 1 THEN txs ELSE {}
           /\ txs \subseteq Confirmed(chain) \ Confirmed(BlockAt(m))
           /\ dropped' = dropped \cup (Confirmed(chain) \ Confirmed(BlockAt(m)))
  BY ReorgBlock
<1> DEFINE lost == Confirmed(chain) \ Confirmed(BlockAt(m))
<1>2. Len(chain) \in Nat /\ chain \in Blocks /\ Len(chain') \in Nat
  BY <1>1, TaskFacts, BlockFacts DEF TableInv, TypeOK
<1>3. UNCHANGED <<cache, task, seen>>
  BY DEF Reorg, ChainBecomes, Storage
<1>4. \A h \in 1 .. m : h \in 1 .. Len(chain) /\ h \in 1 .. Len(chain')
  BY <1>1, <1>2
<1>5. \A h \in 1 .. m : chain[h].txs \subseteq Confirmed(BlockAt(m))
  <2>1. Len(BlockAt(m)) = m /\ \A i \in 1 .. m : BlockAt(m)[i] = chain[i]
    BY <1>1, <1>2, PrefixFacts DEF BlockAt
  <2> QED
    BY <2>1 DEF Confirmed
<1>6. \A h \in 1 .. Len(chain) : h \in 1 .. m \/ chain[h].txs \subseteq lost
  <2> SUFFICES ASSUME NEW h \in 1 .. Len(chain), h \notin 1 .. m, NEW w \in chain[h].txs
               PROVE  w \in lost
    OBVIOUS
  <2>1. w \in Confirmed(chain)
    BY DEF Confirmed
  <2>2. w \notin Confirmed(BlockAt(m))
    <3>1. Len(BlockAt(m)) = m /\ \A i \in 1 .. m : BlockAt(m)[i] = chain[i]
      BY <1>1, <1>2, PrefixFacts DEF BlockAt
    <3>2. \A i \in 1 .. m : w \notin chain[i].txs
      BY <1>4 DEF WitnessInv, Once
    <3> QED
      BY <3>1, <3>2 DEF Confirmed
  <2> QED
    BY <2>1, <2>2
<1>7. \A i \in 1 .. Len(chain') : i \in 1 .. m \/ i \in m + 1 .. Len(chain')
  BY <1>2
<1>8. \A i \in 1 .. m : chain'[i].txs \cap txs = {}
  BY <1>1, <1>5
<1>9. Once(chain')
  <2> SUFFICES ASSUME NEW i \in 1 .. Len(chain'), NEW j \in 1 .. Len(chain'),
                      chain'[i].txs \cap chain'[j].txs # {}
               PROVE  i = j
    BY DEF Once
  <2>1. CASE i \in 1 .. m /\ j \in 1 .. m
    BY <1>1, <1>4, <2>1 DEF WitnessInv, Once
  <2>2. CASE i \in 1 .. m /\ j \in m + 1 .. Len(chain')
    BY <1>1, <1>8, <2>2
  <2>3. CASE i \in m + 1 .. Len(chain') /\ j \in 1 .. m
    BY <1>1, <1>8, <2>3
  <2>4. CASE i \in m + 1 .. Len(chain') /\ j \in m + 1 .. Len(chain')
    BY <1>1, <2>4
  <2> QED
    BY <1>7, <2>1, <2>2, <2>3, <2>4
<1>10. \A w \in Witnesses : \A h \in 1 .. Len(chain) :
         w \in chain[h].txs => StillIn(chain', dropped', w, h)
  <2> SUFFICES ASSUME NEW w \in Witnesses, NEW h \in 1 .. Len(chain), w \in chain[h].txs
               PROVE  StillIn(chain', dropped', w, h)
    OBVIOUS
  <2>1. CASE h \in 1 .. m
    BY <1>1, <1>4, <2>1 DEF StillIn
  <2>2. CASE h \notin 1 .. m
    BY <1>1, <1>6, <2>2 DEF StillIn
  <2> QED
    BY <2>1, <2>2
<1>11. Len(chain) <= Len(chain') /\ dropped \subseteq dropped'
  BY <1>1, <1>2
<1> QED
  BY <1>1, <1>3, <1>9, <1>10, <1>11, ChainWitness

----------------------------------------------------------------------------
\* The calls.

\* A step of one call: what it must leave in order.
LEMMA OneWitness ==
  ASSUME TableInv, WitnessInv, NEW t \in Tasks,
         \A u \in Tasks \ {t} : task'[u] = task[u],
         UNCHANGED <<chain, dropped>>,
         HeightsOK(chain, dropped, cache'),
         \A v \in Verifiers \ {t} : seen'[v] = seen[v],
         t \in Verifiers => WitnessOK(chain, dropped, task'[t], seen'[t])
  PROVE  WitnessInv'
<1>1. \A v \in Verifiers : WitnessOK(chain, dropped, task'[v], seen'[v])
  BY VerifierFacts DEF WitnessInv
<1> QED
  BY <1>1 DEF WitnessInv

\* A call that holds nothing, and has accepted only what was seen.
LEMMA ResetWitness ==
  ASSUME NEW t \in Tasks, NEW f, Reset(t, f), NEW b, NEW d, NEW s,
         f.pc # "done" => f.answer = None,
         f.answer = "mined" => f.want \ f.skip \subseteq s,
         f.skip \subseteq s \cup d
  PROVE  WitnessOK(b, d, f, s)
<1>1. \A w \in Witnesses : f.proof[w] = None /\ f.recalled[w] = 0
  BY DEF Reset
<1>2. DOMAIN f.runs = {} /\ f.pc \notin {"recalling", "recording", "saving"}
  BY DEF Reset
<1> QED
  BY <1>1, <1>2 DEF WitnessOK, HeightsOK

LEMMA IdleWitness ==
  ASSUME NEW t \in Tasks, NEW b, NEW d, NEW s
  PROVE  WitnessOK(b, d, Idle, s)
<1>1. \A w \in Witnesses : Idle.proof[w] = None /\ Idle.recalled[w] = 0
  BY IdleFields
<1>2. DOMAIN Idle.runs = {} /\ Idle.pc = "idle" /\ Idle.want = {} /\ Idle.skip = {}
  BY IdleFields
<1> QED
  BY <1>1, <1>2, IdleFields DEF WitnessOK, HeightsOK

LEMMA AnswersWitness ==
  ASSUME TableInv, WitnessInv, NEW v \in Verifiers, NEW a \in {"mined", "refused", "threw"},
         Answers(v, a), UNCHANGED <<chain, dropped>>,
         HeightsOK(chain, dropped, cache'),
         \A u \in Verifiers \ {v} : seen'[u] = seen[u], seen[v] \subseteq seen'[v],
         a = "mined" => Checked(v) \subseteq seen[v]
  PROVE  WitnessInv'
<1> DEFINE g == [Idle EXCEPT !.pc = "done", !.want = task[v].want,
                             !.skip = task[v].skip, !.answer = a]
<1>1. v \in Tasks
  BY VerifierFacts
<1>2. Reset(v, g)
  BY AnswerIsReset
<1>3. task'[v] = g /\ \A u \in Tasks \ {v} : task'[u] = task[u]
  BY <1>1, TaskFacts DEF Answers
<1>4. g.pc = "done" /\ g.want = task[v].want /\ g.skip = task[v].skip /\ g.answer = a
  BY IdleFields
<1>5. task[v].skip \subseteq seen[v] \cup dropped
  BY DEF WitnessInv, WitnessOK
<1>6. Checked(v) = task[v].want \ task[v].skip
  BY DEF Checked
<1> HIDE DEF g
<1>7. WitnessOK(chain, dropped, g, seen'[v])
  BY <1>1, <1>2, <1>4, <1>5, <1>6, ResetWitness
<1> QED
  BY <1>1, <1>3, <1>7, OneWitness

LEMMA ThrowsWitness ==
  ASSUME TableInv, WitnessInv, NEW t \in Tasks, Throws(t), UNCHANGED <<chain, dropped, cache>>,
         \A u \in Verifiers \ {t} : seen'[u] = seen[u],
         t \in Verifiers => seen[t] \subseteq seen'[t]
  PROVE  WitnessInv'
<1>1. HeightsOK(chain, dropped, cache')
  BY DEF WitnessInv
<1>2. CASE t \in Verifiers
  BY <1>1, <1>2, AnswersWitness DEF Throws
<1>3. CASE t \notin Verifiers
  <2>1. \A u \in Tasks \ {t} : task'[u] = task[u]
    BY <1>3, TaskFacts DEF Throws
  <2> QED
    BY <1>1, <1>3, <2>1, OneWitness
<1> QED
  BY <1>2, <1>3

\* A step of a call that reads nothing of a witness.
LEMMA ElsewhereWitness ==
  ASSUME TableInv, WitnessInv, NEW t \in Tasks,
         \A u \in Tasks \ {t} : task'[u] = task[u],
         UNCHANGED <<chain, dropped, cache, seen>>,
         t \in Verifiers =>
           /\ task'[t].want = task[t].want /\ task'[t].skip = task[t].skip
           /\ task'[t].proof = task[t].proof /\ task'[t].runs = task[t].runs
           /\ task'[t].recalled = task[t].recalled /\ task'[t].answer = task[t].answer
           /\ task'[t].pc \notin {"recalling", "recording", "saving"}
           /\ task[t].pc # "done"
  PROVE  WitnessInv'
<1>1. t \in Verifiers => WitnessOK(chain, dropped, task'[t], seen'[t])
  BY DEF WitnessInv, WitnessOK
<1> QED
  BY <1>1, OneWitness DEF WitnessInv

LEMMA CallVerifyWitness ==
  ASSUME TableInv, WitnessInv, NEW v \in Verifiers, NEW s \in SUBSET Witnesses, CallVerify(v, s)
  PROVE  WitnessInv'
<1> DEFINE g == [Idle EXCEPT !.pc = "loading", !.want = s]
<1>1. v \in Tasks
  BY VerifierFacts
<1>2. /\ task'[v] = g /\ \A u \in Tasks \ {v} : task'[u] = task[u]
      /\ UNCHANGED <<chain, dropped, cache>> /\ \A u \in Verifiers \ {v} : seen'[u] = seen[u]
  BY <1>1, TaskFacts DEF CallVerify, Storage
<1>3. /\ g.pc = "loading" /\ g.want = s /\ g.skip = {} /\ g.answer = None /\ g.runs = <<>>
      /\ \A w \in Witnesses : g.proof[w] = None /\ g.recalled[w] = 0
  BY IdleFields
<1>4. None # "mined"
  BY SentinelAssumption
<1> HIDE DEF g
<1>5. WitnessOK(chain, dropped, g, seen'[v])
  BY <1>3, <1>4 DEF WitnessOK, HeightsOK
<1> QED
  BY <1>1, <1>2, <1>5, OneWitness DEF WitnessInv

LEMMA CallExtendWitness ==
  ASSUME TableInv, WitnessInv, NEW e \in Extenders, CallExtend(e)
  PROVE  WitnessInv'
<1>1. e \in Tasks /\ e \notin Verifiers
  BY MinedAncestryAssumption DEF Tasks
<1>2. \A u \in Tasks \ {e} : task'[u] = task[u]
  BY TaskFacts DEF CallExtend
<1>3. UNCHANGED <<chain, dropped, cache, seen>>
  BY DEF CallExtend, Storage, history
<1> QED
  BY <1>1, <1>2, <1>3, ElsewhereWitness

LEMMA LoadTableWitness ==
  ASSUME TableInv, WitnessInv, NEW t \in Tasks, LoadTable(t)
  PROVE  WitnessInv'
<1>1. UNCHANGED <<chain, dropped, cache, seen>> /\ task[t].pc = "loading"
  BY DEF LoadTable, Storage, history, At
<1>2. /\ \A u \in Tasks \ {t} : task'[u] = task[u]
      /\ task'[t].pc \in {"cleaning", "tip"}
      /\ task'[t].want = task[t].want /\ task'[t].skip = task[t].skip
      /\ task'[t].proof = task[t].proof /\ task'[t].runs = task[t].runs
      /\ task'[t].recalled = task[t].recalled /\ task'[t].answer = task[t].answer
  BY TaskFacts, IdleFields DEF LoadTable
<1> QED
  BY <1>1, <1>2, ElsewhereWitness

LEMMA CleanWitness ==
  ASSUME TableInv, WitnessInv, NEW t \in Tasks, Clean(t)
  PROVE  WitnessInv'
<1>1. UNCHANGED <<chain, dropped, cache, seen>> /\ task[t].pc = "cleaning"
  BY DEF Clean, At
<1>2. /\ \A u \in Tasks \ {t} : task'[u] = task[u]
      /\ task'[t].pc = "tip"
      /\ task'[t].want = task[t].want /\ task'[t].skip = task[t].skip
      /\ task'[t].proof = task[t].proof /\ task'[t].runs = task[t].runs
      /\ task'[t].recalled = task[t].recalled /\ task'[t].answer = task[t].answer
  BY TaskFacts, IdleFields DEF Clean
<1> QED
  BY <1>1, <1>2, ElsewhereWitness

LEMMA ReadTipWitness ==
  ASSUME TableInv, WitnessInv, NEW t \in Tasks, ReadTip(t)
  PROVE  WitnessInv'
<1>1. UNCHANGED <<chain, dropped, cache, seen>> /\ task[t].pc = "tip"
  BY DEF ReadTip, Storage, history, At
<1>2. \A u \in Tasks \ {t} : task'[u] = task[u]
  BY TaskFacts DEF ReadTip
<1>3. t \in Verifiers =>
        /\ task'[t].pc = "partition"
        /\ task'[t].want = task[t].want /\ task'[t].skip = task[t].skip
        /\ task'[t].proof = task[t].proof /\ task'[t].runs = task[t].runs
        /\ task'[t].recalled = task[t].recalled /\ task'[t].answer = task[t].answer
  BY TaskFacts, IdleFields DEF ReadTip
<1> QED
  BY <1>1, <1>2, <1>3, ElsewhereWitness

\* What is skipped was recorded Confs deep, and is still where it was unless it was dropped.
LEMMA PartitionWitness ==
  ASSUME TableInv, WitnessInv, NEW t \in Tasks, Partition(t)
  PROVE  WitnessInv'
<1> DEFINE f == task[t]
           g == task'[t]
           skip == Buried(t, cache)
<1>1. TaskInv(Len(chain), baked, t, f) /\ TaskOK(f) /\ f.pc = "partition" /\ t \in Verifiers
  BY TaskFacts, OnlyVerifiers DEF Partition, At
<1>2. UNCHANGED <<chain, dropped, cache>> /\ seen' = [seen EXCEPT ![t] = Deep(chain) \cap skip]
  BY DEF Partition, Storage
<1>3. seen'[t] = Deep(chain) \cap skip /\ \A v \in Verifiers \ {t} : seen'[v] = seen[v]
  BY <1>1, <1>2, TaskFacts
<1>4. skip \subseteq f.want /\ f.want \subseteq Witnesses
  BY <1>1 DEF Buried, TaskOK
<1>5. /\ \A u \in Tasks \ {t} : task'[u] = task[u]
      /\ g.skip = skip /\ g.pc \in {"running", "proving"}
      /\ g.want = f.want /\ g.proof = f.proof /\ g.runs = f.runs
      /\ g.recalled = f.recalled /\ g.answer = f.answer
  BY TaskFacts, IdleFields DEF Partition
<1>6. skip \subseteq seen'[t] \cup dropped
  <2> SUFFICES ASSUME NEW w \in skip, w \notin dropped
               PROVE  w \in Deep(chain)
    BY <1>3
  <2>1. w \in Witnesses /\ cache[w] # 0
    BY <1>4 DEF Buried
  <2>2. StillIn(chain, dropped, w, cache[w]) /\ Len(chain) + 1 >= cache[w] + Confs
    BY <2>1 DEF WitnessInv, HeightsOK
  <2>3. cache[w] \in 1 .. Len(chain) /\ w \in chain[cache[w]].txs
    BY <2>2 DEF StillIn
  <2>4. w \in Confirmed(chain) /\ HeightIn(chain, w) = cache[w]
    BY <2>3, FoundWhereItIs, TaskFacts DEF WitnessInv
  <2> QED
    BY <2>2, <2>4 DEF Deep
<1>7. f.runs = <<>> /\ WitnessOK(chain, dropped, f, seen[t])
  BY <1>1 DEF TaskInv, PlaceOK, Judging, WitnessInv
<1> HIDE DEF f, g, skip
<1>8. DOMAIN g.runs = {} /\ g.answer = None /\ None # "mined"
  BY <1>1, <1>5, <1>7, SentinelAssumption DEF WitnessOK
<1>9. WitnessOK(chain, dropped, g, seen'[t])
  BY <1>5, <1>6, <1>7, <1>8 DEF WitnessOK
<1> QED
  BY <1>2, <1>3, <1>5, <1>9, OneWitness DEF WitnessInv, g

LEMMA FetchProofWitness ==
  ASSUME TableInv, WitnessInv, NEW t \in Tasks, NEW w \in Witnesses, FetchProof(t, w)
  PROVE  WitnessInv'
<1> DEFINE f == task[t]
           g == task'[t]
           h == HeightIn(chain, w)
<1>1. TaskInv(Len(chain), baked, t, f) /\ TaskOK(f) /\ f.pc = "proving" /\ t \in Verifiers
  BY TaskFacts, OnlyVerifiers DEF FetchProof, At
<1>2. UNCHANGED <<chain, dropped, cache, seen>>
  BY DEF FetchProof, Storage, history
<1>3. CASE Throws(t)
  BY <1>2, <1>3, ThrowsWitness
<1>4. CASE ~Throws(t)
  <2>1. w \in Confirmed(chain)
    BY <1>4 DEF FetchProof
  <2>2. h \in 1 .. Len(chain) /\ w \in chain[h].txs
    BY <2>1, HeightFacts, TaskFacts
  <2>3. Len(BlockAt(h)) = h /\ BlockAt(h)[h] = chain[h]
    <3> HIDE DEF h
    <3> QED
      BY <2>2, PrefixFacts, TaskFacts DEF BlockAt
  <2>4. /\ \A u \in Tasks \ {t} : task'[u] = task[u]
        /\ g.pc = "hashing" /\ g.proof = [f.proof EXCEPT ![w] = BlockAt(h)]
        /\ g.want = f.want /\ g.skip = f.skip /\ g.runs = f.runs
        /\ g.recalled = f.recalled /\ g.answer = f.answer
    BY <1>4, TaskFacts, IdleFields DEF FetchProof
  <2>5. WitnessOK(chain, dropped, f, seen[t])
    BY <1>1 DEF WitnessInv
  <2> HIDE DEF f, g, h
  <2>6. \A x \in Witnesses : g.proof[x] = IF x = w THEN BlockAt(h) ELSE f.proof[x]
    BY <1>1, <2>4 DEF TaskOK
  <2>7. StillIn(chain, dropped, w, Len(BlockAt(h))) /\ w \in BlockAt(h)[Len(BlockAt(h))].txs
    BY <2>2, <2>3 DEF StillIn
  <2>8. \A x \in Witnesses : g.proof[x] # None =>
          StillIn(chain, dropped, x, Len(g.proof[x])) /\ x \in g.proof[x][Len(g.proof[x])].txs
    <3> TAKE x \in Witnesses
    <3>1. CASE x = w
      BY <2>6, <2>7, <3>1
    <3>2. CASE x # w
      BY <2>5, <2>6, <3>2 DEF WitnessOK
    <3> QED
      BY <3>1, <3>2
  <2>9. WitnessOK(chain, dropped, g, seen[t])
    BY <1>1, <2>4, <2>5, <2>8 DEF WitnessOK
  <2> QED
    BY <1>2, <2>4, <2>9, OneWitness DEF WitnessInv, g
<1> QED
  BY <1>3, <1>4

LEMMA FetchHashWitness ==
  ASSUME TableInv, WitnessInv, NEW t \in Tasks, NEW w \in Witnesses, FetchHash(t, w)
  PROVE  WitnessInv'
<1>1. task[t].pc = "hashing" /\ t \in Verifiers
  BY TaskFacts, OnlyVerifiers DEF FetchHash, At
<1>2. UNCHANGED <<chain, dropped, cache, seen>>
  BY DEF FetchHash, Storage, history
<1>3. /\ \A u \in Tasks \ {t} : task'[u] = task[u]
      /\ task'[t].pc = NextPoint(t, Anchored(t) \cup {w})
      /\ task'[t].want = task[t].want /\ task'[t].skip = task[t].skip
      /\ task'[t].proof = task[t].proof /\ task'[t].runs = task[t].runs
      /\ task'[t].recalled = task[t].recalled /\ task'[t].answer = task[t].answer
  BY TaskFacts, IdleFields DEF FetchHash
<1>4. task'[t].pc \in {"proving", "running"}
  BY <1>3 DEF NextPoint
<1> QED
  BY <1>1, <1>2, <1>3, <1>4, ElsewhereWitness

LEMMA FetchRunWitness ==
  ASSUME TableInv, WitnessInv, NEW t \in Tasks, NEW c \in Table(t), FetchRun(t, c)
  PROVE  WitnessInv'
<1> DEFINE f == task[t]
           g == task'[t]
           to == RunTop(t, c)
           r == [cp |-> c, top |-> BlockAt(to)]
<1>1. TaskInv(Len(chain), baked, t, f) /\ TaskOK(f) /\ f.pc = "running" /\ t \in Verifiers
        /\ At(t, "running")
  BY TaskFacts DEF FetchRun, At
<1>2. UNCHANGED <<chain, dropped, cache>>
  BY DEF FetchRun, Storage
<1>3. /\ seen'[t] = seen[t] \cup (Deep(chain) \cap Checked(t))
      /\ \A v \in Verifiers \ {t} : seen'[v] = seen[v]
  BY <1>1, TaskFacts DEF FetchRun
<1>4. CASE Throws(t)
  BY <1>2, <1>3, <1>4, ThrowsWitness
<1>5. CASE ~Throws(t)
  <2>1. to \in Nat /\ to <= Len(chain)
    BY <1>1, RunTopFacts DEF FetchRun
  <2>2. Once(BlockAt(to)) /\ Deep(BlockAt(to)) \subseteq Deep(chain) /\ Len(BlockAt(to)) = to
    <3> HIDE DEF to
    <3> QED
      BY <2>1, PrefixOnce, PrefixFacts, TaskFacts DEF BlockAt, WitnessInv
  <2>3. /\ \A u \in Tasks \ {t} : task'[u] = task[u]
        /\ g.pc = f.pc /\ g.runs = Append(f.runs, r)
        /\ g.want = f.want /\ g.skip = f.skip /\ g.proof = f.proof
        /\ g.recalled = f.recalled /\ g.answer = f.answer
    BY <1>5, TaskFacts, IdleFields DEF FetchRun
  <2>4. r.top = BlockAt(to) /\ Checked(t) = f.want \ f.skip
    BY DEF Checked
  <2>5. WitnessOK(chain, dropped, f, seen[t])
    BY <1>1 DEF WitnessInv
  <2> HIDE DEF f, g, r, to
  <2>6. \A i \in DOMAIN g.runs :
          \/ i \in DOMAIN f.runs /\ g.runs[i] = f.runs[i]
          \/ g.runs[i] = r
    <3>1. f.runs \in Seq(Runs)
      BY <1>1 DEF TaskOK
    <3> QED
      BY <2>3, <3>1
  <2>7. \A i \in DOMAIN g.runs :
          /\ Once(g.runs[i].top) /\ Len(g.runs[i].top) <= Len(chain)
          /\ Deep(g.runs[i].top) \cap (g.want \ g.skip) \subseteq seen'[t]
    <3> TAKE i \in DOMAIN g.runs
    <3>1. CASE i \in DOMAIN f.runs /\ g.runs[i] = f.runs[i]
      BY <1>3, <2>3, <2>5, <3>1 DEF WitnessOK
    <3>2. CASE g.runs[i] = r
      BY <1>3, <2>1, <2>2, <2>3, <2>4, <3>2
    <3> QED
      BY <2>6, <3>1, <3>2
  <2>8. f.answer = None /\ None # "mined" /\ g.pc \notin {"recalling", "recording", "saving"}
          /\ f.skip \subseteq seen'[t] \cup dropped
    BY <1>1, <1>3, <2>3, <2>5, SentinelAssumption DEF WitnessOK
  <2>9. WitnessOK(chain, dropped, g, seen'[t])
    BY <2>3, <2>5, <2>7, <2>8 DEF WitnessOK
  <2> QED
    BY <1>2, <1>3, <2>3, <2>9, OneWitness DEF WitnessInv, g
<1> QED
  BY <1>4, <1>5

\* A witness that is vouched for was seen when the run that vouches for it was read.
LEMMA VouchedIsSeen ==
  ASSUME TableInv, WitnessInv, NEW v \in Verifiers, At(v, "running"),
         NEW w \in Checked(v), Vouched(v, w)
  PROVE  w \in seen[v] /\ Len(chain) + 1 >= Len(task[v].anchor[w]) + Confs
<1> DEFINE f == task[v]
           a == task[v].anchor[w]
<1>1. TaskInv(Len(chain), baked, v, f) /\ TaskOK(f) /\ f.pc = "running"
  BY TaskFacts, VerifierFacts DEF At
<1>2. w \in Witnesses /\ w \in f.want \ f.skip /\ a # None
  BY <1>1 DEF Checked, TaskOK, TaskInv, PlaceOK, Judging
<1>3. a \in Blocks /\ f.proof[w] # None /\ Len(a) = Len(f.proof[w]) /\ Len(a) \in 1 .. Len(chain)
  BY <1>1, <1>2 DEF TaskInv, PlaceOK, TaskOK
<1>4. WitnessOK(chain, dropped, f, seen[v])
  BY DEF WitnessInv
<1>5. PICK i \in DOMAIN f.runs :
        /\ Holds(f.runs[i], a) /\ Len(f.runs[i].top) + 1 >= Len(a) + Confs /\ RootIs(v, w, a)
  BY DEF Vouched
<1> DEFINE b == f.runs[i].top
<1>6. b \in Blocks /\ Linked(a, b) /\ Len(b) \in Nat /\ Len(b) <= Len(chain) /\ Once(b)
        /\ Deep(b) \cap (f.want \ f.skip) \subseteq seen[v]
  <2>1. f.runs[i] \in Runs
    BY <1>1 DEF TaskOK
  <2>2. b \in Blocks
    BY <2>1 DEF Runs
  <2>3. Linked(a, b)
    BY <1>5 DEF Holds
  <2> QED
    BY <1>4, <2>2, <2>3, BlockFacts DEF WitnessOK
<1>7. f.proof[w] = a
  BY <1>5 DEF RootIs
<1>8. w \in a[Len(a)].txs
  BY <1>2, <1>3, <1>4, <1>7 DEF WitnessOK
<1> HIDE DEF a, b, f
<1>9. Len(a) \in 1 .. Len(b) /\ a[Len(a)] = b[Len(a)]
  <2>1. Len(a) <= Len(b) /\ \A j \in 1 .. Len(a) : a[j] = b[j]
    BY <1>3, <1>6, LinkedIsPointwise
  <2>2. Len(a) \in Nat /\ Len(a) \in 1 .. Len(a)
    BY <1>3, BlockFacts
  <2> QED
    BY <1>6, <2>1, <2>2
<1>10. w \in Confirmed(b) /\ HeightIn(b, w) = Len(a)
  BY <1>6, <1>8, <1>9, FoundWhereItIs
<1>11. w \in Deep(b)
  BY <1>5, <1>10 DEF Deep, b
<1>12. Len(chain) + 1 >= Len(a) + Confs
  <2>1. Len(b) + 1 >= Len(a) + Confs /\ Len(a) \in Nat
    BY <1>3, <1>5, BlockFacts DEF b
  <2> QED
    BY <1>6, <2>1, TaskFacts, VerifierFacts, Constants
<1> QED
  BY <1>2, <1>6, <1>11, <1>12 DEF a, f

LEMMA JudgeWitness ==
  ASSUME TableInv, WitnessInv, NEW t \in Tasks, Judge(t)
  PROVE  WitnessInv'
<1> DEFINE f == task[t]
           g == task'[t]
<1>1. f.pc = "running" /\ t \in Verifiers /\ At(t, "running")
  BY DEF Judge, At
<1>2. UNCHANGED <<chain, dropped, cache, seen>>
  BY DEF Judge, Storage, history
<1>3. CASE Throws(t)
  BY <1>2, <1>3, ThrowsWitness
<1>4. CASE Answers(t, "refused")
  <2>1. HeightsOK(chain, dropped, cache')
    BY <1>2 DEF WitnessInv
  <2> QED
    BY <1>1, <1>2, <1>4, <2>1, AnswersWitness
<1>5. CASE (\A w \in Checked(t) : Vouched(t, w)) /\ task' = [task EXCEPT ![t].pc = "recalling"]
  <2>1. /\ \A u \in Tasks \ {t} : task'[u] = task[u]
        /\ g.pc = "recalling" /\ g.want = f.want /\ g.skip = f.skip /\ g.proof = f.proof
        /\ g.anchor = f.anchor /\ g.runs = f.runs
        /\ g.recalled = f.recalled /\ g.answer = f.answer
    BY <1>5, TaskFacts, IdleFields
  <2>2. \A w \in f.want \ f.skip : w \in seen[t] /\ Len(chain) + 1 >= Len(f.anchor[w]) + Confs
    BY <1>1, <1>5, VouchedIsSeen DEF Checked
  <2>3. WitnessOK(chain, dropped, f, seen[t])
    BY <1>1 DEF WitnessInv
  <2> HIDE DEF f, g
  <2>4. WitnessOK(chain, dropped, g, seen[t])
    BY <1>1, <2>1, <2>2, <2>3 DEF WitnessOK
  <2> QED
    BY <1>2, <2>1, <2>4, OneWitness DEF WitnessInv, g
<1> QED
  BY <1>3, <1>4, <1>5 DEF Judge

LEMMA RecallWitness ==
  ASSUME TableInv, WitnessInv, NEW t \in Tasks, Recall(t)
  PROVE  WitnessInv'
<1> DEFINE f == task[t]
           g == task'[t]
<1>1. f.pc = "recalling" /\ t \in Verifiers
  BY OnlyVerifiers DEF Recall, At
<1>2. UNCHANGED <<chain, dropped, cache, seen>>
  BY DEF Recall, Storage, history
<1>3. /\ \A u \in Tasks \ {t} : task'[u] = task[u]
      /\ g.pc = "recording" /\ g.recalled = cache /\ g.want = f.want /\ g.skip = f.skip
      /\ g.proof = f.proof /\ g.anchor = f.anchor /\ g.runs = f.runs /\ g.answer = f.answer
  BY TaskFacts, IdleFields DEF Recall
<1>4. WitnessOK(chain, dropped, f, seen[t]) /\ HeightsOK(chain, dropped, cache)
  BY <1>1 DEF WitnessInv
<1> HIDE DEF f, g
<1>5. WitnessOK(chain, dropped, g, seen[t])
  BY <1>1, <1>3, <1>4 DEF WitnessOK
<1> QED
  BY <1>2, <1>3, <1>5, OneWitness DEF WitnessInv, g

LEMMA RecordWitness ==
  ASSUME TableInv, WitnessInv, NEW t \in Tasks, Record(t)
  PROVE  WitnessInv'
<1> DEFINE f == task[t]
           g == task'[t]
<1>1. TaskInv(Len(chain), baked, t, f) /\ TaskOK(f) /\ f.pc = "recording" /\ t \in Verifiers
  BY TaskFacts, OnlyVerifiers DEF Record, At
<1>2. UNCHANGED <<chain, dropped, seen>>
  BY DEF Record
<1>3. WitnessOK(chain, dropped, f, seen[t])
  BY <1>1 DEF WitnessInv
<1>4. Checked(t) = f.want \ f.skip
  BY DEF Checked
<1>5. \A w \in Witnesses : cache'[w] = IF w \in Checked(t) THEN Len(f.anchor[w]) ELSE f.recalled[w]
  BY DEF Record
<1>6. CASE Harvest(t) = {}
  <2>1. Answers(t, "mined")
    BY <1>6 DEF Record
  <2>2. HeightsOK(chain, dropped, cache')
    <3> HIDE DEF f
    <3> SUFFICES ASSUME NEW w \in Witnesses, cache'[w] # 0
                 PROVE  StillIn(chain, dropped, w, cache'[w]) /\ Len(chain) + 1 >= cache'[w] + Confs
      BY DEF HeightsOK
    <3>1. CASE w \in Checked(t)
      <4>1. f.anchor[w] # None
        BY <1>1, <1>4, <3>1 DEF TaskInv, PlaceOK, Judging
      <4>2. f.proof[w] # None /\ Len(f.anchor[w]) = Len(f.proof[w])
        BY <1>1, <4>1 DEF TaskInv, PlaceOK
      <4> QED
        BY <1>1, <1>3, <1>4, <1>5, <3>1, <4>2 DEF WitnessOK
    <3>2. CASE w \notin Checked(t)
      BY <1>3, <1>5, <3>2 DEF WitnessOK, HeightsOK
    <3> QED
      BY <3>1, <3>2
  <2>3. Checked(t) \subseteq seen[t]
    BY <1>1, <1>3, <1>4 DEF WitnessOK
  <2> QED
    BY <1>1, <1>2, <2>1, <2>2, <2>3, AnswersWitness
<1>7. CASE Harvest(t) # {}
  <2>1. /\ \A u \in Tasks \ {t} : task'[u] = task[u]
        /\ g.pc = "saving" /\ g.want = f.want /\ g.skip = f.skip
        /\ g.proof = f.proof /\ g.anchor = f.anchor /\ g.runs = f.runs
        /\ g.recalled = f.recalled /\ g.answer = f.answer
    BY <1>7, TaskFacts, IdleFields DEF Record
  <2> HIDE DEF f, g
  <2>2. HeightsOK(chain, dropped, cache')
    <3> SUFFICES ASSUME NEW w \in Witnesses, cache'[w] # 0
                 PROVE  StillIn(chain, dropped, w, cache'[w]) /\ Len(chain) + 1 >= cache'[w] + Confs
      BY DEF HeightsOK
    <3>1. CASE w \in Checked(t)
      <4>1. f.anchor[w] # None
        BY <1>1, <1>4, <3>1 DEF TaskInv, PlaceOK, Judging
      <4>2. f.proof[w] # None /\ Len(f.anchor[w]) = Len(f.proof[w])
        BY <1>1, <4>1 DEF TaskInv, PlaceOK
      <4> QED
        BY <1>1, <1>3, <1>4, <1>5, <3>1, <4>2 DEF WitnessOK
    <3>2. CASE w \notin Checked(t)
      BY <1>3, <1>5, <3>2 DEF WitnessOK, HeightsOK
    <3> QED
      BY <3>1, <3>2
  <2>3. WitnessOK(chain, dropped, g, seen[t])
    BY <1>1, <1>3, <2>1 DEF WitnessOK
  <2> QED
    BY <1>2, <2>1, <2>2, <2>3, OneWitness DEF g
<1> QED
  BY <1>6, <1>7

LEMMA FetchEpochWitness ==
  ASSUME TableInv, WitnessInv, NEW t \in Tasks, FetchEpoch(t)
  PROVE  WitnessInv'
<1>1. t \notin Verifiers
  BY MinedAncestryAssumption DEF FetchEpoch
<1>2. UNCHANGED <<chain, dropped, cache, seen>>
  BY DEF FetchEpoch, Storage, history
<1>3. \A u \in Tasks \ {t} : task'[u] = task[u]
  BY <1>1, TaskFacts DEF FetchEpoch, Throws
<1> QED
  BY <1>1, <1>2, <1>3, ElsewhereWitness

LEMMA SaveWitness ==
  ASSUME TableInv, WitnessInv, NEW t \in Tasks, Save(t)
  PROVE  WitnessInv'
<1>1. UNCHANGED <<chain, dropped, cache, seen>> /\ task[t].pc = "saving"
  BY DEF Save, At
<1>2. CASE t \in Verifiers
  <2>1. Answers(t, "mined")
    BY <1>2 DEF Save
  <2>2. HeightsOK(chain, dropped, cache')
    BY <1>1 DEF WitnessInv
  <2>3. Checked(t) \subseteq seen[t]
    BY <1>1, <1>2 DEF WitnessInv, WitnessOK, Checked
  <2> QED
    BY <1>1, <1>2, <2>1, <2>2, <2>3, AnswersWitness
<1>3. CASE t \notin Verifiers
  <2>1. \A u \in Tasks \ {t} : task'[u] = task[u]
    BY <1>3, TaskFacts DEF Save
  <2> QED
    BY <1>1, <1>3, <2>1, ElsewhereWitness
<1> QED
  BY <1>2, <1>3

LEMMA FailWitness ==
  ASSUME TableInv, WitnessInv, NEW t \in Tasks, Fail(t)
  PROVE  WitnessInv'
<1>1. UNCHANGED <<chain, dropped, cache, seen>>
  BY DEF Fail, Storage
<1>2. HeightsOK(chain, dropped, cache')
  BY <1>1 DEF WitnessInv
<1>3. CASE t \in Verifiers /\ At(t, "saving")
  <2>1. Answers(t, "mined")
    BY <1>3 DEF Fail
  <2>2. Checked(t) \subseteq seen[t]
    BY <1>3 DEF WitnessInv, WitnessOK, Checked, At
  <2> QED
    BY <1>1, <1>2, <1>3, <2>1, <2>2, AnswersWitness
<1>4. CASE ~(t \in Verifiers /\ At(t, "saving"))
  <2>1. task'[t] = Idle /\ \A u \in Tasks \ {t} : task'[u] = task[u]
    BY <1>4, TaskFacts DEF Fail
  <2>2. WitnessOK(chain, dropped, Idle, seen'[t])
    BY IdleWitness
  <2> QED
    BY <1>1, <1>2, <2>1, <2>2, OneWitness
<1> QED
  BY <1>3, <1>4

LEMMA RestartWitness ==
  ASSUME TableInv, WitnessInv, Restart
  PROVE  WitnessInv'
<1>1. UNCHANGED <<chain, cache, dropped>> /\ \A v \in Verifiers : task'[v] = Idle
  BY VerifierFacts DEF Restart
<1>2. \A v \in Verifiers : WitnessOK(chain, dropped, Idle, seen'[v])
  BY VerifierFacts, IdleWitness
<1> QED
  BY <1>1, <1>2 DEF WitnessInv

LEMMA WitnessStep == TableInv /\ WitnessInv /\ [Next]_vars => WitnessInv'
<1> SUFFICES ASSUME TableInv, WitnessInv, [Next]_vars
             PROVE  WitnessInv'
  OBVIOUS
<1>1. ASSUME NEW txs \in SUBSET Witnesses, Mine(txs)
      PROVE  WitnessInv'
  BY <1>1, MineWitness
<1>2. ASSUME NEW txs \in SUBSET Witnesses, NEW d \in 1 .. MaxDepth, Reorg(d, txs)
      PROVE  WitnessInv'
  BY <1>2, ReorgWitness
<1>3. ASSUME NEW v \in Verifiers, NEW s \in SUBSET Witnesses, CallVerify(v, s)
      PROVE  WitnessInv'
  BY <1>3, CallVerifyWitness
<1>4. ASSUME NEW e \in Extenders, CallExtend(e)
      PROVE  WitnessInv'
  BY <1>4, CallExtendWitness
<1>5. ASSUME NEW t \in Tasks, Proceed(t)
      PROVE  WitnessInv'
  <2>1. CASE LoadTable(t) \/ Clean(t) \/ ReadTip(t)
    BY <2>1, LoadTableWitness, CleanWitness, ReadTipWitness
  <2>2. CASE Partition(t) \/ Judge(t) \/ Recall(t) \/ Record(t)
    BY <2>2, PartitionWitness, JudgeWitness, RecallWitness, RecordWitness
  <2>3. CASE \E w \in Witnesses : FetchProof(t, w) \/ FetchHash(t, w)
    BY <2>3, FetchProofWitness, FetchHashWitness
  <2>4. CASE \E c \in Table(t) : FetchRun(t, c)
    BY <2>4, FetchRunWitness
  <2>5. CASE FetchEpoch(t) \/ Save(t)
    BY <2>5, FetchEpochWitness, SaveWitness
  <2> QED
    BY <1>5, <2>1, <2>2, <2>3, <2>4, <2>5 DEF Proceed
<1>6. ASSUME NEW t \in Tasks, Fail(t)
      PROVE  WitnessInv'
  BY <1>6, FailWitness
<1>7. CASE EndWorker \/ Update
  BY <1>7, RestartWitness DEF EndWorker, Update
<1>8. CASE UNCHANGED vars
  BY <1>8 DEF vars, history, WitnessInv
<1> QED
  BY <1>1, <1>2, <1>3, <1>4, <1>5, <1>6, <1>7, <1>8 DEF Next

LEMMA WitnessInvariant == Spec => []WitnessInv
<1> QED
  BY InitWitness, WitnessStep, TableInvariant, PTL DEF Spec

\* A consignment is accepted only on witnesses that were deep in the server's chain when
\* its headers were read, or that were skipped: deep then, or once dropped.
THEOREM AcceptedWasMined == Spec => []AcceptedIsMined
<1>1. WitnessInv => AcceptedIsMined
  BY DEF WitnessInv, WitnessOK, AcceptedIsMined, Checked
<1> QED
  BY <1>1, WitnessInvariant, PTL

----------------------------------------------------------------------------
\* Mined history is accepted, where one confirmation is enough.

Reading == {"partition", "proving", "hashing", "running"}

\* Witnesses ws are deep in b and within a run of a table that is on b.
Within(b, table, ws) ==
  /\ ws # {}
  /\ \A c \in table : Linked(c, b)
  /\ \A w \in ws :
       /\ w \in Deep(b)
       /\ HeightIn(b, w) + Confs - Len(Nearest(table, HeightIn(b, w))) < RunCap

\* What an undisturbed call holds is what there is, over a chain b, the baked table and
\* what is kept of the stored one.
CalmOK(b, base, kept, f) ==
  /\ f.pc \in Reading \cup {"cleaning", "tip"} => f.kept = kept
  /\ f.pc \in Reading => f.tip = Len(b)
  /\ \A w \in Witnesses : f.proof[w] # None =>
       w \in Confirmed(b) /\ f.proof[w] = SubSeq(b, 1, HeightIn(b, w))
  /\ \A w \in Witnesses : f.anchor[w] # None => f.anchor[w] = f.proof[w]
  /\ f.pc = "running" =>
       \A i \in DOMAIN f.runs :
         /\ Linked(f.runs[i].top, b)
         /\ \A w \in f.want \ f.skip :
              Nearest(base \cup f.kept, Len(f.anchor[w])) = f.runs[i].cp =>
                Len(f.anchor[w]) <= Len(f.runs[i].top)
  /\ f.pc = "done" /\ Within(b, base \cup kept, f.want \ f.skip) => f.answer = "mined"

\* No block below the first checkpoint confirms a witness.
BaseInv == \E c \in baked : \A i \in 1 .. Len(c) : c[i].txs = {}

CalmInv ==
  /\ BaseInv
  /\ \A v \in Verifiers : calm[v] => CalmOK(chain, baked, Kept(local), task[v])

LEMMA InitCalm == Init => CalmInv
<1> SUFFICES ASSUME Init
             PROVE  CalmInv
  OBVIOUS
<1>1. Len(chain) = Epoch /\ \A i \in 1 .. Epoch : chain[i].txs = {}
  BY Constants DEF Init
<1>2. BaseInv
  BY <1>1 DEF Init, BaseInv
<1>3. \A v \in Verifiers : ~calm[v]
  BY DEF Init
<1> QED
  BY <1>2, <1>3 DEF CalmInv

LEMMA NearestIsBelow ==
  ASSUME NEW table, table \subseteq Blocks, NEW h, NEW c \in table, Len(c) <= h
  PROVE  Nearest(table, h) \in table /\ Len(Nearest(table, h)) <= h
<1> DEFINE low == {d \in table : Len(d) <= h}
<1>1. low \subseteq Blocks /\ c \in low
  OBVIOUS
<1>2. Nearest(table, h) = Frontier(low)
  BY DEF Nearest
<1> HIDE DEF low
<1>3. Frontier(low) \in low
  BY <1>1, FrontierIsHighest
<1> QED
  BY <1>2, <1>3 DEF low

LEMMA BelowWitness ==
  ASSUME TableInv, BaseInv, NEW w \in Confirmed(chain)
  PROVE  \E c \in baked : Len(c) <= HeightIn(chain, w)
<1>1. PICK c \in baked : \A i \in 1 .. Len(c) : c[i].txs = {}
  BY DEF BaseInv
<1>2. chain \in Blocks /\ c \in Blocks /\ Linked(c, chain)
  BY DEF TableInv, TypeOK, StoreInv
<1>3. HeightIn(chain, w) \in 1 .. Len(chain) /\ w \in chain[HeightIn(chain, w)].txs
  BY <1>2, HeightFacts
<1>4. Len(c) \in Nat /\ Len(chain) \in Nat /\ \A i \in 1 .. Len(c) : c[i] = chain[i]
  BY <1>2, BlockFacts, LinkedIsPointwise
<1>5. HeightIn(chain, w) \notin 1 .. Len(c)
  BY <1>1, <1>3, <1>4
<1> QED
  BY <1>3, <1>4, <1>5

----------------------------------------------------------------------------
\* The steps.

LEMMA KeptStays ==
  ASSUME UNCHANGED baked
  PROVE  /\ UNCHANGED local => Kept(local)' = Kept(local)
         /\ \A cps : local' = cps => Kept(local)' = Kept(cps)
BY DEF Kept

\* A step of one call: what it must leave in order.
LEMMA OneCalm ==
  ASSUME TableInv, CalmInv, NEW t \in Tasks,
         \A u \in Tasks \ {t} : task'[u] = task[u],
         UNCHANGED <<chain, baked>>,
         UNCHANGED local \/ \A v \in Verifiers \ {t} : ~calm'[v],
         \A v \in Verifiers \ {t} : calm'[v] => calm[v],
         t \in Verifiers /\ calm'[t] => CalmOK(chain, baked, Kept(local)', task'[t])
  PROVE  CalmInv'
<1>1. ASSUME NEW v \in Verifiers, calm'[v]
      PROVE  CalmOK(chain, baked, Kept(local)', task'[v])
  <2>1. CASE v # t
    <3>1. calm[v] /\ UNCHANGED local /\ task'[v] = task[v]
      BY <1>1, <2>1, VerifierFacts
    <3>2. Kept(local)' = Kept(local)
      BY <3>1, KeptStays
    <3> QED
      BY <3>1, <3>2 DEF CalmInv
  <2> QED
    BY <1>1, <2>1
<1>2. BaseInv'
  BY DEF CalmInv, BaseInv
<1> QED
  BY <1>1, <1>2 DEF CalmInv

\* A call that holds nothing.
LEMMA ResetCalm ==
  ASSUME NEW t \in Tasks, NEW f, Reset(t, f), NEW b, NEW base, NEW kept,
         f.pc = "done" /\ Within(b, base \cup kept, f.want \ f.skip) => f.answer = "mined"
  PROVE  CalmOK(b, base, kept, f)
<1>1. \A w \in Witnesses : f.proof[w] = None /\ f.anchor[w] = None
  BY DEF Reset
<1>2. f.pc \notin Reading \cup {"cleaning", "tip"}
  BY DEF Reset, Reading
<1> QED
  BY <1>1, <1>2 DEF CalmOK, Reading

LEMMA AnswersCalm ==
  ASSUME TableInv, CalmInv, NEW v \in Verifiers, NEW a \in {"mined", "refused", "threw"},
         Answers(v, a), UNCHANGED <<chain, baked>>,
         UNCHANGED local \/ a = "mined",
         UNCHANGED local \/ \A u \in Verifiers \ {v} : ~calm'[u],
         \A u \in Verifiers : calm'[u] => calm[u],
         calm[v] /\ Within(chain, baked \cup Kept(local), Checked(v)) => a = "mined"
  PROVE  CalmInv'
<1> DEFINE g == [Idle EXCEPT !.pc = "done", !.want = task[v].want,
                             !.skip = task[v].skip, !.answer = a]
<1>1. v \in Tasks
  BY VerifierFacts
<1>2. Reset(v, g)
  BY AnswerIsReset
<1>3. task'[v] = g /\ \A u \in Tasks \ {v} : task'[u] = task[u]
  BY <1>1, TaskFacts DEF Answers
<1>4. g.pc = "done" /\ g.want \ g.skip = Checked(v) /\ g.answer = a
  BY IdleFields DEF Checked
<1> HIDE DEF g
<1>5. calm'[v] => CalmOK(chain, baked, Kept(local)', g)
  <2> SUFFICES ASSUME calm'[v], Within(chain, baked \cup Kept(local)', Checked(v))
               PROVE  a = "mined"
    BY <1>1, <1>2, <1>4, ResetCalm
  <2>1. CASE UNCHANGED local
    <3>1. Kept(local)' = Kept(local)
      BY <2>1, KeptStays
    <3> QED
      BY <3>1
  <2> QED
    BY <2>1
<1> QED
  BY <1>1, <1>3, <1>5, OneCalm

LEMMA ThrowsCalm ==
  ASSUME TableInv, CalmInv, NEW v \in Verifiers, Throws(v), UNCHANGED <<chain, Storage, calm>>,
         ~(calm[v] /\ Within(chain, baked \cup Kept(local), Checked(v)))
  PROVE  CalmInv'
<1>1. Answers(v, "threw") /\ UNCHANGED <<baked, local>>
  BY DEF Throws, Storage
<1> QED
  BY <1>1, AnswersCalm

\* A step of an extension that writes nothing.
LEMMA ExtenderCalm ==
  ASSUME TableInv, CalmInv, NEW t \in Tasks, t \notin Verifiers,
         \A u \in Tasks \ {t} : task'[u] = task[u],
         UNCHANGED <<chain, Storage, calm>>
  PROVE  CalmInv'
BY OneCalm DEF Storage

LEMMA CallVerifyCalm ==
  ASSUME TableInv, CalmInv, NEW v \in Verifiers, NEW s \in SUBSET Witnesses, CallVerify(v, s)
  PROVE  CalmInv'
<1> DEFINE g == [Idle EXCEPT !.pc = "loading", !.want = s]
<1>1. v \in Tasks
  BY VerifierFacts
<1>2. /\ task'[v] = g /\ \A u \in Tasks \ {v} : task'[u] = task[u]
      /\ UNCHANGED <<chain, baked, local>> /\ \A u \in Verifiers \ {v} : calm'[u] = calm[u]
  BY <1>1, TaskFacts DEF CallVerify, Storage
<1>3. Reset(v, g) /\ g.pc = "loading"
  BY <1>1, Constants, MinedAncestryAssumption, IdleFields DEF Reset
<1> HIDE DEF g
<1>4. CalmOK(chain, baked, Kept(local)', g)
  BY <1>1, <1>3, ResetCalm
<1> QED
  BY <1>1, <1>2, <1>4, OneCalm

LEMMA CallExtendCalm ==
  ASSUME TableInv, CalmInv, NEW e \in Extenders, CallExtend(e)
  PROVE  CalmInv'
<1>1. e \in Tasks /\ e \notin Verifiers
  BY MinedAncestryAssumption DEF Tasks
<1>2. (\A u \in Tasks \ {e} : task'[u] = task[u]) /\ UNCHANGED <<chain, Storage, calm>>
  BY <1>1, TaskFacts DEF CallExtend, history
<1> QED
  BY <1>1, <1>2, ExtenderCalm

LEMMA LoadTableCalm ==
  ASSUME TableInv, CalmInv, NEW t \in Tasks, LoadTable(t)
  PROVE  CalmInv'
<1> DEFINE f == task[t]
           g == task'[t]
<1>1. UNCHANGED <<chain, baked, local, calm>> /\ f.pc = "loading"
  BY DEF LoadTable, At, Storage, history
<1>2. /\ \A u \in Tasks \ {t} : task'[u] = task[u]
      /\ g.kept = Kept(local) /\ g.pc \in {"cleaning", "tip"}
      /\ g.proof = f.proof /\ g.anchor = f.anchor
  BY TaskFacts, IdleFields DEF LoadTable
<1>3. Kept(local)' = Kept(local)
  BY <1>1, KeptStays
<1> HIDE DEF f, g
<1>4. calm[t] /\ t \in Verifiers => CalmOK(chain, baked, Kept(local), g)
  <2>1. ASSUME calm[t], t \in Verifiers
        PROVE  CalmOK(chain, baked, Kept(local), f)
    BY <2>1 DEF CalmInv, f
  <2> QED
    BY <1>1, <1>2, <2>1 DEF CalmOK, Reading
<1> QED
  BY <1>1, <1>2, <1>3, <1>4, OneCalm DEF g

LEMMA CleanCalm ==
  ASSUME TableInv, CalmInv, NEW t \in Tasks, Clean(t)
  PROVE  CalmInv'
<1> DEFINE f == task[t]
           g == task'[t]
<1>1. /\ UNCHANGED <<chain, baked>> /\ f.pc = "cleaning" /\ local' = f.kept
      /\ \A v \in Verifiers : calm'[v] = (calm[v] /\ v = t)
  BY DEF Clean, At, Disturbs
<1>2. /\ \A u \in Tasks \ {t} : task'[u] = task[u]
      /\ g.kept = f.kept /\ g.pc = "tip" /\ g.proof = f.proof /\ g.anchor = f.anchor
  BY TaskFacts, IdleFields DEF Clean
<1>3. Kept(local)' = f.kept
  <2>1. TaskOK(f) /\ HandsOK(baked, f) /\ baked # {} /\ baked \subseteq Blocks
    BY TaskFacts DEF TaskInv
  <2>2. Kept(f.kept) = f.kept
    BY <2>1, AboveIsKept DEF HandsOK, TaskOK
  <2> QED
    BY <1>1, <2>2, KeptStays
<1> HIDE DEF f, g
<1>4. calm[t] /\ t \in Verifiers => CalmOK(chain, baked, Kept(local)', g)
  <2>1. ASSUME calm[t], t \in Verifiers
        PROVE  CalmOK(chain, baked, Kept(local), f)
    BY <2>1 DEF CalmInv, f
  <2> QED
    BY <1>1, <1>2, <1>3, <2>1 DEF CalmOK, Reading
<1> QED
  BY <1>1, <1>2, <1>4, OneCalm DEF g

LEMMA ReadTipCalm ==
  ASSUME TableInv, CalmInv, NEW t \in Tasks, ReadTip(t)
  PROVE  CalmInv'
<1> DEFINE f == task[t]
           g == task'[t]
<1>1. UNCHANGED <<chain, Storage, baked, local, calm>> /\ f.pc = "tip"
  BY DEF ReadTip, At, Storage, history
<1>2. \A u \in Tasks \ {t} : task'[u] = task[u]
  BY TaskFacts DEF ReadTip
<1>3. CASE t \in Verifiers
  <2>1. /\ g.kept = f.kept /\ g.pc = "partition" /\ g.tip = Len(chain)
        /\ g.proof = f.proof /\ g.anchor = f.anchor
    BY <1>3, TaskFacts, IdleFields DEF ReadTip
  <2>2. Kept(local)' = Kept(local)
    BY <1>1, KeptStays
  <2> HIDE DEF f, g
  <2>3. calm[t] => CalmOK(chain, baked, Kept(local), g)
    BY <1>1, <1>3, <2>1 DEF CalmInv, CalmOK, Reading, f
  <2> QED
    BY <1>1, <1>2, <2>2, <2>3, OneCalm DEF g
<1>4. CASE t \notin Verifiers
  BY <1>1, <1>2, <1>4, ExtenderCalm
<1> QED
  BY <1>3, <1>4

LEMMA PartitionCalm ==
  ASSUME TableInv, CalmInv, NEW t \in Tasks, Partition(t)
  PROVE  CalmInv'
<1> DEFINE f == task[t]
           g == task'[t]
<1>1. UNCHANGED <<chain, baked, local, calm>> /\ f.pc = "partition"
  BY DEF Partition, At, Storage
<1>2. /\ \A u \in Tasks \ {t} : task'[u] = task[u]
      /\ g.pc \in {"running", "proving"} /\ g.kept = f.kept /\ g.tip = f.tip
      /\ g.proof = f.proof /\ g.anchor = f.anchor /\ g.runs = f.runs
  BY TaskFacts, IdleFields DEF Partition
<1>3. f.runs = <<>>
  BY <1>1, TaskFacts DEF TaskInv, PlaceOK, Judging
<1>4. Kept(local)' = Kept(local)
  BY <1>1, KeptStays
<1> HIDE DEF f, g
<1>5. calm[t] /\ t \in Verifiers => CalmOK(chain, baked, Kept(local), g)
  <2>1. DOMAIN g.runs = {}
    BY <1>2, <1>3
  <2>2. ASSUME calm[t], t \in Verifiers
        PROVE  CalmOK(chain, baked, Kept(local), f)
    BY <2>2 DEF CalmInv, f
  <2> QED
    BY <1>1, <1>2, <2>1, <2>2 DEF CalmOK, Reading
<1> QED
  BY <1>1, <1>2, <1>4, <1>5, OneCalm DEF g

LEMMA FetchProofCalm ==
  ASSUME TableInv, CalmInv, NEW t \in Tasks, NEW w \in Witnesses, FetchProof(t, w)
  PROVE  CalmInv'
<1> DEFINE f == task[t]
           g == task'[t]
           h == HeightIn(chain, w)
           found == w \in Confirmed(chain) /\ h <= f.tip /\ \E c \in Table(t) : Len(c) <= h
<1>1. UNCHANGED <<chain, Storage, baked, local, calm>> /\ f.pc = "proving" /\ t \in Verifiers
        /\ w \in Checked(t)
  BY OnlyVerifiers DEF FetchProof, At, Storage, history
<1>2. CASE found
  <2>1. /\ \A u \in Tasks \ {t} : task'[u] = task[u]
        /\ g.pc = "hashing" /\ g.kept = f.kept /\ g.tip = f.tip /\ g.anchor = f.anchor
    BY <1>2, TaskFacts, IdleFields DEF FetchProof
  <2>2. \A x \in Witnesses : g.proof[x] = IF x = w THEN SubSeq(chain, 1, h) ELSE f.proof[x]
    <3>1. f.proof \in [Witnesses -> Blocks \cup {None}]
      BY TaskFacts DEF TaskOK
    <3>2. task' = [task EXCEPT ![t].proof[w] = BlockAt(h), ![t].pc = "hashing"]
      BY <1>2 DEF FetchProof
    <3> QED
      BY <3>1, <3>2, TaskFacts, IdleFields DEF BlockAt
  <2>3. f.anchor[w] = None
    BY <1>1 DEF FetchProof, Anchored
  <2>4. Kept(local)' = Kept(local)
    BY <1>1, KeptStays
  <2>5. w \in Confirmed(chain)
    BY <1>2
  <2> HIDE DEF f, g, h, found
  <2>6. calm[t] => CalmOK(chain, baked, Kept(local), g)
    <3> SUFFICES ASSUME calm[t]
                 PROVE  CalmOK(chain, baked, Kept(local), g)
      OBVIOUS
    <3>1. CalmOK(chain, baked, Kept(local), f)
      BY <1>1 DEF CalmInv, f
    <3>2. f.kept = Kept(local) /\ f.tip = Len(chain)
      BY <1>1, <3>1 DEF CalmOK, Reading
    <3>3. \A x \in Witnesses : g.proof[x] # None =>
            x \in Confirmed(chain) /\ g.proof[x] = SubSeq(chain, 1, HeightIn(chain, x))
      BY <2>2, <2>5, <3>1 DEF CalmOK, h
    <3>4. \A x \in Witnesses : g.anchor[x] # None => g.anchor[x] = g.proof[x]
      BY <2>1, <2>2, <2>3, <3>1 DEF CalmOK
    <3> QED
      BY <2>1, <3>2, <3>3, <3>4 DEF CalmOK
  <2> QED
    BY <1>1, <2>1, <2>4, <2>6, OneCalm DEF g
<1>3. CASE ~found
  <2>1. Throws(t)
    BY <1>3 DEF FetchProof
  <2>2. ASSUME calm[t], Within(chain, baked \cup Kept(local), Checked(t))
        PROVE  FALSE
    <3>1. f.tip = Len(chain)
      BY <1>1, <2>2 DEF CalmInv, CalmOK, Reading
    <3>2. w \in Confirmed(chain)
      BY <1>1, <2>2 DEF Within, Deep
    <3>3. h \in 1 .. Len(chain) /\ Len(chain) \in Nat
      BY <3>2, HeightFacts, TaskFacts
    <3>4. \E c \in baked : Len(c) <= h
      BY <3>2, BelowWitness DEF CalmInv
    <3>5. h <= f.tip
      BY <3>1, <3>3
    <3> QED
      BY <1>3, <3>2, <3>4, <3>5 DEF Table
  <2> QED
    BY <1>1, <2>1, <2>2, ThrowsCalm
<1> QED
  BY <1>2, <1>3

\* The proof that an undisturbed call read is that of the block at its height.
LEMMA CalmProof ==
  ASSUME TableInv, CalmInv, NEW v \in Verifiers, calm[v],
         NEW w \in Witnesses, task[v].proof[w] # None
  PROVE  /\ w \in Confirmed(chain) /\ Len(task[v].proof[w]) = HeightIn(chain, w)
         /\ task[v].proof[w] = BlockAt(HeightIn(chain, w))
         /\ task[v].proof[w] \in Blocks /\ Linked(task[v].proof[w], chain)
         /\ HeightIn(chain, w) \in 1 .. Len(chain)
<1>1. CalmOK(chain, baked, Kept(local), task[v])
  BY DEF CalmInv
<1>2. w \in Confirmed(chain) /\ task[v].proof[w] = SubSeq(chain, 1, HeightIn(chain, w))
  BY <1>1 DEF CalmOK
<1>3. chain \in Blocks /\ Len(chain) \in Nat
  BY VerifierFacts, TaskFacts
<1>4. HeightIn(chain, w) \in 1 .. Len(chain)
  BY <1>2, <1>3, HeightFacts
<1>5. HeightIn(chain, w) \in Nat /\ HeightIn(chain, w) <= Len(chain)
  BY <1>3, <1>4
<1> QED
  BY <1>2, <1>3, <1>4, <1>5, PrefixFacts DEF BlockAt

LEMMA FetchHashCalm ==
  ASSUME TableInv, CalmInv, NEW t \in Tasks, NEW w \in Witnesses, FetchHash(t, w)
  PROVE  CalmInv'
<1> DEFINE f == task[t]
           g == task'[t]
<1>1. UNCHANGED <<chain, baked, local, calm>> /\ f.pc = "hashing" /\ t \in Verifiers
        /\ f.proof[w] # None
  BY OnlyVerifiers DEF FetchHash, At, Storage, history
<1>2. /\ \A u \in Tasks \ {t} : task'[u] = task[u]
      /\ g.pc = NextPoint(t, Anchored(t) \cup {w}) /\ g.kept = f.kept /\ g.tip = f.tip
      /\ g.proof = f.proof /\ g.runs = f.runs
  BY TaskFacts, IdleFields DEF FetchHash
<1>3. \A x \in Witnesses : g.anchor[x] = IF x = w THEN BlockAt(Len(f.proof[w])) ELSE f.anchor[x]
  <2>1. f.anchor \in [Witnesses -> Blocks \cup {None}]
    BY TaskFacts DEF TaskOK
  <2> QED
    BY <2>1, TaskFacts, IdleFields DEF FetchHash
<1>4. g.pc \in {"proving", "running"}
  BY <1>2 DEF NextPoint
<1>5. DOMAIN g.runs = {}
  <2>1. f.runs = <<>>
    BY <1>1, TaskFacts DEF TaskInv, PlaceOK, Judging
  <2> QED
    BY <1>2, <2>1
<1>6. Kept(local)' = Kept(local)
  BY <1>1, KeptStays
<1>7. calm[t] => BlockAt(Len(f.proof[w])) = f.proof[w]
  BY <1>1, CalmProof
<1> HIDE DEF f, g
<1>8. calm[t] => CalmOK(chain, baked, Kept(local), g)
  <2> SUFFICES ASSUME calm[t]
               PROVE  CalmOK(chain, baked, Kept(local), g)
    OBVIOUS
  <2>1. CalmOK(chain, baked, Kept(local), f)
    BY <1>1 DEF CalmInv, f
  <2>2. f.kept = Kept(local) /\ f.tip = Len(chain)
    BY <1>1, <2>1 DEF CalmOK, Reading
  <2>3. \A x \in Witnesses : g.anchor[x] # None => g.anchor[x] = g.proof[x]
    BY <1>2, <1>3, <1>7, <2>1 DEF CalmOK
  <2> QED
    BY <1>2, <1>4, <1>5, <2>1, <2>2, <2>3 DEF CalmOK
<1> QED
  BY <1>1, <1>2, <1>6, <1>8, OneCalm DEF g

LEMMA FetchRunCalm ==
  ASSUME TableInv, CalmInv, NEW t \in Tasks, NEW c \in Table(t), FetchRun(t, c)
  PROVE  CalmInv'
<1> DEFINE f == task[t]
           g == task'[t]
           to == RunTop(t, c)
           r == [cp |-> c, top |-> BlockAt(to)]
<1>1. UNCHANGED <<chain, Storage, baked, local, calm>> /\ f.pc = "running" /\ At(t, "running")
        /\ t \in Verifiers /\ c \in Groups(t)
  BY DEF FetchRun, At, Storage
<1>2. PICK w \in Group(t, c) :
        /\ Len(f.anchor[w]) \in Nat
        /\ \A x \in Group(t, c) : Len(f.anchor[x]) <= Len(f.anchor[w])
        /\ to = IF Len(f.anchor[w]) + Confs <= f.tip THEN Len(f.anchor[w]) + Confs ELSE f.tip
        /\ to \in Nat /\ to <= Len(chain)
  BY <1>1, RunTopFacts
<1>3. TaskInv(Len(chain), baked, t, f) /\ TaskOK(f) /\ chain \in Blocks /\ Len(chain) \in Nat
  BY TaskFacts
<1>4. w \in f.want \ f.skip /\ w \in Witnesses /\ f.anchor[w] # None /\ f.proof[w] # None
        /\ w \in Checked(t)
  BY <1>1, <1>3 DEF Group, Checked, TaskInv, TaskOK, PlaceOK, Judging
<1>5. CASE to - Len(c) + 1 <= RunCap
  <2>1. /\ \A u \in Tasks \ {t} : task'[u] = task[u]
        /\ g.pc = f.pc /\ g.runs = Append(f.runs, r)
        /\ g.kept = f.kept /\ g.want = f.want /\ g.tip = f.tip /\ g.skip = f.skip
        /\ g.proof = f.proof /\ g.anchor = f.anchor
    BY <1>5, TaskFacts, IdleFields DEF FetchRun
  <2>2. r.cp = c /\ r.top = BlockAt(to)
    OBVIOUS
  <2>3. Linked(BlockAt(to), chain) /\ Len(BlockAt(to)) = to
    <3> HIDE DEF to
    <3> QED
      BY <1>2, <1>3, PrefixFacts DEF BlockAt
  <2>4. \A x \in f.want \ f.skip : Nearest(baked \cup f.kept, Len(f.anchor[x])) = c => x \in Group(t, c)
    BY DEF Group, Checked, CheckpointOf, Table
  <2>5. Kept(local)' = Kept(local)
    BY <1>1, KeptStays
  <2>6. Len(f.anchor[w]) <= Len(chain)
    BY <1>3, <1>4 DEF TaskInv, PlaceOK
  <2>7. f.runs \in Seq(Runs)
    BY <1>3 DEF TaskOK
  <2> HIDE DEF f, g, r, to
  <2>8. \A i \in DOMAIN g.runs :
          \/ i \in DOMAIN f.runs /\ g.runs[i] = f.runs[i]
          \/ g.runs[i] = r
    BY <2>1, <2>7
  <2>9. calm[t] => CalmOK(chain, baked, Kept(local), g)
    <3> SUFFICES ASSUME calm[t]
                 PROVE  CalmOK(chain, baked, Kept(local), g)
      OBVIOUS
    <3>1. CalmOK(chain, baked, Kept(local), f)
      BY <1>1 DEF CalmInv, f
    <3>2. f.tip = Len(chain)
      BY <1>1, <3>1 DEF CalmOK, Reading
    <3>3. Len(f.anchor[w]) <= to
      BY <1>2, <1>3, <2>6, <3>2, Constants
    <3>4. \A x \in f.want \ f.skip :
            Nearest(baked \cup f.kept, Len(f.anchor[x])) = c => Len(f.anchor[x]) <= to
      <4> SUFFICES ASSUME NEW x \in Group(t, c)
                   PROVE  Len(f.anchor[x]) <= to
        BY <2>4
      <4>1. f.anchor[x] \in Blocks
        BY <1>1, <1>3 DEF Group, Checked, TaskInv, TaskOK, PlaceOK, Judging, f
      <4>2. Len(f.anchor[x]) \in Nat /\ Len(f.anchor[x]) <= Len(f.anchor[w])
        BY <1>2, <4>1, BlockFacts
      <4> QED
        BY <1>2, <3>3, <4>2
    <3>5. \A i \in DOMAIN g.runs :
            /\ Linked(g.runs[i].top, chain)
            /\ \A x \in f.want \ f.skip :
                 Nearest(baked \cup f.kept, Len(f.anchor[x])) = g.runs[i].cp =>
                   Len(f.anchor[x]) <= Len(g.runs[i].top)
      <4> TAKE i \in DOMAIN g.runs
      <4>1. CASE i \in DOMAIN f.runs /\ g.runs[i] = f.runs[i]
        BY <1>1, <3>1, <4>1 DEF CalmOK
      <4>2. CASE g.runs[i] = r
        BY <2>2, <2>3, <3>4, <4>2
      <4> QED
        BY <2>8, <4>1, <4>2
    <3>6. /\ g.kept = Kept(local) /\ g.tip = Len(chain) /\ g.pc = "running"
          /\ g.want = f.want /\ g.skip = f.skip /\ g.kept = f.kept
      BY <1>1, <2>1, <3>1, <3>2 DEF CalmOK, Reading
    <3>7. /\ \A x \in Witnesses : g.proof[x] # None =>
               x \in Confirmed(chain) /\ g.proof[x] = SubSeq(chain, 1, HeightIn(chain, x))
          /\ \A x \in Witnesses : g.anchor[x] # None => g.anchor[x] = g.proof[x]
      BY <2>1, <3>1 DEF CalmOK
    <3>8. \A i \in DOMAIN g.runs :
            /\ Linked(g.runs[i].top, chain)
            /\ \A x \in g.want \ g.skip :
                 Nearest(baked \cup g.kept, Len(g.anchor[x])) = g.runs[i].cp =>
                   Len(g.anchor[x]) <= Len(g.runs[i].top)
      BY <2>1, <3>5
    <3> QED
      BY <3>6, <3>7, <3>8 DEF CalmOK
  <2> QED
    BY <1>1, <2>1, <2>5, <2>9, OneCalm DEF g
<1>6. CASE ~(to - Len(c) + 1 <= RunCap)
  <2>1. Throws(t)
    BY <1>6 DEF FetchRun
  <2>2. ASSUME calm[t], Within(chain, baked \cup Kept(local), Checked(t))
        PROVE  FALSE
    <3>1. f.kept = Kept(local) /\ f.anchor[w] = f.proof[w]
      BY <1>1, <1>4, <2>2 DEF CalmInv, CalmOK, Reading
    <3>2. Len(f.anchor[w]) = HeightIn(chain, w)
      BY <1>1, <1>4, <2>2, <3>1, CalmProof
    <3>3. c = Nearest(baked \cup Kept(local), HeightIn(chain, w))
      BY <3>1, <3>2 DEF Group, CheckpointOf, Table
    <3>4. Len(f.anchor[w]) + Confs - Len(c) < RunCap
      BY <1>4, <2>2, <3>2, <3>3 DEF Within
    <3>5. Len(c) \in Nat /\ f.tip \in Nat
      BY <1>3, TableFacts DEF TaskOK, Heights
    <3>6. to <= Len(f.anchor[w]) + Confs
      <4> HIDE DEF to, f
      <4> QED
        BY <1>2, <3>5, Constants
    <3> HIDE DEF to, f
    <3> QED
      BY <1>2, <1>6, <3>4, <3>5, <3>6, Constants
  <2> QED
    BY <1>1, <2>1, <2>2, ThrowsCalm
<1> QED
  BY <1>5, <1>6

\* Of the witnesses to check, an undisturbed call has the blocks, and a checkpoint below each.
LEMMA CalmAnchor ==
  ASSUME TableInv, CalmInv, NEW v \in Verifiers, calm[v], At(v, "running"), NEW w \in Checked(v)
  PROVE  /\ task[v].anchor[w] \in Blocks /\ Linked(task[v].anchor[w], chain)
         /\ task[v].anchor[w] = task[v].proof[w]
         /\ CheckpointOf(v, w) \in Table(v) /\ CheckpointOf(v, w) \in Groups(v)
         /\ Len(CheckpointOf(v, w)) <= Len(task[v].anchor[w])
<1> DEFINE f == task[v]
<1>1. v \in Tasks /\ TaskInv(Len(chain), baked, v, f) /\ TaskOK(f) /\ f.pc = "running"
  BY VerifierFacts, TaskFacts DEF At
<1>2. w \in Witnesses /\ f.anchor[w] # None /\ f.proof[w] # None
  BY <1>1 DEF Checked, TaskInv, TaskOK, PlaceOK, Judging
<1>3. f.anchor[w] = f.proof[w]
  BY <1>2 DEF CalmInv, CalmOK
<1>4. /\ w \in Confirmed(chain) /\ Len(f.anchor[w]) = HeightIn(chain, w)
      /\ f.anchor[w] \in Blocks /\ Linked(f.anchor[w], chain)
  BY <1>2, <1>3, CalmProof
<1>5. PICK c \in baked : Len(c) <= HeightIn(chain, w)
  BY <1>4, BelowWitness DEF CalmInv
<1>6. c \in Table(v) /\ Table(v) \subseteq Blocks
  BY <1>1, TableFacts DEF Table
<1>7. CheckpointOf(v, w) \in Table(v) /\ Len(CheckpointOf(v, w)) <= Len(f.anchor[w])
  BY <1>4, <1>5, <1>6, NearestIsBelow DEF CheckpointOf
<1> QED
  BY <1>3, <1>4, <1>7 DEF Groups

LEMMA CalmRuns ==
  ASSUME TableInv, CalmInv, NEW v \in Verifiers, calm[v], At(v, "running"),
         NEW i \in DOMAIN task[v].runs
  PROVE  /\ task[v].runs[i].top \in Blocks /\ Linked(task[v].runs[i].top, chain)
         /\ \A w \in Checked(v) :
              CheckpointOf(v, w) = task[v].runs[i].cp =>
                Len(task[v].anchor[w]) <= Len(task[v].runs[i].top)
<1>1. v \in Tasks /\ TaskOK(task[v]) /\ task[v].pc = "running"
  BY VerifierFacts, TaskFacts DEF At
<1>2. task[v].runs[i] \in Runs
  BY <1>1 DEF TaskOK
<1>3. CalmOK(chain, baked, Kept(local), task[v])
  BY DEF CalmInv
<1> QED
  BY <1>1, <1>2, <1>3 DEF CalmOK, Runs, Checked, CheckpointOf, Table

\* With one confirmation, the last run that holds a block vouches for it: it need not be
\* higher.
LEMMA CalmVouched ==
  ASSUME TableInv, CalmInv, Confs = 1, NEW v \in Verifiers, calm[v], At(v, "running"),
         {r.cp : r \in Segments(v)} = Groups(v), NEW w \in Checked(v)
  PROVE  Vouched(v, w)
<1> DEFINE b == task[v].anchor[w]
           runs == task[v].runs
           holding == {i \in DOMAIN runs : Holds(runs[i], b)}
<1>1. /\ b \in Blocks /\ Linked(b, chain) /\ b = task[v].proof[w]
      /\ CheckpointOf(v, w) \in Groups(v) /\ Len(CheckpointOf(v, w)) <= Len(b)
  BY CalmAnchor
<1>2. v \in Tasks /\ runs \in Seq(Runs) /\ chain \in Blocks
  BY VerifierFacts, TaskFacts DEF TaskOK
<1>3. PICK i \in DOMAIN runs : runs[i].cp = CheckpointOf(v, w)
  BY <1>1 DEF Segments, Range
<1>4. i \in holding
  <2>1. runs[i].top \in Blocks /\ Linked(runs[i].top, chain) /\ Len(b) <= Len(runs[i].top)
    BY <1>3, CalmRuns
  <2>2. Linked(b, runs[i].top)
    BY <1>1, <1>2, <2>1, LinkedBelow
  <2> QED
    BY <1>1, <1>3, <2>2 DEF Holds
<1>5. PICK last \in holding : \A j \in holding : j <= last
  <2>1. holding \subseteq 0 .. Len(runs) /\ Len(runs) \in Nat
    BY <1>2
  <2> HIDE DEF holding
  <2> QED
    BY <1>4, <2>1, GreatestNat
<1>6. Len(runs[last].top) + 1 >= Len(b) + Confs
  <2>1. last \in DOMAIN runs /\ Len(b) <= Len(runs[last].top)
    BY DEF Holds, Linked
  <2>2. runs[last].top \in Blocks
    BY <2>1, CalmRuns
  <2>3. Len(runs[last].top) \in Nat /\ Len(b) \in Nat
    BY <1>1, <2>2, BlockFacts
  <2> QED
    BY <2>1, <2>3
<1> QED
  BY <1>1, <1>5, <1>6 DEF Vouched, RootIs

LEMMA CalmSegments ==
  ASSUME TableInv, CalmInv, NEW v \in Verifiers, calm[v], At(v, "running"),
         {r.cp : r \in Segments(v)} = Groups(v),
         Within(chain, baked \cup Kept(local), Checked(v))
  PROVE  FromSegments(v)
<1> DEFINE runs == task[v].runs
<1>1. v \in Tasks /\ runs \in Seq(Runs) /\ chain \in Blocks /\ Table(v) \subseteq Blocks
  BY VerifierFacts, TaskFacts, TableFacts DEF TaskOK
<1>2. runs # <<>>
  <2>1. PICK w \in Checked(v) : TRUE
    BY DEF Within
  <2>2. CheckpointOf(v, w) \in Groups(v)
    BY CalmAnchor
  <2>3. PICK r \in Segments(v) : TRUE
    BY <2>2
  <2> QED
    BY <2>3 DEF Segments, Range
<1>3. ASSUME NEW i \in DOMAIN runs
      PROVE  ValidRun(runs[i])
  <2>1. runs[i].cp \in Groups(v)
    BY <1>3 DEF Segments, Range
  <2>2. PICK w \in Checked(v) : CheckpointOf(v, w) = runs[i].cp
    BY <2>1 DEF Groups
  <2>3. /\ runs[i].cp \in Table(v) /\ Len(runs[i].cp) <= Len(task[v].anchor[w])
        /\ task[v].anchor[w] \in Blocks
    BY <2>2, CalmAnchor
  <2>4. /\ runs[i].top \in Blocks /\ Linked(runs[i].top, chain)
        /\ Len(task[v].anchor[w]) <= Len(runs[i].top)
    BY <1>3, <2>2, CalmRuns
  <2>5. task[v].kept = Kept(local)
    BY DEF CalmInv, CalmOK, Reading, At
  <2>6. Linked(runs[i].cp, chain)
    BY <2>3, <2>5 DEF Table, Within
  <2>7. Len(runs[i].cp) <= Len(runs[i].top)
    <3>1. runs[i].cp \in Blocks
      BY <1>1, <2>3
    <3>2. /\ Len(runs[i].cp) \in Nat /\ Len(runs[i].top) \in Nat
          /\ Len(task[v].anchor[w]) \in Nat
      BY <2>3, <2>4, <3>1, BlockFacts
    <3> QED
      BY <2>3, <2>4, <3>2
  <2>8. Linked(runs[i].cp, runs[i].top)
    BY <1>1, <2>3, <2>4, <2>6, <2>7, LinkedBelow
  <2> QED
    BY <2>8 DEF ValidRun
<1> QED
  BY <1>2, <1>3 DEF FromSegments, Segments, Range

LEMMA JudgeCalm ==
  ASSUME TableInv, CalmInv, Confs = 1, NEW t \in Tasks, Judge(t)
  PROVE  CalmInv'
<1> DEFINE f == task[t]
           g == task'[t]
<1>1. /\ UNCHANGED <<chain, Storage, baked, local, calm>> /\ f.pc = "running" /\ At(t, "running")
      /\ t \in Verifiers /\ {r.cp : r \in Segments(t)} = Groups(t)
  BY DEF Judge, At, Storage, history
<1>2. CASE FromSegments(t) /\ \A w \in Checked(t) : Vouched(t, w)
  <2>1. task' = [task EXCEPT ![t].pc = "recalling"]
    BY <1>2 DEF Judge
  <2>2. /\ \A u \in Tasks \ {t} : task'[u] = task[u]
        /\ g.pc = "recalling" /\ g.proof = f.proof /\ g.anchor = f.anchor
    BY <2>1, TaskFacts, IdleFields
  <2>3. Kept(local)' = Kept(local)
    BY <1>1, KeptStays
  <2> HIDE DEF f, g
  <2>4. calm[t] => CalmOK(chain, baked, Kept(local), g)
    <3>1. calm[t] => CalmOK(chain, baked, Kept(local), f)
      BY <1>1 DEF CalmInv, f
    <3> QED
      BY <2>2, <3>1 DEF CalmOK, Reading
  <2> QED
    BY <1>1, <2>2, <2>3, <2>4, OneCalm DEF g
<1>3. CASE ~(FromSegments(t) /\ \A w \in Checked(t) : Vouched(t, w))
  <2>1. Throws(t) \/ Answers(t, "refused")
    BY <1>3 DEF Judge
  <2>2. ~(calm[t] /\ Within(chain, baked \cup Kept(local), Checked(t)))
    BY <1>1, <1>3, CalmVouched, CalmSegments
  <2>3. CASE Throws(t)
    BY <1>1, <2>2, <2>3, ThrowsCalm
  <2>4. CASE Answers(t, "refused")
    BY <1>1, <2>2, <2>4, AnswersCalm
  <2> QED
    BY <2>1, <2>3, <2>4
<1> QED
  BY <1>2, <1>3

\* From the verdict on, the call only writes.
LEMMA WritingCalm ==
  ASSUME TableInv, CalmInv, NEW t \in Tasks, t \in Verifiers,
         \A u \in Tasks \ {t} : task'[u] = task[u],
         UNCHANGED <<chain, baked, local>>, \A v \in Verifiers : calm'[v] => calm[v],
         task'[t].pc \in {"recording", "saving"},
         task'[t].proof = task[t].proof, task'[t].anchor = task[t].anchor
  PROVE  CalmInv'
<1>1. Kept(local)' = Kept(local)
  BY KeptStays
<1>2. calm[t] => CalmOK(chain, baked, Kept(local), task[t])
  BY DEF CalmInv
<1>3. calm[t] => CalmOK(chain, baked, Kept(local), task'[t])
  BY <1>2 DEF CalmOK, Reading
<1> QED
  BY <1>1, <1>3, OneCalm

LEMMA RecallCalm ==
  ASSUME TableInv, CalmInv, NEW t \in Tasks, Recall(t)
  PROVE  CalmInv'
<1>1. t \in Verifiers /\ UNCHANGED <<chain, baked, local, calm>>
  BY OnlyVerifiers DEF Recall, At, Storage, history
<1>2. /\ \A u \in Tasks \ {t} : task'[u] = task[u]
      /\ task'[t].pc = "recording"
      /\ task'[t].proof = task[t].proof /\ task'[t].anchor = task[t].anchor
  BY TaskFacts, IdleFields DEF Recall
<1> QED
  BY <1>1, <1>2, WritingCalm

LEMMA RecordCalm ==
  ASSUME TableInv, CalmInv, NEW t \in Tasks, Record(t)
  PROVE  CalmInv'
<1>1. /\ t \in Verifiers /\ UNCHANGED <<chain, baked, local>>
      /\ \A v \in Verifiers : calm'[v] = (calm[v] /\ v = t)
  BY OnlyVerifiers DEF Record, At, Disturbs
<1>2. CASE Harvest(t) = {}
  <2>1. Answers(t, "mined")
    BY <1>2 DEF Record
  <2> QED
    BY <1>1, <2>1, AnswersCalm
<1>3. CASE Harvest(t) # {}
  <2>1. /\ \A u \in Tasks \ {t} : task'[u] = task[u]
        /\ task'[t].pc = "saving"
        /\ task'[t].proof = task[t].proof /\ task'[t].anchor = task[t].anchor
    BY <1>3, TaskFacts, IdleFields DEF Record
  <2> QED
    BY <1>1, <2>1, WritingCalm
<1> QED
  BY <1>2, <1>3

LEMMA FetchEpochCalm ==
  ASSUME TableInv, CalmInv, NEW t \in Tasks, FetchEpoch(t)
  PROVE  CalmInv'
<1>1. t \notin Verifiers /\ UNCHANGED <<chain, Storage, calm>>
  BY MinedAncestryAssumption DEF FetchEpoch, history
<1>2. \A u \in Tasks \ {t} : task'[u] = task[u]
  BY <1>1, TaskFacts DEF FetchEpoch, Throws
<1> QED
  BY <1>1, <1>2, ExtenderCalm

LEMMA SaveCalm ==
  ASSUME TableInv, CalmInv, NEW t \in Tasks, Save(t)
  PROVE  CalmInv'
<1>1. UNCHANGED <<chain, baked>> /\ \A v \in Verifiers : calm'[v] = (calm[v] /\ v = t)
  BY DEF Save, Disturbs
<1>2. CASE t \in Verifiers
  <2>1. Answers(t, "mined")
    BY <1>2 DEF Save
  <2> QED
    BY <1>1, <1>2, <2>1, AnswersCalm
<1>3. CASE t \notin Verifiers
  <2>1. \A u \in Tasks \ {t} : task'[u] = task[u]
    BY <1>3, TaskFacts DEF Save
  <2> QED
    BY <1>1, <1>3, <2>1, OneCalm
<1> QED
  BY <1>2, <1>3

LEMMA FailCalm ==
  ASSUME TableInv, CalmInv, NEW t \in Tasks, Fail(t)
  PROVE  CalmInv'
<1>1. /\ UNCHANGED <<chain, baked, local>>
      /\ \A v \in Verifiers : calm'[v] = (calm[v] /\ v # t)
  BY DEF Fail, Storage
<1>2. \A u \in Tasks \ {t} : task'[u] = task[u]
  BY TaskFacts DEF Fail, Answers
<1> QED
  BY <1>1, <1>2, OneCalm

LEMMA ChainCalm ==
  ASSUME CalmInv, baked \subseteq baked', \A v \in Verifiers : ~calm'[v]
  PROVE  CalmInv'
BY DEF CalmInv, BaseInv

LEMMA CalmStep == TableInv /\ CalmInv /\ Confs = 1 /\ [Next]_vars => CalmInv'
<1> SUFFICES ASSUME TableInv, CalmInv, Confs = 1, [Next]_vars
             PROVE  CalmInv'
  OBVIOUS
<1>1. ASSUME NEW txs \in SUBSET Witnesses,
             Mine(txs) \/ \E d \in 1 .. MaxDepth : Reorg(d, txs)
      PROVE  CalmInv'
  <2>1. UNCHANGED baked /\ \A v \in Verifiers : ~calm'[v]
    BY <1>1 DEF Mine, Reorg, ChainBecomes, Storage
  <2> QED
    BY <2>1, ChainCalm
<1>2. ASSUME NEW v \in Verifiers, NEW s \in SUBSET Witnesses, CallVerify(v, s)
      PROVE  CalmInv'
  BY <1>2, CallVerifyCalm
<1>3. ASSUME NEW e \in Extenders, CallExtend(e)
      PROVE  CalmInv'
  BY <1>3, CallExtendCalm
<1>4. ASSUME NEW t \in Tasks, Proceed(t)
      PROVE  CalmInv'
  <2>1. CASE LoadTable(t) \/ Clean(t) \/ ReadTip(t)
    BY <2>1, LoadTableCalm, CleanCalm, ReadTipCalm
  <2>2. CASE Partition(t) \/ Judge(t) \/ Recall(t) \/ Record(t)
    BY <2>2, PartitionCalm, JudgeCalm, RecallCalm, RecordCalm
  <2>3. CASE \E w \in Witnesses : FetchProof(t, w) \/ FetchHash(t, w)
    BY <2>3, FetchProofCalm, FetchHashCalm
  <2>4. CASE \E c \in Table(t) : FetchRun(t, c)
    BY <2>4, FetchRunCalm
  <2>5. CASE FetchEpoch(t) \/ Save(t)
    BY <2>5, FetchEpochCalm, SaveCalm
  <2> QED
    BY <1>4, <2>1, <2>2, <2>3, <2>4, <2>5 DEF Proceed
<1>5. ASSUME NEW t \in Tasks, Fail(t)
      PROVE  CalmInv'
  BY <1>5, FailCalm
<1>6. CASE EndWorker \/ Update
  <2>1. baked \subseteq baked' /\ \A v \in Verifiers : ~calm'[v]
    BY <1>6 DEF EndWorker, Update, Restart
  <2> QED
    BY <2>1, ChainCalm
<1>7. CASE UNCHANGED vars
  <2>1. UNCHANGED <<chain, baked, local, task, calm>>
    BY <1>7 DEF vars, history
  <2>2. Kept(local)' = Kept(local)
    BY <2>1, KeptStays
  <2> QED
    BY <2>1, <2>2 DEF CalmInv, BaseInv
<1> QED
  BY <1>1, <1>2, <1>3, <1>4, <1>5, <1>6, <1>7 DEF Next

\* Where one confirmation is enough (signet), a call that nothing disturbs accepts
\* witnesses that are deep and within a run of a table on the chain.
THEOREM MinedWasAccepted ==
  ASSUME Confs = 1
  PROVE  Spec => []MinedIsAccepted
<1>1. TableInv /\ CalmInv => MinedIsAccepted
  <2> SUFFICES ASSUME TableInv, CalmInv, NEW v \in Verifiers, At(v, "done"), calm[v],
                      \A c \in baked \cup Kept(local) : Linked(c, chain),
                      Checked(v) # {}, Reachable(v)
               PROVE  task[v].answer = "mined"
    BY DEF MinedIsAccepted
  <2>1. Within(chain, baked \cup Kept(local), Checked(v))
    BY DEF Within, Reachable
  <2> QED
    BY <2>1 DEF CalmInv, CalmOK, Checked, At
<1>2. TableInv /\ CalmInv /\ [Next]_vars => CalmInv'
  BY CalmStep
<1> QED
  BY <1>1, <1>2, InitCalm, TableInvariant, PTL DEF Spec
=============================================================================
