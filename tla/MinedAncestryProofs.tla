------------------------ MODULE MinedAncestryProofs ------------------------
(***************************************************************************)
(* Proofs about MinedAncestry: its types, and that the tables of           *)
(* checkpoints, stored or in a call's hands, are of one chain and skip no  *)
(* epoch, for any witnesses and groups, any epoch, burial and depth, and   *)
(* any number of blocks, reorganisations, faults and releases.  They rest  *)
(* on MinedAncestryAssumption and SentinelAssumption.                      *)
(*                                                                         *)
(* A release meets a store, and calls, that know other blocks.  It is      *)
(* safe because none of them misses an epoch below its frontier: what      *)
(* reaches above the release has a block at the release's own height,      *)
(* which is the same one, or reconciling drops it all.                     *)
(***************************************************************************)
EXTENDS MinedAncestry, SequenceTheorems, WellFoundedInduction, TLAPS

----------------------------------------------------------------------------
\* Numbers.

LEMMA NatLess == IsWellFoundedOn({p \in Nat \X Nat : p[1] < p[2]}, Nat)
  BY NatLessThanWellFounded DEF OpToRel

LEMMA LeastNat ==
  ASSUME NEW T, T \subseteq Nat, T # {}
  PROVE  \E x \in T : \A y \in T : x <= y
<1> DEFINE R == {p \in Nat \X Nat : p[1] < p[2]}
<1>1. IsWellFoundedOn(R, Nat)
  BY NatLess
<1>2. PICK x \in T : \A y \in T : <<y, x>> \notin R
  <2> HIDE DEF R
  <2> QED
    BY <1>1, WFMin
<1> QED
  <2> SUFFICES ASSUME NEW y \in T PROVE x <= y
    BY <1>2
  <2>1. <<y, x>> \notin R
    BY <1>2
  <2> QED
    BY <2>1

LEMMA GreatestNat ==
  ASSUME NEW T, NEW n \in Nat, T \subseteq 0 .. n, T # {}
  PROVE  \E x \in T : \A y \in T : y <= x
<1> DEFINE U == {n - y : y \in T}
<1>1. U \subseteq Nat /\ U # {}
  <2>1. \A y \in T : n - y \in Nat
    OBVIOUS
  <2> QED
    BY <2>1
<1>2. PICK u \in U : \A y \in U : u <= y
  <2> HIDE DEF U
  <2> QED
    BY <1>1, LeastNat
<1>3. PICK x \in T : u = n - x
  OBVIOUS
<1>4. \A y \in T : n - x <= n - y
  BY <1>2, <1>3
<1>5. \A y \in T : y \in 0 .. n
  OBVIOUS
<1>6. \A y \in T : y <= x
  <2> TAKE y \in T
  <2> HIDE DEF U
  <2>1. x \in 0 .. n /\ y \in 0 .. n
    BY <1>5
  <2>2. n - x <= n - y
    BY <1>4
  <2> QED
    BY <2>1, <2>2
<1> QED
  BY <1>6

LEMMA Multiples ==
  ASSUME NEW a \in Nat, NEW b \in Nat, NEW n \in Nat \ {0},
         a % n = 0, b % n = 0, a < b
  PROVE  a + n <= b
<1>1. a = n * (a \div n) /\ b = n * (b \div n)
  OBVIOUS
<1>2. a \div n \in Int /\ b \div n \in Int
  OBVIOUS
<1>3. a \div n < b \div n
  BY <1>1, <1>2
<1>4. n * (a \div n) + n <= n * (b \div n)
  BY <1>2, <1>3
<1> QED
  BY <1>1, <1>4

LEMMA NextMultiple ==
  ASSUME NEW a \in Nat, NEW n \in Nat \ {0}, a % n = 0
  PROVE  (a + n) % n = 0
<1>1. a = n * (a \div n) /\ a \div n \in Int
  OBVIOUS
<1>2. a + n = n * ((a \div n) + 1)
  BY <1>1
<1>3. (n * ((a \div n) + 1)) % n = 0
  BY <1>1
<1> QED
  BY <1>2, <1>3


----------------------------------------------------------------------------
\* Blocks.

LEMMA SubSeqFacts ==
  ASSUME NEW S, NEW b \in Seq(S), NEW h \in Nat, h <= Len(b)
  PROVE  /\ SubSeq(b, 1, h) \in Seq(S)
         /\ Len(SubSeq(b, 1, h)) = h
         /\ \A i \in 1 .. h : SubSeq(b, 1, h)[i] = b[i]
<1>1. \A i \in 1 .. h : b[i] \in S
  OBVIOUS
<1> QED
  BY <1>1, SubSeqProperties

\* A block is linked to one that has all its contents.
LEMMA LinkedIsPointwise ==
  ASSUME NEW a \in Blocks, NEW b \in Blocks
  PROVE  Linked(a, b) <=> Len(a) <= Len(b) /\ \A i \in 1 .. Len(a) : a[i] = b[i]
<1>1. a \in Seq(Contents) /\ b \in Seq(Contents) /\ Len(a) \in Nat /\ Len(b) \in Nat
  BY DEF Blocks
<1>2. ASSUME Len(a) <= Len(b)
      PROVE  SubSeq(b, 1, Len(a)) = a <=> \A i \in 1 .. Len(a) : a[i] = b[i]
  <2> DEFINE c == SubSeq(b, 1, Len(a))
  <2>1. c \in Seq(Contents) /\ Len(c) = Len(a) /\ \A i \in 1 .. Len(a) : c[i] = b[i]
    BY <1>1, <1>2, SubSeqFacts
  <2> HIDE DEF c
  <2>2. c = a <=> \A i \in 1 .. Len(a) : c[i] = a[i]
    BY <1>1, <2>1, SeqEqual
  <2> QED
    BY <2>1, <2>2 DEF c
<1> QED
  BY <1>1, <1>2 DEF Linked

LEMMA BlockFacts ==
  ASSUME NEW b \in Blocks
  PROVE  /\ b \in Seq(Contents) /\ Len(b) \in Nat /\ Len(b) <= MaxHeight
         /\ \A i \in 1 .. Len(b) : b[i] \in Contents /\ b[i].txs \subseteq Witnesses
                                     /\ b[i].fork \in 0 .. MaxReorgs
<1>1. b \in Seq(Contents) /\ Len(b) \in Nat /\ Len(b) <= MaxHeight
  BY DEF Blocks
<1>2. \A i \in 1 .. Len(b) : b[i] \in Contents
  BY <1>1
<1> QED
  BY <1>1, <1>2 DEF Contents

LEMMA PrefixFacts ==
  ASSUME NEW b \in Blocks, NEW h \in Nat, h <= Len(b)
  PROVE  /\ SubSeq(b, 1, h) \in Blocks /\ Len(SubSeq(b, 1, h)) = h
         /\ \A i \in 1 .. h : SubSeq(b, 1, h)[i] = b[i]
         /\ Linked(SubSeq(b, 1, h), b)
<1>1. b \in Seq(Contents) /\ Len(b) \in Nat /\ Len(b) <= MaxHeight
  BY DEF Blocks
<1>2. SubSeq(b, 1, h) \in Seq(Contents) /\ Len(SubSeq(b, 1, h)) = h
        /\ \A i \in 1 .. h : SubSeq(b, 1, h)[i] = b[i]
  BY <1>1, SubSeqFacts
<1>3. MaxHeight \in Nat
  BY MinedAncestryAssumption
<1> QED
  BY <1>1, <1>2, <1>3 DEF Blocks, Linked

LEMMA LinkedRefl ==
  ASSUME NEW a \in Blocks
  PROVE  Linked(a, a)
BY LinkedIsPointwise, BlockFacts

LEMMA LinkedTrans ==
  ASSUME NEW a \in Blocks, NEW b \in Blocks, NEW c \in Blocks, Linked(a, b), Linked(b, c)
  PROVE  Linked(a, c)
<1>1. Len(a) \in Nat /\ Len(b) \in Nat /\ Len(c) \in Nat
  BY BlockFacts
<1>2. Len(a) <= Len(b) /\ \A i \in 1 .. Len(a) : a[i] = b[i]
  BY LinkedIsPointwise
<1>3. Len(b) <= Len(c) /\ \A i \in 1 .. Len(b) : b[i] = c[i]
  BY LinkedIsPointwise
<1>4. Len(a) <= Len(c) /\ \A i \in 1 .. Len(a) : a[i] = c[i]
  BY <1>1, <1>2, <1>3
<1> QED
  BY <1>4, LinkedIsPointwise

LEMMA SameHeight ==
  ASSUME NEW a \in Blocks, NEW b \in Blocks, Linked(a, b), Len(a) = Len(b)
  PROVE  a = b
<1>1. \A i \in 1 .. Len(a) : a[i] = b[i]
  BY LinkedIsPointwise
<1> QED
  BY <1>1, BlockFacts, SeqEqual

\* Two blocks of one chain are linked.
LEMMA LinkedBelow ==
  ASSUME NEW a \in Blocks, NEW b \in Blocks, NEW c \in Blocks,
         Linked(a, c), Linked(b, c), Len(a) <= Len(b)
  PROVE  Linked(a, b)
<1>1. Len(a) \in Nat /\ Len(b) \in Nat /\ Len(c) \in Nat
  BY BlockFacts
<1>2. Len(a) <= Len(c) /\ \A i \in 1 .. Len(a) : a[i] = c[i]
  BY LinkedIsPointwise
<1>3. Len(b) <= Len(c) /\ \A i \in 1 .. Len(b) : b[i] = c[i]
  BY LinkedIsPointwise
<1>4. Len(a) <= Len(b) /\ \A i \in 1 .. Len(a) : a[i] = b[i]
  BY <1>1, <1>2, <1>3
<1> QED
  BY <1>4, LinkedIsPointwise

----------------------------------------------------------------------------
\* Tables.

\* No epoch is missing below a checkpoint of the table.
NoGap(table) ==
  \A c \in table : \A h \in Epoch .. Len(c) : h % Epoch = 0 => \E d \in table : Len(d) = h

Good(table) ==
  /\ table \subseteq Blocks
  /\ \A c \in table : Len(c) % Epoch = 0
  /\ IsOneChain(table)
  /\ NoGap(table)

LEMMA Constants ==
  /\ Epoch \in Nat \ {0} /\ RunCap \in Nat /\ Confs \in Nat \ {0} /\ BuryDepth \in Nat \ {0}
  /\ MaxEpochs \in Nat \ {0} /\ MaxDepth \in Nat \ {0} /\ MaxHeight \in Nat /\ MaxReorgs \in Nat
  /\ Confs < Epoch /\ Epoch <= MaxHeight
BY MinedAncestryAssumption

LEMMA FrontierIsHighest ==
  ASSUME NEW table, table \subseteq Blocks, table # {}
  PROVE  /\ Frontier(table) \in table
         /\ \A d \in table : Len(d) <= Len(Frontier(table))
<1> DEFINE lens == {Len(c) : c \in table}
<1>1. lens \subseteq 0 .. MaxHeight /\ lens # {}
  <2>1. \A c \in table : Len(c) \in 0 .. MaxHeight
    BY BlockFacts, Constants
  <2> QED
    BY <2>1
<1>2. PICK n \in lens : \A m \in lens : m <= n
  <2> HIDE DEF lens
  <2> QED
    BY <1>1, GreatestNat, Constants
<1>3. PICK c \in table : Len(c) = n
  OBVIOUS
<1>4. \A d \in table : Len(d) <= Len(c)
  BY <1>2, <1>3
<1> QED
  BY <1>3, <1>4 DEF Frontier

\* The frontier's height is enough to know it.
LEMMA FrontierIsTheOne ==
  ASSUME NEW table, Good(table), NEW c \in table, \A d \in table : Len(d) <= Len(c)
  PROVE  Frontier(table) = c
<1>1. Frontier(table) \in table /\ Len(c) <= Len(Frontier(table))
  BY FrontierIsHighest DEF Good
<1>2. Len(c) = Len(Frontier(table))
  BY <1>1, BlockFacts DEF Good
<1>3. Linked(c, Frontier(table)) \/ Linked(Frontier(table), c)
  BY <1>1 DEF Good, IsOneChain
<1> QED
  BY <1>1, <1>2, <1>3, SameHeight DEF Good

\* What extends a table: the epoch boundaries of one block above the frontier, none left out.
LEMMA GoodExtends ==
  ASSUME NEW table, Good(table), table # {},
         NEW b \in Blocks, Linked(Frontier(table), b),
         NEW more,
         \A c \in more : \E h \in Nat : Len(Frontier(table)) < h /\ h <= Len(b)
                                   /\ h % Epoch = 0 /\ c = SubSeq(b, 1, h),
         \A c \in more : \A h \in Nat :
           Len(Frontier(table)) < h /\ h <= Len(c) /\ h % Epoch = 0 => SubSeq(b, 1, h) \in more
  PROVE  Good(table \cup more)
<1> DEFINE f == Frontier(table)
<1>1. f \in table /\ f \in Blocks /\ Len(f) \in Nat /\ \A d \in table : Len(d) <= Len(f)
  BY FrontierIsHighest, BlockFacts DEF Good
<1>2. \A c \in table : Linked(c, f)
  <2> TAKE c \in table
  <2>1. Linked(c, f) \/ Linked(f, c)
    BY <1>1 DEF Good, IsOneChain
  <2>2. CASE Linked(f, c)
    <3>1. Len(f) <= Len(c) /\ Len(c) <= Len(f) /\ c \in Blocks
      BY <1>1, <2>2 DEF Good, Linked
    <3>2. f = c
      BY <1>1, <2>2, <3>1, SameHeight, BlockFacts
    <3> QED
      BY <3>2, <3>1, LinkedRefl
  <2> QED
    BY <2>1, <2>2
<1>3. \A c \in more : c \in Blocks /\ Len(c) % Epoch = 0 /\ Linked(c, b) /\ Len(f) < Len(c)
  <2> TAKE c \in more
  <2>1. PICK h \in Nat : Len(f) < h /\ h <= Len(b) /\ h % Epoch = 0 /\ c = SubSeq(b, 1, h)
    OBVIOUS
  <2> HIDE DEF f
  <2> QED
    BY <2>1, PrefixFacts
<1>4. \A c \in table \cup more : Linked(c, b)
  BY <1>1, <1>2, <1>3, LinkedTrans DEF Good
<1>5. table \cup more \subseteq Blocks /\ \A c \in table \cup more : Len(c) % Epoch = 0
  BY <1>3 DEF Good
<1>6. IsOneChain(table \cup more)
  <2> SUFFICES ASSUME NEW c \in table \cup more, NEW d \in table \cup more
               PROVE  Linked(c, d) \/ Linked(d, c)
    BY DEF IsOneChain
  <2>1. Len(c) <= Len(d) \/ Len(d) <= Len(c)
    BY <1>5, BlockFacts
  <2> QED
    BY <1>4, <1>5, <2>1, LinkedBelow
<1>7. NoGap(table \cup more)
  <2> SUFFICES ASSUME NEW c \in table \cup more, NEW h \in Epoch .. Len(c), h % Epoch = 0
               PROVE  \E d \in table \cup more : Len(d) = h
    BY DEF NoGap
  <2>0. h \in Nat /\ Epoch <= h /\ h <= Len(c)
    BY Constants, <1>5, BlockFacts
  <2>1. CASE c \in table
    BY <2>1 DEF Good, NoGap
  <2>2. CASE c \in more /\ h <= Len(f)
    <3>1. h \in Epoch .. Len(f)
      BY <2>0, <2>2, <1>1, Constants
    <3> QED
      BY <3>1, <1>1 DEF Good, NoGap
  <2>3. CASE c \in more /\ ~(h <= Len(f))
    <3>1. Len(f) < h /\ h <= Len(b)
      <4>1. Len(c) <= Len(b) /\ Len(c) \in Nat /\ Len(b) \in Nat
        BY <1>3, <2>3, BlockFacts DEF Linked
      <4> QED
        BY <4>1, <2>0, <2>3, <1>1
    <3>2. SubSeq(b, 1, h) \in more
      BY <2>0, <2>3, <3>1
    <3>3. Len(SubSeq(b, 1, h)) = h
      BY <2>0, <3>1, PrefixFacts
    <3> QED
      BY <3>2, <3>3
  <2> QED
    BY <2>1, <2>2, <2>3
<1> QED
  BY <1>5, <1>6, <1>7 DEF Good

\* One epoch more.
LEMMA GoodEpoch ==
  ASSUME NEW table, Good(table), table # {},
         NEW b \in Blocks, Linked(Frontier(table), b), Len(b) = Len(Frontier(table)) + Epoch
  PROVE  Good(table \cup {b})
<1> DEFINE f == Frontier(table)
<1>1. f \in table /\ Len(f) \in Nat /\ Len(f) % Epoch = 0
  BY FrontierIsHighest, BlockFacts DEF Good
<1>2. Len(b) \in Nat /\ Len(f) < Len(b) /\ Len(b) % Epoch = 0
  <2>1. Len(b) = Len(f) + Epoch
    OBVIOUS
  <2> HIDE DEF f
  <2>2. (Len(f) + Epoch) % Epoch = 0
    BY <1>1, Constants, NextMultiple
  <2> QED
    BY <1>1, <2>1, <2>2, Constants
<1>3. SubSeq(b, 1, Len(b)) = b
  BY BlockFacts, SubSeqFull
<1>4. \A h \in Nat : Len(f) < h /\ h <= Len(b) /\ h % Epoch = 0 => h = Len(b)
  <2> TAKE h \in Nat
  <2> HAVE Len(f) < h /\ h <= Len(b) /\ h % Epoch = 0
  <2>1. Len(f) + Epoch <= h
    <3> HIDE DEF f
    <3> QED
      BY <1>1, Constants, Multiples
  <2> QED
    BY <2>1, <1>2
<1>5. \A c \in {b} : \E h \in Nat : Len(f) < h /\ h <= Len(b) /\ h % Epoch = 0 /\ c = SubSeq(b, 1, h)
  BY <1>2, <1>3
<1>6. \A c \in {b} : \A h \in Nat :
         Len(f) < h /\ h <= Len(c) /\ h % Epoch = 0 => SubSeq(b, 1, h) \in {b}
  BY <1>3, <1>4
<1> HIDE DEF f
<1> QED
  BY <1>5, <1>6, GoodExtends DEF f

----------------------------------------------------------------------------
\* The invariant.

Judging == {"running", "recalling", "recording", "saving"}

\* What a call holds, over a chain of n blocks and the baked table b: the table it
\* loaded, and what it is to add to it.
HandsOK(b, f) ==
  /\ Good(b \cup f.kept)
  /\ Good(b \cup f.kept \cup f.add)
  /\ \A c \in f.kept \cup f.add : Len(c) > Len(Frontier(b))

\* The headers it read: each run from its own checkpoint, and only one from the
\* frontier reaches the next epoch.
RunsOK(b, f) ==
  /\ \A i \in DOMAIN f.runs :
       /\ f.runs[i].cp \in b \cup f.kept
       /\ Len(f.runs[i].cp) # Len(Frontier(b \cup f.kept)) =>
            Len(f.runs[i].top) < Len(Frontier(b \cup f.kept)) + Epoch
  /\ \A i, j \in DOMAIN f.runs : f.runs[i].cp = f.runs[j].cp => i = j
  /\ f.pc \in {"recalling", "recording"} => \A i \in DOMAIN f.runs : ValidRun(f.runs[i])

\* Where it is: nothing it has read is above the chain, which never gets shorter.
PlaceOK(n, b, t, f) ==
  /\ f.tip <= n
  /\ \A w \in Witnesses : f.proof[w] # None => Len(f.proof[w]) \in 1 .. n
  /\ \A w \in Witnesses :
       f.anchor[w] # None => f.proof[w] # None /\ Len(f.anchor[w]) = Len(f.proof[w])
  /\ t \in Verifiers /\ f.pc \in Judging => \A w \in f.want \ f.skip : f.anchor[w] # None
  /\ t \in Extenders => f.pc \in {"idle", "loading", "tip", "running", "saving"}
  /\ t \in Extenders /\ f.pc = "running" => Len(Frontier(b \cup f.kept)) + Epoch <= n
  /\ f.pc \notin Judging => f.runs = <<>>
  /\ f.pc # "saving" => f.add = {}

TaskInv(n, b, t, f) == TaskOK(f) /\ PlaceOK(n, b, t, f) /\ HandsOK(b, f) /\ RunsOK(b, f)

StoreInv ==
  /\ Epoch <= Len(chain)
  /\ baked # {} /\ Good(baked)
  /\ \A b \in baked : Linked(b, chain)
  /\ Good(baked \cup Kept(local))

TableInv ==
  /\ TypeOK
  /\ StoreInv
  /\ \A t \in Tasks : TaskInv(Len(chain), baked, t, task[t])

LEMMA IdleFields ==
  /\ DOMAIN Idle = {"pc", "want", "kept", "tip", "skip", "proof", "anchor", "runs",
                    "recalled", "add", "left", "answer"}
  /\ Idle.pc = "idle" /\ Idle.want = {} /\ Idle.kept = {} /\ Idle.tip = 0 /\ Idle.skip = {}
  /\ Idle.proof = [w \in Witnesses |-> None] /\ Idle.anchor = [w \in Witnesses |-> None]
  /\ Idle.runs = <<>> /\ Idle.recalled = [w \in Witnesses |-> 0] /\ Idle.add = {}
  /\ Idle.left = 0 /\ Idle.answer = None
BY DEF Idle

\* A call that holds nothing.
Reset(t, f) ==
  /\ DOMAIN f = DOMAIN Idle
  /\ f.pc \in {"idle", "loading", "done"} /\ (t \in Extenders => f.pc # "done")
  /\ f.want \subseteq Witnesses /\ f.skip \subseteq f.want
  /\ f.kept = {} /\ f.add = {} /\ f.tip = 0 /\ f.runs = <<>>
  /\ f.proof = [w \in Witnesses |-> None] /\ f.anchor = [w \in Witnesses |-> None]
  /\ f.recalled = [w \in Witnesses |-> 0]
  /\ f.left \in 0 .. MaxEpochs
  /\ f.answer \in {None, "mined", "refused", "threw"}

LEMMA ResetTask ==
  ASSUME NEW n \in Nat, NEW b, b # {}, Good(b), NEW t \in Tasks, NEW f, Reset(t, f)
  PROVE  TaskInv(n, b, t, f)
<1>1. TaskOK(f)
  <2>1. f.recalled \in [Witnesses -> Heights]
    BY Constants DEF Reset, Heights
  <2>2. f.tip \in Heights /\ f.runs \in Seq(Runs)
    BY Constants DEF Reset, Heights
  <2>3. \A w \in Witnesses : f.proof[w] = None /\ f.anchor[w] = None
    BY DEF Reset
  <2> QED
    BY <2>1, <2>2, <2>3 DEF Reset, TaskOK, Points
<1>2. PlaceOK(n, b, t, f)
  <2>1. \A w \in Witnesses : f.proof[w] = None /\ f.anchor[w] = None
    BY DEF Reset
  <2> QED
    BY <2>1 DEF Reset, PlaceOK, Judging
<1>3. HandsOK(b, f)
  <2>1. b \cup f.kept = b /\ b \cup f.kept \cup f.add = b /\ f.kept \cup f.add = {}
    BY DEF Reset
  <2> QED
    BY <2>1 DEF HandsOK
<1>4. RunsOK(b, f)
  <2>1. DOMAIN f.runs = {}
    BY DEF Reset
  <2> QED
    BY <2>1 DEF RunsOK
<1> QED
  BY <1>1, <1>2, <1>3, <1>4 DEF TaskInv

\* What a call holds stays good when the chain grows.
LEMMA LongerChain ==
  ASSUME NEW n \in Nat, NEW m \in Nat, n <= m, NEW b, b \subseteq Blocks, b # {},
         NEW t \in Tasks, NEW f, TaskInv(n, b, t, f)
  PROVE  TaskInv(m, b, t, f)
<1>1. f.tip \in Nat /\ \A w \in Witnesses : f.proof[w] # None => Len(f.proof[w]) \in Nat
  BY BlockFacts DEF TaskInv, TaskOK, Heights
<1>2. Len(Frontier(b \cup f.kept)) \in Nat
  <2>1. b \cup f.kept # {} /\ b \cup f.kept \subseteq Blocks
    BY DEF TaskInv, HandsOK, Good
  <2> QED
    BY <2>1, FrontierIsHighest, BlockFacts
<1>3. f.tip <= m
  BY <1>1 DEF TaskInv, PlaceOK
<1>4. \A w \in Witnesses : f.proof[w] # None => Len(f.proof[w]) \in 1 .. m
  BY <1>1 DEF TaskInv, PlaceOK
<1>5. t \in Extenders /\ f.pc = "running" => Len(Frontier(b \cup f.kept)) + Epoch <= m
  BY <1>2, Constants DEF TaskInv, PlaceOK
<1> QED
  BY <1>3, <1>4, <1>5 DEF TaskInv, PlaceOK

----------------------------------------------------------------------------
\* The store and the tables in it.

LEMMA KeptIsStored ==
  ASSUME NEW cps
  PROVE  Kept(cps) \subseteq cps /\ \A c \in Kept(cps) : Len(c) > Len(Frontier(baked))
BY DEF Kept

\* Nothing above the baked table conflicts with it.
LEMMA AboveIsKept ==
  ASSUME baked # {}, baked \subseteq Blocks, NEW cps, cps \subseteq Blocks,
         \A c \in cps : Len(c) > Len(Frontier(baked))
  PROVE  Kept(cps) = cps
<1>1. \A b \in baked : Len(b) <= Len(Frontier(baked)) /\ Len(b) \in Nat
  BY FrontierIsHighest, BlockFacts
<1>2. Len(Frontier(baked)) \in Nat /\ \A c \in cps : Len(c) \in Nat
  BY FrontierIsHighest, BlockFacts
<1>3. ~\E c \in cps, b \in baked : Len(b) = Len(c) /\ b # c
  BY <1>1, <1>2
<1> QED
  BY <1>3 DEF Kept

LEMMA InitTable == Init => TableInv
<1> SUFFICES ASSUME Init
             PROVE  TableInv
  OBVIOUS
<1>1. chain \in Blocks /\ Len(chain) = Epoch
  <2>1. [fork |-> 0, txs |-> {}] \in Contents
    BY Constants DEF Contents
  <2>2. chain \in Seq(Contents) /\ Len(chain) = Epoch
    BY <2>1, Constants DEF Init
  <2> QED
    BY <2>2, Constants DEF Blocks
<1>2. baked = {chain} /\ local = {} /\ Kept(local) = {}
  BY DEF Init, Kept
<1>3. Epoch % Epoch = 0
  BY Constants
<1>4. Good(baked)
  <2>1. NoGap(baked)
    <3> SUFFICES ASSUME NEW h \in Epoch .. Len(chain)
                 PROVE  Len(chain) = h
      BY <1>2 DEF NoGap
    <3> QED
      BY <1>1, Constants
  <2> QED
    BY <1>1, <1>2, <1>3, <2>1, LinkedRefl DEF Good, IsOneChain
<1>5. StoreInv
  <2>1. baked \cup Kept(local) = baked
    BY <1>2
  <2>2. Good(baked \cup Kept(local))
    BY <1>4, <2>1
  <2>3. \A b \in baked : Linked(b, chain)
    BY <1>1, <1>2, LinkedRefl
  <2>4. Epoch <= Len(chain) /\ baked # {}
    BY <1>1, <1>2, Constants
  <2> QED
    BY <1>4, <2>2, <2>3, <2>4 DEF StoreInv
<1>6. \A t \in Tasks : Reset(t, task[t])
  <2>1. \A t \in Tasks : task[t] = Idle
    BY DEF Init
  <2>2. 0 \in 0 .. MaxEpochs
    BY Constants
  <2> QED
    BY <2>1, <2>2, IdleFields DEF Reset
<1>7. \A t \in Tasks : TaskInv(Len(chain), baked, t, task[t])
  BY <1>1, <1>2, <1>4, <1>6, ResetTask, Constants
<1>8. TypeOK
  <2>1. DOMAIN task = Tasks /\ \A t \in Tasks : TaskOK(task[t])
    BY <1>7 DEF Init, TaskInv
  <2>2. cache \in [Witnesses -> Heights]
    BY Constants DEF Init, Heights
  <2>3. baked \subseteq Blocks /\ local \subseteq Blocks /\ \A c \in baked \cup local : Len(c) % Epoch = 0
    BY <1>1, <1>2, <1>3
  <2>4. seen \in [Verifiers -> SUBSET Witnesses] /\ dropped \subseteq Witnesses
          /\ calm \in [Verifiers -> BOOLEAN]
    BY DEF Init
  <2> QED
    BY <1>1, <2>1, <2>2, <2>3, <2>4 DEF TypeOK
<1> QED
  BY <1>5, <1>7, <1>8 DEF TableInv

\* A step of one call: what it must leave in order.
LEMMA OneTask ==
  ASSUME TableInv, NEW t \in Tasks,
         DOMAIN task' = Tasks, \A u \in Tasks \ {t} : task'[u] = task[u],
         TaskInv(Len(chain), baked, t, task'[t]),
         UNCHANGED <<chain, baked>>,
         \/ UNCHANGED local
         \/ /\ Good(baked \cup local')
            /\ \A c \in local' : Len(c) > Len(Frontier(baked)),
         cache' \in [Witnesses -> Heights],
         seen' \in [Verifiers -> SUBSET Witnesses], UNCHANGED dropped,
         calm' \in [Verifiers -> BOOLEAN]
  PROVE  TableInv'
<1>1. \A u \in Tasks : TaskInv(Len(chain'), baked', u, task'[u])
  BY DEF TableInv
<1>2. \A u \in Tasks : TaskOK(task'[u])
  BY <1>1 DEF TaskInv
<1>3. /\ local' \subseteq Blocks /\ \A c \in baked' \cup local' : Len(c) % Epoch = 0
      /\ Good(baked' \cup Kept(local)')
  <2>1. CASE UNCHANGED local
    <3>1. Kept(local)' = Kept(local)
      BY <2>1 DEF Kept
    <3> QED
      BY <2>1, <3>1 DEF TableInv, TypeOK, StoreInv
  <2>2. CASE Good(baked \cup local') /\ \A c \in local' : Len(c) > Len(Frontier(baked))
    <3>1. local' \subseteq Blocks /\ \A c \in baked \cup local' : Len(c) % Epoch = 0
      BY <2>2 DEF Good
    <3>2. Kept(local') = local'
      BY <2>2, <3>1, AboveIsKept DEF TableInv, TypeOK, StoreInv
    <3>3. Kept(local)' = Kept(local')
      BY DEF Kept
    <3> QED
      BY <2>2, <3>1, <3>2, <3>3
  <2> QED
    BY <2>1, <2>2
<1>4. StoreInv'
  BY <1>3 DEF TableInv, StoreInv
<1>5. TypeOK'
  BY <1>2, <1>3 DEF TableInv, TypeOK
<1> QED
  BY <1>1, <1>4, <1>5 DEF TableInv

LEMMA TaskFacts ==
  ASSUME TableInv, NEW t \in Tasks
  PROVE  /\ TaskInv(Len(chain), baked, t, task[t]) /\ TaskOK(task[t])
         /\ DOMAIN task = Tasks /\ DOMAIN task[t] = DOMAIN Idle
         /\ chain \in Blocks /\ Len(chain) \in Nat
         /\ baked # {} /\ baked \subseteq Blocks /\ Good(baked)
         /\ cache \in [Witnesses -> Heights] /\ seen \in [Verifiers -> SUBSET Witnesses]
         /\ calm \in [Verifiers -> BOOLEAN]
BY BlockFacts DEF TableInv, TypeOK, StoreInv, TaskInv, TaskOK

\* A call that ends, or starts anew.
LEMMA OneReset ==
  ASSUME TableInv, NEW t \in Tasks, NEW f, task' = [task EXCEPT ![t] = f], Reset(t, f),
         UNCHANGED <<chain, baked>>,
         \/ UNCHANGED local
         \/ /\ Good(baked \cup local')
            /\ \A c \in local' : Len(c) > Len(Frontier(baked)),
         cache' \in [Witnesses -> Heights],
         seen' \in [Verifiers -> SUBSET Witnesses], UNCHANGED dropped,
         calm' \in [Verifiers -> BOOLEAN]
  PROVE  TableInv'
<1>1. DOMAIN task' = Tasks /\ task'[t] = f /\ \A u \in Tasks \ {t} : task'[u] = task[u]
  BY TaskFacts
<1>2. TaskInv(Len(chain), baked, t, f)
  BY TaskFacts, ResetTask
<1> QED
  BY <1>1, <1>2, OneTask

LEMMA IdleIsReset ==
  ASSUME NEW t \in Tasks
  PROVE  Reset(t, Idle)
<1>1. 0 \in 0 .. MaxEpochs
  BY Constants
<1> QED
  BY <1>1, IdleFields DEF Reset

LEMMA AnswerIsReset ==
  ASSUME TableInv, NEW v \in Verifiers, NEW a \in {"mined", "refused", "threw"}
  PROVE  Reset(v, [Idle EXCEPT !.pc = "done", !.want = task[v].want,
                               !.skip = task[v].skip, !.answer = a])
<1>1. v \in Tasks /\ v \notin Extenders /\ 0 \in 0 .. MaxEpochs
  BY Constants, MinedAncestryAssumption DEF Tasks
<1>2. task[v].want \subseteq Witnesses /\ task[v].skip \subseteq task[v].want
  BY <1>1, TaskFacts DEF TaskOK
<1> QED
  BY <1>1, <1>2, IdleFields DEF Reset

LEMMA AnswersTable ==
  ASSUME TableInv, NEW v \in Verifiers, NEW a \in {"mined", "refused", "threw"},
         Answers(v, a),
         UNCHANGED <<chain, baked>>,
         \/ UNCHANGED local
         \/ /\ Good(baked \cup local')
            /\ \A c \in local' : Len(c) > Len(Frontier(baked)),
         cache' \in [Witnesses -> Heights],
         seen' \in [Verifiers -> SUBSET Witnesses], UNCHANGED dropped,
         calm' \in [Verifiers -> BOOLEAN]
  PROVE  TableInv'
<1>1. v \in Tasks
  BY DEF Tasks
<1> QED
  BY <1>1, AnswerIsReset, OneReset DEF Answers

LEMMA ThrowsTable ==
  ASSUME TableInv, NEW t \in Tasks, Throws(t), UNCHANGED <<chain, Storage>>,
         seen' \in [Verifiers -> SUBSET Witnesses], UNCHANGED dropped,
         calm' \in [Verifiers -> BOOLEAN]
  PROVE  TableInv'
<1>1. UNCHANGED <<chain, baked, local>> /\ cache' \in [Witnesses -> Heights]
  BY TaskFacts DEF Storage
<1>2. CASE t \in Verifiers
  BY <1>1, <1>2, AnswersTable DEF Throws
<1>3. CASE t \notin Verifiers
  BY <1>1, <1>3, IdleIsReset, OneReset DEF Throws
<1> QED
  BY <1>2, <1>3

----------------------------------------------------------------------------
\* The chain.

LEMMA ChainGrows ==
  ASSUME TableInv, NEW b \in Blocks, Len(chain) <= Len(b), ChainBecomes(b),
         \A c \in baked : Linked(c, b), dropped' \subseteq Witnesses
  PROVE  TableInv'
<1>1. chain' = b /\ UNCHANGED <<baked, local, cache, task, seen>>
        /\ calm' = [v \in Verifiers |-> FALSE]
  BY DEF ChainBecomes, Storage
<1>2. Len(chain) \in Nat /\ Len(b) \in Nat
  BY BlockFacts, TaskFacts DEF TableInv, TypeOK
<1>3. \A t \in Tasks : TaskInv(Len(chain'), baked', t, task'[t])
  BY <1>1, <1>2, LongerChain DEF TableInv, TypeOK, StoreInv
<1>4. Kept(local)' = Kept(local)
  BY <1>1 DEF Kept
<1>5. StoreInv'
  BY <1>1, <1>2, <1>4, Constants DEF TableInv, StoreInv
<1>6. TypeOK'
  BY <1>1 DEF TableInv, TypeOK
<1> QED
  BY <1>3, <1>5, <1>6 DEF TableInv

LEMMA MineBlock ==
  ASSUME TableInv, NEW txs \in SUBSET Witnesses, Mine(txs)
  PROVE  /\ chain' \in Blocks /\ Len(chain') = Len(chain) + 1
         /\ \A i \in 1 .. Len(chain) : chain'[i] = chain[i]
         /\ chain'[Len(chain) + 1].txs = txs
         /\ Linked(chain, chain')
<1> DEFINE e == [fork |-> chain[Len(chain)].fork, txs |-> txs]
<1>1. chain \in Blocks /\ chain \in Seq(Contents) /\ Len(chain) \in Nat /\ 1 <= Len(chain)
  BY BlockFacts, Constants DEF TableInv, TypeOK, StoreInv
<1>2. chain[Len(chain)].fork \in 0 .. MaxReorgs
  BY <1>1, BlockFacts
<1>3. e \in Contents
  BY <1>2 DEF Contents
<1>4. chain' = Append(chain, e) /\ Len(chain') <= MaxHeight
  BY DEF Mine, ChainBecomes
<1>5. /\ chain' \in Seq(Contents) /\ Len(chain') = Len(chain) + 1
      /\ \A i \in 1 .. Len(chain) : chain'[i] = chain[i]
      /\ chain'[Len(chain) + 1] = e
  <2> HIDE DEF e
  <2> QED
    BY <1>1, <1>3, <1>4, AppendProperties
<1>6. chain' \in Blocks
  BY <1>4, <1>5 DEF Blocks
<1>7. Linked(chain, chain')
  <2>1. Len(chain) <= Len(chain') /\ \A i \in 1 .. Len(chain) : chain[i] = chain'[i]
    BY <1>1, <1>5
  <2> QED
    BY <1>1, <1>6, <2>1, LinkedIsPointwise
<1> QED
  BY <1>5, <1>6, <1>7

LEMMA MineTable ==
  ASSUME TableInv, NEW txs \in SUBSET Witnesses, Mine(txs)
  PROVE  TableInv'
<1>1. chain \in Blocks /\ Len(chain) \in Nat /\ baked \subseteq Blocks
        /\ \A c \in baked : Linked(c, chain)
  BY TaskFacts, BlockFacts DEF TableInv, TypeOK, StoreInv
<1>2. chain' \in Blocks /\ Len(chain) <= Len(chain') /\ Linked(chain, chain')
  BY <1>1, MineBlock
<1>3. \A c \in baked : Linked(c, chain')
  BY <1>1, <1>2, LinkedTrans
<1>4. ChainBecomes(chain') /\ dropped' \subseteq Witnesses
  BY DEF Mine, ChainBecomes, TableInv, TypeOK
<1> QED
  BY <1>2, <1>3, <1>4, ChainGrows

\* What a reorganisation leaves, and what it brings.
LEMMA ReorgBlock ==
  ASSUME TableInv, NEW txs \in SUBSET Witnesses, NEW d \in 1 .. MaxDepth, Reorg(d, txs)
  PROVE  \E m \in Nat :
           /\ m < Len(chain) /\ \A c \in baked : Len(c) <= m
           /\ chain' \in Blocks /\ Len(chain) < Len(chain')
           /\ \A i \in 1 .. m : chain'[i] = chain[i]
           /\ \A i \in m + 1 .. Len(chain') : chain'[i].txs = IF i = m + 1 THEN txs ELSE {}
           /\ ChainBecomes(chain')
           /\ LET lost == Confirmed(chain) \ Confirmed(BlockAt(m)) IN
              txs \subseteq lost /\ dropped' = dropped \cup lost
<1> DEFINE m == Len(chain) - d
           base == BlockAt(m)
           fork == chain[Len(chain)].fork + 1
           lost == Confirmed(chain) \ Confirmed(base)
           rival == [i \in 1 .. d + 1 |-> [fork |-> fork, txs |-> IF i = 1 THEN txs ELSE {}]]
<1>1. chain \in Blocks /\ Len(chain) \in Nat /\ 1 <= Len(chain) /\ d \in Nat /\ 1 <= d
        /\ baked \subseteq Blocks /\ baked # {}
  BY TaskFacts, BlockFacts, Constants DEF TableInv, TypeOK, StoreInv
<1>2. /\ d <= Len(chain) - Len(Frontier(baked)) /\ fork <= MaxReorgs /\ txs \subseteq lost
      /\ ChainBecomes(base \o rival) /\ dropped' = dropped \cup lost
  BY DEF Reorg
<1>3. \A c \in baked : Len(c) <= Len(Frontier(baked)) /\ Len(c) \in Nat
  BY <1>1, FrontierIsHighest, BlockFacts
<1>4. Len(Frontier(baked)) \in Nat
  BY <1>1, <1>3, FrontierIsHighest
<1>5. m \in Nat /\ m < Len(chain) /\ \A c \in baked : Len(c) <= m
  BY <1>1, <1>2, <1>3, <1>4
<1>6. base \in Blocks /\ base \in Seq(Contents) /\ Len(base) = m /\ \A i \in 1 .. m : base[i] = chain[i]
  <2> HIDE DEF m
  <2> QED
    BY <1>1, <1>5, PrefixFacts, BlockFacts DEF BlockAt
<1>7. fork \in 0 .. MaxReorgs
  <2>1. chain[Len(chain)].fork \in 0 .. MaxReorgs
    BY <1>1, BlockFacts
  <2> QED
    BY <1>2, <2>1, Constants
<1>8. rival \in Seq(Contents) /\ Len(rival) = d + 1
  <2> HIDE DEF fork
  <2>1. \A i \in 1 .. d + 1 : [fork |-> fork, txs |-> IF i = 1 THEN txs ELSE {}] \in Contents
    BY <1>7 DEF Contents
  <2> QED
    BY <1>1, <2>1
<1>9. chain' = base \o rival /\ Len(chain') <= MaxHeight
  BY <1>2 DEF ChainBecomes
<1>10. /\ chain' \in Seq(Contents) /\ Len(chain') = Len(base) + Len(rival)
       /\ \A i \in 1 .. Len(base) + Len(rival) :
            chain'[i] = IF i <= Len(base) THEN base[i] ELSE rival[i - Len(base)]
  <2> HIDE DEF base, rival
  <2> QED
    BY <1>6, <1>8, <1>9, ConcatProperties
<1>11. Len(chain') = m + (d + 1) /\ m + d = Len(chain)
  <2>1. Len(chain') = m + (d + 1)
    BY <1>6, <1>8, <1>10
  <2> QED
    BY <1>1, <2>1
<1>12. chain' \in Blocks /\ Len(chain) < Len(chain')
  <2>1. Len(chain) < Len(chain')
    <3> HIDE DEF m
    <3> QED
      BY <1>1, <1>5, <1>11
  <2> QED
    BY <1>9, <1>10, <2>1 DEF Blocks
<1>13. \A i \in 1 .. m : chain'[i] = chain[i]
  <2> HIDE DEF base, rival, m
  <2> TAKE i \in 1 .. m
  <2> QED
    BY <1>1, <1>5, <1>6, <1>8, <1>10
<1>14. \A i \in m + 1 .. Len(chain') : chain'[i].txs = IF i = m + 1 THEN txs ELSE {}
  <2> TAKE i \in m + 1 .. Len(chain')
  <2>1. i - m \in 1 .. d + 1 /\ i \in Nat /\ ~(i <= m) /\ i \in 1 .. Len(base) + Len(rival)
    <3> HIDE DEF base, rival, m
    <3> QED
      BY <1>1, <1>5, <1>6, <1>8, <1>11
  <2>2. chain'[i] = rival[i - m]
    <3> HIDE DEF rival, m, base
    <3> QED
      BY <1>6, <1>10, <2>1
  <2>3. rival[i - m].txs = IF i - m = 1 THEN txs ELSE {}
    <3> HIDE DEF m, fork
    <3> QED
      BY <2>1
  <2>4. i - m = 1 <=> i = m + 1
    <3> HIDE DEF m
    <3> QED
      BY <2>1, <1>5
  <2> QED
    BY <2>2, <2>3, <2>4
<1>15. ChainBecomes(chain')
  BY <1>2, <1>9
<1> HIDE DEF m, base, rival, fork
<1> QED
  BY <1>2, <1>5, <1>12, <1>13, <1>14, <1>15 DEF base

LEMMA ReorgTable ==
  ASSUME TableInv, NEW txs \in SUBSET Witnesses, NEW d \in 1 .. MaxDepth, Reorg(d, txs)
  PROVE  TableInv'
<1>1. PICK m \in Nat :
           /\ m < Len(chain) /\ \A c \in baked : Len(c) <= m
           /\ chain' \in Blocks /\ Len(chain) < Len(chain')
           /\ \A i \in 1 .. m : chain'[i] = chain[i]
           /\ ChainBecomes(chain')
           /\ dropped' = dropped \cup (Confirmed(chain) \ Confirmed(BlockAt(m)))
  BY ReorgBlock
<1>2. chain \in Blocks /\ Len(chain) \in Nat /\ baked \subseteq Blocks /\ Len(chain') \in Nat
        /\ \A c \in baked : Linked(c, chain)
  BY <1>1, TaskFacts, BlockFacts DEF TableInv, TypeOK, StoreInv
<1>3. \A c \in baked : Linked(c, chain')
  <2> TAKE c \in baked
  <2>1. Len(c) <= m /\ Len(c) \in Nat /\ \A i \in 1 .. Len(c) : c[i] = chain[i]
    BY <1>1, <1>2, BlockFacts, LinkedIsPointwise
  <2>2. \A i \in 1 .. Len(c) : c[i] = chain'[i]
    BY <1>1, <2>1
  <2>3. Len(c) <= Len(chain')
    BY <1>1, <1>2, <2>1
  <2> QED
    BY <1>1, <1>2, <2>2, <2>3, LinkedIsPointwise
<1>4. Confirmed(chain) \subseteq Witnesses
  BY <1>2, BlockFacts DEF Confirmed
<1>5. dropped' \subseteq Witnesses
  BY <1>1, <1>4 DEF TableInv, TypeOK
<1> QED
  BY <1>1, <1>2, <1>3, <1>5, ChainGrows

----------------------------------------------------------------------------
\* Calls, and what they read before the headers.

LEMMA OnlyVerifiers ==
  ASSUME TableInv, NEW t \in Tasks,
         task[t].pc \notin {"idle", "loading", "tip", "running", "saving"}
  PROVE  t \in Verifiers
BY TaskFacts DEF TaskInv, PlaceOK, Tasks

LEMMA CallVerifyTable ==
  ASSUME TableInv, NEW v \in Verifiers, NEW s \in SUBSET Witnesses, CallVerify(v, s)
  PROVE  TableInv'
<1> DEFINE f == [Idle EXCEPT !.pc = "loading", !.want = s]
<1>1. v \in Tasks /\ v \notin Extenders /\ 0 \in 0 .. MaxEpochs
  BY Constants, MinedAncestryAssumption DEF Tasks
<1>2. Reset(v, f)
  BY <1>1, IdleFields DEF Reset
<1>3. /\ task' = [task EXCEPT ![v] = f] /\ UNCHANGED <<chain, baked, local, cache, dropped>>
      /\ seen' \in [Verifiers -> SUBSET Witnesses] /\ calm' \in [Verifiers -> BOOLEAN]
  BY <1>1, TaskFacts DEF CallVerify, Storage
<1> HIDE DEF f
<1> QED
  BY <1>1, <1>2, <1>3, OneReset, TaskFacts

LEMMA CallExtendTable ==
  ASSUME TableInv, NEW e \in Extenders, CallExtend(e)
  PROVE  TableInv'
<1> DEFINE f == [Idle EXCEPT !.pc = "loading", !.left = MaxEpochs]
<1>1. e \in Tasks /\ MaxEpochs \in 0 .. MaxEpochs
  BY Constants DEF Tasks
<1>2. Reset(e, f)
  BY <1>1, IdleFields DEF Reset
<1>3. /\ task' = [task EXCEPT ![e] = f] /\ UNCHANGED <<chain, baked, local, cache, dropped>>
      /\ seen' \in [Verifiers -> SUBSET Witnesses] /\ calm' \in [Verifiers -> BOOLEAN]
  BY <1>1, TaskFacts DEF CallExtend, Storage, history
<1> HIDE DEF f
<1> QED
  BY <1>1, <1>2, <1>3, OneReset, TaskFacts

LEMMA LoadTableTable ==
  ASSUME TableInv, NEW t \in Tasks, LoadTable(t)
  PROVE  TableInv'
<1> DEFINE f == task[t]
           g == task'[t]
<1>1. TaskInv(Len(chain), baked, t, f) /\ TaskOK(f) /\ f.pc = "loading"
  BY TaskFacts DEF LoadTable, At
<1>2. /\ DOMAIN task' = Tasks /\ \A u \in Tasks \ {t} : task'[u] = task[u]
      /\ DOMAIN g = DOMAIN Idle
      /\ g.kept = Kept(local) /\ g.pc \in {"cleaning", "tip"}
      /\ (t \notin Verifiers => g.pc = "tip")
      /\ g.want = f.want /\ g.tip = f.tip /\ g.skip = f.skip /\ g.proof = f.proof
      /\ g.anchor = f.anchor /\ g.runs = f.runs /\ g.recalled = f.recalled /\ g.add = f.add
      /\ g.left = f.left /\ g.answer = f.answer
  BY TaskFacts, IdleFields DEF LoadTable
<1>3. Kept(local) \subseteq Blocks /\ Good(baked \cup Kept(local))
        /\ \A c \in Kept(local) : Len(c) > Len(Frontier(baked))
  BY KeptIsStored DEF TableInv, TypeOK, StoreInv
<1>4. f.runs = <<>> /\ f.add = {}
  BY <1>1 DEF TaskInv, PlaceOK, Judging
<1> HIDE DEF f, g
<1>5. TaskOK(g)
  BY <1>1, <1>2, <1>3 DEF TaskOK, Points
<1>6. PlaceOK(Len(chain), baked, t, g)
  <2>1. t \in Extenders => t \notin Verifiers
    BY MinedAncestryAssumption
  <2> QED
    BY <1>1, <1>2, <1>4, <2>1 DEF TaskInv, PlaceOK, Judging
<1>7. HandsOK(baked, g)
  <2>1. baked \cup g.kept \cup g.add = baked \cup Kept(local) /\ g.kept \cup g.add = Kept(local)
    BY <1>2, <1>4
  <2> QED
    BY <1>2, <1>3, <2>1 DEF HandsOK
<1>8. RunsOK(baked, g)
  <2>1. DOMAIN g.runs = {}
    BY <1>2, <1>4
  <2> QED
    BY <2>1 DEF RunsOK
<1>9. TaskInv(Len(chain), baked, t, g)
  BY <1>5, <1>6, <1>7, <1>8 DEF TaskInv
<1>10. UNCHANGED <<chain, baked, local, cache, seen, dropped, calm>>
  BY DEF LoadTable, Storage, history
<1> QED
  BY <1>2, <1>9, <1>10, OneTask, TaskFacts DEF g

\* A step that moves a call on, and gives it nothing that the tables depend on.
LEMMA Moves ==
  ASSUME TableInv, NEW t \in Tasks,
         DOMAIN task' = Tasks, \A u \in Tasks \ {t} : task'[u] = task[u],
         TaskOK(task'[t]), PlaceOK(Len(chain), baked, t, task'[t]),
         task'[t].kept = task[t].kept, task'[t].add = task[t].add,
         task'[t].runs = task[t].runs,
         task'[t].pc \in {"recalling", "recording"} => task[t].pc \in {"recalling", "recording"},
         UNCHANGED <<chain, baked>>,
         \/ UNCHANGED local
         \/ /\ Good(baked \cup local')
            /\ \A c \in local' : Len(c) > Len(Frontier(baked)),
         cache' \in [Witnesses -> Heights],
         seen' \in [Verifiers -> SUBSET Witnesses], UNCHANGED dropped,
         calm' \in [Verifiers -> BOOLEAN]
  PROVE  TableInv'
<1>1. HandsOK(baked, task'[t]) /\ RunsOK(baked, task'[t])
  BY TaskFacts DEF TaskInv, HandsOK, RunsOK
<1>2. TaskInv(Len(chain), baked, t, task'[t])
  BY <1>1 DEF TaskInv
<1> QED
  BY <1>2, OneTask

LEMMA CleanTable ==
  ASSUME TableInv, NEW t \in Tasks, Clean(t)
  PROVE  TableInv'
<1> DEFINE f == task[t]
           g == task'[t]
<1>1. TaskInv(Len(chain), baked, t, f) /\ TaskOK(f) /\ f.pc = "cleaning"
  BY TaskFacts DEF Clean, At
<1>2. /\ DOMAIN task' = Tasks /\ \A u \in Tasks \ {t} : task'[u] = task[u]
      /\ DOMAIN g = DOMAIN Idle /\ g.pc = "tip"
      /\ g.kept = f.kept /\ g.want = f.want /\ g.tip = f.tip /\ g.skip = f.skip
      /\ g.proof = f.proof /\ g.anchor = f.anchor /\ g.runs = f.runs
      /\ g.recalled = f.recalled /\ g.add = f.add /\ g.left = f.left /\ g.answer = f.answer
  BY TaskFacts, IdleFields DEF Clean
<1>3. local' = f.kept /\ UNCHANGED <<chain, baked, cache, seen, dropped>>
  BY DEF Clean
<1>4. calm' \in [Verifiers -> BOOLEAN]
  BY TaskFacts DEF Clean, Disturbs
<1>5. Good(baked \cup local') /\ \A c \in local' : Len(c) > Len(Frontier(baked))
  BY <1>1, <1>3 DEF TaskInv, HandsOK
<1> HIDE DEF f, g
<1>6. TaskOK(g)
  BY <1>1, <1>2 DEF TaskOK, Points
<1>7. PlaceOK(Len(chain), baked, t, g)
  BY <1>1, <1>2 DEF TaskInv, PlaceOK, Judging
<1> QED
  BY <1>2, <1>3, <1>4, <1>5, <1>6, <1>7, Moves, TaskFacts DEF f, g

LEMMA ReadTipTable ==
  ASSUME TableInv, NEW t \in Tasks, ReadTip(t)
  PROVE  TableInv'
<1> DEFINE f == task[t]
           g == task'[t]
<1>1. TaskInv(Len(chain), baked, t, f) /\ TaskOK(f) /\ f.pc = "tip"
  BY TaskFacts DEF ReadTip, At
<1>2. UNCHANGED <<chain, baked, local, cache, seen, dropped, calm>>
  BY DEF ReadTip, Storage, history
<1>3. CASE t \in Verifiers
  <2>1. /\ DOMAIN task' = Tasks /\ \A u \in Tasks \ {t} : task'[u] = task[u]
        /\ DOMAIN g = DOMAIN Idle /\ g.pc = "partition" /\ g.tip = Len(chain)
        /\ g.kept = f.kept /\ g.want = f.want /\ g.skip = f.skip
        /\ g.proof = f.proof /\ g.anchor = f.anchor /\ g.runs = f.runs
        /\ g.recalled = f.recalled /\ g.add = f.add /\ g.left = f.left /\ g.answer = f.answer
    BY <1>3, TaskFacts, IdleFields DEF ReadTip
  <2>2. Len(chain) \in Heights /\ t \notin Extenders
    BY <1>3, BlockFacts, MinedAncestryAssumption DEF TableInv, TypeOK, Heights
  <2> HIDE DEF f, g
  <2>3. TaskOK(g)
    BY <1>1, <2>1, <2>2 DEF TaskOK, Points
  <2>4. PlaceOK(Len(chain), baked, t, g)
    BY <1>1, <2>1, <2>2 DEF TaskInv, PlaceOK, Judging, Heights
  <2> QED
    BY <1>1, <1>2, <2>1, <2>3, <2>4, Moves, TaskFacts DEF f, g
<1>4. CASE t \notin Verifiers /\ Len(Frontier(Table(t))) + Epoch > Len(chain)
  <2>1. task' = [task EXCEPT ![t] = Idle]
    BY <1>4 DEF ReadTip
  <2> QED
    BY <1>2, <2>1, IdleIsReset, OneReset, TaskFacts
<1>5. CASE t \notin Verifiers /\ ~(Len(Frontier(Table(t))) + Epoch > Len(chain))
  <2>1. /\ DOMAIN task' = Tasks /\ \A u \in Tasks \ {t} : task'[u] = task[u]
        /\ DOMAIN g = DOMAIN Idle /\ g.pc = "running" /\ g.tip = f.tip
        /\ g.kept = f.kept /\ g.want = f.want /\ g.skip = f.skip
        /\ g.proof = f.proof /\ g.anchor = f.anchor /\ g.runs = f.runs
        /\ g.recalled = f.recalled /\ g.add = f.add /\ g.left = f.left /\ g.answer = f.answer
    BY <1>5, TaskFacts, IdleFields DEF ReadTip
  <2>2. Len(Frontier(baked \cup f.kept)) \in Nat /\ Len(chain) \in Nat
    <3>1. baked \cup f.kept # {} /\ baked \cup f.kept \subseteq Blocks
      BY <1>1, TaskFacts DEF TaskInv, HandsOK, Good
    <3> QED
      BY <3>1, FrontierIsHighest, BlockFacts, TaskFacts
  <2>3. Len(Frontier(baked \cup f.kept)) + Epoch <= Len(chain)
    BY <1>5, <2>2, Constants DEF Table
  <2> HIDE DEF f, g
  <2>4. TaskOK(g)
    BY <1>1, <2>1 DEF TaskOK, Points
  <2>5. PlaceOK(Len(chain), baked, t, g)
    BY <1>1, <1>5, <2>1, <2>3 DEF TaskInv, PlaceOK, Judging
  <2> QED
    BY <1>1, <1>2, <2>1, <2>4, <2>5, Moves, TaskFacts DEF f, g
<1> QED
  BY <1>3, <1>4, <1>5

LEMMA PartitionTable ==
  ASSUME TableInv, NEW t \in Tasks, Partition(t)
  PROVE  TableInv'
<1> DEFINE f == task[t]
           g == task'[t]
           skip == Buried(t, cache)
<1>1. TaskInv(Len(chain), baked, t, f) /\ TaskOK(f) /\ f.pc = "partition" /\ t \in Verifiers
        /\ t \notin Extenders
  BY TaskFacts, OnlyVerifiers, MinedAncestryAssumption DEF Partition, At
<1>2. UNCHANGED <<chain, baked, local, cache, dropped, calm>>
  BY DEF Partition, Storage
<1>3. skip \subseteq f.want /\ f.want \subseteq Witnesses
  BY <1>1 DEF Buried, TaskOK
<1>4. seen' \in [Verifiers -> SUBSET Witnesses]
  BY <1>1, <1>3, TaskFacts DEF Partition
<1>5. /\ DOMAIN task' = Tasks /\ \A u \in Tasks \ {t} : task'[u] = task[u]
      /\ DOMAIN g = DOMAIN Idle /\ g.skip = skip
      /\ g.pc = IF skip = f.want THEN "running" ELSE "proving"
      /\ g.kept = f.kept /\ g.want = f.want /\ g.tip = f.tip
      /\ g.proof = f.proof /\ g.anchor = f.anchor /\ g.runs = f.runs
      /\ g.recalled = f.recalled /\ g.add = f.add /\ g.left = f.left /\ g.answer = f.answer
  BY TaskFacts, IdleFields DEF Partition
<1> HIDE DEF f, g, skip
<1>6. TaskOK(g)
  BY <1>1, <1>3, <1>5 DEF TaskOK, Points
<1>7. PlaceOK(Len(chain), baked, t, g)
  <2>1. g.pc \in Judging => g.want \ g.skip = {}
    BY <1>5 DEF Judging
  <2>2. g.runs = <<>> /\ g.add = {} /\ g.pc # "saving"
    BY <1>1, <1>5 DEF TaskInv, PlaceOK, Judging
  <2> QED
    BY <1>1, <1>5, <2>1, <2>2 DEF TaskInv, PlaceOK
<1>8. g.pc \notin {"recalling", "recording"}
  BY <1>5
<1> QED
  BY <1>1, <1>2, <1>4, <1>5, <1>6, <1>7, <1>8, Moves, TaskFacts DEF f, g

LEMMA HeightFacts ==
  ASSUME NEW b \in Blocks, NEW w \in Confirmed(b)
  PROVE  HeightIn(b, w) \in 1 .. Len(b) /\ w \in b[HeightIn(b, w)].txs
<1>1. \E h \in 1 .. Len(b) : w \in b[h].txs
  BY DEF Confirmed
<1> QED
  BY <1>1 DEF HeightIn

LEMMA FetchProofTable ==
  ASSUME TableInv, NEW t \in Tasks, NEW w \in Witnesses, FetchProof(t, w)
  PROVE  TableInv'
<1> DEFINE f == task[t]
           g == task'[t]
           h == HeightIn(chain, w)
<1>1. TaskInv(Len(chain), baked, t, f) /\ TaskOK(f) /\ f.pc = "proving" /\ t \in Verifiers
        /\ t \notin Extenders
  BY TaskFacts, OnlyVerifiers, MinedAncestryAssumption DEF FetchProof, At
<1>2. UNCHANGED <<chain, baked, local, cache, seen, dropped, calm>>
  BY DEF FetchProof, Storage, history
<1>3. CASE Throws(t)
  BY <1>2, <1>3, ThrowsTable, TaskFacts DEF Storage
<1>4. CASE ~Throws(t)
  <2>1. w \in Confirmed(chain)
    BY <1>4 DEF FetchProof
  <2>2. h \in 1 .. Len(chain) /\ BlockAt(h) \in Blocks /\ Len(BlockAt(h)) = h
    <3>1. h \in 1 .. Len(chain)
      BY <2>1, HeightFacts, TaskFacts
    <3> HIDE DEF h
    <3> QED
      BY <3>1, PrefixFacts, TaskFacts DEF BlockAt
  <2>3. /\ DOMAIN task' = Tasks /\ \A u \in Tasks \ {t} : task'[u] = task[u]
        /\ DOMAIN g = DOMAIN Idle /\ g.pc = "hashing"
        /\ g.proof = [f.proof EXCEPT ![w] = BlockAt(h)]
        /\ g.kept = f.kept /\ g.want = f.want /\ g.tip = f.tip /\ g.skip = f.skip
        /\ g.anchor = f.anchor /\ g.runs = f.runs
        /\ g.recalled = f.recalled /\ g.add = f.add /\ g.left = f.left /\ g.answer = f.answer
    BY <1>4, TaskFacts, IdleFields DEF FetchProof
  <2>4. f.anchor[w] = None
    BY DEF FetchProof, Anchored, Checked
  <2> HIDE DEF f, g, h
  <2>5. \A x \in Witnesses : x # w => g.proof[x] = f.proof[x]
    BY <2>3
  <2>6. g.proof[w] = BlockAt(h) \/ g.proof[w] = f.proof[w]
    BY <2>3
  <2>7. TaskOK(g)
    BY <1>1, <2>2, <2>3, <2>5, <2>6 DEF TaskOK, Points
  <2>8. PlaceOK(Len(chain), baked, t, g)
    BY <1>1, <2>2, <2>3, <2>4, <2>5, <2>6 DEF TaskInv, PlaceOK, Judging
  <2> QED
    BY <1>1, <1>2, <2>3, <2>7, <2>8, Moves, TaskFacts DEF f, g
<1> QED
  BY <1>3, <1>4

LEMMA FetchHashTable ==
  ASSUME TableInv, NEW t \in Tasks, NEW w \in Witnesses, FetchHash(t, w)
  PROVE  TableInv'
<1> DEFINE f == task[t]
           g == task'[t]
           h == Len(f.proof[w])
<1>1. TaskInv(Len(chain), baked, t, f) /\ TaskOK(f) /\ f.pc = "hashing" /\ t \in Verifiers
        /\ t \notin Extenders
  BY TaskFacts, OnlyVerifiers, MinedAncestryAssumption DEF FetchHash, At
<1>2. UNCHANGED <<chain, baked, local, cache, seen, dropped, calm>>
  BY DEF FetchHash, Storage, history
<1>3. f.proof[w] # None /\ f.anchor[w] = None
  BY DEF FetchHash
<1>4. h \in 1 .. Len(chain) /\ BlockAt(h) \in Blocks /\ Len(BlockAt(h)) = h /\ BlockAt(h) # None
  <2>1. h \in 1 .. Len(chain)
    BY <1>1, <1>3 DEF TaskInv, PlaceOK
  <2> HIDE DEF h
  <2>2. BlockAt(h) \in Blocks /\ Len(BlockAt(h)) = h
    BY <2>1, PrefixFacts, TaskFacts DEF BlockAt
  <2> QED
    BY <2>1, <2>2, SentinelAssumption
<1>5. /\ DOMAIN task' = Tasks /\ \A u \in Tasks \ {t} : task'[u] = task[u]
      /\ DOMAIN g = DOMAIN Idle /\ g.pc = NextPoint(t, Anchored(t) \cup {w})
      /\ g.anchor = [f.anchor EXCEPT ![w] = BlockAt(h)]
      /\ g.kept = f.kept /\ g.want = f.want /\ g.tip = f.tip /\ g.skip = f.skip
      /\ g.proof = f.proof /\ g.runs = f.runs
      /\ g.recalled = f.recalled /\ g.add = f.add /\ g.left = f.left /\ g.answer = f.answer
  BY TaskFacts, IdleFields DEF FetchHash
<1>6. g.pc \in {"proving", "running"}
        /\ (g.pc = "running" => Anchored(t) \cup {w} = f.want \ f.skip)
  <2>1. Checked(t) = f.want \ f.skip
    BY DEF Checked
  <2> HIDE DEF f, g
  <2> QED
    BY <1>5, <2>1 DEF NextPoint
<1>7. \A x \in Anchored(t) : f.anchor[x] # None
  BY DEF Anchored
<1>8. f.runs = <<>> /\ f.add = {}
  BY <1>1 DEF TaskInv, PlaceOK, Judging
<1> HIDE DEF f, g, h
<1>9. \A x \in Witnesses : x # w => g.anchor[x] = f.anchor[x]
  BY <1>5
<1>10. g.anchor[w] = BlockAt(h)
  BY <1>1, <1>5 DEF TaskOK
<1>11. TaskOK(g)
  BY <1>1, <1>4, <1>5, <1>6 DEF TaskOK, Points
<1>12. g.pc \in Judging => \A x \in g.want \ g.skip : g.anchor[x] # None
  BY <1>1, <1>4, <1>5, <1>6, <1>7, <1>9, <1>10 DEF TaskOK, Judging
<1>13. PlaceOK(Len(chain), baked, t, g)
  BY <1>1, <1>3, <1>4, <1>5, <1>6, <1>8, <1>9, <1>10, <1>12 DEF h, TaskInv, PlaceOK
<1>14. g.pc \notin {"recalling", "recording"}
  BY <1>6
<1> QED
  BY <1>1, <1>2, <1>5, <1>11, <1>13, <1>14, Moves, TaskFacts DEF f, g

----------------------------------------------------------------------------
\* The headers.

LEMMA TableFacts ==
  ASSUME TableInv, NEW t \in Tasks
  PROVE  /\ Table(t) = baked \cup task[t].kept /\ Good(Table(t))
         /\ Table(t) # {} /\ Table(t) \subseteq Blocks
         /\ Frontier(Table(t)) \in Table(t) /\ Len(Frontier(Table(t))) \in Nat
         /\ \A d \in Table(t) : Len(d) \in Nat /\ Len(d) <= Len(Frontier(Table(t)))
<1>1. Table(t) = baked \cup task[t].kept
  BY DEF Table
<1>2. Good(Table(t)) /\ Table(t) # {}
  BY <1>1, TaskFacts DEF TaskInv, HandsOK
<1>3. Table(t) \subseteq Blocks
  BY <1>2 DEF Good
<1> QED
  BY <1>1, <1>2, <1>3, FrontierIsHighest, BlockFacts

\* The highest witness of a group, and how far its run goes.
LEMMA RunTopFacts ==
  ASSUME TableInv, NEW v \in Verifiers, At(v, "running"), NEW c \in Groups(v)
  PROVE  \E w \in Group(v, c) :
           /\ Len(task[v].anchor[w]) \in Nat
           /\ \A x \in Group(v, c) : Len(task[v].anchor[x]) <= Len(task[v].anchor[w])
           /\ RunTop(v, c) = IF Len(task[v].anchor[w]) + Confs <= task[v].tip
                               THEN Len(task[v].anchor[w]) + Confs ELSE task[v].tip
           /\ RunTop(v, c) \in Nat /\ RunTop(v, c) <= Len(chain)
<1> DEFINE f == task[v]
           lens == {Len(f.anchor[w]) : w \in Group(v, c)}
           Highest(h) == h \in lens /\ \A w \in Group(v, c) : Len(f.anchor[w]) <= h
           highest == CHOOSE h \in lens : \A w \in Group(v, c) : Len(f.anchor[w]) <= h
<1>1. v \in Tasks /\ TaskInv(Len(chain), baked, v, f) /\ TaskOK(f) /\ f.pc = "running"
  BY TaskFacts DEF Tasks, At
<1>2. Group(v, c) \subseteq f.want \ f.skip /\ f.want \subseteq Witnesses
  BY <1>1 DEF Group, Checked, TaskOK
<1>3. \A w \in Group(v, c) : Len(f.anchor[w]) \in 0 .. MaxHeight
  <2> TAKE w \in Group(v, c)
  <2>1. f.anchor[w] # None /\ w \in Witnesses
    BY <1>1, <1>2 DEF TaskInv, PlaceOK, Judging
  <2>2. f.anchor[w] \in Blocks
    BY <1>1, <2>1 DEF TaskOK
  <2> QED
    BY <2>2, BlockFacts, Constants
<1>4. Group(v, c) # {}
  BY DEF Groups, Group
<1>5. \E h \in lens : \A k \in lens : k <= h
  <2>1. lens \subseteq 0 .. MaxHeight /\ lens # {}
    BY <1>3, <1>4
  <2> HIDE DEF lens
  <2> QED
    BY <2>1, GreatestNat, Constants
<1>6. \E h \in lens : \A w \in Group(v, c) : Len(f.anchor[w]) <= h
  BY <1>5
<1>7. highest \in lens /\ \A w \in Group(v, c) : Len(f.anchor[w]) <= highest
  <2> HIDE DEF lens
  <2> QED
    BY <1>6
<1>8. RunTop(v, c) = IF highest + Confs <= f.tip THEN highest + Confs ELSE f.tip
  BY DEF RunTop
<1>9. f.tip \in Nat /\ f.tip <= Len(chain) /\ Len(chain) \in Nat
  BY <1>1, TaskFacts DEF TaskInv, PlaceOK, TaskOK, Heights
<1>10. PICK w \in Group(v, c) : highest = Len(f.anchor[w])
  BY <1>7
<1>11. highest \in Nat
  <2>1. Len(f.anchor[w]) \in 0 .. MaxHeight
    BY <1>3
  <2> HIDE DEF highest
  <2> QED
    BY <1>10, <2>1, Constants
<1> HIDE DEF highest, lens, f
<1>12. RunTop(v, c) \in Nat /\ RunTop(v, c) <= Len(chain)
  <2>1. CASE highest + Confs <= f.tip
    BY <1>8, <1>9, <1>11, <2>1, Constants
  <2>2. CASE ~(highest + Confs <= f.tip)
    BY <1>8, <1>9, <2>2
  <2> QED
    BY <2>1, <2>2
<1> QED
  BY <1>7, <1>8, <1>10, <1>11, <1>12 DEF f

\* A group below the frontier has its witnesses below the frontier.
LEMMA GroupIsBelow ==
  ASSUME TableInv, NEW v \in Verifiers, At(v, "running"), NEW c \in Table(v),
         NEW w \in Group(v, c), Len(task[v].anchor[w]) \in Nat,
         Len(c) # Len(Frontier(Table(v)))
  PROVE  Len(task[v].anchor[w]) < Len(Frontier(Table(v)))
<1> DEFINE h == Len(task[v].anchor[w])
           low == {d \in Table(v) : Len(d) <= h}
<1>1. v \in Tasks
  BY DEF Tasks
<1>2. c = Frontier(low)
  BY DEF Group, CheckpointOf, Nearest
<1>3. SUFFICES ASSUME Len(Frontier(Table(v))) <= h
               PROVE  FALSE
  BY <1>1, TableFacts
<1>4. Frontier(Table(v)) \in low /\ low \subseteq Blocks /\ low \subseteq Table(v)
  BY <1>1, <1>3, TableFacts
<1> HIDE DEF low
<1>5. Len(Frontier(Table(v))) <= Len(c)
  BY <1>2, <1>4, FrontierIsHighest
<1> QED
  BY <1>1, <1>5, TableFacts

LEMMA FetchRunTable ==
  ASSUME TableInv, NEW t \in Tasks, NEW c \in Table(t), FetchRun(t, c)
  PROVE  TableInv'
<1> DEFINE f == task[t]
           g == task'[t]
           to == RunTop(t, c)
           r == [cp |-> c, top |-> BlockAt(to)]
<1>1. TaskInv(Len(chain), baked, t, f) /\ TaskOK(f) /\ f.pc = "running" /\ t \in Verifiers
        /\ t \notin Extenders /\ At(t, "running")
  BY TaskFacts, MinedAncestryAssumption DEF FetchRun, At
<1>2. UNCHANGED <<chain, baked, local, cache, dropped, calm>>
  BY DEF FetchRun, Storage
<1>3. seen' \in [Verifiers -> SUBSET Witnesses]
  <2>1. Checked(t) \subseteq Witnesses
    BY <1>1 DEF Checked, TaskOK
  <2> QED
    BY <2>1, TaskFacts DEF FetchRun
<1>4. CASE Throws(t)
  BY <1>2, <1>3, <1>4, ThrowsTable, TaskFacts DEF Storage
<1>5. CASE ~Throws(t)
  <2>1. c \in Groups(t) /\ c \notin {q.cp : q \in Segments(t)}
    BY DEF FetchRun
  <2>2. PICK w \in Group(t, c) :
          /\ Len(task[t].anchor[w]) \in Nat
          /\ to = IF Len(task[t].anchor[w]) + Confs <= task[t].tip
                    THEN Len(task[t].anchor[w]) + Confs ELSE task[t].tip
          /\ to \in Nat /\ to <= Len(chain)
    BY <1>1, <2>1, RunTopFacts
  <2>3. f.tip \in Nat
    BY <1>1 DEF TaskOK, Heights
  <2>4. BlockAt(to) \in Blocks /\ Len(BlockAt(to)) = to /\ c \in Blocks /\ r \in Runs
    <3>1. BlockAt(to) \in Blocks /\ Len(BlockAt(to)) = to
      <4> HIDE DEF to
      <4> QED
        BY <2>2, PrefixFacts, TaskFacts DEF BlockAt
    <3>2. c \in Blocks
      BY TableFacts
    <3> QED
      BY <3>1, <3>2 DEF Runs
  <2>5. Len(c) # Len(Frontier(Table(t))) => to < Len(Frontier(Table(t))) + Epoch
    <3> SUFFICES ASSUME Len(c) # Len(Frontier(Table(t)))
                 PROVE  to < Len(Frontier(Table(t))) + Epoch
      OBVIOUS
    <3>1. Len(task[t].anchor[w]) < Len(Frontier(Table(t))) /\ Len(Frontier(Table(t))) \in Nat
      BY <1>1, <2>2, GroupIsBelow, TableFacts
    <3>2. to <= Len(task[t].anchor[w]) + Confs
      <4> HIDE DEF to
      <4> QED
        BY <2>2, <2>3, Constants
    <3> HIDE DEF to
    <3> QED
      BY <2>2, <3>1, <3>2, Constants
  <2>6. /\ DOMAIN task' = Tasks /\ \A u \in Tasks \ {t} : task'[u] = task[u]
        /\ DOMAIN g = DOMAIN Idle /\ g.pc = f.pc
        /\ g.runs = Append(f.runs, r)
        /\ g.kept = f.kept /\ g.want = f.want /\ g.tip = f.tip /\ g.skip = f.skip
        /\ g.proof = f.proof /\ g.anchor = f.anchor
        /\ g.recalled = f.recalled /\ g.add = f.add /\ g.left = f.left /\ g.answer = f.answer
    BY <1>5, TaskFacts, IdleFields DEF FetchRun
  <2>7. r.cp = c /\ Len(r.top) = to
    BY <2>4
  <2>8. \A i \in DOMAIN f.runs : f.runs[i].cp # c
    BY <2>1 DEF Segments, Range
  <2>9. Table(t) = baked \cup f.kept
    BY DEF Table
  <2> HIDE DEF f, g, r, to
  <2>10. /\ g.runs \in Seq(Runs) /\ Len(f.runs) \in Nat
         /\ DOMAIN g.runs = 1 .. Len(f.runs) + 1 /\ DOMAIN f.runs = 1 .. Len(f.runs)
         /\ \A i \in 1 .. Len(f.runs) : g.runs[i] = f.runs[i]
         /\ g.runs[Len(f.runs) + 1] = r
    <3>1. f.runs \in Seq(Runs)
      BY <1>1 DEF TaskOK
    <3> QED
      BY <2>4, <2>6, <3>1, AppendProperties
  <2>11. TaskOK(g)
    BY <1>1, <2>6, <2>10 DEF TaskOK
  <2>12. PlaceOK(Len(chain), baked, t, g)
    BY <1>1, <2>6 DEF TaskInv, PlaceOK, Judging
  <2>13. HandsOK(baked, g)
    BY <1>1, <2>6 DEF TaskInv, HandsOK
  <2>14. RunsOK(baked, g)
    <3>1. \A i \in DOMAIN g.runs :
            \/ i \in DOMAIN f.runs /\ g.runs[i] = f.runs[i]
            \/ i = Len(f.runs) + 1 /\ g.runs[i] = r
      BY <2>10
    <3>2. \A i \in DOMAIN g.runs :
            /\ g.runs[i].cp \in baked \cup g.kept
            /\ Len(g.runs[i].cp) # Len(Frontier(baked \cup g.kept)) =>
                 Len(g.runs[i].top) < Len(Frontier(baked \cup g.kept)) + Epoch
      BY <1>1, <2>5, <2>6, <2>7, <2>9, <3>1 DEF TaskInv, RunsOK
    <3>3. \A i, j \in DOMAIN g.runs : g.runs[i].cp = g.runs[j].cp => i = j
      <4> SUFFICES ASSUME NEW i \in DOMAIN g.runs, NEW j \in DOMAIN g.runs,
                          g.runs[i].cp = g.runs[j].cp
                   PROVE  i = j
        OBVIOUS
      <4>1. CASE i \in DOMAIN f.runs /\ j \in DOMAIN f.runs
        BY <1>1, <2>10, <4>1 DEF TaskInv, RunsOK
      <4>2. CASE i = Len(f.runs) + 1 /\ j \in DOMAIN f.runs
        BY <2>7, <2>8, <2>10, <4>2
      <4>3. CASE i \in DOMAIN f.runs /\ j = Len(f.runs) + 1
        BY <2>7, <2>8, <2>10, <4>3
      <4> QED
        BY <3>1, <4>1, <4>2, <4>3
    <3>4. g.pc \notin {"recalling", "recording"}
      BY <1>1, <2>6
    <3> QED
      BY <3>2, <3>3, <3>4 DEF RunsOK
  <2>15. TaskInv(Len(chain), baked, t, g)
    BY <2>11, <2>12, <2>13, <2>14 DEF TaskInv
  <2> QED
    BY <1>2, <1>3, <2>6, <2>15, OneTask, TaskFacts DEF g
<1> QED
  BY <1>4, <1>5

LEMMA JudgeTable ==
  ASSUME TableInv, NEW t \in Tasks, Judge(t)
  PROVE  TableInv'
<1> DEFINE f == task[t]
           g == task'[t]
<1>1. TaskInv(Len(chain), baked, t, f) /\ TaskOK(f) /\ f.pc = "running" /\ t \in Verifiers
        /\ t \notin Extenders
  BY TaskFacts, MinedAncestryAssumption DEF Judge, At
<1>2. UNCHANGED <<chain, baked, local, cache, seen, dropped, calm>>
  BY DEF Judge, Storage, history
<1>3. CASE Throws(t)
  BY <1>2, <1>3, ThrowsTable, TaskFacts DEF Storage
<1>4. CASE Answers(t, "refused")
  BY <1>1, <1>2, <1>4, AnswersTable, TaskFacts
<1>5. CASE FromSegments(t) /\ task' = [task EXCEPT ![t].pc = "recalling"]
  <2>1. /\ DOMAIN task' = Tasks /\ \A u \in Tasks \ {t} : task'[u] = task[u]
        /\ DOMAIN g = DOMAIN Idle /\ g.pc = "recalling"
        /\ g.kept = f.kept /\ g.want = f.want /\ g.tip = f.tip /\ g.skip = f.skip
        /\ g.proof = f.proof /\ g.anchor = f.anchor /\ g.runs = f.runs
        /\ g.recalled = f.recalled /\ g.add = f.add /\ g.left = f.left /\ g.answer = f.answer
    BY <1>5, TaskFacts, IdleFields
  <2>2. \A i \in DOMAIN f.runs : ValidRun(f.runs[i])
    BY <1>5 DEF FromSegments, Segments, Range
  <2> HIDE DEF f, g
  <2>3. TaskOK(g)
    BY <1>1, <2>1 DEF TaskOK, Points
  <2>4. PlaceOK(Len(chain), baked, t, g)
    BY <1>1, <2>1 DEF TaskInv, PlaceOK, Judging
  <2>5. HandsOK(baked, g) /\ RunsOK(baked, g)
    BY <1>1, <2>1, <2>2 DEF TaskInv, HandsOK, RunsOK
  <2>6. TaskInv(Len(chain), baked, t, g)
    BY <2>3, <2>4, <2>5 DEF TaskInv
  <2> QED
    BY <1>2, <2>1, <2>6, OneTask, TaskFacts DEF g
<1> QED
  BY <1>3, <1>4, <1>5 DEF Judge

LEMMA RecallTable ==
  ASSUME TableInv, NEW t \in Tasks, Recall(t)
  PROVE  TableInv'
<1> DEFINE f == task[t]
           g == task'[t]
<1>1. TaskInv(Len(chain), baked, t, f) /\ TaskOK(f) /\ f.pc = "recalling" /\ t \in Verifiers
        /\ t \notin Extenders
  BY TaskFacts, OnlyVerifiers, MinedAncestryAssumption DEF Recall, At
<1>2. UNCHANGED <<chain, baked, local, cache, seen, dropped, calm>>
  BY DEF Recall, Storage, history
<1>3. /\ DOMAIN task' = Tasks /\ \A u \in Tasks \ {t} : task'[u] = task[u]
      /\ DOMAIN g = DOMAIN Idle /\ g.pc = "recording" /\ g.recalled = cache
      /\ g.kept = f.kept /\ g.want = f.want /\ g.tip = f.tip /\ g.skip = f.skip
      /\ g.proof = f.proof /\ g.anchor = f.anchor /\ g.runs = f.runs
      /\ g.add = f.add /\ g.left = f.left /\ g.answer = f.answer
  BY TaskFacts, IdleFields DEF Recall
<1> HIDE DEF f, g
<1>4. TaskOK(g)
  BY <1>1, <1>3, TaskFacts DEF TaskOK, Points
<1>5. PlaceOK(Len(chain), baked, t, g)
  BY <1>1, <1>3 DEF TaskInv, PlaceOK, Judging
<1> QED
  BY <1>1, <1>2, <1>3, <1>4, <1>5, Moves, TaskFacts DEF f, g

----------------------------------------------------------------------------
\* What is added to the store.

LEMMA HarvestGood ==
  ASSUME TableInv, NEW v \in Verifiers, At(v, "recording")
  PROVE  /\ Good(Table(v) \cup Harvest(v)) /\ Harvest(v) \subseteq Blocks
         /\ \A c \in Harvest(v) : Len(c) > Len(Frontier(Table(v)))
<1> DEFINE f == task[v]
           table == Table(v)
           front == Frontier(Table(v))
<1>1. v \in Tasks /\ TaskInv(Len(chain), baked, v, f) /\ TaskOK(f) /\ f.pc = "recording"
  BY TaskFacts DEF Tasks, At
<1>2. /\ table = baked \cup f.kept /\ Good(table) /\ table # {} /\ table \subseteq Blocks
      /\ front \in table /\ Len(front) \in Nat /\ Len(front) % Epoch = 0
      /\ \A d \in table : Len(d) \in Nat /\ Len(d) <= Len(front)
  BY <1>1, TableFacts DEF Good
<1>3. \A i \in DOMAIN f.runs :
        /\ f.runs[i].cp \in table /\ f.runs[i].top \in Blocks
        /\ Len(f.runs[i].cp) # Len(front) => Len(f.runs[i].top) < Len(front) + Epoch
        /\ Linked(f.runs[i].cp, f.runs[i].top)
  <2>1. \A i \in DOMAIN f.runs : f.runs[i] \in Runs
    BY <1>1 DEF TaskOK
  <2> QED
    BY <1>1, <1>2, <2>1 DEF TaskInv, RunsOK, Runs, ValidRun
<1>4. \A c \in Harvest(v) : \E i \in DOMAIN f.runs : \E h \in Nat :
        /\ h <= Len(f.runs[i].top) /\ h % Epoch = 0 /\ c = SubSeq(f.runs[i].top, 1, h)
        /\ Len(f.runs[i].cp) <= h /\ Len(c) > Len(front)
  <2> TAKE c \in Harvest(v)
  <2>1. PICK r \in Segments(v) : c \in Boundaries(r.top, Len(r.cp))
    BY DEF Harvest
  <2>2. Len(c) > Len(front)
    BY DEF Harvest
  <2>3. PICK i \in DOMAIN f.runs : r = f.runs[i]
    BY DEF Segments, Range
  <2>4. PICK h \in Len(r.cp) .. Len(r.top) : h % Epoch = 0 /\ c = SubSeq(r.top, 1, h)
    BY <2>1 DEF Boundaries
  <2>5. Len(r.cp) \in Nat /\ Len(r.top) \in Nat
    BY <1>2, <1>3, <2>3, BlockFacts
  <2>6. h \in Nat /\ h <= Len(r.top) /\ Len(r.cp) <= h
    BY <2>5
  <2> HIDE DEF f, front
  <2> QED
    BY <2>2, <2>3, <2>4, <2>6
<1>5. \A c \in Harvest(v) : \E i \in DOMAIN f.runs : \E h \in Nat :
        /\ Len(front) < h /\ h <= Len(f.runs[i].top) /\ h % Epoch = 0
        /\ c = SubSeq(f.runs[i].top, 1, h) /\ f.runs[i].cp = front
  <2> TAKE c \in Harvest(v)
  <2>1. PICK i \in DOMAIN f.runs, h \in Nat :
          /\ h <= Len(f.runs[i].top) /\ h % Epoch = 0 /\ c = SubSeq(f.runs[i].top, 1, h)
          /\ Len(c) > Len(front)
    BY <1>4
  <2> HIDE DEF f, front, table
  <2>2. Len(c) = h /\ Len(f.runs[i].top) \in Nat
    BY <1>3, <2>1, PrefixFacts, BlockFacts
  <2>3. Len(front) < h
    BY <1>2, <2>1, <2>2
  <2>4. Len(front) + Epoch <= h
    BY <1>2, <2>1, <2>3, Constants, Multiples
  <2>5. Len(f.runs[i].cp) = Len(front)
    BY <1>2, <1>3, <2>1, <2>2, <2>4, Constants
  <2>6. f.runs[i].cp = Frontier(table)
    BY <1>2, <1>3, <2>5, FrontierIsTheOne
  <2>7. Frontier(table) = front
    BY DEF table, front
  <2> QED
    BY <2>1, <2>3, <2>6, <2>7
<1>6. \A c \in Harvest(v) : Len(c) > Len(front)
  BY <1>4
<1>7. CASE Harvest(v) = {}
  <2>1. table \cup Harvest(v) = table
    BY <1>7
  <2> QED
    BY <1>2, <1>7, <2>1
<1>8. CASE Harvest(v) # {}
  <2>1. PICK i \in DOMAIN f.runs : f.runs[i].cp = front
    BY <1>5, <1>8
  <2> DEFINE b == f.runs[i].top
  <2>2. b \in Blocks /\ Linked(front, b) /\ Len(b) \in Nat
    BY <1>3, <2>1, BlockFacts
  <2>3. \A c \in Harvest(v) : \E h \in Nat :
          Len(front) < h /\ h <= Len(b) /\ h % Epoch = 0 /\ c = SubSeq(b, 1, h)
    <3> TAKE c \in Harvest(v)
    <3>1. PICK j \in DOMAIN f.runs, h \in Nat :
            /\ Len(front) < h /\ h <= Len(f.runs[j].top) /\ h % Epoch = 0
            /\ c = SubSeq(f.runs[j].top, 1, h) /\ f.runs[j].cp = front
      BY <1>5
    <3>2. i = j
      BY <1>1, <2>1, <3>1 DEF TaskInv, RunsOK
    <3> QED
      BY <3>1, <3>2
  <2>4. \A h \in Nat : Len(front) < h /\ h <= Len(b) /\ h % Epoch = 0
                         => SubSeq(b, 1, h) \in Harvest(v)
    <3> TAKE h \in Nat
    <3> HAVE Len(front) < h /\ h <= Len(b) /\ h % Epoch = 0
    <3>1. f.runs[i] \in Segments(v)
      BY DEF Segments, Range
    <3>2. h \in Len(f.runs[i].cp) .. Len(b)
      <4> HIDE DEF f, b, front
      <4> QED
        BY <1>2, <2>1, <2>2
    <3>3. SubSeq(b, 1, h) \in Boundaries(b, Len(f.runs[i].cp))
      BY <3>2 DEF Boundaries
    <3>4. Len(SubSeq(b, 1, h)) = h
      <4> HIDE DEF b
      <4> QED
        BY <2>2, PrefixFacts
    <3>5. Len(SubSeq(b, 1, h)) > Len(front)
      <4> HIDE DEF b, front
      <4> QED
        BY <3>4, <1>2
    <3> QED
      BY <3>1, <3>3, <3>5 DEF Harvest
  <2>5. \A c \in Harvest(v) : \A h \in Nat :
          Len(front) < h /\ h <= Len(c) /\ h % Epoch = 0 => SubSeq(b, 1, h) \in Harvest(v)
    <3> TAKE c \in Harvest(v)
    <3> HIDE DEF b, front, f
    <3>1. Len(c) <= Len(b)
      BY <2>2, <2>3, PrefixFacts
    <3>2. Len(c) \in Nat
      BY <2>2, <2>3, PrefixFacts
    <3> QED
      BY <2>2, <2>4, <3>1, <3>2
  <2>6. Harvest(v) \subseteq Blocks
    <3> HIDE DEF b, front, f
    <3> QED
      BY <2>2, <2>3, PrefixFacts
  <2>7. Good(Table(v) \cup Harvest(v))
    <3>1. Good(Table(v)) /\ Table(v) # {}
      BY <1>2
    <3> HIDE DEF b, f, table
    <3> QED
      BY <2>2, <2>3, <2>5, <3>1, GoodExtends
  <2> QED
    BY <1>6, <2>6, <2>7
<1> QED
  BY <1>7, <1>8

\* A frontier of a table is at least that of the baked one in it.
LEMMA AboveBaked ==
  ASSUME TableInv, NEW t \in Tasks
  PROVE  Len(Frontier(baked)) \in Nat /\ Len(Frontier(baked)) <= Len(Frontier(Table(t)))
<1>1. Frontier(baked) \in baked
  BY TaskFacts, FrontierIsHighest
<1> QED
  BY <1>1, TableFacts

LEMMA RecordTable ==
  ASSUME TableInv, NEW t \in Tasks, Record(t)
  PROVE  TableInv'
<1> DEFINE f == task[t]
           g == task'[t]
<1>1. TaskInv(Len(chain), baked, t, f) /\ TaskOK(f) /\ f.pc = "recording" /\ t \in Verifiers
        /\ t \notin Extenders /\ At(t, "recording")
  BY TaskFacts, OnlyVerifiers, MinedAncestryAssumption DEF Record, At
<1>2. UNCHANGED <<chain, baked, local, seen, dropped>> /\ calm' \in [Verifiers -> BOOLEAN]
  BY TaskFacts DEF Record, Disturbs
<1>3. cache' \in [Witnesses -> Heights]
  <2>1. \A w \in Checked(t) : Len(f.anchor[w]) \in Heights
    <3> TAKE w \in Checked(t)
    <3>1. w \in Witnesses /\ f.anchor[w] # None
      BY <1>1 DEF Checked, TaskInv, TaskOK, PlaceOK, Judging
    <3>2. f.anchor[w] \in Blocks
      BY <1>1, <3>1 DEF TaskOK
    <3> QED
      BY <3>2, BlockFacts, Constants DEF Heights
  <2>2. f.recalled \in [Witnesses -> Heights]
    BY <1>1 DEF TaskOK
  <2> QED
    BY <2>1, <2>2 DEF Record
<1>4. CASE Harvest(t) = {}
  <2>1. Answers(t, "mined")
    BY <1>4 DEF Record
  <2> QED
    BY <1>1, <1>2, <1>3, <2>1, AnswersTable, TaskFacts
<1>5. CASE Harvest(t) # {}
  <2>1. /\ DOMAIN task' = Tasks /\ \A u \in Tasks \ {t} : task'[u] = task[u]
        /\ DOMAIN g = DOMAIN Idle /\ g.pc = "saving" /\ g.add = Harvest(t)
        /\ g.kept = f.kept /\ g.want = f.want /\ g.tip = f.tip /\ g.skip = f.skip
        /\ g.proof = f.proof /\ g.anchor = f.anchor /\ g.runs = f.runs
        /\ g.recalled = f.recalled /\ g.left = f.left /\ g.answer = f.answer
    BY <1>5, TaskFacts, IdleFields DEF Record
  <2>2. /\ Good(Table(t) \cup Harvest(t)) /\ Harvest(t) \subseteq Blocks
        /\ \A c \in Harvest(t) : Len(c) > Len(Frontier(Table(t)))
    BY <1>1, HarvestGood
  <2>3. \A c \in Harvest(t) : Len(c) > Len(Frontier(baked))
    BY <2>2, AboveBaked, TableFacts, BlockFacts
  <2>4. Table(t) = baked \cup f.kept
    BY DEF Table
  <2> HIDE DEF f, g
  <2>5. TaskOK(g)
    BY <1>1, <2>1, <2>2 DEF TaskOK, Points
  <2>6. PlaceOK(Len(chain), baked, t, g)
    BY <1>1, <2>1 DEF TaskInv, PlaceOK, Judging
  <2>7. HandsOK(baked, g)
    <3>1. baked \cup g.kept \cup g.add = Table(t) \cup Harvest(t)
      BY <2>1, <2>4
    <3> QED
      BY <1>1, <2>1, <2>2, <2>3, <3>1 DEF TaskInv, HandsOK
  <2>8. RunsOK(baked, g)
    BY <1>1, <2>1 DEF TaskInv, RunsOK
  <2>9. TaskInv(Len(chain), baked, t, g)
    BY <2>5, <2>6, <2>7, <2>8 DEF TaskInv
  <2> QED
    BY <1>2, <1>3, <2>1, <2>9, OneTask, TaskFacts DEF g
<1> QED
  BY <1>4, <1>5

LEMMA FetchEpochTable ==
  ASSUME TableInv, NEW t \in Tasks, FetchEpoch(t)
  PROVE  TableInv'
<1> DEFINE f == task[t]
           g == task'[t]
           from == Frontier(Table(t))
           to == Len(from) + Epoch
<1>1. TaskInv(Len(chain), baked, t, f) /\ TaskOK(f) /\ f.pc = "running" /\ t \in Extenders
        /\ t \notin Verifiers
  BY TaskFacts, MinedAncestryAssumption DEF FetchEpoch, At
<1>2. UNCHANGED <<chain, baked, local, cache, seen, dropped, calm>>
  BY DEF FetchEpoch, Storage, history
<1>3. CASE Throws(t)
  BY <1>2, <1>3, ThrowsTable, TaskFacts DEF Storage
<1>4. CASE ~Throws(t)
  <2>1. Linked(from, BlockAt(to))
    BY <1>4 DEF FetchEpoch
  <2>2. to \in Nat /\ to <= Len(chain) /\ Len(from) \in Nat
    <3>1. Len(Frontier(baked \cup f.kept)) + Epoch <= Len(chain)
      BY <1>1 DEF TaskInv, PlaceOK
    <3>2. Table(t) = baked \cup f.kept
      BY DEF Table
    <3> QED
      BY <3>1, <3>2, TableFacts, Constants
  <2>3. BlockAt(to) \in Blocks /\ Len(BlockAt(to)) = to
    <3> HIDE DEF to
    <3> QED
      BY <2>2, PrefixFacts, TaskFacts DEF BlockAt
  <2>4. Good(Table(t) \cup {BlockAt(to)})
    BY <2>1, <2>3, GoodEpoch, TableFacts
  <2>5. Len(BlockAt(to)) > Len(Frontier(baked))
    BY <2>2, <2>3, AboveBaked, Constants
  <2>6. /\ DOMAIN task' = Tasks /\ \A u \in Tasks \ {t} : task'[u] = task[u]
        /\ DOMAIN g = DOMAIN Idle /\ g.pc = "saving" /\ g.add = {BlockAt(to)}
        /\ g.kept = f.kept /\ g.want = f.want /\ g.tip = f.tip /\ g.skip = f.skip
        /\ g.proof = f.proof /\ g.anchor = f.anchor /\ g.runs = f.runs
        /\ g.recalled = f.recalled /\ g.left = f.left /\ g.answer = f.answer
    BY <1>4, TaskFacts, IdleFields DEF FetchEpoch
  <2>7. Table(t) = baked \cup f.kept
    BY DEF Table
  <2> HIDE DEF f, g, to
  <2>8. TaskOK(g)
    BY <1>1, <2>3, <2>6 DEF TaskOK, Points
  <2>9. PlaceOK(Len(chain), baked, t, g)
    BY <1>1, <2>6 DEF TaskInv, PlaceOK, Judging
  <2>10. HandsOK(baked, g)
    <3>1. baked \cup g.kept \cup g.add = Table(t) \cup {BlockAt(to)}
      BY <2>6, <2>7
    <3> QED
      BY <1>1, <2>4, <2>5, <2>6, <3>1 DEF TaskInv, HandsOK
  <2>11. RunsOK(baked, g)
    BY <1>1, <2>6 DEF TaskInv, RunsOK
  <2>12. TaskInv(Len(chain), baked, t, g)
    BY <2>8, <2>9, <2>10, <2>11 DEF TaskInv
  <2> QED
    BY <1>2, <2>6, <2>12, OneTask, TaskFacts DEF g
<1> QED
  BY <1>3, <1>4

LEMMA SaveTable ==
  ASSUME TableInv, NEW t \in Tasks, Save(t)
  PROVE  TableInv'
<1> DEFINE f == task[t]
<1>1. TaskInv(Len(chain), baked, t, f) /\ TaskOK(f)
  BY TaskFacts
<1>2. local' = f.kept \cup f.add
  BY DEF Save
<1>3. Good(baked \cup local') /\ \A c \in local' : Len(c) > Len(Frontier(baked))
  <2>1. baked \cup f.kept \cup f.add = baked \cup local'
    BY <1>2
  <2> QED
    BY <1>1, <1>2, <2>1 DEF TaskInv, HandsOK
<1>4. UNCHANGED <<chain, baked, cache, seen, dropped>> /\ calm' \in [Verifiers -> BOOLEAN]
  BY TaskFacts DEF Save, Disturbs
<1>5. CASE t \in Verifiers
  <2>1. Answers(t, "mined")
    BY <1>5 DEF Save
  <2> QED
    BY <1>3, <1>4, <1>5, <2>1, AnswersTable, TaskFacts
<1>6. CASE t \notin Verifiers
  <2>1. CASE f.left > 1
    <3> DEFINE g == [Idle EXCEPT !.pc = "loading", !.left = f.left - 1]
    <3>1. task' = [task EXCEPT ![t] = g]
      BY <1>6, <2>1 DEF Save
    <3>2. f.left - 1 \in 0 .. MaxEpochs
      BY <1>1, <2>1, Constants DEF TaskOK
    <3>3. Reset(t, g)
      BY <3>2, IdleFields DEF Reset
    <3> HIDE DEF g
    <3> QED
      BY <1>3, <1>4, <3>1, <3>3, OneReset, TaskFacts
  <2>2. CASE ~(f.left > 1)
    <3>1. task' = [task EXCEPT ![t] = Idle]
      BY <1>6, <2>2 DEF Save
    <3> QED
      BY <1>3, <1>4, <3>1, IdleIsReset, OneReset, TaskFacts
  <2> QED
    BY <2>1, <2>2
<1> QED
  BY <1>5, <1>6

----------------------------------------------------------------------------
\* Failures, restarts and releases.

LEMMA FailTable ==
  ASSUME TableInv, NEW t \in Tasks, Fail(t)
  PROVE  TableInv'
<1>1. UNCHANGED <<chain, baked, local, cache, seen, dropped>> /\ calm' \in [Verifiers -> BOOLEAN]
  BY TaskFacts DEF Fail, Storage
<1>2. CASE t \in Verifiers /\ At(t, "saving")
  <2>1. Answers(t, "mined")
    BY <1>2 DEF Fail
  <2> QED
    BY <1>1, <1>2, <2>1, AnswersTable, TaskFacts
<1>3. CASE ~(t \in Verifiers /\ At(t, "saving"))
  <2>1. task' = [task EXCEPT ![t] = Idle]
    BY <1>3 DEF Fail
  <2> QED
    BY <1>1, <2>1, IdleIsReset, OneReset, TaskFacts
<1> QED
  BY <1>2, <1>3

\* With every call gone, the tables are the store's.
LEMMA RestartTable ==
  ASSUME TableInv, Restart, baked' # {}, Good(baked'), \A c \in baked' : Linked(c, chain),
         Good(baked' \cup Kept(local)')
  PROVE  TableInv'
<1>1. UNCHANGED <<chain, local, cache, dropped>> /\ task' = [t \in Tasks |-> Idle]
  BY DEF Restart
<1>2. \A t \in Tasks : TaskInv(Len(chain'), baked', t, task'[t])
  <2> TAKE t \in Tasks
  <2>1. task'[t] = Idle /\ Len(chain') \in Nat
    BY <1>1, TaskFacts
  <2> QED
    BY <2>1, IdleIsReset, ResetTask
<1>3. StoreInv'
  BY <1>1 DEF TableInv, StoreInv
<1>4. baked' \subseteq Blocks /\ \A c \in baked' : Len(c) % Epoch = 0
  BY DEF Good
<1>5. seen' \in [Verifiers -> SUBSET Witnesses] /\ calm' \in [Verifiers -> BOOLEAN]
  BY DEF Restart
<1>6. \A t \in Tasks : TaskOK(task'[t])
  BY <1>2 DEF TaskInv
<1>7. TypeOK'
  BY <1>1, <1>4, <1>5, <1>6 DEF TableInv, TypeOK
<1> QED
  BY <1>2, <1>3, <1>7 DEF TableInv

LEMMA EndWorkerTable ==
  ASSUME TableInv, EndWorker
  PROVE  TableInv'
<1>1. UNCHANGED <<baked, local>> /\ Restart
  BY DEF EndWorker, Restart
<1>2. Kept(local)' = Kept(local)
  BY <1>1 DEF Kept
<1> QED
  BY <1>1, <1>2, RestartTable DEF TableInv, StoreInv

\* The store's checkpoints above a release's frontier stand on it, since no epoch is missing
\* below them: were the one at its height another block, it would conflict.
LEMMA UpdateTable ==
  ASSUME TableInv, Update
  PROVE  TableInv'
<1> DEFINE f == Frontier(baked)
           h == Len(f) + Epoch
           b == BlockAt(h)
           table == baked \cup Kept(local)
<1>1. /\ chain \in Blocks /\ Len(chain) \in Nat /\ baked # {} /\ baked \subseteq Blocks
      /\ Good(baked) /\ Good(table) /\ local \subseteq Blocks
      /\ \A c \in baked : Linked(c, chain)
  BY TaskFacts DEF TableInv, TypeOK, StoreInv
<1>2. f \in baked /\ Len(f) \in Nat /\ \A c \in baked : Len(c) <= Len(f)
  BY <1>1, FrontierIsHighest, BlockFacts
<1>3. h \in Nat /\ h <= Len(chain) /\ Len(f) < h
  BY <1>1, <1>2, Constants DEF Update
<1>4. b \in Blocks /\ Len(b) = h /\ Linked(b, chain)
  <2> HIDE DEF h
  <2> QED
    BY <1>1, <1>3, PrefixFacts DEF BlockAt
<1>5. Linked(f, b)
  <2>1. f \in Blocks /\ Linked(f, chain) /\ Len(f) <= Len(b)
    <3> HIDE DEF f, h, b
    <3> QED
      BY <1>1, <1>2, <1>3, <1>4
  <2> HIDE DEF f, h, b
  <2> QED
    BY <1>1, <1>4, <2>1, LinkedBelow
<1>6. Good(baked \cup {b})
  <2> HIDE DEF b
  <2> QED
    BY <1>1, <1>4, <1>5, GoodEpoch
<1>7. baked' = baked \cup {b} /\ Restart /\ local' = local
  BY DEF Update, Restart
<1>8. Frontier(baked') = b
  <2>1. \A c \in baked' : Len(c) <= Len(b)
    <3> HIDE DEF f, b, h
    <3> QED
      BY <1>2, <1>3, <1>4, <1>7, BlockFacts, <1>1
  <2> HIDE DEF b
  <2> QED
    BY <1>6, <1>7, <2>1, FrontierIsTheOne
<1>9. \A c \in Kept(local)' : c \in local /\ Len(c) > h /\ \A d \in local, e \in baked' :
                               Len(e) = Len(d) => e = d
  <2> HIDE DEF b, h
  <2> QED
    BY <1>4, <1>7, <1>8 DEF Kept
<1>10. CASE Kept(local)' = {}
  <2>1. baked' \cup Kept(local)' = baked \cup {b}
    BY <1>7, <1>10
  <2>2. \A c \in baked' : Linked(c, chain)
    BY <1>1, <1>4, <1>7
  <2> HIDE DEF b
  <2> QED
    BY <1>6, <1>7, <2>1, <2>2, RestartTable
<1>11. CASE Kept(local)' # {}
  <2>1. PICK c \in Kept(local)' : TRUE
    BY <1>11
  <2>2. c \in local /\ Len(c) > h /\ \A d \in local, e \in baked' : Len(e) = Len(d) => e = d
    BY <1>9
  <2>3. Kept(local) = {d \in local : Len(d) > Len(f)}
    <3>1. ~ \E d \in local, e \in baked : Len(e) = Len(d) /\ e # d
      BY <1>7, <2>2
    <3> QED
      BY <3>1 DEF Kept
  <2>4. Len(c) \in Nat /\ \A d \in local : Len(d) \in Nat
    BY <1>1, <2>2, BlockFacts
  <2>5. c \in table /\ h \in Epoch .. Len(c) /\ h % Epoch = 0
    <3>1. Len(c) > Len(f)
      <4> HIDE DEF f, h
      <4> QED
        BY <1>2, <1>3, <2>2, <2>4
    <3>2. Len(f) % Epoch = 0 /\ (Len(f) + Epoch) % Epoch = 0
      <4>1. Len(f) % Epoch = 0
        BY <1>1, <1>2 DEF Good
      <4> HIDE DEF f
      <4> QED
        BY <1>2, <4>1, Constants, NextMultiple
    <3>3. h \in Epoch .. Len(c)
      <4> HIDE DEF f
      <4> QED
        BY <1>2, <2>2, <2>4, Constants
    <3> QED
      BY <2>2, <2>3, <3>1, <3>2, <3>3
  <2>6. PICK d \in table : Len(d) = h
    <3> HIDE DEF table, h
    <3> QED
      BY <1>1, <2>5 DEF Good, NoGap
  <2>7. d \in local
    <3> HIDE DEF f, h
    <3> QED
      BY <1>2, <1>3, <2>3, <2>6, BlockFacts, <1>1
  <2>8. b = d
    <3> HIDE DEF b, h
    <3> QED
      BY <1>4, <1>7, <2>2, <2>6, <2>7
  <2>9. b \in table
    BY <2>6, <2>8
  <2>10. baked' \cup Kept(local)' = table
    <3>1. Kept(local)' \subseteq Kept(local)
      <4> HIDE DEF f, h
      <4> QED
        BY <1>2, <1>3, <1>9, <2>3, <2>4
    <3>2. \A e \in Kept(local) : e \in baked' \cup Kept(local)'
      <4> TAKE e \in Kept(local)
      <4>1. e \in local /\ Len(e) > Len(f) /\ Len(e) \in Nat /\ Len(e) % Epoch = 0
        BY <2>3, <2>4, <1>1 DEF Good
      <4>2. Len(e) >= h
        <5>1. Len(f) % Epoch = 0
          BY <1>1, <1>2 DEF Good
        <5> HIDE DEF f
        <5> QED
          BY <1>2, <4>1, <5>1, Constants, Multiples
      <4>3. CASE Len(e) = h
        <5> HIDE DEF b, h
        <5> QED
          BY <1>4, <1>7, <2>2, <4>1, <4>3
      <4>4. CASE Len(e) # h
        <5>1. Len(e) > h
          <6> HIDE DEF h
          <6> QED
            BY <1>3, <4>1, <4>2, <4>4
        <5>2. Kept(local)' = {x \in local : Len(x) > h}
          <6>1. ~ \E x \in local, y \in baked' : Len(y) = Len(x) /\ y # x
            BY <2>2
          <6> HIDE DEF b, h
          <6> QED
            BY <1>4, <1>7, <1>8, <6>1 DEF Kept
        <5> QED
          BY <4>1, <5>1, <5>2
      <4> QED
        BY <4>3, <4>4
    <3> HIDE DEF b
    <3> QED
      BY <1>7, <2>9, <3>1, <3>2
  <2>11. \A e \in baked' : Linked(e, chain)
    BY <1>1, <1>4, <1>7
  <2> HIDE DEF b, table
  <2> QED
    BY <1>1, <1>6, <1>7, <2>10, <2>11, RestartTable
<1> QED
  BY <1>10, <1>11

LEMMA TableStep == TableInv /\ [Next]_vars => TableInv'
<1> SUFFICES ASSUME TableInv, [Next]_vars
             PROVE  TableInv'
  OBVIOUS
<1>1. ASSUME NEW txs \in SUBSET Witnesses, Mine(txs)
      PROVE  TableInv'
  BY <1>1, MineTable
<1>2. ASSUME NEW txs \in SUBSET Witnesses, NEW d \in 1 .. MaxDepth, Reorg(d, txs)
      PROVE  TableInv'
  BY <1>2, ReorgTable
<1>3. ASSUME NEW v \in Verifiers, NEW s \in SUBSET Witnesses, CallVerify(v, s)
      PROVE  TableInv'
  BY <1>3, CallVerifyTable
<1>4. ASSUME NEW e \in Extenders, CallExtend(e)
      PROVE  TableInv'
  BY <1>4, CallExtendTable
<1>5. ASSUME NEW t \in Tasks, Proceed(t)
      PROVE  TableInv'
  <2>1. CASE LoadTable(t) \/ Clean(t) \/ ReadTip(t)
    BY <2>1, LoadTableTable, CleanTable, ReadTipTable
  <2>2. CASE Partition(t) \/ Judge(t) \/ Recall(t) \/ Record(t)
    BY <2>2, PartitionTable, JudgeTable, RecallTable, RecordTable
  <2>3. CASE \E w \in Witnesses : FetchProof(t, w) \/ FetchHash(t, w)
    BY <2>3, FetchProofTable, FetchHashTable
  <2>4. CASE \E c \in Table(t) : FetchRun(t, c)
    BY <2>4, FetchRunTable
  <2>5. CASE FetchEpoch(t) \/ Save(t)
    BY <2>5, FetchEpochTable, SaveTable
  <2> QED
    BY <1>5, <2>1, <2>2, <2>3, <2>4, <2>5 DEF Proceed
<1>6. ASSUME NEW t \in Tasks, Fail(t)
      PROVE  TableInv'
  BY <1>6, FailTable
<1>7. CASE EndWorker \/ Update
  BY <1>7, EndWorkerTable, UpdateTable
<1>8. CASE UNCHANGED vars
  <2>1. /\ UNCHANGED <<chain, baked, local, cache, task, seen, dropped, calm>>
        /\ Kept(local)' = Kept(local)
    BY <1>8 DEF vars, history, Kept
  <2> QED
    BY <2>1 DEF TableInv, TypeOK, StoreInv
<1> QED
  BY <1>1, <1>2, <1>3, <1>4, <1>5, <1>6, <1>7, <1>8 DEF Next

----------------------------------------------------------------------------
\* Types, and the tables.

LEMMA TableInvariant == Spec => []TableInv
<1> QED
  BY InitTable, TableStep, PTL DEF Spec

\* Every reachable state is well typed: no call reads the chain above its end, or a
\* checkpoint off an epoch boundary.
THEOREM TypeCorrect == Spec => []TypeOK
<1>1. TableInv => TypeOK
  BY DEF TableInv
<1> QED
  BY <1>1, TableInvariant, PTL

\* No table holds two rival checkpoints, whatever the reorganisations, releases, lost
\* saves and calls that overlap.
THEOREM TablesAreOneChain == Spec => []TableIsOneChain
<1>1. TableInv => TableIsOneChain
  <2> SUFFICES ASSUME TableInv
               PROVE  TableIsOneChain
    OBVIOUS
  <2>1. IsOneChain(baked \cup Kept(local))
    BY DEF TableInv, StoreInv, Good
  <2>2. \A t \in Tasks : IsOneChain(Table(t) \cup task[t].add)
    BY DEF TableInv, TaskInv, HandsOK, Good, Table
  <2> QED
    BY <2>1, <2>2 DEF TableIsOneChain
<1> QED
  BY <1>1, TableInvariant, PTL

\* The table that a call will load has every epoch up to its frontier.
THEOREM TablesHaveNoGap == Spec => []TableHasNoGap
<1>1. TableInv => TableHasNoGap
  <2> SUFFICES ASSUME TableInv
               PROVE  TableHasNoGap
    OBVIOUS
  <2> DEFINE table == baked \cup Kept(local)
  <2>1. Good(table) /\ table # {}
    BY DEF TableInv, StoreInv
  <2>2. Frontier(table) \in table
    BY <2>1, FrontierIsHighest DEF Good
  <2>3. \A h \in Epoch .. Len(Frontier(table)) : h % Epoch = 0 => \E c \in table : Len(c) = h
    <3> HIDE DEF table
    <3> QED
      BY <2>1, <2>2 DEF Good, NoGap
  <2> QED
    BY <2>3 DEF TableHasNoGap
<1> QED
  BY <1>1, TableInvariant, PTL
=============================================================================
