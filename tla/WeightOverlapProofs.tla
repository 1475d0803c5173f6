------------------------ MODULE WeightOverlapProofs ------------------------
(***************************************************************************)
(* Proofs about WeightOverlap.  The broadcasts of all updates are one      *)
(* sequence: a process has issued an initial part of it and the rest is    *)
(* left (Queues), and how far it is in a pass says which blocks' broadcasts*)
(* have arrived (Arrivals).  What a process holds is described for each    *)
(* pass, since each prefetches and releases in its own way (Forward,       *)
(* Recompute, Backward): what it may hold, so that no gather repeats one,  *)
(* and what it must hold, so that no module runs without its weight.       *)
(***************************************************************************)
EXTENDS WeightOverlap, FiniteSetTheorems, NaturalsInduction, WellFoundedInduction, TLAPS

Spec == Init /\ [][Next]_vars

BlockSet == 0 .. Blocks - 1
ModuleSet == 1 .. Blocks * Width
Module(b, k) == b * Width + cfg.order[k]

-----------------------------------------------------------------------------
(* The inductive invariant. *)

Phases ==
  [forward   |-> {"enter", "own", "pre", "next", "launched", "run"},
   recompute |-> {"pre", "launched", "run"},
   backward  |-> {"pre", "run", "end"},
   after     |-> {"backward"},
   update    |-> {"enter"}]

Points == {"enter", "own", "pre", "next", "launched", "run", "end", "backward"}
Positions ==
  [phase : DOMAIN Phases, at : Points, block : BlockSet, k : 1 .. Width]
Weights == [module : ModuleSet, op : Nat, fresh : BOOLEAN]

TypeOK ==
  /\ cfg \in Configurations
  /\ pc \in [Processes -> Positions] /\ \A p \in Processes : pc[p].at \in Phases[pc[p].phase]
  /\ held \in [Processes -> SUBSET Weights] /\ ops \in [Processes -> Nat]
  /\ early \in [Processes -> [prev : SUBSET Nat, curr : SUBSET Nat]]
  /\ left \in [Processes -> SUBSET Nat] /\ issued \in [Processes -> Seq(Nat)]
  /\ landed \in [Processes -> Nat] /\ update \in [Processes -> Nat]
  /\ broken \in [Processes -> BOOLEAN]

\* Broadcasts are issued in the order of their numbers.
Queues(p) ==
  /\ \A i \in DOMAIN issued[p] : issued[p][i] = i
  /\ left[p] = Len(issued[p]) + 1 .. update[p] * Batch
  /\ update[p] * Batch - Batch <= Len(issued[p])
  /\ Len(issued[p]) <= update[p] * Batch

\* Blocks whose owners' broadcasts have arrived.
Behind(p) ==
  CASE pc[p].phase = "update" -> {}
    [] pc[p].phase = "forward" ->
         {b \in BlockSet : b < pc[p].block \/ (b = pc[p].block /\ pc[p].at \notin {"enter", "own"})}
    [] OTHER -> BlockSet

Arrivals(p) ==
  /\ \A b \in Behind(p) : Arrived(p, b)
  /\ pc[p].phase = "update" => left[p] = {}

\* At the k-th module, the block's launch module has prefetched.
Passed(k, at) ==
  \E j \in 1 .. k : cfg.order[j] = Launch /\ (j = k => at \in {"launched", "run"})
Launched(p) == Passed(pc[p].k, pc[p].at)

\* The block's modules from here on; then the whole next block.
Forward(p) ==
  LET b == pc[p].block
      k == pc[p].k
  IN pc[p].phase = "forward" =>
     /\ pc[p].at \in {"enter", "own"} => k = 1 /\ (b = 0 => Holding(p) = {})
     /\ pc[p].at = "next" => Launches(p) /\ b + 1 < Blocks
     /\ \A m \in Holding(p) :
          IF cfg.grain = "module" THEN m = Running(p)
          ELSE \/ \E j \in k .. Width : m = Module(b, j)
               \/ Launched(p) /\ BlockOf(m) = b + 1

\* The blocks of the span recomputed so far are held whole.
Span(p) ==
  \A m \in ModuleSet : BlockOf(m) \in SpanStart(pc[p].block) .. pc[p].block - 1 => m \in Holding(p)

Recompute(p) ==
  LET b == pc[p].block
      k == pc[p].k
  IN pc[p].phase = "recompute" =>
     /\ Recomputed(b) /\ Span(p)
     /\ \A j \in 1 .. k - 1 : Module(b, j) \in Holding(p)
     /\ \A m \in Holding(p) :
          \/ ~Recomputed(BlockOf(m))
          \/ BlockOf(m) \in SpanStart(b) .. b - 1
          \/ BlockOf(m) = b /\ (cfg.grain = "module" => m <= Running(p))
          \/ cfg.grain = "layer" /\ Launched(p) /\ BlockOf(m) = NextRecomputed(b)

\* Modules of the block whose backward is to come.
Ahead(p) == IF pc[p].at = "end" THEN 0 ELSE pc[p].k

BackwardRecomputed(p) ==
  LET b == pc[p].block
  IN pc[p].phase = "backward" /\ Recomputed(b) =>
     /\ Span(p)
     /\ \A j \in 1 .. Ahead(p) : Module(b, j) \in Holding(p)
     /\ \A m \in Holding(p) :
          \/ ~Recomputed(BlockOf(m))
          \/ BlockOf(m) \in SpanStart(b) .. b - 1
          \/ \E j \in 1 .. Ahead(p) : m = Module(b, j)
          \/ BlockOf(m) = SpanStart(b) - cfg.span
             /\ (cfg.grain = "module" => m = (b - 1) * Width + 1)

BackwardKept(p) ==
  LET b == pc[p].block
  IN pc[p].phase = "backward" /\ ~Recomputed(b) =>
     \A m \in Holding(p) :
       /\ ~Recomputed(BlockOf(m))
       /\ \/ pc[p].at = "run" /\ m = Running(p)
          \/ BlockOf(m + 1) > b
          \/ \E j \in Ahead(p) + 1 .. Width : m + 1 = Module(b, j)

Well(p) == ~broken[p] /\ (cfg.grain = "layer" => \A h \in held[p] : h.fresh)

Holdings(p) ==
  /\ Well(p)
  /\ pc[p].at = "run" => Running(p) \in Holding(p)
  /\ pc[p].at = "end" => pc[p].k = 1
  /\ Forward(p) /\ Recompute(p) /\ BackwardRecomputed(p) /\ BackwardKept(p)
  /\ pc[p].phase = "after" => \A m \in Holding(p) : ~Recomputed(BlockOf(m))
  /\ pc[p].phase = "update" => Holding(p) = {}

IInv == TypeOK /\ \A p \in Processes : Queues(p) /\ Arrivals(p) /\ Holdings(p)
-----------------------------------------------------------------------------
(* Numbers. *)

\* Division by d counts the whole d in x and leaves the rest.
LEMMA Division ==
  ASSUME NEW d \in Nat \ {0}, NEW x \in Nat
  PROVE  \E q \in Nat, r \in 0 .. d - 1 : x \div d = q /\ x % d = r /\ x = q * d + r
<1>1. x \div d \in Nat /\ x % d \in 0 .. d - 1
  OBVIOUS
<1>2. PICK q \in Nat : x \div d = q
  BY <1>1
<1>3. PICK r \in 0 .. d - 1 : x % d = r
  BY <1>1
<1>4. x = q * d + r
  BY <1>2, <1>3
<1> QED BY <1>2, <1>3, <1>4

\* And it is the only such number.
LEMMA DivisionValue ==
  ASSUME NEW d \in Nat \ {0}, NEW x \in Nat, NEW q \in Nat, NEW r \in 0 .. d - 1, x = q * d + r
  PROVE  x \div d = q /\ x % d = r
<1>1. x % d = r
  OBVIOUS
<1>2. x \div d = q
  OBVIOUS
<1> QED BY <1>1, <1>2

\* Multiples of d are d apart at least.
LEMMA Multiples ==
  ASSUME NEW d \in Nat, NEW a \in Nat, NEW b \in Nat
  PROVE  /\ a * d \in Nat /\ b * d \in Nat /\ (a + 1) * d = a * d + d
         /\ a < b => a * d + d <= b * d
         /\ a <= b => a * d <= b * d
<1>1. a * d \in Nat /\ b * d \in Nat /\ (a + 1) * d = a * d + d
  OBVIOUS
<1>2. ASSUME a < b PROVE a * d + d <= b * d
  <2>1. PICK c \in Nat : b = a + 1 + c
    <3>1. b - a - 1 \in Nat /\ b = a + 1 + (b - a - 1)
      BY <1>2
    <3> QED BY <3>1
  <2>2. b * d = a * d + d + c * d /\ c * d \in Nat
    BY <2>1
  <2> QED BY <1>1, <2>2
<1>3. ASSUME a <= b PROVE a * d <= b * d
  <2>1. CASE a = b
    BY <1>1, <2>1
  <2>2. CASE a < b
    BY <1>1, <1>2, <2>2
  <2> QED BY <1>3, <2>1, <2>2
<1> QED BY <1>1, <1>2, <1>3

\* A set of naturals that is not empty has a least element.
LEMMA HasLeast ==
  ASSUME NEW S \in SUBSET Nat, S # {}
  PROVE  \E i \in S : \A j \in S : i <= j
<1> DEFINE Less == {p \in Nat \X Nat : p[1] < p[2]}
<1>1. IsWellFoundedOn(Less, Nat)
  BY NatLessThanWellFounded DEF OpToRel
<1>2. \A a, b \in Nat : a < b => <<a, b>> \in Less
  OBVIOUS
<1> HIDE DEF Less
<1>3. PICK x \in S : \A y \in S : ~ (<<y, x>> \in Less)
  BY <1>1, WFMin
<1>4. ASSUME NEW y \in S PROVE x <= y
  <2>1. x \in Nat /\ y \in Nat
    OBVIOUS
  <2>2. ~ (y < x)
    BY <1>2, <1>3, <2>1
  <2> QED BY <2>1, <2>2
<1> QED BY <1>4

-----------------------------------------------------------------------------
(* Blocks, modules and spans. *)

\* What the assumptions say of the sizes.
LEMMA Sizes ==
  /\ Blocks \in Nat \ {0} /\ Width \in Nat \ {0} /\ Owners \in Nat \ {0} /\ Closures \in Nat \ {0}
  /\ QueueLength \in Nat \ {0} /\ Launch \in 1 .. Width /\ Batch \in Nat \ {0}
<1>1. /\ Blocks \in Nat \ {0} /\ Width \in Nat \ {0} /\ Owners \in Nat \ {0}
      /\ Closures \in Nat \ {0} /\ QueueLength \in Nat \ {0} /\ Launch \in 1 .. Width
  BY OverlapAssumption
<1>2. Batch \in Nat \ {0}
  BY <1>1 DEF Batch
<1> QED BY <1>1, <1>2

\* Modules are numbered block after block.
LEMMA Numbered ==
  ASSUME NEW b \in Nat, NEW i \in 1 .. Width
  PROVE  /\ BlockOf(b * Width + i) = b /\ b * Width + i \in Nat \ {0}
         /\ b \in BlockSet => b * Width + i \in ModuleSet
         /\ b * Width + i \in ModuleSet => b \in BlockSet
<1>1. Blocks \in Nat \ {0} /\ Width \in Nat \ {0} /\ i \in Nat \ {0} /\ i - 1 \in 0 .. Width - 1
  BY Sizes
<1>2. b * Width \in Nat /\ Blocks * Width \in Nat
  BY <1>1
<1>3. b * Width + i - 1 = b * Width + (i - 1) /\ b * Width + i - 1 \in Nat
  BY <1>1, <1>2
<1>4. (b * Width + i - 1) \div Width = b
  BY <1>1, <1>3, DivisionValue
<1>5. ASSUME b \in BlockSet PROVE b * Width + i \in ModuleSet
  <2>1. b * Width + Width <= Blocks * Width
    BY <1>1, <1>5, Multiples DEF BlockSet
  <2> QED BY <1>1, <1>2, <2>1 DEF ModuleSet
<1>6. ASSUME b * Width + i \in ModuleSet PROVE b \in BlockSet
  <2>1. CASE b < Blocks
    BY <1>1, <2>1 DEF BlockSet
  <2>2. CASE Blocks <= b
    <3>1. Blocks * Width <= b * Width
      BY <1>1, <2>2, Multiples
    <3> QED BY <1>1, <1>2, <1>6, <3>1 DEF ModuleSet
  <2> QED BY <1>1, <2>1, <2>2
<1> QED BY <1>1, <1>2, <1>4, <1>5, <1>6 DEF BlockOf

\* Every module is one of a block.
LEMMA Parts ==
  ASSUME NEW m \in ModuleSet
  PROVE  \E b \in BlockSet, i \in 1 .. Width : m = b * Width + i /\ BlockOf(m) = b
<1>1. Width \in Nat \ {0} /\ Blocks \in Nat \ {0}
  BY Sizes
<1>2. m \in Nat \ {0} /\ m - 1 \in Nat
  BY <1>1 DEF ModuleSet
<1>3. PICK q \in Nat, r \in 0 .. Width - 1 :
        (m - 1) \div Width = q /\ (m - 1) % Width = r /\ m - 1 = q * Width + r
  BY <1>1, <1>2, Division
<1>4. q * Width \in Nat
  BY <1>1
<1>5. r + 1 \in 1 .. Width /\ m = q * Width + (r + 1)
  BY <1>1, <1>2, <1>3, <1>4
<1>6. BlockOf(m) = q /\ q \in BlockSet
  BY <1>5, Numbered
<1> QED BY <1>5, <1>6

\* What the assumptions say of a configuration.
LEMMA Configured ==
  ASSUME cfg \in Configurations
  PROVE  /\ cfg.grain \in {"layer", "module"} /\ cfg.ckpt \in 0 .. Blocks
         /\ cfg.span \in 1 .. Blocks
         /\ cfg.order \in [1 .. Width -> 1 .. Width]
         /\ \A i \in 1 .. Width : \E k \in 1 .. Width : cfg.order[k] = i
         /\ \A k, l \in 1 .. Width : cfg.order[k] = cfg.order[l] => k = l
         /\ cfg.grain = "module" => \A k \in 1 .. Width : cfg.order[k] = k
         /\ cfg.span > 1 => cfg.grain = "layer" /\ cfg.ckpt = Blocks /\ Blocks % cfg.span = 0
<1>1. cfg.grain \in {"layer", "module"} /\ cfg.ckpt \in 0 .. Blocks /\ cfg.span \in 1 .. Blocks
      /\ cfg.order \in [1 .. Width -> 1 .. Width]
  BY OverlapAssumption
<1> QED BY <1>1, OrderAssumption

\* A block's modules are those of its order of execution, each once.
LEMMA Modules ==
  ASSUME cfg \in Configurations, NEW b \in BlockSet
  PROVE  /\ \A k \in 1 .. Width : Module(b, k) \in ModuleSet /\ BlockOf(Module(b, k)) = b
         /\ \A k, l \in 1 .. Width : Module(b, k) = Module(b, l) => k = l
         /\ \A m \in ModuleSet : BlockOf(m) = b => \E k \in 1 .. Width : m = Module(b, k)
         /\ cfg.grain = "module" => \A k \in 1 .. Width : Module(b, k) = b * Width + k
<1>1. b \in Nat /\ Width \in Nat /\ b * Width \in Nat
  BY Sizes DEF BlockSet
<1>2. ASSUME NEW k \in 1 .. Width PROVE Module(b, k) \in ModuleSet /\ BlockOf(Module(b, k)) = b
  <2>1. cfg.order[k] \in 1 .. Width
    BY Configured
  <2> QED BY <1>1, <2>1, Numbered DEF Module
<1>3. ASSUME NEW k \in 1 .. Width, NEW l \in 1 .. Width, Module(b, k) = Module(b, l) PROVE k = l
  <2>1. cfg.order[k] \in 1 .. Width /\ cfg.order[l] \in 1 .. Width
    BY Configured
  <2>2. cfg.order[k] = cfg.order[l]
    BY <1>1, <1>3, <2>1 DEF Module
  <2> QED BY <2>2, Configured
<1>4. ASSUME NEW m \in ModuleSet, BlockOf(m) = b PROVE \E k \in 1 .. Width : m = Module(b, k)
  <2>1. PICK c \in BlockSet, i \in 1 .. Width : m = c * Width + i /\ BlockOf(m) = c
    BY Parts
  <2>2. PICK k \in 1 .. Width : cfg.order[k] = i
    BY Configured
  <2> QED BY <1>4, <2>1, <2>2 DEF Module
<1>5. ASSUME cfg.grain = "module", NEW k \in 1 .. Width PROVE Module(b, k) = b * Width + k
  BY <1>5, Configured DEF Module
<1> QED BY <1>2, <1>3, <1>4, <1>5

\* Neighbours of a module that runs.
LEMMA Neighbours ==
  ASSUME NEW m \in ModuleSet
  PROVE  /\ m > 1 => m - 1 \in ModuleSet /\ BlockOf(m - 1) <= BlockOf(m)
         /\ m # Blocks * Width => m + 1 \in ModuleSet /\ BlockOf(m) <= BlockOf(m + 1)
         /\ BlockOf(m) \in BlockSet
<1>1. PICK b \in BlockSet, i \in 1 .. Width : m = b * Width + i /\ BlockOf(m) = b
  BY Parts
<1>2. b \in Nat /\ Width \in Nat \ {0} /\ Blocks \in Nat \ {0} /\ b * Width \in Nat
      /\ Blocks * Width \in Nat
  BY Sizes DEF BlockSet
<1>3. ASSUME m > 1 PROVE m - 1 \in ModuleSet /\ BlockOf(m - 1) <= BlockOf(m)
  <2>1. m - 1 \in ModuleSet
    BY <1>2, <1>3 DEF ModuleSet
  <2>2. PICK c \in BlockSet, j \in 1 .. Width : m - 1 = c * Width + j /\ BlockOf(m - 1) = c
    BY <2>1, Parts
  <2>3. c \in Nat /\ c * Width \in Nat
    BY <1>2 DEF BlockSet
  <2>4. CASE c <= b
    BY <1>1, <2>1, <2>2, <2>4
  <2>5. CASE b < c
    <3>1. b * Width + Width <= c * Width
      BY <1>2, <2>3, <2>5, Multiples
    <3> QED BY <1>1, <1>2, <2>2, <2>3, <3>1
  <2> QED BY <1>2, <2>3, <2>4, <2>5
<1>4. ASSUME m # Blocks * Width PROVE m + 1 \in ModuleSet /\ BlockOf(m) <= BlockOf(m + 1)
  <2>1. m + 1 \in ModuleSet
    BY <1>2, <1>4 DEF ModuleSet
  <2>2. PICK c \in BlockSet, j \in 1 .. Width : m + 1 = c * Width + j /\ BlockOf(m + 1) = c
    BY <2>1, Parts
  <2>3. c \in Nat /\ c * Width \in Nat
    BY <1>2 DEF BlockSet
  <2>4. CASE b <= c
    BY <1>1, <2>1, <2>2, <2>4
  <2>5. CASE c < b
    <3>1. c * Width + Width <= b * Width
      BY <1>2, <2>3, <2>5, Multiples
    <3> QED BY <1>1, <1>2, <2>2, <2>3, <3>1
  <2> QED BY <1>2, <2>3, <2>4, <2>5
<1> QED BY <1>1, <1>3, <1>4

(* Spans partition the blocks.                                             *)
LEMMA Spans ==
  ASSUME cfg \in Configurations, NEW b \in BlockSet
  PROVE  /\ SpanStart(b) \in 0 .. b /\ b < SpanStart(b) + cfg.span
         /\ SpanStart(b) + cfg.span <= Blocks
         /\ \A c \in SpanStart(b) .. SpanStart(b) + cfg.span - 1 : SpanStart(c) = SpanStart(b)
         /\ SpanStart(b) > 0 =>
              SpanStart(b) - cfg.span \in Nat
                /\ SpanStart(SpanStart(b) - 1) = SpanStart(b) - cfg.span
         /\ NextRecomputed(b) = IF b + 1 = SpanStart(b) + cfg.span THEN SpanStart(b) - cfg.span
                                ELSE b + 1
<1>1. PICK s \in Nat \ {0} : s = cfg.span
  BY Configured, Sizes
<1>2. b \in Nat /\ Blocks \in Nat \ {0} /\ b < Blocks
  BY Sizes DEF BlockSet
<1>3. PICK q \in Nat, r \in 0 .. s - 1 : b \div s = q /\ b % s = r /\ b = q * s + r
  BY <1>1, <1>2, Division
<1>4. PICK a \in Nat : a = q * s
  BY <1>1
<1>5. SpanStart(b) = a /\ b = a + r /\ r \in 0 .. s - 1
  BY <1>1, <1>3, <1>4 DEF SpanStart
<1>6. ASSUME NEW c \in a .. a + s - 1 PROVE SpanStart(c) = a
  <2>1. c - a \in 0 .. s - 1 /\ c = q * s + (c - a) /\ c \in Nat
    BY <1>1, <1>4
  <2>2. c \div s = q
    BY <1>1, <2>1, DivisionValue
  <2> QED BY <1>1, <1>4, <2>2 DEF SpanStart
<1>7. a + s <= Blocks
  <2>1. CASE s = 1
    BY <1>2, <1>3, <1>5, <2>1
  <2>2. CASE s > 1
    <3>1. Blocks % s = 0
      BY <1>1, <2>2, Configured
    <3>2. PICK n \in Nat, t \in 0 .. s - 1 : Blocks \div s = n /\ Blocks % s = t
            /\ Blocks = n * s + t
      BY <1>1, <1>2, Division
    <3>3. Blocks = n * s
      BY <1>1, <3>1, <3>2
    <3>4. q < n
      <4>1. n * s <= q * s => FALSE
        BY <1>2, <1>4, <1>5, <3>3
      <4> QED BY <1>1, <4>1, Multiples
    <3> QED BY <1>1, <1>4, <3>3, <3>4, Multiples
  <2> QED BY <1>1, <2>1, <2>2
<1>8. ASSUME a > 0 PROVE a - s \in Nat /\ SpanStart(a - 1) = a - s
  <2>1. q # 0
    BY <1>1, <1>4, <1>8
  <2>2. PICK n \in Nat : q = n + 1
    <3>1. q - 1 \in Nat /\ q = (q - 1) + 1
      BY <2>1
    <3> QED BY <3>1
  <2>3. n * s \in Nat /\ a = n * s + s
    BY <1>1, <1>4, <2>2, Multiples
  <2>4. a - 1 = n * s + (s - 1) /\ s - 1 \in 0 .. s - 1 /\ a - 1 \in Nat
    BY <1>1, <1>8, <2>3
  <2>5. (a - 1) \div s = n
    BY <1>1, <2>4, DivisionValue
  <2>6. SpanStart(a - 1) = n * s
    BY <1>1, <2>5 DEF SpanStart
  <2> QED BY <1>1, <2>3, <2>6
<1>9. NextRecomputed(b) = IF b + 1 = a + s THEN a - s ELSE b + 1
  <2>1. CASE r = s - 1
    <3>1. b + 1 = (q + 1) * s + 0 /\ 0 \in 0 .. s - 1 /\ b + 1 = a + s /\ q + 1 \in Nat
      BY <1>1, <1>4, <1>5, <2>1, Multiples
    <3>2. (b + 1) % s = 0
      BY <1>1, <1>2, <3>1, DivisionValue
    <3>3. b - s * 2 + 1 = a - s
      BY <1>1, <1>4, <3>1, <1>2
    <3> QED BY <1>1, <3>1, <3>2, <3>3 DEF NextRecomputed
  <2>2. CASE r # s - 1
    <3>1. b + 1 = q * s + (r + 1) /\ r + 1 \in 0 .. s - 1
      BY <1>1, <1>4, <1>5, <2>2
    <3>2. (b + 1) % s = r + 1
      BY <1>1, <1>2, <3>1, DivisionValue
    <3>3. r + 1 # 0 /\ b + 1 # a + s
      BY <1>1, <1>5, <2>2
    <3> QED BY <1>1, <3>2, <3>3 DEF NextRecomputed
  <2> QED BY <2>1, <2>2
<1>10. a \in 0 .. b /\ b < a + s
  BY <1>1, <1>2, <1>5
<1> QED BY <1>1, <1>5, <1>6, <1>7, <1>8, <1>9, <1>10

-----------------------------------------------------------------------------
(* Broadcasts. *)

\* Ascending lists an interval from its least element.
LEMMA AscendingInterval ==
  ASSUME NEW a \in Nat, NEW b \in Nat, a <= b
  PROVE  /\ Ascending(a + 1 .. b) = [i \in 1 .. b - a |-> a + i]
         /\ \A n \in a + 1 .. b : Below(a + 1 .. b, n) = n - 1 - a
<1> DEFINE S == a + 1 .. b
<1>1. Cardinality(S) = b - a
  <2>1. a + 1 \in Int /\ b \in Int
    OBVIOUS
  <2>2. Cardinality(a + 1 .. b) = IF a + 1 > b THEN 0 ELSE b - (a + 1) + 1
    BY <2>1, FS_Interval
  <2> QED BY <2>2
<1>2. ASSUME NEW n \in S PROVE Below(S, n) = n - 1 - a
  <2>1. {m \in S : m < n} = a + 1 .. n - 1
    OBVIOUS
  <2>2. Cardinality(a + 1 .. n - 1) = n - 1 - a
    BY FS_Interval
  <2> QED BY <2>1, <2>2 DEF Below
<1>3. ASSUME NEW i \in 1 .. b - a PROVE (CHOOSE n \in S : Below(S, n) = i - 1) = a + i
  <2>1. a + i \in S /\ Below(S, a + i) = i - 1
    BY <1>2
  <2>2. \A n \in S : Below(S, n) = i - 1 => n = a + i
    BY <1>2
  <2> HIDE DEF S
  <2> QED BY <2>1, <2>2
<1> HIDE DEF S
<1>4. Ascending(S) = [i \in 1 .. b - a |-> a + i]
  BY <1>1, <1>3 DEF Ascending
<1> QED BY <1>2, <1>4 DEF S

\* The owner of a broadcast; in an update, later broadcasts have no lower owner.
LEMMA Owned ==
  /\ \A n \in Nat \ {0} : Owner(n) \in Ranks
  /\ \A u \in Nat \ {0} : \A m, n \in u * Batch - Batch + 1 .. u * Batch :
       m <= n => Owner(m) <= Owner(n)
<1>1. Batch \in Nat \ {0} /\ Owners \in Nat \ {0} /\ Closures \in Nat \ {0}
      /\ Batch = Owners * Closures
  BY Sizes DEF Batch
<1>2. ASSUME NEW x \in 0 .. Batch - 1 PROVE x \div Closures \in Ranks
  <2>1. PICK q \in Nat, r \in 0 .. Closures - 1 :
          x \div Closures = q /\ x % Closures = r /\ x = q * Closures + r
    BY <1>1, Division
  <2>2. ~(Owners <= q)
    <3>1. Owners <= q => Owners * Closures <= q * Closures
      BY <1>1, Multiples
    <3>2. q * Closures \in Nat
      BY <1>1
    <3> QED BY <1>1, <2>1, <3>1, <3>2
  <2> QED BY <1>1, <2>1, <2>2 DEF Ranks
<1>3. ASSUME NEW n \in Nat \ {0} PROVE Owner(n) \in Ranks
  <2>1. (n - 1) % Batch \in 0 .. Batch - 1
    BY <1>1
  <2> QED BY <1>2, <2>1 DEF Owner
<1>4. ASSUME NEW x \in Nat, NEW y \in Nat, x <= y PROVE x \div Closures <= y \div Closures
  <2>1. PICK q \in Nat, r \in 0 .. Closures - 1 :
          x \div Closures = q /\ x % Closures = r /\ x = q * Closures + r
    BY <1>1, Division
  <2>2. PICK t \in Nat, w \in 0 .. Closures - 1 :
          y \div Closures = t /\ y % Closures = w /\ y = t * Closures + w
    BY <1>1, Division
  <2>3. q * Closures \in Nat /\ t * Closures \in Nat
    BY <1>1
  <2>4. ~(t < q)
    <3>1. t < q => t * Closures + Closures <= q * Closures
      BY <1>1, Multiples
    <3> QED BY <1>1, <1>4, <2>1, <2>2, <2>3, <3>1
  <2> QED BY <2>1, <2>2, <2>4
<1>5. ASSUME NEW u \in Nat \ {0}, NEW n \in u * Batch - Batch + 1 .. u * Batch
      PROVE  (n - 1) % Batch = n - 1 - (u * Batch - Batch) /\ n - 1 - (u * Batch - Batch) \in Nat
  <2>1. PICK v \in Nat : u = v + 1
    <3>1. u - 1 \in Nat /\ u = (u - 1) + 1
      OBVIOUS
    <3> QED BY <3>1
  <2>2. PICK z \in Nat : z = v * Batch
    BY <1>1
  <2>3. u * Batch = z + Batch
    BY <1>1, <2>1, <2>2, Multiples
  <2>4. n - 1 - z \in 0 .. Batch - 1 /\ n - 1 \in Nat /\ n - 1 = z + (n - 1 - z)
    BY <1>1, <2>3
  <2>5. (n - 1) % Batch = n - 1 - z
    <3>1. n - 1 = v * Batch + (n - 1 - z)
      BY <2>2, <2>4
    <3>2. n - 1 \in Nat /\ n - 1 - z \in 0 .. Batch - 1
      BY <2>4
    <3> QED BY <1>1, <3>1, <3>2, DivisionValue
  <2> QED BY <1>1, <2>3, <2>4, <2>5
<1>6. ASSUME NEW u \in Nat \ {0}, NEW m \in u * Batch - Batch + 1 .. u * Batch,
             NEW n \in u * Batch - Batch + 1 .. u * Batch, m <= n
      PROVE  Owner(m) <= Owner(n)
  <2>1. PICK z \in Int : z = u * Batch - Batch
    BY <1>1
  <2>2. /\ (m - 1) % Batch = m - 1 - z /\ m - 1 - z \in Nat
        /\ (n - 1) % Batch = n - 1 - z /\ n - 1 - z \in Nat
    BY <1>5, <2>1
  <2>3. m - 1 - z <= n - 1 - z
    BY <1>6, <2>1, <1>1
  <2>4. (m - 1 - z) \div Closures <= (n - 1 - z) \div Closures
    BY <1>4, <2>2, <2>3
  <2> QED BY <2>2, <2>4 DEF Owner
<1> QED BY <1>3, <1>6

\* What a step of p does to the broadcasts ...
Queued(p) ==
  /\ Queues(p)'
  /\ left' \in [Processes -> SUBSET Nat] /\ issued' \in [Processes -> Seq(Nat)]
  /\ \A q \in Processes \ {p} : left'[q] = left[q] /\ issued'[q] = issued[q]

\* ... when it submits some that are left, or none.
Submitted(p) ==
  /\ Queued(p)
  /\ left'[p] \subseteq left[p]
  /\ \A b \in BlockSet : Arrived(p, b) => Arrived(p, b)'

(* Issuing the next of the broadcasts that are left.                       *)
LEMMA Issues ==
  ASSUME TypeOK, NEW p \in Processes, Queues(p), update' = update, landed' = landed, cfg' = cfg,
         NEW S \in SUBSET left[p],
         \A n \in S, m \in left[p] : m < n => m \in S,
         Issue(p, S)
  PROVE  Submitted(p)
<1>1. PICK w \in Seq(Nat) : w = issued[p]
  BY DEF TypeOK
<1>2. PICK a \in Nat : a = Len(w)
  BY <1>1
<1>3. PICK c \in Nat : c = update[p] * Batch
  BY Sizes DEF TypeOK
<1>4. left[p] = a + 1 .. c /\ c - Batch <= a /\ a <= c /\ DOMAIN w = 1 .. a
      /\ \A i \in 1 .. a : w[i] = i
  BY <1>1, <1>2, <1>3 DEF Queues
<1>5. PICK e \in a .. c : S = a + 1 .. e
  <2> DEFINE T == (a + 1 .. c + 1) \ S
  <2>1. S \in SUBSET (a + 1 .. c) /\ \A n \in S, m \in a + 1 .. c : m < n => m \in S
    BY <1>4
  <2>2. T \in SUBSET Nat /\ c + 1 \in T
    BY <1>4, <2>1
  <2>3. PICK t \in T : \A n \in T : t <= n
    BY <2>2, HasLeast
  <2>4. t \in a + 1 .. c + 1 /\ t \notin S
    BY <2>3
  <2>5. ASSUME NEW n \in S PROVE n \in a + 1 .. t - 1
    <3>1. n \in a + 1 .. c /\ n # t
      BY <2>1, <2>4
    <3>2. ~(t < n)
      BY <2>1, <2>4, <3>1
    <3> QED BY <2>4, <3>1, <3>2
  <2>6. ASSUME NEW n \in a + 1 .. t - 1 PROVE n \in S
    <3>1. n \in a + 1 .. c + 1 /\ ~(t <= n)
      BY <2>4
    <3> QED BY <2>3, <3>1
  <2>7. t - 1 \in a .. c
    BY <2>4
  <2> QED BY <2>5, <2>6, <2>7
<1>6. PICK v \in Seq(Nat) : v = [i \in 1 .. e - a |-> a + i]
  <2>1. PICK k \in Nat : k = e - a
    OBVIOUS
  <2>2. [i \in 1 .. k |-> a + i] \in Seq(Nat)
    OBVIOUS
  <2> QED BY <2>1, <2>2
<1>7. Len(v) = e - a /\ e - a \in Nat
  BY <1>6
<1>8. Ascending(S) = v
  BY <1>5, <1>6, AscendingInterval
<1>9. issued' = [issued EXCEPT ![p] = w \o v] /\ left' = [left EXCEPT ![p] = left[p] \ S]
  BY <1>1, <1>8 DEF Issue
<1>10. w \o v \in Seq(Nat)
  OBVIOUS
<1>11. issued'[p] = w \o v /\ left'[p] = left[p] \ S
       /\ left' \in [Processes -> SUBSET Nat] /\ issued' \in [Processes -> Seq(Nat)]
       /\ \A q \in Processes \ {p} : left'[q] = left[q] /\ issued'[q] = issued[q]
  BY <1>9, <1>10 DEF TypeOK
<1>12. Len(w \o v) = e /\ DOMAIN (w \o v) = 1 .. e
  BY <1>2, <1>7
<1>13. ASSUME NEW i \in 1 .. e PROVE (w \o v)[i] = i
  <2>1. CASE i <= a
    <3>1. i \in 1 .. Len(w)
      BY <1>2, <2>1
    <3>2. (w \o v)[i] = w[i]
      BY <3>1
    <3> QED BY <1>2, <1>4, <3>1, <3>2
  <2>2. CASE a < i
    <3>1. (w \o v)[i] = v[i - a] /\ i - a \in 1 .. e - a
      BY <1>2, <1>7, <2>2
    <3>2. v[i - a] = a + (i - a)
      BY <1>6, <3>1
    <3> QED BY <3>1, <3>2
  <2>3. i <= a \/ a < i
    OBVIOUS
  <2> QED BY <2>1, <2>2, <2>3
<1>14. left'[p] = e + 1 .. c
  BY <1>4, <1>5, <1>11
<1>15. Batch \in Nat
  BY Sizes
<1>16. Queues(p)'
  <2>1. Len(issued'[p]) = e /\ update'[p] * Batch = c /\ Batch' = Batch
    BY <1>3, <1>11, <1>12 DEF Batch
  <2>2. \A i \in DOMAIN issued'[p] : issued'[p][i] = i
    BY <1>11, <1>12, <1>13
  <2>3. left'[p] = Len(issued'[p]) + 1 .. update'[p] * Batch
    BY <1>14, <2>1
  <2>4. c - Batch <= e /\ e <= c
    BY <1>4, <1>15
  <2> QED BY <2>1, <2>2, <2>3, <2>4 DEF Queues
<1>17. ASSUME NEW b \in BlockSet, Arrived(p, b) PROVE Arrived(p, b)'
  <2>1. \A n \in left'[p] : Owner(n) \notin cfg.owners[b]
    BY <1>11, <1>17 DEF Arrived
  <2>2. ASSUME NEW i \in 1 .. e, Owner(i) \in cfg.owners[b] PROVE i <= landed[p]
    <3>1. i \notin left[p]
      BY <1>17, <2>2 DEF Arrived
    <3>2. i \in DOMAIN w /\ w[i] = i
      BY <1>4, <3>1
    <3> QED BY <1>1, <1>17, <2>2, <3>2 DEF Arrived
  <2>3. \A i \in DOMAIN issued'[p] : Owner(issued'[p][i]) \in cfg.owners[b] => i <= landed[p]
    BY <1>11, <1>12, <1>13, <2>2
  <2> QED BY <2>1, <2>3 DEF Arrived, Owner, Batch
<1> QED BY <1>11, <1>16, <1>17 DEF Submitted, Queued

\* The broadcasts a block waits for come before all others that are left.
LEMMA SubmitsOwners ==
  ASSUME TypeOK, NEW p \in Processes, Queues(p), update' = update, landed' = landed, cfg' = cfg,
         NEW b \in BlockSet, \A a \in 0 .. b - 1 : Arrived(p, a), SubmitOwners(p, b)
  PROVE  Submitted(p)
<1> DEFINE S == {n \in left[p] : Owner(n) \in cfg.owners[b]}
<1>1. PICK u \in Nat : u = update[p]
  BY DEF TypeOK
<1>2. PICK a \in Nat : a = Len(issued[p])
  BY DEF TypeOK
<1>3. PICK c \in Nat : c = u * Batch
  BY <1>1, Sizes
<1>4. left[p] = a + 1 .. c /\ c - Batch <= a /\ Batch \in Nat \ {0}
  BY <1>1, <1>2, <1>3, Sizes DEF Queues
<1>5. ASSUME NEW n \in S, NEW m \in left[p], m < n PROVE m \in S
  <2>1. m \in c - Batch + 1 .. c /\ n \in c - Batch + 1 .. c /\ m \in Nat \ {0} /\ n \in Nat \ {0}
    BY <1>4
  <2>2. u # 0
    BY <1>3, <1>4, <2>1
  <2>3. Owner(m) <= Owner(n) /\ Owner(m) \in Ranks /\ Owner(n) \in Ranks
    BY <1>3, <1>5, <2>1, <2>2, Owned
  <2>4. CASE Owner(m) = Owner(n)
    BY <2>4
  <2>5. CASE Owner(m) < Owner(n)
    <3>1. PICK d \in 0 .. b : Owner(m) \in cfg.owners[d]
      BY <2>3, <2>5, OwnersAssumption DEF BlockSet, TypeOK
    <3>2. d \notin 0 .. b - 1
      BY <3>1 DEF Arrived
    <3>3. d = b
      BY <3>2 DEF BlockSet
    <3> QED BY <3>1, <3>3
  <2> QED BY <2>3, <2>4, <2>5 DEF Ranks
<1>6. S \in SUBSET left[p] /\ Issue(p, S)
  BY DEF SubmitOwners
<1> HIDE DEF S
<1> QED BY <1>5, <1>6, Issues

\* The queue issues the next broadcasts that are left.
LEMMA SubmitsQueue ==
  ASSUME TypeOK, NEW p \in Processes, Queues(p), update' = update, landed' = landed, cfg' = cfg,
         SubmitQueue(p)
  PROVE  Submitted(p)
<1> DEFINE S == {n \in left[p] : Below(left[p], n) < Room(p)}
<1>1. PICK a \in Nat : a = Len(issued[p])
  BY DEF TypeOK
<1>2. PICK c \in Nat : c = update[p] * Batch
  BY Sizes DEF TypeOK
<1>3. left[p] = a + 1 .. c /\ a <= c
  BY <1>1, <1>2 DEF Queues
<1>4. PICK room \in Int : room = Room(p)
  BY <1>1, Sizes DEF Room, TypeOK
<1>5. \A n \in left[p] : Below(left[p], n) = n - 1 - a
  <2>1. \A n \in a + 1 .. c : Below(a + 1 .. c, n) = n - 1 - a
    BY <1>3, AscendingInterval
  <2> QED BY <1>3, <2>1
<1>6. ASSUME NEW n \in S, NEW m \in left[p], m < n PROVE m \in S
  <2>1. n \in left[p] /\ n - 1 - a < room
    BY <1>4, <1>5
  <2>2. m - 1 - a < room
    BY <1>3, <1>6, <2>1
  <2> QED BY <1>4, <1>5, <2>2
<1>7. S \in SUBSET left[p] /\ Issue(p, S)
  BY DEF SubmitQueue
<1> HIDE DEF S
<1> QED BY <1>6, <1>7, Issues

\* Broadcasts that land, and steps that leave the queues alone.
LEMMA SubmitsNothing ==
  ASSUME TypeOK, NEW p \in Processes, Queues(p), update'[p] = update[p], cfg' = cfg,
         UNCHANGED broadcasts, landed' \in [Processes -> Nat], landed'[p] >= landed[p]
  PROVE  Submitted(p)
<1>1. left' = left /\ issued' = issued
  BY DEF broadcasts
<1>2. Queues(p)'
  BY <1>1 DEF Queues, Batch
<1>3. ASSUME NEW b \in BlockSet, Arrived(p, b) PROVE Arrived(p, b)'
  <2>1. ASSUME NEW i \in DOMAIN issued[p], Owner(issued[p][i]) \in cfg.owners[b]
        PROVE  i <= landed'[p]
    <3>1. i <= landed[p] /\ i \in Nat /\ landed[p] \in Nat /\ landed'[p] \in Nat
      BY <1>3, <2>1 DEF Arrived, TypeOK
    <3> QED BY <3>1
  <2> QED BY <1>1, <1>3, <2>1 DEF Arrived, Owner, Batch
<1> QED BY <1>1, <1>2, <1>3 DEF Submitted, Queued, TypeOK

\* A step that leaves the broadcasts alone.
LEMMA SubmitsNone ==
  ASSUME TypeOK, NEW p \in Processes, Queues(p), update' = update, landed' = landed, cfg' = cfg,
         UNCHANGED broadcasts
  PROVE  Submitted(p)
<1>1. landed' \in [Processes -> Nat] /\ landed'[p] >= landed[p] /\ update'[p] = update[p]
  BY DEF TypeOK
<1> QED BY <1>1, SubmitsNothing

-----------------------------------------------------------------------------
(* Gathers, and what a step leaves alone. *)

\* What a step does that gathers ms and then lets go of the released modules.
Obtained(p, ms, released) ==
  /\ broken' = broken
  /\ held' \in [Processes -> SUBSET Weights] /\ ops' \in [Processes -> Nat]
  /\ \A q \in Processes \ {p} : held'[q] = held[q]
  /\ \A m : m \in Holding(p)' <=>
       m \notin released /\ (m \in Holding(p) \/ \E i \in DOMAIN ms : m = ms[i])
  /\ (\A h \in held[p] : h.fresh) /\ (\A i \in DOMAIN ms : Arrived(p, BlockOf(ms[i]))) =>
       \A h \in held'[p] : h.fresh

Kept(p, ms, released) == {h \in held[p] \union Gathered(p, ms) : h.module \notin released}

\* What is held after gathering ms and releasing some.
LEMMA GatheredSet ==
  ASSUME TypeOK, NEW p \in Processes, NEW ms, NEW n \in Nat, DOMAIN ms = 1 .. n,
         \A i \in 1 .. n : ms[i] \in ModuleSet, NEW released
  PROVE  /\ Kept(p, ms, released) \in SUBSET Weights
         /\ \A m : (\E h \in Kept(p, ms, released) : h.module = m) <=>
              m \notin released /\ (m \in Holding(p) \/ \E i \in DOMAIN ms : m = ms[i])
         /\ (\A h \in held[p] : h.fresh) /\ (\A i \in DOMAIN ms : Arrived(p, BlockOf(ms[i]))) =>
              \A h \in Kept(p, ms, released) : h.fresh
<1> DEFINE X == Kept(p, ms, released)
<1> DEFINE G == Gathered(p, ms)
<1>1. ASSUME NEW h \in G
      PROVE  \E i \in 1 .. n : h.module = ms[i] /\ h.fresh = Arrived(p, BlockOf(ms[i]))
               /\ h \in Weights
  <2>1. PICK i \in 1 .. n :
          h = [module |-> ms[i], op |-> ops[p] + i, fresh |-> Arrived(p, BlockOf(ms[i]))]
    BY DEF Gathered
  <2>2. ms[i] \in ModuleSet /\ ops[p] + i \in Nat
    BY DEF TypeOK
  <2>3. Arrived(p, BlockOf(ms[i])) \in BOOLEAN
    BY DEF Arrived
  <2> QED BY <2>1, <2>2, <2>3 DEF Weights
<1>2. ASSUME NEW i \in 1 .. n PROVE \E h \in G : h.module = ms[i]
  <2> DEFINE h == [module |-> ms[i], op |-> ops[p] + i, fresh |-> Arrived(p, BlockOf(ms[i]))]
  <2>1. h \in G /\ h.module = ms[i]
    BY DEF Gathered
  <2> QED BY <2>1
<1> HIDE DEF G
<1>3. held[p] \in SUBSET Weights
  BY DEF TypeOK
<1>4. X = {h \in held[p] \union G : h.module \notin released}
  BY DEF G, Kept
<1> HIDE DEF X
<1>5. X \in SUBSET Weights
  BY <1>1, <1>3, <1>4
<1>6. \A m : (\E h \in X : h.module = m) <=>
        m \notin released /\ (m \in Holding(p) \/ \E i \in DOMAIN ms : m = ms[i])
  <2> TAKE m
  <2>1. m \in Holding(p) <=> \E h \in held[p] : h.module = m
    BY DEF Holding
  <2>2. (\E i \in DOMAIN ms : m = ms[i]) <=> \E h \in G : h.module = m
    BY <1>1, <1>2
  <2>3. (\E h \in X : h.module = m) <=>
          m \notin released /\ ((\E h \in held[p] : h.module = m) \/ \E h \in G : h.module = m)
    BY <1>4
  <2> QED BY <2>1, <2>2, <2>3
<1>7. ASSUME \A h \in held[p] : h.fresh, \A i \in DOMAIN ms : Arrived(p, BlockOf(ms[i])),
             NEW h \in X
      PROVE  h.fresh
  BY <1>1, <1>4, <1>7
<1> QED BY <1>5, <1>6, <1>7 DEF X

\* No module of ms is held, so the gather succeeds.
LEMMA Gathers ==
  ASSUME TypeOK, NEW p \in Processes, NEW ms, NEW n \in Nat, DOMAIN ms = 1 .. n, Len(ms) = n,
         \A i \in 1 .. n : ms[i] \in ModuleSet /\ ms[i] \notin Holding(p), NEW released,
         GatherRelease(p, ms, released)
  PROVE  Obtained(p, ms, released)
<1> DEFINE X == Kept(p, ms, released)
<1>1. /\ X \in SUBSET Weights
      /\ \A m : (\E h \in X : h.module = m) <=>
           m \notin released /\ (m \in Holding(p) \/ \E i \in DOMAIN ms : m = ms[i])
      /\ (\A h \in held[p] : h.fresh) /\ (\A i \in DOMAIN ms : Arrived(p, BlockOf(ms[i]))) =>
           \A h \in X : h.fresh
  <2>1. \A i \in 1 .. n : ms[i] \in ModuleSet
    OBVIOUS
  <2> QED BY <2>1, GatheredSet
<1>2. /\ held' = [held EXCEPT ![p] = X] /\ broken' = broken
      /\ ops' = [ops EXCEPT ![p] = ops[p] + n]
  BY DEF GatherRelease, Kept
<1> HIDE DEF X
<1>3. /\ held'[p] = X /\ held' \in [Processes -> SUBSET Weights]
      /\ \A q \in Processes \ {p} : held'[q] = held[q]
  BY <1>1, <1>2 DEF TypeOK
<1>4. ops' \in [Processes -> Nat]
  <2>1. PICK o \in Nat : o = ops[p] + n
    BY DEF TypeOK
  <2> QED BY <1>2, <2>1 DEF TypeOK
<1>5. \A m : m \in Holding(p)' <=> \E h \in X : h.module = m
  BY <1>3 DEF Holding
<1> QED BY <1>1, <1>2, <1>3, <1>4, <1>5 DEF Obtained

\* The sequences of modules that hooks gather.
LEMMA Gatherable ==
  /\ DOMAIN <<>> = 1 .. 0 /\ Len(<<>>) = 0
  /\ \A m : DOMAIN <<m>> = 1 .. 1 /\ Len(<<m>>) = 1 /\ <<m>>[1] = m
  /\ \A b \in BlockSet :
       /\ DOMAIN ModulesOf(b) = 1 .. Width /\ Len(ModulesOf(b)) = Width
       /\ \A i \in 1 .. Width : ModulesOf(b)[i] \in ModuleSet /\ BlockOf(ModulesOf(b)[i]) = b
       /\ \A m \in ModuleSet : BlockOf(m) = b => \E i \in 1 .. Width : m = ModulesOf(b)[i]
<1>1. DOMAIN <<>> = 1 .. 0 /\ Len(<<>>) = 0
  OBVIOUS
<1>2. \A m : DOMAIN <<m>> = 1 .. 1 /\ Len(<<m>>) = 1 /\ <<m>>[1] = m
  OBVIOUS
<1>3. ASSUME NEW b \in BlockSet
      PROVE  /\ DOMAIN ModulesOf(b) = 1 .. Width /\ Len(ModulesOf(b)) = Width
             /\ \A i \in 1 .. Width : ModulesOf(b)[i] \in ModuleSet /\ BlockOf(ModulesOf(b)[i]) = b
             /\ \A m \in ModuleSet : BlockOf(m) = b => \E i \in 1 .. Width : m = ModulesOf(b)[i]
  <2>1. b \in Nat /\ Width \in Nat
    BY Sizes DEF BlockSet
  <2>2. DOMAIN ModulesOf(b) = 1 .. Width /\ Len(ModulesOf(b)) = Width
    BY <2>1 DEF ModulesOf
  <2>3. \A i \in 1 .. Width : ModulesOf(b)[i] = b * Width + i
    BY DEF ModulesOf
  <2>4. \A i \in 1 .. Width : ModulesOf(b)[i] \in ModuleSet /\ BlockOf(ModulesOf(b)[i]) = b
    BY <2>1, <2>3, Numbered
  <2>5. \A m \in ModuleSet : BlockOf(m) = b => \E i \in 1 .. Width : m = ModulesOf(b)[i]
    BY <2>3, Parts
  <2> QED BY <2>2, <2>4, <2>5
<1> QED BY <1>1, <1>2, <1>3

\* What is said of what a process holds depends on where it is, not on what
\* has arrived since.
LEMMA HoldingsStay ==
  ASSUME NEW q \in Processes, Holdings(q), cfg' = cfg, pc'[q] = pc[q], held'[q] = held[q],
         broken'[q] = broken[q]
  PROVE  Holdings(q)'
<1>1. Holding(q)' = Holding(q)
  BY DEF Holding
<1>2. Forward(q)' /\ Recompute(q)' /\ BackwardRecomputed(q)' /\ BackwardKept(q)'
  BY <1>1 DEF Holdings, Forward, Recompute, BackwardRecomputed, BackwardKept, Span, Ahead,
     Launched, Passed,
       Launches, Running, Module, ModuleSet, Recomputed, SpanStart, NextRecomputed, BlockOf
<1> QED BY <1>1, <1>2 DEF Holdings, Well, Running, Recomputed, BlockOf

\* A step of p says nothing of q.
LEMMA Others ==
  ASSUME NEW q \in Processes, Queues(q), Arrivals(q), Holdings(q), cfg' = cfg, pc'[q] = pc[q],
         held'[q] = held[q], left'[q] = left[q], issued'[q] = issued[q], landed'[q] = landed[q],
         update'[q] = update[q], broken'[q] = broken[q]
  PROVE  Queues(q)' /\ Arrivals(q)' /\ Holdings(q)'
<1>1. Queues(q)'
  BY DEF Queues, Batch
<1>2. \A b : Arrived(q, b)' <=> Arrived(q, b)
  BY DEF Arrived, Owner, Batch
<1>3. Arrivals(q)'
  BY <1>2 DEF Arrivals, Behind
<1> QED BY <1>1, <1>3, HoldingsStay

\* Steps that neither gather nor release.
LEMMA ObtainsNothing ==
  ASSUME TypeOK, NEW p \in Processes, UNCHANGED weights
  PROVE  Obtained(p, <<>>, {}) /\ Holding(p)' = Holding(p)
<1>1. held' = held /\ ops' = ops /\ broken' = broken
  BY DEF weights
<1>2. Holding(p)' = Holding(p)
  BY <1>1 DEF Holding
<1>3. DOMAIN <<>> = {}
  OBVIOUS
<1> QED BY <1>1, <1>2, <1>3 DEF Obtained, TypeOK

\* Where a step of p leaves it.
Moved(p, phase, at, b, k) ==
  /\ pc' \in [Processes -> Positions] /\ \A q \in Processes : pc'[q].at \in Phases[pc'[q].phase]
  /\ \A q \in Processes \ {p} : pc'[q] = pc[q]
  /\ pc'[p].phase = phase /\ pc'[p].at = at /\ pc'[p].block = b /\ pc'[p].k = k

\* The points of every pass.
LEMMA PhaseTable ==
  /\ DOMAIN Phases = {"forward", "recompute", "backward", "after", "update"}
  /\ Phases["forward"] = {"enter", "own", "pre", "next", "launched", "run"}
  /\ Phases["recompute"] = {"pre", "launched", "run"}
  /\ Phases["backward"] = {"pre", "run", "end"}
  /\ Phases["after"] = {"backward"}
  /\ Phases["update"] = {"enter"}
  /\ \A phase \in DOMAIN Phases : Phases[phase] \subseteq Points
<1>1. /\ DOMAIN Phases = {"forward", "recompute", "backward", "after", "update"}
      /\ Phases["forward"] = {"enter", "own", "pre", "next", "launched", "run"}
      /\ Phases["recompute"] = {"pre", "launched", "run"}
      /\ Phases["backward"] = {"pre", "run", "end"}
      /\ Phases["after"] = {"backward"}
      /\ Phases["update"] = {"enter"}
  BY DEF Phases
<1>2. ASSUME NEW phase \in DOMAIN Phases PROVE Phases[phase] \subseteq Points
  <2>1. CASE phase = "forward"
    BY <1>1, <2>1 DEF Points
  <2>2. CASE phase = "recompute"
    BY <1>1, <2>2 DEF Points
  <2>3. CASE phase = "backward"
    BY <1>1, <2>3 DEF Points
  <2>4. CASE phase = "after"
    BY <1>1, <2>4 DEF Points
  <2>5. CASE phase = "update"
    BY <1>1, <2>5 DEF Points
  <2> QED BY <1>1, <2>1, <2>2, <2>3, <2>4, <2>5
<1> QED BY <1>1, <1>2

\* Goto moves p alone.
LEMMA Moves ==
  ASSUME TypeOK, NEW p \in Processes, NEW phase \in DOMAIN Phases, NEW at \in Phases[phase],
         NEW b \in BlockSet, NEW k \in 1 .. Width, Goto(p, phase, at, b, k)
  PROVE  Moved(p, phase, at, b, k)
<1>1. at \in Points
  BY PhaseTable
<1>2. [phase |-> phase, at |-> at, block |-> b, k |-> k] \in Positions
  BY <1>1 DEF Positions
<1>3. pc' = [pc EXCEPT ![p] = [phase |-> phase, at |-> at, block |-> b, k |-> k]]
  BY DEF Goto
<1>4. /\ pc'[p] = [phase |-> phase, at |-> at, block |-> b, k |-> k]
      /\ \A q \in Processes \ {p} : pc'[q] = pc[q]
      /\ pc' \in [Processes -> Positions]
  BY <1>2, <1>3 DEF TypeOK
<1>5. ASSUME NEW q \in Processes PROVE pc'[q].at \in Phases[pc'[q].phase]
  <2>1. CASE q = p
    <3>1. pc'[q].phase = phase /\ pc'[q].at = at
      BY <1>4, <2>1
    <3> QED BY <3>1
  <2>2. CASE q # p
    BY <1>4, <2>2 DEF TypeOK
  <2> QED BY <2>1, <2>2
<1> QED BY <1>4, <1>5 DEF Moved

\* Continue moves p within its module.
LEMMA Continues ==
  ASSUME TypeOK, NEW p \in Processes, NEW at \in Phases[pc[p].phase], Continue(p, at)
  PROVE  Moved(p, pc[p].phase, at, pc[p].block, pc[p].k)
<1>1. pc[p] \in Positions
  BY DEF TypeOK
<1>2. pc[p] = [phase |-> pc[p].phase, at |-> pc[p].at, block |-> pc[p].block, k |-> pc[p].k]
      /\ pc[p].phase \in DOMAIN Phases /\ pc[p].block \in BlockSet /\ pc[p].k \in 1 .. Width
  BY <1>1 DEF Positions
<1>3. pc' = [pc EXCEPT ![p] = [pc[p] EXCEPT !.at = at]]
  BY DEF Continue
<1>4. [pc[p] EXCEPT !.at = at] =
        [phase |-> pc[p].phase, at |-> at, block |-> pc[p].block, k |-> pc[p].k]
  BY <1>2
<1>5. Goto(p, pc[p].phase, at, pc[p].block, pc[p].k)
  BY <1>3, <1>4 DEF Goto
<1> QED BY <1>2, <1>5, Moves

\* Where a process is and what it may hold.
LEMMA Here ==
  ASSUME TypeOK, NEW p \in Processes
  PROVE  /\ pc[p].block \in BlockSet /\ pc[p].k \in 1 .. Width /\ pc[p].phase \in DOMAIN Phases
         /\ pc[p].at \in Phases[pc[p].phase]
         /\ Running(p) = Module(pc[p].block, pc[p].k) /\ Running(p) \in ModuleSet
         /\ BlockOf(Running(p)) = pc[p].block
         /\ \A m \in Holding(p) : m \in ModuleSet /\ BlockOf(m) \in BlockSet
<1>1. pc[p] \in Positions /\ held[p] \in SUBSET Weights /\ cfg \in Configurations
  BY DEF TypeOK
<1>2. pc[p].block \in BlockSet /\ pc[p].k \in 1 .. Width /\ pc[p].phase \in DOMAIN Phases
  BY <1>1 DEF Positions
<1>3. Running(p) = Module(pc[p].block, pc[p].k)
  BY DEF Running, Module
<1>4. Running(p) \in ModuleSet /\ BlockOf(Running(p)) = pc[p].block
  BY <1>1, <1>2, <1>3, Modules
<1>5. \A m \in Holding(p) : m \in ModuleSet
  BY <1>1 DEF Holding, Weights
<1> QED BY <1>2, <1>3, <1>4, <1>5, Neighbours DEF TypeOK

(* The invariant holds after a step of p if what it says of p does.        *)
LEMMA Advance ==
  ASSUME IInv, NEW p \in Processes, cfg' = cfg, Queued(p),
         NEW phase, NEW at, NEW b, NEW k, Moved(p, phase, at, b, k),
         NEW ms, NEW released, Obtained(p, ms, released),
         early' \in [Processes -> [prev : SUBSET Nat, curr : SUBSET Nat]],
         landed' = landed,
         update' \in [Processes -> Nat], \A q \in Processes \ {p} : update'[q] = update[q],
         Arrivals(p)', Holdings(p)'
  PROVE  IInv'
<1>1. TypeOK'
  BY DEF IInv, TypeOK, Queued, Moved, Obtained, Positions, Phases, Points, BlockSet, Weights,
     ModuleSet
<1>2. ASSUME NEW q \in Processes PROVE Queues(q)' /\ Arrivals(q)' /\ Holdings(q)'
  <2>1. CASE q = p
    BY <2>1 DEF Queued
  <2>2. CASE q # p
    BY <2>2, Others DEF IInv, Queued, Moved, Obtained
  <2> QED BY <2>1, <2>2
<1> QED BY <1>1, <1>2 DEF IInv

\* Blocks stay arrived; those a step newly relies on must have.
LEMMA StaysArrived ==
  ASSUME NEW p \in Processes, Arrivals(p), Submitted(p), cfg' = cfg, pc'[p].phase # "update",
         \A b \in Behind(p)' : b \in Behind(p) \/ (b \in BlockSet /\ Arrived(p, b))
  PROVE  Arrivals(p)'
<1>1. \A b \in Behind(p) : b \in BlockSet
  BY DEF Behind
<1> QED BY <1>1 DEF Arrivals, Submitted

\* Gathers of blocks that have arrived keep a process well.
LEMMA StaysWell ==
  ASSUME NEW p \in Processes, Well(p), cfg' = cfg, NEW ms, NEW released, Obtained(p, ms, released),
         cfg.grain = "layer" => \A i \in DOMAIN ms : Arrived(p, BlockOf(ms[i]))
  PROVE  Well(p)'
<1>1. ~broken'[p]
  BY DEF Well, Obtained
<1>2. ASSUME cfg.grain = "layer" PROVE \A h \in held'[p] : h.fresh
  BY <1>2 DEF Well, Obtained
<1> QED BY <1>1, <1>2 DEF Well

\* The same for a gather that releases nothing.
LEMMA Obtains ==
  ASSUME TypeOK, NEW p \in Processes,
         NEW ms, NEW n \in Nat, DOMAIN ms = 1 .. n, Len(ms) = n,
         \A i \in 1 .. n : ms[i] \in ModuleSet /\ ms[i] \notin Holding(p), Gather(p, ms)
  PROVE  Obtained(p, ms, {})
BY Gathers DEF Gather

-----------------------------------------------------------------------------
(* What has to be shown of a step's end. *)

\* What has to be shown of a step that ends in forward ...
LEMMA ForwardNext ==
  ASSUME NEW p \in Processes, cfg' = cfg, NEW at, NEW b, NEW k, Moved(p, "forward", at, b, k),
         at # "end", Well(p)', at = "run" => Module(b, k) \in Holding(p)',
         at \in {"enter", "own"} => k = 1 /\ (b = 0 => Holding(p)' = {}),
         at = "next" => cfg.grain = "layer" /\ cfg.order[k] = Launch /\ b + 1 < Blocks,
         \A m \in Holding(p)' :
           IF cfg.grain = "module" THEN m = Module(b, k)
           ELSE (\E j \in k .. Width : m = Module(b, j)) \/ (Passed(k, at) /\ BlockOf(m) = b + 1)
  PROVE  Holdings(p)'
<1>1. /\ pc'[p].phase = "forward" /\ pc'[p].at = at /\ pc'[p].block = b /\ pc'[p].k = k
  BY DEF Moved
<1>2. /\ Running(p)' = Module(b, k) /\ Launched(p)' = Passed(k, at)
      /\ Launches(p)' = (cfg.grain = "layer" /\ cfg.order[k] = Launch)
      /\ \A j : Module(b, j)' = Module(b, j) /\ \A m : BlockOf(m)' = BlockOf(m)
  BY <1>1 DEF Running, Module, Launched, Passed, Launches, BlockOf
<1>3. Forward(p)'
  BY <1>1, <1>2 DEF Forward
<1>4. Recompute(p)' /\ BackwardRecomputed(p)' /\ BackwardKept(p)'
  BY <1>1 DEF Recompute, BackwardRecomputed, BackwardKept
<1> QED BY <1>1, <1>2, <1>3, <1>4 DEF Holdings

\* ... in recomputation ...
LEMMA RecomputeNext ==
  ASSUME NEW p \in Processes, cfg' = cfg, NEW at, NEW b, NEW k, Moved(p, "recompute", at, b, k),
         at # "end", Well(p)', at = "run" => Module(b, k) \in Holding(p)', b < cfg.ckpt,
         \A m \in ModuleSet : BlockOf(m) \in SpanStart(b) .. b - 1 => m \in Holding(p)',
         \A j \in 1 .. k - 1 : Module(b, j) \in Holding(p)',
         \A m \in Holding(p)' :
           \/ ~Recomputed(BlockOf(m))
           \/ BlockOf(m) \in SpanStart(b) .. b - 1
           \/ BlockOf(m) = b /\ (cfg.grain = "module" => m <= Module(b, k))
           \/ cfg.grain = "layer" /\ Passed(k, at) /\ BlockOf(m) = NextRecomputed(b)
  PROVE  Holdings(p)'
<1>1. /\ pc'[p].phase = "recompute" /\ pc'[p].at = at /\ pc'[p].block = b /\ pc'[p].k = k
  BY DEF Moved
<1>2. /\ Running(p)' = Module(b, k) /\ Launched(p)' = Passed(k, at)
      /\ \A j : Module(b, j)' = Module(b, j) /\ \A m : BlockOf(m)' = BlockOf(m)
      /\ \A c : Recomputed(c)' = Recomputed(c) /\ SpanStart(b)' = SpanStart(b)
      /\ NextRecomputed(b)' = NextRecomputed(b) /\ ModuleSet' = ModuleSet
  BY <1>1 DEF Running, Module, Launched, Passed, BlockOf, Recomputed, SpanStart, NextRecomputed,
     ModuleSet
<1>3. Recompute(p)'
  BY <1>1, <1>2 DEF Recompute, Span, Recomputed
<1>4. Forward(p)' /\ BackwardRecomputed(p)' /\ BackwardKept(p)'
  BY <1>1 DEF Forward, BackwardRecomputed, BackwardKept
<1> QED BY <1>1, <1>2, <1>3, <1>4 DEF Holdings

\* ... in backward of a recomputed block ...
LEMMA BackwardRecomputedNext ==
  ASSUME NEW p \in Processes, cfg' = cfg, NEW at, NEW b, NEW k, Moved(p, "backward", at, b, k),
         Well(p)', at = "run" => Module(b, k) \in Holding(p)', b < cfg.ckpt, at = "end" => k = 1,
         NEW l, l = IF at = "end" THEN 0 ELSE k,
         \A m \in ModuleSet : BlockOf(m) \in SpanStart(b) .. b - 1 => m \in Holding(p)',
         \A j \in 1 .. l : Module(b, j) \in Holding(p)',
         \A m \in Holding(p)' :
           \/ ~Recomputed(BlockOf(m))
           \/ BlockOf(m) \in SpanStart(b) .. b - 1
           \/ \E j \in 1 .. l : m = Module(b, j)
           \/ BlockOf(m) = SpanStart(b) - cfg.span
              /\ (cfg.grain = "module" => m = (b - 1) * Width + 1)
  PROVE  Holdings(p)'
<1>1. /\ pc'[p].phase = "backward" /\ pc'[p].at = at /\ pc'[p].block = b /\ pc'[p].k = k
  BY DEF Moved
<1>2. /\ Running(p)' = Module(b, k) /\ Ahead(p)' = l
      /\ \A j : Module(b, j)' = Module(b, j) /\ \A m : BlockOf(m)' = BlockOf(m)
      /\ \A c : Recomputed(c)' = Recomputed(c) /\ SpanStart(b)' = SpanStart(b)
      /\ ModuleSet' = ModuleSet
  BY <1>1 DEF Running, Module, Ahead, BlockOf, Recomputed, SpanStart, ModuleSet
<1>3. BackwardRecomputed(p)'
  BY <1>1, <1>2 DEF BackwardRecomputed, Span
<1>4. Forward(p)' /\ Recompute(p)' /\ BackwardKept(p)'
  BY <1>1, <1>2 DEF Forward, Recompute, BackwardKept, Recomputed
<1> QED BY <1>1, <1>2, <1>3, <1>4 DEF Holdings

\* ... in backward of a block that was kept ...
LEMMA BackwardKeptNext ==
  ASSUME NEW p \in Processes, cfg' = cfg, NEW at, NEW b, NEW k, Moved(p, "backward", at, b, k),
         Well(p)', at = "run" => Module(b, k) \in Holding(p)', ~(b < cfg.ckpt), at = "end" => k = 1,
         NEW l, l = IF at = "end" THEN 0 ELSE k,
         \A m \in Holding(p)' :
           /\ ~Recomputed(BlockOf(m))
           /\ \/ at = "run" /\ m = Module(b, k)
              \/ BlockOf(m + 1) > b
              \/ \E j \in l + 1 .. Width : m + 1 = Module(b, j)
  PROVE  Holdings(p)'
<1>1. /\ pc'[p].phase = "backward" /\ pc'[p].at = at /\ pc'[p].block = b /\ pc'[p].k = k
  BY DEF Moved
<1>2. /\ Running(p)' = Module(b, k) /\ Ahead(p)' = l
      /\ \A j : Module(b, j)' = Module(b, j) /\ \A m : BlockOf(m)' = BlockOf(m)
      /\ \A c : Recomputed(c)' = Recomputed(c)
  BY <1>1 DEF Running, Module, Ahead, BlockOf, Recomputed
<1>3. BackwardKept(p)'
  BY <1>1, <1>2 DEF BackwardKept
<1>4. Forward(p)' /\ Recompute(p)' /\ BackwardRecomputed(p)'
  BY <1>1, <1>2 DEF Forward, Recompute, BackwardRecomputed, Recomputed
<1> QED BY <1>1, <1>2, <1>3, <1>4 DEF Holdings

\* ... and outside the passes.
LEMMA RestNext ==
  ASSUME NEW p \in Processes, cfg' = cfg, NEW phase \in {"after", "update"}, NEW at,
         at \notin {"run", "end"},
         NEW b, NEW k, Moved(p, phase, at, b, k), Well(p)',
         phase = "after" => \A m \in Holding(p)' : ~Recomputed(BlockOf(m)),
         phase = "update" => Holding(p)' = {}
  PROVE  Holdings(p)'
<1>1. pc'[p].phase = phase /\ pc'[p].at = at
  BY DEF Moved
<1>2. \A m : BlockOf(m)' = BlockOf(m) /\ Recomputed(BlockOf(m))' = Recomputed(BlockOf(m))
  BY DEF BlockOf, Recomputed
<1>3. Forward(p)' /\ Recompute(p)' /\ BackwardRecomputed(p)' /\ BackwardKept(p)'
  BY <1>1 DEF Forward, Recompute, BackwardRecomputed, BackwardKept
<1> QED BY <1>1, <1>2, <1>3 DEF Holdings

-----------------------------------------------------------------------------
(* Forward. *)

\* A launch module further on has not prefetched here.
LEMMA NotPassed ==
  ASSUME cfg \in Configurations, NEW k \in 1 .. Width, cfg.order[k] = Launch,
         NEW at, at \notin {"launched", "run"}
  PROVE  ~Passed(k, at)
<1>1. ASSUME NEW j \in 1 .. k, cfg.order[j] = Launch PROVE j = k
  <2>1. j \in 1 .. Width
    BY Sizes
  <2> QED BY <1>1, <2>1, Configured
<1> QED BY <1>1 DEF Passed

\* In forward the blocks behind have arrived ...
LEMMA BehindForward ==
  ASSUME NEW p \in Processes, pc[p].phase = "forward"
  PROVE  Behind(p) = {b \in BlockSet : b < pc[p].block
           \/ (b = pc[p].block /\ pc[p].at \notin {"enter", "own"})}
BY DEF Behind

\* ... also after a step.
LEMMA BehindForwardNext ==
  ASSUME NEW p \in Processes, NEW at, NEW b, NEW k, Moved(p, "forward", at, b, k)
  PROVE  Behind(p)' = {c \in BlockSet : c < b \/ (c = b /\ at \notin {"enter", "own"})}
BY DEF Behind, Moved, BlockSet

\* A block's pre-forward hook asks for its parameters.
LEMMA EntersBlock ==
  ASSUME IInv, NEW p \in Processes, EnterBlock(p)
  PROVE  IInv'
<1>1. /\ ~broken[p] /\ pc[p].phase = "forward" /\ pc[p].at = "enter"
      /\ SubmitOwners(p, pc[p].block) /\ Continue(p, "own")
      /\ cfg' = cfg /\ UNCHANGED weights /\ early' = early /\ landed' = landed /\ update' = update
  BY DEF EnterBlock, At
<1>2. TypeOK /\ Queues(p) /\ Arrivals(p) /\ Holdings(p)
  BY DEF IInv
<1>3. PICK b \in BlockSet, k \in 1 .. Width : b = pc[p].block /\ k = pc[p].k
  BY <1>2, Here
<1>4. Moved(p, "forward", "own", b, k)
  BY <1>1, <1>2, <1>3, Continues, PhaseTable
<1>5. Submitted(p)
  <2>1. \A a \in 0 .. b - 1 : Arrived(p, a)
    BY <1>1, <1>2, <1>3, BehindForward, Sizes DEF Arrivals, BlockSet
  <2> QED BY <1>1, <1>2, <1>3, <2>1, SubmitsOwners
<1>6. Obtained(p, <<>>, {}) /\ Holding(p)' = Holding(p)
  BY <1>1, <1>2, ObtainsNothing
<1>7. Arrivals(p)'
  <2>1. \A c \in Behind(p)' : c \in Behind(p)
    BY <1>1, <1>3, <1>4, BehindForward, BehindForwardNext
  <2>2. pc'[p].phase # "update"
    BY <1>4 DEF Moved
  <2> QED BY <1>1, <1>2, <1>5, <2>1, <2>2, StaysArrived
<1>8. Well(p)'
  BY <1>1, <1>2, <1>6, StaysWell, Gatherable DEF Holdings
<1>9. /\ k = 1 /\ (b = 0 => Holding(p) = {})
       /\ \A m \in Holding(p) :
            IF cfg.grain = "module" THEN m = Module(b, k)
            ELSE (\E j \in k .. Width : m = Module(b, j))
              \/ (Passed(k, "enter") /\ BlockOf(m) = b + 1)
  BY <1>1, <1>2, <1>3, Here DEF Holdings, Forward, Launched
<1>10. Passed(k, "enter") = Passed(k, "own")
  BY DEF Passed
<1>11. Holdings(p)'
  BY <1>1, <1>4, <1>6, <1>8, <1>9, <1>10, ForwardNext
<1>12. update' \in [Processes -> Nat]
       /\ early' \in [Processes -> [prev : SUBSET Nat, curr : SUBSET Nat]]
  BY <1>1, <1>2 DEF TypeOK
<1> QED BY <1>1, <1>4, <1>5, <1>6, <1>7, <1>11, <1>12, Advance DEF Submitted

\* With them, the first block is gathered: nothing is held there.
LEMMA AwaitsBlock ==
  ASSUME IInv, NEW p \in Processes, AwaitBlock(p)
  PROVE  IInv'
<1> DEFINE ms == IF pc[p].block = 0 /\ cfg.grain = "layer" THEN ModulesOf(0) ELSE <<>>
<1>1. /\ ~broken[p] /\ pc[p].phase = "forward" /\ pc[p].at = "own" /\ Arrived(p, pc[p].block)
      /\ SubmitQueue(p) /\ Gather(p, ms) /\ Continue(p, "pre")
      /\ cfg' = cfg /\ early' = early /\ landed' = landed /\ update' = update
  BY DEF AwaitBlock, At
<1>2. TypeOK /\ Queues(p) /\ Arrivals(p) /\ Holdings(p) /\ cfg \in Configurations
  BY DEF IInv, TypeOK
<1>3. PICK b \in BlockSet, k \in 1 .. Width : b = pc[p].block /\ k = pc[p].k
  BY <1>2, Here
<1>4. Moved(p, "forward", "pre", b, k)
  BY <1>1, <1>2, <1>3, Continues, PhaseTable
<1>5. Submitted(p)
  BY <1>1, <1>2, SubmitsQueue
<1>6. /\ k = 1 /\ (b = 0 => Holding(p) = {})
      /\ \A m \in Holding(p) :
           IF cfg.grain = "module" THEN m = Module(b, k)
           ELSE (\E j \in k .. Width : m = Module(b, j)) \/ (Passed(k, "own") /\ BlockOf(m) = b + 1)
  BY <1>1, <1>2, <1>3, Here DEF Holdings, Forward, Launched
<1>7. 0 \in BlockSet /\ Width \in Nat
  BY Sizes DEF BlockSet
<1>8. /\ Obtained(p, ms, {})
      /\ \A i \in DOMAIN ms : b = 0 /\ ms[i] \in ModuleSet /\ BlockOf(ms[i]) = 0
  <2>1. CASE b = 0 /\ cfg.grain = "layer"
    <3>1. ms = ModulesOf(0)
      BY <1>3, <2>1
    <3> HIDE DEF ms
    <3>2. /\ DOMAIN ms = 1 .. Width /\ Len(ms) = Width
          /\ \A i \in 1 .. Width : ms[i] \in ModuleSet /\ BlockOf(ms[i]) = 0
      BY <1>7, <3>1, Gatherable
    <3>3. \A i \in 1 .. Width : ms[i] \in ModuleSet /\ ms[i] \notin Holding(p)
      BY <1>6, <2>1, <3>2
    <3>4. Obtained(p, ms, {})
      BY <1>1, <1>2, <1>7, <3>2, <3>3, Obtains
    <3> QED BY <2>1, <3>2, <3>4
  <2>2. CASE ~(b = 0 /\ cfg.grain = "layer")
    <3>1. ms = <<>>
      BY <1>3, <2>2
    <3> HIDE DEF ms
    <3>2. DOMAIN ms = 1 .. 0 /\ Len(ms) = 0 /\ \A i \in 1 .. 0 : FALSE
      BY <3>1, Gatherable
    <3>3. \A i \in 1 .. 0 : ms[i] \in ModuleSet /\ ms[i] \notin Holding(p)
      BY <3>2
    <3>4. Obtained(p, ms, {})
      BY <1>1, <1>2, <3>2, <3>3, Obtains
    <3> QED BY <3>2, <3>4
  <2> QED BY <2>1, <2>2
<1>9. cfg.grain # "layer" => \A i \in DOMAIN ms : FALSE
  BY Gatherable
<1> HIDE DEF ms
<1>10. Arrivals(p)'
  <2>1. \A c \in Behind(p)' : c \in Behind(p) \/ (c \in BlockSet /\ Arrived(p, c))
    BY <1>1, <1>3, <1>4, BehindForward, BehindForwardNext
  <2>2. pc'[p].phase # "update"
    BY <1>4 DEF Moved
  <2> QED BY <1>1, <1>2, <1>5, <2>1, <2>2, StaysArrived
<1>11. Well(p)'
  <2>1. \A i \in DOMAIN ms : Arrived(p, BlockOf(ms[i]))
    BY <1>1, <1>3, <1>8
  <2> QED BY <1>1, <1>2, <1>8, <2>1, StaysWell DEF Holdings
<1>12. ASSUME NEW m \in Holding(p)'
       PROVE  IF cfg.grain = "module" THEN m = Module(b, k)
              ELSE (\E j \in k .. Width : m = Module(b, j))
                \/ (Passed(k, "pre") /\ BlockOf(m) = b + 1)
  <2>1. m \in Holding(p) \/ \E i \in DOMAIN ms : m = ms[i]
    BY <1>8, <1>12 DEF Obtained
  <2>2. CASE m \in Holding(p)
    <3>1. Passed(k, "own") = Passed(k, "pre")
      BY DEF Passed
    <3> QED BY <1>6, <2>2, <3>1
  <2>3. CASE \E i \in DOMAIN ms : m = ms[i]
    <3>1. b = 0 /\ m \in ModuleSet /\ BlockOf(m) = b /\ cfg.grain = "layer"
      BY <1>8, <1>9, <2>3
    <3>2. \E j \in 1 .. Width : m = Module(b, j)
      BY <1>2, <3>1, Modules
    <3> QED BY <1>6, <3>1, <3>2
  <2> QED BY <2>1, <2>2, <2>3
<1>13. Holdings(p)'
  BY <1>1, <1>4, <1>11, <1>12, ForwardNext
<1>14. update' \in [Processes -> Nat]
       /\ early' \in [Processes -> [prev : SUBSET Nat, curr : SUBSET Nat]]
  BY <1>1, <1>2 DEF TypeOK
<1> QED BY <1>1, <1>4, <1>5, <1>8, <1>10, <1>13, <1>14, Advance DEF Submitted

\* The launch module asks for the parameters of the next block.
LEMMA RequestsNext ==
  ASSUME IInv, NEW p \in Processes, RequestNext(p)
  PROVE  IInv'
<1>1. /\ ~broken[p] /\ pc[p].phase = "forward" /\ pc[p].at = "pre" /\ Launches(p)
      /\ pc[p].block + 1 < Blocks /\ SubmitOwners(p, pc[p].block + 1) /\ Continue(p, "next")
      /\ cfg' = cfg /\ UNCHANGED weights /\ early' = early /\ landed' = landed /\ update' = update
  BY DEF RequestNext, At
<1>2. TypeOK /\ Queues(p) /\ Arrivals(p) /\ Holdings(p)
  BY DEF IInv
<1>3. PICK b \in BlockSet, k \in 1 .. Width : b = pc[p].block /\ k = pc[p].k
  BY <1>2, Here
<1>4. Moved(p, "forward", "next", b, k)
  BY <1>1, <1>2, <1>3, Continues, PhaseTable
<1>5. Submitted(p)
  <2>1. \A a \in 0 .. (b + 1) - 1 : Arrived(p, a)
    BY <1>1, <1>2, <1>3, BehindForward, Sizes DEF Arrivals, BlockSet
  <2>2. b + 1 \in BlockSet
    BY <1>1, <1>3, Sizes DEF BlockSet
  <2> QED BY <1>1, <1>2, <1>3, <2>1, <2>2, SubmitsOwners
<1>6. Obtained(p, <<>>, {}) /\ Holding(p)' = Holding(p)
  BY <1>1, <1>2, ObtainsNothing
<1>7. Arrivals(p)'
  <2>1. \A c \in Behind(p)' : c \in Behind(p)
    BY <1>1, <1>3, <1>4, BehindForward, BehindForwardNext
  <2>2. pc'[p].phase # "update"
    BY <1>4 DEF Moved
  <2> QED BY <1>1, <1>2, <1>5, <2>1, <2>2, StaysArrived
<1>8. Well(p)'
  BY <1>1, <1>2, <1>6, StaysWell, Gatherable DEF Holdings
<1>9. \A m \in Holding(p) :
        IF cfg.grain = "module" THEN m = Module(b, k)
        ELSE (\E j \in k .. Width : m = Module(b, j)) \/ (Passed(k, "pre") /\ BlockOf(m) = b + 1)
  BY <1>1, <1>2, <1>3, Here DEF Holdings, Forward, Launched
<1>10. Passed(k, "pre") = Passed(k, "next")
  BY DEF Passed
<1>11. Holdings(p)'
  <2>1. cfg.grain = "layer" /\ cfg.order[k] = Launch /\ b + 1 < Blocks
    BY <1>1, <1>3 DEF Launches
  <2> QED BY <1>1, <1>4, <1>6, <1>8, <1>9, <1>10, <2>1, ForwardNext
<1>12. update' \in [Processes -> Nat]
       /\ early' \in [Processes -> [prev : SUBSET Nat, curr : SUBSET Nat]]
  BY <1>1, <1>2 DEF TypeOK
<1> QED BY <1>1, <1>4, <1>5, <1>6, <1>7, <1>11, <1>12, Advance DEF Submitted

\* With them, the next block is gathered: none of it is held yet.
LEMMA PrefetchesNext ==
  ASSUME IInv, NEW p \in Processes, PrefetchNext(p)
  PROVE  IInv'
<1>1. /\ ~broken[p] /\ pc[p].phase = "forward" /\ pc[p].at = "next" /\ Arrived(p, pc[p].block + 1)
      /\ SubmitQueue(p) /\ Gather(p, ModulesOf(pc[p].block + 1)) /\ Continue(p, "launched")
      /\ cfg' = cfg /\ early' = early /\ landed' = landed /\ update' = update
  BY DEF PrefetchNext, At
<1>2. TypeOK /\ Queues(p) /\ Arrivals(p) /\ Holdings(p) /\ cfg \in Configurations
  BY DEF IInv, TypeOK
<1>3. PICK b \in BlockSet, k \in 1 .. Width : b = pc[p].block /\ k = pc[p].k
  BY <1>2, Here
<1>4. Moved(p, "forward", "launched", b, k)
  BY <1>1, <1>2, <1>3, Continues, PhaseTable
<1>5. Submitted(p)
  BY <1>1, <1>2, SubmitsQueue
<1>6. /\ cfg.grain = "layer" /\ cfg.order[k] = Launch /\ b + 1 < Blocks
      /\ \A m \in Holding(p) :
           (\E j \in k .. Width : m = Module(b, j)) \/ (Passed(k, "next") /\ BlockOf(m) = b + 1)
  BY <1>1, <1>2, <1>3, Here DEF Holdings, Forward, Launched, Launches
<1>7. b + 1 \in BlockSet /\ Width \in Nat /\ b \in Nat
  BY <1>6, Sizes DEF BlockSet
<1>8. PICK ms : ms = ModulesOf(b + 1)
  OBVIOUS
<1>9. /\ DOMAIN ms = 1 .. Width /\ Len(ms) = Width
      /\ \A i \in 1 .. Width : ms[i] \in ModuleSet /\ BlockOf(ms[i]) = b + 1
  BY <1>7, <1>8, Gatherable
<1>10. \A i \in 1 .. Width : ms[i] \in ModuleSet /\ ms[i] \notin Holding(p)
  <2>1. ~Passed(k, "next")
    BY <1>2, <1>6, NotPassed
  <2>2. \A j \in k .. Width : j \in 1 .. Width
    BY <1>7
  <2>3. \A m \in Holding(p) : BlockOf(m) = b
    BY <1>2, <1>6, <2>1, <2>2, Modules
  <2> QED BY <1>7, <1>9, <2>3
<1>11. Obtained(p, ms, {})
  BY <1>1, <1>2, <1>3, <1>7, <1>8, <1>9, <1>10, Obtains
<1>12. Arrivals(p)'
  <2>1. \A c \in Behind(p)' : c \in Behind(p)
    BY <1>1, <1>3, <1>4, BehindForward, BehindForwardNext
  <2>2. pc'[p].phase # "update"
    BY <1>4 DEF Moved
  <2> QED BY <1>1, <1>2, <1>5, <2>1, <2>2, StaysArrived
<1>13. Well(p)'
  <2>1. \A i \in DOMAIN ms : Arrived(p, BlockOf(ms[i]))
    BY <1>1, <1>3, <1>9
  <2> QED BY <1>1, <1>2, <1>11, <2>1, StaysWell DEF Holdings
<1>14. ASSUME NEW m \in Holding(p)'
       PROVE  (\E j \in k .. Width : m = Module(b, j))
                \/ (Passed(k, "launched") /\ BlockOf(m) = b + 1)
  <2>1. m \in Holding(p) \/ \E i \in DOMAIN ms : m = ms[i]
    BY <1>11, <1>14 DEF Obtained
  <2>2. Passed(k, "launched")
    BY <1>6, <1>7 DEF Passed
  <2>3. CASE m \in Holding(p)
    BY <1>6, <2>2, <2>3
  <2>4. CASE \E i \in DOMAIN ms : m = ms[i]
    BY <1>9, <2>2, <2>4
  <2> QED BY <2>1, <2>3, <2>4
<1>15. Holdings(p)'
  BY <1>1, <1>4, <1>6, <1>13, <1>14, ForwardNext
<1>16. update' \in [Processes -> Nat]
       /\ early' \in [Processes -> [prev : SUBSET Nat, curr : SUBSET Nat]]
  BY <1>1, <1>2 DEF TypeOK
<1> QED BY <1>1, <1>4, <1>5, <1>11, <1>12, <1>15, <1>16, Advance DEF Submitted

\* Gathering nothing changes nothing.
LEMMA GathersNone ==
  ASSUME TypeOK, NEW p \in Processes, Gather(p, <<>>)
  PROVE  Obtained(p, <<>>, {}) /\ \A i \in DOMAIN <<>> : FALSE
<1>1. PICK ms : ms = <<>>
  OBVIOUS
<1>2. DOMAIN ms = 1 .. 0 /\ Len(ms) = 0
  BY <1>1, Gatherable
<1>3. \A i \in 1 .. 0 : ms[i] \in ModuleSet /\ ms[i] \notin Holding(p)
  OBVIOUS
<1>4. Obtained(p, ms, {})
  BY <1>1, <1>2, <1>3, Obtains
<1> QED BY <1>1, <1>2, <1>4

\* A module that is held is not gathered again.
LEMMA GathersMissing ==
  ASSUME TypeOK, NEW p \in Processes, NEW m \in ModuleSet, Gather(p, IfMissing(p, m))
  PROVE  /\ Obtained(p, IfMissing(p, m), {})
         /\ \A i \in DOMAIN IfMissing(p, m) : IfMissing(p, m)[i] = m
         /\ \A x : x \in Holding(p)' <=> x \in Holding(p) \/ x = m
<1>1. PICK ms : ms = IfMissing(p, m)
  OBVIOUS
<1>2. CASE m \in Holding(p)
  <2>1. ms = <<>>
    BY <1>1, <1>2 DEF IfMissing
  <2>2. DOMAIN ms = 1 .. 0 /\ Len(ms) = 0
    BY <2>1, Gatherable
  <2>3. \A i \in 1 .. 0 : ms[i] \in ModuleSet /\ ms[i] \notin Holding(p)
    OBVIOUS
  <2>4. Obtained(p, ms, {})
    BY <1>1, <2>2, <2>3, Obtains
  <2>5. \A i \in DOMAIN ms : FALSE
    BY <2>2
  <2>6. \A x : x \in Holding(p)' <=> x \in Holding(p) \/ x = m
    BY <1>2, <2>4, <2>5 DEF Obtained
  <2> QED BY <1>1, <2>4, <2>5, <2>6
<1>3. CASE m \notin Holding(p)
  <2>1. ms = <<m>>
    BY <1>1, <1>3 DEF IfMissing
  <2>2. DOMAIN ms = 1 .. 1 /\ Len(ms) = 1 /\ ms[1] = m
    BY <2>1, Gatherable
  <2>3. \A i \in 1 .. 1 : i = 1 /\ ms[i] \in ModuleSet /\ ms[i] \notin Holding(p)
    BY <1>3, <2>2
  <2>4. Obtained(p, ms, {})
    BY <1>1, <2>2, <2>3, Obtains
  <2>5. \A i \in DOMAIN ms : ms[i] = m
    BY <2>2, <2>3
  <2>6. \E i \in DOMAIN ms : m = ms[i]
    BY <2>2
  <2>7. \A x : x \in Holding(p)' <=> x \in Holding(p) \/ x = m
    BY <2>4, <2>5, <2>6 DEF Obtained
  <2> QED BY <1>1, <2>4, <2>5, <2>7
<1> QED BY <1>2, <1>3

\* After forward, every block has arrived.
LEMMA AllBehind ==
  ASSUME NEW p \in Processes, pc[p].phase \notin {"update", "forward"}, Arrivals(p)
  PROVE  Behind(p) = BlockSet /\ \A b \in BlockSet : Arrived(p, b)
<1>1. Behind(p) = BlockSet
  BY DEF Behind
<1> QED BY <1>1 DEF Arrivals

\* Once every block has arrived, every block has until the next update.
LEMMA ArrivesOn ==
  ASSUME NEW p \in Processes, \A b \in BlockSet : Arrived(p, b), Submitted(p),
         pc'[p].phase # "update"
  PROVE  Arrivals(p)'
<1>1. \A b \in Behind(p)' : b \in BlockSet
  BY DEF Behind, BlockSet
<1> QED BY <1>1 DEF Arrivals, Submitted

\* A module of forward is gathered unless it was prefetched.
LEMMA StartsModuleForward ==
  ASSUME IInv, NEW p \in Processes, PreModule(p), pc[p].phase = "forward"
  PROVE  IInv'
<1> DEFINE m == Running(p)
<1>1. /\ ~broken[p] /\ pc[p].at \in {"launched", "pre"}
      /\ Gather(p, IfMissing(p, m)) /\ Continue(p, "run")
      /\ cfg' = cfg /\ early' = early /\ landed' = landed /\ update' = update
      /\ UNCHANGED broadcasts
  BY DEF PreModule, At
<1>2. TypeOK /\ Queues(p) /\ Arrivals(p) /\ Holdings(p) /\ cfg \in Configurations
  BY DEF IInv, TypeOK
<1>3. PICK b \in BlockSet, k \in 1 .. Width : b = pc[p].block /\ k = pc[p].k
  BY <1>2, Here
<1>4. Moved(p, "forward", "run", b, k)
  BY <1>1, <1>2, <1>3, Continues, PhaseTable
<1>5. Submitted(p)
  BY <1>1, <1>2, SubmitsNone
<1>6. m = Module(b, k) /\ m \in ModuleSet /\ BlockOf(m) = b
  BY <1>2, <1>3, Here
<1> HIDE DEF m
<1>7. /\ Obtained(p, IfMissing(p, m), {})
      /\ \A i \in DOMAIN IfMissing(p, m) : IfMissing(p, m)[i] = m
      /\ \A x : x \in Holding(p)' <=> x \in Holding(p) \/ x = m
  BY <1>1, <1>2, <1>6, GathersMissing
<1>8. Arrivals(p)'
  <2>1. \A c \in Behind(p)' : c \in Behind(p)
    BY <1>1, <1>3, <1>4, BehindForward, BehindForwardNext
  <2>2. pc'[p].phase # "update"
    BY <1>4 DEF Moved
  <2> QED BY <1>1, <1>2, <1>5, <2>1, <2>2, StaysArrived
<1>9. Arrived(p, b)
  BY <1>1, <1>2, <1>3, BehindForward DEF Arrivals
<1>10. Well(p)'
  BY <1>1, <1>2, <1>6, <1>7, <1>9, StaysWell DEF Holdings
<1>11. \A x \in Holding(p) :
         IF cfg.grain = "module" THEN x = Module(b, k)
         ELSE (\E j \in k .. Width : x = Module(b, j))
           \/ (Passed(k, pc[p].at) /\ BlockOf(x) = b + 1)
  BY <1>2, <1>3, <1>6, Here DEF Holdings, Forward, Launched
<1>12. Passed(k, pc[p].at) => Passed(k, "run")
  BY DEF Passed
<1>13. \A x \in Holding(p)' :
         IF cfg.grain = "module" THEN x = Module(b, k)
         ELSE (\E j \in k .. Width : x = Module(b, j)) \/ (Passed(k, "run") /\ BlockOf(x) = b + 1)
  <2>1. k \in k .. Width
    BY Sizes
  <2> QED BY <1>6, <1>7, <1>11, <1>12, <2>1
<1>14. Holdings(p)'
  BY <1>1, <1>4, <1>6, <1>7, <1>10, <1>13, ForwardNext
<1>15. update' \in [Processes -> Nat]
       /\ early' \in [Processes -> [prev : SUBSET Nat, curr : SUBSET Nat]]
  BY <1>1, <1>2 DEF TypeOK
<1> QED BY <1>1, <1>4, <1>5, <1>7, <1>8, <1>14, <1>15, Advance DEF Submitted

-----------------------------------------------------------------------------
(* Recomputation. *)

\* What the invariant says of a process that recomputes.
LEMMA Recomputing ==
  ASSUME IInv, NEW p \in Processes, pc[p].phase = "recompute"
  PROVE  LET b == pc[p].block
             k == pc[p].k
         IN /\ b \in BlockSet /\ k \in 1 .. Width /\ b < cfg.ckpt
            /\ \A m \in ModuleSet : BlockOf(m) \in SpanStart(b) .. b - 1 => m \in Holding(p)
            /\ \A j \in 1 .. k - 1 : Module(b, j) \in Holding(p)
            /\ \A m \in Holding(p) :
                 \/ ~Recomputed(BlockOf(m))
                 \/ BlockOf(m) \in SpanStart(b) .. b - 1
                 \/ BlockOf(m) = b /\ (cfg.grain = "module" => m <= Module(b, k))
                 \/ cfg.grain = "layer" /\ Passed(k, pc[p].at) /\ BlockOf(m) = NextRecomputed(b)
            /\ pc[p].at = "run" => Module(b, k) \in Holding(p)
<1>1. TypeOK /\ Holdings(p)
  BY DEF IInv
<1>2. /\ pc[p].block \in BlockSet /\ pc[p].k \in 1 .. Width
      /\ Running(p) = Module(pc[p].block, pc[p].k)
  BY <1>1, Here
<1> QED BY <1>1, <1>2 DEF Holdings, Recompute, Span, Launched, Recomputed

\* So is one of recomputation, which keeps what it has.
LEMMA StartsModuleRecompute ==
  ASSUME IInv, NEW p \in Processes, PreModule(p), pc[p].phase = "recompute"
  PROVE  IInv'
<1> DEFINE m == Running(p)
<1>1. /\ ~broken[p] /\ pc[p].at \in {"launched", "pre"}
      /\ Gather(p, IfMissing(p, m)) /\ Continue(p, "run")
      /\ cfg' = cfg /\ early' = early /\ landed' = landed /\ update' = update
      /\ UNCHANGED broadcasts
  BY DEF PreModule, At
<1>2. TypeOK /\ Queues(p) /\ Arrivals(p) /\ Holdings(p) /\ cfg \in Configurations
  BY DEF IInv, TypeOK
<1>3. PICK b \in BlockSet, k \in 1 .. Width : b = pc[p].block /\ k = pc[p].k
  BY <1>2, Here
<1>4. Moved(p, "recompute", "run", b, k)
  BY <1>1, <1>2, <1>3, Continues, PhaseTable
<1>5. Submitted(p)
  BY <1>1, <1>2, SubmitsNone
<1>6. m = Module(b, k) /\ m \in ModuleSet /\ BlockOf(m) = b
  BY <1>2, <1>3, Here
<1> HIDE DEF m
<1>7. /\ Obtained(p, IfMissing(p, m), {})
      /\ \A i \in DOMAIN IfMissing(p, m) : IfMissing(p, m)[i] = m
      /\ \A x : x \in Holding(p)' <=> x \in Holding(p) \/ x = m
  BY <1>1, <1>2, <1>6, GathersMissing
<1>8. \A c \in BlockSet : Arrived(p, c)
  BY <1>2, AllBehind
<1>9. Arrivals(p)'
  BY <1>4, <1>5, <1>8, ArrivesOn DEF Moved
<1>10. Well(p)'
  BY <1>1, <1>2, <1>6, <1>7, <1>8, StaysWell DEF Holdings
<1>11. /\ b < cfg.ckpt
       /\ \A x \in ModuleSet : BlockOf(x) \in SpanStart(b) .. b - 1 => x \in Holding(p)
       /\ \A j \in 1 .. k - 1 : Module(b, j) \in Holding(p)
       /\ \A x \in Holding(p) :
            \/ ~Recomputed(BlockOf(x))
            \/ BlockOf(x) \in SpanStart(b) .. b - 1
            \/ BlockOf(x) = b /\ (cfg.grain = "module" => x <= Module(b, k))
            \/ cfg.grain = "layer" /\ Passed(k, pc[p].at) /\ BlockOf(x) = NextRecomputed(b)
  BY <1>3, Recomputing
<1>12. Passed(k, pc[p].at) => Passed(k, "run")
  BY DEF Passed
<1>13. m <= Module(b, k)
  BY <1>6 DEF ModuleSet
<1>14. \A x \in Holding(p)' :
         \/ ~Recomputed(BlockOf(x))
         \/ BlockOf(x) \in SpanStart(b) .. b - 1
         \/ BlockOf(x) = b /\ (cfg.grain = "module" => x <= Module(b, k))
         \/ cfg.grain = "layer" /\ Passed(k, "run") /\ BlockOf(x) = NextRecomputed(b)
  BY <1>6, <1>7, <1>11, <1>12, <1>13
<1>15. Holdings(p)'
  BY <1>1, <1>4, <1>6, <1>7, <1>10, <1>11, <1>14, RecomputeNext
<1>16. update' \in [Processes -> Nat]
       /\ early' \in [Processes -> [prev : SUBSET Nat, curr : SUBSET Nat]]
  BY <1>1, <1>2 DEF TypeOK
<1> QED BY <1>1, <1>4, <1>5, <1>7, <1>9, <1>15, <1>16, Advance DEF Submitted

\* Recomputation prefetches a block of which nothing is held.
LEMMA PrefetchesRecomputed ==
  ASSUME IInv, NEW p \in Processes, PrefetchRecomputed(p)
  PROVE  IInv'
<1> DEFINE next == NextRecomputed(pc[p].block)
           ms == IF next \in 0 .. Blocks - 1 THEN ModulesOf(next) ELSE <<>>
<1>1. /\ ~broken[p] /\ pc[p].phase = "recompute" /\ pc[p].at = "pre" /\ Launches(p)
      /\ Gather(p, ms) /\ Continue(p, "launched")
      /\ cfg' = cfg /\ early' = early /\ landed' = landed /\ update' = update
      /\ UNCHANGED broadcasts
  BY DEF PrefetchRecomputed, At
<1>2. TypeOK /\ Queues(p) /\ Arrivals(p) /\ Holdings(p) /\ cfg \in Configurations
  BY DEF IInv, TypeOK
<1>3. PICK b \in BlockSet, k \in 1 .. Width : b = pc[p].block /\ k = pc[p].k
  BY <1>2, Here
<1>4. Moved(p, "recompute", "launched", b, k)
  BY <1>1, <1>2, <1>3, Continues, PhaseTable
<1>5. Submitted(p)
  BY <1>1, <1>2, SubmitsNone
<1>6. cfg.grain = "layer" /\ cfg.order[k] = Launch
  BY <1>1, <1>3 DEF Launches
<1>7. next = NextRecomputed(b) /\ ms = IF next \in BlockSet THEN ModulesOf(next) ELSE <<>>
  BY <1>3 DEF BlockSet
<1> HIDE DEF next, ms
<1>8. /\ b < cfg.ckpt
      /\ \A x \in ModuleSet : BlockOf(x) \in SpanStart(b) .. b - 1 => x \in Holding(p)
      /\ \A j \in 1 .. k - 1 : Module(b, j) \in Holding(p)
      /\ \A x \in Holding(p) :
           \/ ~Recomputed(BlockOf(x))
           \/ BlockOf(x) \in SpanStart(b) .. b - 1
           \/ BlockOf(x) = b
           \/ Passed(k, "pre") /\ BlockOf(x) = NextRecomputed(b)
  BY <1>1, <1>3, Recomputing
<1>9. ~Passed(k, "pre")
  BY <1>2, <1>6, NotPassed
<1>10. next \in BlockSet => Recomputed(next) /\ next # b /\ next \notin SpanStart(b) .. b - 1
  <2>1. /\ SpanStart(b) \in 0 .. b /\ b < SpanStart(b) + cfg.span
        /\ next = IF b + 1 = SpanStart(b) + cfg.span THEN SpanStart(b) - cfg.span ELSE b + 1
    BY <1>2, <1>7, Spans
  <2>2. cfg.span \in Nat \ {0} /\ b \in Nat /\ cfg.ckpt \in Nat
          /\ (cfg.span > 1 => cfg.ckpt = Blocks)
    <3>1. cfg.span \in 1 .. Blocks /\ cfg.ckpt \in 0 .. Blocks
            /\ (cfg.span > 1 => cfg.ckpt = Blocks)
      BY <1>2, Configured
    <3> QED BY <3>1, Sizes DEF BlockSet
  <2>3. CASE b + 1 = SpanStart(b) + cfg.span
    BY <1>8, <2>1, <2>2, <2>3 DEF Recomputed, BlockSet
  <2>4. CASE b + 1 # SpanStart(b) + cfg.span
    <3>1. cfg.span > 1 /\ next = b + 1
      BY <2>1, <2>2, <2>4
    <3> QED BY <2>1, <2>2, <3>1, Sizes DEF Recomputed, BlockSet
  <2> QED BY <2>3, <2>4
<1>11. Width \in Nat
  BY Sizes
<1>12. /\ Obtained(p, ms, {})
       /\ \A i \in DOMAIN ms : next \in BlockSet /\ BlockOf(ms[i]) = next
  <2>1. CASE next \in BlockSet
    <3>1. /\ DOMAIN ms = 1 .. Width /\ Len(ms) = Width
          /\ \A i \in 1 .. Width : ms[i] \in ModuleSet /\ BlockOf(ms[i]) = next
      BY <1>7, <2>1, Gatherable
    <3>2. \A i \in 1 .. Width : ms[i] \in ModuleSet /\ ms[i] \notin Holding(p)
      BY <1>8, <1>9, <1>10, <2>1, <3>1
    <3>3. Obtained(p, ms, {})
      BY <1>1, <1>2, <1>11, <3>1, <3>2, Obtains
    <3> QED BY <2>1, <3>1, <3>3
  <2>2. CASE next \notin BlockSet
    <3>1. ms = <<>>
      BY <1>7, <2>2
    <3>2. Obtained(p, ms, {}) /\ \A i \in DOMAIN ms : FALSE
      BY <1>1, <1>2, <3>1, GathersNone
    <3> QED BY <3>2
  <2> QED BY <2>1, <2>2
<1>13. \A c \in BlockSet : Arrived(p, c)
  BY <1>1, <1>2, AllBehind
<1>14. Arrivals(p)'
  BY <1>4, <1>5, <1>13, ArrivesOn DEF Moved
<1>15. Well(p)'
  BY <1>1, <1>2, <1>12, <1>13, StaysWell DEF Holdings
<1>16. \A x \in Holding(p) : x \in Holding(p)'
  BY <1>12 DEF Obtained
<1>17. \A x \in Holding(p)' :
         \/ ~Recomputed(BlockOf(x))
         \/ BlockOf(x) \in SpanStart(b) .. b - 1
         \/ BlockOf(x) = b /\ (cfg.grain = "module" => x <= Module(b, k))
         \/ cfg.grain = "layer" /\ Passed(k, "launched") /\ BlockOf(x) = NextRecomputed(b)
  <2>1. Passed(k, "launched")
    BY <1>6, Sizes DEF Passed
  <2>2. \A x \in Holding(p)' : x \in Holding(p) \/ BlockOf(x) = next
    BY <1>12 DEF Obtained
  <2> QED BY <1>6, <1>7, <1>8, <1>9, <2>1, <2>2
<1>18. Holdings(p)'
  BY <1>1, <1>4, <1>8, <1>15, <1>16, <1>17, RecomputeNext
<1>19. update' \in [Processes -> Nat]
       /\ early' \in [Processes -> [prev : SUBSET Nat, curr : SUBSET Nat]]
  BY <1>1, <1>2 DEF TypeOK
<1> QED BY <1>1, <1>4, <1>5, <1>12, <1>14, <1>18, <1>19, Advance DEF Submitted

-----------------------------------------------------------------------------
(* The run of a module. *)

\* A release without a gather.
LEMMA ReleasesOnly ==
  ASSUME TypeOK, NEW p \in Processes, NEW released, GatherRelease(p, <<>>, released)
  PROVE  /\ Obtained(p, <<>>, released)
         /\ \A i \in DOMAIN <<>> : FALSE
         /\ \A x : x \in Holding(p)' <=> x \notin released /\ x \in Holding(p)
<1>1. PICK ms : ms = <<>>
  OBVIOUS
<1>2. DOMAIN ms = 1 .. 0 /\ Len(ms) = 0
  BY <1>1, Gatherable
<1>3. \A i \in 1 .. 0 : ms[i] \in ModuleSet /\ ms[i] \notin Holding(p)
  OBVIOUS
<1>4. Obtained(p, ms, released)
  BY <1>1, <1>2, <1>3, Gathers
<1>5. \A x : x \in Holding(p)' <=> x \notin released /\ x \in Holding(p)
  BY <1>2, <1>4 DEF Obtained
<1> QED BY <1>1, <1>2, <1>4, <1>5

\* A gather of one module that is not held.
LEMMA GathersOne ==
  ASSUME TypeOK, NEW p \in Processes, NEW released, NEW m \in ModuleSet, m \notin Holding(p),
         GatherRelease(p, <<m>>, released)
  PROVE  /\ Obtained(p, <<m>>, released)
         /\ \A i \in DOMAIN <<m>> : <<m>>[i] = m
         /\ \A x : x \in Holding(p)' <=> x \notin released /\ (x \in Holding(p) \/ x = m)
<1>1. PICK ms : ms = <<m>>
  OBVIOUS
<1>2. DOMAIN ms = 1 .. 1 /\ Len(ms) = 1 /\ ms[1] = m
  BY <1>1, Gatherable
<1>3. \A i \in 1 .. 1 : i = 1 /\ ms[i] \in ModuleSet /\ ms[i] \notin Holding(p)
  BY <1>2
<1>4. Obtained(p, ms, released)
  BY <1>1, <1>2, <1>3, Gathers
<1>5. (\A i \in DOMAIN ms : ms[i] = m) /\ \E i \in DOMAIN ms : m = ms[i]
  BY <1>2, <1>3
<1>6. \A x : x \in Holding(p)' <=> x \notin released /\ (x \in Holding(p) \/ x = m)
  BY <1>4, <1>5 DEF Obtained
<1> QED BY <1>1, <1>4, <1>5, <1>6

(* Backward begins with nothing in the way of recomputing a span, or with   *)
(* only what backward may hold.                                             *)
LEMMA BackwardStarts ==
  ASSUME TypeOK, NEW p \in Processes, NEW c \in BlockSet, StartBackward(p, c), cfg' = cfg, Well(p)',
         \A m \in Holding(p)' :
           \/ ~Recomputed(BlockOf(m)) /\ (Recomputed(c) \/ BlockOf(m + 1) > c)
           \/ Recomputed(c) /\ BlockOf(m) = SpanStart(c)
              /\ (cfg.grain = "module" => m <= Module(SpanStart(c), 1))
  PROVE  /\ Holdings(p)'
         /\ \E phase \in {"recompute", "backward"} : \E at, b, k : Moved(p, phase, at, b, k)
<1>1. cfg \in Configurations
  BY DEF TypeOK
<1>2. c \in Nat /\ Width \in Nat \ {0} /\ 1 \in 1 .. Width /\ Width \in 1 .. Width
  BY Sizes DEF BlockSet
<1>3. CASE Recomputed(c)
  <2>1. PICK s : s = SpanStart(c)
    OBVIOUS
  <2>2. s \in 0 .. c /\ SpanStart(s) = s
    <3>1. /\ SpanStart(c) \in 0 .. c /\ c < SpanStart(c) + cfg.span
          /\ \A d \in SpanStart(c) .. SpanStart(c) + cfg.span - 1 : SpanStart(d) = SpanStart(c)
      BY <1>1, Spans
    <3>2. cfg.span \in Nat \ {0}
      <4>1. cfg.span \in 1 .. Blocks
        BY <1>1, Configured
      <4> QED BY <4>1, Sizes
    <3>3. s \in s .. s + cfg.span - 1
      BY <1>2, <2>1, <3>1, <3>2
    <3> QED BY <2>1, <3>1, <3>3
  <2>3. s \in BlockSet /\ s \in Nat
    BY <1>2, <2>2, Sizes DEF BlockSet
  <2>4. Moved(p, "recompute", "pre", s, 1)
    BY <1>2, <1>3, <2>1, <2>3, Moves, PhaseTable DEF StartBackward
  <2>5. s < cfg.ckpt
    <3>1. c < cfg.ckpt /\ cfg.ckpt \in Int
      BY <1>1, <1>3, Configured, Sizes DEF Recomputed
    <3> QED BY <1>2, <2>2, <3>1
  <2>6. \A m \in ModuleSet : BlockOf(m) \in SpanStart(s) .. s - 1 => m \in Holding(p)'
    <3>1. \A x : x \notin s .. s - 1
      BY <2>3
    <3> QED BY <2>2, <3>1
  <2>7. \A j \in 1 .. 1 - 1 : Module(s, j) \in Holding(p)'
    OBVIOUS
  <2>8. \A m \in Holding(p)' :
          \/ ~Recomputed(BlockOf(m))
          \/ BlockOf(m) \in SpanStart(s) .. s - 1
          \/ BlockOf(m) = s /\ (cfg.grain = "module" => m <= Module(s, 1))
          \/ cfg.grain = "layer" /\ Passed(1, "pre") /\ BlockOf(m) = NextRecomputed(s)
    BY <2>1
  <2>9. Holdings(p)'
    BY <2>4, <2>5, <2>6, <2>7, <2>8, RecomputeNext
  <2> QED BY <2>4, <2>9
<1>4. CASE ~Recomputed(c)
  <2>1. Moved(p, "backward", "pre", c, Width)
    BY <1>2, <1>4, Moves, PhaseTable DEF StartBackward
  <2>2. ~(c < cfg.ckpt)
    BY <1>4 DEF Recomputed
  <2>3. \A m \in Holding(p)' :
          /\ ~Recomputed(BlockOf(m))
          /\ \/ "pre" = "run" /\ m = Module(c, Width)
             \/ BlockOf(m + 1) > c
             \/ \E j \in Width + 1 .. Width : m + 1 = Module(c, j)
    BY <1>4
  <2>4. Holdings(p)'
    BY <2>1, <2>2, <2>3, BackwardKeptNext
  <2> QED BY <2>1, <2>4
<1> QED BY <1>3, <1>4

\* The weights that the run of a forward module gathers and releases.
LEMMA ForwardRelease ==
  ASSUME IInv, NEW p \in Processes, pc[p].phase = "forward", pc[p].at = "run",
         GatherRelease(p, NextModule(p), {Running(p)})
  PROVE  LET m == Running(p) IN
         /\ Obtained(p, NextModule(p), {m})
         /\ cfg.grain = "layer" => \A i \in DOMAIN NextModule(p) : FALSE
         /\ \A x \in Holding(p)' :
              IF cfg.grain = "layer" THEN x \in Holding(p) /\ x # m
              ELSE x = m + 1 /\ m # Blocks * Width
<1>1. TypeOK /\ Holdings(p) /\ cfg \in Configurations
  BY DEF IInv, TypeOK
<1>2. PICK m \in ModuleSet : m = Running(p)
  BY <1>1, Here
<1>3. cfg.grain # "layer" => cfg.grain = "module"
  BY <1>1, Configured
<1>4. CASE cfg.grain = "layer"
  <2>1. NextModule(p) = <<>>
    BY <1>4 DEF NextModule
  <2> QED BY <1>1, <1>2, <1>4, <2>1, ReleasesOnly
<1>5. CASE cfg.grain # "layer"
  <2>1. \A x \in Holding(p) : x = m
    BY <1>1, <1>2, <1>3, <1>5 DEF Holdings, Forward
  <2>2. CASE m = Blocks * Width
    <3>1. NextModule(p) = <<>>
      BY <1>2, <1>5, <2>2 DEF NextModule
    <3> QED BY <1>1, <1>2, <1>5, <2>1, <3>1, ReleasesOnly
  <2>3. CASE m # Blocks * Width
    <3>1. NextModule(p) = <<m + 1>>
      BY <1>2, <1>5, <2>3 DEF NextModule
    <3>2. m + 1 \in ModuleSet /\ m + 1 # m
      BY <2>3, Neighbours DEF ModuleSet
    <3>3. m + 1 \notin Holding(p)
      BY <2>1, <3>2
    <3> QED BY <1>1, <1>2, <1>5, <2>1, <2>3, <3>1, <3>2, <3>3, GathersOne
  <2> QED BY <2>2, <2>3
<1> QED BY <1>4, <1>5

\* A module of forward runs; it is released and, by modules, the next gathered.
LEMMA RunsForward ==
  ASSUME IInv, NEW p \in Processes, RunModule(p), pc[p].phase = "forward"
  PROVE  IInv'
<1>1. /\ ~broken[p] /\ pc[p].at = "run" /\ GatherRelease(p, NextModule(p), {Running(p)})
      /\ cfg' = cfg /\ early' = early /\ landed' = landed /\ update' = update
      /\ UNCHANGED broadcasts
  BY DEF RunModule, At
<1>2. TypeOK /\ Queues(p) /\ Arrivals(p) /\ Holdings(p) /\ cfg \in Configurations
  BY DEF IInv, TypeOK
<1>3. PICK b \in BlockSet, k \in 1 .. Width : b = pc[p].block /\ k = pc[p].k
  BY <1>2, Here
<1>4. PICK m \in ModuleSet : m = Running(p) /\ m = Module(b, k) /\ BlockOf(m) = b
  BY <1>2, <1>3, Here
<1>5. Submitted(p)
  BY <1>1, <1>2, SubmitsNone
<1>6. /\ Obtained(p, NextModule(p), {m})
      /\ cfg.grain = "layer" => \A i \in DOMAIN NextModule(p) : FALSE
      /\ \A x \in Holding(p)' :
           IF cfg.grain = "layer" THEN x \in Holding(p) /\ x # m
           ELSE x = m + 1 /\ m # Blocks * Width
  BY <1>1, <1>4, ForwardRelease
<1>7. Well(p)'
  BY <1>1, <1>2, <1>6, StaysWell DEF Holdings
<1>8. b \in Nat /\ Width \in Nat \ {0} /\ Blocks \in Nat \ {0} /\ b < Blocks /\ b * Width \in Nat
      /\ k \in Nat \ {0} /\ k <= Width
  BY Sizes DEF BlockSet
<1>9. cfg.grain # "layer" => cfg.grain = "module" /\ m = b * Width + k
  BY <1>2, <1>4, Configured, Modules
<1>10. ASSUME NEW x \in Holding(p)', cfg.grain = "layer"
       PROVE  (\E j \in k + 1 .. Width : x = Module(b, j))
                \/ (Passed(k, "run") /\ BlockOf(x) = b + 1)
  <2>1. x \in Holding(p) /\ x # m
    BY <1>6, <1>10
  <2>2. (\E j \in k .. Width : x = Module(b, j)) \/ (Passed(k, "run") /\ BlockOf(x) = b + 1)
    BY <1>1, <1>2, <1>3, <1>10, <2>1 DEF Holdings, Forward, Launched
  <2>3. ASSUME NEW j \in k .. Width, x = Module(b, j) PROVE j \in k + 1 .. Width
    <3>1. j # k
      BY <1>4, <2>1, <2>3
    <3> QED BY <1>8, <3>1
  <2> QED BY <2>2, <2>3
<1>11. \A c \in BlockSet : c <= b => Arrived(p, c)
  <2>1. \A c \in BlockSet : c <= b => c < b \/ c = b
    BY <1>8 DEF BlockSet
  <2> QED BY <1>1, <1>2, <1>3, <2>1, BehindForward DEF Arrivals
<1>12. update' \in [Processes -> Nat]
       /\ early' \in [Processes -> [prev : SUBSET Nat, curr : SUBSET Nat]]
  BY <1>1, <1>2 DEF TypeOK
<1>13. CASE k < Width
  <2>1. k + 1 \in 1 .. Width /\ Goto(p, "forward", "pre", b, k + 1)
    BY <1>3, <1>8, <1>13 DEF RunModule
  <2>2. Moved(p, "forward", "pre", b, k + 1)
    BY <1>2, <2>1, Moves, PhaseTable
  <2>3. Arrivals(p)'
    <3>1. \A c \in Behind(p)' : c \in Behind(p)
      BY <1>1, <1>3, <2>2, BehindForward, BehindForwardNext
    <3>2. pc'[p].phase # "update"
      BY <2>2 DEF Moved
    <3> QED BY <1>1, <1>2, <1>5, <3>1, <3>2, StaysArrived
  <2>4. Passed(k, "run") => Passed(k + 1, "pre")
    BY <1>8 DEF Passed
  <2>5. \A x \in Holding(p)' :
          IF cfg.grain = "module" THEN x = Module(b, k + 1)
          ELSE (\E j \in k + 1 .. Width : x = Module(b, j))
               \/ (Passed(k + 1, "pre") /\ BlockOf(x) = b + 1)
    <3>1. cfg.grain = "module" => Module(b, k + 1) = m + 1
      BY <1>2, <1>8, <1>9, <2>1, Modules
    <3>2. cfg.grain \in {"layer", "module"}
      BY <1>2, Configured
    <3> QED BY <1>6, <1>10, <2>4, <3>1, <3>2
  <2>6. Holdings(p)'
    BY <1>1, <1>7, <2>2, <2>5, ForwardNext
  <2> QED BY <1>1, <1>5, <1>6, <1>12, <2>2, <2>3, <2>6, Advance DEF Submitted
<1>14. CASE k = Width /\ b + 1 < Blocks
  <2>1. b + 1 \in BlockSet /\ 1 \in 1 .. Width /\ Goto(p, "forward", "enter", b + 1, 1)
    BY <1>3, <1>8, <1>14 DEF RunModule, BlockSet
  <2>2. Moved(p, "forward", "enter", b + 1, 1)
    BY <1>2, <2>1, Moves, PhaseTable
  <2>3. Arrivals(p)'
    <3>1. \A c \in Behind(p)' : c \in BlockSet /\ Arrived(p, c)
      <4>1. \A c \in Behind(p)' : c \in BlockSet /\ c < b + 1
        BY <2>2, BehindForwardNext
      <4>2. \A c \in BlockSet : c < b + 1 => c <= b
        BY <1>8 DEF BlockSet
      <4> QED BY <1>11, <4>1, <4>2
    <3>2. pc'[p].phase # "update"
      BY <2>2 DEF Moved
    <3> QED BY <1>1, <1>2, <1>5, <3>1, <3>2, StaysArrived
  <2>4. \A x \in Holding(p)' :
          IF cfg.grain = "module" THEN x = Module(b + 1, 1)
          ELSE (\E j \in 1 .. Width : x = Module(b + 1, j))
               \/ (Passed(1, "enter") /\ BlockOf(x) = b + 1 + 1)
    <3>1. cfg.grain = "module" => Module(b + 1, 1) = m + 1
      <4>1. (b + 1) * Width = b * Width + Width
        BY <1>8, Multiples
      <4>2. cfg.grain = "module" => Module(b + 1, 1) = (b + 1) * Width + 1
        BY <1>2, <2>1, Modules
      <4> QED BY <1>8, <1>9, <1>14, <4>1, <4>2
    <3>2. ASSUME NEW x \in Holding(p)', cfg.grain = "layer"
          PROVE  \E j \in 1 .. Width : x = Module(b + 1, j)
      <4>1. BlockOf(x) = b + 1
        BY <1>8, <1>10, <1>14, <3>2
      <4>2. x \in ModuleSet
        BY <1>2, <1>6, <3>2, Here
      <4> QED BY <1>2, <2>1, <4>1, <4>2, Modules
    <3>3. cfg.grain \in {"layer", "module"}
      BY <1>2, Configured
    <3> QED BY <1>6, <3>1, <3>2, <3>3
  <2>5. b + 1 # 0
    BY <1>8
  <2>6. Holdings(p)'
    BY <1>1, <1>7, <2>2, <2>4, <2>5, ForwardNext
  <2> QED BY <1>1, <1>5, <1>6, <1>12, <2>2, <2>3, <2>6, Advance DEF Submitted
<1>15. CASE k = Width /\ b + 1 >= Blocks
  <2>1. b + 1 = Blocks /\ StartBackward(p, b)
    BY <1>3, <1>8, <1>15 DEF RunModule
  <2>2. \A x \in Holding(p)' : FALSE
    <3>1. ASSUME NEW x \in Holding(p)', cfg.grain = "layer" PROVE FALSE
      <4>1. BlockOf(x) = b + 1
        BY <1>8, <1>10, <1>15, <3>1
      <4>2. BlockOf(x) \in BlockSet
        BY <1>2, <1>6, <3>1, Here
      <4> QED BY <1>8, <2>1, <4>1, <4>2 DEF BlockSet
    <3>2. cfg.grain # "layer" => m = Blocks * Width
      <4>1. (b + 1) * Width = b * Width + Width
        BY <1>8, Multiples
      <4> QED BY <1>8, <1>9, <1>15, <2>1, <4>1
    <3> QED BY <1>6, <3>1, <3>2
  <2>3. /\ Holdings(p)'
        /\ \E phase \in {"recompute", "backward"} : \E at, c, l : Moved(p, phase, at, c, l)
    BY <1>1, <1>2, <1>7, <2>1, <2>2, BackwardStarts
  <2>4. Arrivals(p)'
    <3>1. \A c \in BlockSet : Arrived(p, c)
      BY <1>8, <1>11, <2>1 DEF BlockSet
    <3>2. pc'[p].phase # "update"
      BY <2>3 DEF Moved
    <3> QED BY <1>5, <3>1, <3>2, ArrivesOn
  <2> QED BY <1>1, <1>5, <1>6, <1>12, <2>3, <2>4, Advance DEF Submitted
<1> QED BY <1>8, <1>13, <1>14, <1>15

\* The weights that the run of a recomputed module gathers; it releases none.
LEMMA RecomputeGather ==
  ASSUME IInv, NEW p \in Processes, pc[p].phase = "recompute", pc[p].at = "run",
         GatherRelease(p, NextModule(p), {})
  PROVE  LET b == pc[p].block
             k == pc[p].k
         IN /\ Obtained(p, NextModule(p), {})
            /\ cfg.grain = "layer" => \A i \in DOMAIN NextModule(p) : FALSE
            /\ \A x \in Holding(p) : x \in Holding(p)'
            /\ \A x \in Holding(p)' :
                 \/ x \in Holding(p)
                 \/ /\ cfg.grain = "module"
                    /\ IF k < Width THEN x = Module(b, k + 1) ELSE b >= 1 /\ x = (b - 1) * Width + 1
<1>1. TypeOK /\ cfg \in Configurations
  BY DEF IInv, TypeOK
<1>2. PICK b \in BlockSet, k \in 1 .. Width : b = pc[p].block /\ k = pc[p].k
  BY <1>1, Here
<1>3. PICK m \in ModuleSet : m = Running(p) /\ m = Module(b, k) /\ BlockOf(m) = b
  BY <1>1, <1>2, Here
<1>4. cfg.grain # "layer" => cfg.grain = "module" /\ m = b * Width + k
  BY <1>1, <1>3, Configured, Modules
<1>5. b \in Nat /\ Width \in Nat \ {0} /\ Blocks \in Nat \ {0} /\ b < Blocks /\ b * Width \in Nat
      /\ k \in Nat \ {0} /\ k <= Width
  BY Sizes DEF BlockSet
<1>6. \A x \in Holding(p) :
        \/ ~Recomputed(BlockOf(x))
        \/ BlockOf(x) \in SpanStart(b) .. b - 1
        \/ BlockOf(x) = b /\ (cfg.grain = "module" => x <= m)
        \/ cfg.grain = "layer"
  BY <1>2, <1>3, Recomputing
<1>7. cfg.grain # "layer" => SpanStart(b) = b
  <2>1. SpanStart(b) \in 0 .. b /\ b < SpanStart(b) + cfg.span
    BY <1>1, Spans
  <2>2. cfg.span \in 1 .. Blocks /\ (cfg.span > 1 => cfg.grain = "layer")
    BY <1>1, Configured
  <2> QED BY <1>5, <2>1, <2>2
<1>8. Recomputed(b)
  BY <1>2, Recomputing DEF Recomputed
<1>9. CASE cfg.grain = "layer"
  <2>1. NextModule(p) = <<>>
    BY <1>9 DEF NextModule
  <2> QED BY <1>1, <1>9, <2>1, ReleasesOnly
<1>10. CASE cfg.grain # "layer" /\ k < Width
  <2>1. k + 1 \in 1 .. Width
    BY <1>5, <1>10
  <2>2. m + 1 = Module(b, k + 1) /\ m + 1 \in ModuleSet /\ BlockOf(m + 1) = b
    BY <1>1, <1>4, <1>5, <1>10, <2>1, Modules
  <2>3. m # Blocks * Width
    BY <1>5, <2>2 DEF ModuleSet
  <2>4. NextModule(p) = <<m + 1>>
    BY <1>3, <1>10, <2>2, <2>3 DEF NextModule
  <2>5. m + 1 \notin Holding(p)
    <3>1. ~(m + 1 <= m) /\ b \notin b .. b - 1
      BY <1>5 DEF ModuleSet
    <3> QED BY <1>4, <1>6, <1>7, <1>8, <1>10, <2>2, <3>1
  <2> QED BY <1>1, <1>2, <1>4, <1>10, <2>2, <2>4, <2>5, GathersOne
<1>11. CASE cfg.grain # "layer" /\ k = Width
  <2>1. m = Blocks * Width \/ BlockOf(m + 1) # b
    <3>1. (b + 1) * Width = b * Width + Width
      BY <1>5, Multiples
    <3>2. m + 1 = (b + 1) * Width + 1 /\ b + 1 \in Nat /\ 1 \in 1 .. Width
      BY <1>4, <1>5, <1>11, <3>1
    <3>3. BlockOf(m + 1) = b + 1
      BY <3>2, Numbered
    <3> QED BY <1>5, <3>3
  <2>2. CASE b >= 1
    <3>1. PICK f : f = (b - 1) * Width + 1
      OBVIOUS
    <3>2. NextModule(p) = <<f>>
      BY <1>3, <1>11, <2>1, <2>2, <3>1 DEF NextModule
    <3>3. f \in ModuleSet /\ BlockOf(f) = b - 1
      <4>1. b - 1 \in Nat /\ 1 \in 1 .. Width /\ b - 1 \in BlockSet
        BY <1>5, <2>2 DEF BlockSet
      <4> QED BY <3>1, <4>1, Numbered
    <3>4. f \notin Holding(p)
      <4>1. Recomputed(b - 1)
        <5>1. cfg.ckpt \in 0 .. Blocks
          BY <1>1, Configured
        <5> QED BY <1>5, <1>8, <5>1 DEF Recomputed
      <4>2. b - 1 \notin b .. b - 1 /\ b - 1 # b
        BY <1>5
      <4> QED BY <1>6, <1>7, <1>11, <3>3, <4>1, <4>2
    <3>5. ~(k < Width)
      BY <1>5, <1>11
    <3> QED BY <1>1, <1>2, <1>4, <1>11, <2>2, <3>1, <3>2, <3>3, <3>4, <3>5, GathersOne
  <2>3. CASE ~(b >= 1)
    <3>1. NextModule(p) = <<>>
      BY <1>3, <1>11, <2>1, <2>3 DEF NextModule
    <3> QED BY <1>1, <1>11, <3>1, ReleasesOnly
  <2> QED BY <2>2, <2>3
<1> QED BY <1>5, <1>9, <1>10, <1>11

\* A module of recomputation runs; it is kept for backward.
LEMMA RunsRecompute ==
  ASSUME IInv, NEW p \in Processes, RunModule(p), pc[p].phase = "recompute"
  PROVE  IInv'
<1>1. /\ ~broken[p] /\ pc[p].at = "run" /\ cfg' = cfg /\ early' = early /\ landed' = landed
      /\ update' = update /\ UNCHANGED broadcasts
  BY DEF RunModule, At
<1>2. TypeOK /\ Queues(p) /\ Arrivals(p) /\ Holdings(p) /\ cfg \in Configurations
  BY DEF IInv, TypeOK
<1>3. PICK b \in BlockSet, k \in 1 .. Width : b = pc[p].block /\ k = pc[p].k
  BY <1>2, Here
<1>4. PICK s : s = SpanStart(b)
  OBVIOUS
<1>5. /\ b < cfg.ckpt
      /\ \A x \in ModuleSet : BlockOf(x) \in s .. b - 1 => x \in Holding(p)
      /\ \A j \in 1 .. k - 1 : Module(b, j) \in Holding(p)
      /\ \A x \in Holding(p) :
           \/ ~Recomputed(BlockOf(x))
           \/ BlockOf(x) \in s .. b - 1
           \/ BlockOf(x) = b /\ (cfg.grain = "module" => x <= Module(b, k))
           \/ cfg.grain = "layer" /\ Passed(k, "run") /\ BlockOf(x) = NextRecomputed(b)
      /\ Module(b, k) \in Holding(p)
  BY <1>1, <1>3, <1>4, Recomputing
<1>6. GatherRelease(p, NextModule(p), {})
  BY <1>3, <1>5 DEF RunModule, Recomputed
<1>7. /\ Obtained(p, NextModule(p), {})
      /\ cfg.grain = "layer" => \A i \in DOMAIN NextModule(p) : FALSE
      /\ \A x \in Holding(p) : x \in Holding(p)'
      /\ \A x \in Holding(p)' :
           \/ x \in Holding(p)
           \/ /\ cfg.grain = "module"
              /\ IF k < Width THEN x = Module(b, k + 1) ELSE b >= 1 /\ x = (b - 1) * Width + 1
  BY <1>1, <1>3, <1>6, RecomputeGather
<1>8. Submitted(p)
  BY <1>1, <1>2, SubmitsNone
<1>9. Well(p)'
  BY <1>1, <1>2, <1>7, StaysWell DEF Holdings
<1>10. \A c \in BlockSet : Arrived(p, c)
  BY <1>2, AllBehind
<1>11. update' \in [Processes -> Nat]
       /\ early' \in [Processes -> [prev : SUBSET Nat, curr : SUBSET Nat]]
  BY <1>1, <1>2 DEF TypeOK
<1>12. b \in Nat /\ Width \in Nat \ {0} /\ Blocks \in Nat \ {0} /\ b < Blocks /\ k \in Nat \ {0}
       /\ k <= Width /\ 1 \in 1 .. Width /\ Width \in 1 .. Width
  BY Sizes DEF BlockSet
<1>13. cfg.span \in 1 .. Blocks /\ (cfg.span > 1 => cfg.grain = "layer" /\ cfg.ckpt = Blocks)
  BY <1>2, Configured
<1>14. /\ s \in 0 .. b /\ b < s + cfg.span /\ s + cfg.span <= Blocks
       /\ \A c \in s .. s + cfg.span - 1 : SpanStart(c) = s
       /\ NextRecomputed(b) = IF b + 1 = s + cfg.span THEN s - cfg.span ELSE b + 1
  BY <1>2, <1>4, Spans
<1>15. \A j \in 1 .. k : Module(b, j) \in Holding(p)'
  <2>1. \A j \in 1 .. k : j \in 1 .. k - 1 \/ j = k
    BY <1>12
  <2> QED BY <1>5, <1>7, <2>1
<1>16. CASE k < Width
  <2>1. k + 1 \in 1 .. Width /\ Goto(p, "recompute", "pre", b, k + 1)
    BY <1>3, <1>12, <1>16 DEF RunModule
  <2>2. Moved(p, "recompute", "pre", b, k + 1)
    BY <1>2, <2>1, Moves, PhaseTable
  <2>3. Arrivals(p)'
    BY <1>8, <1>10, <2>2, ArrivesOn DEF Moved
  <2>4. Passed(k, "run") => Passed(k + 1, "pre")
    BY <1>12 DEF Passed
  <2>5. Module(b, k + 1) \in ModuleSet /\ Module(b, k) \in ModuleSet
          /\ BlockOf(Module(b, k + 1)) = b
        /\ (cfg.grain = "module" => Module(b, k) <= Module(b, k + 1))
    <3>1. Module(b, k + 1) \in ModuleSet /\ Module(b, k) \in ModuleSet
            /\ BlockOf(Module(b, k + 1)) = b
      BY <1>2, <2>1, Modules
    <3>2. cfg.grain = "module" => Module(b, k) = b * Width + k
            /\ Module(b, k + 1) = b * Width + (k + 1)
      BY <1>2, <2>1, Modules
    <3>3. b * Width \in Nat
      BY <1>12
    <3> QED BY <1>12, <3>1, <3>2, <3>3
  <2>6. ASSUME NEW x \in Holding(p)'
        PROVE  \/ ~Recomputed(BlockOf(x))
               \/ BlockOf(x) \in s .. b - 1
               \/ BlockOf(x) = b /\ (cfg.grain = "module" => x <= Module(b, k + 1))
               \/ cfg.grain = "layer" /\ Passed(k + 1, "pre") /\ BlockOf(x) = NextRecomputed(b)
    <3>1. CASE x \in Holding(p)
      <4>1. x \in ModuleSet
        BY <1>2, <3>1, Here
      <4>2. cfg.grain = "module" /\ x <= Module(b, k) => x <= Module(b, k + 1)
        BY <2>5, <4>1 DEF ModuleSet
      <4> QED BY <1>5, <2>4, <3>1, <4>2
    <3>2. CASE x = Module(b, k + 1)
      <4>1. x <= Module(b, k + 1)
        BY <2>5, <3>2 DEF ModuleSet
      <4> QED BY <2>5, <3>2, <4>1
    <3> QED BY <1>7, <1>16, <3>1, <3>2
  <2>7. \A j \in 1 .. (k + 1) - 1 : Module(b, j) \in Holding(p)'
    BY <1>12, <1>15
  <2>8. \A x \in ModuleSet : BlockOf(x) \in SpanStart(b) .. b - 1 => x \in Holding(p)'
    BY <1>4, <1>5, <1>7
  <2>9. Holdings(p)'
    BY <1>1, <1>4, <1>5, <1>9, <2>2, <2>6, <2>7, <2>8, RecomputeNext
  <2> QED BY <1>1, <1>7, <1>8, <1>11, <2>2, <2>3, <2>9, Advance DEF Submitted
<1>17. \A x \in ModuleSet : BlockOf(x) = b /\ k = Width => x \in Holding(p)'
  BY <1>2, <1>15, Modules
<1>18. CASE k = Width /\ b + 1 < s + cfg.span
  <2>1. b + 1 \in BlockSet /\ cfg.span > 1 /\ b + 1 < cfg.ckpt
    BY <1>12, <1>13, <1>14, <1>18 DEF BlockSet
  <2>2. Goto(p, "recompute", "pre", b + 1, 1)
    BY <1>1, <1>3, <1>4, <1>12, <1>18 DEF RunModule, At
  <2>3. Moved(p, "recompute", "pre", b + 1, 1)
    BY <1>2, <1>12, <2>1, <2>2, Moves, PhaseTable
  <2>4. Arrivals(p)'
    BY <1>8, <1>10, <2>3, ArrivesOn DEF Moved
  <2>5. SpanStart(b + 1) = s
    <3>1. b + 1 \in s .. s + cfg.span - 1
      BY <1>12, <1>13, <1>14, <1>18
    <3> QED BY <1>14, <3>1
  <2>6. cfg.grain = "layer" /\ cfg.grain # "module" /\ NextRecomputed(b) = b + 1
    <3>1. b + 1 # s + cfg.span
      BY <1>12, <1>13, <1>14, <1>18
    <3> QED BY <1>13, <1>14, <2>1, <3>1
  <2>7. \A c \in s .. b - 1 : c \in s .. (b + 1) - 1
    BY <1>12, <1>14
  <2>8. b \in s .. (b + 1) - 1
    BY <1>12, <1>14
  <2>9. \A x \in Holding(p)' :
          \/ ~Recomputed(BlockOf(x))
          \/ BlockOf(x) \in SpanStart(b + 1) .. (b + 1) - 1
          \/ BlockOf(x) = b + 1 /\ (cfg.grain = "module" => x <= Module(b + 1, 1))
          \/ cfg.grain = "layer" /\ Passed(1, "pre") /\ BlockOf(x) = NextRecomputed(b + 1)
    BY <1>5, <1>7, <2>5, <2>6, <2>7, <2>8
  <2>10. \A x \in ModuleSet : BlockOf(x) \in SpanStart(b + 1) .. (b + 1) - 1 => x \in Holding(p)'
    <3>1. \A c \in s .. (b + 1) - 1 : c \in s .. b - 1 \/ c = b
      BY <1>12, <1>14
    <3> QED BY <1>5, <1>7, <1>17, <1>18, <2>5, <3>1
  <2>11. \A j \in 1 .. 1 - 1 : Module(b + 1, j) \in Holding(p)'
    OBVIOUS
  <2>12. Holdings(p)'
    BY <1>1, <1>9, <2>1, <2>3, <2>9, <2>10, <2>11, RecomputeNext
  <2> QED BY <1>1, <1>7, <1>8, <1>11, <2>3, <2>4, <2>12, Advance DEF Submitted
<1>19. CASE k = Width /\ ~(b + 1 < s + cfg.span)
  <2>1. Goto(p, "backward", "pre", b, Width)
    BY <1>1, <1>3, <1>4, <1>12, <1>19 DEF RunModule, At
  <2>2. Moved(p, "backward", "pre", b, Width)
    BY <1>2, <1>12, <2>1, Moves, PhaseTable
  <2>3. Arrivals(p)'
    BY <1>8, <1>10, <2>2, ArrivesOn DEF Moved
  <2>4. NextRecomputed(b) = s - cfg.span
    <3>1. b + 1 = s + cfg.span
      BY <1>12, <1>13, <1>14, <1>19
    <3> QED BY <1>14, <3>1
  <2>5. cfg.grain = "module" => cfg.span = 1 /\ s = b
    <3>1. cfg.grain = "module" => ~(cfg.span > 1)
      BY <1>13
    <3> QED BY <1>12, <1>13, <1>14, <3>1
  <2>6. ASSUME NEW x \in Holding(p)'
        PROVE  \/ ~Recomputed(BlockOf(x))
               \/ BlockOf(x) \in SpanStart(b) .. b - 1
               \/ \E j \in 1 .. Width : x = Module(b, j)
               \/ BlockOf(x) = SpanStart(b) - cfg.span
                  /\ (cfg.grain = "module" => x = (b - 1) * Width + 1)
    <3>1. CASE x \in Holding(p)
      <4>1. x \in ModuleSet
        BY <1>2, <3>1, Here
      <4>2. BlockOf(x) = b => \E j \in 1 .. Width : x = Module(b, j)
        BY <1>2, <4>1, Modules
      <4>3. cfg.grain = "layer" => cfg.grain # "module"
        OBVIOUS
      <4> QED BY <1>4, <1>5, <2>4, <3>1, <4>2, <4>3
    <3>2. CASE cfg.grain = "module" /\ b >= 1 /\ x = (b - 1) * Width + 1
      <4>1. b - 1 \in Nat
        BY <1>12, <3>2
      <4>2. BlockOf(x) = b - 1
        BY <1>12, <3>2, <4>1, Numbered
      <4>3. SpanStart(b) - cfg.span = b - 1
        BY <1>4, <2>5, <3>2
      <4> QED BY <3>2, <4>2, <4>3
    <3>3. ~(k < Width)
      BY <1>12, <1>19
    <3> QED BY <1>7, <3>1, <3>2, <3>3
  <2>7. \A x \in ModuleSet : BlockOf(x) \in SpanStart(b) .. b - 1 => x \in Holding(p)'
    BY <1>4, <1>5, <1>7
  <2>8. \A j \in 1 .. Width : Module(b, j) \in Holding(p)'
    BY <1>15, <1>19
  <2>9. Holdings(p)'
    BY <1>1, <1>5, <1>9, <2>2, <2>6, <2>7, <2>8, BackwardRecomputedNext
  <2> QED BY <1>1, <1>7, <1>8, <1>11, <2>2, <2>3, <2>9, Advance DEF Submitted
<1> QED BY <1>12, <1>16, <1>18, <1>19

-----------------------------------------------------------------------------
(* Backward. *)

\* What IInv says of a process in backward.
LEMMA GoingBack ==
  ASSUME IInv, NEW p \in Processes, pc[p].phase = "backward"
  PROVE  LET b == pc[p].block
         IN /\ \A c \in BlockSet : Arrived(p, c)
            /\ pc[p].at = "run" => Running(p) \in Holding(p)
            /\ pc[p].at = "end" => pc[p].k = 1
            /\ Recomputed(b) =>
                 /\ \A x \in ModuleSet : BlockOf(x) \in SpanStart(b) .. b - 1 => x \in Holding(p)
                 /\ \A j \in 1 .. Ahead(p) : Module(b, j) \in Holding(p)
                 /\ \A x \in Holding(p) :
                      \/ ~Recomputed(BlockOf(x))
                      \/ BlockOf(x) \in SpanStart(b) .. b - 1
                      \/ \E j \in 1 .. Ahead(p) : x = Module(b, j)
                      \/ BlockOf(x) = SpanStart(b) - cfg.span
                         /\ (cfg.grain = "module" => x = (b - 1) * Width + 1)
            /\ ~Recomputed(b) =>
                 \A x \in Holding(p) :
                   /\ ~Recomputed(BlockOf(x))
                   /\ \/ pc[p].at = "run" /\ x = Running(p)
                      \/ BlockOf(x + 1) > b
                      \/ \E j \in Ahead(p) + 1 .. Width : x + 1 = Module(b, j)
<1>1. Arrivals(p) /\ Holdings(p)
  BY DEF IInv
<1>2. \A c \in BlockSet : Arrived(p, c)
  BY <1>1, AllBehind
<1> QED BY <1>1, <1>2 DEF Holdings, BackwardRecomputed, BackwardKept, Span

\* Backward of a module that was kept gathers it; a recomputed one is held.
LEMMA StartsBackward ==
  ASSUME IInv, NEW p \in Processes, PreBackward(p)
  PROVE  IInv'
<1> DEFINE ms == IF Hooked THEN IfMissing(p, Running(p)) ELSE <<>>
<1>1. /\ ~broken[p] /\ pc[p].phase = "backward" /\ pc[p].at = "pre" /\ Gather(p, ms)
      /\ Continue(p, "run") /\ cfg' = cfg /\ early' = early /\ landed' = landed
      /\ update' = update /\ UNCHANGED broadcasts
  BY DEF PreBackward, At
<1>2. TypeOK /\ Queues(p) /\ Arrivals(p) /\ Holdings(p) /\ cfg \in Configurations
  BY DEF IInv, TypeOK
<1>3. PICK b \in BlockSet, k \in 1 .. Width : b = pc[p].block /\ k = pc[p].k
  BY <1>2, Here
<1>4. PICK m \in ModuleSet : m = Running(p) /\ m = Module(b, k) /\ BlockOf(m) = b
  BY <1>2, <1>3, Here
<1>5. Moved(p, "backward", "run", b, k)
  BY <1>1, <1>2, <1>3, Continues, PhaseTable
<1>6. Submitted(p)
  BY <1>1, <1>2, SubmitsNone
<1>7. /\ \A c \in BlockSet : Arrived(p, c)
      /\ Recomputed(b) =>
           /\ \A x \in ModuleSet : BlockOf(x) \in SpanStart(b) .. b - 1 => x \in Holding(p)
           /\ \A j \in 1 .. k : Module(b, j) \in Holding(p)
           /\ \A x \in Holding(p) :
                \/ ~Recomputed(BlockOf(x))
                \/ BlockOf(x) \in SpanStart(b) .. b - 1
                \/ \E j \in 1 .. k : x = Module(b, j)
                \/ BlockOf(x) = SpanStart(b) - cfg.span
                   /\ (cfg.grain = "module" => x = (b - 1) * Width + 1)
      /\ ~Recomputed(b) =>
           \A x \in Holding(p) :
             /\ ~Recomputed(BlockOf(x))
             /\ BlockOf(x + 1) > b \/ \E j \in k + 1 .. Width : x + 1 = Module(b, j)
  BY <1>1, <1>3, GoingBack DEF Ahead
<1>8. Recomputed(b) => m \in Holding(p)
  <2>1. k \in 1 .. k
    BY Sizes
  <2> QED BY <1>4, <1>7, <2>1
<1>9. ~Recomputed(b) => Hooked
  <2>1. cfg.ckpt \in 0 .. Blocks
    BY <1>2, Configured
  <2> QED BY <2>1, Sizes DEF Recomputed, Hooked, BlockSet
<1>10. /\ Obtained(p, ms, {})
       /\ \A i \in DOMAIN ms : ms[i] = m
       /\ \A x : x \in Holding(p)' <=> x \in Holding(p) \/ x = m
  <2>1. CASE Hooked
    <3>1. ms = IfMissing(p, m)
      BY <1>4, <2>1
    <3> HIDE DEF ms
    <3> QED BY <1>1, <1>2, <3>1, GathersMissing
  <2>2. CASE ~Hooked
    <3>1. ms = <<>>
      BY <2>2
    <3> HIDE DEF ms
    <3>2. Obtained(p, ms, {}) /\ \A i \in DOMAIN ms : FALSE
      BY <1>1, <1>2, <3>1, GathersNone
    <3>3. \A x : x \in Holding(p)' <=> x \in Holding(p)
      BY <3>2 DEF Obtained
    <3> QED BY <1>8, <1>9, <2>2, <3>2, <3>3
  <2> QED BY <2>1, <2>2
<1> HIDE DEF ms
<1>11. Arrivals(p)'
  BY <1>5, <1>6, <1>7, ArrivesOn DEF Moved
<1>12. Well(p)'
  <2>1. \A i \in DOMAIN ms : Arrived(p, BlockOf(ms[i]))
    BY <1>4, <1>7, <1>10
  <2> QED BY <1>1, <1>2, <1>10, <2>1, StaysWell DEF Holdings
<1>13. Holdings(p)'
  <2>1. CASE Recomputed(b)
    <3>1. \A x : x \in Holding(p)' <=> x \in Holding(p)
      BY <1>8, <1>10, <2>1
    <3>2. b < cfg.ckpt
      BY <2>1 DEF Recomputed
    <3>3. k = IF "run" = "end" THEN 0 ELSE k
      OBVIOUS
    <3> QED BY <1>1, <1>4, <1>5, <1>7, <1>8, <1>12, <2>1, <3>1, <3>2, <3>3, BackwardRecomputedNext
  <2>2. CASE ~Recomputed(b)
    <3>1. ~(b < cfg.ckpt)
      BY <2>2 DEF Recomputed
    <3>2. k = IF "run" = "end" THEN 0 ELSE k
      OBVIOUS
    <3>3. \A x \in Holding(p)' :
            /\ ~Recomputed(BlockOf(x))
            /\ \/ "run" = "run" /\ x = Module(b, k)
               \/ BlockOf(x + 1) > b
               \/ \E j \in k + 1 .. Width : x + 1 = Module(b, j)
      BY <1>4, <1>7, <1>10, <2>2
    <3> QED BY <1>1, <1>4, <1>5, <1>10, <1>12, <3>1, <3>2, <3>3, BackwardKeptNext
  <2> QED BY <2>1, <2>2
<1>14. update' \in [Processes -> Nat]
       /\ early' \in [Processes -> [prev : SUBSET Nat, curr : SUBSET Nat]]
  BY <1>1, <1>2 DEF TypeOK
<1> QED BY <1>1, <1>5, <1>6, <1>10, <1>11, <1>13, <1>14, Advance DEF Submitted

\* The module before, unless it is to be recomputed.
LEMMA Precedes ==
  ASSUME NEW m \in ModuleSet
  PROVE  \E n \in Nat :
           /\ DOMAIN Preceding(m) = 1 .. n /\ Len(Preceding(m)) = n
           /\ \A i \in 1 .. n : /\ Preceding(m)[i] = m - 1 /\ m - 1 \in ModuleSet
                                /\ ~Recomputed(BlockOf(m - 1)) /\ BlockOf(m - 1) <= BlockOf(m)
<1>1. CASE Hooked /\ m > 1 /\ ~Recomputed(BlockOf(m - 1))
  <2>1. PICK ms : ms = <<m - 1>>
    OBVIOUS
  <2>2. Preceding(m) = ms /\ DOMAIN ms = 1 .. 1 /\ Len(ms) = 1 /\ ms[1] = m - 1
    BY <1>1, <2>1, Gatherable DEF Preceding
  <2>3. \A i \in 1 .. 1 : /\ Preceding(m)[i] = m - 1 /\ m - 1 \in ModuleSet
                          /\ ~Recomputed(BlockOf(m - 1)) /\ BlockOf(m - 1) <= BlockOf(m)
    <3>1. \A i \in 1 .. 1 : i = 1
      OBVIOUS
    <3> QED BY <1>1, <2>2, <3>1, Neighbours
  <2> QED BY <2>2, <2>3
<1>2. CASE ~(Hooked /\ m > 1 /\ ~Recomputed(BlockOf(m - 1)))
  <2>1. PICK ms : ms = <<>>
    OBVIOUS
  <2>2. Preceding(m) = ms /\ DOMAIN ms = 1 .. 0 /\ Len(ms) = 0
    BY <1>2, <2>1, Gatherable DEF Preceding
  <2>3. \A i \in 1 .. 0 : FALSE
    OBVIOUS
  <2> QED BY <2>2, <2>3
<1> QED BY <1>1, <1>2

\* Backward of a module releases it and gathers the one before, which is not held.
LEMMA RunsBackward ==
  ASSUME IInv, NEW p \in Processes, RunBackward(p)
  PROVE  IInv'
<1>1. /\ ~broken[p] /\ pc[p].phase = "backward" /\ pc[p].at = "run"
      /\ cfg' = cfg /\ landed' = landed /\ update' = update /\ UNCHANGED broadcasts
  BY DEF RunBackward, At
<1>2. TypeOK /\ Queues(p) /\ Arrivals(p) /\ Holdings(p) /\ cfg \in Configurations
  BY DEF IInv, TypeOK
<1>3. PICK b \in BlockSet, k \in 1 .. Width : b = pc[p].block /\ k = pc[p].k
  BY <1>2, Here
<1>4. PICK m \in ModuleSet : m = Running(p) /\ m = Module(b, k) /\ BlockOf(m) = b
  BY <1>2, <1>3, Here
<1>5. Submitted(p)
  BY <1>1, <1>2, SubmitsNone
<1>6. /\ \A c \in BlockSet : Arrived(p, c)
      /\ m \in Holding(p)
      /\ Recomputed(b) =>
           /\ \A x \in ModuleSet : BlockOf(x) \in SpanStart(b) .. b - 1 => x \in Holding(p)
           /\ \A j \in 1 .. k : Module(b, j) \in Holding(p)
           /\ \A x \in Holding(p) :
                \/ ~Recomputed(BlockOf(x))
                \/ BlockOf(x) \in SpanStart(b) .. b - 1
                \/ \E j \in 1 .. k : x = Module(b, j)
                \/ BlockOf(x) = SpanStart(b) - cfg.span
                   /\ (cfg.grain = "module" => x = (b - 1) * Width + 1)
      /\ ~Recomputed(b) =>
           \A x \in Holding(p) :
             /\ ~Recomputed(BlockOf(x))
             /\ x = m \/ BlockOf(x + 1) > b \/ \E j \in k + 1 .. Width : x + 1 = Module(b, j)
  BY <1>1, <1>3, <1>4, GoingBack DEF Ahead
<1>7. PICK ms : ms = Preceding(m)
  OBVIOUS
<1>8. PICK n \in Nat :
        /\ DOMAIN ms = 1 .. n /\ Len(ms) = n
        /\ \A i \in 1 .. n : /\ ms[i] = m - 1 /\ m - 1 \in ModuleSet
                             /\ ~Recomputed(BlockOf(m - 1)) /\ BlockOf(m - 1) <= BlockOf(m)
  BY <1>7, Precedes
<1>9. b \in Nat /\ k \in Nat \ {0} /\ k <= Width /\ Width \in Nat /\ cfg.ckpt \in Nat /\ m \in Nat
  <2>1. cfg.ckpt \in 0 .. Blocks
    BY <1>2, Configured
  <2> QED BY <2>1, Sizes DEF BlockSet, ModuleSet
<1>10. Recomputed(b) => \A i \in 1 .. n : FALSE
  <2>1. ASSUME Recomputed(b), NEW i \in 1 .. n PROVE FALSE
    <3>1. BlockOf(m - 1) \in BlockSet
      BY <1>8, <2>1, Neighbours
    <3> QED BY <1>4, <1>8, <1>9, <2>1, <3>1 DEF Recomputed, BlockSet
  <2> QED BY <2>1
<1>11. \A i \in 1 .. n : ms[i] \notin Holding(p)
  <2>1. ASSUME NEW i \in 1 .. n, m - 1 \in Holding(p) PROVE FALSE
    <3>1. m - 1 # m /\ m - 1 + 1 = m /\ ~(b > b)
      BY <1>9
    <3>2. PICK j \in k + 1 .. Width : m = Module(b, j)
      BY <1>4, <1>6, <1>10, <2>1, <3>1
    <3>3. j \in 1 .. Width /\ j # k
      BY <1>9
    <3>4. Module(b, j) = Module(b, k)
      BY <1>4, <3>2
    <3> QED BY <1>2, <3>3, <3>4, Modules
  <2> QED BY <1>8, <2>1
<1>12. ~\E i \in DOMAIN Preceding(m) : Preceding(m)[i] \in Holding(p)
  BY <1>7, <1>8, <1>11
<1>13. PICK o \in Nat : o = ops[p] + Len(Preceding(m)) + 1
  BY <1>2, <1>7, <1>8 DEF TypeOK
<1>14. /\ held' = [held EXCEPT ![p] =
                      {h \in held[p] \union Gathered(p, Preceding(m)) : h.module # m}]
       /\ ops' = [ops EXCEPT ![p] = o] /\ broken' = broken
       /\ early' = [early EXCEPT ![p].curr = early[p].curr \union {o}]
       /\ IF k > 1 THEN Goto(p, "backward", "pre", b, k - 1) ELSE Continue(p, "end")
  BY <1>3, <1>4, <1>6, <1>12, <1>13 DEF RunBackward
<1>15. held' = [held EXCEPT ![p] = Kept(p, ms, {m})]
  <2>1. {h \in held[p] \union Gathered(p, ms) : h.module # m} = Kept(p, ms, {m})
    BY DEF Kept
  <2> QED BY <1>7, <1>14, <2>1
<1>16. /\ Kept(p, ms, {m}) \in SUBSET Weights
       /\ \A x : (\E h \in Kept(p, ms, {m}) : h.module = x) <=>
            x \notin {m} /\ (x \in Holding(p) \/ \E i \in DOMAIN ms : x = ms[i])
       /\ (\A h \in held[p] : h.fresh) /\ (\A i \in DOMAIN ms : Arrived(p, BlockOf(ms[i]))) =>
            \A h \in Kept(p, ms, {m}) : h.fresh
  <2>1. \A i \in 1 .. n : ms[i] \in ModuleSet
    BY <1>8
  <2>2. ASSUME NEW R
        PROVE  /\ Kept(p, ms, R) \in SUBSET Weights
               /\ \A x : (\E h \in Kept(p, ms, R) : h.module = x) <=>
                    x \notin R /\ (x \in Holding(p) \/ \E i \in DOMAIN ms : x = ms[i])
               /\ (\A h \in held[p] : h.fresh) /\ (\A i \in DOMAIN ms : Arrived(p, BlockOf(ms[i])))
                    => \A h \in Kept(p, ms, R) : h.fresh
    BY <1>2, <1>8, <2>1, GatheredSet
  <2>3. PICK R : R = {m}
    OBVIOUS
  <2> QED BY <2>2, <2>3
<1>17. Obtained(p, ms, {m})
  <2>1. /\ held'[p] = Kept(p, ms, {m}) /\ held' \in [Processes -> SUBSET Weights]
        /\ \A q \in Processes \ {p} : held'[q] = held[q]
    BY <1>2, <1>15, <1>16 DEF TypeOK
  <2>2. ops' \in [Processes -> Nat]
    BY <1>2, <1>14 DEF TypeOK
  <2>3. \A x : x \in Holding(p)' <=> \E h \in Kept(p, ms, {m}) : h.module = x
    BY <2>1 DEF Holding
  <2> QED BY <1>14, <1>16, <2>1, <2>2, <2>3 DEF Obtained
<1>18. update' \in [Processes -> Nat]
       /\ early' \in [Processes -> [prev : SUBSET Nat, curr : SUBSET Nat]]
  <2>1. update' \in [Processes -> Nat]
    BY <1>1, <1>2 DEF TypeOK
  <2>2. early[p].curr \union {o} \in SUBSET Nat
    BY <1>2 DEF TypeOK
  <2> QED BY <1>2, <1>14, <2>1, <2>2 DEF TypeOK
<1>19. PICK at \in {"pre", "end"}, l \in 1 .. Width :
         /\ Moved(p, "backward", at, b, l) /\ (at = "end" => l = 1)
         /\ k - 1 = IF at = "end" THEN 0 ELSE l
  <2>1. CASE k > 1
    <3>1. k - 1 \in 1 .. Width
      BY <1>9, <2>1
    <3>2. Moved(p, "backward", "pre", b, k - 1)
      BY <1>2, <1>14, <2>1, <3>1, Moves, PhaseTable
    <3> QED BY <3>1, <3>2
  <2>2. CASE ~(k > 1)
    <3>1. k = 1
      BY <1>9, <2>2
    <3>2. Moved(p, "backward", "end", b, k)
      BY <1>1, <1>2, <1>3, <1>14, <2>2, Continues, PhaseTable
    <3> QED BY <3>1, <3>2
  <2> QED BY <2>1, <2>2
<1>20. Arrivals(p)'
  BY <1>5, <1>6, <1>19, ArrivesOn DEF Moved
<1>21. Well(p)'
  <2>1. \A i \in DOMAIN ms : Arrived(p, BlockOf(ms[i]))
    BY <1>6, <1>8, Neighbours
  <2> QED BY <1>1, <1>2, <1>17, <2>1, StaysWell DEF Holdings
<1>22. \A x \in Holding(p)' : x # m /\ (x \in Holding(p) \/ (x = m - 1 /\ \E i \in 1 .. n : TRUE))
  BY <1>8, <1>17 DEF Obtained
<1>23. \A x \in Holding(p) : x # m => x \in Holding(p)'
  BY <1>17 DEF Obtained
<1>24. CASE Recomputed(b)
  <2>1. \A x \in ModuleSet : BlockOf(x) \in SpanStart(b) .. b - 1 => x \in Holding(p)'
    <3>1. b \notin SpanStart(b) .. b - 1
      BY <1>9
    <3> QED BY <1>4, <1>6, <1>23, <1>24, <3>1
  <2>2. \A j \in 1 .. k - 1 : Module(b, j) \in Holding(p)'
    <3>1. \A j \in 1 .. k - 1 : j \in 1 .. k /\ j \in 1 .. Width /\ j # k
      BY <1>9
    <3>2. \A j \in 1 .. k - 1 : Module(b, j) # m
      BY <1>2, <1>4, <3>1, Modules
    <3> QED BY <1>6, <1>23, <1>24, <3>1, <3>2
  <2>3. ASSUME NEW x \in Holding(p)'
        PROVE  \/ ~Recomputed(BlockOf(x))
               \/ BlockOf(x) \in SpanStart(b) .. b - 1
               \/ \E j \in 1 .. k - 1 : x = Module(b, j)
               \/ BlockOf(x) = SpanStart(b) - cfg.span
                  /\ (cfg.grain = "module" => x = (b - 1) * Width + 1)
    <3>1. x \in Holding(p) /\ x # m
      BY <1>10, <1>22, <1>24
    <3>2. ASSUME NEW j \in 1 .. k, x = Module(b, j) PROVE j \in 1 .. k - 1
      <4>1. j # k
        BY <1>4, <3>1, <3>2
      <4> QED BY <1>9, <4>1
    <3> QED BY <1>6, <1>24, <3>1, <3>2
  <2>4. b < cfg.ckpt
    BY <1>24 DEF Recomputed
  <2>5. Holdings(p)'
    BY <1>1, <1>19, <1>21, <2>1, <2>2, <2>3, <2>4, BackwardRecomputedNext
  <2> QED BY <1>1, <1>5, <1>17, <1>18, <1>19, <1>20, <2>5, Advance DEF Submitted
<1>25. CASE ~Recomputed(b)
  <2>1. ASSUME NEW x \in Holding(p)'
        PROVE  /\ ~Recomputed(BlockOf(x))
               /\ \/ at = "run" /\ x = Module(b, l)
                  \/ BlockOf(x + 1) > b
                  \/ \E j \in (k - 1) + 1 .. Width : x + 1 = Module(b, j)
    <3>1. k \in (k - 1) + 1 .. Width /\ \A j \in k + 1 .. Width : j \in (k - 1) + 1 .. Width
      BY <1>9
    <3>2. CASE x \in Holding(p)
      BY <1>6, <1>22, <1>25, <3>1, <3>2
    <3>3. CASE x = m - 1 /\ \E i \in 1 .. n : TRUE
      <4>1. x + 1 = m
        BY <1>9, <3>3
      <4> QED BY <1>4, <1>8, <3>1, <3>3, <4>1
    <3> QED BY <1>22, <3>2, <3>3
  <2>2. ~(b < cfg.ckpt)
    BY <1>25 DEF Recomputed
  <2>3. Holdings(p)'
    BY <1>1, <1>19, <1>21, <2>1, <2>2, BackwardKeptNext
  <2> QED BY <1>1, <1>5, <1>17, <1>18, <1>19, <1>20, <2>3, Advance DEF Submitted
<1> QED BY <1>24, <1>25

\* The end of a block's backward: nothing of the block itself is held, and
\* of recomputed blocks only what the next step of backward uses.
LEMMA EndsBlock ==
  ASSUME IInv, NEW p \in Processes, EndBlock(p)
  PROVE  IInv'
<1>1. /\ ~broken[p] /\ pc[p].phase = "backward" /\ pc[p].at = "end"
      /\ early' = [early EXCEPT ![p] = [prev |-> early[p].curr, curr |-> {}]]
      /\ cfg' = cfg /\ UNCHANGED weights /\ landed' = landed /\ update' = update
      /\ UNCHANGED broadcasts
  BY DEF EndBlock, At
<1>2. TypeOK /\ Queues(p) /\ Arrivals(p) /\ Holdings(p) /\ cfg \in Configurations
  BY DEF IInv, TypeOK
<1>3. PICK b \in BlockSet : b = pc[p].block
  BY <1>2, Here
<1>4. PICK s : s = SpanStart(b)
  OBVIOUS
<1>5. Submitted(p)
  BY <1>1, <1>2, SubmitsNone
<1>6. Obtained(p, <<>>, {}) /\ Holding(p)' = Holding(p)
  BY <1>1, <1>2, ObtainsNothing
<1>7. Well(p)'
  BY <1>1, <1>2, <1>6, StaysWell, Gatherable DEF Holdings
<1>8. /\ \A c \in BlockSet : Arrived(p, c)
      /\ Recomputed(b) =>
           /\ \A x \in ModuleSet : BlockOf(x) \in s .. b - 1 => x \in Holding(p)
           /\ \A x \in Holding(p) :
                \/ ~Recomputed(BlockOf(x))
                \/ BlockOf(x) \in s .. b - 1
                \/ \E j \in 1 .. 0 : x = Module(b, j)
                \/ BlockOf(x) = s - cfg.span /\ (cfg.grain = "module" => x = (b - 1) * Width + 1)
      /\ ~Recomputed(b) =>
           \A x \in Holding(p) :
             ~Recomputed(BlockOf(x))
               /\ (BlockOf(x + 1) > b \/ \E j \in 0 + 1 .. Width : x + 1 = Module(b, j))
  BY <1>1, <1>3, <1>4, GoingBack DEF Ahead
<1>9. Recomputed(b) => \A x \in Holding(p) :
        \/ ~Recomputed(BlockOf(x))
        \/ BlockOf(x) \in s .. b - 1
        \/ BlockOf(x) = s - cfg.span /\ (cfg.grain = "module" => x = (b - 1) * Width + 1)
  <2>1. \A j \in 1 .. 0 : FALSE
    OBVIOUS
  <2> QED BY <1>8, <2>1
<1>10. \A x \in Holding(p) : x \in ModuleSet /\ BlockOf(x) \in BlockSet
  BY <1>2, Here
<1>11. update' \in [Processes -> Nat]
       /\ early' \in [Processes -> [prev : SUBSET Nat, curr : SUBSET Nat]]
  BY <1>1, <1>2 DEF TypeOK
<1>12. b \in Nat /\ Width \in Nat \ {0} /\ Blocks \in Nat \ {0} /\ b < Blocks /\ 1 \in 1 .. Width
       /\ Width \in 1 .. Width /\ 0 \in BlockSet
  BY Sizes DEF BlockSet
<1>13. cfg.span \in 1 .. Blocks /\ (cfg.span > 1 => cfg.grain = "layer") /\ cfg.ckpt \in 0 .. Blocks
  BY <1>2, Configured
<1>14. /\ s \in 0 .. b /\ b < s + cfg.span
       /\ \A c \in s .. s + cfg.span - 1 : SpanStart(c) = s
       /\ s > 0 => s - cfg.span \in Nat /\ SpanStart(s - 1) = s - cfg.span
  BY <1>2, <1>4, Spans
<1>15. CASE b = 0
  <2>1. Goto(p, "after", "backward", 0, 1)
    BY <1>3, <1>15 DEF EndBlock
  <2>2. Moved(p, "after", "backward", 0, 1)
    BY <1>2, <1>12, <2>1, Moves, PhaseTable
  <2>3. Arrivals(p)'
    BY <1>5, <1>8, <2>2, ArrivesOn DEF Moved
  <2>4. \A x \in Holding(p)' : ~Recomputed(BlockOf(x))
    <3>1. ASSUME NEW x \in Holding(p), Recomputed(b) PROVE ~Recomputed(BlockOf(x))
      <4>1. BlockOf(x) \notin s .. b - 1
        BY <1>12, <1>14, <1>15
      <4>2. BlockOf(x) # s - cfg.span
        BY <1>10, <1>13, <1>14, <1>15, <3>1 DEF BlockSet
      <4> QED BY <1>9, <3>1, <4>1, <4>2
    <3> QED BY <1>6, <1>8, <3>1
  <2>5. Holdings(p)'
    BY <1>1, <1>7, <2>2, <2>4, RestNext
  <2> QED BY <1>1, <1>5, <1>6, <1>11, <2>2, <2>3, <2>5, Advance DEF Submitted
<1>16. CASE b # 0 /\ Recomputed(b) /\ b # s
  <2>1. b - 1 \in BlockSet /\ b - 1 < cfg.ckpt
    BY <1>12, <1>13, <1>16 DEF Recomputed, BlockSet
  <2>2. Goto(p, "backward", "pre", b - 1, Width)
    BY <1>3, <1>4, <1>16 DEF EndBlock
  <2>3. Moved(p, "backward", "pre", b - 1, Width)
    BY <1>2, <1>12, <2>1, <2>2, Moves, PhaseTable
  <2>4. Arrivals(p)'
    BY <1>5, <1>8, <2>3, ArrivesOn DEF Moved
  <2>5. SpanStart(b - 1) = s
    <3>1. b - 1 \in s .. s + cfg.span - 1
      BY <1>12, <1>13, <1>14, <1>16
    <3> QED BY <1>14, <3>1
  <2>6. cfg.grain # "module"
    <3>1. cfg.span > 1
      BY <1>12, <1>13, <1>14, <1>16
    <3> QED BY <1>13, <3>1
  <2>7. /\ \A c \in s .. (b - 1) - 1 : c \in s .. b - 1
        /\ \A c \in s .. b - 1 : c \in s .. (b - 1) - 1 \/ c = b - 1
        /\ b - 1 \in s .. b - 1
    BY <1>12, <1>14, <1>16
  <2>8. \A x \in ModuleSet : BlockOf(x) \in SpanStart(b - 1) .. (b - 1) - 1 => x \in Holding(p)'
    BY <1>6, <1>8, <1>16, <2>5, <2>7
  <2>9. \A j \in 1 .. Width : Module(b - 1, j) \in Holding(p)'
    <3>1. \A j \in 1 .. Width : Module(b - 1, j) \in ModuleSet /\ BlockOf(Module(b - 1, j)) = b - 1
      BY <1>2, <2>1, Modules
    <3> QED BY <1>6, <1>8, <1>16, <2>7, <3>1
  <2>10. ASSUME NEW x \in Holding(p)'
         PROVE  \/ ~Recomputed(BlockOf(x))
                \/ BlockOf(x) \in SpanStart(b - 1) .. (b - 1) - 1
                \/ \E j \in 1 .. Width : x = Module(b - 1, j)
                \/ BlockOf(x) = SpanStart(b - 1) - cfg.span
                   /\ (cfg.grain = "module" => x = ((b - 1) - 1) * Width + 1)
    <3>1. BlockOf(x) = b - 1 => \E j \in 1 .. Width : x = Module(b - 1, j)
      BY <1>2, <1>6, <1>10, <2>1, <2>10, Modules
    <3> QED BY <1>6, <1>9, <1>16, <2>5, <2>6, <2>7, <2>10, <3>1
  <2>11. Width = IF "pre" = "end" THEN 0 ELSE Width
    OBVIOUS
  <2>12. Holdings(p)'
    BY <1>1, <1>7, <2>1, <2>3, <2>8, <2>9, <2>10, <2>11, BackwardRecomputedNext
  <2> QED BY <1>1, <1>5, <1>6, <1>11, <2>3, <2>4, <2>12, Advance DEF Submitted
<1>17. CASE b # 0 /\ ~(Recomputed(b) /\ b # s)
  <2>1. b - 1 \in BlockSet /\ b - 1 \in Nat
    BY <1>12, <1>17 DEF BlockSet
  <2>2. StartBackward(p, b - 1)
    BY <1>3, <1>4, <1>17 DEF EndBlock
  <2>3. ASSUME NEW x \in Holding(p), Recomputed(b)
        PROVE  /\ Recomputed(b - 1)
               /\ \/ ~Recomputed(BlockOf(x))
                  \/ BlockOf(x) = SpanStart(b - 1)
                     /\ (cfg.grain = "module" => x <= Module(SpanStart(b - 1), 1))
    <3>1. Recomputed(b - 1)
      BY <1>12, <1>13, <2>3 DEF Recomputed
    <3>2. SpanStart(b - 1) = s - cfg.span /\ BlockOf(x) \notin s .. b - 1 /\ s = b
      BY <1>12, <1>14, <1>17, <2>3
    <3>3. cfg.grain = "module" => Module(SpanStart(b - 1), 1) = (b - 1) * Width + 1
      <4>1. cfg.grain = "module" => SpanStart(b - 1) = b - 1
        BY <1>12, <1>13, <3>2
      <4>2. cfg.grain = "module" => Module(b - 1, 1) = (b - 1) * Width + 1
        BY <1>2, <1>12, <2>1, Modules
      <4> QED BY <4>1, <4>2
    <3>4. x <= x
      BY <1>10, <2>3 DEF ModuleSet
    <3> QED BY <1>9, <2>3, <3>1, <3>2, <3>3, <3>4
  <2>4. ASSUME NEW x \in Holding(p), ~Recomputed(b)
        PROVE  ~Recomputed(BlockOf(x)) /\ BlockOf(x + 1) > b - 1
    <3>1. CASE \E j \in 0 + 1 .. Width : x + 1 = Module(b, j)
      <4>1. PICK j \in 1 .. Width : x + 1 = Module(b, j)
        BY <3>1
      <4>2. BlockOf(x + 1) = b
        BY <1>2, <4>1, Modules
      <4> QED BY <1>8, <1>12, <2>4, <4>2
    <3>2. CASE BlockOf(x + 1) > b
      <4>1. BlockOf(x + 1) \in Int
        BY <1>10, <1>12, <2>4 DEF BlockOf, ModuleSet
      <4>2. BlockOf(x + 1) > b - 1
        BY <1>12, <3>2, <4>1
      <4> QED BY <1>8, <2>4, <4>2
    <3> QED BY <1>8, <2>4, <3>1, <3>2
  <2>5. \A x \in Holding(p)' :
          \/ ~Recomputed(BlockOf(x)) /\ (Recomputed(b - 1) \/ BlockOf(x + 1) > b - 1)
          \/ Recomputed(b - 1) /\ BlockOf(x) = SpanStart(b - 1)
             /\ (cfg.grain = "module" => x <= Module(SpanStart(b - 1), 1))
    BY <1>6, <2>3, <2>4
  <2>6. /\ Holdings(p)'
        /\ \E phase \in {"recompute", "backward"} : \E at, c, l : Moved(p, phase, at, c, l)
    BY <1>1, <1>2, <1>7, <2>1, <2>2, <2>5, BackwardStarts
  <2>7. Arrivals(p)'
    BY <1>5, <1>8, <2>6, ArrivesOn DEF Moved
  <2> QED BY <1>1, <1>5, <1>6, <1>11, <2>6, <2>7, Advance DEF Submitted
<1> QED BY <1>15, <1>16, <1>17

-----------------------------------------------------------------------------
(* Between updates. *)

\* What is left is drained; by then no broadcast is left either.
LEMMA Drains ==
  ASSUME IInv, NEW p \in Processes, AfterBackward(p)
  PROVE  IInv'
<1>1. /\ ~broken[p] /\ pc[p].phase = "after" /\ held' = [held EXCEPT ![p] = {}]
      /\ early' = [early EXCEPT ![p] = [prev |-> {}, curr |-> {}]]
      /\ Goto(p, "update", "enter", 0, 1)
      /\ cfg' = cfg /\ ops' = ops /\ UNCHANGED broadcasts /\ landed' = landed
      /\ update' = update /\ broken' = broken
  BY DEF AfterBackward, At
<1>2. TypeOK /\ Queues(p) /\ Arrivals(p) /\ Holdings(p) /\ cfg \in Configurations
  BY DEF IInv, TypeOK
<1>3. Submitted(p)
  BY <1>1, <1>2, SubmitsNone
<1>4. 0 \in BlockSet /\ 1 \in 1 .. Width /\ Batch \in Nat /\ Width \in Nat
  BY Sizes DEF BlockSet
<1>5. Moved(p, "update", "enter", 0, 1)
  BY <1>1, <1>2, <1>4, Moves, PhaseTable
<1>6. held'[p] = {} /\ Holding(p)' = {}
  BY <1>1, <1>2 DEF Holding, TypeOK
<1>7. Obtained(p, <<>>, Holding(p))
  <2>1. /\ held' \in [Processes -> SUBSET Weights] /\ ops' \in [Processes -> Nat]
        /\ \A q \in Processes \ {p} : held'[q] = held[q]
    BY <1>1, <1>2 DEF TypeOK
  <2>2. \A i \in DOMAIN <<>> : FALSE
    OBVIOUS
  <2> QED BY <1>1, <1>6, <2>1, <2>2 DEF Obtained
<1>8. Well(p)'
  BY <1>1, <1>2, <1>7, StaysWell, Gatherable DEF Holdings
<1>9. left[p] = {}
  <2>1. ASSUME NEW n \in left[p] PROVE FALSE
    <3>1. n \in Nat \ {0}
      <4>1. Len(issued[p]) \in Nat /\ update[p] * Batch \in Int
        BY <1>2, <1>4 DEF TypeOK
      <4> QED BY <1>2, <2>1, <4>1 DEF Queues
    <3>2. Owner(n) \in Ranks
      BY <3>1, Owned
    <3>3. PICK b \in BlockSet : Owner(n) \in cfg.owners[b]
      BY <1>2, <3>2, OwnersAssumption DEF BlockSet
    <3>4. Arrived(p, b)
      BY <1>1, <1>2, AllBehind
    <3> QED BY <2>1, <3>3, <3>4 DEF Arrived
  <2> QED BY <2>1
<1>10. Arrivals(p)'
  <2>1. Behind(p)' = {}
    BY <1>5 DEF Behind, Moved
  <2>2. left'[p] = {}
    BY <1>1, <1>9 DEF broadcasts
  <2> QED BY <2>1, <2>2 DEF Arrivals
<1>11. Holdings(p)'
  BY <1>1, <1>5, <1>6, <1>8, RestNext
<1>12. update' \in [Processes -> Nat]
       /\ early' \in [Processes -> [prev : SUBSET Nat, curr : SUBSET Nat]]
  BY <1>1, <1>2 DEF TypeOK
<1> QED BY <1>1, <1>3, <1>5, <1>7, <1>10, <1>11, <1>12, Advance DEF Submitted

\* The optimizer starts the next pass with nothing held and a whole batch of
\* broadcasts left.
LEMMA BeginsUpdate ==
  ASSUME IInv, NEW p \in Processes, Update(p)
  PROVE  IInv'
<1>1. /\ pc[p].phase = "update" /\ update' = [update EXCEPT ![p] = update[p] + 1]
      /\ left' = [left EXCEPT ![p] =
                    left[p] \union (update[p] * Batch + 1 .. (update[p] + 1) * Batch)]
      /\ Goto(p, "forward", "enter", 0, 1)
      /\ cfg' = cfg /\ UNCHANGED weights /\ early' = early /\ issued' = issued /\ landed' = landed
  BY DEF Update, At
<1>2. TypeOK /\ Queues(p) /\ Arrivals(p) /\ Holdings(p) /\ cfg \in Configurations
  BY DEF IInv, TypeOK
<1>3. 0 \in BlockSet /\ 1 \in 1 .. Width /\ Batch \in Nat \ {0} /\ Width \in Nat
  BY Sizes DEF BlockSet
<1>4. Moved(p, "forward", "enter", 0, 1)
  BY <1>1, <1>2, <1>3, Moves, PhaseTable
<1>5. Obtained(p, <<>>, {}) /\ Holding(p)' = {}
  BY <1>1, <1>2, ObtainsNothing DEF Holdings
<1>6. Well(p)'
  BY <1>1, <1>2, <1>5, StaysWell, Gatherable DEF Holdings
<1>7. /\ update' \in [Processes -> Nat] /\ \A q \in Processes \ {p} : update'[q] = update[q]
      /\ update'[p] = update[p] + 1 /\ update[p] \in Nat
      /\ early' \in [Processes -> [prev : SUBSET Nat, curr : SUBSET Nat]]
  BY <1>1, <1>2 DEF TypeOK
<1>8. PICK z \in Nat : z = update[p] * Batch
  BY <1>3, <1>7, Multiples
<1>9. (update[p] + 1) * Batch = z + Batch
  BY <1>3, <1>7, <1>8, Multiples
<1>10. left[p] = {}
  BY <1>1, <1>2 DEF Arrivals
<1>11. Len(issued[p]) = z
  <2>1. Len(issued[p]) \in Nat
    BY <1>2 DEF TypeOK
  <2>2. Len(issued[p]) + 1 .. z = {} /\ Len(issued[p]) <= z
    BY <1>2, <1>8, <1>10 DEF Queues
  <2>3. Len(issued[p]) < z => z \in Len(issued[p]) + 1 .. z
    BY <2>1
  <2> QED BY <2>1, <2>2, <2>3
<1>12. Queued(p)
  <2>1. left'[p] = z + 1 .. z + Batch /\ left' \in [Processes -> SUBSET Nat]
        /\ \A q \in Processes \ {p} : left'[q] = left[q]
    <3>1. left' = [left EXCEPT ![p] = z + 1 .. z + Batch]
      BY <1>1, <1>8, <1>9, <1>10
    <3>2. z + 1 .. z + Batch \in SUBSET Nat
      BY <1>3
    <3> QED BY <1>2, <3>1, <3>2 DEF TypeOK
  <2>2. update'[p] * Batch' = z + Batch
    BY <1>7, <1>9 DEF Batch
  <2>3. Queues(p)'
    <3>1. \A i \in DOMAIN issued'[p] : issued'[p][i] = i
      BY <1>1, <1>2 DEF Queues
    <3>2. left'[p] = Len(issued'[p]) + 1 .. update'[p] * Batch'
      BY <1>1, <1>11, <2>1, <2>2
    <3>3. update'[p] * Batch' - Batch' <= Len(issued'[p]) /\ Len(issued'[p]) <= update'[p] * Batch'
      <4>1. Batch' = Batch
        BY DEF Batch
      <4>2. (z + Batch) - Batch <= z /\ z <= z + Batch
        BY <1>3
      <4> QED BY <1>1, <1>11, <2>2, <4>1, <4>2
    <3> QED BY <3>1, <3>2, <3>3 DEF Queues
  <2> QED BY <1>1, <1>2, <2>1, <2>3 DEF Queued, TypeOK
<1>13. Arrivals(p)'
  <2>1. Behind(p)' = {c \in BlockSet : c < 0 \/ (c = 0 /\ "enter" \notin {"enter", "own"})}
    BY <1>4, BehindForwardNext
  <2>2. \A c \in Behind(p)' : FALSE
    BY <2>1 DEF BlockSet
  <2>3. pc'[p].phase # "update"
    BY <1>4 DEF Moved
  <2> QED BY <2>2, <2>3 DEF Arrivals
<1>14. Holdings(p)'
  BY <1>1, <1>4, <1>5, <1>6, ForwardNext
<1> QED BY <1>1, <1>4, <1>5, <1>7, <1>12, <1>13, <1>14, Advance

\* A broadcast arrives, of whatever process.
LEMMA Lands ==
  ASSUME IInv, NEW p \in Processes, Land(p)
  PROVE  IInv'
<1>1. /\ landed' = [landed EXCEPT ![p] = landed[p] + 1]
      /\ cfg' = cfg /\ pc' = pc /\ held' = held /\ ops' = ops /\ early' = early /\ left' = left
      /\ issued' = issued /\ update' = update /\ broken' = broken /\ UNCHANGED broadcasts
  BY DEF Land, weights, broadcasts
<1>2. TypeOK /\ \A q \in Processes : Queues(q) /\ Arrivals(q) /\ Holdings(q)
  BY DEF IInv
<1>3. landed' \in [Processes -> Nat] /\ landed[p] \in Nat /\ landed'[p] = landed[p] + 1
      /\ \A q \in Processes \ {p} : landed'[q] = landed[q]
  BY <1>1, <1>2 DEF TypeOK
<1>4. TypeOK'
  BY <1>1, <1>2, <1>3
     DEF TypeOK, Positions, Phases, Points, BlockSet, Weights, ModuleSet
<1>5. Queues(p)' /\ Arrivals(p)' /\ Holdings(p)'
  <2>1. Submitted(p)
    <3>1. landed'[p] >= landed[p]
      BY <1>3
    <3> QED BY <1>1, <1>2, <1>3, <3>1, SubmitsNothing
  <2>2. Behind(p)' = Behind(p)
    BY <1>1 DEF Behind, BlockSet
  <2>3. \A b \in Behind(p) : b \in BlockSet
    BY DEF Behind
  <2>4. Arrivals(p)'
    BY <1>1, <1>2, <2>1, <2>2, <2>3 DEF Arrivals, Submitted
  <2>5. Holdings(p)'
    BY <1>1, <1>2, HoldingsStay
  <2> QED BY <2>1, <2>4, <2>5 DEF Submitted, Queued
<1>6. ASSUME NEW q \in Processes, q # p PROVE Queues(q)' /\ Arrivals(q)' /\ Holdings(q)'
  <2>1. landed'[q] = landed[q]
    BY <1>3, <1>6
  <2> QED BY <1>1, <1>2, <2>1, Others
<1> QED BY <1>4, <1>5, <1>6 DEF IInv

-----------------------------------------------------------------------------
(* The theorems. *)

\* Before training nothing is held, left or issued.
LEMMA Starts ==
  ASSUME Init
  PROVE  IInv
<1>1. 0 \in BlockSet /\ 1 \in 1 .. Width /\ Batch \in Nat
  BY Sizes DEF BlockSet
<1>2. TypeOK
  <2>1. [phase |-> "update", at |-> "enter", block |-> 0, k |-> 1] \in Positions
    BY <1>1, PhaseTable DEF Positions, Points
  <2>2. pc \in [Processes -> Positions]
    BY <2>1 DEF Init
  <2>3. \A p \in Processes : pc[p].at \in Phases[pc[p].phase]
    BY PhaseTable DEF Init
  <2>4. <<>> \in Seq(Nat)
    OBVIOUS
  <2> QED BY <2>2, <2>3, <2>4 DEF Init, TypeOK
<1>3. ASSUME NEW p \in Processes PROVE Queues(p) /\ Arrivals(p) /\ Holdings(p)
  <2>1. /\ pc[p].phase = "update" /\ pc[p].at = "enter" /\ held[p] = {} /\ left[p] = {}
        /\ issued[p] = <<>> /\ update[p] = 0 /\ ~broken[p]
    BY DEF Init
  <2>2. Queues(p)
    <3>1. /\ update[p] * Batch = 0 /\ Len(issued[p]) = 0 /\ 0 + 1 .. 0 = {} /\ 0 - Batch <= 0
          /\ \A i \in DOMAIN issued[p] : FALSE
      BY <1>1, <2>1
    <3> QED BY <2>1, <3>1 DEF Queues
  <2>3. Arrivals(p)
    BY <2>1 DEF Arrivals, Behind
  <2>4. Holding(p) = {}
    BY <2>1 DEF Holding
  <2>5. Holdings(p)
    BY <2>1, <2>4 DEF Holdings, Well, Forward, Recompute, BackwardRecomputed, BackwardKept
  <2> QED BY <2>2, <2>3, <2>5
<1> QED BY <1>2, <1>3 DEF IInv

\* Every step keeps the invariant.
LEMMA Steps ==
  ASSUME IInv, [Next]_vars
  PROVE  IInv'
<1>1. CASE UNCHANGED vars
  <2>1. /\ cfg' = cfg /\ pc' = pc /\ held' = held /\ ops' = ops /\ early' = early /\ left' = left
        /\ issued' = issued /\ landed' = landed /\ update' = update /\ broken' = broken
    BY <1>1 DEF vars
  <2>2. TypeOK'
    BY <2>1 DEF IInv, TypeOK, Positions, Phases, Points, BlockSet, Weights, ModuleSet
  <2>3. ASSUME NEW q \in Processes PROVE Queues(q)' /\ Arrivals(q)' /\ Holdings(q)'
    BY <2>1, Others DEF IInv
  <2> QED BY <2>2, <2>3 DEF IInv
<1>2. CASE Next
  <2>1. PICK p \in Processes : Step(p) \/ Land(p)
    BY <1>2 DEF Next
  <2>2. CASE Land(p)
    BY <2>2, Lands
  <2>3. CASE EnterBlock(p) \/ AwaitBlock(p) \/ RequestNext(p) \/ PrefetchNext(p)
    BY <2>3, EntersBlock, AwaitsBlock, RequestsNext, PrefetchesNext
  <2>4. CASE PrefetchRecomputed(p)
    BY <2>4, PrefetchesRecomputed
  <2>5. CASE PreModule(p)
    <3>1. pc[p].phase = "forward" \/ pc[p].phase = "recompute"
      BY <2>5 DEF PreModule, At
    <3> QED BY <2>5, <3>1, StartsModuleForward, StartsModuleRecompute
  <2>6. CASE RunModule(p)
    <3>1. pc[p].phase = "forward" \/ pc[p].phase = "recompute"
      BY <2>6 DEF RunModule, At
    <3> QED BY <2>6, <3>1, RunsForward, RunsRecompute
  <2>7. CASE PreBackward(p) \/ RunBackward(p) \/ EndBlock(p)
    BY <2>7, StartsBackward, RunsBackward, EndsBlock
  <2>8. CASE AfterBackward(p) \/ Update(p)
    BY <2>8, Drains, BeginsUpdate
  <2> QED BY <2>1, <2>2, <2>3, <2>4, <2>5, <2>6, <2>7, <2>8 DEF Step
<1> QED BY <1>1, <1>2

(* However processes and arrivals interleave, the broadcasts a process has   *)
(* issued, those that have arrived where it is in a pass, and what it holds  *)
(* agree: IInv holds in every reachable state.                               *)
THEOREM OverlapInvariant == Spec => []IInv
<1>1. Init => IInv
  BY Starts
<1>2. IInv /\ [Next]_vars => IInv'
  BY Steps
<1> QED BY <1>1, <1>2, PTL DEF Spec

\* With full recomputation, a span's blocks and one more.
LEMMA HoldsFewBlocks ==
  ASSUME IInv, NEW p \in Processes, ~Hooked
  PROVE  Cardinality({BlockOf(m) : m \in Holding(p)}) <= cfg.span + 1
<1>1. TypeOK /\ cfg \in Configurations /\ Holdings(p)
  BY DEF IInv, TypeOK
<1>2. PICK b \in BlockSet, k \in 1 .. Width : b = pc[p].block /\ k = pc[p].k
  BY <1>1, Here
<1>3. PICK B : B = {BlockOf(m) : m \in Holding(p)}
  OBVIOUS
<1>4. \A m \in Holding(p) : m \in ModuleSet /\ BlockOf(m) \in BlockSet /\ Recomputed(BlockOf(m))
  <2>1. cfg.ckpt \in 0 .. Blocks
    BY <1>1, Configured
  <2>2. \A c \in BlockSet : Recomputed(c)
    BY <2>1, Sizes DEF BlockSet, Recomputed, Hooked
  <2> QED BY <1>1, <2>2, Here
<1>5. PICK s : s = SpanStart(b)
  OBVIOUS
<1>6. b \in Nat /\ Width \in Nat \ {0} /\ Blocks \in Nat \ {0} /\ b < Blocks
  BY Sizes DEF BlockSet
<1>7. cfg.span \in Nat \ {0}
  <2>1. cfg.span \in 1 .. Blocks
    BY <1>1, Configured
  <2> QED BY <1>6, <2>1
<1>8. /\ s \in 0 .. b /\ b < s + cfg.span
      /\ NextRecomputed(b) = IF b + 1 = s + cfg.span THEN s - cfg.span ELSE b + 1
  BY <1>1, <1>5, Spans
<1>9. \E a, x \in Int : B \subseteq (a .. a + cfg.span - 1) \union {x}
  <2>1. CASE pc[p].phase = "forward"
    <3>1. \A m \in Holding(p) : BlockOf(m) = b \/ BlockOf(m) = b + 1
      <4>1. ASSUME NEW m \in Holding(p), \E j \in k .. Width : m = Module(b, j)
            PROVE  BlockOf(m) = b
        <5>1. PICK j \in k .. Width : m = Module(b, j)
          BY <4>1
        <5>2. j \in 1 .. Width
          BY <1>6
        <5> QED BY <1>1, <5>1, <5>2, Modules
      <4>2. BlockOf(Running(p)) = b
        BY <1>1, <1>2, Here
      <4> QED BY <1>1, <1>2, <2>1, <4>1, <4>2 DEF Holdings, Forward
    <3>2. b \in b .. b + cfg.span - 1
      BY <1>6, <1>7
    <3>3. B \subseteq (b .. b + cfg.span - 1) \union {b + 1}
      BY <1>3, <3>1, <3>2
    <3>4. b \in Int /\ b + 1 \in Int
      BY <1>6
    <3> QED BY <3>3, <3>4
  <2>2. CASE pc[p].phase = "recompute"
    <3>1. \A m \in Holding(p) :
            BlockOf(m) \in s .. b - 1 \/ BlockOf(m) = b \/ BlockOf(m) = NextRecomputed(b)
      BY <1>2, <1>4, <1>5, <2>2, Recomputing
    <3>2. /\ \A c \in s .. b - 1 : c \in s .. s + cfg.span - 1
          /\ b \in s .. s + cfg.span - 1 /\ NextRecomputed(b) \in Int /\ s \in Int
      BY <1>6, <1>7, <1>8
    <3>3. B \subseteq (s .. s + cfg.span - 1) \union {NextRecomputed(b)}
      BY <1>3, <3>1, <3>2
    <3> QED BY <3>2, <3>3
  <2>3. CASE pc[p].phase = "backward"
    <3>1. Recomputed(b)
      <4>1. cfg.ckpt \in 0 .. Blocks
        BY <1>1, Configured
      <4> QED BY <1>6, <4>1 DEF Recomputed, Hooked
    <3>2. ASSUME NEW m \in Holding(p), \E j \in 1 .. Ahead(p) : m = Module(b, j)
          PROVE  BlockOf(m) = b
      <4>1. PICK j \in 1 .. Ahead(p) : m = Module(b, j)
        BY <3>2
      <4>2. Ahead(p) \in 0 .. Width
        BY <1>2, <1>6 DEF Ahead
      <4>3. j \in 1 .. Width
        BY <1>6, <4>2
      <4> QED BY <1>1, <4>1, <4>3, Modules
    <3>3. \A m \in Holding(p) :
            BlockOf(m) \in s .. b - 1 \/ BlockOf(m) = b \/ BlockOf(m) = s - cfg.span
      BY <1>2, <1>4, <1>5, <2>3, <3>1, <3>2, GoingBack
    <3>4. /\ \A c \in s .. b - 1 : c \in s .. s + cfg.span - 1
          /\ b \in s .. s + cfg.span - 1 /\ s - cfg.span \in Int /\ s \in Int
      BY <1>6, <1>7, <1>8
    <3>5. B \subseteq (s .. s + cfg.span - 1) \union {s - cfg.span}
      BY <1>3, <3>3, <3>4
    <3> QED BY <3>4, <3>5
  <2>4. CASE pc[p].phase \in {"after", "update"}
    <3>1. \A m \in Holding(p) : FALSE
      BY <1>1, <1>4, <2>4 DEF Holdings
    <3>2. B \subseteq (0 .. 0 + cfg.span - 1) \union {0}
      BY <1>3, <3>1
    <3>3. 0 \in Int
      OBVIOUS
    <3> QED BY <3>2, <3>3
  <2> QED BY <1>1, <2>1, <2>2, <2>3, <2>4, Here, PhaseTable
<1>10. PICK a \in Int, x \in Int : B \subseteq (a .. a + cfg.span - 1) \union {x}
  BY <1>9
<1>11. PICK I : I = a .. a + cfg.span - 1
  OBVIOUS
<1>12. IsFiniteSet(I) /\ Cardinality(I) = cfg.span
  <2>1. a + cfg.span - 1 \in Int /\ ~(a > a + cfg.span - 1)
        /\ (a + cfg.span - 1) - a + 1 = cfg.span
    BY <1>7
  <2> QED BY <1>11, <2>1, FS_Interval
<1>13. IsFiniteSet(I \union {x}) /\ Cardinality(I \union {x}) <= cfg.span + 1
  BY <1>7, <1>12, FS_AddElement
<1>14. Cardinality(B) <= Cardinality(I \union {x})
       /\ Cardinality(B) \in Nat /\ Cardinality(I \union {x}) \in Nat
  <2>1. B \subseteq I \union {x}
    BY <1>10, <1>11
  <2>2. IsFiniteSet(B) /\ Cardinality(B) <= Cardinality(I \union {x})
    BY <1>13, <2>1, FS_Subset
  <2> QED BY <1>13, <2>2, FS_CardinalityType
<1> QED BY <1>3, <1>7, <1>13, <1>14

(* Hooks of forward, recomputation and backward never gather a weight that   *)
(* is held, never find one missing, hold no more than a span's blocks and one*)
(* more when every block is recomputed, and prefetch no weight whose         *)
(* broadcast is under way; nothing gathered before an update outlives it.    *)
THEOREM OverlapGatheredInTime == Spec => []GatheredInTime
<1>1. IInv => GatheredInTime
  <2> SUFFICES ASSUME IInv PROVE GatheredInTime
    OBVIOUS
  <2>1. \A p \in Processes : Holdings(p)
    BY DEF IInv
  <2>2. GatheredOnce
    BY <2>1, HoldsFewBlocks DEF GatheredOnce, Holdings, Well
  <2>3. FreshWeights
    <3>1. ASSUME NEW p \in Processes, pc[p].phase = "update" PROVE held[p] = {}
      BY <2>1, <3>1 DEF Holdings, Holding
    <3> QED BY <2>1, <3>1 DEF FreshWeights, Holdings, Well
  <2> QED BY <2>2, <2>3 DEF GatheredInTime
<1> QED BY <1>1, OverlapInvariant, PTL

(* All processes issue their broadcasts in one order, however the arrival of *)
(* earlier ones lets their queues run ahead: the n-th issued is number n.    *)
THEOREM OverlapBroadcastsMatch == Spec => []BroadcastsMatch
<1>1. IInv => BroadcastsMatch
  <2> SUFFICES ASSUME IInv, NEW p \in Processes, NEW q \in Processes
               PROVE  IsPrefix(issued[p], issued[q]) \/ IsPrefix(issued[q], issued[p])
    BY DEF BroadcastsMatch
  <2>1. ASSUME NEW s \in Seq(Nat), NEW t \in Seq(Nat), \A i \in DOMAIN s : s[i] = i,
               \A i \in DOMAIN t : t[i] = i, Len(s) <= Len(t)
        PROVE  IsPrefix(s, t)
    <3>1. SubSeq(s, 1, Len(s)) = SubSeq(t, 1, Len(s))
      <4>1. /\ DOMAIN SubSeq(s, 1, Len(s)) = 1 .. Len(s)
            /\ DOMAIN SubSeq(t, 1, Len(s)) = 1 .. Len(s)
            /\ \A i \in 1 .. Len(s) : /\ SubSeq(s, 1, Len(s))[i] = s[i]
                                     /\ SubSeq(t, 1, Len(s))[i] = t[i]
        BY <2>1
      <4>2. \A i \in 1 .. Len(s) : s[i] = i /\ t[i] = i
        BY <2>1
      <4> QED BY <4>1, <4>2
    <3> QED BY <2>1, <3>1 DEF IsPrefix
  <2>2. issued[p] \in Seq(Nat) /\ issued[q] \in Seq(Nat) /\ Len(issued[p]) \in Nat
          /\ Len(issued[q]) \in Nat
    BY DEF IInv, TypeOK
  <2>3. (\A i \in DOMAIN issued[p] : issued[p][i] = i)
          /\ (\A i \in DOMAIN issued[q] : issued[q][i] = i)
    BY DEF IInv, Queues
  <2>4. Len(issued[p]) <= Len(issued[q]) \/ Len(issued[q]) <= Len(issued[p])
    BY <2>2
  <2> QED BY <2>1, <2>2, <2>3, <2>4
<1> QED BY <1>1, OverlapInvariant, PTL
=============================================================================
