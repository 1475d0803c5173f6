------------------------- MODULE RingAttentionProofs -------------------------
(***************************************************************************)
(* RingExact holds of every context group that does not interleave its     *)
(* windows, for any size and any window that divides it: each rank computes*)
(* the causal blocks of its queries once, and the gradients that come home *)
(* to its keys are those of all queries that see them.                     *)
(*                                                                         *)
(* A rank is its window and its place inside (Coordinated, from the groups *)
(* that ProcessGroups makes), so the keys in its hands at a step are those *)
(* of a rank counted back from it (Source).  What it computes with them is *)
(* what is causal between the two (BlocksOfStep), and what it has computed *)
(* is what is causal of the ranks it has met (Seen); likewise the keys and *)
(* the queries that have met them (Given).                                 *)
(*                                                                         *)
(* The invariant IInv says where a rank can be, which of its requests are  *)
(* open there (Open, Index), what its buffers hold meanwhile (InHand,      *)
(* Carried), and that a rank and the next one in a ring are at the same    *)
(* request of it (Paired), so that what one sends is what the other        *)
(* expects.  A transfer happens at any moment between, hence the part that *)
(* matters: it overwrites nothing that is still read (ArrivalInHand,       *)
(* ArrivalClash), though a window has two buffers for gradients.           *)
(***************************************************************************)
EXTENDS RingAttention, FiniteSetTheorems, TLAPS

(* Coordinates of a rank: its window, and its place inside.                 *)

Straight(c) == c \in Shapes /\ ~c.interleaved
W(c) == c.window
N(c) == c.context \div c.window
RanksOf(c) == 0 .. c.context - 1
RankAt(c, a, b) == a * W(c) + b
Outer(c, r) == Places[c]["inter"][r].rank
Inner(c, r) == Places[c]["intra"][r].rank
Peer(c, ring, r) == Places[c][ring][r].send
Back(x, d, m) == IF d <= x THEN x - d ELSE x - d + m
NextOf(x, m) == IF x + 1 = m THEN 0 ELSE x + 1

(* The groups of get_group_ranks, and those of the rings.                   *)
Starts(n, cur, pre) == {block * cur * pre + j :
  block \in 0 .. UpDiv(n, cur * pre) - 1, j \in 0 .. pre - 1}
Strided(list, n, cur, pre, start) ==
  [i \in {k \in 0 .. cur - 1 : start + k * pre < n} |-> list[start + i * pre]]
Grouped(list, n, cur, pre) == {Strided(list, n, cur, pre, start) : start \in Starts(n, cur, pre)}
InWindow(c, a) == [i \in 0 .. W(c) - 1 |-> RankAt(c, a, i)]
Across(c, b) == [i \in 0 .. N(c) - 1 |-> RankAt(c, i, b)]

\* Division by d counts the whole d in x and leaves the rest.
LEMMA Division ==
  ASSUME NEW d \in Nat \ {0}, NEW x \in Nat
  PROVE  \E q \in Nat, r \in 0 .. d - 1 : x \div d = q /\ x % d = r /\ x = q * d + r
<1>1. x \div d \in Nat /\ x % d \in 0 .. d - 1
  OBVIOUS
<1>2. PICK q \in Nat : x \div d = q
  BY <1>1
<1>3. PICK r \in 0 .. d - 1 : x % d = r
  BY <1>1
<1>4. x = q * d + r
  BY <1>2, <1>3
<1> QED  BY <1>2, <1>3, <1>4

\* The sizes of a shape.
LEMMA ShapeSizes ==
  ASSUME NEW c \in Shapes
  PROVE  /\ c.context \in Nat \ {0} /\ W(c) \in Nat \ {0} /\ N(c) \in Nat \ {0}
         /\ c.context = N(c) * W(c)
<1>1. c.context \in Nat \ {0} /\ c.window \in Nat \ {0} /\ c.context % c.window = 0
  BY ShapesAssumption
<1>2. PICK n \in Nat \ {0} : n = c.context
  BY <1>1
<1>3. PICK w \in Nat \ {0} : w = c.window
  BY <1>1
<1>4. PICK q \in Nat, r \in 0 .. w - 1 : n \div w = q /\ n % w = r /\ n = q * w + r
  BY Division
<1>5. n = q * w
  <2>1. n % w = 0
    BY <1>1, <1>2, <1>3
  <2>2. r = 0
    BY <2>1, <1>4
  <2> QED BY <2>2, <1>4
<1>6. q # 0
  BY <1>5
<1> QED BY <1>2, <1>3, <1>4, <1>5, <1>6 DEF W, N

\* A rank has one window and one place in it.
LEMMA Unique ==
  ASSUME NEW w \in Nat \ {0}, NEW a \in Nat, NEW x \in Nat, NEW b \in 0 .. w - 1,
         NEW y \in 0 .. w - 1,
         a * w + b = x * w + y
  PROVE  a = x /\ b = y
<1>1. ~(a < x)
  <2> SUFFICES ASSUME a < x PROVE FALSE
    OBVIOUS
  <2>1. PICK d \in Nat : x = a + 1 + d
    <3>1. x - a - 1 \in Nat /\ x = a + 1 + (x - a - 1)
      OBVIOUS
    <3> QED BY <3>1
  <2>2. x * w = a * w + w + d * w /\ d * w \in Nat /\ a * w \in Nat
    BY <2>1
  <2> QED BY <2>2
<1>2. ~(x < a)
  <2> SUFFICES ASSUME x < a PROVE FALSE
    OBVIOUS
  <2>1. PICK d \in Nat : a = x + 1 + d
    <3>1. a - x - 1 \in Nat /\ a = x + 1 + (a - x - 1)
      OBVIOUS
    <3> QED BY <3>1
  <2>2. a * w = x * w + w + d * w /\ d * w \in Nat /\ x * w \in Nat
    BY <2>1
  <2> QED BY <2>2
<1>3. a = x
  BY <1>1, <1>2
<1> QED BY <1>3

\* The order of ranks is that of windows, then of places.
LEMMA RankBelow ==
  ASSUME NEW w \in Nat \ {0}, NEW a \in Nat, NEW x \in Nat, NEW b \in 0 .. w - 1,
         NEW y \in 0 .. w - 1,
         a < x
  PROVE  a * w + b < x * w + y
<1>1. PICK d \in Nat : x = a + 1 + d
  <2>1. x - a - 1 \in Nat /\ x = a + 1 + (x - a - 1)
    OBVIOUS
  <2> QED BY <2>1
<1>2. x * w = a * w + w + d * w /\ d * w \in Nat /\ a * w \in Nat
  BY <1>1
<1> QED BY <1>2

\* Ranks and coordinates.
LEMMA RankOfCoordinates ==
  ASSUME NEW c \in Shapes, NEW a \in 0 .. N(c) - 1, NEW b \in 0 .. W(c) - 1
  PROVE  RankAt(c, a, b) \in RanksOf(c)
<1>1. PICK n \in Nat \ {0} : n = N(c)
  BY ShapeSizes
<1>2. PICK w \in Nat \ {0} : w = W(c)
  BY ShapeSizes
<1>3. a * w + b < n * w + 0
  BY <1>1, <1>2, RankBelow
<1>4. a * w \in Nat
  BY <1>2, <1>1
<1>5. c.context = n * w
  BY <1>1, <1>2, ShapeSizes
<1>6. n * w \in Nat
  OBVIOUS
<1> QED BY <1>2, <1>3, <1>4, <1>5, <1>6 DEF RankAt, RanksOf

\* Every rank has coordinates.
LEMMA CoordinatesOfRank ==
  ASSUME NEW c \in Shapes, NEW r \in RanksOf(c)
  PROVE  \E a \in 0 .. N(c) - 1, b \in 0 .. W(c) - 1 : r = RankAt(c, a, b)
<1>1. PICK n \in Nat \ {0} : n = N(c)
  BY ShapeSizes
<1>2. PICK w \in Nat \ {0} : w = W(c)
  BY ShapeSizes
<1>3. r \in Nat /\ r < n * w
  BY <1>1, <1>2, ShapeSizes DEF RanksOf
<1>4. PICK a \in Nat, b \in 0 .. w - 1 : r = a * w + b
  BY <1>3, Division
<1>5. a < n
  <2> SUFFICES ASSUME ~(a < n) PROVE FALSE
    OBVIOUS
  <2>1. PICK d \in Nat : a = n + d
    <3>1. a - n \in Nat /\ a = n + (a - n)
      OBVIOUS
    <3> QED BY <3>1
  <2>2. a * w = n * w + d * w /\ d * w \in Nat /\ n * w \in Nat
    BY <2>1
  <2> QED BY <2>2, <1>3, <1>4
<1> QED BY <1>1, <1>2, <1>4, <1>5 DEF RankAt

-----------------------------------------------------------------------------
\* The groups of get_group_ranks are its strides.
LEMMA GroupsOfRanks ==
  ASSUME NEW list, NEW cur, NEW pre
  PROVE  GroupRanks(list, cur, pre, FALSE)
           = Grouped(list, Cardinality(DOMAIN list), cur, pre)
BY DEF GroupRanks, Grouped, Strided, Starts

\* The ranks below m are m.
LEMMA CardinalityOfInterval ==
  ASSUME NEW m \in Nat \ {0} PROVE Cardinality(0 .. m - 1) = m
BY FS_Interval

\* A whole number of parts is not rounded up.
LEMMA Wholes ==
  ASSUME NEW n \in Nat \ {0}, NEW d \in Nat \ {0}, NEW q \in Nat \ {0}, n = q * d
  PROVE  UpDiv(n, d) = q
<1>1. n + d - 1 = q * d + (d - 1)
  OBVIOUS
<1>2. PICK x \in Nat, r \in 0 .. d - 1 :
        (n + d - 1) \div d = x /\ n + d - 1 = x * d + r
  <2>1. n + d - 1 \in Nat
    OBVIOUS
  <2> QED BY <2>1, Division
<1>3. x = q
  BY <1>1, <1>2, Unique
<1> QED BY <1>2, <1>3 DEF UpDiv

\* The context is one group, and its window order is that of the ranks.
LEMMA OneContext ==
  ASSUME NEW c, Straight(c)
  PROVE  /\ Contexts(c.context, Attn(c)) = {World(c.context)}
         /\ WindowOrder(Attn(c), World(c.context)) = World(c.context)
<1>1. c \in Shapes
  BY DEF Straight
<1>2. PICK n \in Nat \ {0} : n = c.context
  BY <1>1, ShapeSizes
<1>3. DOMAIN World(n) = 0 .. n - 1 /\ Cardinality(DOMAIN World(n)) = n
  BY CardinalityOfInterval DEF World
<1>4. Starts(n, n, 1) = {0}
  <2>1. n * 1 = n /\ n = 1 * n
    OBVIOUS
  <2>2. UpDiv(n, n * 1) = 1
    BY <2>1, Wholes
  <2> QED BY <2>2 DEF Starts
<1>5. Strided(World(n), n, n, 1, 0) = World(n)
  <2>1. {k \in 0 .. n - 1 : 0 + k * 1 < n} = 0 .. n - 1
    OBVIOUS
  <2>2. \A i \in 0 .. n - 1 : World(n)[0 + i * 1] = i
    BY DEF World
  <2> QED BY <2>1, <2>2 DEF World, Strided
<1>6. Grouped(World(n), n, n, 1) = {Strided(World(n), n, n, 1, 0)}
  BY <1>4 DEF Grouped
<1>7. GroupRanks(World(n), n, 1, FALSE) = {World(n)}
  BY <1>3, <1>4, <1>5, <1>6, GroupsOfRanks
<1>8. Contexts(n, Attn(c)) = {World(n)}
  BY <1>7, <1>2 DEF Contexts, Attn, ContextStride
<1>9. WindowOrder(Attn(c), World(n)) = World(n)
  BY <1>2 DEF WindowOrder, WindowIndex, Interleaves, Attn, World, Straight
<1> QED BY <1>2, <1>8, <1>9

\* Groups of consecutive ranks, and of ranks that are a window apart.
LEMMA IntraGroups ==
  ASSUME NEW c, Straight(c)
  PROVE  Intra(c.context, Attn(c)) = {InWindow(c, a) : a \in 0 .. N(c) - 1}
<1>1. c \in Shapes
  BY DEF Straight
<1>2. PICK w \in Nat \ {0} : w = W(c)
  BY <1>1, ShapeSizes
<1>3. PICK m \in Nat \ {0} : m = N(c)
  BY <1>1, ShapeSizes
<1>4. PICK n \in Nat \ {0} : n = c.context
  BY <1>1, ShapeSizes
<1>5. n = m * w
  BY <1>1, <1>2, <1>3, <1>4, ShapeSizes
<1>6. DOMAIN World(n) = 0 .. n - 1 /\ Cardinality(DOMAIN World(n)) = n
  BY CardinalityOfInterval DEF World
<1>7. Starts(n, w, 1) = {block * w : block \in 0 .. m - 1}
  <2>1. w * 1 = w
    OBVIOUS
  <2>2. UpDiv(n, w * 1) = m
    BY <2>1, <1>5, Wholes
  <2> QED BY <2>2 DEF Starts
<1>8. ASSUME NEW a \in 0 .. m - 1
      PROVE  Strided(World(n), n, w, 1, a * w) = InWindow(c, a)
  <2>1. \A k \in 0 .. w - 1 : a * w + k \in 0 .. n - 1
    BY <1>1, <1>2, <1>3, <1>4, RankOfCoordinates DEF RankAt, RanksOf
  <2>2. \A k \in 0 .. w - 1 : a * w + k * 1 = a * w + k
    OBVIOUS
  <2>3. {k \in 0 .. w - 1 : a * w + k * 1 < n} = 0 .. w - 1
    BY <2>1, <2>2
  <2>4. \A i \in 0 .. w - 1 : World(n)[a * w + i * 1] = a * w + i
    BY <2>1, <2>2 DEF World
  <2>5. \A i \in 0 .. w - 1 : RankAt(c, a, i) = a * w + i
    BY <1>2 DEF RankAt
  <2> QED BY <2>3, <2>4, <2>5, <1>2 DEF Strided, InWindow
<1>9. GroupRanks(World(n), w, 1, FALSE) = Grouped(World(n), n, w, 1)
  BY <1>6, GroupsOfRanks
<1>10. GroupRanks(World(n), w, 1, FALSE) = {InWindow(c, a) : a \in 0 .. m - 1}
  BY <1>7, <1>8, <1>9 DEF Grouped
<1>11. Intra(c.context, Attn(c)) = GroupRanks(World(n), w, 1, FALSE)
  BY <1>2, <1>4, OneContext DEF Intra, Attn, W
<1> QED BY <1>3, <1>10, <1>11

\* Groups of ranks that are a window apart.
LEMMA InterGroups ==
  ASSUME NEW c, Straight(c)
  PROVE  Inter(c.context, Attn(c)) = {Across(c, b) : b \in 0 .. W(c) - 1}
<1>1. c \in Shapes
  BY DEF Straight
<1>2. PICK w \in Nat \ {0} : w = W(c)
  BY <1>1, ShapeSizes
<1>3. PICK m \in Nat \ {0} : m = N(c)
  BY <1>1, ShapeSizes
<1>4. PICK n \in Nat \ {0} : n = c.context
  BY <1>1, ShapeSizes
<1>5. n = m * w
  BY <1>1, <1>2, <1>3, <1>4, ShapeSizes
<1>6. DOMAIN World(n) = 0 .. n - 1 /\ Cardinality(DOMAIN World(n)) = n
  BY CardinalityOfInterval DEF World
<1>7. Starts(n, m, w) = 0 .. w - 1
  <2>1. n = 1 * n
    OBVIOUS
  <2>2. UpDiv(n, m * w) = 1
    BY <2>1, <1>5, Wholes
  <2>3. \A j \in 0 .. w - 1 : 0 * m * w + j = j
    OBVIOUS
  <2>4. 0 .. UpDiv(n, m * w) - 1 = {0}
    BY <2>2
  <2> QED BY <2>3, <2>4 DEF Starts
<1>8. ASSUME NEW b \in 0 .. w - 1
      PROVE  Strided(World(n), n, m, w, b) = Across(c, b)
  <2>1. \A k \in 0 .. m - 1 : k * w + b \in 0 .. n - 1
    BY <1>1, <1>2, <1>3, <1>4, RankOfCoordinates DEF RankAt, RanksOf
  <2>2. \A k \in 0 .. m - 1 : b + k * w = k * w + b
    OBVIOUS
  <2>3. {k \in 0 .. m - 1 : b + k * w < n} = 0 .. m - 1
    BY <2>1, <2>2
  <2>4. \A i \in 0 .. m - 1 : World(n)[b + i * w] = i * w + b
    BY <2>1, <2>2 DEF World
  <2>5. \A i \in 0 .. m - 1 : RankAt(c, i, b) = i * w + b
    BY <1>2 DEF RankAt
  <2> QED BY <2>3, <2>4, <2>5, <1>3 DEF Strided, Across
<1>9. GroupRanks(World(n), m, w, FALSE) = Grouped(World(n), n, m, w)
  BY <1>6, GroupsOfRanks
<1>10. GroupRanks(World(n), m, w, FALSE) = {Across(c, b) : b \in 0 .. w - 1}
  BY <1>7, <1>8, <1>9 DEF Grouped
<1>11. Inter(c.context, Attn(c)) = GroupRanks(World(n), m, w, FALSE)
  BY <1>2, <1>3, <1>4, OneContext DEF Inter, Attn, W, N
<1> QED BY <1>2, <1>10, <1>11

\* A rank's group in a ring, and its rank there.
LEMMA IntraPlace ==
  ASSUME NEW c, Straight(c), NEW a \in 0 .. N(c) - 1, NEW b \in 0 .. W(c) - 1
  PROVE  LET groups == Intra(c.context, Attn(c))
             r == RankAt(c, a, b)
         IN  /\ GroupOf(groups, r) = InWindow(c, a)
             /\ LocalRank(groups, r) = b
<1> DEFINE Group(x) == InWindow(c, x)
           groups == Intra(c.context, Attn(c))
           r == RankAt(c, a, b)
<1>1. c \in Shapes
  BY DEF Straight
<1>2. PICK w \in Nat \ {0} : w = W(c)
  BY <1>1, ShapeSizes
<1>3. PICK m \in Nat \ {0} : m = N(c)
  BY <1>1, ShapeSizes
<1>4. groups = {Group(x) : x \in 0 .. m - 1}
  BY <1>3, IntraGroups
<1>5. ASSUME NEW x \in 0 .. m - 1, NEW y \in 0 .. w - 1, RankAt(c, x, y) = r
      PROVE  x = a /\ y = b
  <2>1. x * w + y = a * w + b
    BY <1>2, <1>5 DEF RankAt
  <2> QED BY <2>1, <1>2, <1>3, Unique
<1>6. Group(a) \in groups /\ r \in Members(Group(a))
  BY <1>4, <1>3, <1>2 DEF Members, InWindow
<1>7. \A g \in groups : r \in Members(g) => g = Group(a)
  <2> SUFFICES ASSUME NEW x \in 0 .. m - 1, r \in Members(Group(x)) PROVE x = a
    BY <1>4
  <2>1. PICK y \in 0 .. w - 1 : r = RankAt(c, x, y)
    BY <1>2 DEF Members, InWindow
  <2> QED BY <2>1, <1>5
<1> HIDE DEF Group, groups, r
<1>8. GroupOf(groups, r) = Group(a)
  BY <1>6, <1>7, Zenon DEF GroupOf
<1>9. DOMAIN Group(a) = 0 .. w - 1 /\ \A k \in 0 .. w - 1 : Group(a)[k] = RankAt(c, a, k)
  BY <1>2 DEF Group, InWindow
<1>10. Group(a)[b] = r
  BY <1>9, <1>2 DEF r
<1>11. \A k \in DOMAIN Group(a) : Group(a)[k] = r => k = b
  BY <1>9, <1>5, <1>3
<1>12. (CHOOSE k \in DOMAIN Group(a) : Group(a)[k] = r) = b
  BY <1>9, <1>10, <1>11, <1>2
<1>13. LocalRank(groups, r) = b
  BY <1>8, <1>12 DEF LocalRank
<1> QED BY <1>8, <1>13 DEF Group, groups, r

\* A rank's group among the windows, and its rank there.
LEMMA InterPlace ==
  ASSUME NEW c, Straight(c), NEW a \in 0 .. N(c) - 1, NEW b \in 0 .. W(c) - 1
  PROVE  LET groups == Inter(c.context, Attn(c))
             r == RankAt(c, a, b)
         IN  /\ GroupOf(groups, r) = Across(c, b)
             /\ LocalRank(groups, r) = a
<1> DEFINE Group(y) == Across(c, y)
           groups == Inter(c.context, Attn(c))
           r == RankAt(c, a, b)
<1>1. c \in Shapes
  BY DEF Straight
<1>2. PICK w \in Nat \ {0} : w = W(c)
  BY <1>1, ShapeSizes
<1>3. PICK m \in Nat \ {0} : m = N(c)
  BY <1>1, ShapeSizes
<1>4. groups = {Group(y) : y \in 0 .. w - 1}
  BY <1>2, InterGroups
<1>5. ASSUME NEW x \in 0 .. m - 1, NEW y \in 0 .. w - 1, RankAt(c, x, y) = r
      PROVE  x = a /\ y = b
  <2>1. x * w + y = a * w + b
    BY <1>2, <1>5 DEF RankAt
  <2> QED BY <2>1, <1>2, <1>3, Unique
<1>6. Group(b) \in groups /\ r \in Members(Group(b))
  BY <1>4, <1>3, <1>2 DEF Members, Across
<1>7. \A g \in groups : r \in Members(g) => g = Group(b)
  <2> SUFFICES ASSUME NEW y \in 0 .. w - 1, r \in Members(Group(y)) PROVE y = b
    BY <1>4
  <2>1. PICK x \in 0 .. m - 1 : r = RankAt(c, x, y)
    BY <1>3 DEF Members, Across
  <2> QED BY <2>1, <1>5
<1> HIDE DEF Group, groups, r
<1>8. GroupOf(groups, r) = Group(b)
  BY <1>6, <1>7, Zenon DEF GroupOf
<1>9. DOMAIN Group(b) = 0 .. m - 1 /\ \A k \in 0 .. m - 1 : Group(b)[k] = RankAt(c, k, b)
  BY <1>3 DEF Group, Across
<1>10. Group(b)[a] = r
  BY <1>9, <1>3 DEF r
<1>11. \A k \in DOMAIN Group(b) : Group(b)[k] = r => k = a
  BY <1>9, <1>5, <1>2
<1>12. (CHOOSE k \in DOMAIN Group(b) : Group(b)[k] = r) = a
  BY <1>9, <1>10, <1>11, <1>3
<1>13. LocalRank(groups, r) = a
  BY <1>8, <1>12 DEF LocalRank
<1> QED BY <1>8, <1>13 DEF Group, groups, r

\* The successor in a ring.
LEMMA Successors ==
  ASSUME NEW m \in Nat \ {0}, NEW x \in 0 .. m - 1
  PROVE  (x + 1) % m = NextOf(x, m) /\ NextOf(x, m) \in 0 .. m - 1
<1>1. CASE x + 1 = m
  <2>1. m % m = 0
    OBVIOUS
  <2> QED BY <1>1, <2>1 DEF NextOf
<1>2. CASE x + 1 # m
  BY <1>2 DEF NextOf
<1> QED BY <1>1, <1>2

\* Every rank's place in the rings, in coordinates.
LEMMA Coordinated ==
  ASSUME NEW c, Straight(c), NEW a \in 0 .. N(c) - 1, NEW b \in 0 .. W(c) - 1
  PROVE  LET r == RankAt(c, a, b) IN
         /\ Outer(c, r) = a /\ Inner(c, r) = b
         /\ \A ring \in {"intra", "dkv intra"} : Peer(c, ring, r) = RankAt(c, a, NextOf(b, W(c)))
         /\ \A ring \in {"inter", "dkv inter"} : Peer(c, ring, r) = RankAt(c, NextOf(a, N(c)), b)
<1> DEFINE r == RankAt(c, a, b)
<1>1. c \in Shapes
  BY DEF Straight
<1>2. PICK w \in Nat \ {0} : w = W(c)
  BY <1>1, ShapeSizes
<1>3. PICK m \in Nat \ {0} : m = N(c)
  BY <1>1, ShapeSizes
<1>4. r \in 0 .. c.context - 1
  BY <1>1, RankOfCoordinates DEF RanksOf
<1> HIDE DEF r
<1>5. ASSUME NEW ring \in Rings
      PROVE  /\ Places[c][ring][r].rank = LocalRank(RingGroups(c, ring), r)
             /\ Places[c][ring][r].send
                  = GroupOf(RingGroups(c, ring), r)[(LocalRank(RingGroups(c, ring), r) + 1)
                      % Cardinality(DOMAIN GroupOf(RingGroups(c, ring), r))]
  BY <1>1, <1>4 DEF Places
<1>6. ASSUME NEW ring \in {"intra", "dkv intra"}
      PROVE  Places[c][ring][r].rank = b /\ Places[c][ring][r].send = RankAt(c, a, NextOf(b, w))
  <2>1. RingGroups(c, ring) = Intra(c.context, Attn(c)) /\ ring \in Rings
    BY DEF RingGroups, Rings
  <2>2. GroupOf(RingGroups(c, ring), r) = InWindow(c, a)
    BY <2>1, <1>2, IntraPlace DEF r
  <2>3. LocalRank(RingGroups(c, ring), r) = b
    BY <2>1, <1>2, IntraPlace DEF r
  <2>4. Cardinality(DOMAIN GroupOf(RingGroups(c, ring), r)) = w
    BY <2>2, <1>2, <1>3, CardinalityOfInterval DEF InWindow, Across
  <2>5. (b + 1) % w = NextOf(b, w) /\ NextOf(b, w) \in 0 .. w - 1
    BY <1>2, Successors
  <2>6. InWindow(c, a)[NextOf(b, w)] = RankAt(c, a, NextOf(b, w))
    BY <2>5, <1>2 DEF InWindow
  <2>7. /\ Places[c][ring][r].rank = b
        /\ Places[c][ring][r].send = InWindow(c, a)[(b + 1) % w]
    BY <2>1, <2>2, <2>3, <2>4, <1>5
  <2> QED BY <2>5, <2>6, <2>7
<1>7. ASSUME NEW ring \in {"inter", "dkv inter"}
      PROVE  Places[c][ring][r].rank = a /\ Places[c][ring][r].send = RankAt(c, NextOf(a, m), b)
  <2>1. RingGroups(c, ring) = Inter(c.context, Attn(c)) /\ ring \in Rings
    BY DEF RingGroups, Rings
  <2>2. GroupOf(RingGroups(c, ring), r) = Across(c, b)
    BY <2>1, <1>3, InterPlace DEF r
  <2>3. LocalRank(RingGroups(c, ring), r) = a
    BY <2>1, <1>3, InterPlace DEF r
  <2>4. Cardinality(DOMAIN GroupOf(RingGroups(c, ring), r)) = m
    BY <2>2, <1>2, <1>3, CardinalityOfInterval DEF InWindow, Across
  <2>5. (a + 1) % m = NextOf(a, m) /\ NextOf(a, m) \in 0 .. m - 1
    BY <1>3, Successors
  <2>6. Across(c, b)[NextOf(a, m)] = RankAt(c, NextOf(a, m), b)
    BY <2>5, <1>3 DEF Across
  <2>7. /\ Places[c][ring][r].rank = a
        /\ Places[c][ring][r].send = Across(c, b)[(a + 1) % m]
    BY <2>1, <2>2, <2>3, <2>4, <1>5
  <2> QED BY <2>5, <2>6, <2>7
<1> QED BY <1>2, <1>3, <1>6, <1>7 DEF Outer, Inner, Peer, r

-----------------------------------------------------------------------------
(* Whose keys a rank holds at step s of window j, and whether it has met    *)
(* those of o before.                                                       *)
Source(c, r, j, s) == RankAt(c, Back(Outer(c, r), j, N(c)), Back(Inner(c, r), s, W(c)))
Met(c, r, o, j, s) ==
  \/ Back(Outer(c, r), Outer(c, o), N(c)) < j
  \/ Back(Outer(c, r), Outer(c, o), N(c)) = j /\ Back(Inner(c, r), Inner(c, o), W(c)) < s

\* A rank is where its coordinates say.
LEMMA Located ==
  ASSUME NEW c, Straight(c), NEW r \in RanksOf(c)
  PROVE  /\ Outer(c, r) \in 0 .. N(c) - 1 /\ Inner(c, r) \in 0 .. W(c) - 1
         /\ r = RankAt(c, Outer(c, r), Inner(c, r))
<1>1. PICK a \in 0 .. N(c) - 1, b \in 0 .. W(c) - 1 : r = RankAt(c, a, b)
  BY CoordinatesOfRank DEF Straight
<1>2. Outer(c, r) = a /\ Inner(c, r) = b
  BY <1>1, Coordinated
<1> QED BY <1>1, <1>2

\* Ranks are ordered by their windows, then by their places.
LEMMA Ordered ==
  ASSUME NEW c, Straight(c), NEW r \in RanksOf(c), NEW o \in RanksOf(c),
         \/ Outer(c, r) < Outer(c, o)
         \/ Outer(c, r) = Outer(c, o) /\ Inner(c, r) < Inner(c, o)
  PROVE  r < o
<1>1. PICK w \in Nat \ {0} : w = W(c)
  BY ShapeSizes DEF Straight
<1>2. PICK n \in Nat \ {0} : n = N(c)
  BY ShapeSizes DEF Straight
<1>3. PICK a \in 0 .. n - 1 : a = Outer(c, r)
  BY <1>2, Located
<1>4. PICK b \in 0 .. w - 1 : b = Inner(c, r)
  BY <1>1, Located
<1>5. PICK x \in 0 .. n - 1 : x = Outer(c, o)
  BY <1>2, Located
<1>6. PICK y \in 0 .. w - 1 : y = Inner(c, o)
  BY <1>1, Located
<1>7. r = a * w + b /\ o = x * w + y
  BY <1>1, <1>3, <1>4, <1>5, <1>6, Located DEF RankAt
<1>8. CASE a < x
  BY <1>7, <1>8, RankBelow
<1>9. CASE a = x /\ b < y
  <2>1. x * w \in Nat
    OBVIOUS
  <2> QED BY <1>7, <1>9, <2>1
<1> QED BY <1>3, <1>4, <1>5, <1>6, <1>8, <1>9

\* Going back in a ring stays in it.
LEMMA BackRange ==
  ASSUME NEW m \in Nat \ {0}, NEW x \in 0 .. m - 1, NEW d \in 0 .. m
  PROVE  Back(x, d, m) \in 0 .. m - 1
BY DEF Back

\* How far back y is, is where going that far back ends.
LEMMA BackInverse ==
  ASSUME NEW m \in Nat \ {0}, NEW x \in 0 .. m - 1, NEW d \in 0 .. m - 1, NEW y \in 0 .. m - 1
  PROVE  Back(x, y, m) = d <=> y = Back(x, d, m)
BY DEF Back

\* Two that go back as far meet only if they started together.
LEMMA BackInjective ==
  ASSUME NEW m \in Nat \ {0}, NEW x \in 0 .. m - 1, NEW y \in 0 .. m - 1, NEW d \in 0 .. m,
         Back(x, d, m) = Back(y, d, m)
  PROVE  x = y
BY DEF Back

\* Not moving, and going all around, change nothing.
LEMMA BackTurns ==
  ASSUME NEW m \in Nat \ {0}, NEW x \in 0 .. m - 1
  PROVE  Back(x, 0, m) = x /\ Back(x, m, m) = x
BY DEF Back

\* One further back from the next is the same place.
LEMMA BackNext ==
  ASSUME NEW m \in Nat \ {0}, NEW x \in 0 .. m - 1, NEW d \in 0 .. m - 1
  PROVE  Back(NextOf(x, m), d + 1, m) = Back(x, d, m)
BY DEF Back, NextOf

\* The next in a ring is in it.
LEMMA NextRange ==
  ASSUME NEW m \in Nat \ {0}, NEW x \in 0 .. m - 1
  PROVE  NextOf(x, m) \in 0 .. m - 1
BY DEF NextOf

\* No two have the same next.
LEMMA NextInjective ==
  ASSUME NEW m \in Nat \ {0}, NEW x \in 0 .. m - 1, NEW y \in 0 .. m - 1,
         NextOf(x, m) = NextOf(y, m)
  PROVE  x = y
BY DEF NextOf

\* Whose keys these are, in coordinates.
LEMMA Sourced ==
  ASSUME NEW c, Straight(c), NEW r \in RanksOf(c), NEW j \in 0 .. N(c), NEW s \in 0 .. W(c)
  PROVE  /\ Source(c, r, j, s) \in RanksOf(c)
         /\ Outer(c, Source(c, r, j, s)) = Back(Outer(c, r), j, N(c))
         /\ Inner(c, Source(c, r, j, s)) = Back(Inner(c, r), s, W(c))
<1>1. W(c) \in Nat \ {0} /\ N(c) \in Nat \ {0}
  BY ShapeSizes DEF Straight
<1>2. Outer(c, r) \in 0 .. N(c) - 1 /\ Inner(c, r) \in 0 .. W(c) - 1
  BY Located
<1>3. Back(Outer(c, r), j, N(c)) \in 0 .. N(c) - 1 /\ Back(Inner(c, r), s, W(c)) \in 0 .. W(c) - 1
  BY <1>1, <1>2, BackRange
<1> QED BY <1>3, RankOfCoordinates, Coordinated DEF Source, Straight

\* No two ranks hold the same keys at the same step.
LEMMA SourceInjective ==
  ASSUME NEW c, Straight(c), NEW r \in RanksOf(c), NEW q \in RanksOf(c),
         NEW j \in 0 .. N(c), NEW s \in 0 .. W(c), Source(c, r, j, s) = Source(c, q, j, s)
  PROVE  r = q
<1>1. W(c) \in Nat \ {0} /\ N(c) \in Nat \ {0}
  BY ShapeSizes DEF Straight
<1>2. /\ Outer(c, r) \in 0 .. N(c) - 1 /\ Inner(c, r) \in 0 .. W(c) - 1
      /\ Outer(c, q) \in 0 .. N(c) - 1 /\ Inner(c, q) \in 0 .. W(c) - 1
      /\ r = RankAt(c, Outer(c, r), Inner(c, r)) /\ q = RankAt(c, Outer(c, q), Inner(c, q))
  BY Located
<1>3. Back(Outer(c, r), j, N(c)) = Back(Outer(c, q), j, N(c))
  BY Sourced
<1>4. Back(Inner(c, r), s, W(c)) = Back(Inner(c, q), s, W(c))
  BY Sourced
<1>5. Outer(c, r) = Outer(c, q)
  BY <1>1, <1>2, <1>3, BackInjective
<1>6. Inner(c, r) = Inner(c, q)
  BY <1>1, <1>2, <1>4, BackInjective
<1> QED BY <1>2, <1>5, <1>6

\* A rank begins with its own keys, and they come back to it; after a window
\* they are those it began the window with.
LEMMA SourceTurns ==
  ASSUME NEW c, Straight(c), NEW r \in RanksOf(c)
  PROVE  /\ Source(c, r, 0, 0) = r /\ Source(c, r, N(c), 0) = r
         /\ \A j \in 0 .. N(c) : Source(c, r, j, W(c)) = Source(c, r, j, 0)
<1>1. W(c) \in Nat \ {0} /\ N(c) \in Nat \ {0}
  BY ShapeSizes DEF Straight
<1>2. /\ Outer(c, r) \in 0 .. N(c) - 1 /\ Inner(c, r) \in 0 .. W(c) - 1
      /\ r = RankAt(c, Outer(c, r), Inner(c, r))
  BY Located
<1>3. Back(Outer(c, r), 0, N(c)) = Outer(c, r) /\ Back(Outer(c, r), N(c), N(c)) = Outer(c, r)
  BY <1>1, <1>2, BackTurns
<1>4. Back(Inner(c, r), 0, W(c)) = Inner(c, r) /\ Back(Inner(c, r), W(c), W(c)) = Inner(c, r)
  BY <1>1, <1>2, BackTurns
<1> QED BY <1>2, <1>3, <1>4 DEF Source

\* The rank after r in its window.
LEMMA NextInWindow ==
  ASSUME NEW c, Straight(c), NEW q \in RanksOf(c), NEW ring \in {"intra", "dkv intra"}
  PROVE  /\ Peer(c, ring, q) \in RanksOf(c)
         /\ Outer(c, Peer(c, ring, q)) = Outer(c, q)
         /\ Inner(c, Peer(c, ring, q)) = NextOf(Inner(c, q), W(c))
<1>1. W(c) \in Nat \ {0} /\ N(c) \in Nat \ {0} /\ c \in Shapes
  BY ShapeSizes DEF Straight
<1>2. PICK a \in 0 .. N(c) - 1 : a = Outer(c, q)
  BY Located
<1>3. PICK b \in 0 .. W(c) - 1 : b = Inner(c, q)
  BY Located
<1>4. q = RankAt(c, a, b)
  BY <1>2, <1>3, Located
<1>5. Peer(c, ring, q) = RankAt(c, a, NextOf(b, W(c)))
  BY <1>4, Coordinated
<1>6. PICK e \in 0 .. W(c) - 1 : e = NextOf(b, W(c))
  BY <1>1, NextRange
<1>7. RankAt(c, a, e) \in RanksOf(c) /\ Outer(c, RankAt(c, a, e)) = a
        /\ Inner(c, RankAt(c, a, e)) = e
  BY <1>1, Coordinated, RankOfCoordinates
<1> QED BY <1>2, <1>3, <1>5, <1>6, <1>7

\* It holds at its next step what r holds at this one.
LEMMA TurnInWindow ==
  ASSUME NEW c, Straight(c), NEW r \in RanksOf(c), NEW ring \in {"intra", "dkv intra"},
         NEW j \in 0 .. N(c), NEW s \in 0 .. W(c) - 1
  PROVE  Source(c, Peer(c, ring, r), j, s + 1) = Source(c, r, j, s)
<1>1. W(c) \in Nat \ {0} /\ Inner(c, r) \in 0 .. W(c) - 1
  BY ShapeSizes, Located DEF Straight
<1>2. Back(NextOf(Inner(c, r), W(c)), s + 1, W(c)) = Back(Inner(c, r), s, W(c))
  BY <1>1, BackNext
<1> QED BY <1>2, NextInWindow DEF Source

\* It comes after no other rank.
LEMMA PeerInWindow ==
  ASSUME NEW c, Straight(c), NEW r \in RanksOf(c), NEW ring \in {"intra", "dkv intra"}
  PROVE  /\ Peer(c, ring, r) \in RanksOf(c)
         /\ \A q \in RanksOf(c) : Peer(c, ring, q) = Peer(c, ring, r) => q = r
<1>1. W(c) \in Nat \ {0} /\ c \in Shapes
  BY ShapeSizes DEF Straight
<1>2. \A q \in RanksOf(c) :
        /\ Outer(c, q) \in 0 .. N(c) - 1 /\ Inner(c, q) \in 0 .. W(c) - 1
        /\ q = RankAt(c, Outer(c, q), Inner(c, q))
  BY Located
<1>3. ASSUME NEW q \in RanksOf(c), Peer(c, ring, q) = Peer(c, ring, r) PROVE q = r
  <2>1. \A x \in RanksOf(c) : /\ Outer(c, Peer(c, ring, x)) = Outer(c, x)
                             /\ Inner(c, Peer(c, ring, x)) = NextOf(Inner(c, x), W(c))
    BY NextInWindow
  <2>2. Outer(c, q) = Outer(c, r) /\ NextOf(Inner(c, q), W(c)) = NextOf(Inner(c, r), W(c))
    BY <1>3, <2>1
  <2>3. Inner(c, q) = Inner(c, r)
    BY <2>2, <1>1, <1>2, NextInjective
  <2> QED BY <2>2, <2>3, <1>2
<1>4. Peer(c, ring, r) \in RanksOf(c)
  BY NextInWindow
<1> QED BY <1>3, <1>4

\* The rank after r across windows: it begins the next window with what r
\* began this one, and follows only r.
LEMMA PeerAcross ==
  ASSUME NEW c, Straight(c), NEW r \in RanksOf(c), NEW ring \in {"inter", "dkv inter"}
  PROVE  /\ Peer(c, ring, r) \in RanksOf(c)
         /\ \A j \in 0 .. N(c) - 1 :
              Source(c, Peer(c, ring, r), j + 1, 0) = Source(c, r, j, 0)
         /\ \A q \in RanksOf(c) : Peer(c, ring, q) = Peer(c, ring, r) => q = r
<1>1. W(c) \in Nat \ {0} /\ N(c) \in Nat \ {0} /\ c \in Shapes
  BY ShapeSizes DEF Straight
<1>2. \A q \in RanksOf(c) :
        /\ Outer(c, q) \in 0 .. N(c) - 1 /\ Inner(c, q) \in 0 .. W(c) - 1
        /\ q = RankAt(c, Outer(c, q), Inner(c, q))
  BY Located
<1>3. ASSUME NEW q \in RanksOf(c)
      PROVE  /\ Peer(c, ring, q) \in RanksOf(c)
             /\ Inner(c, Peer(c, ring, q)) = Inner(c, q)
             /\ Outer(c, Peer(c, ring, q)) = NextOf(Outer(c, q), N(c))
  <2>1. PICK a \in 0 .. N(c) - 1 : a = Outer(c, q)
    BY <1>2
  <2>2. PICK b \in 0 .. W(c) - 1 : b = Inner(c, q)
    BY <1>2
  <2>3. q = RankAt(c, a, b)
    BY <1>2, <2>1, <2>2
  <2>4. Peer(c, ring, q) = RankAt(c, NextOf(a, N(c)), b)
    BY <2>3, Coordinated
  <2>5. PICK e \in 0 .. N(c) - 1 : e = NextOf(a, N(c))
    BY <1>1, NextRange
  <2>6. RankAt(c, e, b) \in RanksOf(c) /\ Outer(c, RankAt(c, e, b)) = e
          /\ Inner(c, RankAt(c, e, b)) = b
    BY <1>1, Coordinated, RankOfCoordinates
  <2> QED BY <2>1, <2>2, <2>4, <2>5, <2>6
<1>4. ASSUME NEW j \in 0 .. N(c) - 1
      PROVE  Source(c, Peer(c, ring, r), j + 1, 0) = Source(c, r, j, 0)
  <2>1. Back(NextOf(Outer(c, r), N(c)), j + 1, N(c)) = Back(Outer(c, r), j, N(c))
    BY <1>1, <1>2, BackNext
  <2> QED BY <2>1, <1>3 DEF Source
<1>5. ASSUME NEW q \in RanksOf(c), Peer(c, ring, q) = Peer(c, ring, r) PROVE q = r
  <2>1. Inner(c, q) = Inner(c, r) /\ NextOf(Outer(c, q), N(c)) = NextOf(Outer(c, r), N(c))
    BY <1>3, <1>5
  <2>2. Outer(c, q) = Outer(c, r)
    BY <2>1, <1>1, <1>2, NextInjective
  <2> QED BY <2>1, <2>2, <1>2
<1> QED BY <1>3, <1>4, <1>5

\* At each step a rank meets the keys in its hands, and it had not met them
\* before.
LEMMA MetGrows ==
  ASSUME NEW c, Straight(c), NEW r \in RanksOf(c), NEW o \in RanksOf(c),
         NEW j \in 0 .. N(c) - 1, NEW s \in 0 .. W(c) - 1
  PROVE  /\ Met(c, r, o, j, s + 1) <=> (Met(c, r, o, j, s) \/ o = Source(c, r, j, s))
         /\ o = Source(c, r, j, s) => ~Met(c, r, o, j, s)
<1>1. W(c) \in Nat \ {0} /\ N(c) \in Nat \ {0}
  BY ShapeSizes DEF Straight
<1>2. /\ Outer(c, r) \in 0 .. N(c) - 1 /\ Inner(c, r) \in 0 .. W(c) - 1
      /\ Outer(c, o) \in 0 .. N(c) - 1 /\ Inner(c, o) \in 0 .. W(c) - 1
      /\ o = RankAt(c, Outer(c, o), Inner(c, o))
  BY Located
<1>3. PICK x \in 0 .. N(c) - 1 : x = Back(Outer(c, r), Outer(c, o), N(c))
  BY <1>1, <1>2, BackRange
<1>4. PICK y \in 0 .. W(c) - 1 : y = Back(Inner(c, r), Inner(c, o), W(c))
  BY <1>1, <1>2, BackRange
<1>5. x = j <=> Outer(c, o) = Back(Outer(c, r), j, N(c))
  BY <1>1, <1>2, <1>3, BackInverse
<1>6. y = s <=> Inner(c, o) = Back(Inner(c, r), s, W(c))
  BY <1>1, <1>2, <1>4, BackInverse
<1>7. j \in 0 .. N(c) /\ s \in 0 .. W(c)
  BY <1>1
<1>8. o = Source(c, r, j, s) <=> x = j /\ y = s
  <2>1. o = Source(c, r, j, s) => x = j /\ y = s
    BY <1>5, <1>6, <1>7, Sourced
  <2>2. x = j /\ y = s => o = Source(c, r, j, s)
    BY <1>2, <1>5, <1>6 DEF Source
  <2> QED BY <2>1, <2>2
<1>9. \A t \in Int : Met(c, r, o, j, t) <=> (x < j \/ (x = j /\ y < t))
  BY <1>3, <1>4 DEF Met
<1>10. s \in Int /\ s + 1 \in Int
  BY <1>1
<1> QED BY <1>8, <1>9, <1>10

\* Before the first step a rank met nobody, after the last everybody.
LEMMA MetBounds ==
  ASSUME NEW c, Straight(c), NEW r \in RanksOf(c), NEW o \in RanksOf(c)
  PROVE  /\ ~Met(c, r, o, 0, 0) /\ Met(c, r, o, N(c), 0)
         /\ \A j \in 0 .. N(c) : Met(c, r, o, j, W(c)) <=> Met(c, r, o, j + 1, 0)
<1>1. W(c) \in Nat \ {0} /\ N(c) \in Nat \ {0}
  BY ShapeSizes DEF Straight
<1>2. /\ Outer(c, r) \in 0 .. N(c) - 1 /\ Inner(c, r) \in 0 .. W(c) - 1
      /\ Outer(c, o) \in 0 .. N(c) - 1 /\ Inner(c, o) \in 0 .. W(c) - 1
  BY Located
<1>3. PICK x \in 0 .. N(c) - 1 : x = Back(Outer(c, r), Outer(c, o), N(c))
  BY <1>1, <1>2, BackRange
<1>4. PICK y \in 0 .. W(c) - 1 : y = Back(Inner(c, r), Inner(c, o), W(c))
  BY <1>1, <1>2, BackRange
<1> QED BY <1>1, <1>3, <1>4 DEF Met

-----------------------------------------------------------------------------
(* The causal blocks of a rank's queries with the keys it has met, and of a *)
(* rank's keys with the queries that have met them.                         *)
Home(c, k) == IF k < c.context THEN k ELSE 2 * c.context - 1 - k
Causals(c) ==
  {b \in [q : 0 .. 2 * c.context - 1, k : 0 .. 2 * c.context - 1, mask : BOOLEAN] :
     b.k <= b.q /\ b.mask = (b.q = b.k)}
Pair(c, r, o) == {b \in Causals(c) : Home(c, b.q) = r /\ Home(c, b.k) = o}
Seen(c, r, j, s) == {b \in Causals(c) : Home(c, b.q) = r /\ Met(c, r, Home(c, b.k), j, s)}
Given(c, o, j, s) == {b \in Causals(c) : Home(c, b.k) = o /\ Met(c, Home(c, b.q), o, j, s)}

Block(x, y, m) == [q |-> x, k |-> y, mask |-> m]

\* Whether the keys in hand are earlier or later than a rank's own.
LEMMA EarlierKeys ==
  ASSUME NEW c, Straight(c), NEW r \in RanksOf(c), NEW j \in 0 .. N(c) - 1, NEW s \in 0 .. W(c) - 1,
         j > 0 \/ s > 0
  PROVE  IF (j = 0 /\ s <= Inner(c, r)) \/ (j > 0 /\ j <= Outer(c, r))
         THEN Source(c, r, j, s) < r ELSE r < Source(c, r, j, s)
<1>1. W(c) \in Nat \ {0} /\ N(c) \in Nat \ {0}
  BY ShapeSizes DEF Straight
<1>2. j \in 0 .. N(c) /\ s \in 0 .. W(c)
  BY <1>1
<1>3. PICK o \in RanksOf(c) : o = Source(c, r, j, s)
  BY <1>2, Sourced
<1>4. Outer(c, o) = Back(Outer(c, r), j, N(c)) /\ Inner(c, o) = Back(Inner(c, r), s, W(c))
  BY <1>2, <1>3, Sourced
<1>5. Outer(c, r) \in 0 .. N(c) - 1 /\ Inner(c, r) \in 0 .. W(c) - 1
  BY Located
<1>6. CASE j > 0
  <2>1. j <= Outer(c, r) => Outer(c, o) < Outer(c, r)
    BY <1>1, <1>4, <1>5, <1>6 DEF Back
  <2>2. ~(j <= Outer(c, r)) => Outer(c, r) < Outer(c, o)
    BY <1>1, <1>4, <1>5, <1>6 DEF Back
  <2> QED BY <2>1, <2>2, <1>3, <1>6, Ordered
<1>7. CASE j = 0
  <2>1. Outer(c, o) = Outer(c, r)
    BY <1>1, <1>4, <1>5, <1>7 DEF Back
  <2>2. s <= Inner(c, r) => Inner(c, o) < Inner(c, r)
    BY <1>1, <1>4, <1>5, <1>7 DEF Back
  <2>3. ~(s <= Inner(c, r)) => Inner(c, r) < Inner(c, o)
    BY <1>1, <1>4, <1>5, <1>7 DEF Back
  <2> QED BY <2>1, <2>2, <2>3, <1>3, <1>7, Ordered
<1> QED BY <1>6, <1>7

\* The causal blocks of one rank's queries with another's keys.
LEMMA PairBlocks ==
  ASSUME NEW c \in Shapes, NEW r \in RanksOf(c), NEW o \in RanksOf(c)
  PROVE  LET last == 2 * c.context - 1 IN
         /\ o = r => Pair(c, r, o)
              = {Block(r, r, TRUE), Block(last - r, r, FALSE), Block(last - r, last - r, TRUE)}
         /\ o < r => Pair(c, r, o) = {Block(r, o, FALSE), Block(last - r, o, FALSE)}
         /\ r < o => Pair(c, r, o) = {Block(last - r, o, FALSE), Block(last - r, last - o, FALSE)}
<1>1. PICK n \in Nat \ {0} : n = c.context
  BY ShapeSizes
<1> DEFINE l == 2 * n - 1
<1>2. r \in 0 .. n - 1 /\ o \in 0 .. n - 1
  BY <1>1 DEF RanksOf
<1>3. l - r \in n .. l /\ l - o \in n .. l /\ l \in Nat
  BY <1>2
<1>4. \A b \in Pair(c, r, o) : /\ b.q \in {r, l - r} /\ b.k \in {o, l - o} /\ b.k <= b.q
                               /\ b = Block(b.q, b.k, b.q = b.k)
  BY <1>1, <1>2, <1>3 DEF Pair, Causals, Home, Block
<1>5. \A x \in {r, l - r}, y \in {o, l - o} : y <= x => Block(x, y, x = y) \in Pair(c, r, o)
  BY <1>1, <1>2, <1>3 DEF Pair, Causals, Home, Block
<1> HIDE DEF l
<1>6. ASSUME NEW x \in {r, l - r}, NEW y \in {o, l - o}
      PROVE  x \in Int /\ y \in Int
  BY <1>2, <1>3
<1>7. ASSUME o = r
      PROVE  Pair(c, r, o) = {Block(r, r, TRUE), Block(l - r, r, FALSE), Block(l - r, l - r, TRUE)}
  <2>1. ~(l - r <= r) /\ r <= r /\ r <= l - r /\ r # l - r
    BY <1>2, <1>3
  <2>2. ASSUME NEW b \in Pair(c, r, o)
        PROVE  b \in {Block(r, r, TRUE), Block(l - r, r, FALSE), Block(l - r, l - r, TRUE)}
    <3>1. /\ b.q \in {r, l - r} /\ b.k \in {r, l - r} /\ b.k <= b.q
          /\ b = Block(b.q, b.k, b.q = b.k)
      BY <1>4, <1>7
    <3>2. CASE b.q = r
      <4>1. b.k = r
        BY <3>1, <3>2, <2>1
      <4>2. (b.q = b.k) = TRUE
        BY <3>2, <4>1
      <4> QED BY <3>1, <3>2, <4>1, <4>2
    <3>3. CASE b.q = l - r /\ b.k = r
      <4>1. (b.q = b.k) = FALSE
        BY <3>3, <2>1
      <4> QED BY <3>1, <3>3, <4>1
    <3>4. CASE b.q = l - r /\ b.k = l - r
      <4>1. (b.q = b.k) = TRUE
        BY <3>4
      <4> QED BY <3>1, <3>4, <4>1
    <3> QED BY <3>1, <3>2, <3>3, <3>4
  <2>3. {Block(r, r, TRUE), Block(l - r, r, FALSE), Block(l - r, l - r, TRUE)} \subseteq Pair(c, r,
          o)
    <3>1. Block(r, r, r = r) \in Pair(c, r, o)
      BY <1>5, <1>7, <2>1
    <3>2. Block(l - r, r, l - r = r) \in Pair(c, r, o)
      BY <1>5, <1>7, <2>1
    <3>3. Block(l - r, l - r, l - r = l - r) \in Pair(c, r, o)
      BY <1>5, <1>7, <1>3
    <3>4. (r = r) = TRUE /\ (l - r = r) = FALSE /\ (l - r = l - r) = TRUE
      BY <2>1
    <3> QED BY <3>1, <3>2, <3>3, <3>4
  <2> QED BY <2>2, <2>3
<1>8. ASSUME o < r
      PROVE  Pair(c, r, o) = {Block(r, o, FALSE), Block(l - r, o, FALSE)}
  <2>1. ~(l - o <= r) /\ ~(l - o <= l - r) /\ o <= r /\ o <= l - r /\ r # o /\ l - r # o
    BY <1>2, <1>3, <1>8
  <2>2. \A b \in Pair(c, r, o) : b \in {Block(r, o, FALSE), Block(l - r, o, FALSE)}
    BY <1>4, <2>1
  <2>3. {Block(r, o, FALSE), Block(l - r, o, FALSE)} \subseteq Pair(c, r, o)
    <3>1. Block(r, o, r = o) \in Pair(c, r, o)
      BY <1>5, <2>1
    <3>2. Block(l - r, o, l - r = o) \in Pair(c, r, o)
      BY <1>5, <2>1
    <3>3. (r = o) = FALSE /\ (l - r = o) = FALSE
      BY <2>1
    <3> QED BY <3>1, <3>2, <3>3
  <2> QED BY <2>2, <2>3
<1>9. ASSUME r < o
      PROVE  Pair(c, r, o) = {Block(l - r, o, FALSE), Block(l - r, l - o, FALSE)}
  <2>1. ~(o <= r) /\ ~(l - o <= r) /\ o <= l - r /\ l - o <= l - r /\ l - r # o /\ l - r # l - o
    BY <1>2, <1>3, <1>9
  <2>2. \A b \in Pair(c, r, o) : b \in {Block(l - r, o, FALSE), Block(l - r, l - o, FALSE)}
    BY <1>4, <2>1
  <2>3. {Block(l - r, o, FALSE), Block(l - r, l - o, FALSE)} \subseteq Pair(c, r, o)
    <3>1. Block(l - r, o, l - r = o) \in Pair(c, r, o)
      BY <1>5, <2>1
    <3>2. Block(l - r, l - o, l - r = l - o) \in Pair(c, r, o)
      BY <1>5, <2>1
    <3>3. (l - r = o) = FALSE /\ (l - r = l - o) = FALSE
      BY <2>1
    <3> QED BY <3>1, <3>2, <3>3
  <2> QED BY <2>2, <2>3
<1> QED BY <1>7, <1>8, <1>9, <1>1 DEF l

\* What a rank computes at a step is exactly what is causal of it.
LEMMA BlocksOfStep ==
  ASSUME Straight(shape), NEW r \in Ranks, NEW j \in 0 .. N(shape) - 1, NEW s \in 0 .. W(shape) - 1
  PROVE  Blocks(r, Source(shape, r, j, s), j, s) = Pair(shape, r, Source(shape, r, j, s))
<1>1. PICK n \in Nat \ {0} : n = shape.context
  BY ShapeSizes DEF Straight
<1>2. W(shape) \in Nat \ {0} /\ N(shape) \in Nat \ {0} /\ r \in RanksOf(shape) /\ shape \in Shapes
  BY ShapeSizes DEF Straight, RanksOf, Ranks
<1>3. j \in 0 .. N(shape) /\ s \in 0 .. W(shape)
  BY <1>2
<1>4. PICK o \in RanksOf(shape) : o = Source(shape, r, j, s)
  BY <1>2, <1>3, Sourced
<1> DEFINE l == 2 * n - 1
<1>5. /\ Chunk(r, 0) = r /\ Chunk(r, 1) = l - r /\ Chunk(o, 0) = o /\ Chunk(o, 1) = l - o
  BY <1>1 DEF Chunk
<1>6. r \in 0 .. n - 1 /\ o \in 0 .. n - 1
  BY <1>1, <1>2 DEF RanksOf
<1> HIDE DEF l
<1>7. Local("intra", r) = Inner(shape, r) /\ Local("inter", r) = Outer(shape, r)
  BY DEF Local, Inner, Outer
<1> SUFFICES Blocks(r, o, j, s) = Pair(shape, r, o)
  BY <1>4
<1>8. 2 * shape.context - 1 = l
  BY <1>1 DEF l
<1>9. ASSUME NEW x, NEW y, NEW mask, <<x, y>> \in Meets(r, j, s), mask = (j = 0 /\ s = 0 /\ x = y)
      PROVE  Block(Chunk(r, x), Chunk(o, y), mask) \in Blocks(r, o, j, s)
  <2>1. <<x, y>>[1] = x /\ <<x, y>>[2] = y
    OBVIOUS
  <2>2. [q |-> Chunk(r, <<x, y>>[1]), k |-> Chunk(o, <<x, y>>[2]),
         mask |-> j = 0 /\ s = 0 /\ <<x, y>>[1] = <<x, y>>[2]] \in Blocks(r, o, j, s)
    BY <1>9 DEF Blocks
  <2> QED BY <2>1, <2>2, <1>9 DEF Block
<1>10. ASSUME NEW b \in Blocks(r, o, j, s)
       PROVE  \E x \in Halves, y \in Halves :
                <<x, y>> \in Meets(r, j, s)
                  /\ b = Block(Chunk(r, x), Chunk(o, y), j = 0 /\ s = 0 /\ x = y)
  <2>1. PICK m \in Meets(r, j, s) :
          b = [q |-> Chunk(r, m[1]), k |-> Chunk(o, m[2]), mask |-> j = 0 /\ s = 0 /\ m[1] = m[2]]
    BY DEF Blocks
  <2>2. m \in Halves \X Halves
    BY DEF Meets, Halves
  <2>3. m = <<m[1], m[2]>> /\ m[1] \in Halves /\ m[2] \in Halves
    BY <2>2
  <2> QED BY <2>1, <2>3 DEF Block
<1>11. ASSUME j = 0, s = 0
       PROVE  Blocks(r, o, j, s) = Pair(shape, r, o)
  <2>1. o = r
    BY <1>2, <1>4, <1>11, SourceTurns
  <2>2. Meets(r, j, s) = {<<0, 0>>, <<1, 0>>, <<1, 1>>}
    BY <1>11 DEF Meets
  <2>3. ASSUME NEW b \in Blocks(r, o, j, s)
        PROVE  b \in {Block(r, r, TRUE), Block(l - r, r, FALSE), Block(l - r, l - r, TRUE)}
    <3>1. PICK x \in Halves, y \in Halves :
            <<x, y>> \in Meets(r, j, s)
              /\ b = Block(Chunk(r, x), Chunk(o, y), j = 0 /\ s = 0 /\ x = y)
      BY <1>10
    <3>2. (x = 0 /\ y = 0) \/ (x = 1 /\ y = 0) \/ (x = 1 /\ y = 1)
      BY <3>1, <2>2
    <3>3. CASE x = 0 /\ y = 0
      <4>1. (j = 0 /\ s = 0 /\ x = y) = TRUE
        BY <3>3, <1>11
      <4> QED BY <3>1, <3>3, <4>1, <1>5, <2>1
    <3>4. CASE x = 1 /\ y = 0
      <4>1. (j = 0 /\ s = 0 /\ x = y) = FALSE
        BY <3>4, <1>11
      <4> QED BY <3>1, <3>4, <4>1, <1>5, <2>1
    <3>5. CASE x = 1 /\ y = 1
      <4>1. (j = 0 /\ s = 0 /\ x = y) = TRUE
        BY <3>5, <1>11
      <4> QED BY <3>1, <3>5, <4>1, <1>5, <2>1
    <3> QED BY <3>2, <3>3, <3>4, <3>5
  <2>4. Block(Chunk(r, 0), Chunk(o, 0), TRUE) \in Blocks(r, o, j, s)
    <3>1. TRUE = (j = 0 /\ s = 0 /\ 0 = 0)
      BY <1>11
    <3> QED BY <1>9, <3>1, <2>2
  <2>5. Block(Chunk(r, 1), Chunk(o, 0), FALSE) \in Blocks(r, o, j, s)
    <3>1. FALSE = (j = 0 /\ s = 0 /\ 1 = 0)
      OBVIOUS
    <3> QED BY <1>9, <3>1, <2>2
  <2>6. Block(Chunk(r, 1), Chunk(o, 1), TRUE) \in Blocks(r, o, j, s)
    <3>1. TRUE = (j = 0 /\ s = 0 /\ 1 = 1)
      BY <1>11
    <3> QED BY <1>9, <3>1, <2>2
  <2>7. Blocks(r, o, j, s) = {Block(r, r, TRUE), Block(l - r, r, FALSE), Block(l - r, l - r, TRUE)}
    BY <2>1, <2>3, <2>4, <2>5, <2>6, <1>5
  <2>8. Pair(shape, r, o) = {Block(r, r, TRUE), Block(l - r, r, FALSE), Block(l - r, l - r, TRUE)}
    BY <2>1, <1>2, <1>8, PairBlocks
  <2> QED BY <2>7, <2>8
<1>12. ASSUME j > 0 \/ s > 0
       PROVE  Blocks(r, o, j, s) = Pair(shape, r, o)
  <2>1. ~(j = 0 /\ s = 0)
    BY <1>12
  <2>2. IF (j = 0 /\ s <= Inner(shape, r)) \/ (j > 0 /\ j <= Outer(shape, r)) THEN o < r ELSE r < o
    BY <1>2, <1>4, <1>12, EarlierKeys
  <2>3. ASSUME NEW b \in Blocks(r, o, j, s)
        PROVE  \E x \in Halves, y \in Halves :
                 <<x, y>> \in Meets(r, j, s) /\ b = Block(Chunk(r, x), Chunk(o, y), FALSE)
    <3>1. PICK x \in Halves, y \in Halves :
            <<x, y>> \in Meets(r, j, s)
              /\ b = Block(Chunk(r, x), Chunk(o, y), j = 0 /\ s = 0 /\ x = y)
      BY <1>10
    <3>2. (j = 0 /\ s = 0 /\ x = y) = FALSE
      BY <2>1
    <3> QED BY <3>1, <3>2
  <2>4. CASE (j = 0 /\ s <= Inner(shape, r)) \/ (j > 0 /\ j <= Outer(shape, r))
    <3>1. Meets(r, j, s) = Halves \X {0}
      BY <1>7, <2>1, <2>4 DEF Meets
    <3>2. Block(Chunk(r, 0), Chunk(o, 0), FALSE) \in Blocks(r, o, j, s)
      BY <1>9, <2>1, <3>1 DEF Halves
    <3>3. Block(Chunk(r, 1), Chunk(o, 0), FALSE) \in Blocks(r, o, j, s)
      BY <1>9, <2>1, <3>1 DEF Halves
    <3>4. \A b \in Blocks(r, o, j, s) : b \in {Block(r, o, FALSE), Block(l - r, o, FALSE)}
      BY <2>3, <3>1, <1>5 DEF Halves
    <3>5. Blocks(r, o, j, s) = {Block(r, o, FALSE), Block(l - r, o, FALSE)}
      BY <3>2, <3>3, <3>4, <1>5
    <3>6. Pair(shape, r, o) = {Block(r, o, FALSE), Block(l - r, o, FALSE)}
      BY <2>2, <2>4, <1>2, <1>8, PairBlocks
    <3> QED BY <3>5, <3>6
  <2>5. CASE ~((j = 0 /\ s <= Inner(shape, r)) \/ (j > 0 /\ j <= Outer(shape, r)))
    <3>1. Meets(r, j, s) = {1} \X Halves
      BY <1>7, <2>1, <2>5 DEF Meets
    <3>2. Block(Chunk(r, 1), Chunk(o, 0), FALSE) \in Blocks(r, o, j, s)
      BY <1>9, <2>1, <3>1 DEF Halves
    <3>3. Block(Chunk(r, 1), Chunk(o, 1), FALSE) \in Blocks(r, o, j, s)
      BY <1>9, <2>1, <3>1 DEF Halves
    <3>4. \A b \in Blocks(r, o, j, s) : b \in {Block(l - r, o, FALSE), Block(l - r, l - o, FALSE)}
      BY <2>3, <3>1, <1>5 DEF Halves
    <3>5. Blocks(r, o, j, s) = {Block(l - r, o, FALSE), Block(l - r, l - o, FALSE)}
      BY <3>2, <3>3, <3>4, <1>5
    <3>6. Pair(shape, r, o) = {Block(l - r, o, FALSE), Block(l - r, l - o, FALSE)}
      BY <2>2, <2>5, <1>2, <1>8, PairBlocks
    <3> QED BY <3>5, <3>6
  <2> QED BY <2>4, <2>5
<1> QED BY <1>2, <1>11, <1>12

\* Every chunk is somebody's.
LEMMA Homes ==
  ASSUME NEW c \in Shapes, NEW b \in Causals(c)
  PROVE  Home(c, b.q) \in RanksOf(c) /\ Home(c, b.k) \in RanksOf(c)
<1>1. PICK n \in Nat \ {0} : n = c.context
  BY ShapeSizes
<1>2. b.q \in 0 .. 2 * n - 1 /\ b.k \in 0 .. 2 * n - 1
  BY <1>1 DEF Causals
<1> QED BY <1>1, <1>2 DEF Home, RanksOf

\* A step adds the blocks of its pair to what a rank has computed, and to
\* what its keys were given.
LEMMA SeenGrows ==
  ASSUME NEW c, Straight(c), NEW r \in RanksOf(c), NEW j \in 0 .. N(c) - 1, NEW s \in 0 .. W(c) - 1
  PROVE  LET pair == Pair(c, r, Source(c, r, j, s)) IN
         /\ Seen(c, r, j, s + 1) = Seen(c, r, j, s) \union pair
         /\ Seen(c, r, j, s) \intersect pair = {}
<1>1. \A b \in Causals(c) : Home(c, b.k) \in RanksOf(c)
  BY Homes DEF Straight
<1> QED BY <1>1, MetGrows DEF Seen, Pair

\* The same for the keys and the queries they have met.
LEMMA GivenGrows ==
  ASSUME NEW c, Straight(c), NEW r \in RanksOf(c), NEW j \in 0 .. N(c) - 1, NEW s \in 0 .. W(c) - 1
  PROVE  LET o == Source(c, r, j, s) IN
         /\ Given(c, o, j, s + 1) = Given(c, o, j, s) \union Pair(c, r, o)
         /\ Given(c, o, j, s) \intersect Pair(c, r, o) = {}
<1>1. \A b \in Causals(c) : Home(c, b.q) \in RanksOf(c)
  BY Homes DEF Straight
<1>2. W(c) \in Nat \ {0} /\ N(c) \in Nat \ {0}
  BY ShapeSizes DEF Straight
<1>3. j \in 0 .. N(c) /\ s \in 0 .. W(c)
  BY <1>2
<1>4. PICK o \in RanksOf(c) : o = Source(c, r, j, s)
  BY <1>3, Sourced
<1>5. ASSUME NEW q \in RanksOf(c)
      PROVE  /\ Met(c, q, o, j, s + 1) <=> (Met(c, q, o, j, s) \/ q = r)
             /\ q = r => ~Met(c, q, o, j, s)
  <2>1. /\ Met(c, q, o, j, s + 1) <=> (Met(c, q, o, j, s) \/ o = Source(c, q, j, s))
        /\ o = Source(c, q, j, s) => ~Met(c, q, o, j, s)
    BY MetGrows
  <2>2. o = Source(c, q, j, s) <=> q = r
    BY <1>3, <1>4, SourceInjective
  <2> QED BY <2>1, <2>2
<1> QED BY <1>1, <1>4, <1>5 DEF Given, Pair

\* Nothing before the first step, everything after the last; a window ends
\* where the next begins.
LEMMA SeenBounds ==
  ASSUME NEW c, Straight(c), NEW r \in RanksOf(c)
  PROVE  /\ Seen(c, r, 0, 0) = {} /\ Seen(c, r, N(c), 0) = {b \in Causals(c) : Home(c, b.q) = r}
         /\ \A j \in 0 .. N(c) : Seen(c, r, j, W(c)) = Seen(c, r, j + 1, 0)
<1>1. \A b \in Causals(c) : Home(c, b.k) \in RanksOf(c)
  BY Homes DEF Straight
<1> QED BY <1>1, MetBounds DEF Seen

\* The same for the keys and the queries they have met.
LEMMA GivenBounds ==
  ASSUME NEW c, Straight(c), NEW o \in RanksOf(c)
  PROVE  /\ Given(c, o, 0, 0) = {} /\ Given(c, o, N(c), 0) = {b \in Causals(c) : Home(c, b.k) = o}
         /\ \A j \in 0 .. N(c) : Given(c, o, j, W(c)) = Given(c, o, j + 1, 0)
<1>1. \A b \in Causals(c) : Home(c, b.q) \in RanksOf(c)
  BY Homes DEF Straight
<1> QED BY <1>1, MetBounds DEF Given

-----------------------------------------------------------------------------
(* Places a rank can be at.                                                 *)
Points == {"window", "onward", "keys", "grads", "compute", "arrival", "pass", "last", "home", "end",
  "done"}
Placed(c, back, p) ==
  /\ p \in [j : 0 .. N(c), s : 0 .. W(c) - 1, at : Points]
  /\ p.at \in {"window", "onward", "last", "home", "end", "done"} => p.s = 0
  /\ p.at = "window" => p.j > 0
  /\ p.at = "onward" => p.j + 1 < N(c)
  /\ p.at \in {"keys", "arrival"} => p.s + 1 < W(c)
  /\ p.at \in {"grads", "pass", "last", "home", "end"} => back
  /\ p.at = "grads" => p.j > 0 \/ p.s > 0
  /\ p.j = N(c) <=> p.at \in {"end", "done"}

(* Whether the request of a ring is open where a rank stands, which of the  *)
(* ring's requests it is, and which is the next one.                        *)
Open(c, back, ring, p) ==
  \/ ring = "inter" /\ p.at = "window"
  \/ ring = "inter" /\ p.j + 1 < N(c)
       /\ p.at \in {"keys", "grads", "compute", "arrival", "pass", "last", "home"}
  \/ ring = "intra" /\ p.s + 1 < W(c) /\ p.at \in {"grads", "compute", "arrival"}
  \/ ring = "dkv intra" /\ back /\ (p.at = "last" \/ (p.at \in {"keys", "grads"} /\ p.s > 0))
  \/ ring = "dkv inter" /\ back /\ p.j > 0
       /\ (p.at \in {"window", "onward", "end"} \/ (p.at \in {"keys", "grads"} /\ p.s = 0))

Index(c, ring, p) ==
  IF ring = "inter" THEN <<IF p.at = "window" THEN p.j - 1 ELSE p.j, 0>>
  ELSE IF ring = "intra" THEN <<p.j, p.s>>
  ELSE IF ring = "dkv intra" THEN IF p.at = "last" THEN <<p.j, W(c) - 1>> ELSE <<p.j, p.s - 1>>
  ELSE <<p.j - 1, 0>>

Canon(c, j, s) == IF s + 1 < W(c) THEN <<j, s>> ELSE <<j + 1, 0>>

Upcoming(c, ring, p) ==
  IF ring = "inter" THEN
    <<IF p.at \in {"window", "onward"} THEN p.j ELSE IF p.j + 1 < N(c) THEN p.j + 1
      ELSE N(c) - 1, 0>>
  ELSE IF ring = "intra" THEN
    IF p.at \in {"window", "onward", "keys", "end", "done"} THEN <<p.j, p.s>>
    ELSE IF p.at \in {"last", "home"} THEN <<p.j + 1, 0>> ELSE Canon(c, p.j, p.s + 1)
  ELSE IF ring = "dkv intra" THEN
    IF p.at \in {"last", "home"} THEN <<p.j + 1, 0>> ELSE <<p.j, p.s>>
  ELSE <<p.j, 0>>

Successor(c, ring, i) ==
  IF ring = "intra" THEN Canon(c, i[1], i[2] + 1)
  ELSE IF ring = "dkv intra" THEN IF i[2] + 1 < W(c) THEN <<i[1], i[2] + 1>> ELSE <<i[1] + 1, 0>>
  ELSE <<i[1] + 1, 0>>

Uses(c, back, ring) ==
  IF ring = "inter" THEN TRUE ELSE IF ring = "intra" THEN W(c) > 1 ELSE back

(* What a move from p to t does to a ring: nothing, a commit or a wait.     *)
Same(c, back, ring, p, t) ==
  /\ Open(c, back, ring, p) <=> Open(c, back, ring, t)
  /\ Open(c, back, ring, p) => Index(c, ring, p) = Index(c, ring, t)
  /\ Uses(c, back, ring) => Upcoming(c, ring, p) = Upcoming(c, ring, t)
Opened(c, back, ring, p, t) ==
  ~Open(c, back, ring, p) /\ Open(c, back, ring, t) /\ Index(c, ring, t) = Upcoming(c, ring, p)
Closed(c, back, ring, p, t) ==
  Open(c, back, ring, p) /\ ~Open(c, back, ring, t) /\ Upcoming(c, ring, t) = Upcoming(c, ring, p)

\* A request that is open is followed by the one that is next.
LEMMA OpenThenNext ==
  ASSUME NEW c \in Shapes, NEW back \in BOOLEAN, NEW p, Placed(c, back, p), NEW ring \in Rings,
         Open(c, back, ring, p)
  PROVE  Upcoming(c, ring, p) = Successor(c, ring, Index(c, ring, p)) /\ Uses(c, back, ring)
<1>1. W(c) \in Nat \ {0} /\ N(c) \in Nat \ {0}
  BY ShapeSizes
<1>2. PICK j \in 0 .. N(c), s \in 0 .. W(c) - 1, at \in Points : p = [j |-> j, s |-> s, at |-> at]
  BY DEF Placed
<1>3. p.j = j /\ p.s = s /\ p.at = at
  BY <1>2
<1>4. CASE ring = "inter"
  BY <1>1, <1>3, <1>4 DEF Placed, Open, Upcoming, Successor, Index, Uses, Points
<1>5. CASE ring = "intra"
  <2>1. Index(c, ring, p) = <<j, s>> /\ at \in {"grads", "compute", "arrival"}
          /\ Upcoming(c, ring, p) = Canon(c, j, s + 1)
    BY <1>1, <1>3, <1>5 DEF Open, Upcoming, Index
  <2>2. Successor(c, ring, <<j, s>>) = Canon(c, j, s + 1)
    BY <1>5 DEF Successor
  <2>3. W(c) > 1
    BY <1>1, <1>3, <1>5 DEF Open
  <2> QED BY <2>1, <2>2, <2>3, <1>5 DEF Uses
<1>6. CASE ring = "dkv intra"
  <2>1. back /\ (at = "last" \/ (at \in {"keys", "grads"} /\ s > 0))
    BY <1>1, <1>3, <1>6 DEF Open
  <2>2. CASE at = "last"
    <3>1. Index(c, ring, p) = <<j, W(c) - 1>> /\ Upcoming(c, ring, p) = <<j + 1, 0>>
      BY <2>2, <1>3, <1>6 DEF Upcoming, Index
    <3>2. Successor(c, ring, <<j, W(c) - 1>>) = <<j + 1, 0>>
      <4>1. <<j, W(c) - 1>>[1] = j /\ <<j, W(c) - 1>>[2] = W(c) - 1
        OBVIOUS
      <4>2. ~(W(c) - 1 + 1 < W(c))
        BY <1>1
      <4> QED BY <4>1, <4>2, <1>6 DEF Successor
    <3> QED BY <2>1, <3>1, <3>2, <1>6 DEF Uses
  <2>3. CASE at # "last"
    <3>1. Index(c, ring, p) = <<j, s - 1>> /\ Upcoming(c, ring, p) = <<j, s>>
      BY <2>1, <2>3, <1>3, <1>6 DEF Upcoming, Index
    <3>2. Successor(c, ring, <<j, s - 1>>) = <<j, s>>
      <4>1. <<j, s - 1>>[1] = j /\ <<j, s - 1>>[2] = s - 1
        OBVIOUS
      <4>2. s - 1 + 1 < W(c) /\ s - 1 + 1 = s
        BY <1>1
      <4> QED BY <4>1, <4>2, <1>6 DEF Successor
    <3> QED BY <2>1, <3>1, <3>2, <1>6 DEF Uses
  <2> QED BY <2>2, <2>3
<1>7. CASE ring = "dkv inter"
  <2>1. Index(c, ring, p) = <<j - 1, 0>> /\ Upcoming(c, ring, p) = <<j, 0>> /\ back
    BY <1>3, <1>7 DEF Open, Upcoming, Index
  <2>2. Successor(c, ring, <<j - 1, 0>>) = <<j, 0>>
    <3>1. <<j - 1, 0>>[1] = j - 1 /\ j - 1 + 1 = j
      BY <1>1
    <3> QED BY <3>1, <1>7 DEF Successor
  <2> QED BY <2>1, <2>2, <1>7 DEF Uses
<1> QED BY <1>4, <1>5, <1>6, <1>7 DEF Rings

\* The moves of a rank: where each call leads, and what it does to each ring.

\* Where a rank goes that waits for the first keys of a window, and which
\* ring that opens or closes.
LEMMA WaitWindowMoves ==
  ASSUME shape \in Shapes, NEW p, Placed(shape, Backward, p), p.at = "window"
  PROVE  LET t == AtWindow(p.j) IN
         /\ Placed(shape, Backward, t)
         /\ Closed(shape, Backward, "inter", p, t)
         /\ \A ring \in Rings \ {"inter"} : Same(shape, Backward, ring, p, t)
         /\ t = Place(p.j, 0, t.at) /\ t.at \in {"onward", "keys", "grads", "compute"}
         /\ t.at = "onward" <=> p.j + 1 < N(shape)
         /\ t.at \in {"keys", "grads", "compute"} =>
             t.at = IF 1 < W(shape) THEN "keys" ELSE IF Backward THEN "grads" ELSE "compute"
         /\ t.j = p.j /\ t.s = 0
<1>1. W(shape) \in Nat \ {0} /\ N(shape) \in Nat \ {0} /\ Backward \in BOOLEAN
  BY ShapeSizes DEF Backward
<1>2. Window = W(shape) /\ Windows = N(shape)
  BY DEF Window, Windows, W, N
<1> DEFINE t == AtWindow(p.j)
<1>3. p.j \in 0 .. N(shape) - 1 /\ p.s = 0 /\ p.j > 0
  BY <1>1 DEF Placed
<1>4. /\ t = Place(p.j, 0, t.at) /\ t.at \in {"onward", "keys", "grads", "compute"}
      /\ t.at = "onward" <=> p.j + 1 < N(shape)
      /\ t.at \in {"keys", "grads", "compute"} =>
           t.at = IF 1 < W(shape) THEN "keys" ELSE IF Backward THEN "grads" ELSE "compute"
  BY <1>1, <1>2, <1>3 DEF AtWindow, AtStep, AtCompute, Place
<1> HIDE DEF t
<1>5. t.j = p.j /\ t.s = 0
  BY <1>1, <1>3, <1>4 DEF Place
<1>6. Placed(shape, Backward, t)
  BY <1>1, <1>3, <1>4, <1>5 DEF Placed, Place, Points
<1>7. Closed(shape, Backward, "inter", p, t)
  BY <1>1, <1>3, <1>4, <1>5 DEF Closed, Open, Upcoming
<1>8. Same(shape, Backward, "intra", p, t)
  BY <1>1, <1>3, <1>4, <1>5 DEF Same, Open, Upcoming, Index, Uses, Canon
<1>9. Same(shape, Backward, "dkv inter", p, t)
  BY <1>1, <1>3, <1>4, <1>5 DEF Same, Open, Upcoming, Index, Uses
<1>10. Same(shape, Backward, "dkv intra", p, t)
  BY <1>1, <1>3, <1>4, <1>5 DEF Same, Open, Upcoming, Index, Uses
<1> QED BY <1>6, <1>7, <1>8, <1>9, <1>10, <1>4, <1>5 DEF t, Rings

\* Where a rank goes that sends the first keys of a window on, and which ring
\* that opens or closes.
LEMMA SendWindowMoves ==
  ASSUME shape \in Shapes, NEW p, Placed(shape, Backward, p), p.at = "onward"
  PROVE  LET t == AtStep(p.j, 0) IN
         /\ Placed(shape, Backward, t)
         /\ Opened(shape, Backward, "inter", p, t)
         /\ \A ring \in Rings \ {"inter"} : Same(shape, Backward, ring, p, t)
         /\ t = Place(p.j, 0, t.at) /\ t.at \in {"keys", "grads", "compute"}
         /\ t.at = IF 1 < W(shape) THEN "keys" ELSE IF Backward /\ p.j > 0 THEN "grads"
              ELSE "compute"
         /\ t.j = p.j /\ t.s = 0
<1>1. W(shape) \in Nat \ {0} /\ N(shape) \in Nat \ {0} /\ Backward \in BOOLEAN
  BY ShapeSizes DEF Backward
<1>2. Window = W(shape) /\ Windows = N(shape)
  BY DEF Window, Windows, W, N
<1> DEFINE t == AtStep(p.j, 0)
<1>3. p.j \in 0 .. N(shape) - 1 /\ p.s = 0 /\ p.j + 1 < N(shape)
  BY <1>1 DEF Placed
<1>4. /\ t = Place(p.j, 0, t.at) /\ t.at \in {"keys", "grads", "compute"}
      /\ t.at = IF 1 < W(shape) THEN "keys" ELSE IF Backward /\ p.j > 0 THEN "grads" ELSE "compute"
  BY <1>1, <1>2, <1>3 DEF AtStep, AtCompute, Place
<1> HIDE DEF t
<1>5. t.j = p.j /\ t.s = 0
  BY <1>1, <1>3, <1>4 DEF Place
<1>6. Placed(shape, Backward, t)
  BY <1>1, <1>3, <1>4, <1>5 DEF Placed, Place, Points
<1>7. Opened(shape, Backward, "inter", p, t)
  BY <1>1, <1>3, <1>4, <1>5 DEF Opened, Open, Upcoming, Index
<1>8. Same(shape, Backward, "intra", p, t)
  BY <1>1, <1>3, <1>4, <1>5 DEF Same, Open, Upcoming, Index, Uses, Canon
<1>9. Same(shape, Backward, "dkv inter", p, t)
  BY <1>1, <1>3, <1>4, <1>5 DEF Same, Open, Upcoming, Index, Uses
<1>10. Same(shape, Backward, "dkv intra", p, t)
  BY <1>1, <1>3, <1>4, <1>5 DEF Same, Open, Upcoming, Index, Uses
<1> QED BY <1>6, <1>7, <1>8, <1>9, <1>10, <1>4, <1>5 DEF t, Rings

\* Where a rank goes that sends a step's keys on, and which ring that opens
\* or closes.
LEMMA SendKeysMoves ==
  ASSUME shape \in Shapes, NEW p, Placed(shape, Backward, p), p.at = "keys"
  PROVE  LET t == AtCompute(p.j, p.s) IN
         /\ Placed(shape, Backward, t)
         /\ Opened(shape, Backward, "intra", p, t)
         /\ \A ring \in Rings \ {"intra"} : Same(shape, Backward, ring, p, t)
         /\ t = Place(p.j, p.s, t.at) /\ t.at \in {"grads", "compute"}
         /\ t.at = "grads" <=> (Backward /\ (p.j > 0 \/ p.s > 0))
         /\ t.j = p.j /\ t.s = p.s
<1>1. W(shape) \in Nat \ {0} /\ N(shape) \in Nat \ {0} /\ Backward \in BOOLEAN
  BY ShapeSizes DEF Backward
<1>2. Window = W(shape) /\ Windows = N(shape)
  BY DEF Window, Windows, W, N
<1> DEFINE t == AtCompute(p.j, p.s)
<1>3. p.j \in 0 .. N(shape) - 1 /\ p.s \in 0 .. W(shape) - 1 /\ p.s + 1 < W(shape)
  BY <1>1 DEF Placed
<1>4. /\ t = Place(p.j, p.s, t.at) /\ t.at \in {"grads", "compute"}
      /\ t.at = "grads" <=> (Backward /\ (p.j > 0 \/ p.s > 0))
  BY <1>1, <1>2, <1>3 DEF AtCompute, Place
<1> HIDE DEF t
<1>5. t.j = p.j /\ t.s = p.s
  BY <1>1, <1>3, <1>4 DEF Place
<1>6. Placed(shape, Backward, t)
  BY <1>1, <1>3, <1>4, <1>5 DEF Placed, Place, Points
<1>7. Opened(shape, Backward, "intra", p, t)
  BY <1>1, <1>3, <1>4, <1>5 DEF Opened, Open, Upcoming, Index, Canon
<1>8. Same(shape, Backward, "inter", p, t)
  BY <1>1, <1>3, <1>4, <1>5 DEF Same, Open, Upcoming, Index, Uses
<1>9. Same(shape, Backward, "dkv inter", p, t)
  BY <1>1, <1>3, <1>4, <1>5 DEF Same, Open, Upcoming, Index, Uses
<1>10. Same(shape, Backward, "dkv intra", p, t)
  BY <1>1, <1>3, <1>4, <1>5 DEF Same, Open, Upcoming, Index, Uses
<1> QED BY <1>6, <1>7, <1>8, <1>9, <1>10, <1>4, <1>5 DEF t, Rings

\* Where a rank goes that waits for the next step's keys, and which ring that
\* opens or closes.
LEMMA WaitKeysMoves ==
  ASSUME shape \in Shapes, NEW p, Placed(shape, Backward, p), p.at = "arrival"
  PROVE  LET t == AfterKeys(p.j, p.s) IN
         /\ Placed(shape, Backward, t)
         /\ Closed(shape, Backward, "intra", p, t)
         /\ \A ring \in Rings \ {"intra"} : Same(shape, Backward, ring, p, t)
         /\ t = Place(p.j, t.s, t.at)
         /\ Backward => t.s = p.s /\ t.at = "pass"
         /\ ~Backward => t.s = p.s + 1 /\ t.at = IF p.s + 2 < W(shape) THEN "keys" ELSE "compute"
         /\ t.j = p.j
<1>1. W(shape) \in Nat \ {0} /\ N(shape) \in Nat \ {0} /\ Backward \in BOOLEAN
  BY ShapeSizes DEF Backward
<1>2. Window = W(shape) /\ Windows = N(shape)
  BY DEF Window, Windows, W, N
<1> DEFINE t == AfterKeys(p.j, p.s)
<1>3. p.j \in 0 .. N(shape) - 1 /\ p.s \in 0 .. W(shape) - 1 /\ p.s + 1 < W(shape)
  BY <1>1 DEF Placed
<1>4. /\ t = Place(p.j, t.s, t.at)
      /\ Backward => t.s = p.s /\ t.at = "pass"
      /\ ~Backward => t.s = p.s + 1 /\ t.at = IF p.s + 2 < W(shape) THEN "keys" ELSE "compute"
  BY <1>1, <1>2, <1>3 DEF AfterKeys, AfterStep, AtStep, AtCompute, Place
<1> HIDE DEF t
<1>5. t.j = p.j
  BY <1>1, <1>3, <1>4 DEF Place
<1>6. Placed(shape, Backward, t)
  BY <1>1, <1>3, <1>4, <1>5 DEF Placed, Place, Points
<1>7. Closed(shape, Backward, "intra", p, t)
  BY <1>1, <1>3, <1>4, <1>5 DEF Closed, Open, Upcoming, Canon
<1>8. Same(shape, Backward, "inter", p, t)
  BY <1>1, <1>3, <1>4, <1>5 DEF Same, Open, Upcoming, Index, Uses
<1>9. Same(shape, Backward, "dkv inter", p, t)
  BY <1>1, <1>3, <1>4, <1>5 DEF Same, Open, Upcoming, Index, Uses
<1>10. Same(shape, Backward, "dkv intra", p, t)
  BY <1>1, <1>3, <1>4, <1>5 DEF Same, Open, Upcoming, Index, Uses
<1> QED BY <1>6, <1>7, <1>8, <1>9, <1>10, <1>4, <1>5 DEF t, Rings

\* Where a rank goes that sends a step's gradients on, and which ring that
\* opens or closes.
LEMMA SendGradsMoves ==
  ASSUME shape \in Shapes, NEW p, Placed(shape, Backward, p), p.at = "pass"
  PROVE  LET t == AfterStep(p.j, p.s) IN
         /\ Placed(shape, Backward, t)
         /\ Opened(shape, Backward, "dkv intra", p, t)
         /\ \A ring \in Rings \ {"dkv intra"} : Same(shape, Backward, ring, p, t)
         /\ t = Place(p.j, t.s, t.at)
         /\ p.s + 1 < W(shape)
              => t.s = p.s + 1 /\ t.at = IF p.s + 2 < W(shape) THEN "keys" ELSE "grads"
         /\ ~(p.s + 1 < W(shape)) => t.s = 0 /\ t.at = "last"
         /\ t.j = p.j
<1>1. W(shape) \in Nat \ {0} /\ N(shape) \in Nat \ {0} /\ Backward \in BOOLEAN
  BY ShapeSizes DEF Backward
<1>2. Window = W(shape) /\ Windows = N(shape)
  BY DEF Window, Windows, W, N
<1> DEFINE t == AfterStep(p.j, p.s)
<1>3. p.j \in 0 .. N(shape) - 1 /\ p.s \in 0 .. W(shape) - 1 /\ Backward
  BY <1>1 DEF Placed
<1>4. /\ t = Place(p.j, t.s, t.at)
      /\ p.s + 1 < W(shape)
           => t.s = p.s + 1 /\ t.at = IF p.s + 2 < W(shape) THEN "keys" ELSE "grads"
      /\ ~(p.s + 1 < W(shape)) => t.s = 0 /\ t.at = "last"
  BY <1>1, <1>2, <1>3 DEF AfterStep, AtStep, AtCompute, Place
<1> HIDE DEF t
<1>5. t.j = p.j
  BY <1>1, <1>3, <1>4 DEF Place
<1>6. Placed(shape, Backward, t)
  BY <1>1, <1>3, <1>4, <1>5 DEF Placed, Place, Points
<1>7. Opened(shape, Backward, "dkv intra", p, t)
  BY <1>1, <1>3, <1>4, <1>5 DEF Opened, Open, Upcoming, Index
<1>8. Same(shape, Backward, "inter", p, t)
  BY <1>1, <1>3, <1>4, <1>5 DEF Same, Open, Upcoming, Index, Uses
<1>9. Same(shape, Backward, "intra", p, t)
  BY <1>1, <1>3, <1>4, <1>5 DEF Same, Open, Upcoming, Index, Uses, Canon
<1>10. Same(shape, Backward, "dkv inter", p, t)
  BY <1>1, <1>3, <1>4, <1>5 DEF Same, Open, Upcoming, Index, Uses
<1> QED BY <1>6, <1>7, <1>8, <1>9, <1>10, <1>4, <1>5 DEF t, Rings

\* Where a rank goes that waits for the gradients of a window's last step,
\* and which ring that opens or closes.
LEMMA WaitLastMoves ==
  ASSUME shape \in Shapes, NEW p, Placed(shape, Backward, p), p.at = "last"
  PROVE  LET t == Place(p.j, 0, "home") IN
         /\ Placed(shape, Backward, t)
         /\ Closed(shape, Backward, "dkv intra", p, t)
         /\ \A ring \in Rings \ {"dkv intra"} : Same(shape, Backward, ring, p, t)
         /\ t = Place(p.j, 0, "home")
         /\ t.at = "home"
         /\ t.j = p.j /\ t.s = 0
<1>1. W(shape) \in Nat \ {0} /\ N(shape) \in Nat \ {0} /\ Backward \in BOOLEAN
  BY ShapeSizes DEF Backward
<1>2. Window = W(shape) /\ Windows = N(shape)
  BY DEF Window, Windows, W, N
<1> DEFINE t == Place(p.j, 0, "home")
<1>3. p.j \in 0 .. N(shape) - 1 /\ p.s = 0 /\ Backward
  BY <1>1 DEF Placed
<1>4. /\ t = Place(p.j, 0, "home")
      /\ t.at = "home"
  BY <1>1, <1>2, <1>3 DEF Place
<1> HIDE DEF t
<1>5. t.j = p.j /\ t.s = 0
  BY <1>1, <1>3, <1>4 DEF Place
<1>6. Placed(shape, Backward, t)
  BY <1>1, <1>3, <1>4, <1>5 DEF Placed, Place, Points
<1>7. Closed(shape, Backward, "dkv intra", p, t)
  BY <1>1, <1>3, <1>4, <1>5 DEF Closed, Open, Upcoming
<1>8. Same(shape, Backward, "inter", p, t)
  BY <1>1, <1>3, <1>4, <1>5 DEF Same, Open, Upcoming, Index, Uses
<1>9. Same(shape, Backward, "intra", p, t)
  BY <1>1, <1>3, <1>4, <1>5 DEF Same, Open, Upcoming, Index, Uses, Canon
<1>10. Same(shape, Backward, "dkv inter", p, t)
  BY <1>1, <1>3, <1>4, <1>5 DEF Same, Open, Upcoming, Index, Uses
<1> QED BY <1>6, <1>7, <1>8, <1>9, <1>10, <1>4, <1>5 DEF t, Rings

\* Where a rank goes that sends a window's gradients on, and which ring that
\* opens or closes.
LEMMA SendHomeMoves ==
  ASSUME shape \in Shapes, NEW p, Placed(shape, Backward, p), p.at = "home"
  PROVE  LET t == AfterWindow(p.j) IN
         /\ Placed(shape, Backward, t)
         /\ Opened(shape, Backward, "dkv inter", p, t)
         /\ \A ring \in Rings \ {"dkv inter"} : Same(shape, Backward, ring, p, t)
         /\ t = Place(p.j + 1, 0, t.at)
         /\ t.at = IF p.j + 1 < N(shape) THEN "window" ELSE "end"
         /\ t.j = p.j + 1 /\ t.s = 0
<1>1. W(shape) \in Nat \ {0} /\ N(shape) \in Nat \ {0} /\ Backward \in BOOLEAN
  BY ShapeSizes DEF Backward
<1>2. Window = W(shape) /\ Windows = N(shape)
  BY DEF Window, Windows, W, N
<1> DEFINE t == AfterWindow(p.j)
<1>3. p.j \in 0 .. N(shape) - 1 /\ p.s = 0 /\ Backward
  BY <1>1 DEF Placed
<1>4. /\ t = Place(p.j + 1, 0, t.at)
      /\ t.at = IF p.j + 1 < N(shape) THEN "window" ELSE "end"
  BY <1>1, <1>2, <1>3 DEF AfterWindow, Place
<1> HIDE DEF t
<1>5. t.j = p.j + 1 /\ t.s = 0
  BY <1>1, <1>3, <1>4 DEF Place
<1>6. Placed(shape, Backward, t)
  BY <1>1, <1>3, <1>4, <1>5 DEF Placed, Place, Points
<1>7. Opened(shape, Backward, "dkv inter", p, t)
  BY <1>1, <1>3, <1>4, <1>5 DEF Opened, Open, Upcoming, Index
<1>8. Same(shape, Backward, "inter", p, t)
  BY <1>1, <1>3, <1>4, <1>5 DEF Same, Open, Upcoming, Index, Uses
<1>9. Same(shape, Backward, "intra", p, t)
  BY <1>1, <1>3, <1>4, <1>5 DEF Same, Open, Upcoming, Index, Uses, Canon
<1>10. Same(shape, Backward, "dkv intra", p, t)
  BY <1>1, <1>3, <1>4, <1>5 DEF Same, Open, Upcoming, Index, Uses
<1> QED BY <1>6, <1>7, <1>8, <1>9, <1>10, <1>4, <1>5 DEF t, Rings

\* Where a rank goes that waits for the gradients of its own keys, and which
\* ring that opens or closes.
LEMMA WaitHomeMoves ==
  ASSUME shape \in Shapes, NEW p, Placed(shape, Backward, p), p.at = "end"
  PROVE  LET t == Place(Windows, 0, "done") IN
         /\ Placed(shape, Backward, t)
         /\ Closed(shape, Backward, "dkv inter", p, t)
         /\ \A ring \in Rings \ {"dkv inter"} : Same(shape, Backward, ring, p, t)
         /\ t = Place(N(shape), 0, "done")
         /\ t.at = "done"
         /\ t.j = N(shape) /\ t.s = 0
<1>1. W(shape) \in Nat \ {0} /\ N(shape) \in Nat \ {0} /\ Backward \in BOOLEAN
  BY ShapeSizes DEF Backward
<1>2. Window = W(shape) /\ Windows = N(shape)
  BY DEF Window, Windows, W, N
<1> DEFINE t == Place(Windows, 0, "done")
<1>3. p.j = N(shape) /\ p.s = 0 /\ Backward
  BY <1>1 DEF Placed
<1>4. /\ t = Place(N(shape), 0, "done")
      /\ t.at = "done"
  BY <1>1, <1>2, <1>3 DEF Place
<1> HIDE DEF t
<1>5. t.j = N(shape) /\ t.s = 0
  BY <1>1, <1>3, <1>4 DEF Place
<1>6. Placed(shape, Backward, t)
  BY <1>1, <1>3, <1>4, <1>5 DEF Placed, Place, Points
<1>7. Closed(shape, Backward, "dkv inter", p, t)
  BY <1>1, <1>3, <1>4, <1>5 DEF Closed, Open, Upcoming
<1>8. Same(shape, Backward, "inter", p, t)
  BY <1>1, <1>3, <1>4, <1>5 DEF Same, Open, Upcoming, Index, Uses
<1>9. Same(shape, Backward, "intra", p, t)
  BY <1>1, <1>3, <1>4, <1>5 DEF Same, Open, Upcoming, Index, Uses, Canon
<1>10. Same(shape, Backward, "dkv intra", p, t)
  BY <1>1, <1>3, <1>4, <1>5 DEF Same, Open, Upcoming, Index, Uses
<1> QED BY <1>6, <1>7, <1>8, <1>9, <1>10, <1>4, <1>5 DEF t, Rings

\* Where a rank goes that waits for the gradients of a step inside a window,
\* and which ring that opens or closes.
LEMMA WaitGradsInWindowMoves ==
  ASSUME shape \in Shapes, NEW p, Placed(shape, Backward, p), p.at = "grads", p.s > 0
  PROVE  LET t == Place(p.j, p.s, "compute") IN
         /\ Placed(shape, Backward, t)
         /\ Closed(shape, Backward, "dkv intra", p, t)
         /\ \A ring \in Rings \ {"dkv intra"} : Same(shape, Backward, ring, p, t)
         /\ t = Place(p.j, p.s, "compute")
         /\ t.at = "compute"
         /\ t.j = p.j /\ t.s = p.s
<1>1. W(shape) \in Nat \ {0} /\ N(shape) \in Nat \ {0} /\ Backward \in BOOLEAN
  BY ShapeSizes DEF Backward
<1>2. Window = W(shape) /\ Windows = N(shape)
  BY DEF Window, Windows, W, N
<1> DEFINE t == Place(p.j, p.s, "compute")
<1>3. p.j \in 0 .. N(shape) - 1 /\ p.s \in 0 .. W(shape) - 1 /\ p.s > 0 /\ Backward
  BY <1>1 DEF Placed
<1>4. /\ t = Place(p.j, p.s, "compute")
      /\ t.at = "compute"
  BY <1>1, <1>2, <1>3 DEF Place
<1> HIDE DEF t
<1>5. t.j = p.j /\ t.s = p.s
  BY <1>1, <1>3, <1>4 DEF Place
<1>6. Placed(shape, Backward, t)
  BY <1>1, <1>3, <1>4, <1>5 DEF Placed, Place, Points
<1>7. Closed(shape, Backward, "dkv intra", p, t)
  BY <1>1, <1>3, <1>4, <1>5 DEF Closed, Open, Upcoming
<1>8. Same(shape, Backward, "inter", p, t)
  BY <1>1, <1>3, <1>4, <1>5 DEF Same, Open, Upcoming, Index, Uses
<1>9. Same(shape, Backward, "intra", p, t)
  BY <1>1, <1>3, <1>4, <1>5 DEF Same, Open, Upcoming, Index, Uses, Canon
<1>10. Same(shape, Backward, "dkv inter", p, t)
  BY <1>1, <1>3, <1>4, <1>5 DEF Same, Open, Upcoming, Index, Uses
<1> QED BY <1>6, <1>7, <1>8, <1>9, <1>10, <1>4, <1>5 DEF t, Rings

\* Where a rank goes that waits for the gradients of the first step of a
\* window, and which ring that opens or closes.
LEMMA WaitGradsOfWindowMoves ==
  ASSUME shape \in Shapes, NEW p, Placed(shape, Backward, p), p.at = "grads", p.s = 0
  PROVE  LET t == Place(p.j, p.s, "compute") IN
         /\ Placed(shape, Backward, t)
         /\ Closed(shape, Backward, "dkv inter", p, t)
         /\ \A ring \in Rings \ {"dkv inter"} : Same(shape, Backward, ring, p, t)
         /\ t = Place(p.j, 0, "compute")
         /\ t.at = "compute"
         /\ t.j = p.j /\ t.s = 0
<1>1. W(shape) \in Nat \ {0} /\ N(shape) \in Nat \ {0} /\ Backward \in BOOLEAN
  BY ShapeSizes DEF Backward
<1>2. Window = W(shape) /\ Windows = N(shape)
  BY DEF Window, Windows, W, N
<1> DEFINE t == Place(p.j, p.s, "compute")
<1>3. p.j \in 0 .. N(shape) - 1 /\ p.s = 0 /\ p.j > 0 /\ Backward
  BY <1>1 DEF Placed
<1>4. /\ t = Place(p.j, 0, "compute")
      /\ t.at = "compute"
  BY <1>1, <1>2, <1>3 DEF Place
<1> HIDE DEF t
<1>5. t.j = p.j /\ t.s = 0
  BY <1>1, <1>3, <1>4 DEF Place
<1>6. Placed(shape, Backward, t)
  BY <1>1, <1>3, <1>4, <1>5 DEF Placed, Place, Points
<1>7. Closed(shape, Backward, "dkv inter", p, t)
  BY <1>1, <1>3, <1>4, <1>5 DEF Closed, Open, Upcoming
<1>8. Same(shape, Backward, "inter", p, t)
  BY <1>1, <1>3, <1>4, <1>5 DEF Same, Open, Upcoming, Index, Uses
<1>9. Same(shape, Backward, "intra", p, t)
  BY <1>1, <1>3, <1>4, <1>5 DEF Same, Open, Upcoming, Index, Uses, Canon
<1>10. Same(shape, Backward, "dkv intra", p, t)
  BY <1>1, <1>3, <1>4, <1>5 DEF Same, Open, Upcoming, Index, Uses
<1> QED BY <1>6, <1>7, <1>8, <1>9, <1>10, <1>4, <1>5 DEF t, Rings

\* Where a rank goes that computes a step, and which ring that opens or
\* closes.
LEMMA ComputeMoves ==
  ASSUME shape \in Shapes, NEW p, Placed(shape, Backward, p), p.at = "compute"
  PROVE  LET t == AfterCompute(p.j, p.s) IN
         /\ Placed(shape, Backward, t)
         /\ \A ring \in Rings : Same(shape, Backward, ring, p, t)
         /\ t = Place(t.j, t.s, t.at)
         /\ p.s + 1 < W(shape) => t.j = p.j /\ t.s = p.s /\ t.at = "arrival"
         /\ ~(p.s + 1 < W(shape)) /\ Backward => t.j = p.j /\ t.s = p.s /\ t.at = "pass"
         /\ ~(p.s + 1 < W(shape)) /\ ~Backward =>
             t.j = p.j + 1 /\ t.s = 0 /\ t.at = IF p.j + 1 < N(shape) THEN "window" ELSE "done"
         /\ t.j \in Int /\ t.s \in Int
<1>1. W(shape) \in Nat \ {0} /\ N(shape) \in Nat \ {0} /\ Backward \in BOOLEAN
  BY ShapeSizes DEF Backward
<1>2. Window = W(shape) /\ Windows = N(shape)
  BY DEF Window, Windows, W, N
<1> DEFINE t == AfterCompute(p.j, p.s)
<1>3. p.j \in 0 .. N(shape) - 1 /\ p.s \in 0 .. W(shape) - 1
  BY <1>1 DEF Placed
<1>4. /\ t = Place(t.j, t.s, t.at)
      /\ p.s + 1 < W(shape) => t.j = p.j /\ t.s = p.s /\ t.at = "arrival"
      /\ ~(p.s + 1 < W(shape)) /\ Backward => t.j = p.j /\ t.s = p.s /\ t.at = "pass"
      /\ ~(p.s + 1 < W(shape)) /\ ~Backward =>
           t.j = p.j + 1 /\ t.s = 0 /\ t.at = IF p.j + 1 < N(shape) THEN "window" ELSE "done"
  BY <1>1, <1>2, <1>3 DEF AfterCompute, AfterKeys, AfterStep, AfterWindow, Place
<1> HIDE DEF t
<1>5. t.j \in Int /\ t.s \in Int
  BY <1>1, <1>3, <1>4 DEF Place
<1>6. Placed(shape, Backward, t)
  BY <1>1, <1>3, <1>4, <1>5 DEF Placed, Place, Points
<1>7. Same(shape, Backward, "inter", p, t)
  BY <1>1, <1>3, <1>4, <1>5 DEF Same, Open, Upcoming, Index, Uses
<1>8. Same(shape, Backward, "intra", p, t)
  BY <1>1, <1>3, <1>4, <1>5 DEF Same, Open, Upcoming, Index, Uses, Canon
<1>9. Same(shape, Backward, "dkv inter", p, t)
  BY <1>1, <1>3, <1>4, <1>5 DEF Same, Open, Upcoming, Index, Uses
<1>10. Same(shape, Backward, "dkv intra", p, t)
  BY <1>1, <1>3, <1>4, <1>5 DEF Same, Open, Upcoming, Index, Uses
<1> QED BY <1>6, <1>7, <1>8, <1>9, <1>10, <1>4, <1>5 DEF t, Rings

-----------------------------------------------------------------------------
(* The buffers a request names, the value its sender has and the value its  *)
(* receiver gets.                                                           *)
From(c, ring, i) ==
  IF ring = "inter" THEN Keys(i[1], 0) ELSE IF ring = "intra" THEN Keys(i[1], i[2])
  ELSE IF ring = "dkv intra" THEN Grads(i[1], i[2]) ELSE Grads(i[1], W(c))
To(c, ring, i) ==
  IF ring = "inter" THEN Keys(i[1] + 1, 0) ELSE IF ring = "intra" THEN Keys(i[1], i[2] + 1)
  ELSE IF ring = "dkv intra" THEN Grads(i[1], i[2] + 1) ELSE Grads(i[1] + 1, 0)
Load(c, ring, r, i) ==
  IF ring = "inter" THEN Source(c, r, i[1], 0) ELSE IF ring = "intra" THEN Source(c, r, i[1], i[2])
  ELSE IF ring = "dkv intra" THEN SetToBag(Given(c, Source(c, r, i[1], i[2]), i[1], i[2] + 1))
  ELSE SetToBag(Given(c, Source(c, r, i[1], 0), i[1], W(c)))
Delivery(c, ring, r, i) ==
  IF ring = "inter" THEN Source(c, r, i[1] + 1, 0)
    ELSE IF ring = "intra" THEN Source(c, r, i[1], i[2] + 1)
  ELSE IF ring = "dkv intra" THEN SetToBag(Given(c, Source(c, r, i[1], i[2] + 1), i[1], i[2] + 1))
  ELSE SetToBag(Given(c, Source(c, r, i[1] + 1, 0), i[1] + 1, 0))

(* The invariant of one rank: its requests, the buffers they name, what it  *)
(* has in hand and what it has summed.                                      *)
Has(b, name, value) == name \in DOMAIN b /\ b[name] = value

Fresh(c, ring, i, sent, got) == [from |-> From(c, ring, i), to |-> To(c, ring, i), sent |-> sent,
  got |-> got]
Requested(c, back, p, q) ==
  /\ DOMAIN q = Rings /\ q = [ring \in Rings |-> q[ring]]
  /\ \A ring \in Rings :
       /\ Open(c, back, ring, p) =>
            \E sent, got \in BOOLEAN : q[ring] = Fresh(c, ring, Index(c, ring, p), sent, got)
       /\ ~Open(c, back, ring, p) => q[ring] = NoRequest

Carried(c, back, r, p, q, b) ==
  \A ring \in Rings : Open(c, back, ring, p) =>
    /\ ~q[ring].sent => Has(b, From(c, ring, Index(c, ring, p)),
         Load(c, ring, r, Index(c, ring, p)))
    /\ q[ring].got => Has(b, To(c, ring, Index(c, ring, p)),
         Delivery(c, ring, r, Index(c, ring, p)))

InHand(c, back, r, p, b) ==
  /\ p.at \in {"onward", "keys", "grads", "compute"}
       => Has(b, Keys(p.j, p.s), Source(c, r, p.j, p.s))
  /\ back /\ p.at = "compute" /\ (p.j > 0 \/ p.s > 0) =>
       Has(b, Grads(p.j, p.s), SetToBag(Given(c, Source(c, r, p.j, p.s), p.j, p.s)))
  /\ back /\ p.at \in {"arrival", "pass"} =>
       Has(b, Grads(p.j, p.s), SetToBag(Given(c, Source(c, r, p.j, p.s), p.j, p.s + 1)))
  /\ p.at = "pass" /\ p.s + 1 < W(c) => Has(b, Keys(p.j, p.s + 1), Source(c, r, p.j, p.s + 1))
  /\ p.at = "home" => Has(b, Grads(p.j, W(c)), SetToBag(Given(c, Source(c, r, p.j, 0), p.j, W(c))))
  /\ back /\ p.at = "done" => Has(b, Grads(N(c), 0), SetToBag(Given(c, r, N(c), 0)))

Summed(c, r, p, o) ==
  o = SetToBag(IF p.at \in {"arrival", "pass"} THEN Seen(c, r, p.j, p.s + 1)
               ELSE IF p.at \in {"last", "home"} THEN Seen(c, r, p.j + 1, 0)
               ELSE Seen(c, r, p.j, p.s))

Single(c, back, r, p, q, b, o) ==
  /\ Placed(c, back, p) /\ Requested(c, back, p, q) /\ Carried(c, back, r, p, q, b)
  /\ InHand(c, back, r, p, b) /\ Summed(c, r, p, o)

(* Neighbours: what a rank sends next is what the next one receives next.   *)
Unsent(c, ring, p, q) == IF q[ring].sent THEN Upcoming(c, ring, p) ELSE Index(c, ring, p)
Ungot(c, ring, p, q) == IF q[ring].got THEN Upcoming(c, ring, p) ELSE Index(c, ring, p)
Kept(c, back, p, q, t, q2) ==
  \A ring \in Rings : Uses(c, back, ring) =>
    Unsent(c, ring, p, q) = Unsent(c, ring, t, q2) /\ Ungot(c, ring, p, q) = Ungot(c, ring, t, q2)

Types ==
  /\ shape \in Shapes /\ pass \in {"forward", "backward"}
  /\ pc = [r \in Ranks |-> pc[r]] /\ buf = [r \in Ranks |-> buf[r]]
       /\ out = [r \in Ranks |-> out[r]]
  /\ req = [r \in Ranks |-> req[r]]
Singles == \A r \in Ranks : Single(shape, Backward, r, pc[r], req[r], buf[r], out[r])
Paired ==
  \A r \in Ranks, ring \in Rings : Uses(shape, Backward, ring) =>
    Unsent(shape, ring, pc[r], req[r])
      = Ungot(shape, ring, pc[Peer(shape, ring, r)], req[Peer(shape, ring, r)])
IInv == Straight(shape) => Types /\ Singles /\ Paired

\* The fields of a request.
LEMMA RequestFields ==
  ASSUME NEW c, NEW ring, NEW i, NEW sent, NEW got
  PROVE  /\ Fresh(c, ring, i, sent, got).from = From(c, ring, i)
              /\ Fresh(c, ring, i, sent, got).to = To(c, ring, i)
         /\ Fresh(c, ring, i, sent, got).sent = sent /\ Fresh(c, ring, i, sent, got).got = got
         /\ NoRequest.sent /\ NoRequest.got
BY DEF Fresh, NoRequest

\* A commit opens its ring and leaves the others as they are.
LEMMA CommitKeeps ==
  ASSUME NEW c, NEW back, NEW r, NEW p, NEW q, NEW b, NEW t, NEW ring0 \in Rings,
         Requested(c, back, p, q), Carried(c, back, r, p, q, b),
         Opened(c, back, ring0, p, t), \A ring \in Rings \ {ring0} : Same(c, back, ring, p, t),
         Has(b, From(c, ring0, Index(c, ring0, t)), Load(c, ring0, r, Index(c, ring0, t))),
         NEW q2, q2 = [q EXCEPT ![ring0] = Fresh(c, ring0, Index(c, ring0, t), FALSE, FALSE)]
  PROVE  Requested(c, back, t, q2) /\ Carried(c, back, r, t, q2, b) /\ Kept(c, back, p, q, t, q2)
<1>1. /\ q2 = [ring \in Rings |-> q2[ring]] /\ DOMAIN q2 = Rings
      /\ q2[ring0] = Fresh(c, ring0, Index(c, ring0, t), FALSE, FALSE)
      /\ \A ring \in Rings \ {ring0} : q2[ring] = q[ring]
  BY DEF Requested
<1>2. ~q2[ring0].sent /\ ~q2[ring0].got
  BY <1>1 DEF Fresh
<1>3. q[ring0] = NoRequest /\ q[ring0].sent /\ q[ring0].got
  BY RequestFields DEF Requested, Opened
<1>4. Requested(c, back, t, q2)
  <2> SUFFICES ASSUME NEW ring \in Rings
               PROVE  /\ Open(c, back, ring, t) =>
                           \E sent, got \in BOOLEAN : q2[ring]
                             = Fresh(c, ring, Index(c, ring, t), sent, got)
                      /\ ~Open(c, back, ring, t) => q2[ring] = NoRequest
    BY <1>1 DEF Requested
  <2>1. CASE ring = ring0
    BY <2>1, <1>1 DEF Opened
  <2>2. CASE ring # ring0
    BY <2>2, <1>1 DEF Requested, Same
  <2> QED BY <2>1, <2>2
<1>5. Carried(c, back, r, t, q2, b)
  <2> SUFFICES ASSUME NEW ring \in Rings, Open(c, back, ring, t)
               PROVE  /\ ~q2[ring].sent => Has(b, From(c, ring, Index(c, ring, t)),
                           Load(c, ring, r, Index(c, ring, t)))
                      /\ q2[ring].got => Has(b, To(c, ring, Index(c, ring, t)),
                           Delivery(c, ring, r, Index(c, ring, t)))
    BY DEF Carried
  <2>1. CASE ring = ring0
    BY <2>1, <1>2
  <2>2. CASE ring # ring0
    BY <2>2, <1>1 DEF Carried, Same
  <2> QED BY <2>1, <2>2
<1>6. Kept(c, back, p, q, t, q2)
  <2> SUFFICES ASSUME NEW ring \in Rings, Uses(c, back, ring)
               PROVE  /\ Unsent(c, ring, p, q) = Unsent(c, ring, t, q2)
                      /\ Ungot(c, ring, p, q) = Ungot(c, ring, t, q2)
    BY DEF Kept
  <2>1. CASE ring = ring0
    BY <2>1, <1>2, <1>3 DEF Unsent, Ungot, Opened
  <2>2. CASE ring # ring0 /\ Open(c, back, ring, p)
    BY <2>2, <1>1 DEF Same, Unsent, Ungot
  <2>3. CASE ring # ring0 /\ ~Open(c, back, ring, p)
    <3>1. q[ring].sent /\ q[ring].got
      BY <2>3, RequestFields DEF Requested
    <3> QED BY <2>3, <3>1, <1>1 DEF Same, Unsent, Ungot
  <2> QED BY <2>1, <2>2, <2>3
<1> QED BY <1>4, <1>5, <1>6

\* A wait closes its ring, and what came in is in the buffer.
LEMMA WaitKeeps ==
  ASSUME NEW c, NEW back, NEW r, NEW p, NEW q, NEW b, NEW t, NEW ring0 \in Rings,
         Requested(c, back, p, q), Carried(c, back, r, p, q, b),
         Closed(c, back, ring0, p, t), \A ring \in Rings \ {ring0} : Same(c, back, ring, p, t),
         q[ring0].sent, q[ring0].got,
         NEW q2, q2 = [q EXCEPT ![ring0] = NoRequest]
  PROVE  /\ Requested(c, back, t, q2) /\ Carried(c, back, r, t, q2, b) /\ Kept(c, back, p, q, t, q2)
         /\ Has(b, To(c, ring0, Index(c, ring0, p)), Delivery(c, ring0, r, Index(c, ring0, p)))
<1>1. /\ q2 = [ring \in Rings |-> q2[ring]] /\ DOMAIN q2 = Rings /\ q2[ring0] = NoRequest
      /\ \A ring \in Rings \ {ring0} : q2[ring] = q[ring]
  BY DEF Requested
<1>2. q2[ring0].sent /\ q2[ring0].got
  BY <1>1, RequestFields
<1>3. Requested(c, back, t, q2)
  <2> SUFFICES ASSUME NEW ring \in Rings
               PROVE  /\ Open(c, back, ring, t) =>
                           \E sent, got \in BOOLEAN : q2[ring]
                             = Fresh(c, ring, Index(c, ring, t), sent, got)
                      /\ ~Open(c, back, ring, t) => q2[ring] = NoRequest
    BY <1>1 DEF Requested
  <2>1. CASE ring = ring0
    BY <2>1, <1>1 DEF Closed
  <2>2. CASE ring # ring0
    BY <2>2, <1>1 DEF Requested, Same
  <2> QED BY <2>1, <2>2
<1>4. Carried(c, back, r, t, q2, b)
  <2> SUFFICES ASSUME NEW ring \in Rings, Open(c, back, ring, t)
               PROVE  /\ ~q2[ring].sent => Has(b, From(c, ring, Index(c, ring, t)),
                           Load(c, ring, r, Index(c, ring, t)))
                      /\ q2[ring].got => Has(b, To(c, ring, Index(c, ring, t)),
                           Delivery(c, ring, r, Index(c, ring, t)))
    BY DEF Carried
  <2>1. ring # ring0
    BY DEF Closed
  <2> QED BY <2>1, <1>1 DEF Carried, Same
<1>5. Kept(c, back, p, q, t, q2)
  <2> SUFFICES ASSUME NEW ring \in Rings, Uses(c, back, ring)
               PROVE  /\ Unsent(c, ring, p, q) = Unsent(c, ring, t, q2)
                      /\ Ungot(c, ring, p, q) = Ungot(c, ring, t, q2)
    BY DEF Kept
  <2>1. CASE ring = ring0
    BY <2>1, <1>2 DEF Unsent, Ungot, Closed
  <2>2. CASE ring # ring0 /\ Open(c, back, ring, p)
    BY <2>2, <1>1 DEF Same, Unsent, Ungot
  <2>3. CASE ring # ring0 /\ ~Open(c, back, ring, p)
    <3>1. q[ring].sent /\ q[ring].got
      BY <2>3, RequestFields DEF Requested
    <3> QED BY <2>3, <3>1, <1>1 DEF Same, Unsent, Ungot
  <2> QED BY <2>1, <2>2, <2>3
<1>6. Has(b, To(c, ring0, Index(c, ring0, p)), Delivery(c, ring0, r, Index(c, ring0, p)))
  BY DEF Carried, Closed
<1> QED BY <1>3, <1>4, <1>5, <1>6

\* A step that no ring takes part in.
LEMMA ComputeKeeps ==
  ASSUME NEW c, NEW back, NEW r, NEW p, NEW q, NEW b, NEW t, NEW b2,
         Requested(c, back, p, q), Carried(c, back, r, p, q, b),
         \A ring \in Rings : Same(c, back, ring, p, t),
         \A ring \in Rings : \A value :
           Open(c, back, ring, p) =>
             /\ Has(b, From(c, ring, Index(c, ring, p)), value)
                  => Has(b2, From(c, ring, Index(c, ring, p)), value)
             /\ Has(b, To(c, ring, Index(c, ring, p)), value)
                  => Has(b2, To(c, ring, Index(c, ring, p)), value)
  PROVE  Requested(c, back, t, q) /\ Carried(c, back, r, t, q, b2) /\ Kept(c, back, p, q, t, q)
<1>1. Requested(c, back, t, q)
  BY DEF Requested, Same
<1>2. Carried(c, back, r, t, q, b2)
  BY DEF Carried, Same
<1>3. Kept(c, back, p, q, t, q)
  <2> SUFFICES ASSUME NEW ring \in Rings, Uses(c, back, ring)
               PROVE  /\ Unsent(c, ring, p, q) = Unsent(c, ring, t, q)
                      /\ Ungot(c, ring, p, q) = Ungot(c, ring, t, q)
    BY DEF Kept
  <2>1. CASE Open(c, back, ring, p)
    BY <2>1 DEF Same, Unsent, Ungot
  <2>2. CASE ~Open(c, back, ring, p)
    <3>1. q[ring].sent /\ q[ring].got
      BY <2>2, RequestFields DEF Requested
    <3> QED BY <2>2, <3>1 DEF Same, Unsent, Ungot
  <2> QED BY <2>1, <2>2
<1> QED BY <1>1, <1>2, <1>3

\* One rank's move, the others staying where they are.
LEMMA MoveKeeps ==
  ASSUME Straight(shape), Types, Singles, Paired, NEW r \in Ranks, NEW t, NEW q2, NEW b2, NEW o2,
         pc' = [pc EXCEPT ![r] = t], req' = [req EXCEPT ![r] = q2], buf' = [buf EXCEPT ![r] = b2],
         out' = [out EXCEPT ![r] = o2], UNCHANGED <<shape, pass>>,
         Single(shape, Backward, r, t, q2, b2, o2),
         Kept(shape, Backward, pc[r], req[r], t, q2)
  PROVE  Types' /\ Singles' /\ Paired'
<1>1. Ranks' = Ranks /\ Backward' = Backward /\ shape' = shape /\ pass' = pass
  BY DEF Ranks, Backward
<1>2. /\ DOMAIN pc = Ranks /\ DOMAIN req = Ranks /\ DOMAIN buf = Ranks /\ DOMAIN out = Ranks
  BY DEF Types
<1>3. Types'
  BY <1>1, <1>2 DEF Types
<1>4. \A x \in Ranks : /\ pc'[x] = IF x = r THEN t ELSE pc[x]
                       /\ req'[x] = IF x = r THEN q2 ELSE req[x]
                       /\ buf'[x] = IF x = r THEN b2 ELSE buf[x]
                       /\ out'[x] = IF x = r THEN o2 ELSE out[x]
  BY <1>2
<1>5. Singles'
  BY <1>1, <1>4 DEF Singles
<1>6. \A x \in Ranks, ring \in Rings : Uses(shape, Backward, ring) =>
        /\ Unsent(shape, ring, pc'[x], req'[x]) = Unsent(shape, ring, pc[x], req[x])
        /\ Ungot(shape, ring, pc'[x], req'[x]) = Ungot(shape, ring, pc[x], req[x])
  BY <1>4 DEF Kept
<1>7. \A x \in Ranks, ring \in Rings : Peer(shape, ring, x) \in Ranks
  BY PeerInWindow, PeerAcross DEF Rings, Ranks, RanksOf
<1>8. Paired'
  BY <1>1, <1>6, <1>7 DEF Paired
<1> QED BY <1>3, <1>5, <1>8

-----------------------------------------------------------------------------
\* What the requests of the rings are.
LEMMA InterFrom ==
  ASSUME NEW c, NEW x, NEW y, NEW i, i = <<x, y>>
  PROVE  From(c, "inter", i) = Keys(x, 0)
<1>1. i[1] = x /\ i[2] = y
  OBVIOUS
<1> QED BY <1>1 DEF From

\* The buffer received into on the ring of keys between windows.
LEMMA InterTo ==
  ASSUME NEW c, NEW x, NEW y, NEW i, i = <<x, y>>
  PROVE  To(c, "inter", i) = Keys(x + 1, 0)
<1>1. i[1] = x /\ i[2] = y
  OBVIOUS
<1> QED BY <1>1 DEF To

\* What is sent on the ring of keys between windows.
LEMMA InterLoad ==
  ASSUME NEW c, NEW r, NEW x, NEW y, NEW i, i = <<x, y>>
  PROVE  Load(c, "inter", r, i) = Source(c, r, x, 0)
<1>1. i[1] = x /\ i[2] = y
  OBVIOUS
<1> QED BY <1>1 DEF Load

\* What is received on the ring of keys between windows.
LEMMA InterDelivery ==
  ASSUME NEW c, NEW r, NEW x, NEW y, NEW i, i = <<x, y>>
  PROVE  Delivery(c, "inter", r, i) = Source(c, r, x + 1, 0)
<1>1. i[1] = x /\ i[2] = y
  OBVIOUS
<1> QED BY <1>1 DEF Delivery

\* The buffer sent on the ring of keys inside a window.
LEMMA IntraFrom ==
  ASSUME NEW c, NEW x, NEW y, NEW i, i = <<x, y>>
  PROVE  From(c, "intra", i) = Keys(x, y)
<1>1. i[1] = x /\ i[2] = y
  OBVIOUS
<1> QED BY <1>1 DEF From

\* The buffer received into on the ring of keys inside a window.
LEMMA IntraTo ==
  ASSUME NEW c, NEW x, NEW y, NEW i, i = <<x, y>>
  PROVE  To(c, "intra", i) = Keys(x, y + 1)
<1>1. i[1] = x /\ i[2] = y
  OBVIOUS
<1> QED BY <1>1 DEF To

\* What is sent on the ring of keys inside a window.
LEMMA IntraLoad ==
  ASSUME NEW c, NEW r, NEW x, NEW y, NEW i, i = <<x, y>>
  PROVE  Load(c, "intra", r, i) = Source(c, r, x, y)
<1>1. i[1] = x /\ i[2] = y
  OBVIOUS
<1> QED BY <1>1 DEF Load

\* What is received on the ring of keys inside a window.
LEMMA IntraDelivery ==
  ASSUME NEW c, NEW r, NEW x, NEW y, NEW i, i = <<x, y>>
  PROVE  Delivery(c, "intra", r, i) = Source(c, r, x, y + 1)
<1>1. i[1] = x /\ i[2] = y
  OBVIOUS
<1> QED BY <1>1 DEF Delivery

\* The buffer sent on the ring of gradients inside a window.
LEMMA DkvIntraFrom ==
  ASSUME NEW c, NEW x, NEW y, NEW i, i = <<x, y>>
  PROVE  From(c, "dkv intra", i) = Grads(x, y)
<1>1. i[1] = x /\ i[2] = y
  OBVIOUS
<1> QED BY <1>1 DEF From

\* The buffer received into on the ring of gradients inside a window.
LEMMA DkvIntraTo ==
  ASSUME NEW c, NEW x, NEW y, NEW i, i = <<x, y>>
  PROVE  To(c, "dkv intra", i) = Grads(x, y + 1)
<1>1. i[1] = x /\ i[2] = y
  OBVIOUS
<1> QED BY <1>1 DEF To

\* What is sent on the ring of gradients inside a window.
LEMMA DkvIntraLoad ==
  ASSUME NEW c, NEW r, NEW x, NEW y, NEW i, i = <<x, y>>
  PROVE  Load(c, "dkv intra", r, i) = SetToBag(Given(c, Source(c, r, x, y), x, y + 1))
<1>1. i[1] = x /\ i[2] = y
  OBVIOUS
<1> QED BY <1>1 DEF Load

\* What is received on the ring of gradients inside a window.
LEMMA DkvIntraDelivery ==
  ASSUME NEW c, NEW r, NEW x, NEW y, NEW i, i = <<x, y>>
  PROVE  Delivery(c, "dkv intra", r, i) = SetToBag(Given(c, Source(c, r, x, y + 1), x, y + 1))
<1>1. i[1] = x /\ i[2] = y
  OBVIOUS
<1> QED BY <1>1 DEF Delivery

\* The buffer sent on the ring of gradients between windows.
LEMMA DkvInterFrom ==
  ASSUME NEW c, NEW x, NEW y, NEW i, i = <<x, y>>
  PROVE  From(c, "dkv inter", i) = Grads(x, W(c))
<1>1. i[1] = x /\ i[2] = y
  OBVIOUS
<1> QED BY <1>1 DEF From

\* The buffer received into on the ring of gradients between windows.
LEMMA DkvInterTo ==
  ASSUME NEW c, NEW x, NEW y, NEW i, i = <<x, y>>
  PROVE  To(c, "dkv inter", i) = Grads(x + 1, 0)
<1>1. i[1] = x /\ i[2] = y
  OBVIOUS
<1> QED BY <1>1 DEF To

\* What is sent on the ring of gradients between windows.
LEMMA DkvInterLoad ==
  ASSUME NEW c, NEW r, NEW x, NEW y, NEW i, i = <<x, y>>
  PROVE  Load(c, "dkv inter", r, i) = SetToBag(Given(c, Source(c, r, x, 0), x, W(c)))
<1>1. i[1] = x /\ i[2] = y
  OBVIOUS
<1> QED BY <1>1 DEF Load

\* What is received on the ring of gradients between windows.
LEMMA DkvInterDelivery ==
  ASSUME NEW c, NEW r, NEW x, NEW y, NEW i, i = <<x, y>>
  PROVE  Delivery(c, "dkv inter", r, i) = SetToBag(Given(c, Source(c, r, x + 1, 0), x + 1, 0))
<1>1. i[1] = x /\ i[2] = y
  OBVIOUS
<1> QED BY <1>1 DEF Delivery

\* The first keys of a window leave for the next window.
LEMMA SendWindowKeeps ==
  ASSUME Straight(shape), Types, Singles, Paired, NEW r \in Ranks, SendWindow(r)
  PROVE  Types' /\ Singles' /\ Paired'
<1> DEFINE p == pc[r]
           t == AtStep(p.j, 0)
           q == req[r]
           i == Index(shape, "inter", t)
           q2 == [q EXCEPT !["inter"] = Fresh(shape, "inter", i, FALSE, FALSE)]
<1>1. r \in RanksOf(shape) /\ W(shape) \in Nat \ {0} /\ N(shape) \in Nat \ {0}
  BY ShapeSizes DEF Straight, Ranks, RanksOf
<1>2. /\ Placed(shape, Backward, p) /\ Requested(shape, Backward, p, q)
      /\ Carried(shape, Backward, r, p, q, buf[r]) /\ InHand(shape, Backward, r, p, buf[r])
      /\ Summed(shape, r, p, out[r])
  BY DEF Singles, Single
<1>3. /\ p.at = "onward" /\ pc' = [pc EXCEPT ![r] = t] /\ UNCHANGED <<shape, pass, buf, out>>
      /\ req' = [req EXCEPT ![r]["inter"] =
                    [from |-> Keys(p.j, 0), to |-> Keys(p.j + 1, 0), sent |-> FALSE, got |-> FALSE]]
  BY DEF SendWindow, Commit, Go, At
<1>4. /\ Placed(shape, Backward, t)
      /\ Opened(shape, Backward, "inter", p, t)
      /\ \A ring \in Rings \ {"inter"} : Same(shape, Backward, ring, p, t)
  BY <1>2, <1>3, SendWindowMoves DEF Straight
<1>5. /\ t = Place(p.j, 0, t.at) /\ t.at \in {"keys", "grads", "compute"}
      /\ t.at = IF 1 < W(shape) THEN "keys" ELSE IF Backward /\ p.j > 0 THEN "grads" ELSE "compute"
      /\ t.j = p.j /\ t.s = 0
  BY <1>2, <1>3, SendWindowMoves DEF Straight
<1> HIDE DEF p, t
<1>6. i = <<p.j, 0>>
  BY <1>3, <1>4 DEF Opened, Upcoming, Placed
<1> HIDE DEF i
<1>7. /\ From(shape, "inter", i) = Keys(p.j, 0) /\ To(shape, "inter", i) = Keys(p.j + 1, 0)
      /\ Load(shape, "inter", r, i) = Source(shape, r, p.j, 0)
  <2>1. From(shape, "inter", i) = Keys(p.j, 0)
    BY <1>6, InterFrom
  <2>2. To(shape, "inter", i) = Keys(p.j + 1, 0)
    BY <1>6, InterTo
  <2>3. Load(shape, "inter", r, i) = Source(shape, r, p.j, 0)
    BY <1>6, InterLoad
  <2> QED BY <2>1, <2>2, <2>3
<1>8. Has(buf[r], From(shape, "inter", i), Load(shape, "inter", r, i))
  BY <1>2, <1>3, <1>7 DEF InHand, Placed
<1>9. req' = [req EXCEPT ![r] = q2]
  BY <1>3, <1>7 DEF Fresh
<1> HIDE DEF q, q2
<1>10. /\ Requested(shape, Backward, t, q2) /\ Carried(shape, Backward, r, t, q2, buf[r])
      /\ Kept(shape, Backward, p, q, t, q2)
  BY <1>2, <1>4, <1>8, CommitKeeps DEF q2, i, Rings
<1>11. InHand(shape, Backward, r, t, buf[r])
  BY <1>1, <1>2, <1>3, <1>5 DEF InHand, Placed
<1>12. Summed(shape, r, t, out[r])
  BY <1>1, <1>2, <1>3, <1>5 DEF Summed, Placed
<1>13. buf' = [buf EXCEPT ![r] = buf[r]] /\ out' = [out EXCEPT ![r] = out[r]]
  BY <1>3 DEF Types
<1> QED BY <1>3, <1>4, <1>9, <1>10, <1>11, <1>12, <1>13, MoveKeeps DEF Single, p, q

\* A step's keys leave for the next rank of the window.
LEMMA SendKeysKeeps ==
  ASSUME Straight(shape), Types, Singles, Paired, NEW r \in Ranks, SendKeys(r)
  PROVE  Types' /\ Singles' /\ Paired'
<1> DEFINE p == pc[r]
           t == AtCompute(p.j, p.s)
           q == req[r]
           i == Index(shape, "intra", t)
           q2 == [q EXCEPT !["intra"] = Fresh(shape, "intra", i, FALSE, FALSE)]
<1>1. r \in RanksOf(shape) /\ W(shape) \in Nat \ {0} /\ N(shape) \in Nat \ {0}
  BY ShapeSizes DEF Straight, Ranks, RanksOf
<1>2. /\ Placed(shape, Backward, p) /\ Requested(shape, Backward, p, q)
      /\ Carried(shape, Backward, r, p, q, buf[r]) /\ InHand(shape, Backward, r, p, buf[r])
      /\ Summed(shape, r, p, out[r])
  BY DEF Singles, Single
<1>3. /\ p.at = "keys" /\ pc' = [pc EXCEPT ![r] = t] /\ UNCHANGED <<shape, pass, buf, out>>
      /\ req' = [req EXCEPT ![r]["intra"] =
                    [from |-> Keys(p.j, p.s), to |-> Keys(p.j, p.s + 1), sent |-> FALSE,
                      got |-> FALSE]]
  BY DEF SendKeys, Commit, Go, At
<1>4. /\ Placed(shape, Backward, t)
      /\ Opened(shape, Backward, "intra", p, t)
      /\ \A ring \in Rings \ {"intra"} : Same(shape, Backward, ring, p, t)
  BY <1>2, <1>3, SendKeysMoves DEF Straight
<1>5. /\ t = Place(p.j, p.s, t.at) /\ t.at \in {"grads", "compute"}
      /\ t.at = "grads" <=> (Backward /\ (p.j > 0 \/ p.s > 0))
      /\ t.j = p.j /\ t.s = p.s
  BY <1>2, <1>3, SendKeysMoves DEF Straight
<1> HIDE DEF p, t
<1>6. i = <<p.j, p.s>>
  BY <1>3, <1>4 DEF Opened, Upcoming, Placed
<1> HIDE DEF i
<1>7. /\ From(shape, "intra", i) = Keys(p.j, p.s) /\ To(shape, "intra", i) = Keys(p.j, p.s + 1)
      /\ Load(shape, "intra", r, i) = Source(shape, r, p.j, p.s)
  <2>1. From(shape, "intra", i) = Keys(p.j, p.s)
    BY <1>6, IntraFrom
  <2>2. To(shape, "intra", i) = Keys(p.j, p.s + 1)
    BY <1>6, IntraTo
  <2>3. Load(shape, "intra", r, i) = Source(shape, r, p.j, p.s)
    BY <1>6, IntraLoad
  <2> QED BY <2>1, <2>2, <2>3
<1>8. Has(buf[r], From(shape, "intra", i), Load(shape, "intra", r, i))
  BY <1>2, <1>3, <1>7 DEF InHand, Placed
<1>9. req' = [req EXCEPT ![r] = q2]
  BY <1>3, <1>7 DEF Fresh
<1> HIDE DEF q, q2
<1>10. /\ Requested(shape, Backward, t, q2) /\ Carried(shape, Backward, r, t, q2, buf[r])
      /\ Kept(shape, Backward, p, q, t, q2)
  BY <1>2, <1>4, <1>8, CommitKeeps DEF q2, i, Rings
<1>11. InHand(shape, Backward, r, t, buf[r])
  BY <1>1, <1>2, <1>3, <1>5 DEF InHand, Placed
<1>12. Summed(shape, r, t, out[r])
  BY <1>1, <1>2, <1>3, <1>5 DEF Summed, Placed
<1>13. buf' = [buf EXCEPT ![r] = buf[r]] /\ out' = [out EXCEPT ![r] = out[r]]
  BY <1>3 DEF Types
<1> QED BY <1>3, <1>4, <1>9, <1>10, <1>11, <1>12, <1>13, MoveKeeps DEF Single, p, q

\* A step's gradients follow its keys.
LEMMA SendGradsKeeps ==
  ASSUME Straight(shape), Types, Singles, Paired, NEW r \in Ranks, SendGrads(r)
  PROVE  Types' /\ Singles' /\ Paired'
<1> DEFINE p == pc[r]
           t == AfterStep(p.j, p.s)
           q == req[r]
           i == Index(shape, "dkv intra", t)
           q2 == [q EXCEPT !["dkv intra"] = Fresh(shape, "dkv intra", i, FALSE, FALSE)]
<1>1. r \in RanksOf(shape) /\ W(shape) \in Nat \ {0} /\ N(shape) \in Nat \ {0}
  BY ShapeSizes DEF Straight, Ranks, RanksOf
<1>2. /\ Placed(shape, Backward, p) /\ Requested(shape, Backward, p, q)
      /\ Carried(shape, Backward, r, p, q, buf[r]) /\ InHand(shape, Backward, r, p, buf[r])
      /\ Summed(shape, r, p, out[r])
  BY DEF Singles, Single
<1>3. /\ p.at = "pass" /\ pc' = [pc EXCEPT ![r] = t] /\ UNCHANGED <<shape, pass, buf, out>>
      /\ req' = [req EXCEPT ![r]["dkv intra"] =
                    [from |-> Grads(p.j, p.s), to |-> Grads(p.j, p.s + 1), sent |-> FALSE,
                      got |-> FALSE]]
  BY DEF SendGrads, Commit, Go, At
<1>4. /\ Placed(shape, Backward, t)
      /\ Opened(shape, Backward, "dkv intra", p, t)
      /\ \A ring \in Rings \ {"dkv intra"} : Same(shape, Backward, ring, p, t)
  BY <1>2, <1>3, SendGradsMoves DEF Straight
<1>5. /\ t = Place(p.j, t.s, t.at)
      /\ p.s + 1 < W(shape)
           => t.s = p.s + 1 /\ t.at = IF p.s + 2 < W(shape) THEN "keys" ELSE "grads"
      /\ ~(p.s + 1 < W(shape)) => t.s = 0 /\ t.at = "last"
      /\ t.j = p.j
  BY <1>2, <1>3, SendGradsMoves DEF Straight
<1> HIDE DEF p, t
<1>6. i = <<p.j, p.s>>
  BY <1>3, <1>4 DEF Opened, Upcoming, Placed
<1> HIDE DEF i
<1>7. /\ From(shape, "dkv intra", i) = Grads(p.j, p.s)
           /\ To(shape, "dkv intra", i) = Grads(p.j, p.s + 1)
      /\ Load(shape, "dkv intra", r, i)
           = SetToBag(Given(shape, Source(shape, r, p.j, p.s), p.j, p.s + 1))
  <2>1. From(shape, "dkv intra", i) = Grads(p.j, p.s)
    BY <1>6, DkvIntraFrom
  <2>2. To(shape, "dkv intra", i) = Grads(p.j, p.s + 1)
    BY <1>6, DkvIntraTo
  <2>3. Load(shape, "dkv intra", r, i)
          = SetToBag(Given(shape, Source(shape, r, p.j, p.s), p.j, p.s + 1))
    BY <1>6, DkvIntraLoad
  <2> QED BY <2>1, <2>2, <2>3
<1>8. Has(buf[r], From(shape, "dkv intra", i), Load(shape, "dkv intra", r, i))
  BY <1>2, <1>3, <1>7 DEF InHand, Placed
<1>9. req' = [req EXCEPT ![r] = q2]
  BY <1>3, <1>7 DEF Fresh
<1> HIDE DEF q, q2
<1>10. /\ Requested(shape, Backward, t, q2) /\ Carried(shape, Backward, r, t, q2, buf[r])
      /\ Kept(shape, Backward, p, q, t, q2)
  BY <1>2, <1>4, <1>8, CommitKeeps DEF q2, i, Rings
<1>11. InHand(shape, Backward, r, t, buf[r])
  BY <1>1, <1>2, <1>3, <1>5 DEF InHand, Placed
<1>12. Summed(shape, r, t, out[r])
  <2>1. out[r] = SetToBag(Seen(shape, r, p.j, p.s + 1))
    BY <1>2, <1>3 DEF Summed
  <2>2. CASE p.s + 1 < W(shape)
    BY <2>1, <2>2, <1>5 DEF Summed
  <2>3. CASE ~(p.s + 1 < W(shape))
    <3>1. p.s + 1 = W(shape) /\ p.j \in 0 .. N(shape)
      BY <2>3, <1>1, <1>2 DEF Placed
    <3>2. Seen(shape, r, p.j, p.s + 1) = Seen(shape, r, p.j + 1, 0)
      BY <3>1, <1>1, SeenBounds
    <3> QED BY <2>1, <2>3, <3>2, <1>5 DEF Summed
  <2> QED BY <2>2, <2>3
<1>13. buf' = [buf EXCEPT ![r] = buf[r]] /\ out' = [out EXCEPT ![r] = out[r]]
  BY <1>3 DEF Types
<1> QED BY <1>3, <1>4, <1>9, <1>10, <1>11, <1>12, <1>13, MoveKeeps DEF Single, p, q

\* A window's gradients leave for the next window.
LEMMA SendHomeKeeps ==
  ASSUME Straight(shape), Types, Singles, Paired, NEW r \in Ranks, SendHome(r)
  PROVE  Types' /\ Singles' /\ Paired'
<1> DEFINE p == pc[r]
           t == AfterWindow(p.j)
           q == req[r]
           i == Index(shape, "dkv inter", t)
           q2 == [q EXCEPT !["dkv inter"] = Fresh(shape, "dkv inter", i, FALSE, FALSE)]
<1>1. r \in RanksOf(shape) /\ W(shape) \in Nat \ {0} /\ N(shape) \in Nat \ {0}
  BY ShapeSizes DEF Straight, Ranks, RanksOf
<1>2. /\ Placed(shape, Backward, p) /\ Requested(shape, Backward, p, q)
      /\ Carried(shape, Backward, r, p, q, buf[r]) /\ InHand(shape, Backward, r, p, buf[r])
      /\ Summed(shape, r, p, out[r])
  BY DEF Singles, Single
<1>3. /\ p.at = "home" /\ pc' = [pc EXCEPT ![r] = t] /\ UNCHANGED <<shape, pass, buf, out>>
      /\ req' = [req EXCEPT ![r]["dkv inter"] =
                    [from |-> Grads(p.j, W(shape)), to |-> Grads(p.j + 1, 0), sent |-> FALSE,
                      got |-> FALSE]]
  BY DEF SendHome, Commit, Go, At, Window, W
<1>4. /\ Placed(shape, Backward, t)
      /\ Opened(shape, Backward, "dkv inter", p, t)
      /\ \A ring \in Rings \ {"dkv inter"} : Same(shape, Backward, ring, p, t)
  BY <1>2, <1>3, SendHomeMoves DEF Straight
<1>5. /\ t = Place(p.j + 1, 0, t.at)
      /\ t.at = IF p.j + 1 < N(shape) THEN "window" ELSE "end"
      /\ t.j = p.j + 1 /\ t.s = 0
  BY <1>2, <1>3, SendHomeMoves DEF Straight
<1> HIDE DEF p, t
<1>6. i = <<p.j, 0>>
  BY <1>3, <1>4 DEF Opened, Upcoming, Placed
<1> HIDE DEF i
<1>7. /\ From(shape, "dkv inter", i) = Grads(p.j, W(shape))
           /\ To(shape, "dkv inter", i) = Grads(p.j + 1, 0)
      /\ Load(shape, "dkv inter", r, i)
           = SetToBag(Given(shape, Source(shape, r, p.j, 0), p.j, W(shape)))
  <2>1. From(shape, "dkv inter", i) = Grads(p.j, W(shape))
    BY <1>6, DkvInterFrom
  <2>2. To(shape, "dkv inter", i) = Grads(p.j + 1, 0)
    BY <1>6, DkvInterTo
  <2>3. Load(shape, "dkv inter", r, i)
          = SetToBag(Given(shape, Source(shape, r, p.j, 0), p.j, W(shape)))
    BY <1>6, DkvInterLoad
  <2> QED BY <2>1, <2>2, <2>3
<1>8. Has(buf[r], From(shape, "dkv inter", i), Load(shape, "dkv inter", r, i))
  BY <1>2, <1>3, <1>7 DEF InHand, Placed
<1>9. req' = [req EXCEPT ![r] = q2]
  BY <1>3, <1>7 DEF Fresh
<1> HIDE DEF q, q2
<1>10. /\ Requested(shape, Backward, t, q2) /\ Carried(shape, Backward, r, t, q2, buf[r])
      /\ Kept(shape, Backward, p, q, t, q2)
  BY <1>2, <1>4, <1>8, CommitKeeps DEF q2, i, Rings
<1>11. InHand(shape, Backward, r, t, buf[r])
  BY <1>1, <1>2, <1>3, <1>5 DEF InHand, Placed
<1>12. Summed(shape, r, t, out[r])
  BY <1>1, <1>2, <1>3, <1>5 DEF Summed, Placed
<1>13. buf' = [buf EXCEPT ![r] = buf[r]] /\ out' = [out EXCEPT ![r] = out[r]]
  BY <1>3 DEF Types
<1> QED BY <1>3, <1>4, <1>9, <1>10, <1>11, <1>12, <1>13, MoveKeeps DEF Single, p, q

\* The first keys of a window have come.
LEMMA WaitWindowKeeps ==
  ASSUME Straight(shape), Types, Singles, Paired, NEW r \in Ranks, WaitWindow(r)
  PROVE  Types' /\ Singles' /\ Paired'
<1> DEFINE p == pc[r]
           t == AtWindow(p.j)
           q == req[r]
           i == Index(shape, "inter", p)
           q2 == [q EXCEPT !["inter"] = NoRequest]
<1>1. r \in RanksOf(shape) /\ W(shape) \in Nat \ {0} /\ N(shape) \in Nat \ {0}
  BY ShapeSizes DEF Straight, Ranks, RanksOf
<1>2. /\ Placed(shape, Backward, p) /\ Requested(shape, Backward, p, q)
      /\ Carried(shape, Backward, r, p, q, buf[r]) /\ InHand(shape, Backward, r, p, buf[r])
      /\ Summed(shape, r, p, out[r])
  BY DEF Singles, Single
<1>3. /\ p.at = "window" /\ pc' = [pc EXCEPT ![r] = t] /\ UNCHANGED <<shape, pass, buf, out>>
      /\ req' = [req EXCEPT ![r]["inter"] = NoRequest] /\ q["inter"].sent /\ q["inter"].got
  BY DEF WaitWindow, Wait, Go, At
<1>4. /\ Placed(shape, Backward, t)
      /\ Closed(shape, Backward, "inter", p, t)
      /\ \A ring \in Rings \ {"inter"} : Same(shape, Backward, ring, p, t)
  BY <1>2, <1>3, WaitWindowMoves DEF Straight
<1>5. /\ t = Place(p.j, 0, t.at) /\ t.at \in {"onward", "keys", "grads", "compute"}
      /\ t.at = "onward" <=> p.j + 1 < N(shape)
      /\ t.at \in {"keys", "grads", "compute"} =>
           t.at = IF 1 < W(shape) THEN "keys" ELSE IF Backward THEN "grads" ELSE "compute"
      /\ t.j = p.j /\ t.s = 0
  BY <1>2, <1>3, WaitWindowMoves DEF Straight
<1> HIDE DEF p, t
<1>6. i = <<p.j - 1, 0>>
  BY <1>3, <1>4 DEF Closed, Index, Placed
<1> HIDE DEF i
<1>7. To(shape, "inter", i) = Keys(p.j, 0)
        /\ Delivery(shape, "inter", r, i) = Source(shape, r, p.j, 0)
  <2>1. /\ p.j \in 0 .. N(shape) /\ p.s \in 0 .. W(shape) - 1
    BY <1>2, <1>3 DEF Placed
  <2>2. p.j - 1 \in Int /\ 0 \in Int /\ p.j - 1 + 1 = p.j
    BY <1>1, <2>1
  <2>3. PICK x \in Int : x = p.j - 1
    BY <2>2
  <2>4. PICK y \in Int : y = 0
    BY <2>2
  <2>5. i = <<x, y>>
    BY <1>6, <2>3, <2>4
  <2>6. To(shape, "inter", i) = Keys(x + 1, 0)
    BY <2>5, InterTo
  <2>7. Delivery(shape, "inter", r, i) = Source(shape, r, x + 1, 0)
    BY <2>5, InterDelivery
  <2> QED BY <2>2, <2>3, <2>4, <2>6, <2>7
<1>8. req' = [req EXCEPT ![r] = q2]
  BY <1>3
<1> HIDE DEF q, q2
<1>9. /\ Requested(shape, Backward, t, q2) /\ Carried(shape, Backward, r, t, q2, buf[r])
      /\ Kept(shape, Backward, p, q, t, q2)
      /\ Has(buf[r], To(shape, "inter", i), Delivery(shape, "inter", r, i))
  BY <1>2, <1>3, <1>4, WaitKeeps DEF q2, i, Rings
<1>10. Has(buf[r], Keys(p.j, 0), Source(shape, r, p.j, 0))
  BY <1>7, <1>9
<1>11. InHand(shape, Backward, r, t, buf[r])
  BY <1>1, <1>2, <1>3, <1>5, <1>10 DEF InHand, Placed
<1>12. Summed(shape, r, t, out[r])
  BY <1>1, <1>2, <1>3, <1>5 DEF Summed, Placed
<1>13. buf' = [buf EXCEPT ![r] = buf[r]] /\ out' = [out EXCEPT ![r] = out[r]]
  BY <1>3 DEF Types
<1> QED BY <1>3, <1>4, <1>8, <1>9, <1>11, <1>12, <1>13, MoveKeeps DEF Single, p, q

\* The gradients of the keys of a step have come, inside a window.
LEMMA WaitGradsInWindowKeeps ==
  ASSUME Straight(shape), Types, Singles, Paired, NEW r \in Ranks, WaitGrads(r), pc[r].s > 0
  PROVE  Types' /\ Singles' /\ Paired'
<1> DEFINE p == pc[r]
           t == Place(p.j, p.s, "compute")
           q == req[r]
           i == Index(shape, "dkv intra", p)
           q2 == [q EXCEPT !["dkv intra"] = NoRequest]
<1>1. r \in RanksOf(shape) /\ W(shape) \in Nat \ {0} /\ N(shape) \in Nat \ {0}
  BY ShapeSizes DEF Straight, Ranks, RanksOf
<1>2. /\ Placed(shape, Backward, p) /\ Requested(shape, Backward, p, q)
      /\ Carried(shape, Backward, r, p, q, buf[r]) /\ InHand(shape, Backward, r, p, buf[r])
      /\ Summed(shape, r, p, out[r])
  BY DEF Singles, Single
<1>3. /\ p.at = "grads" /\ pc' = [pc EXCEPT ![r] = t] /\ UNCHANGED <<shape, pass, buf, out>>
      /\ req' = [req EXCEPT ![r]["dkv intra"] = NoRequest] /\ q["dkv intra"].sent
           /\ q["dkv intra"].got
      /\ p.s > 0
  <2>1. (IF p.s > 0 THEN "dkv intra" ELSE "dkv inter") = "dkv intra" /\ p.s > 0
    OBVIOUS
  <2>2. Wait(r, "dkv intra")
    BY <2>1 DEF WaitGrads
  <2> QED BY <2>1, <2>2 DEF WaitGrads, Wait, Go, At
<1>4. /\ Placed(shape, Backward, t)
      /\ Closed(shape, Backward, "dkv intra", p, t)
      /\ \A ring \in Rings \ {"dkv intra"} : Same(shape, Backward, ring, p, t)
  BY <1>2, <1>3, WaitGradsInWindowMoves DEF Straight
<1>5. /\ t = Place(p.j, p.s, "compute")
      /\ t.at = "compute"
      /\ t.j = p.j /\ t.s = p.s
  BY <1>2, <1>3, WaitGradsInWindowMoves DEF Straight
<1> HIDE DEF p, t
<1>6. i = <<p.j, p.s - 1>>
  BY <1>3, <1>4 DEF Closed, Index, Placed
<1> HIDE DEF i
<1>7. To(shape, "dkv intra", i) = Grads(p.j, p.s)
        /\ Delivery(shape, "dkv intra", r, i)
             = SetToBag(Given(shape, Source(shape, r, p.j, p.s), p.j, p.s))
  <2>1. /\ p.j \in 0 .. N(shape) /\ p.s \in 0 .. W(shape) - 1
    BY <1>2, <1>3 DEF Placed
  <2>2. p.j \in Int /\ p.s - 1 \in Int /\ p.s - 1 + 1 = p.s
    BY <1>1, <2>1
  <2>3. PICK x \in Int : x = p.j
    BY <2>2
  <2>4. PICK y \in Int : y = p.s - 1
    BY <2>2
  <2>5. i = <<x, y>>
    BY <1>6, <2>3, <2>4
  <2>6. To(shape, "dkv intra", i) = Grads(x, y + 1)
    BY <2>5, DkvIntraTo
  <2>7. Delivery(shape, "dkv intra", r, i)
          = SetToBag(Given(shape, Source(shape, r, x, y + 1), x, y + 1))
    BY <2>5, DkvIntraDelivery
  <2> QED BY <2>2, <2>3, <2>4, <2>6, <2>7
<1>8. req' = [req EXCEPT ![r] = q2]
  BY <1>3
<1> HIDE DEF q, q2
<1>9. /\ Requested(shape, Backward, t, q2) /\ Carried(shape, Backward, r, t, q2, buf[r])
      /\ Kept(shape, Backward, p, q, t, q2)
      /\ Has(buf[r], To(shape, "dkv intra", i), Delivery(shape, "dkv intra", r, i))
  BY <1>2, <1>3, <1>4, WaitKeeps DEF q2, i, Rings
<1>10. Has(buf[r], Grads(p.j, p.s), SetToBag(Given(shape, Source(shape, r, p.j, p.s), p.j, p.s)))
  BY <1>7, <1>9
<1>11. InHand(shape, Backward, r, t, buf[r])
  BY <1>1, <1>2, <1>3, <1>5, <1>10 DEF InHand, Placed
<1>12. Summed(shape, r, t, out[r])
  BY <1>1, <1>2, <1>3, <1>5 DEF Summed, Placed
<1>13. buf' = [buf EXCEPT ![r] = buf[r]] /\ out' = [out EXCEPT ![r] = out[r]]
  BY <1>3 DEF Types
<1> QED BY <1>3, <1>4, <1>8, <1>9, <1>11, <1>12, <1>13, MoveKeeps DEF Single, p, q

\* The gradients of the first keys of a window have come.
LEMMA WaitGradsOfWindowKeeps ==
  ASSUME Straight(shape), Types, Singles, Paired, NEW r \in Ranks, WaitGrads(r), pc[r].s = 0
  PROVE  Types' /\ Singles' /\ Paired'
<1> DEFINE p == pc[r]
           t == Place(p.j, p.s, "compute")
           q == req[r]
           i == Index(shape, "dkv inter", p)
           q2 == [q EXCEPT !["dkv inter"] = NoRequest]
<1>1. r \in RanksOf(shape) /\ W(shape) \in Nat \ {0} /\ N(shape) \in Nat \ {0}
  BY ShapeSizes DEF Straight, Ranks, RanksOf
<1>2. /\ Placed(shape, Backward, p) /\ Requested(shape, Backward, p, q)
      /\ Carried(shape, Backward, r, p, q, buf[r]) /\ InHand(shape, Backward, r, p, buf[r])
      /\ Summed(shape, r, p, out[r])
  BY DEF Singles, Single
<1>3. /\ p.at = "grads" /\ pc' = [pc EXCEPT ![r] = t] /\ UNCHANGED <<shape, pass, buf, out>>
      /\ req' = [req EXCEPT ![r]["dkv inter"] = NoRequest] /\ q["dkv inter"].sent
           /\ q["dkv inter"].got
      /\ p.s = 0
  <2>1. (IF p.s > 0 THEN "dkv intra" ELSE "dkv inter") = "dkv inter" /\ p.s = 0
    OBVIOUS
  <2>2. Wait(r, "dkv inter")
    BY <2>1 DEF WaitGrads
  <2> QED BY <2>1, <2>2 DEF WaitGrads, Wait, Go, At
<1>4. /\ Placed(shape, Backward, t)
      /\ Closed(shape, Backward, "dkv inter", p, t)
      /\ \A ring \in Rings \ {"dkv inter"} : Same(shape, Backward, ring, p, t)
  BY <1>2, <1>3, WaitGradsOfWindowMoves DEF Straight
<1>5. /\ t = Place(p.j, 0, "compute")
      /\ t.at = "compute"
      /\ t.j = p.j /\ t.s = 0
  BY <1>2, <1>3, WaitGradsOfWindowMoves DEF Straight
<1> HIDE DEF p, t
<1>6. i = <<p.j - 1, 0>>
  BY <1>3, <1>4 DEF Closed, Index, Placed
<1> HIDE DEF i
<1>7. To(shape, "dkv inter", i) = Grads(p.j, 0)
        /\ Delivery(shape, "dkv inter", r, i)
             = SetToBag(Given(shape, Source(shape, r, p.j, 0), p.j, 0))
  <2>1. /\ p.j \in 0 .. N(shape) /\ p.s \in 0 .. W(shape) - 1
    BY <1>2, <1>3 DEF Placed
  <2>2. p.j - 1 \in Int /\ 0 \in Int /\ p.j - 1 + 1 = p.j
    BY <1>1, <2>1
  <2>3. PICK x \in Int : x = p.j - 1
    BY <2>2
  <2>4. PICK y \in Int : y = 0
    BY <2>2
  <2>5. i = <<x, y>>
    BY <1>6, <2>3, <2>4
  <2>6. To(shape, "dkv inter", i) = Grads(x + 1, 0)
    BY <2>5, DkvInterTo
  <2>7. Delivery(shape, "dkv inter", r, i)
          = SetToBag(Given(shape, Source(shape, r, x + 1, 0), x + 1, 0))
    BY <2>5, DkvInterDelivery
  <2> QED BY <2>2, <2>3, <2>4, <2>6, <2>7
<1>8. req' = [req EXCEPT ![r] = q2]
  BY <1>3
<1> HIDE DEF q, q2
<1>9. /\ Requested(shape, Backward, t, q2) /\ Carried(shape, Backward, r, t, q2, buf[r])
      /\ Kept(shape, Backward, p, q, t, q2)
      /\ Has(buf[r], To(shape, "dkv inter", i), Delivery(shape, "dkv inter", r, i))
  BY <1>2, <1>3, <1>4, WaitKeeps DEF q2, i, Rings
<1>10. Has(buf[r], Grads(p.j, 0), SetToBag(Given(shape, Source(shape, r, p.j, 0), p.j, 0)))
  BY <1>7, <1>9
<1>11. InHand(shape, Backward, r, t, buf[r])
  BY <1>1, <1>2, <1>3, <1>5, <1>10 DEF InHand, Placed
<1>12. Summed(shape, r, t, out[r])
  BY <1>1, <1>2, <1>3, <1>5 DEF Summed, Placed
<1>13. buf' = [buf EXCEPT ![r] = buf[r]] /\ out' = [out EXCEPT ![r] = out[r]]
  BY <1>3 DEF Types
<1> QED BY <1>3, <1>4, <1>8, <1>9, <1>11, <1>12, <1>13, MoveKeeps DEF Single, p, q

\* The keys of the next step have come.
LEMMA WaitKeysKeeps ==
  ASSUME Straight(shape), Types, Singles, Paired, NEW r \in Ranks, WaitKeys(r)
  PROVE  Types' /\ Singles' /\ Paired'
<1> DEFINE p == pc[r]
           t == AfterKeys(p.j, p.s)
           q == req[r]
           i == Index(shape, "intra", p)
           q2 == [q EXCEPT !["intra"] = NoRequest]
<1>1. r \in RanksOf(shape) /\ W(shape) \in Nat \ {0} /\ N(shape) \in Nat \ {0}
  BY ShapeSizes DEF Straight, Ranks, RanksOf
<1>2. /\ Placed(shape, Backward, p) /\ Requested(shape, Backward, p, q)
      /\ Carried(shape, Backward, r, p, q, buf[r]) /\ InHand(shape, Backward, r, p, buf[r])
      /\ Summed(shape, r, p, out[r])
  BY DEF Singles, Single
<1>3. /\ p.at = "arrival" /\ pc' = [pc EXCEPT ![r] = t] /\ UNCHANGED <<shape, pass, buf, out>>
      /\ req' = [req EXCEPT ![r]["intra"] = NoRequest] /\ q["intra"].sent /\ q["intra"].got
  BY DEF WaitKeys, Wait, Go, At
<1>4. /\ Placed(shape, Backward, t)
      /\ Closed(shape, Backward, "intra", p, t)
      /\ \A ring \in Rings \ {"intra"} : Same(shape, Backward, ring, p, t)
  BY <1>2, <1>3, WaitKeysMoves DEF Straight
<1>5. /\ t = Place(p.j, t.s, t.at)
      /\ Backward => t.s = p.s /\ t.at = "pass"
      /\ ~Backward => t.s = p.s + 1 /\ t.at = IF p.s + 2 < W(shape) THEN "keys" ELSE "compute"
      /\ t.j = p.j
  BY <1>2, <1>3, WaitKeysMoves DEF Straight
<1> HIDE DEF p, t
<1>6. i = <<p.j, p.s>>
  BY <1>3, <1>4 DEF Closed, Index, Placed
<1> HIDE DEF i
<1>7. To(shape, "intra", i) = Keys(p.j, p.s + 1)
        /\ Delivery(shape, "intra", r, i) = Source(shape, r, p.j, p.s + 1)
  <2>1. /\ p.j \in 0 .. N(shape) /\ p.s \in 0 .. W(shape) - 1
    BY <1>2, <1>3 DEF Placed
  <2>2. p.j \in Int /\ p.s \in Int
    BY <1>1, <2>1
  <2>3. PICK x \in Int : x = p.j
    BY <2>2
  <2>4. PICK y \in Int : y = p.s
    BY <2>2
  <2>5. i = <<x, y>>
    BY <1>6, <2>3, <2>4
  <2>6. To(shape, "intra", i) = Keys(x, y + 1)
    BY <2>5, IntraTo
  <2>7. Delivery(shape, "intra", r, i) = Source(shape, r, x, y + 1)
    BY <2>5, IntraDelivery
  <2> QED BY <2>2, <2>3, <2>4, <2>6, <2>7
<1>8. req' = [req EXCEPT ![r] = q2]
  BY <1>3
<1> HIDE DEF q, q2
<1>9. /\ Requested(shape, Backward, t, q2) /\ Carried(shape, Backward, r, t, q2, buf[r])
      /\ Kept(shape, Backward, p, q, t, q2)
      /\ Has(buf[r], To(shape, "intra", i), Delivery(shape, "intra", r, i))
  BY <1>2, <1>3, <1>4, WaitKeeps DEF q2, i, Rings
<1>10. Has(buf[r], Keys(p.j, p.s + 1), Source(shape, r, p.j, p.s + 1))
  BY <1>7, <1>9
<1>11. InHand(shape, Backward, r, t, buf[r])
  BY <1>1, <1>2, <1>3, <1>5, <1>10 DEF InHand, Placed
<1>12. Summed(shape, r, t, out[r])
  BY <1>1, <1>2, <1>3, <1>5 DEF Summed, Placed
<1>13. buf' = [buf EXCEPT ![r] = buf[r]] /\ out' = [out EXCEPT ![r] = out[r]]
  BY <1>3 DEF Types
<1> QED BY <1>3, <1>4, <1>8, <1>9, <1>11, <1>12, <1>13, MoveKeeps DEF Single, p, q

\* The gradients of a window's last step have come.
LEMMA WaitLastKeeps ==
  ASSUME Straight(shape), Types, Singles, Paired, NEW r \in Ranks, WaitLast(r)
  PROVE  Types' /\ Singles' /\ Paired'
<1> DEFINE p == pc[r]
           t == Place(p.j, 0, "home")
           q == req[r]
           i == Index(shape, "dkv intra", p)
           q2 == [q EXCEPT !["dkv intra"] = NoRequest]
<1>1. r \in RanksOf(shape) /\ W(shape) \in Nat \ {0} /\ N(shape) \in Nat \ {0}
  BY ShapeSizes DEF Straight, Ranks, RanksOf
<1>2. /\ Placed(shape, Backward, p) /\ Requested(shape, Backward, p, q)
      /\ Carried(shape, Backward, r, p, q, buf[r]) /\ InHand(shape, Backward, r, p, buf[r])
      /\ Summed(shape, r, p, out[r])
  BY DEF Singles, Single
<1>3. /\ p.at = "last" /\ pc' = [pc EXCEPT ![r] = t] /\ UNCHANGED <<shape, pass, buf, out>>
      /\ req' = [req EXCEPT ![r]["dkv intra"] = NoRequest] /\ q["dkv intra"].sent
           /\ q["dkv intra"].got
  BY DEF WaitLast, Wait, Go, At
<1>4. /\ Placed(shape, Backward, t)
      /\ Closed(shape, Backward, "dkv intra", p, t)
      /\ \A ring \in Rings \ {"dkv intra"} : Same(shape, Backward, ring, p, t)
  BY <1>2, <1>3, WaitLastMoves DEF Straight
<1>5. /\ t = Place(p.j, 0, "home")
      /\ t.at = "home"
      /\ t.j = p.j /\ t.s = 0
  BY <1>2, <1>3, WaitLastMoves DEF Straight
<1> HIDE DEF p, t
<1>6. i = <<p.j, W(shape) - 1>>
  BY <1>3, <1>4 DEF Closed, Index, Placed
<1> HIDE DEF i
<1>7. To(shape, "dkv intra", i) = Grads(p.j, W(shape))
        /\ Delivery(shape, "dkv intra", r, i)
             = SetToBag(Given(shape, Source(shape, r, p.j, 0), p.j, W(shape)))
  <2>1. /\ p.j \in 0 .. N(shape) /\ p.s \in 0 .. W(shape) - 1
    BY <1>2, <1>3 DEF Placed
  <2>2. p.j \in Int /\ W(shape) - 1 \in Int /\ W(shape) - 1 + 1 = W(shape)
    BY <1>1, <2>1
  <2>3. PICK x \in Int : x = p.j
    BY <2>2
  <2>4. PICK y \in Int : y = W(shape) - 1
    BY <2>2
  <2>5. i = <<x, y>>
    BY <1>6, <2>3, <2>4
  <2>6. To(shape, "dkv intra", i) = Grads(x, y + 1)
    BY <2>5, DkvIntraTo
  <2>7. Delivery(shape, "dkv intra", r, i)
          = SetToBag(Given(shape, Source(shape, r, x, y + 1), x, y + 1))
    BY <2>5, DkvIntraDelivery
  <2>8. Source(shape, r, p.j, W(shape)) = Source(shape, r, p.j, 0)
    BY <1>1, <2>1, SourceTurns
  <2> QED BY <2>2, <2>3, <2>4, <2>6, <2>7, <2>8
<1>8. req' = [req EXCEPT ![r] = q2]
  BY <1>3
<1> HIDE DEF q, q2
<1>9. /\ Requested(shape, Backward, t, q2) /\ Carried(shape, Backward, r, t, q2, buf[r])
      /\ Kept(shape, Backward, p, q, t, q2)
      /\ Has(buf[r], To(shape, "dkv intra", i), Delivery(shape, "dkv intra", r, i))
  BY <1>2, <1>3, <1>4, WaitKeeps DEF q2, i, Rings
<1>10. Has(buf[r], Grads(p.j, W(shape)),
         SetToBag(Given(shape, Source(shape, r, p.j, 0), p.j, W(shape))))
  BY <1>7, <1>9
<1>11. InHand(shape, Backward, r, t, buf[r])
  BY <1>1, <1>2, <1>3, <1>5, <1>10 DEF InHand, Placed
<1>12. Summed(shape, r, t, out[r])
  BY <1>1, <1>2, <1>3, <1>5 DEF Summed, Placed
<1>13. buf' = [buf EXCEPT ![r] = buf[r]] /\ out' = [out EXCEPT ![r] = out[r]]
  BY <1>3 DEF Types
<1> QED BY <1>3, <1>4, <1>8, <1>9, <1>11, <1>12, <1>13, MoveKeeps DEF Single, p, q

\* The gradients of a rank's own keys have come home.
LEMMA WaitHomeKeeps ==
  ASSUME Straight(shape), Types, Singles, Paired, NEW r \in Ranks, WaitHome(r)
  PROVE  Types' /\ Singles' /\ Paired'
<1> DEFINE p == pc[r]
           t == Place(Windows, 0, "done")
           q == req[r]
           i == Index(shape, "dkv inter", p)
           q2 == [q EXCEPT !["dkv inter"] = NoRequest]
<1>1. r \in RanksOf(shape) /\ W(shape) \in Nat \ {0} /\ N(shape) \in Nat \ {0}
  BY ShapeSizes DEF Straight, Ranks, RanksOf
<1>2. /\ Placed(shape, Backward, p) /\ Requested(shape, Backward, p, q)
      /\ Carried(shape, Backward, r, p, q, buf[r]) /\ InHand(shape, Backward, r, p, buf[r])
      /\ Summed(shape, r, p, out[r])
  BY DEF Singles, Single
<1>3. /\ p.at = "end" /\ pc' = [pc EXCEPT ![r] = t] /\ UNCHANGED <<shape, pass, buf, out>>
      /\ req' = [req EXCEPT ![r]["dkv inter"] = NoRequest] /\ q["dkv inter"].sent
           /\ q["dkv inter"].got
  BY DEF WaitHome, Wait, Go, At
<1>4. /\ Placed(shape, Backward, t)
      /\ Closed(shape, Backward, "dkv inter", p, t)
      /\ \A ring \in Rings \ {"dkv inter"} : Same(shape, Backward, ring, p, t)
  BY <1>2, <1>3, WaitHomeMoves DEF Straight
<1>5. /\ t = Place(N(shape), 0, "done")
      /\ t.at = "done"
      /\ t.j = N(shape) /\ t.s = 0
  BY <1>2, <1>3, WaitHomeMoves DEF Straight
<1> HIDE DEF p, t
<1>6. i = <<p.j - 1, 0>>
  BY <1>3, <1>4 DEF Closed, Index, Placed
<1> HIDE DEF i
<1>7. To(shape, "dkv inter", i) = Grads(p.j, 0)
        /\ Delivery(shape, "dkv inter", r, i) = SetToBag(Given(shape, r, p.j, 0))
  <2>1. /\ p.j \in 0 .. N(shape) /\ p.s \in 0 .. W(shape) - 1 /\ p.j = N(shape)
    BY <1>2, <1>3 DEF Placed
  <2>2. p.j - 1 \in Int /\ 0 \in Int /\ p.j - 1 + 1 = p.j /\ p.j = N(shape)
    BY <1>1, <2>1
  <2>3. PICK x \in Int : x = p.j - 1
    BY <2>2
  <2>4. PICK y \in Int : y = 0
    BY <2>2
  <2>5. i = <<x, y>>
    BY <1>6, <2>3, <2>4
  <2>6. To(shape, "dkv inter", i) = Grads(x + 1, 0)
    BY <2>5, DkvInterTo
  <2>7. Delivery(shape, "dkv inter", r, i)
          = SetToBag(Given(shape, Source(shape, r, x + 1, 0), x + 1, 0))
    BY <2>5, DkvInterDelivery
  <2>8. Source(shape, r, p.j, 0) = r
    BY <1>1, <2>1, SourceTurns
  <2> QED BY <2>2, <2>3, <2>4, <2>6, <2>7, <2>8
<1>8. req' = [req EXCEPT ![r] = q2]
  BY <1>3
<1> HIDE DEF q, q2
<1>9. /\ Requested(shape, Backward, t, q2) /\ Carried(shape, Backward, r, t, q2, buf[r])
      /\ Kept(shape, Backward, p, q, t, q2)
      /\ Has(buf[r], To(shape, "dkv inter", i), Delivery(shape, "dkv inter", r, i))
  BY <1>2, <1>3, <1>4, WaitKeeps DEF q2, i, Rings
<1>10. Has(buf[r], Grads(p.j, 0), SetToBag(Given(shape, r, p.j, 0)))
  BY <1>7, <1>9
<1>11. InHand(shape, Backward, r, t, buf[r])
  BY <1>1, <1>2, <1>3, <1>5, <1>10 DEF InHand, Placed
<1>12. Summed(shape, r, t, out[r])
  BY <1>1, <1>2, <1>3, <1>5 DEF Summed, Placed
<1>13. buf' = [buf EXCEPT ![r] = buf[r]] /\ out' = [out EXCEPT ![r] = out[r]]
  BY <1>3 DEF Types
<1> QED BY <1>3, <1>4, <1>8, <1>9, <1>11, <1>12, <1>13, MoveKeeps DEF Single, p, q

-----------------------------------------------------------------------------
\* Bags of sets: the sum of disjoint ones is that of their union.
LEMMA BagOfUnion ==
  ASSUME NEW S, NEW T, S \cap T = {}
  PROVE  SetToBag(S) (+) SetToBag(T) = SetToBag(S \union T)
BY DEF SetToBag, (+)

\* Buffers are told apart by what they hold and for which step.
LEMMA Names ==
  ASSUME NEW x, NEW y, NEW v, NEW z
  PROVE  /\ Keys(x, y) = Keys(v, z) => x = v /\ y = z
         /\ Grads(x, y) = Grads(v, z) => x = v /\ y % 2 = z % 2
         /\ Keys(x, y) # Grads(v, z)
BY DEF Keys, Grads

\* No buffer of keys is one of gradients.
LEMMA KeysNotGrads ==
  ASSUME NEW x, NEW y, NEW v, NEW z
  PROVE  Keys(x, y) # Grads(v, z)
BY DEF Keys, Grads

\* The rings of keys use the buffers of keys.
LEMMA KeyBuffers ==
  ASSUME NEW c, NEW i, NEW ring \in {"inter", "intra"}
  PROVE  (\E x, y : From(c, ring, i) = Keys(x, y)) /\ (\E x, y : To(c, ring, i) = Keys(x, y))
<1>1. CASE ring = "inter"
  BY <1>1, Zenon DEF From, To
<1>2. CASE ring = "intra"
  <2>1. ring # "inter"
    BY <1>2
  <2> QED BY <2>1, <1>2, Zenon DEF From, To
<1> QED BY <1>1, <1>2

\* A ring of keys and a ring of gradients use different buffers.
LEMMA Kinds ==
  ASSUME NEW c, NEW i, NEW k, NEW ring \in {"inter", "intra"},
         NEW ring2 \in {"dkv inter", "dkv intra"}
  PROVE  /\ From(c, ring2, k) # To(c, ring, i) /\ To(c, ring2, k) # To(c, ring, i)
         /\ From(c, ring, i) # To(c, ring2, k) /\ To(c, ring, i) # To(c, ring2, k)
<1>1. From(c, ring, i)[1] = "keys" /\ To(c, ring, i)[1] = "keys"
  <2>1. CASE ring = "inter"
    BY <2>1 DEF From, To, Keys
  <2>2. CASE ring = "intra"
    BY <2>2 DEF From, To, Keys
  <2> QED BY <2>1, <2>2
<1>2. From(c, ring2, k)[1] = "grads" /\ To(c, ring2, k)[1] = "grads"
  <2>1. CASE ring2 = "dkv inter"
    BY <2>1 DEF From, To, Grads
  <2>2. CASE ring2 = "dkv intra"
    BY <2>2 DEF From, To, Grads
  <2> QED BY <2>1, <2>2
<1> QED BY <1>1, <1>2

\* Consecutive steps take different buffers.
LEMMA Parity ==
  ASSUME NEW x \in Nat
  PROVE  (x + 1) % 2 # x % 2
OBVIOUS

\* A written buffer has the value, the others what they had.
LEMMA Writes ==
  ASSUME NEW b, NEW name, NEW value
  PROVE  /\ Has(Write(name, value, b), name, value)
         /\ \A other : \A v : other # name /\ Has(b, other, v)
              => Has(Write(name, value, b), other, v)
BY DEF Has, Write

\* The blocks of a step are computed and, in the backward pass, their
\* gradients added to those of the keys.
LEMMA ComputeKeepsIInv ==
  ASSUME Straight(shape), Types, Singles, Paired, NEW r \in Ranks, Compute(r)
  PROVE  Types' /\ Singles' /\ Paired'
<1> DEFINE p == pc[r]
           j == p.j
           s == p.s
           t == AfterCompute(j, s)
           q == req[r]
           b == buf[r]
           o == Source(shape, r, j, s)
           new == SetToBag(Pair(shape, r, o))
           b2 == IF Backward THEN Write(Grads(j, s), SetToBag(Given(shape, o, j, s + 1)), b) ELSE b
           o2 == SetToBag(Seen(shape, r, j, s + 1))
<1>1. r \in RanksOf(shape) /\ W(shape) \in Nat \ {0} /\ N(shape) \in Nat \ {0}
  BY ShapeSizes DEF Straight, Ranks, RanksOf
<1>2. /\ Placed(shape, Backward, p) /\ Requested(shape, Backward, p, q)
      /\ Carried(shape, Backward, r, p, q, b) /\ InHand(shape, Backward, r, p, b)
      /\ Summed(shape, r, p, out[r])
  BY DEF Singles, Single
<1>3. p.at = "compute" /\ pc' = [pc EXCEPT ![r] = t] /\ UNCHANGED <<shape, pass, req>>
  BY DEF Compute, Go, At
<1>4. j \in 0 .. N(shape) - 1 /\ s \in 0 .. W(shape) - 1
  BY <1>1, <1>2, <1>3 DEF Placed
<1>5. j \in 0 .. N(shape) /\ s \in 0 .. W(shape)
  BY <1>1, <1>4
<1>6. o \in RanksOf(shape)
  BY <1>1, <1>5, Sourced
<1>7. Owner(r, j, s) = o
  BY <1>2, <1>3 DEF Owner, Read, InHand, Has
<1>8. SetToBag(Blocks(r, Owner(r, j, s), j, s)) = new
  BY <1>4, <1>7, BlocksOfStep
<1>9. out[r] (+) new = o2
  <2>1. out[r] = SetToBag(Seen(shape, r, j, s))
    BY <1>2, <1>3 DEF Summed
  <2>2. Seen(shape, r, j, s) \intersect Pair(shape, r, o) = {}
    BY <1>1, <1>4, SeenGrows
  <2>3. Seen(shape, r, j, s + 1) = Seen(shape, r, j, s) \union Pair(shape, r, o)
    BY <1>1, <1>4, SeenGrows
  <2> QED BY <2>1, <2>2, <2>3, BagOfUnion
<1>10. Given(shape, o, j, s + 1) = Given(shape, o, j, s) \union Pair(shape, r, o)
  BY <1>1, <1>4, GivenGrows
<1>11. Given(shape, o, j, s) \intersect Pair(shape, r, o) = {}
  BY <1>1, <1>4, GivenGrows
<1>12. ASSUME Backward
       PROVE  (IF j = 0 /\ s = 0 THEN new ELSE Read(r, Grads(j, s), EmptyBag) (+) new)
                = SetToBag(Given(shape, o, j, s + 1))
  <2>1. CASE j = 0 /\ s = 0
    <3>1. Given(shape, o, j, s) = {}
      BY <2>1, <1>6, GivenBounds
    <3>2. Given(shape, o, j, s + 1) = Pair(shape, r, o)
      BY <3>1, <1>10
    <3> QED BY <2>1, <3>2
  <2>2. CASE ~(j = 0 /\ s = 0)
    <3>1. j > 0 \/ s > 0
      BY <2>2, <1>1, <1>4
    <3>2. Read(r, Grads(j, s), EmptyBag) = SetToBag(Given(shape, o, j, s))
      BY <3>1, <1>12, <1>2, <1>3 DEF InHand, Has, Read
    <3>3. SetToBag(Given(shape, o, j, s)) (+) new = SetToBag(Given(shape, o, j, s + 1))
      BY <1>10, <1>11, BagOfUnion
    <3> QED BY <2>2, <3>2, <3>3
  <2> QED BY <2>1, <2>2
<1>13. out' = [out EXCEPT ![r] = o2]
  BY <1>8, <1>9 DEF Compute
<1>14. buf' = [buf EXCEPT ![r] = b2]
  <2>1. CASE Backward
    BY <2>1, <1>8, <1>12 DEF Compute
  <2>2. CASE ~Backward
    BY <2>2 DEF Compute, Types
  <2> QED BY <2>1, <2>2
<1>15. /\ Placed(shape, Backward, t) /\ \A ring \in Rings : Same(shape, Backward, ring, p, t)
       /\ s + 1 < W(shape) => t.j = j /\ t.s = s /\ t.at = "arrival"
       /\ ~(s + 1 < W(shape)) /\ Backward => t.j = j /\ t.s = s /\ t.at = "pass"
       /\ ~(s + 1 < W(shape)) /\ ~Backward =>
            t.j = j + 1 /\ t.s = 0 /\ t.at = IF j + 1 < N(shape) THEN "window" ELSE "done"
  BY <1>2, <1>3, ComputeMoves DEF Straight
<1> HIDE DEF p, t, q, b, o, new, o2
<1>16. \A name : \A v : (\A x, y : name # Grads(x, y)) /\ Has(b, name, v) => Has(b2, name, v)
  BY Writes
<1>17. ASSUME NEW ring \in Rings, Open(shape, Backward, ring, p)
       PROVE  LET i == Index(shape, ring, p) IN
              /\ \A x, y : From(shape, ring, i) # Grads(x, y)
              /\ \A x, y : To(shape, ring, i) # Grads(x, y)
  <2>1. ring \in {"inter", "intra"}
    BY <1>3, <1>17 DEF Open, Rings
  <2> QED BY <2>1, KeyBuffers, KeysNotGrads
<1> HIDE DEF b2
<1>18. /\ Requested(shape, Backward, t, q) /\ Carried(shape, Backward, r, t, q, b2)
       /\ Kept(shape, Backward, p, q, t, q)
  BY <1>2, <1>15, <1>16, <1>17, ComputeKeeps
<1>19. InHand(shape, Backward, r, t, b2)
  <2>1. CASE Backward
    <3>1. Has(b2, Grads(j, s), SetToBag(Given(shape, o, j, s + 1)))
      BY <2>1, Writes DEF b2
    <3>2. t.j = j /\ t.s = s /\ t.at \in {"arrival", "pass"}
            /\ (t.at = "pass" => ~(s + 1 < W(shape)))
      BY <2>1, <1>15
    <3> QED BY <3>1, <3>2 DEF InHand, o
  <2>2. CASE ~Backward
    <3>1. t.at \in {"arrival", "window", "done"}
      BY <2>2, <1>15
    <3> QED BY <2>2, <3>1 DEF InHand
  <2> QED BY <2>1, <2>2
<1>20. Summed(shape, r, t, o2)
  <2>1. CASE s + 1 < W(shape) \/ Backward
    <3>1. t.j = j /\ t.s = s /\ t.at \in {"arrival", "pass"}
      BY <2>1, <1>15
    <3> QED BY <3>1 DEF Summed, o2
  <2>2. CASE ~(s + 1 < W(shape)) /\ ~Backward
    <3>1. t.j = j + 1 /\ t.s = 0 /\ t.at \in {"window", "done"}
      BY <2>2, <1>15
    <3>2. s + 1 = W(shape)
      BY <2>2, <1>1, <1>4
    <3>3. Seen(shape, r, j, s + 1) = Seen(shape, r, j + 1, 0)
      BY <3>2, <1>1, <1>5, SeenBounds
    <3> QED BY <3>1, <3>3 DEF Summed, o2
  <2> QED BY <2>1, <2>2
<1>21. req' = [req EXCEPT ![r] = q]
  BY <1>3 DEF Types, q
<1> QED BY <1>3, <1>13, <1>14, <1>15, <1>18, <1>19, <1>20, <1>21, MoveKeeps DEF Single, p, q

\* What arrives overwrites nothing that a rank still needs.
LEMMA ArrivalInHand ==
  ASSUME NEW c \in Shapes, NEW back \in BOOLEAN, NEW r, NEW p, NEW b, Placed(c, back, p),
         NEW ring \in Rings,
         Open(c, back, ring, p), InHand(c, back, r, p, b), NEW value,
         NEW b2, b2 = Write(To(c, ring, Index(c, ring, p)), value, b)
  PROVE  InHand(c, back, r, p, b2)
<1> DEFINE name == To(c, ring, Index(c, ring, p))
<1>1. W(c) \in Nat \ {0} /\ N(c) \in Nat \ {0}
  BY ShapeSizes
<1>2. p.j \in Nat /\ p.s \in Nat
  BY <1>1 DEF Placed
<1> HIDE DEF name
<1>3. \A other : \A v : other # name /\ Has(b, other, v) => Has(b2, other, v)
  BY Writes DEF name
<1>4. CASE ring = "inter"
  <2>1. name = Keys((IF p.at = "window" THEN p.j - 1 ELSE p.j) + 1, 0) /\ p.at # "onward"
          /\ p.at # "done"
    BY <1>1, <1>2, <1>4 DEF name, Open, Index, To
  <2>2. \A x, y : Grads(x, y) # name
    BY <2>1, Names
  <2>3. CASE p.at = "window"
    BY <2>3 DEF InHand
  <2>4. CASE p.at # "window"
    <3>1. name = Keys(p.j + 1, 0)
      BY <2>1, <2>4
    <3>2. \A y : Keys(p.j, y) # name
      <4>1. p.j # p.j + 1
        BY <1>2
      <4> QED BY <3>1, <4>1, Names
    <3> QED BY <1>3, <2>1, <2>2, <3>2 DEF InHand
  <2> QED BY <2>3, <2>4
<1>5. CASE ring = "intra"
  <2>1. name = Keys(p.j, p.s + 1) /\ p.at \in {"grads", "compute", "arrival"}
    BY <1>5 DEF name, Open, Index, To
  <2>2. \A x, y : Grads(x, y) # name
    BY <2>1, Names
  <2>3. Keys(p.j, p.s) # name
    <3>1. p.s # p.s + 1
      BY <1>2
    <3> QED BY <2>1, <3>1, Names
  <2> QED BY <1>3, <2>1, <2>2, <2>3 DEF InHand
<1>6. CASE ring \in {"dkv intra", "dkv inter"}
  <2>1. \E x, y : name = Grads(x, y)
    BY <1>6 DEF name, To
  <2>2. p.at \in {"window", "onward", "keys", "grads", "last", "end"}
    BY <1>6 DEF Open
  <2>3. \A x, y : Keys(x, y) # name
    BY <2>1, Names
  <2> QED BY <1>3, <2>2, <2>3 DEF InHand
<1> QED BY <1>4, <1>5, <1>6 DEF Rings

\* Nor what a rank still has to send, or has received of another ring.
LEMMA ArrivalClash ==
  ASSUME NEW c \in Shapes, NEW back \in BOOLEAN, NEW p, Placed(c, back, p), NEW ring \in Rings,
         NEW ring2 \in Rings,
         Open(c, back, ring, p), Open(c, back, ring2, p)
  PROVE  /\ From(c, ring2, Index(c, ring2, p)) # To(c, ring, Index(c, ring, p))
         /\ ring2 # ring => To(c, ring2, Index(c, ring2, p)) # To(c, ring, Index(c, ring, p))
<1>1. W(c) \in Nat \ {0} /\ N(c) \in Nat \ {0}
  BY ShapeSizes
<1>2. p.j \in Nat /\ p.s \in Nat
  BY <1>1 DEF Placed
<1> DEFINE At2(k) == Index(c, k, p)
<1>3. CASE ring \in {"inter", "intra"} /\ ring2 \in {"dkv intra", "dkv inter"}
  BY <1>3, Kinds
<1>4. CASE ring2 \in {"inter", "intra"} /\ ring \in {"dkv intra", "dkv inter"}
  BY <1>4, Kinds
<1>5. ASSUME ring = "inter" PROVE To(c, ring, Index(c, ring, p))
             = Keys(IF p.at = "window" THEN p.j ELSE p.j + 1, 0)
  BY <1>5, <1>2 DEF Index, To
<1>6. ASSUME ring2 = "inter" PROVE To(c, ring2, Index(c, ring2, p))
             = Keys(IF p.at = "window" THEN p.j ELSE p.j + 1, 0)
  BY <1>6, <1>2 DEF Index, To
<1>7. ASSUME ring2 = "inter" PROVE From(c, ring2, Index(c, ring2, p))
             = Keys(IF p.at = "window" THEN p.j - 1 ELSE p.j, 0)
  BY <1>7 DEF Index, From
<1>8. ASSUME ring = "intra" PROVE To(c, ring, Index(c, ring, p)) = Keys(p.j, p.s + 1)
  BY <1>8 DEF Index, To
<1>9. ASSUME ring2 = "intra" PROVE To(c, ring2, Index(c, ring2, p)) = Keys(p.j, p.s + 1)
  BY <1>9 DEF Index, To
<1>10. ASSUME ring2 = "intra" PROVE From(c, ring2, Index(c, ring2, p)) = Keys(p.j, p.s)
  BY <1>10 DEF Index, From
<1>11. CASE ring = "inter" /\ ring2 = "inter"
  <2>1. (IF p.at = "window" THEN p.j ELSE p.j + 1) # (IF p.at = "window" THEN p.j - 1 ELSE p.j)
    BY <1>2
  <2> QED BY <1>11, <1>5, <1>7, <2>1, Names
<1>12. CASE ring = "inter" /\ ring2 = "intra"
  <2>1. p.at # "window"
    BY <1>12 DEF Open
  <2>2. p.j # p.j + 1
    BY <1>2
  <2> QED BY <1>12, <1>5, <1>9, <1>10, <2>1, <2>2, Names
<1>13. CASE ring = "intra" /\ ring2 = "inter"
  <2>1. p.at # "window"
    BY <1>13 DEF Open
  <2>2. p.j # p.j + 1 /\ 0 # p.s + 1
    BY <1>2
  <2> QED BY <1>13, <1>6, <1>7, <1>8, <2>1, <2>2, Names
<1>14. CASE ring = "intra" /\ ring2 = "intra"
  <2>1. p.s # p.s + 1
    BY <1>2
  <2> QED BY <1>14, <1>8, <1>10, <2>1, Names
<1>15. CASE ring \in {"dkv intra", "dkv inter"} /\ ring2 \in {"dkv intra", "dkv inter"}
  <2>1. ring = ring2
    <3>1. Open(c, back, "dkv intra", p) => p.at = "last" \/ (p.at \in {"keys", "grads"} /\ p.s > 0)
      BY Zenon DEF Open
    <3>2. Open(c, back, "dkv inter", p) =>
            p.at \in {"window", "onward", "end"} \/ (p.at \in {"keys", "grads"} /\ p.s = 0)
      BY Zenon DEF Open
    <3>3. ~(Open(c, back, "dkv intra", p) /\ Open(c, back, "dkv inter", p))
      <4>1. ~(p.s > 0 /\ p.s = 0)
        BY <1>2
      <4> QED BY <3>1, <3>2, <4>1
    <3>4. ring = "dkv intra" \/ ring = "dkv inter"
      BY <1>15
    <3>5. ring2 = "dkv intra" \/ ring2 = "dkv inter"
      BY <1>15
    <3>6. CASE ring = "dkv intra"
      BY <3>3, <3>5, <3>6
    <3>7. CASE ring = "dkv inter"
      BY <3>3, <3>5, <3>7
    <3> QED BY <3>4, <3>6, <3>7
  <2>2. CASE ring = "dkv intra"
    <3>1. PICK y \in Nat : From(c, ring, Index(c, ring, p)) = Grads(p.j, y)
            /\ To(c, ring, Index(c, ring, p)) = Grads(p.j, y + 1)
      <4>1. CASE p.at = "last"
        <5>1. PICK y \in Nat : y = W(c) - 1
          BY <1>1
        <5>2. Index(c, ring, p) = <<p.j, y>>
          BY <2>2, <4>1, <5>1 DEF Index
        <5>3. From(c, ring, Index(c, ring, p)) = Grads(p.j, y)
          BY <2>2, <5>2, DkvIntraFrom
        <5>4. To(c, ring, Index(c, ring, p)) = Grads(p.j, y + 1)
          BY <2>2, <5>2, DkvIntraTo
        <5> QED BY <5>3, <5>4
      <4>2. CASE p.at # "last"
        <5>1. PICK y \in Nat : y = p.s - 1
          <6>1. p.s > 0
            BY <2>2, <4>2 DEF Open
          <6>2. p.s - 1 \in Nat
            BY <6>1, <1>2
          <6> QED BY <6>2
        <5>2. Index(c, ring, p) = <<p.j, y>>
          BY <2>2, <4>2, <5>1 DEF Index
        <5>3. From(c, ring, Index(c, ring, p)) = Grads(p.j, y)
          BY <2>2, <5>2, DkvIntraFrom
        <5>4. To(c, ring, Index(c, ring, p)) = Grads(p.j, y + 1)
          BY <2>2, <5>2, DkvIntraTo
        <5> QED BY <5>3, <5>4
      <4> QED BY <4>1, <4>2
    <3> QED BY <2>1, <3>1, Names, Parity
  <2>3. CASE ring = "dkv inter"
    <3>1. Index(c, ring, p) = <<p.j - 1, 0>>
      BY <2>3 DEF Index
    <3>2. From(c, ring, Index(c, ring, p)) = Grads(p.j - 1, W(c))
      BY <2>3, <3>1, DkvInterFrom
    <3>3. To(c, ring, Index(c, ring, p)) = Grads(p.j - 1 + 1, 0)
      BY <2>3, <3>1, DkvInterTo
    <3>4. p.j - 1 # p.j - 1 + 1
      BY <1>2
    <3> QED BY <2>1, <3>2, <3>3, <3>4, Names
  <2> QED BY <1>15, <2>2, <2>3
<1> QED BY <1>3, <1>4, <1>11, <1>12, <1>13, <1>14, <1>15 DEF Rings

\* What a rank sends is what the next in the ring expects.
LEMMA LoadDelivered ==
  ASSUME NEW c, Straight(c), NEW back \in BOOLEAN, NEW r \in RanksOf(c), NEW p, Placed(c, back, p),
         NEW ring \in Rings,
         Open(c, back, ring, p)
  PROVE  Delivery(c, ring, Peer(c, ring, r), Index(c, ring, p))
           = Load(c, ring, r, Index(c, ring, p))
<1> DEFINE i == Index(c, ring, p)
           d == Peer(c, ring, r)
<1>1. W(c) \in Nat \ {0} /\ N(c) \in Nat \ {0}
  BY ShapeSizes DEF Straight
<1>2. p.j \in 0 .. N(c) /\ p.s \in 0 .. W(c) - 1
  BY DEF Placed
<1>3. CASE ring \in {"inter", "dkv inter"}
  <2>1. PICK x \in 0 .. N(c) - 1 : i = <<x, 0>>
    <3>1. CASE ring = "inter" /\ p.at # "window"
      <4>1. p.j + 1 < N(c)
        BY <3>1 DEF Open
      <4>2. p.j \in 0 .. N(c) - 1 /\ i = <<p.j, 0>>
        BY <4>1, <3>1, <1>1, <1>2 DEF Index
      <4> QED BY <4>2
    <3>2. CASE ring = "dkv inter" \/ p.at = "window"
      <4>1. p.j > 0
        BY <1>3, <3>2 DEF Open, Placed
      <4>2. p.j - 1 \in 0 .. N(c) - 1
        BY <4>1, <1>1, <1>2
      <4>3. i = <<p.j - 1, 0>>
        BY <1>3, <3>2 DEF Index
      <4> QED BY <4>2, <4>3
    <3> QED BY <1>3, <3>1, <3>2
  <2>2. i[1] = x
    BY <2>1
  <2>3. Source(c, d, x + 1, 0) = Source(c, r, x, 0)
    BY <1>3, PeerAcross
  <2>4. Source(c, r, x, 0) \in RanksOf(c)
    BY <1>1, Sourced
  <2>5. Given(c, Source(c, r, x, 0), x, W(c)) = Given(c, Source(c, r, x, 0), x + 1, 0)
    BY <1>1, <2>4, GivenBounds
  <2> HIDE DEF i, d
  <2>6. Delivery(c, ring, d, i) = Load(c, ring, r, i)
    BY <1>3, <2>2, <2>3, <2>5 DEF Delivery, Load
  <2> QED BY <2>6 DEF i, d
<1>4. CASE ring \in {"intra", "dkv intra"}
  <2>1. PICK x \in 0 .. N(c), y \in 0 .. W(c) - 1 : i = <<x, y>>
    <3>1. CASE ring = "intra"
      BY <3>1, <1>2 DEF Index
    <3>2. CASE ring = "dkv intra" /\ p.at = "last"
      <4>1. i = <<p.j, W(c) - 1>>
        BY <3>2 DEF Index
      <4>2. W(c) - 1 \in 0 .. W(c) - 1
        BY <1>1
      <4> QED BY <4>1, <4>2, <1>2
    <3>3. CASE ring = "dkv intra" /\ p.at # "last"
      <4>1. p.s > 0
        BY <3>3 DEF Open
      <4>2. i = <<p.j, p.s - 1>>
        BY <3>3 DEF Index
      <4>3. p.s - 1 \in 0 .. W(c) - 1
        BY <4>1, <1>1, <1>2
      <4> QED BY <4>2, <4>3, <1>2
    <3> QED BY <1>4, <3>1, <3>2, <3>3
  <2>2. i[1] = x /\ i[2] = y
    BY <2>1
  <2>3. Source(c, d, x, y + 1) = Source(c, r, x, y)
    BY <1>4, TurnInWindow DEF d
  <2> HIDE DEF i, d
  <2>4. Delivery(c, ring, d, i) = Load(c, ring, r, i)
    BY <1>4, <2>2, <2>3 DEF Delivery, Load
  <2> QED BY <2>4 DEF i, d
<1> QED BY <1>3, <1>4 DEF Rings

-----------------------------------------------------------------------------
(* An open request with the marks it has.                                   *)
Marked(c, ring, i, marks) == Fresh(c, ring, i, "sent" \in marks, "got" \in marks)
Sent(q) == [q EXCEPT !.sent = TRUE]
Got(q) == [q EXCEPT !.got = TRUE]

\* The fields of a marked request.
LEMMA MarkedFields ==
  ASSUME NEW c, NEW ring, NEW i, NEW marks
  PROVE  /\ Marked(c, ring, i, marks).from = From(c, ring, i)
              /\ Marked(c, ring, i, marks).to = To(c, ring, i)
         /\ Marked(c, ring, i, marks).sent <=> "sent" \in marks
         /\ Marked(c, ring, i, marks).got <=> "got" \in marks
BY DEF Marked, Fresh

\* Marking a request as sent or received changes nothing else.
LEMMA Remarks ==
  ASSUME NEW c, NEW ring, NEW i, NEW sent, NEW got
  PROVE  /\ Sent(Fresh(c, ring, i, sent, got)) = Fresh(c, ring, i, TRUE, got)
         /\ Got(Fresh(c, ring, i, sent, got)) = Fresh(c, ring, i, sent, TRUE)
<1>1. ASSUME NEW v PROVE [Fresh(c, ring, i, sent, got) EXCEPT !.sent = v]
             = Fresh(c, ring, i, v, got)
  BY DEF Fresh
<1>2. ASSUME NEW v PROVE [Fresh(c, ring, i, sent, got) EXCEPT !.got = v]
             = Fresh(c, ring, i, sent, v)
  BY DEF Fresh
<1> QED BY <1>1, <1>2, Zenon DEF Sent, Got

\* Sending adds its mark.
LEMMA MarkSent ==
  ASSUME NEW c, NEW ring, NEW i, NEW marks
  PROVE  Sent(Marked(c, ring, i, marks)) = Marked(c, ring, i, marks \union {"sent"})
<1>1. ("sent" \in marks \union {"sent"}) = TRUE
  OBVIOUS
<1>2. ("got" \in marks \union {"sent"}) = ("got" \in marks)
  OBVIOUS
<1>3. Sent(Marked(c, ring, i, marks)) = Fresh(c, ring, i, TRUE, "got" \in marks)
  BY Remarks, Zenon DEF Marked
<1>4. Marked(c, ring, i, marks \union {"sent"}) = Fresh(c, ring, i, TRUE, "got" \in marks)
  BY <1>1, <1>2, Zenon DEF Marked
<1> QED BY <1>3, <1>4

\* Receiving adds its mark.
LEMMA MarkGot ==
  ASSUME NEW c, NEW ring, NEW i, NEW marks
  PROVE  Got(Marked(c, ring, i, marks)) = Marked(c, ring, i, marks \union {"got"})
<1>1. ("got" \in marks \union {"got"}) = TRUE
  OBVIOUS
<1>2. ("sent" \in marks \union {"got"}) = ("sent" \in marks)
  OBVIOUS
<1>3. Got(Marked(c, ring, i, marks)) = Fresh(c, ring, i, "sent" \in marks, TRUE)
  BY Remarks, Zenon DEF Marked
<1>4. Marked(c, ring, i, marks \union {"got"}) = Fresh(c, ring, i, "sent" \in marks, TRUE)
  BY <1>1, <1>2, Zenon DEF Marked
<1> QED BY <1>3, <1>4

\* A marked request is one with two truth values.
LEMMA EveryMarks ==
  ASSUME NEW c, NEW ring, NEW i, NEW marks
  PROVE  \E sent, got \in BOOLEAN : Marked(c, ring, i, marks) = Fresh(c, ring, i, sent, got)
<1>1. ("sent" \in marks) \in BOOLEAN /\ ("got" \in marks) \in BOOLEAN
  OBVIOUS
<1> QED BY <1>1, Zenon DEF Marked

\* A request that is not sent, or not received, is open.
LEMMA Pending ==
  ASSUME NEW c, NEW back, NEW p, NEW q, NEW ring \in Rings, Requested(c, back, p, q),
         ~q[ring].sent \/ ~q[ring].got
  PROVE  Open(c, back, ring, p)
<1>1. ~(q[ring] = NoRequest)
  BY DEF NoRequest
<1> QED BY <1>1 DEF Requested

\* An open request has some of the two marks.
LEMMA PendingMarks ==
  ASSUME NEW c, NEW back, NEW p, NEW q, NEW ring \in Rings, Requested(c, back, p, q),
         Open(c, back, ring, p)
  PROVE  \E marks \in SUBSET {"sent", "got"} : q[ring] = Marked(c, ring, Index(c, ring, p), marks)
<1>1. PICK sent, got \in BOOLEAN : q[ring] = Fresh(c, ring, Index(c, ring, p), sent, got)
  BY DEF Requested
<1> DEFINE marks == (IF sent THEN {"sent"} ELSE {}) \union (IF got THEN {"got"} ELSE {})
<1>2. ("sent" \in marks) = sent
  OBVIOUS
<1>3. ("got" \in marks) = got
  OBVIOUS
<1>4. marks \in SUBSET {"sent", "got"}
  OBVIOUS
<1> HIDE DEF marks
<1>5. Marked(c, ring, Index(c, ring, p), marks) = Fresh(c, ring, Index(c, ring, p), sent, got)
  BY <1>2, <1>3, Zenon DEF Marked
<1>6. q[ring] = Marked(c, ring, Index(c, ring, p), marks)
  BY <1>1, <1>5, Zenon
<1> QED BY <1>4, <1>6

(* What a transfer does at one of its ends: it marks the request, and a     *)
(* receiver has what it expects.                                            *)
Ready(c, back, r, p, q, b) ==
  /\ Placed(c, back, p) /\ Requested(c, back, p, q)
  /\ Carried(c, back, r, p, q, b) /\ InHand(c, back, r, p, b)
Advanced(c, back, ring, r, p, q, b, q2, b2) ==
  /\ Open(c, back, ring, p)
  /\ \E marks \in SUBSET {"sent", "got"} :
       /\ q2 = [q EXCEPT ![ring] = Marked(c, ring, Index(c, ring, p), marks)]
       /\ q[ring].sent => "sent" \in marks
       /\ \/ b2 = b /\ ("got" \in marks => q[ring].got)
          \/ b2 = Write(To(c, ring, Index(c, ring, p)), Delivery(c, ring, r, Index(c, ring, p)), b)

\* Either end of a transfer is as it should be afterwards.
LEMMA EndKeeps ==
  ASSUME NEW c \in Shapes, NEW back \in BOOLEAN, NEW r, NEW p, NEW q, NEW b, NEW ring \in Rings,
         NEW b2, NEW q2,
         Ready(c, back, r, p, q, b), Advanced(c, back, ring, r, p, q, b, q2, b2)
  PROVE  Ready(c, back, r, p, q2, b2)
<1> DEFINE i == Index(c, ring, p)
<1>1. /\ Placed(c, back, p) /\ Requested(c, back, p, q)
      /\ Carried(c, back, r, p, q, b) /\ InHand(c, back, r, p, b) /\ Open(c, back, ring, p)
  BY DEF Ready, Advanced
<1>2. PICK marks \in SUBSET {"sent", "got"} :
       /\ q2 = [q EXCEPT ![ring] = Marked(c, ring, i, marks)]
       /\ q[ring].sent => "sent" \in marks
       /\ \/ b2 = b /\ ("got" \in marks => q[ring].got)
          \/ b2 = Write(To(c, ring, i), Delivery(c, ring, r, i), b)
  BY DEF Advanced
<1>3. /\ DOMAIN q2 = Rings /\ q2 = [k \in Rings |-> q2[k]]
      /\ q2[ring] = Marked(c, ring, i, marks)
      /\ \A k \in Rings \ {ring} : q2[k] = q[k]
  BY <1>1, <1>2 DEF Requested
<1>4. (q2[ring].sent <=> "sent" \in marks) /\ (q2[ring].got <=> "got" \in marks)
  BY <1>3, MarkedFields
<1>5. Requested(c, back, p, q2)
  <2> SUFFICES ASSUME NEW k \in Rings
               PROVE  /\ Open(c, back, k, p) =>
                           \E s, g \in BOOLEAN : q2[k] = Fresh(c, k, Index(c, k, p), s, g)
                      /\ ~Open(c, back, k, p) => q2[k] = NoRequest
    BY <1>3 DEF Requested
  <2>1. CASE k = ring
    <3>1. PICK s, g \in BOOLEAN : Marked(c, ring, i, marks) = Fresh(c, ring, i, s, g)
      BY EveryMarks, Zenon
    <3>2. q2[ring] = Fresh(c, ring, i, s, g)
      BY <1>3, <3>1, Zenon
    <3>3. \E x, y \in BOOLEAN : q2[ring] = Fresh(c, ring, i, x, y)
      BY <3>2
    <3> QED BY <2>1, <3>3, <1>1
  <2>2. CASE k # ring
    BY <2>2, <1>1, <1>3 DEF Requested
  <2> QED BY <2>1, <2>2
<1>6. CASE b2 = b /\ ("got" \in marks => q[ring].got)
  <2>1. ASSUME NEW k \in Rings
        PROVE  (~q2[k].sent => ~q[k].sent) /\ (q2[k].got => q[k].got)
    BY <1>3, <1>4, <1>6, <1>2
  <2>2. Carried(c, back, r, p, q2, b2)
    BY <2>1, <1>1, <1>6 DEF Carried
  <2> QED BY <1>1, <1>5, <1>6, <2>2 DEF Ready
<1>7. CASE b2 = Write(To(c, ring, i), Delivery(c, ring, r, i), b)
  <2> DEFINE name == To(c, ring, i)
             value == Delivery(c, ring, r, i)
  <2>1. InHand(c, back, r, p, b2)
    BY <1>1, <1>7, ArrivalInHand
  <2>2. Has(b2, name, value)
    BY <1>7, Writes
  <2>3. ASSUME NEW other, NEW v, other # name, Has(b, other, v) PROVE Has(b2, other, v)
    BY <1>7, <2>3, Writes
  <2>4. Carried(c, back, r, p, q2, b2)
    <3> SUFFICES ASSUME NEW k \in Rings, Open(c, back, k, p)
                 PROVE  /\ ~q2[k].sent => Has(b2, From(c, k, Index(c, k, p)),
                             Load(c, k, r, Index(c, k, p)))
                        /\ q2[k].got => Has(b2, To(c, k, Index(c, k, p)),
                             Delivery(c, k, r, Index(c, k, p)))
      BY DEF Carried
    <3>1. From(c, k, Index(c, k, p)) # name /\ (k # ring => To(c, k, Index(c, k, p)) # name)
      BY <1>1, ArrivalClash
    <3>2. /\ ~q[k].sent => Has(b, From(c, k, Index(c, k, p)), Load(c, k, r, Index(c, k, p)))
          /\ q[k].got => Has(b, To(c, k, Index(c, k, p)), Delivery(c, k, r, Index(c, k, p)))
      BY <1>1 DEF Carried
    <3>3. ~q2[k].sent => ~q[k].sent
      BY <1>3, <1>4, <1>2
    <3>4. CASE k = ring
      BY <3>1, <3>2, <3>3, <3>4, <2>2, <2>3
    <3>5. CASE k # ring
      <4>1. q2[k] = q[k]
        BY <3>5, <1>3
      <4> HIDE DEF name
      <4> QED BY <4>1, <3>1, <3>2, <3>5, <2>3
    <3> QED BY <3>4, <3>5
  <2> QED BY <1>1, <1>5, <2>1, <2>4 DEF Ready
<1> QED BY <1>2, <1>6, <1>7

\* A transfer brings the next of a ring what it expects, and both ends go on
\* together.
LEMMA TransferKeeps ==
  ASSUME Straight(shape), Types, Singles, Paired, NEW r \in Ranks, NEW ring \in Rings,
         Transfer(r, ring)
  PROVE  Types' /\ Singles' /\ Paired'
<1> DEFINE d == Peer(shape, ring, r)
           i == Index(shape, ring, pc[r])
           value == Read(r, req[r][ring].from, EmptyBag)
<1>1. r \in RanksOf(shape) /\ Ranks = RanksOf(shape) /\ shape \in Shapes /\ Backward \in BOOLEAN
  BY DEF Straight, Ranks, RanksOf, Backward
<1>2. \A k \in Rings, x \in Ranks : Peer(shape, k, x) \in Ranks
  BY <1>1, PeerInWindow, PeerAcross DEF Rings
<1>3. \A x \in Ranks : Peer(shape, ring, x) = d => x = r
  <2>1. CASE ring \in {"intra", "dkv intra"}
    BY <2>1, <1>1, PeerInWindow
  <2>2. CASE ring \in {"inter", "dkv inter"}
    BY <2>2, <1>1, PeerAcross
  <2> QED BY <2>1, <2>2 DEF Rings
<1>4. d \in Ranks
  BY <1>2
<1>5. \A x \in Ranks :
        /\ Placed(shape, Backward, pc[x]) /\ Requested(shape, Backward, pc[x], req[x])
        /\ Carried(shape, Backward, x, pc[x], req[x], buf[x])
             /\ InHand(shape, Backward, x, pc[x], buf[x])
        /\ Summed(shape, x, pc[x], out[x])
  BY DEF Singles, Single
<1>6. SendRank(ring, r) = d
  BY DEF SendRank, Peer
<1>7. /\ ~req[r][ring].sent /\ ~req[d][ring].got
      /\ buf' = [buf EXCEPT ![d] = Write(req[d][ring].to, value, @)]
      /\ req' = IF d = r THEN [req EXCEPT ![r][ring].sent = TRUE, ![r][ring].got = TRUE]
                ELSE [req EXCEPT ![r][ring].sent = TRUE, ![d][ring].got = TRUE]
      /\ UNCHANGED <<shape, pass, pc, out>>
  BY <1>6 DEF Transfer
<1> HIDE DEF d
<1>8. Open(shape, Backward, ring, pc[r]) /\ Open(shape, Backward, ring, pc[d])
  BY <1>4, <1>5, <1>7, Pending
<1>9. PICK m \in SUBSET {"sent", "got"} : req[r][ring] = Marked(shape, ring, i, m)
  BY <1>5, <1>8, PendingMarks
<1>10. PICK m2 \in SUBSET {"sent", "got"} : req[d][ring]
         = Marked(shape, ring, Index(shape, ring, pc[d]), m2)
  BY <1>4, <1>5, <1>8, PendingMarks
<1>11. Uses(shape, Backward, ring)
  BY <1>1, <1>5, <1>8, OpenThenNext
<1>12. Index(shape, ring, pc[d]) = i
  BY <1>7, <1>11 DEF Paired, Unsent, Ungot, d
<1>13. Upcoming(shape, ring, pc[r]) = Upcoming(shape, ring, pc[d])
  BY <1>1, <1>4, <1>5, <1>8, <1>12, OpenThenNext
<1> HIDE DEF i
<1>14. req[r][ring].from = From(shape, ring, i) /\ req[d][ring].to = To(shape, ring, i)
  BY <1>9, <1>10, <1>12, MarkedFields
<1>15. value = Delivery(shape, ring, d, i)
  <2>1. Has(buf[r], From(shape, ring, i), Load(shape, ring, r, i))
    BY <1>5, <1>7, <1>8 DEF Carried, i
  <2>2. value = Load(shape, ring, r, i)
    BY <2>1, <1>14 DEF Has, Read
  <2>3. Delivery(shape, ring, d, i) = Load(shape, ring, r, i)
    BY <1>1, <1>5, <1>8, LoadDelivered DEF d, i
  <2> QED BY <2>2, <2>3
<1> HIDE DEF value
<1>16. DOMAIN req = Ranks /\ DOMAIN buf = Ranks
  BY DEF Types
<1>17. \A x \in Ranks : buf'[x] = IF x = d THEN Write(To(shape, ring, i), value, buf[d]) ELSE buf[x]
  BY <1>4, <1>7, <1>14, <1>16
<1>18. DOMAIN req[r] = Rings /\ DOMAIN req[d] = Rings
  BY <1>4, <1>5 DEF Requested
<1>19. ASSUME d = r
       PROVE  \A x \in Ranks :
                req'[x] = IF x = r THEN [req[r] EXCEPT ![ring]
                  = Marked(shape, ring, i, m \union {"sent"} \union {"got"})]
                          ELSE req[x]
  <2>1. Got(Sent(req[r][ring])) = Marked(shape, ring, i, m \union {"sent"} \union {"got"})
    <3>1. Sent(req[r][ring]) = Marked(shape, ring, i, m \union {"sent"})
      BY <1>9, MarkSent
    <3>2. Got(Marked(shape, ring, i, m \union {"sent"}))
            = Marked(shape, ring, i, m \union {"sent"} \union {"got"})
      BY MarkGot
    <3> QED BY <3>1, <3>2
  <2>2. req' = [req EXCEPT ![r] = [req[r] EXCEPT ![ring] = Got(Sent(req[r][ring]))]]
    BY <1>7, <1>16, <1>18, <1>19 DEF Got, Sent
  <2> QED BY <2>1, <2>2, <1>16
<1>20. ASSUME d # r
       PROVE  \A x \in Ranks :
                req'[x] = IF x = r THEN [req[r] EXCEPT ![ring]
                  = Marked(shape, ring, i, m \union {"sent"})]
                          ELSE IF x = d THEN [req[d] EXCEPT ![ring]
                            = Marked(shape, ring, i, m2 \union {"got"})]
                          ELSE req[x]
  <2>1. req' = [[req EXCEPT ![r] = [req[r] EXCEPT ![ring] = Sent(req[r][ring])]]
                  EXCEPT ![d] = [req[d] EXCEPT ![ring] = Got(req[d][ring])]]
    BY <1>4, <1>7, <1>16, <1>18, <1>20 DEF Sent, Got
  <2>2. /\ Sent(req[r][ring]) = Marked(shape, ring, i, m \union {"sent"})
        /\ Got(req[d][ring]) = Marked(shape, ring, i, m2 \union {"got"})
    <3>1. Sent(Marked(shape, ring, i, m)) = Marked(shape, ring, i, m \union {"sent"})
      BY MarkSent
    <3>2. Got(Marked(shape, ring, i, m2)) = Marked(shape, ring, i, m2 \union {"got"})
      BY MarkGot
    <3> QED BY <3>1, <3>2, <1>9, <1>10, <1>12
  <2> QED BY <2>1, <2>2, <1>4, <1>16, <1>20
<1>21. Ranks' = Ranks /\ Backward' = Backward /\ shape' = shape /\ pass' = pass /\ pc' = pc
         /\ out' = out
  BY <1>7 DEF Ranks, Backward
<1>22. Types'
  <2>1. req' = [x \in Ranks |-> req'[x]]
    BY <1>7, <1>16 DEF Types
  <2>2. buf' = [x \in Ranks |-> buf'[x]]
    BY <1>7, <1>16 DEF Types
  <2> QED BY <2>1, <2>2, <1>21 DEF Types
<1>23. \A x \in Ranks : Ready(shape, Backward, x, pc[x], req[x], buf[x])
  BY <1>5 DEF Ready
<1>24. (req[r][ring].sent <=> "sent" \in m) /\ (req[r][ring].got <=> "got" \in m)
  BY <1>9, MarkedFields
<1>25. (req[d][ring].sent <=> "sent" \in m2) /\ (req[d][ring].got <=> "got" \in m2)
  BY <1>10, MarkedFields
<1>26. ASSUME NEW x \in Ranks
       PROVE  Ready(shape, Backward, x, pc[x], req'[x], buf'[x])
  <2>1. CASE x # r /\ x # d
    <3>1. req'[x] = req[x] /\ buf'[x] = buf[x]
      BY <2>1, <1>17, <1>19, <1>20
    <3> QED BY <3>1, <1>23
  <2>2. CASE x = r /\ d # r
    <3>1. req'[x] = [req[r] EXCEPT ![ring] = Marked(shape, ring, i, m \union {"sent"})]
            /\ buf'[x] = buf[r]
      BY <2>2, <1>17, <1>20
    <3> DEFINE n == m \union {"sent"}
    <3>2. n \in SUBSET {"sent", "got"} /\ "sent" \in n /\ ("got" \in n => req[r][ring].got)
      BY <1>24
    <3> HIDE DEF n
    <3>3. Advanced(shape, Backward, ring, x, pc[x], req[x], buf[x], req'[x], buf'[x])
      <4>1. req'[x] = [req[x] EXCEPT ![ring] = Marked(shape, ring, Index(shape, ring, pc[x]), n)]
        BY <2>2, <3>1 DEF n, i
      <4>2. buf'[x] = buf[x] /\ ("got" \in n => req[x][ring].got)
              /\ Open(shape, Backward, ring, pc[x])
        BY <2>2, <3>1, <3>2, <1>8
      <4> QED BY <4>1, <4>2, <3>2 DEF Advanced
    <3> QED BY <3>3, <1>1, <1>23, EndKeeps
  <2>3. CASE x = d /\ d # r
    <3>1. /\ req'[x] = [req[d] EXCEPT ![ring] = Marked(shape, ring, i, m2 \union {"got"})]
          /\ buf'[x] = Write(To(shape, ring, i), Delivery(shape, ring, d, i), buf[d])
      BY <2>3, <1>15, <1>17, <1>20
    <3>2. req[d][ring].sent => "sent" \in m2 \union {"got"}
      BY <1>25
    <3> DEFINE n == m2 \union {"got"}
    <3>3. n \in SUBSET {"sent", "got"}
      OBVIOUS
    <3> HIDE DEF n
    <3>4. Advanced(shape, Backward, ring, x, pc[x], req[x], buf[x], req'[x], buf'[x])
      <4>1. req'[x] = [req[x] EXCEPT ![ring] = Marked(shape, ring, Index(shape, ring, pc[x]), n)]
        BY <2>3, <3>1, <1>12 DEF n
      <4>2. buf'[x] = Write(To(shape, ring, Index(shape, ring, pc[x])),
                            Delivery(shape, ring, x, Index(shape, ring, pc[x])), buf[x])
        BY <2>3, <3>1, <1>12
      <4>3. (req[x][ring].sent => "sent" \in n) /\ Open(shape, Backward, ring, pc[x])
        BY <2>3, <3>2, <1>8 DEF n
      <4> QED BY <4>1, <4>2, <4>3, <3>3 DEF Advanced
    <3> QED BY <3>4, <1>1, <1>23, EndKeeps
  <2>4. CASE x = r /\ d = r
    <3>1. /\ req'[x] = [req[r] EXCEPT ![ring]
               = Marked(shape, ring, i, m \union {"sent"} \union {"got"})]
          /\ buf'[x] = Write(To(shape, ring, i), Delivery(shape, ring, r, i), buf[r])
      BY <2>4, <1>15, <1>17, <1>19
    <3>2. req[r][ring].sent => "sent" \in m \union {"sent"} \union {"got"}
      OBVIOUS
    <3> DEFINE n == m \union {"sent"} \union {"got"}
    <3>3. n \in SUBSET {"sent", "got"}
      OBVIOUS
    <3> HIDE DEF n
    <3>4. Advanced(shape, Backward, ring, x, pc[x], req[x], buf[x], req'[x], buf'[x])
      <4>1. req'[x] = [req[x] EXCEPT ![ring] = Marked(shape, ring, Index(shape, ring, pc[x]), n)]
        BY <2>4, <3>1 DEF n, i
      <4>2. buf'[x] = Write(To(shape, ring, Index(shape, ring, pc[x])),
                            Delivery(shape, ring, x, Index(shape, ring, pc[x])), buf[x])
        BY <2>4, <3>1 DEF i
      <4>3. (req[x][ring].sent => "sent" \in n) /\ Open(shape, Backward, ring, pc[x])
        BY <2>4, <3>2, <1>8 DEF n
      <4> QED BY <4>1, <4>2, <4>3, <3>3 DEF Advanced
    <3> QED BY <3>4, <1>1, <1>23, EndKeeps
  <2> QED BY <2>1, <2>2, <2>3, <2>4
<1>27. Singles'
  BY <1>5, <1>21, <1>26 DEF Singles, Single, Ready
<1>28. ASSUME NEW x \in Ranks, NEW k \in Rings
       PROVE  /\ req'[x][k].sent <=> (req[x][k].sent \/ (k = ring /\ x = r))
              /\ req'[x][k].got <=> (req[x][k].got \/ (k = ring /\ x = d))
  <2>1. \A n : (Marked(shape, ring, i, n).sent <=> "sent" \in n)
          /\ (Marked(shape, ring, i, n).got <=> "got" \in n)
    BY MarkedFields
  <2>2. CASE x # r /\ x # d
    <3>1. req'[x] = req[x]
      BY <2>2, <1>19, <1>20
    <3> QED BY <2>2, <3>1
  <2>3. CASE x = r /\ d # r
    <3>1. req'[x] = [req[r] EXCEPT ![ring] = Marked(shape, ring, i, m \union {"sent"})]
      BY <2>3, <1>20
    <3>2. req'[x][k] = IF k = ring THEN Marked(shape, ring, i, m \union {"sent"}) ELSE req[r][k]
      BY <3>1, <1>18
    <3> QED BY <2>1, <2>3, <3>2, <1>9
  <2>4. CASE x = d /\ d # r
    <3>1. req'[x] = [req[d] EXCEPT ![ring] = Marked(shape, ring, i, m2 \union {"got"})]
      BY <2>4, <1>20
    <3>2. req'[x][k] = IF k = ring THEN Marked(shape, ring, i, m2 \union {"got"}) ELSE req[d][k]
      BY <3>1, <1>18
    <3> QED BY <2>1, <2>4, <3>2, <1>10, <1>12
  <2>5. CASE x = r /\ d = r
    <3>1. req'[x] = [req[r] EXCEPT ![ring]
            = Marked(shape, ring, i, m \union {"sent"} \union {"got"})]
      BY <2>5, <1>19
    <3>2. req'[x][k] = IF k = ring THEN Marked(shape, ring, i, m \union {"sent"} \union {"got"})
            ELSE req[r][k]
      BY <3>1, <1>18
    <3> QED BY <2>1, <2>5, <3>2, <1>9
  <2> QED BY <2>2, <2>3, <2>4, <2>5
<1>29. Paired'
  <2> SUFFICES ASSUME NEW x \in Ranks, NEW k \in Rings, Uses(shape, Backward, k)
               PROVE  Unsent(shape, k, pc[x], req'[x])
                        = Ungot(shape, k, pc[Peer(shape, k, x)], req'[Peer(shape, k, x)])
    BY <1>21 DEF Paired
  <2> DEFINE y == Peer(shape, k, x)
  <2>1. y \in Ranks
    BY <1>2
  <2>2. Unsent(shape, k, pc[x], req[x]) = Ungot(shape, k, pc[y], req[y])
    BY DEF Paired
  <2>3. (k = ring /\ y = d) <=> (k = ring /\ x = r)
    BY <1>3 DEF d
  <2> HIDE DEF y
  <2>4. CASE k = ring /\ x = r
    <3>1. y = d /\ req'[x][k].sent /\ req'[y][k].got
      BY <2>1, <2>3, <2>4, <1>28
    <3> QED BY <2>4, <3>1, <1>13 DEF Unsent, Ungot, y
  <2>5. CASE ~(k = ring /\ x = r)
    <3>1. (req'[x][k].sent <=> req[x][k].sent) /\ (req'[y][k].got <=> req[y][k].got)
      BY <2>1, <2>3, <2>5, <1>28
    <3> QED BY <2>2, <3>1 DEF Unsent, Ungot, y
  <2> QED BY <2>4, <2>5
<1> QED BY <1>22, <1>27, <1>29

-----------------------------------------------------------------------------
\* At the start every rank has its own keys, no request and no sum.
LEMMA RingStarts == Init => IInv
<1> SUFFICES ASSUME Init, Straight(shape) PROVE Types /\ Singles /\ Paired
  BY DEF IInv
<1> DEFINE t == AtWindow(0)
<1>1. W(shape) \in Nat \ {0} /\ N(shape) \in Nat \ {0} /\ shape \in Shapes
  BY ShapeSizes DEF Straight
<1>2. Window = W(shape) /\ Windows = N(shape)
  BY DEF Window, Windows, W, N
<1>3. Types
  BY DEF Init, Types
<1>4. /\ t = Place(0, 0, t.at) /\ t.at \in {"onward", "keys", "compute"}
      /\ t.at = "onward" <=> 1 < N(shape)
      /\ t.at = "keys" => 1 < W(shape)
      /\ t.at = "compute" => ~(1 < W(shape))
  BY <1>1, <1>2 DEF AtWindow, AtStep, AtCompute, Place
<1>5. t.j = 0 /\ t.s = 0
  BY <1>4 DEF Place
<1>6. \A r \in Ranks : /\ pc[r] = t /\ buf[r] = [b \in {Keys(0, 0)} |-> r]
                       /\ req[r] = [ring \in Rings |-> NoRequest] /\ out[r] = EmptyBag
  BY DEF Init
<1> HIDE DEF t
<1>7. Placed(shape, Backward, t)
  BY <1>1, <1>4, <1>5 DEF Placed, Place, Points
<1>8. ASSUME NEW ring \in Rings PROVE ~Open(shape, Backward, ring, t)
  <2>1. t.at # "onward" => ~(t.j + 1 < N(shape))
    BY <1>1, <1>4, <1>5
  <2>2. t.at = "compute" => ~(t.s + 1 < W(shape))
    BY <1>1, <1>4, <1>5
  <2>3. ~(t.j > 0) /\ ~(t.s > 0)
    BY <1>5
  <2>4. t.at = "onward" \/ t.at = "keys" \/ t.at = "compute"
    BY <1>4
  <2> QED BY <2>1, <2>2, <2>3, <2>4 DEF Open
<1>9. ASSUME NEW r \in Ranks
      PROVE  Single(shape, Backward, r, pc[r], req[r], buf[r], out[r])
  <2>1. r \in RanksOf(shape)
    BY DEF Ranks, RanksOf
  <2>2. Requested(shape, Backward, t, req[r])
    BY <1>6, <1>8 DEF Requested
  <2>3. Carried(shape, Backward, r, t, req[r], buf[r])
    BY <1>8 DEF Carried
  <2>4. Has(buf[r], Keys(0, 0), Source(shape, r, 0, 0))
    <3>1. Source(shape, r, 0, 0) = r
      BY <2>1, SourceTurns
    <3> QED BY <3>1, <1>6 DEF Has
  <2>5. InHand(shape, Backward, r, t, buf[r])
    BY <2>4, <1>4, <1>5 DEF InHand
  <2>6. Seen(shape, r, 0, 0) = {}
    BY <2>1, SeenBounds
  <2>7. EmptyBag = SetToBag({})
    BY DEF EmptyBag
  <2>8. Summed(shape, r, t, out[r])
    BY <2>6, <2>7, <1>4, <1>5, <1>6 DEF Summed
  <2> QED BY <2>2, <2>3, <2>5, <2>8, <1>6, <1>7 DEF Single
<1>10. Singles
  BY <1>9 DEF Singles
<1>11. Paired
  <2>1. \A x \in Ranks, k \in Rings : Peer(shape, k, x) \in Ranks
    BY PeerInWindow, PeerAcross DEF Rings, Ranks, RanksOf
  <2>2. ASSUME NEW x \in Ranks, NEW k \in Rings
        PROVE  Unsent(shape, k, pc[x], req[x]) = Upcoming(shape, k, t)
                 /\ Ungot(shape, k, pc[x], req[x]) = Upcoming(shape, k, t)
    <3>1. req[x][k].sent /\ req[x][k].got
      BY <1>6 DEF NoRequest
    <3> QED BY <3>1, <1>6 DEF Unsent, Ungot
  <2> QED BY <2>1, <2>2 DEF Paired
<1> QED BY <1>3, <1>10, <1>11

\* Every step keeps it: the calls of a rank, the transfers, and nothing at
\* all.
LEMMA RingSteps == IInv /\ [Next]_vars => IInv'
<1> SUFFICES ASSUME IInv, [Next]_vars PROVE IInv'
  OBVIOUS
<1>1. shape' = shape
  <2>1. ASSUME NEW r \in Ranks, Step(r) PROVE shape' = shape
    BY <2>1 DEF Step, WaitWindow, SendWindow, SendKeys, WaitGrads, Compute, WaitKeys, SendGrads,
       WaitLast,
                SendHome, WaitHome, Go
  <2>2. ASSUME NEW r \in Ranks, NEW ring \in Rings, Transfer(r, ring) PROVE shape' = shape
    BY <2>2 DEF Transfer
  <2>3. CASE Finished \/ UNCHANGED vars
    BY <2>3 DEF Finished, vars
  <2> QED BY <2>1, <2>2, <2>3 DEF Next
<1>2. SUFFICES ASSUME Straight(shape) PROVE Types' /\ Singles' /\ Paired'
  BY <1>1 DEF IInv, Straight
<1>3. Types /\ Singles /\ Paired
  BY <1>2 DEF IInv
<1>4. ASSUME NEW r \in Ranks, WaitWindow(r) PROVE Types' /\ Singles' /\ Paired'
  BY <1>2, <1>3, <1>4, WaitWindowKeeps
<1>5. ASSUME NEW r \in Ranks, SendWindow(r) PROVE Types' /\ Singles' /\ Paired'
  BY <1>2, <1>3, <1>5, SendWindowKeeps
<1>6. ASSUME NEW r \in Ranks, SendKeys(r) PROVE Types' /\ Singles' /\ Paired'
  BY <1>2, <1>3, <1>6, SendKeysKeeps
<1>7. ASSUME NEW r \in Ranks, WaitGrads(r) PROVE Types' /\ Singles' /\ Paired'
  <2>1. CASE pc[r].s > 0
    BY <1>2, <1>3, <1>7, <2>1, WaitGradsInWindowKeeps
  <2>2. CASE ~(pc[r].s > 0)
    <3>1. pc[r].s \in 0 .. W(shape) - 1
      BY <1>3 DEF Singles, Single, Placed
    <3>2. W(shape) \in Nat \ {0}
      BY <1>2, ShapeSizes DEF Straight
    <3>3. pc[r].s = 0
      BY <2>2, <3>1, <3>2
    <3> QED BY <1>2, <1>3, <1>7, <3>3, WaitGradsOfWindowKeeps
  <2> QED BY <2>1, <2>2
<1>8. ASSUME NEW r \in Ranks, Compute(r) PROVE Types' /\ Singles' /\ Paired'
  BY <1>2, <1>3, <1>8, ComputeKeepsIInv
<1>9. ASSUME NEW r \in Ranks, WaitKeys(r) PROVE Types' /\ Singles' /\ Paired'
  BY <1>2, <1>3, <1>9, WaitKeysKeeps
<1>10. ASSUME NEW r \in Ranks, SendGrads(r) PROVE Types' /\ Singles' /\ Paired'
  BY <1>2, <1>3, <1>10, SendGradsKeeps
<1>11. ASSUME NEW r \in Ranks, WaitLast(r) PROVE Types' /\ Singles' /\ Paired'
  BY <1>2, <1>3, <1>11, WaitLastKeeps
<1>12. ASSUME NEW r \in Ranks, SendHome(r) PROVE Types' /\ Singles' /\ Paired'
  BY <1>2, <1>3, <1>12, SendHomeKeeps
<1>13. ASSUME NEW r \in Ranks, WaitHome(r) PROVE Types' /\ Singles' /\ Paired'
  BY <1>2, <1>3, <1>13, WaitHomeKeeps
<1>14. ASSUME NEW r \in Ranks, NEW ring \in Rings, Transfer(r, ring)
       PROVE Types' /\ Singles' /\ Paired'
  BY <1>2, <1>3, <1>14, TransferKeeps
<1>15. CASE Finished \/ UNCHANGED vars
  <2>1. /\ shape' = shape /\ pass' = pass /\ pc' = pc /\ buf' = buf /\ req' = req /\ out' = out
        /\ Ranks' = Ranks /\ Backward' = Backward
    BY <1>15 DEF Finished, vars, Ranks, Backward
  <2> QED BY <2>1, <1>3 DEF Types, Singles, Paired
<1> QED BY <1>4, <1>5, <1>6, <1>7, <1>8, <1>9, <1>10, <1>11, <1>12, <1>13, <1>14, <1>15
      DEF Next, Step

\* The causal blocks of the specification are those of the proofs.
LEMMA SameBlocks ==
  ASSUME shape \in Shapes
  PROVE  Causals(shape) = {b \in CausalBlocks : b.k <= b.q}
<1>1. PICK n \in Nat \ {0} : n = shape.context
  BY ShapeSizes
<1> DEFINE I == 0 .. 2 * n - 1
<1>2. I \subseteq Int
  OBVIOUS
<1>3. CausalBlocks = {Block(i, j, i = j) : i \in I, j \in I}
  BY <1>1 DEF CausalBlocks, Block
<1>4. ASSUME NEW b \in Causals(shape)
      PROVE  b \in CausalBlocks /\ b.k <= b.q
  <2>1. b.q \in I /\ b.k \in I /\ b.k <= b.q /\ b.mask = (b.q = b.k) /\ b = Block(b.q, b.k, b.mask)
    BY <1>1 DEF Causals, Block
  <2>2. b = Block(b.q, b.k, b.q = b.k)
    BY <2>1, Zenon
  <2> QED BY <2>1, <2>2, <1>3
<1>5. ASSUME NEW b \in CausalBlocks, b.k <= b.q
      PROVE  b \in Causals(shape)
  <2>1. PICK i \in I, j \in I : b = Block(i, j, i = j)
    BY <1>3
  <2>2. CASE i = j
    <3>1. b = Block(i, j, TRUE)
      BY <2>1, <2>2
    <3>2. b.q = i /\ b.k = j /\ b.mask = TRUE
      BY <3>1 DEF Block
    <3> QED BY <3>1, <3>2, <2>2, <1>1, <1>5 DEF Causals, Block
  <2>3. CASE i # j
    <3>1. b = Block(i, j, FALSE)
      BY <2>1, <2>3
    <3>2. b.q = i /\ b.k = j /\ b.mask = FALSE
      BY <3>1 DEF Block
    <3> QED BY <3>1, <3>2, <2>3, <1>1, <1>5 DEF Causals, Block
  <2> QED BY <2>2, <2>3
<1> QED BY <1>4, <1>5

\* A rank holds the chunks that are at home with it.
LEMMA HoldsHome ==
  ASSUME shape \in Shapes, NEW r \in Ranks, NEW k \in 0 .. 2 * shape.context - 1
  PROVE  Holds(r, k) <=> Home(shape, k) = r
<1>1. PICK n \in Nat \ {0} : n = shape.context
  BY ShapeSizes
<1> QED BY <1>1 DEF Holds, Home, Chunk, Ranks

\* At the end of both passes the invariant says what was computed.
LEMMA InvariantExact == IInv /\ ~shape.interleaved /\ shape \in Shapes => RingExact
<1> SUFFICES ASSUME IInv, ~shape.interleaved, shape \in Shapes PROVE RingExact
  OBVIOUS
<1>1. Straight(shape) /\ Singles
  BY DEF Straight, IInv
<1>2. W(shape) \in Nat \ {0} /\ N(shape) \in Nat \ {0}
  BY ShapeSizes
<1>3. \A b \in CausalBlocks : b.q \in 0 .. 2 * shape.context - 1
        /\ b.k \in 0 .. 2 * shape.context - 1
  BY DEF CausalBlocks
<1>4. ASSUME NEW r \in Ranks, Done(r)
      PROVE  /\ out[r] = Causal(LAMBDA b : Holds(r, b.q))
             /\ Backward => Read(r, Grads(N(shape), 0), EmptyBag) = Causal(LAMBDA b : Holds(r, b.k))
  <2>1. r \in RanksOf(shape)
    BY DEF Ranks, RanksOf
  <2>2. pc[r].at = "done" /\ pc[r].j = N(shape) /\ pc[r].s = 0
    BY <1>1, <1>4 DEF Singles, Single, Placed, Done, At
  <2>3. out[r] = SetToBag(Seen(shape, r, N(shape), 0))
    BY <1>1, <2>2 DEF Singles, Single, Summed
  <2>4. {b \in Causals(shape) : Home(shape, b.q) = r}
          = {b \in CausalBlocks : b.k <= b.q /\ Holds(r, b.q)}
    BY <1>3, SameBlocks, HoldsHome
  <2>5. {b \in Causals(shape) : Home(shape, b.k) = r}
          = {b \in CausalBlocks : b.k <= b.q /\ Holds(r, b.k)}
    BY <1>3, SameBlocks, HoldsHome
  <2>6. out[r] = Causal(LAMBDA b : Holds(r, b.q))
    BY <2>1, <2>3, <2>4, <1>1, SeenBounds DEF Causal
  <2>7. ASSUME Backward
        PROVE  Read(r, Grads(N(shape), 0), EmptyBag) = Causal(LAMBDA b : Holds(r, b.k))
    <3>1. Has(buf[r], Grads(N(shape), 0), SetToBag(Given(shape, r, N(shape), 0)))
      BY <1>1, <2>2, <2>7 DEF Singles, Single, InHand
    <3>2. Read(r, Grads(N(shape), 0), EmptyBag) = SetToBag(Given(shape, r, N(shape), 0))
      BY <3>1 DEF Has, Read
    <3> QED BY <2>1, <3>2, <2>5, <1>1, GivenBounds DEF Causal
  <2> QED BY <2>6, <2>7
<1>5. CausalOnce
  BY <1>4 DEF CausalOnce
<1>6. GradientsComeHome
  BY <1>4 DEF GradientsComeHome, Backward, N
<1> QED BY <1>5, <1>6 DEF RingExact

\* The inductive invariant holds of every context group, of any size and
\* window, that does not interleave its windows.
THEOREM RingInvariant == Spec => []IInv
BY RingStarts, RingSteps, PTL DEF Spec

\* The context group does not change.
LEMMA ShapeStays == Spec => [](shape \in Shapes)
<1>1. Init => shape \in Shapes
  BY DEF Init
<1>2. shape \in Shapes /\ [Next]_vars => (shape \in Shapes)'
  <2> SUFFICES ASSUME [Next]_vars PROVE shape' = shape
    OBVIOUS
  <2>1. ASSUME NEW r \in Ranks, Step(r) PROVE shape' = shape
    BY <2>1 DEF Step, WaitWindow, SendWindow, SendKeys, WaitGrads, Compute, WaitKeys, SendGrads,
       WaitLast,
                SendHome, WaitHome, Go
  <2>2. ASSUME NEW r \in Ranks, NEW ring \in Rings, Transfer(r, ring) PROVE shape' = shape
    BY <2>2 DEF Transfer
  <2>3. CASE Finished \/ UNCHANGED vars
    BY <2>3 DEF Finished, vars
  <2> QED BY <2>1, <2>2, <2>3 DEF Next
<1> QED BY <1>1, <1>2, PTL DEF Spec

\* Ring attention computes exactly causal attention and its gradients
\* (zigzag_ring_flash_attn_with_sliding_window.py): no block is missed, none
\* counted twice, none masked that should not be, whatever the timing of
\* sends.
THEOREM RingExactHolds == Spec => [](~shape.interleaved => RingExact)
<1>1. IInv /\ shape \in Shapes => (~shape.interleaved => RingExact)
  BY InvariantExact
<1> QED BY <1>1, RingInvariant, ShapeStays, PTL

=============================================================================
