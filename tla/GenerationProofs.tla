-------------------------- MODULE GenerationProofs --------------------------
(***************************************************************************)
(* Proofs about PolicySession, InterleavedGeneration and MCGeneration, for *)
(* every grid, prompt, scale and bound.  A rollout stays inside its        *)
(* context, and every pass comes to an event with the cache, the index and *)
(* the parameters the rollout sampled it with; a cache that decoding,      *)
(* forced text and appended images built is the prefill of its tokens, in  *)
(* a rollout, a pass, a call and its decode workspace; and the branches a  *)
(* denoising step reads belong to one conversation.                        *)
(***************************************************************************)
EXTENDS MCGeneration, FiniteSetTheorems, NaturalsInduction, WellFoundedInduction, TLAPS

-----------------------------------------------------------------------------
(* What the events say of the cache. *)

Entries == [token : Tokens, t : Int, h : Nat, w : Nat, upto : Int]
EventType == [kind : {"text", "image"}, tokens : Seq(Tokens), from : Nat, t : Int]

\* Cache tokens and temporal indexes an event takes, and its i-th entry.
Size(v) == IF v.kind = "text" THEN Len(v.tokens) ELSE Patches + 1
Span(v) == IF v.kind = "text" THEN Len(v.tokens) ELSE 2
EntryOf(v, i) ==
  IF v.kind = "text" THEN Entry(v.tokens[i], v.t + i, 0, 0, v.from + i)
  ELSE IF i <= Patches
  THEN Entry("patch", v.t + 1, RowOf(i - 1), ColumnOf(i - 1), v.from + Patches)
  ELSE Entry("/img", v.t + 2, 0, 0, v.from + Patches + 1)

\* Where the n-th event ends; the prompt comes before the first.
EndOf(n) == IF n = 0 THEN Len(input.prompt) ELSE events[n].from + Size(events[n])
TimeOf(n) == IF n = 0 THEN Last(Prefill(input.prompt)).t ELSE events[n].t + Span(events[n])

Holds(v) == \A i \in 1 .. Size(v) : v.from + i \in DOMAIN cache /\ cache[v.from + i] = EntryOf(v, i)

\* The prompt, and one event after another.
Recorded ==
  /\ \A i \in 1 .. Len(input.prompt) : i \in DOMAIN cache /\ cache[i] = Prefill(input.prompt)[i]
  /\ \A e \in 1 .. Len(events) :
       events[e].from = EndOf(e - 1) /\ events[e].t = TimeOf(e - 1) /\ Holds(events[e])

\* The cache ends with the last event, or with the span under way.
Ended ==
  IF phase = "span"
  THEN /\ span.from = EndOf(Len(events)) /\ span.t = TimeOf(Len(events))
       /\ Len(cache) = span.from + Len(span.tokens) /\ t = span.t + Len(span.tokens)
       /\ Holds(SpanEvent(span.tokens))
  ELSE Len(cache) = EndOf(Len(events)) /\ t = TimeOf(Len(events))

-----------------------------------------------------------------------------
(* The inductive invariant. *)

\* An event and one of its actions.
Pairs == Nat \X Nat

InRollout == phase \in {"loop", "span", "image", "rolled"}
Types ==
  /\ input \in [prompt : Prompts, modality : Modalities, backend : Backends, reference : BOOLEAN]
  /\ phase \in Phases
  /\ cache \in Seq(Entries) /\ t \in Int /\ tail \in BOOLEAN
  /\ span \in [from : Nat, t : Int, image : BOOLEAN, left : Int, tokens : Seq(Tokens)]
  /\ events \in Seq(EventType)
  /\ pass \in 0 .. 4 /\ at \in [event : Nat \ {0}, slice : Nat]
  /\ again \in Seq(Entries) /\ u \in Int /\ pending \in Nat
  /\ replayed \in [texts : Seq(Pairs), images : Seq(Pairs)]
  /\ offsets \in [text : Nat, image : Nat] /\ anchored \in Seq(Seq(Pairs))
  /\ shards \in {Current, Reference} /\ full \in {Current, Reference, "none"}
  /\ used \in {Current, Reference}

\* Which pass and which event the phases are at.
Control ==
  /\ phase \in {"pass", "anchor"} => pass \in 1 .. 4 /\ at.event \in 1 .. Len(events) + 1
  /\ phase = "anchor" => pass = 1
  /\ phase = "between" => pass \in 1 .. 3

\* The root is gathered from the shards of the pass's own policy, if it is.
PolicyOf(p) == IF Passes[p] = "reference" THEN Reference ELSE Current
Parameters ==
  /\ InRollout => shards = Current /\ full = Current
  /\ phase = "pass" => shards = PolicyOf(pass) /\ full \in {shards, "none"} /\ used = shards
  /\ phase \in {"anchor", "between", "done", "failed"} => shards = Current /\ full # Reference

\* Every span keeps the room of the image that may follow it.
Fits ==
  /\ phase # "raised" => Len(cache) <= MaxLength
  /\ phase = "raised" => Len(input.prompt) >= MaxLength
  /\ phase = "loop" => Len(cache) < MaxLength /\ (~tail => ImagesOf(events) < MaxImages)
  /\ phase = "span" =>
       /\ span.left >= 1 /\ Len(cache) + span.left + Reserve(span.image) = MaxLength
       /\ span.image => ImagesOf(events) < MaxImages
  /\ phase = "image" => Len(cache) + Patches + 2 <= MaxLength /\ ImagesOf(events) < MaxImages
  /\ ImagesOf(events) <= MaxImages
  /\ phase = "rolled" => Len(events) > 0 /\ events[Len(events)].kind = "text"

\* A pass holds the rollout's cache as it was before the event it comes to.
Follows ==
  phase = "pass" /\ at.event <= Len(events) =>
    /\ Len(again) = events[at.event].from /\ u = events[at.event].t
    /\ \A i \in 1 .. Len(again) : i \in DOMAIN cache /\ again[i] = cache[i]

\* Losses wait only inside an image of the image pass.
InsideImage ==
  /\ Passes[pass] = "image" /\ at.event <= Len(events) /\ events[at.event].kind = "image"
  /\ 0 < at.slice /\ at.slice < SlicesOf(Steps)
Backward == phase = "pass" => (pending = 0 \/ InsideImage)

\* Text actions and images of the events before the n-th.
ImagesBefore(n) == ImagesOf(SubSeq(events, 1, n - 1))
Spoken(n) == EndOf(n - 1) - Len(input.prompt) - ImagesBefore(n) * (Patches + 1)

\* The anchor's concatenation holds the actions of the events before the n-th.
Placed(e) ==
  IF events[e].kind = "text"
  THEN /\ Spoken(e) \in Nat /\ Spoken(e) + Len(events[e].tokens) <= Len(replayed.texts)
       /\ \A k \in 1 .. Len(events[e].tokens) : replayed.texts[Spoken(e) + k] = <<e, k>>
  ELSE ImagesBefore(e) + 1 <= Len(replayed.images)
    /\ replayed.images[ImagesBefore(e) + 1] = <<e, 1>>
Laid(n) ==
  /\ Len(replayed.texts) = Spoken(n) /\ Len(replayed.images) = ImagesBefore(n)
  /\ \A e \in 1 .. n - 1 : Placed(e)

Untouched ==
  /\ Len(replayed.texts) = 0 /\ Len(replayed.images) = 0 /\ offsets.text = 0 /\ offsets.image = 0
  /\ Len(anchored) = 0
Cut ==
  /\ InRollout => Untouched
  /\ phase = "pass" /\ pass = 1 =>
       Laid(at.event) /\ offsets.text = 0 /\ offsets.image = 0 /\ Len(anchored) = 0
  /\ phase = "anchor" =>
       /\ Laid(Len(events) + 1) /\ Len(anchored) = at.event - 1
       /\ offsets.text = Spoken(at.event) /\ offsets.image = ImagesBefore(at.event)
  /\ (phase = "pass" /\ pass > 1) \/ phase \in {"between", "done"} => Len(anchored) = Len(events)
  /\ \A e \in DOMAIN anchored : e \in DOMAIN events /\ anchored[e] = Own(e)

IInv ==
  Types /\ Recorded /\ Ended /\ Control /\ Parameters /\ Fits /\ Follows /\ Backward /\ Cut

-----------------------------------------------------------------------------
(* Sizes and positions. *)

\* An image has at least one patch, in a row and a column of the grid.
LEMMA GridPositions ==
  /\ Patches \in Nat \ {0}
  /\ \A k \in Nat : RowOf(k) \in Nat /\ ColumnOf(k) \in Nat /\ k % Patches \in Nat
<1>1. Rows \in Nat \ {0} /\ Columns \in Nat \ {0}
  BY GridAssumption
<1>2. \A a, b \in Nat \ {0} : a * b \in Nat \ {0}
  BY SMT
<1>3. Patches \in Nat \ {0}
  BY <1>1, <1>2 DEF Patches
<1>4. \A k \in Nat : \A n \in Nat \ {0} : k \div n \in Nat /\ k % n \in Nat
  BY SMT
<1> QED BY <1>1, <1>3, <1>4 DEF RowOf, ColumnOf

\* A set of naturals has a least element.
LEMMA HasLeast ==
  ASSUME NEW S \in SUBSET Nat, S # {}
  PROVE  \E i \in S : \A j \in S : i <= j
<1> DEFINE Less == {p \in Nat \X Nat : p[1] < p[2]}
<1>1. IsWellFoundedOn(Less, Nat)
  BY NatLessThanWellFounded DEF OpToRel
<1>2. \A a, b \in Nat : a < b => <<a, b>> \in Less
  OBVIOUS
<1> HIDE DEF Less
<1>3. PICK x \in S : \A y \in S : ~ (<<y, x>> \in Less)
  BY <1>1, WFMin
<1>4. ASSUME NEW y \in S PROVE x <= y
  <2>1. x \in Nat /\ y \in Nat
    OBVIOUS
  <2>2. ~ (y < x)
    BY <1>2, <1>3, <2>1
  <2> QED BY <2>1, <2>2
<1> QED BY <1>4

\* A set of positions has a last one: the one that leaves least.
LEMMA HasLast ==
  ASSUME NEW n \in Nat, NEW S \in SUBSET (1 .. n), S # {}
  PROVE  \E j \in S : \A k \in S : k <= j
<1> DEFINE left == {m \in Nat : n - m \in S}
<1>1. PICK k \in S : TRUE
  OBVIOUS
<1>2. k \in 1 .. n /\ n - k \in Nat /\ n - (n - k) = k
  OBVIOUS
<1>3. left \in SUBSET Nat /\ left # {}
  BY <1>2
<1>4. PICK m \in left : \A o \in left : m <= o
  <2> HIDE DEF left
  <2> QED BY <1>3, HasLeast
<1>5. ASSUME NEW i \in S PROVE i <= n - m
  <2>1. i \in 1 .. n /\ n - i \in left
    OBVIOUS
  <2> QED BY <2>1, <1>4
<1> QED BY <1>4, <1>5

\* A set of positions is finite and has a size.
LEMMA Counted ==
  ASSUME NEW n \in Int, NEW S \in SUBSET (1 .. n)
  PROVE  IsFiniteSet(S) /\ Cardinality(S) \in Nat
<1>1. IsFiniteSet(1 .. n)
  BY FS_Interval
<1>2. IsFiniteSet(S)
  BY <1>1, FS_Subset
<1> QED BY <1>2, FS_CardinalityType

\* A prefill makes one entry of each token.
LEMMA Prefilled ==
  ASSUME NEW ids \in Seq(Tokens)
  PROVE  Prefill(ids) \in Seq(Entries) /\ Len(Prefill(ids)) = Len(ids)
<1>1. PICK n \in Nat : n = Len(ids) /\ DOMAIN ids = 1 .. n
  OBVIOUS
<1>2. ASSUME NEW i \in 1 .. n PROVE TIndex(ids, i) \in Int
  <2> DEFINE texts == {j \in 1 .. i : ids[j] # "patch"}
             images == {j \in 1 .. i - 1 : ids[j] = "img"}
  <2>1. i \in Int /\ i - 1 \in Int /\ texts \in SUBSET (1 .. i) /\ images \in SUBSET (1 .. i - 1)
    OBVIOUS
  <2>2. Cardinality(texts) \in Nat
    <3> HIDE DEF texts
    <3> QED BY <2>1, Counted
  <2>3. Cardinality(images) \in Nat
    <3> HIDE DEF images
    <3> QED BY <2>1, Counted
  <2> QED BY <2>2, <2>3 DEF TIndex
<1>3. ASSUME NEW i \in 1 .. n PROVE BlockCausal(ids, i) \in Int
  <2> DEFINE S == {j \in i .. n : TIndex(ids, j) = TIndex(ids, i)}
  <2>1. S \in SUBSET (1 .. n) /\ i \in S
    OBVIOUS
  <2>2. PICK j \in S : \A k \in S : k <= j
    BY <2>1, <1>1, HasLast
  <2>3. j \in i .. n /\ TIndex(ids, j) = TIndex(ids, i)
    BY <2>2
  <2>4. \A k \in j + 1 .. n : TIndex(ids, k) # TIndex(ids, i)
    BY <2>2, <2>3, <1>1
  <2>5. \E b \in i .. n : /\ TIndex(ids, b) = TIndex(ids, i)
                          /\ \A k \in b + 1 .. n : TIndex(ids, k) # TIndex(ids, i)
    BY <2>3, <2>4
  <2>6. BlockCausal(ids, i) \in i .. n
    BY <2>5, <1>1 DEF BlockCausal
  <2> QED BY <2>6
<1>4. ASSUME NEW i \in 1 .. n PROVE Prefill(ids)[i] \in Entries
  <2> DEFINE k == Cardinality({j \in 1 .. i - 1 : ids[j] = "patch"}) % Patches
             patch == ids[i] = "patch"
             row == IF patch THEN RowOf(k) ELSE 0
             column == IF patch THEN ColumnOf(k) ELSE 0
  <2> DEFINE patches == {j \in 1 .. i - 1 : ids[j] = "patch"}
  <2>1. i - 1 \in Int /\ patches \in SUBSET (1 .. i - 1)
    OBVIOUS
  <2>2. Cardinality(patches) \in Nat
    <3> HIDE DEF patches
    <3> QED BY <2>1, Counted
  <2>3. k \in Nat
    BY <2>2, GridPositions
  <2>4. row \in Nat /\ column \in Nat
    BY <2>3, GridPositions
  <2>5. Prefill(ids)[i] = Entry(ids[i], TIndex(ids, i), row, column, BlockCausal(ids, i))
    BY <1>1 DEF Prefill
  <2>6. ids[i] \in Tokens
    BY <1>1
  <2> HIDE DEF row, column
  <2> QED BY <2>4, <2>5, <2>6, <1>2, <1>3 DEF Entry, Entries
<1>5. Prefill(ids) = [i \in 1 .. n |-> Prefill(ids)[i]]
  BY <1>1 DEF Prefill
<1>6. Prefill(ids) \in [1 .. n -> Entries]
  BY <1>4, <1>5
<1> QED BY <1>1, <1>6

\* What Append and \o do to each position.
LEMMA Appended ==
  ASSUME NEW S, NEW s \in Seq(S), NEW e \in S
  PROVE  /\ Append(s, e) \in Seq(S) /\ Len(Append(s, e)) = Len(s) + 1
         /\ \A k \in 1 .. Len(s) : Append(s, e)[k] = s[k]
         /\ Append(s, e)[Len(s) + 1] = e
OBVIOUS

\* An event's entries are entries.
LEMMA EntryTyped ==
  ASSUME NEW v \in EventType, NEW i \in 1 .. Size(v)
  PROVE  EntryOf(v, i) \in Entries
<1>1. v.t \in Int /\ v.from \in Nat /\ v.tokens \in Seq(Tokens)
  BY DEF EventType
<1>2. Patches \in Nat \ {0}
  BY GridPositions
<1>3. CASE v.kind = "text"
  <2>1. i \in 1 .. Len(v.tokens)
    BY <1>3 DEF Size
  <2>2. v.tokens[i] \in Tokens
    BY <1>1, <2>1
  <2> QED BY <1>1, <1>3, <2>1, <2>2 DEF EntryOf, Entry, Entries
<1>4. CASE v.kind # "text" /\ i <= Patches
  <2>1. i - 1 \in Nat
    BY DEF Size
  <2>2. RowOf(i - 1) \in Nat /\ ColumnOf(i - 1) \in Nat
    BY <2>1, GridPositions
  <2>3. "patch" \in Tokens
    BY DEF Tokens
  <2> QED BY <1>1, <1>2, <1>4, <2>2, <2>3 DEF EntryOf, Entry, Entries
<1>5. CASE v.kind # "text" /\ ~(i <= Patches)
  <2>1. "/img" \in Tokens
    BY DEF Tokens
  <2> QED BY <1>1, <1>2, <1>5, <2>1 DEF EntryOf, Entry, Entries
<1> QED BY <1>3, <1>4, <1>5

\* A cache d is c with an event's entries after it.
Grown(c, v, d) ==
  /\ d \in Seq(Entries) /\ Len(d) = Len(c) + Size(v)
  /\ \A i \in 1 .. Len(c) : d[i] = c[i]
  /\ \A i \in 1 .. Size(v) : d[Len(c) + i] = EntryOf(v, i)

\* What joining two sequences does to each position.
LEMMA Joined ==
  ASSUME NEW S, NEW s \in Seq(S), NEW z \in Seq(S)
  PROVE  /\ s \o z \in Seq(S) /\ Len(s \o z) = Len(s) + Len(z)
         /\ \A j \in 1 .. Len(s) : (s \o z)[j] = s[j]
         /\ \A j \in 1 .. Len(z) : (s \o z)[Len(s) + j] = z[j]
BY SMT

\* A finished image appends its own entries.
LEMMA ImageGrows ==
  ASSUME NEW c \in Seq(Entries), NEW v \in EventType, v.kind = "image", v.from = Len(c)
  PROVE  Grown(c, v, ImageAppended(c, v.t))
<1> DEFINE patches == [i \in 1 .. Patches |->
                         Entry("patch", v.t + 1, RowOf(i - 1), ColumnOf(i - 1), Len(c) + Patches)]
           end == Entry("/img", v.t + 2, 0, 0, Len(c) + Patches + 1)
           d == c \o patches
<1>1. PICK n \in Nat : n = Patches /\ n >= 1
  BY GridPositions
<1>2. Size(v) = n + 1
  BY <1>1 DEF Size
<1>3. \A i \in 1 .. n : patches[i] = EntryOf(v, i)
  BY <1>1 DEF EntryOf
<1>4. end = EntryOf(v, n + 1)
  BY <1>1 DEF EntryOf
<1>5. \A i \in 1 .. n + 1 : EntryOf(v, i) \in Entries
  BY <1>2, EntryTyped
<1>6. patches = [i \in 1 .. n |-> patches[i]] /\ \A i \in 1 .. n : patches[i] \in Entries
  BY <1>1, <1>3, <1>5
<1>7. end \in Entries
  BY <1>4, <1>5
<1>8. ImageAppended(c, v.t) = d \o <<end>>
  BY DEF ImageAppended
<1> HIDE DEF patches, end
<1>9. c \in Seq(Entries) /\ patches \in Seq(Entries) /\ Len(patches) = n
  BY <1>6
<1>10. /\ d \in Seq(Entries) /\ Len(d) = Len(c) + n
       /\ \A i \in 1 .. Len(c) : d[i] = c[i]
       /\ \A i \in 1 .. n : d[Len(c) + i] = patches[i]
  <2>1. /\ c \o patches \in Seq(Entries) /\ Len(c \o patches) = Len(c) + Len(patches)
        /\ \A k \in 1 .. Len(c) : (c \o patches)[k] = c[k]
        /\ \A k \in 1 .. Len(patches) : (c \o patches)[Len(c) + k] = patches[k]
    BY <1>9, SMT
  <2> QED BY <2>1, <1>9
<1> HIDE DEF d
<1>11. <<end>> \in Seq(Entries) /\ Len(<<end>>) = 1 /\ <<end>>[1] = end
  BY <1>7
<1>12. /\ d \o <<end>> \in Seq(Entries) /\ Len(d \o <<end>>) = Len(d) + 1
       /\ \A i \in 1 .. Len(d) : (d \o <<end>>)[i] = d[i]
       /\ (d \o <<end>>)[Len(d) + 1] = end
  <2>1. 1 \in 1 .. 1
    OBVIOUS
  <2> QED BY <1>10, <1>11, <2>1, Joined
<1>13. Len(c) \in Nat
  OBVIOUS
<1>14. \A i \in 1 .. Len(c) : (d \o <<end>>)[i] = c[i]
  BY <1>10, <1>12, <1>13, <1>1
<1>15. ASSUME NEW i \in 1 .. n + 1 PROVE (d \o <<end>>)[Len(c) + i] = EntryOf(v, i)
  <2>1. CASE i <= n
    <3>1. Len(c) + i \in 1 .. Len(d) /\ i \in 1 .. n
      BY <1>10, <1>13, <2>1, <1>1
    <3>2. (d \o <<end>>)[Len(c) + i] = d[Len(c) + i]
      BY <3>1, <1>12
    <3>3. d[Len(c) + i] = patches[i]
      BY <3>1, <1>10
    <3> QED BY <3>1, <3>2, <3>3, <1>3
  <2>2. CASE i = n + 1
    <3>1. Len(c) + i = Len(d) + 1
      BY <1>10, <1>13, <2>2, <1>1
    <3> QED BY <3>1, <1>12, <1>4, <2>2
  <2>3. i <= n \/ i = n + 1
    OBVIOUS
  <2> QED BY <2>1, <2>2, <2>3, Zenon
<1>16. Len(d \o <<end>>) = Len(c) + Size(v)
  BY <1>2, <1>10, <1>12, <1>13
<1>17. \A i \in 1 .. Size(v) : (d \o <<end>>)[Len(c) + i] = EntryOf(v, i)
  BY <1>2, <1>15
<1> QED BY <1>8, <1>12, <1>14, <1>16, <1>17 DEF Grown

\* A forced span appends the entries its tokens had when they were sampled.
LEMMA TextGrows ==
  ASSUME NEW v \in EventType, v.kind = "text", again \in Seq(Entries), v.from = Len(again), v.t = u
  PROVE  Grown(again, v, TextReplayed(v.tokens))
<1> DEFINE w == [i \in DOMAIN v.tokens |->
                   Entry(v.tokens[i], u + i, 0, 0, ReplayMask(i, Count(v.tokens)))]
<1>1. PICK n \in Nat : n = Len(v.tokens) /\ DOMAIN v.tokens = 1 .. n
  BY DEF EventType
<1>2. Size(v) = n
  BY <1>1 DEF Size
<1>3. \A i \in 1 .. n : w[i] = EntryOf(v, i)
  BY <1>1 DEF EntryOf, ReplayMask
<1>4. w = [i \in 1 .. n |-> w[i]] /\ \A i \in 1 .. n : w[i] \in Entries
  BY <1>1, <1>2, <1>3, EntryTyped
<1>5. TextReplayed(v.tokens) = again \o w
  BY DEF TextReplayed
<1> HIDE DEF w
<1>6. again \in Seq(Entries) /\ w \in Seq(Entries) /\ Len(w) = n
  BY <1>4
<1>7. /\ again \o w \in Seq(Entries) /\ Len(again \o w) = Len(again) + Len(w)
      /\ \A k \in 1 .. Len(again) : (again \o w)[k] = again[k]
      /\ \A k \in 1 .. Len(w) : (again \o w)[Len(again) + k] = w[k]
  BY <1>6, SMT
<1> QED BY <1>2, <1>3, <1>5, <1>6, <1>7 DEF Grown

-----------------------------------------------------------------------------
(* Indexes and blocks of a prefill. *)

\* Among the first n tokens: those that are no patches, those that open an image, its patches.
Texts(ids, n) == {j \in 1 .. n : ids[j] # "patch"}
Starts(ids, n) == {j \in 1 .. n : ids[j] = "img"}
PatchesIn(ids, n) == {j \in 1 .. n : ids[j] = "patch"}

\* An index counts the tokens that are no patches, and the <img> before it once more.
LEMMA IndexCounts ==
  ASSUME NEW ids, NEW i \in Int
  PROVE  /\ TIndex(ids, i) = Cardinality(Texts(ids, i)) + Cardinality(Starts(ids, i - 1)) - 1
         /\ IsFiniteSet(Texts(ids, i)) /\ Cardinality(Texts(ids, i)) \in Nat
         /\ IsFiniteSet(Starts(ids, i - 1)) /\ Cardinality(Starts(ids, i - 1)) \in Nat
         /\ TIndex(ids, i) \in Int
<1>1. /\ Texts(ids, i) \in SUBSET (1 .. i) /\ Starts(ids, i - 1) \in SUBSET (1 .. i - 1)
      /\ i - 1 \in Int
  BY DEF Texts, Starts
<1>2. IsFiniteSet(Texts(ids, i)) /\ Cardinality(Texts(ids, i)) \in Nat
  BY <1>1, Counted
<1>3. IsFiniteSet(Starts(ids, i - 1)) /\ Cardinality(Starts(ids, i - 1)) \in Nat
  BY <1>1, Counted
<1>4. TIndex(ids, i) = Cardinality(Texts(ids, i)) + Cardinality(Starts(ids, i - 1)) - 1
  BY DEF TIndex, Texts, Starts
<1> QED BY <1>2, <1>3, <1>4

\* Indexes never fall; they rise at a token that is no patch, and after an <img>.
LEMMA IndexRises ==
  ASSUME NEW ids, NEW i \in Nat \ {0}, NEW j \in Nat \ {0}, i <= j
  PROVE  /\ TIndex(ids, i) <= TIndex(ids, j)
         /\ i < j /\ ids[j] # "patch" => TIndex(ids, i) < TIndex(ids, j)
         /\ i < j /\ ids[i] = "img" => TIndex(ids, i) < TIndex(ids, j)
<1> DEFINE a == Cardinality(Texts(ids, i))
           b == Cardinality(Texts(ids, j))
           c == Cardinality(Starts(ids, i - 1))
           d == Cardinality(Starts(ids, j - 1))
<1>1. /\ TIndex(ids, i) = a + c - 1 /\ a \in Nat /\ c \in Nat
      /\ TIndex(ids, j) = b + d - 1 /\ b \in Nat /\ d \in Nat
      /\ IsFiniteSet(Texts(ids, j)) /\ IsFiniteSet(Starts(ids, j - 1))
  <2>1. i \in Int /\ j \in Int
    OBVIOUS
  <2> QED BY <2>1, IndexCounts
<1>2. /\ Texts(ids, i) \in SUBSET Texts(ids, j)
      /\ Starts(ids, i - 1) \in SUBSET Starts(ids, j - 1)
  BY DEF Texts, Starts
<1>3. a <= b /\ (b = a => Texts(ids, j) = Texts(ids, i))
  BY <1>1, <1>2, FS_Subset
<1>4. c <= d /\ (d = c => Starts(ids, j - 1) = Starts(ids, i - 1))
  BY <1>1, <1>2, FS_Subset
<1>5. i < j /\ ids[j] # "patch" => Texts(ids, j) # Texts(ids, i)
  <2>1. ids[j] # "patch" => j \in Texts(ids, j)
    BY DEF Texts
  <2>2. i < j => j \notin Texts(ids, i)
    BY DEF Texts
  <2> QED BY <2>1, <2>2
<1>6. i < j /\ ids[i] = "img" => Starts(ids, j - 1) # Starts(ids, i - 1)
  <2>1. i < j /\ ids[i] = "img" => i \in Starts(ids, j - 1)
    BY DEF Starts
  <2>2. i \notin Starts(ids, i - 1)
    BY DEF Starts
  <2> QED BY <2>1, <2>2
<1> HIDE DEF a, b, c, d
<1> QED BY <1>1, <1>3, <1>4, <1>5, <1>6

\* The block of a token ends at the last token of its index.
LEMMA BlockHolds ==
  ASSUME NEW ids, NEW n \in Nat, Len(ids) = n, NEW i \in 1 .. n
  PROVE  /\ BlockCausal(ids, i) \in i .. n /\ TIndex(ids, BlockCausal(ids, i)) = TIndex(ids, i)
         /\ \A k \in BlockCausal(ids, i) + 1 .. n : TIndex(ids, k) # TIndex(ids, i)
<1> DEFINE S == {j \in i .. n : TIndex(ids, j) = TIndex(ids, i)}
<1>1. S \in SUBSET (1 .. n) /\ i \in S
  OBVIOUS
<1>2. PICK j \in S : \A k \in S : k <= j
  BY <1>1, HasLast
<1>3. j \in i .. n /\ TIndex(ids, j) = TIndex(ids, i)
  BY <1>2
<1>4. \A k \in j + 1 .. n : TIndex(ids, k) # TIndex(ids, i)
  BY <1>2, <1>3
<1>5. \E b \in i .. Len(ids) : /\ TIndex(ids, b) = TIndex(ids, i)
                               /\ \A k \in b + 1 .. Len(ids) : TIndex(ids, k) # TIndex(ids, i)
  BY <1>3, <1>4
<1> QED BY <1>5 DEF BlockCausal

\* There is one such token.
LEMMA BlockIs ==
  ASSUME NEW ids, NEW n \in Nat, Len(ids) = n, NEW i \in 1 .. n, NEW b \in i .. n,
         TIndex(ids, b) = TIndex(ids, i),
         \A k \in b + 1 .. n : TIndex(ids, k) # TIndex(ids, i)
  PROVE  BlockCausal(ids, i) = b
<1>1. PICK c \in i .. n : c = BlockCausal(ids, i)
  BY BlockHolds
<1>2. TIndex(ids, c) = TIndex(ids, i) /\ \A k \in c + 1 .. n : TIndex(ids, k) # TIndex(ids, i)
  BY <1>1, BlockHolds
<1>3. ~ (b < c) /\ ~ (c < b)
  BY <1>2
<1> QED BY <1>1, <1>3

\* What a prefill makes of a token.
LEMMA PrefillAt ==
  ASSUME NEW ids \in Seq(Tokens), NEW i \in 1 .. Len(ids), NEW k,
         k = Cardinality(PatchesIn(ids, i - 1)) % Patches
  PROVE  /\ ids[i] = "patch" =>
              Prefill(ids)[i] = Entry("patch", TIndex(ids, i), RowOf(k), ColumnOf(k),
                                      BlockCausal(ids, i))
         /\ ids[i] # "patch" =>
              Prefill(ids)[i] = Entry(ids[i], TIndex(ids, i), 0, 0, BlockCausal(ids, i))
         /\ Prefill(ids)[i].token = ids[i] /\ Prefill(ids)[i].t = TIndex(ids, i)
<1>1. i \in DOMAIN ids
  OBVIOUS
<1>2. Prefill(ids)[i] = Entry(ids[i], TIndex(ids, i), IF ids[i] = "patch" THEN RowOf(k) ELSE 0,
                              IF ids[i] = "patch" THEN ColumnOf(k) ELSE 0, BlockCausal(ids, i))
  BY <1>1 DEF Prefill, PatchesIn
<1> QED BY <1>2 DEF Entry

\* Tokens after a sequence leave its prefill alone, unless a patch continues its last block.
LEMMA PrefillKept ==
  ASSUME NEW ids \in Seq(Tokens), NEW all \in Seq(Tokens), NEW n \in Nat \ {0}, n = Len(ids),
         NEW l \in Nat, l = Len(all), n <= l, \A k \in 1 .. n : all[k] = ids[k],
         n < l => all[n + 1] # "patch" \/ all[n] = "img", NEW i \in 1 .. n
  PROVE  Prefill(all)[i] = Prefill(ids)[i] /\ TIndex(all, i) = TIndex(ids, i)
<1>1. \A j \in 1 .. n : TIndex(all, j) = TIndex(ids, j)
  <2> TAKE j \in 1 .. n
  <2>1. /\ {k \in 1 .. j : all[k] # "patch"} = {k \in 1 .. j : ids[k] # "patch"}
        /\ {k \in 1 .. j - 1 : all[k] = "img"} = {k \in 1 .. j - 1 : ids[k] = "img"}
    OBVIOUS
  <2> QED BY <2>1 DEF TIndex
<1>2. PICK b \in i .. n : b = BlockCausal(ids, i)
  BY BlockHolds
<1>3. TIndex(ids, b) = TIndex(ids, i) /\ \A k \in b + 1 .. n : TIndex(ids, k) # TIndex(ids, i)
  BY <1>2, BlockHolds
<1>4. ASSUME NEW k \in n + 1 .. l PROVE TIndex(all, k) # TIndex(all, i)
  <2>1. /\ TIndex(all, i) <= TIndex(all, n) /\ TIndex(all, n) <= TIndex(all, n + 1)
        /\ TIndex(all, n + 1) <= TIndex(all, k)
    BY IndexRises
  <2>2. all[n + 1] # "patch" => TIndex(all, n) < TIndex(all, n + 1)
    BY IndexRises
  <2>3. all[n] = "img" => TIndex(all, n) < TIndex(all, k)
    BY IndexRises
  <2>4. /\ TIndex(all, i) \in Int /\ TIndex(all, n) \in Int /\ TIndex(all, n + 1) \in Int
        /\ TIndex(all, k) \in Int
    BY IndexCounts
  <2>5. n < l
    OBVIOUS
  <2> QED BY <2>1, <2>2, <2>3, <2>4, <2>5
<1>5. BlockCausal(all, i) = b
  <2>1. TIndex(all, b) = TIndex(all, i)
    BY <1>1, <1>3
  <2>2. ASSUME NEW k \in b + 1 .. l PROVE TIndex(all, k) # TIndex(all, i)
    <3>1. CASE k <= n
      <4>1. k \in 1 .. n /\ k \in b + 1 .. n
        BY <3>1
      <4> QED BY <4>1, <1>1, <1>3
    <3>2. CASE k > n
      <4>1. k \in n + 1 .. l
        BY <3>2
      <4> QED BY <4>1, <1>4
    <3> QED BY <3>1, <3>2
  <2>3. i \in 1 .. l /\ b \in i .. l
    OBVIOUS
  <2> QED BY <2>1, <2>2, <2>3, BlockIs
<1>6. PICK k : k = Cardinality(PatchesIn(ids, i - 1)) % Patches
  OBVIOUS
<1>7. PatchesIn(all, i - 1) = PatchesIn(ids, i - 1)
  BY DEF PatchesIn
<1>8. i \in 1 .. Len(ids) /\ i \in 1 .. Len(all) /\ all[i] = ids[i]
  OBVIOUS
<1>9. CASE ids[i] = "patch"
  <2>1. Prefill(ids)[i] = Entry("patch", TIndex(ids, i), RowOf(k), ColumnOf(k), b)
    BY <1>2, <1>6, <1>8, <1>9, PrefillAt
  <2>2. Prefill(all)[i] = Entry("patch", TIndex(all, i), RowOf(k), ColumnOf(k), b)
    BY <1>5, <1>6, <1>7, <1>8, <1>9, PrefillAt
  <2> QED BY <2>1, <2>2, <1>1
<1>10. CASE ids[i] # "patch"
  <2>1. Prefill(ids)[i] = Entry(ids[i], TIndex(ids, i), 0, 0, b)
    BY <1>2, <1>6, <1>8, <1>10, PrefillAt
  <2>2. Prefill(all)[i] = Entry(ids[i], TIndex(all, i), 0, 0, b)
    BY <1>5, <1>6, <1>7, <1>8, <1>10, PrefillAt
  <2> QED BY <2>1, <2>2, <1>1
<1> QED BY <1>1, <1>9, <1>10

\* A run of positions after a set adds its length.
LEMMA RunAdded ==
  ASSUME NEW n \in Nat, NEW m \in Nat, NEW S \in SUBSET (1 .. n)
  PROVE  Cardinality(S \union (n + 1 .. n + m)) = Cardinality(S) + m
<1>1. IsFiniteSet(S) /\ Cardinality(S) \in Nat
  BY Counted
<1>2. IsFiniteSet(n + 1 .. n + m) /\ Cardinality(n + 1 .. n + m) = m
  <2>1. /\ IsFiniteSet(n + 1 .. n + m)
        /\ Cardinality(n + 1 .. n + m) =
             IF n + 1 > n + m THEN 0 ELSE (n + m) - (n + 1) + 1
    BY FS_Interval
  <2> QED BY <2>1
<1>3. S \cap (n + 1 .. n + m) = {}
  OBVIOUS
<1>4. Cardinality(S \cap (n + 1 .. n + m)) = 0
  BY <1>3, FS_EmptySet
<1>5. Cardinality(S \union (n + 1 .. n + m)) =
        Cardinality(S) + Cardinality(n + 1 .. n + m) - Cardinality(S \cap (n + 1 .. n + m))
  BY <1>1, <1>2, FS_Union
<1> QED BY <1>1, <1>2, <1>4, <1>5

\* After n tokens, m that only an <img> can end, or p patches and the end of their image.
TextAfter(ids, all, n, m) ==
  /\ n \in Nat \ {0} /\ m \in Nat /\ (\A k \in 1 .. n : all[k] = ids[k]) /\ ids[n] # "img"
  /\ \A k \in 1 .. m : all[n + k] # "patch" /\ (k < m => all[n + k] # "img")
ImageAfter(ids, all, n, p) ==
  /\ n \in Nat \ {0} /\ p \in Nat \ {0} /\ (\A k \in 1 .. n : all[k] = ids[k]) /\ ids[n] = "img"
  /\ (\A k \in 1 .. p : all[n + k] = "patch") /\ all[n + p + 1] = "/img"

\* Text counts one index a token; the patches of an image share the one after its <img>, its
\* end has the next.
TextIndexed(ids, all, n, m) == \A i \in 1 .. m : TIndex(all, n + i) = TIndex(ids, n) + i
ImageIndexed(ids, all, n, p) ==
  /\ \A i \in 1 .. p :
       /\ TIndex(all, n + i) = TIndex(ids, n) + 1
       /\ Cardinality(PatchesIn(all, n + i - 1)) = Cardinality(PatchesIn(ids, n)) + (i - 1)
  /\ TIndex(all, n + p + 1) = TIndex(ids, n) + 2
  /\ Cardinality(PatchesIn(all, n + p + 1)) = Cardinality(PatchesIn(ids, n)) + p

\* So text does.
LEMMA TextRunIndexes ==
  ASSUME NEW ids, NEW all, NEW n, NEW m, TextAfter(ids, all, n, m)
  PROVE  TextIndexed(ids, all, n, m)
<1> USE DEF TextAfter
<1> SUFFICES ASSUME NEW i \in 1 .. m PROVE TIndex(all, n + i) = TIndex(ids, n) + i
  BY DEF TextIndexed
<1>1. \A k \in n + 1 .. n + m : all[k] # "patch" /\ (k < n + m => all[k] # "img")
  <2> TAKE k \in n + 1 .. n + m
  <2>1. k - n \in 1 .. m /\ n + (k - n) = k
    OBVIOUS
  <2> QED BY <2>1
<1>2. Texts(all, n + i) = Texts(ids, n) \union (n + 1 .. n + i)
  <2>1. \A k \in 1 .. n + i : k \in 1 .. n \/ k \in n + 1 .. n + i
    OBVIOUS
  <2> QED BY <1>1, <2>1 DEF Texts
<1>3. Starts(all, n + i - 1) = Starts(ids, n - 1)
  <2>1. \A k \in 1 .. n + i - 1 :
          k \in 1 .. n - 1 \/ k = n \/ (k \in n + 1 .. n + m /\ k < n + m)
    OBVIOUS
  <2> QED BY <1>1, <2>1 DEF Starts
<1>4. Texts(ids, n) \in SUBSET (1 .. n)
  BY DEF Texts
<1>5. Cardinality(Texts(ids, n) \union (n + 1 .. n + i)) = Cardinality(Texts(ids, n)) + i
  BY <1>4, RunAdded
<1>6. TIndex(all, n + i) = Cardinality(Texts(all, n + i)) + Cardinality(Starts(all, n + i - 1)) - 1
  BY IndexCounts
<1>7. /\ TIndex(ids, n) = Cardinality(Texts(ids, n)) + Cardinality(Starts(ids, n - 1)) - 1
      /\ Cardinality(Texts(ids, n)) \in Nat /\ Cardinality(Starts(ids, n - 1)) \in Nat
  BY IndexCounts
<1>8. Cardinality(Texts(all, n + i)) = Cardinality(Texts(ids, n)) + i
  BY <1>2, <1>5
<1>9. Cardinality(Starts(all, n + i - 1)) = Cardinality(Starts(ids, n - 1))
  BY <1>3
<1> QED BY <1>6, <1>7, <1>8, <1>9

\* So an image does.
LEMMA ImageRunIndexes ==
  ASSUME NEW ids, NEW all, NEW n, NEW p, ImageAfter(ids, all, n, p)
  PROVE  ImageIndexed(ids, all, n, p)
<1> USE DEF ImageAfter
<1> SUFFICES ASSUME NEW i \in 1 .. p
             PROVE  /\ TIndex(all, n + i) = TIndex(ids, n) + 1
                    /\ Cardinality(PatchesIn(all, n + i - 1)) =
                         Cardinality(PatchesIn(ids, n)) + (i - 1)
                    /\ TIndex(all, n + p + 1) = TIndex(ids, n) + 2
                    /\ Cardinality(PatchesIn(all, n + p + 1)) = Cardinality(PatchesIn(ids, n)) + p
  <2>1. p \in 1 .. p
    OBVIOUS
  <2> QED BY <2>1 DEF ImageIndexed
<1>1. \A k \in n + 1 .. n + p : all[k] = "patch"
  <2> TAKE k \in n + 1 .. n + p
  <2>1. k - n \in 1 .. p /\ n + (k - n) = k
    OBVIOUS
  <2> QED BY <2>1
<1>2. /\ \A k \in 1 .. n + i : k \in 1 .. n \/ k \in n + 1 .. n + p
      /\ \A k \in 1 .. n + p + 1 : k \in 1 .. n \/ k \in n + 1 .. n + p \/ k = n + p + 1
  OBVIOUS
<1>3. Texts(all, n + i) = Texts(ids, n)
  BY <1>1, <1>2 DEF Texts
<1>4. Texts(all, n + p + 1) = Texts(ids, n) \union {n + p + 1} /\ n + p + 1 \notin Texts(ids, n)
  BY <1>1, <1>2 DEF Texts
<1>5. ASSUME NEW k \in n .. n + p
      PROVE  Starts(all, k) = Starts(ids, n - 1) \union {n} /\ n \notin Starts(ids, n - 1)
  <2>1. \A j \in 1 .. k : j \in 1 .. n - 1 \/ j = n \/ j \in n + 1 .. n + p
    OBVIOUS
  <2> QED BY <1>1, <2>1 DEF Starts
<1>6. ASSUME NEW k \in 0 .. p
      PROVE  Cardinality(PatchesIn(all, n + k)) = Cardinality(PatchesIn(ids, n)) + k
  <2>1. \A j \in 1 .. n + k : j \in 1 .. n \/ j \in n + 1 .. n + k
    OBVIOUS
  <2>2. PatchesIn(all, n + k) = PatchesIn(ids, n) \union (n + 1 .. n + k)
    BY <1>1, <2>1 DEF PatchesIn
  <2>3. PatchesIn(ids, n) \in SUBSET (1 .. n)
    BY DEF PatchesIn
  <2> QED BY <2>2, <2>3, RunAdded
<1>7. /\ TIndex(ids, n) = Cardinality(Texts(ids, n)) + Cardinality(Starts(ids, n - 1)) - 1
      /\ IsFiniteSet(Texts(ids, n)) /\ Cardinality(Texts(ids, n)) \in Nat
      /\ IsFiniteSet(Starts(ids, n - 1)) /\ Cardinality(Starts(ids, n - 1)) \in Nat
  BY IndexCounts
<1>8. /\ Cardinality(Texts(all, n + p + 1)) = Cardinality(Texts(ids, n)) + 1
      /\ \A k \in n .. n + p : Cardinality(Starts(all, k)) = Cardinality(Starts(ids, n - 1)) + 1
  <2>1. Cardinality(Texts(ids, n) \union {n + p + 1}) = Cardinality(Texts(ids, n)) + 1
    BY <1>4, <1>7, FS_AddElement
  <2>2. n \notin Starts(ids, n - 1)
    BY DEF Starts
  <2>3. Cardinality(Starts(ids, n - 1) \union {n}) = Cardinality(Starts(ids, n - 1)) + 1
    BY <1>7, <2>2, FS_AddElement
  <2>4. \A k \in n .. n + p : Starts(all, k) = Starts(ids, n - 1) \union {n}
    BY <1>5
  <2> QED BY <1>4, <2>1, <2>3, <2>4
<1>9. /\ TIndex(all, n + i) =
           Cardinality(Texts(all, n + i)) + Cardinality(Starts(all, n + i - 1)) - 1
      /\ TIndex(all, n + p + 1) =
           Cardinality(Texts(all, n + p + 1)) + Cardinality(Starts(all, n + p + 1 - 1)) - 1
  BY IndexCounts
<1>10. n + i - 1 \in n .. n + p /\ n + p + 1 - 1 = n + p /\ n + p \in n .. n + p
  OBVIOUS
<1>11. TIndex(all, n + i) = TIndex(ids, n) + 1 /\ TIndex(all, n + p + 1) = TIndex(ids, n) + 2
  BY <1>3, <1>7, <1>8, <1>9, <1>10
<1>12. PatchesIn(all, n + p + 1) = PatchesIn(all, n + p)
  <2>1. \A j \in 1 .. n + p + 1 : j \in 1 .. n + p \/ j = n + p + 1
    OBVIOUS
  <2>2. 1 .. n + p \subseteq 1 .. n + p + 1
    OBVIOUS
  <2> QED BY <2>1, <2>2 DEF PatchesIn
<1>13. i - 1 \in 0 .. p /\ n + (i - 1) = n + i - 1 /\ p \in 0 .. p
  OBVIOUS
<1>14. Cardinality(PatchesIn(all, n + (i - 1))) = Cardinality(PatchesIn(ids, n)) + (i - 1)
  BY <1>6, <1>13
<1>15. Cardinality(PatchesIn(all, n + p)) = Cardinality(PatchesIn(ids, n)) + p
  BY <1>6, <1>13
<1> QED BY <1>11, <1>12, <1>13, <1>14, <1>15

\* Adding to a multiple leaves the addend, and another multiple none.
LEMMA AfterMultiple ==
  ASSUME NEW p \in Nat \ {0}, NEW a \in Nat, a % p = 0, NEW b \in 0 .. p - 1
  PROVE  (a + b) % p = b /\ (a + p) % p = 0
<1>1. a \div p \in Nat
  OBVIOUS
<1>2. PICK q \in Nat : q = a \div p
  BY <1>1
<1>3. a = q * p
  BY <1>2
<1>4. \A r \in 0 .. p - 1 : \A o, x \in Nat : x = o * p + r => x % p = r
  OBVIOUS
<1>5. PICK o \in Nat : o = q + 1
  OBVIOUS
<1>6. a + p = o * p + 0
  BY <1>3, <1>5
<1>7. a + b = q * p + b
  BY <1>3
<1> QED BY <1>3, <1>4, <1>6, <1>7

-----------------------------------------------------------------------------
(* Caches that are the prefill of their tokens. *)

\* Such a cache with its last index; its patches are those of whole images.
Exact(c, time) ==
  /\ c \in Seq(Entries) /\ Len(c) > 0
  /\ c = Prefill(TokensOf(c)) /\ time = Last(c).t
  /\ Cardinality(PatchesIn(TokensOf(c), Len(c))) % Patches = 0

\* The images a cache has to the end.
EndsOf(c) == {i \in 1 .. Len(c) : c[i].token = "/img"}

\* Text an <img> can only end.
Plain(tokens) ==
  \A i \in 1 .. Len(tokens) :
    tokens[i] \notin {"patch", "/img"} /\ (i < Len(tokens) => tokens[i] # "img")

\* The tokens of a cache.
LEMMA TokensTyped ==
  ASSUME NEW c \in Seq(Entries)
  PROVE  /\ TokensOf(c) \in Seq(Tokens) /\ Len(TokensOf(c)) = Len(c)
         /\ \A i \in 1 .. Len(c) : TokensOf(c)[i] = c[i].token
<1>1. PICK n \in Nat : n = Len(c) /\ DOMAIN c = 1 .. n
  OBVIOUS
<1>2. \A i \in 1 .. n : c[i].token \in Tokens
  <2> TAKE i \in 1 .. n
  <2>1. c[i] \in Entries
    BY <1>1
  <2> QED BY <2>1 DEF Entries
<1>3. TokensOf(c) = [i \in 1 .. n |-> c[i].token]
  BY <1>1 DEF TokensOf
<1> QED BY <1>1, <1>2, <1>3

\* A text token takes the index after the last and sees all before it; the patches of an image
\* take the index after its <img>, see each other and not its end.
TextEntries(ids, all, n, m) ==
  \A i \in 1 .. m :
    Prefill(all)[n + i] = Entry(all[n + i], TIndex(ids, n) + i, 0, 0, n + i)
ImageEntries(ids, all, n) ==
  /\ \A i \in 1 .. Patches :
       Prefill(all)[n + i] = Entry("patch", TIndex(ids, n) + 1, RowOf(i - 1), ColumnOf(i - 1),
                                   n + Patches)
  /\ Prefill(all)[n + Patches + 1] = Entry("/img", TIndex(ids, n) + 2, 0, 0, n + Patches + 1)
  /\ Cardinality(PatchesIn(all, n + Patches + 1)) % Patches = 0

\* So a prefill reads text.
LEMMA TextExact ==
  ASSUME NEW ids \in Seq(Tokens), NEW all \in Seq(Tokens), NEW n, n = Len(ids),
         NEW m, n + m = Len(all), TextAfter(ids, all, n, m)
  PROVE  TextEntries(ids, all, n, m)
<1> SUFFICES ASSUME NEW i \in 1 .. m
             PROVE  Prefill(all)[n + i] = Entry(all[n + i], TIndex(ids, n) + i, 0, 0, n + i)
  BY DEF TextEntries
<1>1. n \in Nat \ {0} /\ m \in Nat /\ all[n + i] # "patch"
  BY DEF TextAfter
<1> USE <1>1
<1>2. \A k \in 1 .. m : TIndex(all, n + k) = TIndex(ids, n) + k
  <2>1. TextIndexed(ids, all, n, m)
    BY TextRunIndexes
  <2> QED BY <2>1 DEF TextIndexed
<1>3. TIndex(ids, n) \in Int
  BY IndexCounts
<1>4. ASSUME NEW k \in n + i + 1 .. n + m PROVE TIndex(all, k) # TIndex(all, n + i)
  <2>1. k - n \in 1 .. m /\ n + (k - n) = k /\ k - n # i
    OBVIOUS
  <2>2. TIndex(all, k) = TIndex(ids, n) + (k - n)
    BY <1>2, <2>1
  <2>3. TIndex(all, n + i) = TIndex(ids, n) + i
    BY <1>2
  <2> QED BY <1>3, <2>1, <2>2, <2>3
<1>5. n + i \in 1 .. n + m /\ n + i \in n + i .. n + m /\ n + m \in Nat
  OBVIOUS
<1>6. BlockCausal(all, n + i) = n + i
  BY <1>4, <1>5, BlockIs
<1>7. all[n + i] # "patch" /\ n + i \in 1 .. Len(all)
  BY <1>5
<1>8. Prefill(all)[n + i] = Entry(all[n + i], TIndex(all, n + i), 0, 0, BlockCausal(all, n + i))
  BY <1>7, PrefillAt
<1> QED BY <1>2, <1>6, <1>8

\* So it reads an image.
LEMMA ImageExact ==
  ASSUME NEW ids \in Seq(Tokens), NEW all \in Seq(Tokens), NEW n, n = Len(ids),
         n + Patches + 1 = Len(all), ImageAfter(ids, all, n, Patches),
         Cardinality(PatchesIn(ids, n)) % Patches = 0
  PROVE  ImageEntries(ids, all, n)
<1>1. PICK p \in Nat \ {0} : p = Patches
  BY GridPositions
<1>2. n \in Nat \ {0} /\ (\A k \in 1 .. p : all[n + k] = "patch") /\ all[n + p + 1] = "/img"
  BY <1>1 DEF ImageAfter
<1> USE <1>2
<1>3. PICK a \in Nat : a = Cardinality(PatchesIn(ids, n))
  <2>1. PatchesIn(ids, n) \in SUBSET (1 .. n)
    BY DEF PatchesIn
  <2>2. n \in Int
    OBVIOUS
  <2> QED BY <2>1, <2>2, Counted
<1>4. /\ \A i \in 1 .. p : /\ TIndex(all, n + i) = TIndex(ids, n) + 1
                           /\ Cardinality(PatchesIn(all, n + i - 1)) = a + (i - 1)
      /\ TIndex(all, n + p + 1) = TIndex(ids, n) + 2
      /\ Cardinality(PatchesIn(all, n + p + 1)) = a + p
  <2>1. ImageIndexed(ids, all, n, p)
    BY <1>1, ImageRunIndexes
  <2> QED BY <1>3, <2>1 DEF ImageIndexed
<1>5. TIndex(ids, n) \in Int
  BY IndexCounts
<1>6. PICK l \in Nat : l = n + p + 1 /\ l = Len(all)
  BY <1>1
<1>7. ASSUME NEW i \in 1 .. p
      PROVE  Prefill(all)[n + i] = Entry("patch", TIndex(ids, n) + 1, RowOf(i - 1), ColumnOf(i - 1),
                                         n + p)
  <2>1. n + i \in 1 .. l /\ n + p \in n + i .. l
    BY <1>6
  <2>2. TIndex(all, n + p) = TIndex(all, n + i)
    <3>1. p \in 1 .. p
      OBVIOUS
    <3> QED BY <3>1, <1>4, Zenon
  <2>3. \A k \in n + p + 1 .. l : TIndex(all, k) # TIndex(all, n + i)
    <3> TAKE k \in n + p + 1 .. l
    <3>1. k = n + p + 1
      BY <1>6
    <3>2. TIndex(all, n + i) = TIndex(ids, n) + 1 /\ TIndex(all, k) = TIndex(ids, n) + 2
      BY <3>1, <1>4
    <3>3. \A x \in Int : x + 1 # x + 2
      OBVIOUS
    <3> QED BY <3>2, <3>3, <1>5
  <2>4. BlockCausal(all, n + i) = n + p
    BY <2>1, <2>2, <2>3, <1>6, BlockIs
  <2>5. i - 1 \in 0 .. p - 1
    OBVIOUS
  <2>6. (a + (i - 1)) % p = i - 1
    BY <2>5, <1>1, <1>3, AfterMultiple
  <2>7. i - 1 = Cardinality(PatchesIn(all, n + i - 1)) % Patches
    BY <2>6, <1>1, <1>4
  <2>8. all[n + i] = "patch" /\ n + i \in 1 .. Len(all)
    BY <1>1, <1>6, <2>1
  <2>9. Prefill(all)[n + i] = Entry("patch", TIndex(all, n + i), RowOf(i - 1), ColumnOf(i - 1),
                                    BlockCausal(all, n + i))
    BY <2>7, <2>8, PrefillAt
  <2> QED BY <2>4, <2>9, <1>4
<1>8. Prefill(all)[n + p + 1] = Entry("/img", TIndex(ids, n) + 2, 0, 0, n + p + 1)
  <2>1. l \in 1 .. l /\ l \in l .. l /\ \A k \in l + 1 .. l : TIndex(all, k) # TIndex(all, l)
    BY <1>6
  <2>2. BlockCausal(all, l) = l
    BY <2>1, <1>6, BlockIs
  <2>3. all[l] = "/img" /\ l \in 1 .. Len(all)
    BY <1>1, <1>6, <2>1
  <2>4. Prefill(all)[l] = Entry("/img", TIndex(all, l), 0, 0, BlockCausal(all, l))
    BY <2>3, PrefillAt
  <2> QED BY <2>2, <2>4, <1>4, <1>6
<1>9. (a + p) % p = 0
  <2>1. 0 \in 0 .. p - 1
    OBVIOUS
  <2> QED BY <2>1, <1>1, <1>3, AfterMultiple
<1> QED BY <1>1, <1>4, <1>7, <1>8, <1>9 DEF ImageEntries

\* What an event's entries do to the rest of a cache.
Continues(c, v, d) ==
  IF v.kind = "image"
  THEN Last(d).token = "/img" /\ Cardinality(EndsOf(d)) = Cardinality(EndsOf(c)) + 1
  ELSE /\ Last(d).token = (IF Len(v.tokens) = 0 THEN Last(c).token ELSE v.tokens[Len(v.tokens)])
       /\ EndsOf(d) = EndsOf(c)

\* The sizes and the tokens of a cache c and of d, grown from it.
Readings(c, v, d, n, m, ids, all) ==
  /\ n = Len(c) /\ m = Size(v) /\ n + m = Len(d) /\ d \in Seq(Entries)
  /\ ids = TokensOf(c) /\ Len(ids) = n /\ all = TokensOf(d) /\ Len(all) = n + m
  /\ \A k \in 1 .. n : d[k] = c[k] /\ all[k] = ids[k] /\ ids[k] = c[k].token
  /\ \A i \in 1 .. m : d[n + i] = EntryOf(v, i) /\ all[n + i] = EntryOf(v, i).token
  /\ c[n] = Last(c) /\ TIndex(ids, n) = v.t /\ c = Prefill(ids)

\* A grown cache keeps the entries it had.
LEMMA GrownTokens ==
  ASSUME NEW c, NEW v \in EventType, NEW d, Exact(c, v.t), Grown(c, v, d)
  PROVE  \E n \in Nat \ {0}, m \in Nat, ids \in Seq(Tokens), all \in Seq(Tokens) :
           Readings(c, v, d, n, m, ids, all)
<1>1. /\ c \in Seq(Entries) /\ Len(c) > 0 /\ c = Prefill(TokensOf(c)) /\ v.t = Last(c).t
      /\ d \in Seq(Entries) /\ Len(d) = Len(c) + Size(v)
      /\ \A i \in 1 .. Len(c) : d[i] = c[i]
      /\ \A i \in 1 .. Size(v) : d[Len(c) + i] = EntryOf(v, i)
  BY DEF Exact, Grown
<1>2. PICK n \in Nat \ {0} : n = Len(c)
  BY <1>1
<1>3. PICK m \in Nat : m = Size(v)
  <2>1. Patches \in Nat
    BY GridPositions
  <2>2. v.tokens \in Seq(Tokens)
    BY DEF EventType
  <2>3. Size(v) \in Nat
    BY <2>1, <2>2 DEF Size
  <2> QED BY <2>3
<1>4. PICK ids \in Seq(Tokens) : /\ ids = TokensOf(c) /\ Len(ids) = n
                                 /\ \A k \in 1 .. n : ids[k] = c[k].token
  BY <1>1, <1>2, TokensTyped
<1>5. PICK all \in Seq(Tokens) : /\ all = TokensOf(d) /\ Len(all) = n + m
                                 /\ \A k \in 1 .. n + m : all[k] = d[k].token
  BY <1>1, <1>2, <1>3, TokensTyped
<1>6. \A k \in 1 .. n : d[k] = c[k] /\ all[k] = ids[k]
  BY <1>1, <1>2, <1>4, <1>5
<1>7. \A i \in 1 .. m : d[n + i] = EntryOf(v, i) /\ all[n + i] = EntryOf(v, i).token
  <2> TAKE i \in 1 .. m
  <2>1. n + i \in 1 .. n + m
    OBVIOUS
  <2> QED BY <2>1, <1>1, <1>2, <1>3, <1>5
<1>8. c[n] = Last(c)
  BY <1>2 DEF Last
<1>9. TIndex(ids, n) = v.t
  <2>1. n \in 1 .. Len(ids)
    BY <1>4
  <2>2. Prefill(ids)[n].t = TIndex(ids, n)
    BY <2>1, PrefillAt
  <2> QED BY <2>2, <1>1, <1>4, <1>8
<1>10. Readings(c, v, d, n, m, ids, all)
  BY <1>1, <1>2, <1>3, <1>4, <1>5, <1>6, <1>7, <1>8, <1>9 DEF Readings
<1> QED BY <1>10

\* Two sequences with the same entries.
LEMMA SameEntries ==
  ASSUME NEW d \in Seq(Entries), NEW all \in Seq(Tokens), NEW l \in Nat, Len(d) = l, Len(all) = l,
         \A k \in 1 .. l : Prefill(all)[k] = d[k]
  PROVE  d = Prefill(all)
<1>1. Prefill(all) \in Seq(Entries) /\ Len(Prefill(all)) = l
  BY Prefilled
<1> DEFINE e == Prefill(all)
<1> HIDE DEF e
<1>2. e = [k \in 1 .. l |-> e[k]]
  BY <1>1 DEF e
<1>3. d = [k \in 1 .. l |-> d[k]]
  OBVIOUS
<1>4. \A k \in 1 .. l : e[k] = d[k]
  BY DEF e
<1>5. e = d
  BY <1>2, <1>3, <1>4
<1> QED BY <1>5 DEF e

\* Sampled, forced or known text keeps a cache the prefill of its tokens.
LEMMA TextKeepsExact ==
  ASSUME NEW c, NEW v \in EventType, NEW d, Exact(c, v.t), Grown(c, v, d), v.from = Len(c),
         v.kind = "text", Plain(v.tokens), Last(c).token # "img"
  PROVE  Exact(d, v.t + Span(v)) /\ Continues(c, v, d)
<1>1. PICK n \in Nat \ {0}, m \in Nat, ids \in Seq(Tokens), all \in Seq(Tokens) :
           Readings(c, v, d, n, m, ids, all)
  BY GrownTokens
<1>2. /\ n = Len(c) /\ m = Size(v) /\ n + m = Len(d) /\ d \in Seq(Entries)
      /\ ids = TokensOf(c) /\ Len(ids) = n /\ all = TokensOf(d) /\ Len(all) = n + m
      /\ \A k \in 1 .. n : d[k] = c[k] /\ all[k] = ids[k] /\ ids[k] = c[k].token
      /\ \A i \in 1 .. m : d[n + i] = EntryOf(v, i) /\ all[n + i] = EntryOf(v, i).token
      /\ c[n] = Last(c) /\ TIndex(ids, n) = v.t /\ c = Prefill(ids)
  BY <1>1 DEF Readings
<1>3. m = Len(v.tokens) /\ Span(v) = m /\ v.t \in Int
  BY <1>2 DEF Size, Span, EventType
<1>4. \A i \in 1 .. m :
        /\ EntryOf(v, i) = Entry(v.tokens[i], v.t + i, 0, 0, n + i) /\ all[n + i] = v.tokens[i]
        /\ EntryOf(v, i).token = v.tokens[i] /\ EntryOf(v, i).t = v.t + i
  <2> TAKE i \in 1 .. m
  <2>1. EntryOf(v, i) = Entry(v.tokens[i], v.t + i, 0, 0, n + i)
    BY <1>2 DEF EntryOf
  <2>2. EntryOf(v, i).token = v.tokens[i] /\ EntryOf(v, i).t = v.t + i
    BY <2>1 DEF Entry
  <2> QED BY <2>1, <2>2, <1>2
<1>5. \A i \in 1 .. m : all[n + i] \notin {"patch", "/img"} /\ (i < m => all[n + i] # "img")
  BY <1>3, <1>4 DEF Plain
<1>6. ids[n] # "img"
  BY <1>2
<1>7. TextAfter(ids, all, n, m)
  BY <1>2, <1>5, <1>6 DEF TextAfter
<1>8. ASSUME NEW k \in 1 .. n PROVE Prefill(all)[k] = d[k]
  <2>1. n < n + m => all[n + 1] # "patch"
    <3>1. n < n + m => 1 \in 1 .. m
      OBVIOUS
    <3> QED BY <3>1, <1>5
  <2>2. PICK l \in Nat : l = n + m
    OBVIOUS
  <2>3. n = Len(ids) /\ l = Len(all) /\ n <= l /\ (\A j \in 1 .. n : all[j] = ids[j])
    <3>1. n <= l /\ l = n + m
      BY <2>2
    <3>2. \A j \in 1 .. n : all[j] = ids[j]
      BY <1>2
    <3> QED BY <1>2, <3>1, <3>2
  <2>4. n < l => all[n + 1] # "patch" \/ all[n] = "img"
    BY <2>1, <2>2
  <2>5. Prefill(all)[k] = Prefill(ids)[k]
    BY <2>3, <2>4, PrefillKept, Zenon
  <2> QED BY <2>5, <1>2
<1>9. ASSUME NEW i \in 1 .. m PROVE Prefill(all)[n + i] = d[n + i]
  <2>1. Prefill(all)[n + i] = Entry(all[n + i], TIndex(ids, n) + i, 0, 0, n + i)
    <3>1. TextEntries(ids, all, n, m)
      BY <1>2, <1>7, TextExact
    <3> QED BY <3>1 DEF TextEntries
  <2> QED BY <2>1, <1>2, <1>4
<1>10. d = Prefill(all)
  <2>1. ASSUME NEW k \in 1 .. n + m PROVE Prefill(all)[k] = d[k]
    <3>1. CASE k <= n
      BY <3>1, <1>8
    <3>2. CASE k > n
      <4>1. k - n \in 1 .. m /\ n + (k - n) = k
        BY <3>2
      <4>2. PICK i \in 1 .. m : n + i = k
        BY <4>1
      <4> QED BY <4>2, <1>9
    <3> QED BY <3>1, <3>2
  <2>2. n + m \in Nat
    OBVIOUS
  <2> QED BY <2>1, <2>2, <1>2, SameEntries
<1>11. /\ Last(d).t = v.t + m
       /\ Last(d).token = (IF m = 0 THEN Last(c).token ELSE v.tokens[m])
  <2>1. Last(d) = d[n + m]
    BY <1>2 DEF Last
  <2>2. CASE m = 0
    <3>1. n + m = n /\ n \in 1 .. n
      BY <2>2
    <3>2. d[n + m] = Last(c) /\ Last(c).t = v.t
      BY <3>1, <1>2 DEF Exact
    <3> QED BY <2>1, <2>2, <3>2, <1>3
  <2>3. CASE m # 0
    <3>1. m \in 1 .. m
      BY <2>3
    <3> QED BY <2>1, <2>3, <3>1, <1>2, <1>4
  <2> QED BY <2>2, <2>3
<1>12. PatchesIn(all, n + m) = PatchesIn(ids, n) /\ EndsOf(d) = EndsOf(c)
  <2>1. \A k \in n + 1 .. n + m : all[k] \notin {"patch", "/img"} /\ d[k].token = all[k]
    <3> TAKE k \in n + 1 .. n + m
    <3>1. k - n \in 1 .. m /\ n + (k - n) = k
      OBVIOUS
    <3>2. PICK i \in 1 .. m : n + i = k
      BY <3>1
    <3> QED BY <3>2, <1>2, <1>5
  <2>2. \A k \in 1 .. n + m : k \in 1 .. n \/ k \in n + 1 .. n + m
    OBVIOUS
  <2>3. \A k \in 1 .. n : k \in 1 .. n + m
    OBVIOUS
  <2>4. PatchesIn(all, n + m) = PatchesIn(ids, n)
    BY <1>2, <2>1, <2>2, <2>3 DEF PatchesIn
  <2>5. EndsOf(d) = EndsOf(c)
    BY <1>2, <2>1, <2>2, <2>3 DEF EndsOf
  <2> QED BY <2>4, <2>5
<1>13. Cardinality(PatchesIn(all, n + m)) % Patches = 0
  BY <1>2, <1>12 DEF Exact
<1>14. Exact(d, v.t + Span(v))
  <2>1. d \in Seq(Entries) /\ Len(d) > 0 /\ d = Prefill(TokensOf(d)) /\ v.t + Span(v) = Last(d).t
    BY <1>2, <1>3, <1>10, <1>11
  <2>2. Cardinality(PatchesIn(TokensOf(d), Len(d))) % Patches = 0
    BY <1>2, <1>13
  <2> QED BY <2>1, <2>2 DEF Exact
<1> QED BY <1>3, <1>11, <1>12, <1>14 DEF Continues

\* So does a finished image after its <img>.
LEMMA ImageKeepsExact ==
  ASSUME NEW c, NEW v \in EventType, NEW d, Exact(c, v.t), Grown(c, v, d), v.from = Len(c),
         v.kind = "image", Last(c).token = "img"
  PROVE  Exact(d, v.t + Span(v)) /\ Continues(c, v, d)
<1>1. PICK n \in Nat \ {0}, m \in Nat, ids \in Seq(Tokens), all \in Seq(Tokens) :
           Readings(c, v, d, n, m, ids, all)
  BY GrownTokens
<1>2. /\ n = Len(c) /\ m = Size(v) /\ n + m = Len(d) /\ d \in Seq(Entries)
      /\ ids = TokensOf(c) /\ Len(ids) = n /\ all = TokensOf(d) /\ Len(all) = n + m
      /\ \A k \in 1 .. n : d[k] = c[k] /\ all[k] = ids[k] /\ ids[k] = c[k].token
      /\ \A i \in 1 .. m : d[n + i] = EntryOf(v, i) /\ all[n + i] = EntryOf(v, i).token
      /\ c[n] = Last(c) /\ TIndex(ids, n) = v.t /\ c = Prefill(ids)
  BY <1>1 DEF Readings
<1>3. PICK p \in Nat \ {0} : p = Patches
  BY GridPositions
<1>4. m = p + 1 /\ Span(v) = 2 /\ v.t \in Int
  BY <1>2, <1>3 DEF Size, Span, EventType
<1>5. \A i \in 1 .. p :
        /\ EntryOf(v, i) = Entry("patch", v.t + 1, RowOf(i - 1), ColumnOf(i - 1), n + p)
        /\ EntryOf(v, i).token = "patch"
  BY <1>2, <1>3 DEF EntryOf, Entry
<1>6. /\ EntryOf(v, p + 1) = Entry("/img", v.t + 2, 0, 0, n + p + 1)
      /\ EntryOf(v, p + 1).token = "/img" /\ EntryOf(v, p + 1).t = v.t + 2
  BY <1>2, <1>3 DEF EntryOf, Entry
<1>7. /\ \A i \in 1 .. p : i \in 1 .. m
      /\ p + 1 \in 1 .. m /\ n + (p + 1) = n + p + 1 /\ n + m = n + p + 1
  BY <1>4
<1>8. (\A i \in 1 .. p : all[n + i] = "patch") /\ all[n + p + 1] = "/img"
  BY <1>2, <1>5, <1>6, <1>7
<1>9. ids[n] = "img"
  BY <1>2
<1>10. ImageAfter(ids, all, n, p)
  BY <1>2, <1>8, <1>9 DEF ImageAfter
<1>11. Cardinality(PatchesIn(ids, n)) % p = 0
  BY <1>2, <1>3 DEF Exact
<1>12. /\ \A i \in 1 .. p :
            Prefill(all)[n + i] = Entry("patch", v.t + 1, RowOf(i - 1), ColumnOf(i - 1), n + p)
       /\ Prefill(all)[n + p + 1] = Entry("/img", v.t + 2, 0, 0, n + p + 1)
       /\ Cardinality(PatchesIn(all, n + p + 1)) % p = 0
  <2>1. n + Patches + 1 = Len(all) /\ ImageAfter(ids, all, n, Patches)
    BY <1>2, <1>3, <1>7, <1>10
  <2>2. Cardinality(PatchesIn(ids, n)) % Patches = 0
    BY <1>3, <1>11
  <2>3. ImageEntries(ids, all, n)
    BY <2>1, <2>2, <1>2, ImageExact
  <2> QED BY <2>3, <1>2, <1>3 DEF ImageEntries
<1>13. ASSUME NEW k \in 1 .. n PROVE Prefill(all)[k] = d[k]
  <2>1. PICK l \in Nat : l = n + m
    OBVIOUS
  <2>2. n = Len(ids) /\ l = Len(all) /\ n <= l /\ (\A j \in 1 .. n : all[j] = ids[j])
    <3>1. n <= l /\ l = n + m
      BY <2>1
    <3>2. \A j \in 1 .. n : all[j] = ids[j]
      BY <1>2
    <3> QED BY <1>2, <3>1, <3>2
  <2>3. all[n] = "img"
    <3>1. n \in 1 .. n
      OBVIOUS
    <3> QED BY <1>2, <1>9, <3>1
  <2>4. Prefill(all)[k] = Prefill(ids)[k]
    BY <2>2, <2>3, PrefillKept
  <2> QED BY <2>4, <1>2
<1>14. d = Prefill(all)
  <2>1. ASSUME NEW k \in 1 .. n + m PROVE Prefill(all)[k] = d[k]
    <3>1. CASE k <= n
      BY <3>1, <1>13
    <3>2. CASE k > n /\ k <= n + p
      <4>1. k - n \in 1 .. p /\ n + (k - n) = k
        BY <3>2
      <4>2. PICK i \in 1 .. p : n + i = k
        BY <4>1
      <4>3. Prefill(all)[n + i] = EntryOf(v, i)
        BY <1>5, <1>12
      <4>4. d[n + i] = EntryOf(v, i)
        BY <1>2, <1>7
      <4> QED BY <4>2, <4>3, <4>4
    <3>3. CASE k > n + p
      <4>1. k = n + p + 1
        BY <3>3, <1>7
      <4> QED BY <4>1, <1>2, <1>6, <1>7, <1>12
    <3> QED BY <3>1, <3>2, <3>3
  <2>2. n + m \in Nat
    OBVIOUS
  <2> QED BY <2>1, <2>2, <1>2, SameEntries
<1>15. Last(d).t = v.t + 2 /\ Last(d).token = "/img"
  <2>1. Last(d) = d[n + (p + 1)]
    BY <1>2, <1>7 DEF Last
  <2> QED BY <2>1, <1>2, <1>6, <1>7
<1>16. Cardinality(EndsOf(d)) = Cardinality(EndsOf(c)) + 1
  <2>1. \A k \in n + 1 .. n + p : d[k].token = "patch"
    <3> TAKE k \in n + 1 .. n + p
    <3>1. k - n \in 1 .. p /\ n + (k - n) = k
      OBVIOUS
    <3>2. PICK i \in 1 .. p : n + i = k
      BY <3>1
    <3> QED BY <3>2, <1>2, <1>5, <1>7
  <2>2. d[n + p + 1].token = "/img"
    BY <1>2, <1>6, <1>7
  <2>3. \A k \in 1 .. n + p + 1 : k \in 1 .. n \/ k \in n + 1 .. n + p \/ k = n + p + 1
    OBVIOUS
  <2>4. (\A k \in 1 .. n : k \in 1 .. n + p + 1) /\ n + p + 1 \notin 1 .. n
    OBVIOUS
  <2>5. Len(d) = n + p + 1 /\ Len(c) = n
    BY <1>2, <1>7
  <2>6. EndsOf(d) = EndsOf(c) \union {n + p + 1} /\ n + p + 1 \notin EndsOf(c)
    BY <1>2, <2>1, <2>2, <2>3, <2>4, <2>5 DEF EndsOf
  <2>7. EndsOf(c) \in SUBSET (1 .. n) /\ n \in Int
    BY <2>5 DEF EndsOf
  <2>8. IsFiniteSet(EndsOf(c))
    BY <2>7, Counted
  <2>9. PICK ends, e : ends = EndsOf(c) /\ e = n + p + 1
    OBVIOUS
  <2>10. IsFiniteSet(ends) /\ e \notin ends /\ EndsOf(d) = ends \union {e}
    BY <2>6, <2>8, <2>9
  <2>11. Cardinality(ends \union {e}) = Cardinality(ends) + 1
    BY <2>10, FS_AddElement
  <2> QED BY <2>9, <2>10, <2>11
<1>17. Exact(d, v.t + Span(v))
  <2>1. d \in Seq(Entries) /\ Len(d) > 0 /\ d = Prefill(TokensOf(d)) /\ v.t + Span(v) = Last(d).t
    BY <1>2, <1>4, <1>14, <1>15
  <2>2. Cardinality(PatchesIn(TokensOf(d), Len(d))) % Patches = 0
    BY <1>2, <1>3, <1>7, <1>12
  <2> QED BY <2>1, <2>2 DEF Exact
<1> QED BY <1>15, <1>16, <1>17 DEF Continues

\* A prefill of whole images is such a cache.
LEMMA PrefillExact ==
  ASSUME NEW ids \in Seq(Tokens), Len(ids) > 0,
         Cardinality(PatchesIn(ids, Len(ids))) % Patches = 0
  PROVE  /\ Exact(Prefill(ids), Last(Prefill(ids)).t)
         /\ Last(Prefill(ids)).token = Last(ids)
         /\ EndsOf(Prefill(ids)) = {i \in 1 .. Len(ids) : ids[i] = "/img"}
<1>1. PICK n \in Nat \ {0} : n = Len(ids) /\ DOMAIN ids = 1 .. n
  OBVIOUS
<1>2. PICK c \in Seq(Entries) : c = Prefill(ids) /\ Len(c) = n
  BY <1>1, Prefilled
<1>3. \A i \in 1 .. n : c[i].token = ids[i]
  <2> TAKE i \in 1 .. n
  <2>1. i \in 1 .. Len(ids)
    BY <1>1
  <2> QED BY <2>1, <1>2, PrefillAt
<1>4. TokensOf(c) = ids
  <2>1. ids = [i \in 1 .. n |-> ids[i]] /\ DOMAIN c = 1 .. n
    BY <1>1, <1>2
  <2>2. [i \in 1 .. n |-> c[i].token] = [i \in 1 .. n |-> ids[i]]
    BY <1>3
  <2>3. TokensOf(c) = [i \in 1 .. n |-> c[i].token]
    BY <2>1 DEF TokensOf
  <2> QED BY <2>1, <2>2, <2>3
<1>5. Exact(c, Last(c).t)
  BY <1>1, <1>2, <1>4 DEF Exact
<1>6. Last(c).token = Last(ids)
  <2>1. n \in 1 .. n
    OBVIOUS
  <2> QED BY <2>1, <1>1, <1>2, <1>3 DEF Last
<1>7. EndsOf(c) = {i \in 1 .. n : ids[i] = "/img"}
  BY <1>2, <1>3 DEF EndsOf
<1> QED BY <1>1, <1>2, <1>5, <1>6, <1>7

\* A cache of its own type, never empty, with an integer index.
LEMMA ExactTyped ==
  ASSUME NEW c, NEW time, Exact(c, time)
  PROVE  c \in Seq(Entries) /\ Len(c) \in Nat \ {0} /\ time \in Int
<1>1. c \in Seq(Entries) /\ Len(c) > 0 /\ time = Last(c).t
  BY DEF Exact
<1>2. Len(c) \in Nat \ {0} /\ Len(c) \in 1 .. Len(c)
  BY <1>1
<1>3. c[Len(c)] \in Entries
  BY <1>1, <1>2
<1> QED BY <1>1, <1>2, <1>3 DEF Last, Entries

\* Known text appends its own entries.
LEMMA KnownTextGrows ==
  ASSUME NEW c \in Seq(Entries), NEW v \in EventType, v.kind = "text", v.from = Len(c)
  PROVE  Grown(c, v, TextAppended(c, v.t, v.tokens))
<1> DEFINE w == [i \in DOMAIN v.tokens |-> Entry(v.tokens[i], v.t + i, 0, 0, Len(c) + i)]
<1>1. PICK n \in Nat : n = Len(v.tokens) /\ DOMAIN v.tokens = 1 .. n
  BY DEF EventType
<1>2. Size(v) = n
  BY <1>1 DEF Size
<1>3. \A i \in 1 .. n : w[i] = EntryOf(v, i)
  BY <1>1 DEF EntryOf
<1>4. w = [i \in 1 .. n |-> w[i]] /\ \A i \in 1 .. n : w[i] \in Entries
  BY <1>1, <1>2, <1>3, EntryTyped
<1>5. TextAppended(c, v.t, v.tokens) = c \o w
  BY DEF TextAppended
<1> HIDE DEF w
<1>6. w \in Seq(Entries) /\ Len(w) = n
  BY <1>4
<1>7. /\ c \o w \in Seq(Entries) /\ Len(c \o w) = Len(c) + Len(w)
      /\ \A k \in 1 .. Len(c) : (c \o w)[k] = c[k]
      /\ \A k \in 1 .. Len(w) : (c \o w)[Len(c) + k] = w[k]
  BY <1>6, SMT
<1> QED BY <1>2, <1>3, <1>5, <1>6, <1>7 DEF Grown

\* A decoded token appends its own entry.
LEMMA TokenGrows ==
  ASSUME NEW c \in Seq(Entries), NEW v \in EventType, NEW token \in Tokens,
         v.kind = "text", v.tokens = <<token>>, v.from = Len(c)
  PROVE  Grown(c, v, Decoded(c, v.t, token))
<1>1. Len(v.tokens) = 1 /\ v.tokens[1] = token
  OBVIOUS
<1>2. Size(v) = 1
  BY <1>1 DEF Size
<1>3. EntryOf(v, 1) = Entry(token, v.t + 1, 0, 0, Len(c) + 1)
  BY <1>1 DEF EntryOf
<1>4. PICK e \in Entries : e = EntryOf(v, 1)
  <2>1. 1 \in 1 .. Size(v)
    BY <1>2
  <2> QED BY <2>1, EntryTyped
<1>5. /\ Append(c, e) \in Seq(Entries) /\ Len(Append(c, e)) = Len(c) + 1
      /\ \A k \in 1 .. Len(c) : Append(c, e)[k] = c[k]
      /\ Append(c, e)[Len(c) + 1] = e
  BY Appended
<1>6. Decoded(c, v.t, token) = Append(c, e)
  BY <1>3, <1>4 DEF Decoded
<1> QED BY <1>2, <1>4, <1>5, <1>6 DEF Grown

\* What text does to such a cache: after any token but <img>, decoded or as known text.
LEMMA TextStays ==
  ASSUME NEW c, NEW time, NEW tokens \in Seq(Tokens), Exact(c, time), Last(c).token # "img",
         Plain(tokens)
  PROVE  LET d == TextAppended(c, time, tokens)
         IN  /\ Exact(d, time + Len(tokens)) /\ EndsOf(d) = EndsOf(c)
             /\ Last(d).token = (IF Len(tokens) = 0 THEN Last(c).token ELSE tokens[Len(tokens)])
<1>1. c \in Seq(Entries) /\ Len(c) \in Nat /\ time \in Int
  BY ExactTyped
<1>2. PICK v \in EventType :
        v.kind = "text" /\ v.tokens = tokens /\ v.from = Len(c) /\ v.t = time
  <2>1. [kind |-> "text", tokens |-> tokens, from |-> Len(c), t |-> time] \in EventType
    BY <1>1 DEF EventType
  <2> QED BY <2>1
<1>3. PICK d : d = TextAppended(c, time, tokens)
  OBVIOUS
<1>4. Grown(c, v, d)
  BY <1>1, <1>2, <1>3, KnownTextGrows
<1>5. Exact(c, v.t) /\ Plain(v.tokens)
  BY <1>2
<1>6. Exact(d, v.t + Span(v)) /\ Continues(c, v, d)
  BY <1>2, <1>4, <1>5, TextKeepsExact
<1>7. Span(v) = Len(tokens)
  BY <1>2 DEF Span
<1>8. /\ Last(d).token = (IF Len(tokens) = 0 THEN Last(c).token ELSE tokens[Len(tokens)])
      /\ EndsOf(d) = EndsOf(c)
  BY <1>2, <1>6 DEF Continues
<1> QED BY <1>2, <1>3, <1>6, <1>7, <1>8

\* One decoded token does the same.
LEMMA TokenStays ==
  ASSUME NEW c, NEW time, NEW token \in {"word", "eos", "img"}, Exact(c, time),
         Last(c).token # "img"
  PROVE  LET d == Decoded(c, time, token)
         IN  Exact(d, time + 1) /\ EndsOf(d) = EndsOf(c) /\ Last(d).token = token
<1>1. c \in Seq(Entries) /\ Len(c) \in Nat /\ time \in Int
  BY ExactTyped
<1>2. token \in Tokens
  BY DEF Tokens
<1>3. PICK v \in EventType :
        v.kind = "text" /\ v.tokens = <<token>> /\ v.from = Len(c) /\ v.t = time
  <2>1. [kind |-> "text", tokens |-> <<token>>, from |-> Len(c), t |-> time] \in EventType
    BY <1>1, <1>2 DEF EventType
  <2> QED BY <2>1
<1>4. PICK d : d = Decoded(c, time, token)
  OBVIOUS
<1>5. Grown(c, v, d)
  BY <1>1, <1>2, <1>3, <1>4, TokenGrows
<1>6. Len(v.tokens) = 1 /\ v.tokens[1] = token
  BY <1>3
<1>7. Exact(c, v.t) /\ Plain(v.tokens)
  BY <1>3, <1>6 DEF Plain
<1>8. Exact(d, v.t + Span(v)) /\ Continues(c, v, d)
  BY <1>3, <1>5, <1>7, TextKeepsExact
<1>9. Span(v) = 1
  BY <1>3, <1>6 DEF Span
<1>10. Last(d).token = token /\ EndsOf(d) = EndsOf(c)
  BY <1>3, <1>6, <1>8 DEF Continues
<1> QED BY <1>3, <1>4, <1>8, <1>9, <1>10

\* A finished image keeps it too, and closes what its <img> opened.
LEMMA ImageStays ==
  ASSUME NEW c, NEW time, Exact(c, time), Last(c).token = "img"
  PROVE  LET d == ImageAppended(c, time)
         IN  /\ Exact(d, time + 2) /\ Cardinality(EndsOf(d)) = Cardinality(EndsOf(c)) + 1
             /\ Last(d).token = "/img"
<1>1. c \in Seq(Entries) /\ Len(c) \in Nat /\ time \in Int
  BY ExactTyped
<1>2. PICK v \in EventType :
        v.kind = "image" /\ v.tokens = <<>> /\ v.from = Len(c) /\ v.t = time
  <2>1. [kind |-> "image", tokens |-> <<>>, from |-> Len(c), t |-> time] \in EventType
    BY <1>1 DEF EventType
  <2> QED BY <2>1
<1>3. PICK d : d = ImageAppended(c, time)
  OBVIOUS
<1>4. Grown(c, v, d)
  BY <1>1, <1>2, <1>3, ImageGrows
<1>5. Exact(c, v.t)
  BY <1>2
<1>6. Exact(d, v.t + Span(v)) /\ Continues(c, v, d)
  BY <1>2, <1>4, <1>5, ImageKeepsExact
<1>7. Span(v) = 2
  BY <1>2 DEF Span
<1>8. Last(d).token = "/img" /\ Cardinality(EndsOf(d)) = Cardinality(EndsOf(c)) + 1
  BY <1>2, <1>6 DEF Continues
<1> QED BY <1>2, <1>3, <1>6, <1>7, <1>8

-----------------------------------------------------------------------------
(* Every cache of a session is the prefill of its tokens. *)

\* The last token of the n-th event, or of the prompt, and whether an image comes n-th.
Ending(n) ==
  IF n = 0 THEN Last(input.prompt)
  ELSE IF events[n].kind = "image" THEN "/img"
  ELSE events[n].tokens[Len(events[n].tokens)]
Opens(n) == IF n <= Len(events) THEN events[n].kind = "image" ELSE phase = "image"

\* Spans are text only an <img> can end; an image comes where one does, and nowhere else.
Alternates ==
  /\ \A e \in 1 .. Len(events) :
       events[e].kind = "text" => Plain(events[e].tokens) /\ Len(events[e].tokens) > 0
  /\ \A e \in 0 .. Len(events) : Ending(e) = "img" <=> Opens(e + 1)

Sampled ==
  /\ Exact(cache, t)
  /\ phase # "span" => Last(cache).token = Ending(Len(events))
  /\ phase = "span" => /\ Last(cache).token # "img"
                       /\ \A i \in 1 .. Len(span.tokens) : span.tokens[i] = "word"

Replayed ==
  /\ pass > 0 => Exact(again, u)
  /\ phase = "pass" /\ at.event <= Len(events) => Last(again).token = Ending(at.event - 1)

KInv == Alternates /\ Sampled /\ Replayed

\* The prompt alone.
LEMMA PromptExact ==
  ASSUME NEW prompt \in Prompts
  PROVE  /\ Exact(Prefill(prompt), Last(Prefill(prompt)).t)
         /\ Last(Prefill(prompt)).token = Last(prompt) /\ Last(prompt) # "img"
<1>1. prompt \in Seq(Tokens) /\ prompt # <<>>
  BY SessionAssumption
<1>2. Len(prompt) > 0
        /\ {i \in DOMAIN prompt : prompt[i] = "patch"} = PatchesIn(prompt, Len(prompt))
  BY <1>1 DEF PatchesIn
<1>3. /\ Last(prompt) # "img"
      /\ Cardinality({i \in DOMAIN prompt : prompt[i] = "patch"}) % Patches = 0
  BY PromptAssumption
<1>4. Cardinality(PatchesIn(prompt, Len(prompt))) % Patches = 0
  BY <1>2, <1>3
<1> QED BY <1>1, <1>2, <1>3, <1>4, PrefillExact

\* Outside the rollout's own steps what was recorded stays.
LEMMA RecordStays ==
  ASSUME KInv, UNCHANGED <<input, rolling>>, phase \notin {"span", "image"},
         phase' \notin {"span", "image"}
  PROVE  Alternates' /\ Sampled' /\ \A n : Ending(n)' = Ending(n)
<1>1. UNCHANGED <<input, cache, t, tail, span, events>>
  BY DEF rolling
<1>2. \A n : Ending(n)' = Ending(n) /\ Opens(n)' = Opens(n)
  BY <1>1 DEF Ending, Opens
<1>3. Alternates'
  BY <1>1, <1>2 DEF KInv, Alternates, Plain
<1>4. Sampled'
  BY <1>1, <1>2 DEF KInv, Sampled, Exact
<1> QED BY <1>2, <1>3, <1>4

\* A session begins with the prompt alone.
LEMMA KInit ==
  ASSUME Init
  PROVE  KInv
<1>1. /\ input.prompt \in Prompts
      /\ cache = Prefill(input.prompt) /\ t = Last(cache).t /\ events = <<>> /\ pass = 0
      /\ phase \in {"raised", "loop"}
  BY DEF Init
<1>2. /\ Exact(cache, t) /\ Last(cache).token = Last(input.prompt) /\ Last(input.prompt) # "img"
  BY <1>1, PromptExact
<1>3. Len(events) = 0
  BY <1>1
<1>4. Ending(0) = Last(input.prompt) /\ Opens(1) = FALSE
  BY <1>1, <1>3 DEF Ending, Opens
<1>5. Alternates
  <2>1. \A e \in 0 .. Len(events) : e = 0
    BY <1>3
  <2>2. \A e \in 1 .. Len(events) : FALSE
    BY <1>3
  <2> QED BY <1>2, <1>4, <2>1, <2>2 DEF Alternates
<1>6. Sampled
  BY <1>1, <1>2, <1>3, <1>4 DEF Sampled
<1>7. Replayed
  BY <1>1 DEF Replayed
<1> QED BY <1>5, <1>6, <1>7 DEF KInv

\* A span begins after a token that is no <img>.
LEMMA KNextSpan ==
  ASSUME IInv, KInv, NextSpan
  PROVE  KInv'
<1>1. /\ phase = "loop" /\ phase' \in {"rolled", "span"}
      /\ UNCHANGED <<input, cache, t, events, replaying>>
      /\ phase' = "span" => span'.tokens = <<>>
  BY DEF NextSpan
<1>2. \A n : Ending(n)' = Ending(n) /\ Opens(n)' = Opens(n)
  BY <1>1 DEF Ending, Opens
<1>3. Alternates'
  BY <1>1, <1>2 DEF KInv, Alternates, Plain
<1>4. events \in Seq(EventType) /\ Len(events) \in Nat
  BY DEF IInv, Types
<1>5. Last(cache).token # "img"
  <2>1. Len(events) \in 0 .. Len(events) /\ ~ (Len(events) + 1 <= Len(events))
    BY <1>4
  <2>2. ~ Opens(Len(events) + 1)
    BY <1>1, <2>1 DEF Opens
  <2>3. Ending(Len(events)) # "img"
    BY <2>1, <2>2 DEF KInv, Alternates
  <2> QED BY <1>1, <2>3 DEF KInv, Sampled
<1>6. Sampled'
  <2>1. Exact(cache, t)' /\ Last(cache').token = Ending(Len(events))'
    BY <1>1, <1>2 DEF KInv, Sampled, Exact
  <2>2. phase' = "span" => Len(span'.tokens) = 0
    BY <1>1
  <2>3. phase' = "span" => \A i \in 1 .. Len(span'.tokens) : FALSE
    BY <2>2
  <2> QED BY <1>1, <1>5, <2>1, <2>3 DEF Sampled
<1>7. Replayed'
  BY <1>1 DEF replaying, anchoring, KInv, Replayed, Exact
<1> QED BY <1>3, <1>6, <1>7 DEF KInv

\* Recording an event that ends as the cache does.
LEMMA RecordAlternates ==
  ASSUME KInv, events \in Seq(EventType), NEW v \in EventType, events' = Append(events, v),
         input' = input, Opens(Len(events) + 1) = (v.kind = "image"),
         v.kind = "text" => Plain(v.tokens) /\ Len(v.tokens) > 0,
         (v.kind = "text" /\ v.tokens[Len(v.tokens)] = "img") = (phase' = "image"),
         phase' # "span", Exact(cache, t)',
         Last(cache').token = (IF v.kind = "image" THEN "/img" ELSE v.tokens[Len(v.tokens)])
  PROVE  Alternates' /\ Sampled'
<1>1. PICK n \in Nat : n = Len(events) /\ DOMAIN events = 1 .. n
  OBVIOUS
<1>2. /\ events' \in Seq(EventType) /\ Len(events') = n + 1
      /\ \A k \in 1 .. n : events'[k] = events[k]
      /\ events'[n + 1] = v
  BY <1>1, Appended
<1>3. v.kind \in {"text", "image"}
  BY DEF EventType
<1>4. \A k \in 1 .. n : Ending(k)' = Ending(k)
  BY <1>2 DEF Ending
<1>5. Ending(0)' = Ending(0)
  BY DEF Ending
<1>6. Ending(n + 1)' = (IF v.kind = "image" THEN "/img" ELSE v.tokens[Len(v.tokens)])
  <2>1. n + 1 # 0
    OBVIOUS
  <2> QED BY <1>2, <2>1 DEF Ending
<1>7. \A k \in 1 .. n : Opens(k)' = Opens(k)
  <2>1. \A k \in 1 .. n : k <= n /\ k <= n + 1
    OBVIOUS
  <2> QED BY <1>1, <1>2, <2>1 DEF Opens
<1>8. Opens(n + 1)' = (v.kind = "image")
  <2>1. n + 1 <= n + 1
    OBVIOUS
  <2> QED BY <1>2, <2>1 DEF Opens
<1>9. Opens(n + 1 + 1)' = (phase' = "image")
  <2>1. ~ (n + 1 + 1 <= n + 1)
    OBVIOUS
  <2> QED BY <1>2, <2>1 DEF Opens
<1>10. ASSUME NEW e \in 0 .. n + 1 PROVE Ending(e)' = "img" <=> Opens(e + 1)'
  <2>1. CASE e = n + 1
    BY <2>1, <1>3, <1>6, <1>9
  <2>2. CASE e \in 0 .. n
    <3>1. Ending(e)' = Ending(e)
      <4>1. e = 0 \/ e \in 1 .. n
        BY <2>2
      <4> QED BY <4>1, <1>4, <1>5
    <3>2. Opens(e + 1)' = Opens(e + 1)
      <4>1. CASE e = n
        BY <4>1, <1>1, <1>8
      <4>2. CASE e # n
        <5>1. e + 1 \in 1 .. n
          BY <2>2, <4>2
        <5> QED BY <5>1, <1>7
      <4> QED BY <4>1, <4>2
    <3>3. Ending(e) = "img" <=> Opens(e + 1)
      BY <2>2, <1>1 DEF KInv, Alternates
    <3> QED BY <3>1, <3>2, <3>3
  <2>3. e = n + 1 \/ e \in 0 .. n
    OBVIOUS
  <2> QED BY <2>1, <2>2, <2>3
<1>11. ASSUME NEW e \in 1 .. n + 1, events'[e].kind = "text"
       PROVE  Plain(events'[e].tokens) /\ Len(events'[e].tokens) > 0
  <2>1. e \in 1 .. n \/ e = n + 1
    OBVIOUS
  <2> QED BY <2>1, <1>1, <1>2, <1>11 DEF KInv, Alternates
<1>12. Alternates'
  BY <1>2, <1>10, <1>11 DEF Alternates, Plain
<1>13. Sampled'
  BY <1>2, <1>6 DEF Sampled
<1> QED BY <1>12, <1>13

\* A sampled token enters the cache like a prefilled one.
LEMMA KSample ==
  ASSUME IInv, KInv, Sample
  PROVE  KInv'
<1>1. PICK token \in {"word"} \union Stops :
        LET tokens == Append(span.tokens, token)
            over == token \in Stops \/ span.left = 1
            full2 == Len(cache) + 1 >= MaxLength
        IN  /\ cache' = Decoded(cache, t, token) /\ t' = t + 1
            /\ span' = [span EXCEPT !.tokens = tokens, !.left = @ - 1]
            /\ events' = IF over THEN Append(events, SpanEvent(tokens)) ELSE events
            /\ phase' = IF ~over THEN "span"
                        ELSE IF token = "img" THEN "image"
                        ELSE IF token = "eos" \/ ~span.image \/ full2 THEN "rolled"
                        ELSE "loop"
            /\ tail' = (tail \/ phase' = "loop")
  BY Zenon DEF Sample
<1>2. phase = "span" /\ UNCHANGED <<input, replaying>>
  BY DEF Sample
<1>3. token \in {"word", "eos", "img"} /\ token \in Tokens
  BY DEF Stops, Tokens
<1>4. PICK tokens : tokens = Append(span.tokens, token)
  OBVIOUS
<1>5. PICK over \in BOOLEAN : over = (token \in Stops \/ span.left = 1)
  OBVIOUS
<1>6. /\ cache' = Decoded(cache, t, token) /\ t' = t + 1
      /\ span' = [span EXCEPT !.tokens = tokens, !.left = @ - 1]
      /\ events' = IF over THEN Append(events, SpanEvent(tokens)) ELSE events
      /\ ~over => phase' = "span" /\ token = "word"
      /\ over => phase' \in {"image", "rolled", "loop"} /\ (phase' = "image") = (token = "img")
  BY <1>1, <1>3, <1>4, <1>5
<1>7. /\ events \in Seq(EventType) /\ Len(events) \in Nat
      /\ span \in [from : Nat, t : Int, image : BOOLEAN, left : Int, tokens : Seq(Tokens)]
      /\ span.tokens \in Seq(Tokens)
  BY DEF IInv, Types
<1>8. PICK n \in Nat : n = Len(span.tokens)
  BY <1>7
<1>9. /\ tokens \in Seq(Tokens) /\ Len(tokens) = n + 1 /\ tokens[n + 1] = token
      /\ \A i \in 1 .. n : tokens[i] = "word"
  <2>1. \A i \in 1 .. n : span.tokens[i] = "word"
    BY <1>2, <1>8 DEF KInv, Sampled
  <2> QED BY <2>1, <1>3, <1>4, <1>7, <1>8, Appended
<1>10. Exact(cache', t') /\ Last(cache').token = token
  <2>1. Exact(cache, t) /\ Last(cache).token # "img"
    BY <1>2 DEF KInv, Sampled
  <2> QED BY <2>1, <1>3, <1>6, TokenStays
<1>11. Exact(cache, t)'
  BY <1>10 DEF Exact
<1>12. Replayed'
  <2>1. UNCHANGED <<pass, at, again, u>> /\ phase # "pass" /\ phase' # "pass"
    BY <1>2, <1>6 DEF replaying
  <2> QED BY <2>1 DEF KInv, Replayed, Exact
<1>13. CASE ~over
  <2>1. phase' = "span" /\ token = "word" /\ UNCHANGED <<input, events>>
    BY <1>2, <1>6, <1>13
  <2>2. \A k : Ending(k)' = Ending(k) /\ Opens(k)' = Opens(k)
    BY <1>2, <2>1 DEF Ending, Opens
  <2>3. Alternates'
    BY <2>1, <2>2 DEF KInv, Alternates, Plain
  <2>4. span'.tokens = tokens
    BY <1>6, <1>7
  <2>5. \A i \in 1 .. Len(span'.tokens) : span'.tokens[i] = "word"
    <3>1. \A i \in 1 .. n + 1 : i \in 1 .. n \/ i = n + 1
      OBVIOUS
    <3> QED BY <3>1, <2>1, <2>4, <1>9
  <2>6. Sampled'
    BY <2>1, <2>5, <1>10, <1>11 DEF Sampled
  <2> QED BY <2>3, <2>6, <1>12 DEF KInv
<1>14. CASE over
  <2>1. PICK v : v = SpanEvent(tokens)
    OBVIOUS
  <2>2. v \in EventType /\ v.kind = "text" /\ v.tokens = tokens
    BY <2>1, <1>7, <1>9 DEF SpanEvent, EventType
  <2>3. events' = Append(events, v) /\ input' = input
    BY <1>2, <1>6, <1>14, <2>1
  <2>4. Opens(Len(events) + 1) = FALSE
    <3>1. ~ (Len(events) + 1 <= Len(events))
      BY <1>7
    <3> QED BY <3>1, <1>2 DEF Opens
  <2>5. Plain(v.tokens) /\ Len(v.tokens) > 0
    <3>1. \A i \in 1 .. n + 1 : i \in 1 .. n \/ i = n + 1
      OBVIOUS
    <3>2. ASSUME NEW i \in 1 .. n + 1
          PROVE  tokens[i] \notin {"patch", "/img"} /\ (i < n + 1 => tokens[i] # "img")
      <4>1. i < n + 1 => i \in 1 .. n
        OBVIOUS
      <4> QED BY <4>1, <3>1, <1>3, <1>9
    <3> QED BY <3>2, <2>2, <1>9 DEF Plain
  <2>6. v.tokens[Len(v.tokens)] = token
    BY <2>2, <1>9
  <2>7. Alternates' /\ Sampled'
    <3>1. Opens(Len(events) + 1) = (v.kind = "image")
      BY <2>2, <2>4
    <3>2. (v.kind = "text" /\ v.tokens[Len(v.tokens)] = "img") = (phase' = "image")
      BY <2>2, <2>6, <1>6, <1>14
    <3>3. Last(cache').token = (IF v.kind = "image" THEN "/img" ELSE v.tokens[Len(v.tokens)])
      BY <2>2, <2>6, <1>10
    <3>4. phase' # "span" /\ events \in Seq(EventType)
      BY <1>6, <1>7, <1>14
    <3> QED BY <2>2, <2>3, <2>5, <3>1, <3>2, <3>3, <3>4, <1>11, RecordAlternates
  <2> QED BY <2>7, <1>12 DEF KInv
<1> QED BY <1>13, <1>14

\* A sampled image enters the cache as a prefill would read it.
LEMMA KSampleImage ==
  ASSUME IInv, KInv, SampleImage
  PROVE  KInv'
<1>1. PICK v : v = [kind |-> "image", tokens |-> <<>>, from |-> Len(cache), t |-> t]
  OBVIOUS
<1>2. /\ phase = "image" /\ events' = Append(events, v)
      /\ cache' = ImageAppended(cache, t) /\ t' = t + 2 /\ phase' \in {"raised", "loop"}
      /\ UNCHANGED <<input, span, replaying>>
  BY <1>1 DEF SampleImage
<1>3. cache \in Seq(Entries) /\ t \in Int /\ events \in Seq(EventType) /\ Len(events) \in Nat
  BY DEF IInv, Types
<1>4. v \in EventType /\ v.kind = "image"
  BY <1>1, <1>3 DEF EventType
<1>5. Opens(Len(events) + 1) = TRUE
  <2>1. ~ (Len(events) + 1 <= Len(events))
    BY <1>3
  <2> QED BY <2>1, <1>2 DEF Opens
<1>6. Exact(cache, t) /\ Last(cache).token = "img"
  <2>1. Len(events) \in 0 .. Len(events)
    BY <1>3
  <2>2. Ending(Len(events)) = "img"
    BY <2>1, <1>5 DEF KInv, Alternates
  <2> QED BY <2>2, <1>2 DEF KInv, Sampled
<1>7. Exact(cache', t') /\ Last(cache').token = "/img"
  BY <1>2, <1>6, ImageStays
<1>8. Exact(cache, t)'
  BY <1>7 DEF Exact
<1>9. Replayed'
  <2>1. UNCHANGED <<pass, at, again, u>> /\ phase' # "pass"
    BY <1>2 DEF replaying
  <2> QED BY <2>1 DEF KInv, Replayed, Exact
<1>10. Alternates' /\ Sampled'
  <2>1. Opens(Len(events) + 1) = (v.kind = "image")
    BY <1>4, <1>5
  <2>2. (v.kind = "text" /\ v.tokens[Len(v.tokens)] = "img") = (phase' = "image")
    BY <1>2, <1>4
  <2>3. Last(cache').token = (IF v.kind = "image" THEN "/img" ELSE v.tokens[Len(v.tokens)])
    BY <1>4, <1>7
  <2>4. phase' # "span" /\ (v.kind = "text" => Plain(v.tokens) /\ Len(v.tokens) > 0)
    BY <1>2, <1>4
  <2>5. input' = input /\ events' = Append(events, v)
    BY <1>2
  <2> QED BY <2>1, <2>2, <2>3, <2>4, <2>5, <1>3, <1>4, <1>8, RecordAlternates
<1> QED BY <1>9, <1>10 DEF KInv

\* A pass begins with the prompt.
LEMMA KEnter ==
  ASSUME IInv, KInv, NEW p, Enter(p), phase \in {"rolled", "between"}
  PROVE  KInv'
<1>1. /\ phase' = "pass" /\ at' = [event |-> 1, slice |-> 0]
      /\ again' = Prefill(input.prompt) /\ u' = Last(again').t /\ UNCHANGED <<input, rolling>>
  BY DEF Enter
<1>2. input.prompt \in Prompts
  BY DEF IInv, Types
<1>3. Exact(again', u') /\ Last(again').token = Last(input.prompt)
  BY <1>1, <1>2, PromptExact
<1>4. Alternates' /\ Sampled' /\ \A n : Ending(n)' = Ending(n)
  BY <1>1, RecordStays
<1>5. Replayed'
  <2>1. at'.event - 1 = 0 /\ Ending(0) = Last(input.prompt)
    BY <1>1 DEF Ending
  <2>2. Ending(at.event - 1)' = Last(input.prompt)
    BY <2>1, <1>1 DEF Ending
  <2>3. Exact(again, u)'
    BY <1>3 DEF Exact
  <2> QED BY <2>2, <2>3, <1>3 DEF Replayed
<1> QED BY <1>4, <1>5 DEF KInv

\* An event of a pass, replayed.
LEMMA KReplays ==
  ASSUME IInv, KInv, UNCHANGED <<input, phase, rolling, pass>>, phase = "pass",
         at.event \in DOMAIN events, at' = [event |-> at.event + 1, slice |-> 0],
         Exact(again', u'), Last(again').token = Ending(at.event)
  PROVE  KInv'
<1>1. Alternates' /\ Sampled' /\ \A n : Ending(n)' = Ending(n)
  BY RecordStays
<1>2. at.event \in Nat /\ at'.event - 1 = at.event
  BY DEF IInv, Types
<1>3. Ending(at.event - 1)' = Ending(at.event)
  <2>1. UNCHANGED <<input, events>>
    BY DEF rolling
  <2> QED BY <2>1, <1>2 DEF Ending
<1>4. Exact(again, u)'
  BY DEF Exact
<1> QED BY <1>1, <1>3, <1>4 DEF KInv, Replayed

\* What the cache of a pass ends with tells what comes next.
LEMMA Comes ==
  ASSUME IInv, KInv, phase = "pass", at.event \in DOMAIN events
  PROVE  /\ Exact(again, u) /\ (Last(again).token = "img" <=> Event.kind = "image")
         /\ Event \in EventType
         /\ Event.kind = "text" => /\ Plain(Event.tokens) /\ Len(Event.tokens) > 0
                                   /\ Ending(at.event) = Event.tokens[Len(Event.tokens)]
         /\ Event.kind = "image" => Ending(at.event) = "/img"
<1>1. PICK n \in Nat : n = Len(events) /\ DOMAIN events = 1 .. n /\ events \in Seq(EventType)
  BY DEF IInv, Types
<1>2. PICK e \in 1 .. n : e = at.event
  BY <1>1
<1>3. pass \in 1 .. 4
  BY DEF IInv, Control
<1>4. Exact(again, u) /\ Last(again).token = Ending(e - 1)
  BY <1>1, <1>2, <1>3 DEF KInv, Replayed
<1>5. e - 1 \in 0 .. n /\ e - 1 + 1 = e /\ e <= n /\ e # 0
  BY <1>2
<1>6. Ending(e - 1) = "img" <=> Opens(e)
  BY <1>1, <1>5 DEF KInv, Alternates
<1>7. Opens(e) <=> Event.kind = "image"
  BY <1>1, <1>2, <1>5 DEF Opens, Event
<1>8. Event = events[e] /\ Event \in EventType
  BY <1>1, <1>2 DEF Event
<1>9. Event.kind = "text" => /\ Plain(Event.tokens) /\ Len(Event.tokens) > 0
                             /\ Ending(e) = Event.tokens[Len(Event.tokens)]
  BY <1>1, <1>5, <1>8 DEF KInv, Alternates, Ending
<1>10. Event.kind = "image" => Ending(e) = "/img"
  BY <1>5, <1>8 DEF Ending
<1> QED BY <1>2, <1>4, <1>6, <1>7, <1>8, <1>9, <1>10

\* A span forced as a whole reads like a prefill.
LEMMA KReplayText ==
  ASSUME IInv, KInv, ReplayText
  PROVE  KInv'
<1>1. /\ phase = "pass" /\ at.event \in DOMAIN events /\ Event.kind = "text"
      /\ again' = TextReplayed(Event.tokens) /\ u' = u + Count(Event.tokens)
      /\ at' = [event |-> at.event + 1, slice |-> 0] /\ UNCHANGED <<input, phase, rolling, pass>>
  BY DEF ReplayText
<1>2. /\ Exact(again, u) /\ Last(again).token # "img" /\ Event \in EventType
      /\ Plain(Event.tokens) /\ Len(Event.tokens) > 0
      /\ Ending(at.event) = Event.tokens[Len(Event.tokens)]
  BY <1>1, Comes
<1>3. PICK tokens \in Seq(Tokens) : tokens = Event.tokens
  BY <1>2 DEF EventType
<1>4. again' = TextAppended(again, u, tokens) /\ u' = u + Len(tokens)
  BY <1>1, <1>3 DEF TextReplayed, ReplayMask, TextAppended, Count
<1>5. Exact(again', u') /\ Last(again').token = tokens[Len(tokens)]
  <2>1. Len(tokens) # 0
    BY <1>2, <1>3
  <2> QED BY <2>1, <1>2, <1>3, <1>4, TextStays
<1>6. Last(again').token = Ending(at.event)
  BY <1>2, <1>3, <1>5
<1> QED BY <1>1, <1>5, <1>6, KReplays

\* A recorded image appended again reads like a prefill.
LEMMA KAppendReplayed ==
  ASSUME IInv, KInv, UNCHANGED <<input, phase, rolling, pass>>, phase = "pass",
         at.event \in DOMAIN events, Event.kind = "image", AppendReplayed
  PROVE  KInv'
<1>1. /\ again' = ImageAppended(again, u) /\ u' = u + 2
      /\ at' = [event |-> at.event + 1, slice |-> 0]
  BY DEF AppendReplayed
<1>2. Exact(again, u) /\ Last(again).token = "img" /\ Ending(at.event) = "/img"
  BY Comes
<1>3. Exact(again', u') /\ Last(again').token = Ending(at.event)
  BY <1>1, <1>2, ImageStays
<1> QED BY <1>1, <1>3, KReplays

\* The other steps of a pass leave its cache alone.
LEMMA KIdles ==
  ASSUME IInv, KInv, UNCHANGED <<input, rolling, pass, again, u>>,
         phase \notin {"span", "image"}, phase' \notin {"span", "image"},
         phase' = "pass" => phase = "pass" /\ (at'.event = at.event \/ at'.event = Len(events) + 1)
  PROVE  KInv'
<1>1. Alternates' /\ Sampled' /\ \A n : Ending(n)' = Ending(n)
  BY RecordStays
<1>2. Exact(again, u)' = Exact(again, u)
  BY DEF Exact
<1>3. UNCHANGED events /\ Len(events) \in Nat
  BY DEF rolling, IInv, Types
<1>4. phase' = "pass" /\ at'.event <= Len(events') => at'.event = at.event
  BY <1>3
<1>5. at'.event = at.event => Ending(at.event - 1)' = Ending(at.event - 1)
  BY <1>3 DEF rolling, Ending
<1>6. Replayed'
  BY <1>2, <1>3, <1>4, <1>5 DEF KInv, Replayed
<1> QED BY <1>1, <1>6 DEF KInv

\* Every step of a session keeps its caches prefills.
LEMMA KNext ==
  ASSUME IInv, KInv, [Next]_vars
  PROVE  KInv'
<1>1. CASE NextSpan
  BY <1>1, KNextSpan
<1>2. CASE Sample
  BY <1>2, KSample
<1>3. CASE SampleImage
  BY <1>3, KSampleImage
<1>4. CASE Start
  BY <1>4, KEnter DEF Start
<1>5. CASE ReplayText
  BY <1>5, KReplayText
<1>6. CASE ReplayImage
  <2>1. /\ phase = "pass" /\ at.event \in DOMAIN events /\ Event.kind = "image" /\ AppendReplayed
        /\ UNCHANGED <<input, phase, rolling, pass>>
    BY <1>6 DEF ReplayImage
  <2> QED BY <2>1, KAppendReplayed
<1>7. CASE ReplaySlice
  <2>1. /\ phase = "pass" /\ phase' = phase /\ at'.event = at.event
        /\ UNCHANGED <<input, rolling, pass, again, u>>
    BY <1>7 DEF ReplaySlice, IInv, Types
  <2> QED BY <2>1, KIdles
<1>8. CASE NextImage
  <2>1. /\ phase = "pass" /\ at.event \in DOMAIN events /\ Event.kind = "image"
        /\ UNCHANGED <<input, phase, rolling, pass>>
    BY <1>8 DEF NextImage
  <2>2. CASE LastImage
    <3>1. at'.event = Len(events) + 1 /\ UNCHANGED <<again, u>>
      BY <1>8, <2>2 DEF NextImage
    <3> QED BY <2>1, <3>1, KIdles
  <2>3. CASE ~LastImage
    <3>1. AppendReplayed
      BY <1>8, <2>3 DEF NextImage
    <3> QED BY <2>1, <3>1, KAppendReplayed
  <2> QED BY <2>2, <2>3
<1>9. CASE EndPass
  <2>1. /\ phase = "pass" /\ phase' \in {"anchor", "between", "done", "raised"}
        /\ UNCHANGED <<input, rolling, pass, again, u>>
    BY <1>9 DEF EndPass
  <2> QED BY <2>1, KIdles
<1>10. CASE CutText \/ CutImage
  <2>1. phase = "anchor" /\ phase' = phase /\ UNCHANGED <<input, rolling, pass, again, u>>
    BY <1>10 DEF CutText, CutImage
  <2> QED BY <2>1, KIdles
<1>11. CASE EndAnchor
  <2>1. /\ phase = "anchor" /\ phase' \in {"between", "raised"}
        /\ UNCHANGED <<input, rolling, pass, again, u>>
    BY <1>11 DEF EndAnchor, replaying
  <2> QED BY <2>1, KIdles
<1>12. CASE NextPass
  BY <1>12, KEnter DEF NextPass
<1>13. CASE Fail
  <2>1. phase = "pass" /\ phase' = "failed" /\ UNCHANGED <<input, rolling, pass, again, u>>
    BY <1>13 DEF Fail
  <2> QED BY <2>1, KIdles
<1>14. CASE UNCHANGED vars
  <2>1. UNCHANGED <<input, phase, cache, t, tail, span, events, pass, at, again, u>>
    BY <1>14 DEF vars, rolling, replaying
  <2>2. \A n : Ending(n)' = Ending(n) /\ Opens(n)' = Opens(n)
    BY <2>1 DEF Ending, Opens
  <2>3. Alternates' /\ Sampled'
    BY <2>1, <2>2 DEF KInv, Alternates, Plain, Sampled, Exact
  <2>4. Ending(at.event - 1)' = Ending(at.event - 1)
    BY <2>1 DEF Ending
  <2>5. Replayed'
    BY <2>1, <2>4 DEF KInv, Replayed, Exact
  <2> QED BY <2>3, <2>5 DEF KInv
<1> QED BY <1>1, <1>2, <1>3, <1>4, <1>5, <1>6, <1>7, <1>8, <1>9, <1>10, <1>11, <1>12,
        <1>13, <1>14 DEF Next

-----------------------------------------------------------------------------
(* The generation entry points: what they make of caches is what a session makes of them. *)

\* Prefill in both.
LEMMA SamePrefill == \A ids : G!Prefill(ids) = Prefill(ids)
<1> TAKE ids
<1> QED BY Zenon DEF G!Cardinality, Cardinality, G!Prefill, Prefill, G!Entry, Entry, G!TIndex,
           TIndex, G!RowOf, RowOf, G!ColumnOf, ColumnOf, G!BlockCausal, BlockCausal, G!Patches,
           Patches

\* The steps that grow a cache in both.
LEMMA SameSteps ==
  /\ \A c, time, token : G!Decoded(c, time, token) = Decoded(c, time, token)
  /\ \A c, time, ids : G!TextAppended(c, time, ids) = TextAppended(c, time, ids)
  /\ \A c, time : G!ImageAppended(c, time) = ImageAppended(c, time)
<1>1. ASSUME NEW c, NEW time, NEW token PROVE G!Decoded(c, time, token) = Decoded(c, time, token)
  BY Zenon DEF G!Decoded, Decoded, G!Entry, Entry
<1>2. ASSUME NEW c, NEW time, NEW ids
      PROVE  G!TextAppended(c, time, ids) = TextAppended(c, time, ids)
  BY Zenon DEF G!TextAppended, TextAppended, G!Entry, Entry
<1>3. ASSUME NEW c, NEW time PROVE G!ImageAppended(c, time) = ImageAppended(c, time)
  BY Zenon DEF G!ImageAppended, ImageAppended, G!Entry, Entry, G!Patches, Patches, G!RowOf, RowOf,
               G!ColumnOf, ColumnOf
<1> QED BY <1>1, <1>2, <1>3

\* What both read off a cache.
LEMMA SameReadings ==
  /\ G!Patches = Patches /\ G!Image = Image
  /\ \A c : G!TokensOf(c) = TokensOf(c) /\ G!Last(c) = Last(c) /\ G!ToSet(c) = ToSet(c)
  /\ \A time : G!ImageIndexes(time) = ImageIndexes(time)
<1>1. G!Patches = Patches /\ G!Image = Image
  BY Zenon DEF G!Patches, Patches, G!Image, Image
<1>2. ASSUME NEW c PROVE G!TokensOf(c) = TokensOf(c) /\ G!Last(c) = Last(c) /\ G!ToSet(c) = ToSet(c)
  BY Zenon DEF G!TokensOf, TokensOf, G!Last, Last, G!ToSet, ToSet
<1>3. ASSUME NEW time PROVE G!ImageIndexes(time) = ImageIndexes(time)
  BY Zenon DEF G!ImageIndexes, ImageIndexes, G!Patches, Patches, G!RowOf, RowOf, G!ColumnOf,
     ColumnOf
<1> QED BY <1>1, <1>2, <1>3

\* Images to their end.
LEMMA SameEnds ==
  ASSUME NEW c \in Seq(Entries)
  PROVE  G!ImagesIn(c) = Cardinality(EndsOf(c))
<1>1. {i \in DOMAIN c : c[i].token = "/img"} = EndsOf(c)
  BY DEF EndsOf
<1>2. G!ImagesIn(c) = Cardinality({i \in DOMAIN c : c[i].token = "/img"})
  BY Zenon DEF G!ImagesIn, G!Cardinality, Cardinality
<1> QED BY <1>1, <1>2

-----------------------------------------------------------------------------
(* The decode workspace. *)

\* Its two lengths agree and stay inside; what it holds.
Slots == Entries \union {G!Empty}
Sound(w) ==
  /\ w \in [slots : Seq(Slots), length : Nat, seqlens : Nat]
  /\ w.seqlens = w.length /\ w.length <= Len(w.slots)
Filled(w) == SubSeq(w.slots, 1, w.length)

\* It holds the cache its first slots hold.
LEMMA FilledIs ==
  ASSUME NEW w, Sound(w), NEW c \in Seq(Entries), Len(c) = w.length,
         \A i \in 1 .. Len(c) : w.slots[i] = c[i]
  PROVE  Filled(w) = c
<1>1. PICK n \in Nat : n = w.length /\ n = Len(c)
  OBVIOUS
<1>2. PICK s \in Seq(Slots) : s = w.slots /\ n <= Len(s)
  BY <1>1 DEF Sound
<1>3. SubSeq(s, 1, n) = [i \in 1 .. n |-> s[i]]
  BY <1>1, <1>2
<1>4. \A i \in 1 .. n : s[i] = c[i]
  BY <1>1, <1>2
<1>5. c = [i \in 1 .. n |-> c[i]]
  BY <1>1
<1>6. [i \in 1 .. n |-> s[i]] = [i \in 1 .. n |-> c[i]]
  BY <1>4
<1> QED BY <1>1, <1>2, <1>3, <1>5, <1>6 DEF Filled

\* What its first slots hold.
LEMMA FilledAt ==
  ASSUME NEW w, Sound(w)
  PROVE  /\ Len(Filled(w)) = w.length
         /\ \A i \in 1 .. w.length : Filled(w)[i] = w.slots[i]
<1>1. PICK n \in Nat : n = w.length
  BY DEF Sound
<1>2. PICK s \in Seq(Slots) : s = w.slots /\ n <= Len(s)
  BY <1>1 DEF Sound
<1>3. Len(SubSeq(s, 1, n)) = n /\ \A i \in 1 .. n : SubSeq(s, 1, n)[i] = s[i]
  BY <1>1, <1>2
<1> QED BY <1>1, <1>2, <1>3 DEF Filled

\* Loading a prefix that fits makes it hold the prefix.
LEMMA WorkspaceLoads ==
  ASSUME NEW w, w.slots \in Seq(Slots), NEW c \in Seq(Entries), Len(c) <= Len(w.slots)
  PROVE  Sound(G!Loaded(w, c)) /\ Filled(G!Loaded(w, c)) = c
<1>1. PICK n \in Nat : n = Len(c)
  OBVIOUS
<1>2. PICK m \in Nat : m = Len(w.slots) /\ DOMAIN w.slots = 1 .. m
  OBVIOUS
<1>3. PICK s : s = [i \in 1 .. m |-> IF i <= n THEN c[i] ELSE w.slots[i]]
  OBVIOUS
<1>4. G!Loaded(w, c) = [slots |-> s, length |-> n, seqlens |-> n]
  BY <1>1, <1>2, <1>3 DEF G!Loaded
<1>5. \A i \in 1 .. m : (IF i <= n THEN c[i] ELSE w.slots[i]) \in Slots
  BY <1>1, <1>2 DEF Slots
<1>6. s \in Seq(Slots) /\ Len(s) = m
  BY <1>3, <1>5
<1>7. \A i \in 1 .. n : s[i] = c[i]
  BY <1>1, <1>2, <1>3
<1>8. Sound(G!Loaded(w, c))
  BY <1>1, <1>2, <1>4, <1>6 DEF Sound
<1> QED BY <1>1, <1>4, <1>7, <1>8, FilledIs

\* A token replayed through the graph enters it as it enters a cache.
LEMMA WorkspaceReplays ==
  ASSUME NEW w, Sound(w), NEW c \in Seq(Entries), c = Filled(w), w.length + 1 <= Len(w.slots),
         NEW time \in Int, NEW token \in Tokens
  PROVE  Sound(G!Replayed(w, time, token))
           /\ Filled(G!Replayed(w, time, token)) = Decoded(c, time, token)
<1>1. PICK n \in Nat : n = w.length /\ w.seqlens = n /\ Len(c) = n
  BY FilledAt DEF Sound
<1>2. PICK s \in Seq(Slots) : s = w.slots /\ n + 1 <= Len(s)
  BY <1>1 DEF Sound
<1>3. PICK e : e = Entry(token, time + 1, 0, 0, n + 1)
  OBVIOUS
<1>4. e \in Entries
  BY <1>1, <1>3 DEF Entry, Entries
<1>5. PICK new : new = [s EXCEPT ![n + 1] = e]
  OBVIOUS
<1>6. G!Replayed(w, time, token) = [slots |-> new, length |-> n + 1, seqlens |-> n + 1]
  BY <1>1, <1>2, <1>3, <1>5 DEF G!Replayed, G!Entry, Entry
<1>7. new \in Seq(Slots) /\ Len(new) = Len(s)
  BY <1>2, <1>4, <1>5 DEF Slots
<1>8. new[n + 1] = e /\ \A i \in 1 .. n : new[i] = s[i]
  BY <1>1, <1>2, <1>5
<1>9. Sound(G!Replayed(w, time, token))
  BY <1>1, <1>2, <1>6, <1>7 DEF Sound
<1>10. PICK d : d = Decoded(c, time, token)
  OBVIOUS
<1>11. d = Append(c, e)
  BY <1>1, <1>3, <1>10 DEF Decoded
<1>12. d \in Seq(Entries) /\ Len(d) = n + 1 /\ d[n + 1] = e /\ \A i \in 1 .. n : d[i] = c[i]
  BY <1>1, <1>4, <1>11, Appended
<1>13. \A i \in 1 .. n : c[i] = s[i]
  BY <1>1, <1>2, FilledAt
<1>14. \A i \in 1 .. n + 1 : i \in 1 .. n \/ i = n + 1
  BY <1>1
<1>15. \A i \in 1 .. n + 1 : new[i] = d[i]
  BY <1>8, <1>12, <1>13, <1>14
<1> QED BY <1>6, <1>9, <1>10, <1>12, <1>15, FilledIs

\* The end of a sequence.
LEMMA TailIs ==
  ASSUME NEW S, NEW s \in Seq(S), NEW n \in Nat, NEW m \in Nat, Len(s) = n + m
  PROVE  /\ Len(SubSeq(s, n + 1, n + m)) = m
         /\ \A i \in 1 .. m : SubSeq(s, n + 1, n + m)[i] = s[n + i]
<1>1. SubSeq(s, n + 1, n + m) = [i \in 1 .. m |-> s[i + (n + 1) - 1]]
  OBVIOUS
<1>2. [i \in 1 .. m |-> s[i + (n + 1) - 1]] = [i \in 1 .. m |-> s[n + i]]
  OBVIOUS
<1>3. SubSeq(s, n + 1, n + m) = [i \in 1 .. m |-> s[n + i]]
  BY <1>1, <1>2
<1> QED BY <1>3

\* An image written after its length, and both lengths synchronized.
LEMMA WorkspaceUpdates ==
  ASSUME NEW w, Sound(w), NEW c \in Seq(Entries), c = Filled(w), NEW m \in Nat,
         w.length + m <= Len(w.slots), NEW d \in Seq(Entries), Len(d) = Len(c) + m,
         \A i \in 1 .. Len(c) : d[i] = c[i],
         NEW all, all = G!Updated(w, SubSeq(d, Len(c) + 1, Len(d)))
  PROVE  Sound(all) /\ Filled(all) = d
<1>1. PICK n \in Nat : n = w.length /\ w.seqlens = n /\ Len(c) = n
  BY FilledAt DEF Sound
<1>2. PICK s \in Seq(Slots) : s = w.slots /\ n + m <= Len(s) /\ DOMAIN s = 1 .. Len(s)
  BY <1>1 DEF Sound
<1>3. PICK added : added = SubSeq(d, n + 1, n + m)
  OBVIOUS
<1>4. Len(added) = m /\ \A i \in n + 1 .. n + m : added[i - n] = d[i]
  <2>1. /\ Len(SubSeq(d, n + 1, n + m)) = m
        /\ \A i \in 1 .. m : SubSeq(d, n + 1, n + m)[i] = d[n + i]
    <3>1. Len(d) = n + m
      BY <1>1
    <3> QED BY <1>1, <3>1, TailIs
  <2>2. \A i \in n + 1 .. n + m : i - n \in 1 .. m /\ n + (i - n) = i
    BY <1>1
  <2> QED BY <1>3, <2>1, <2>2
<1>5. PICK new : new = [i \in 1 .. Len(s) |-> IF i \in n + 1 .. n + m THEN added[i - n] ELSE s[i]]
  OBVIOUS
<1>6. all = [slots |-> new, length |-> n + m, seqlens |-> n + m]
  BY <1>1, <1>2, <1>3, <1>4, <1>5 DEF G!Updated
<1>7. \A i \in 1 .. Len(s) : new[i] = IF i \in n + 1 .. n + m THEN d[i] ELSE s[i]
  BY <1>4, <1>5
<1>8. \A i \in 1 .. n + m : new[i] = d[i]
  <2>1. \A i \in 1 .. n : d[i] = s[i]
    BY <1>1, <1>2, FilledAt
  <2>2. \A i \in 1 .. n + m : i \in 1 .. Len(s) /\ (i \in 1 .. n \/ i \in n + 1 .. n + m)
    BY <1>1, <1>2
  <2> QED BY <1>7, <2>1, <2>2
<1>9. \A i \in 1 .. Len(s) : new[i] \in Slots
  <2>1. \A i \in n + 1 .. n + m : d[i] \in Entries
    BY <1>1
  <2> QED BY <1>2, <1>7, <2>1 DEF Slots
<1>10. new \in Seq(Slots) /\ Len(new) = Len(s)
  <2>1. PICK l \in Nat : l = Len(s)
    BY <1>2
  <2>2. new = [i \in 1 .. l |-> new[i]]
    BY <1>5, <2>1
  <2>3. \A i \in 1 .. l : new[i] \in Slots
    BY <1>9, <2>1
  <2> QED BY <2>1, <2>2, <2>3
<1>11. Sound(all)
  BY <1>1, <1>2, <1>6, <1>10 DEF Sound
<1>12. Filled(all) = d
  <2>1. Len(d) = all.length /\ \A i \in 1 .. Len(d) : all.slots[i] = d[i]
    BY <1>1, <1>6, <1>8
  <2> QED BY <1>11, <2>1, FilledIs
<1> QED BY <1>11, <1>12

\* The workspace holds c, has room for m more, and gets those d holds beyond c.
Extends(w, c, m, d, all) ==
  /\ Sound(w) /\ c = Filled(w) /\ w.length + m <= Len(w.slots) /\ Len(d) = Len(c) + m
  /\ \A i \in 1 .. Len(c) : d[i] = c[i]
  /\ all = G!Updated(w, SubSeq(d, Len(c) + 1, Len(d)))

\* It then holds d.
LEMMA WorkspaceExtends ==
  ASSUME NEW w, NEW c \in Seq(Entries), NEW m \in Nat, NEW d \in Seq(Entries), NEW all,
         Extends(w, c, m, d, all)
  PROVE  Sound(all) /\ Filled(all) = d
BY WorkspaceUpdates DEF Extends

-----------------------------------------------------------------------------
(* Prompts, and where the patches of an image stand. *)

\* An image of a prompt: its <img>, its patches, its end.
LEMMA ImageShape ==
  ASSUME NEW n \in Nat \ {0}, n = Patches
  PROVE  /\ Image \in Seq(Tokens) /\ Len(Image) = n + 2
         /\ Image[1] = "img" /\ Image[n + 2] = "/img" /\ \A j \in 2 .. n + 1 : Image[j] = "patch"
<1>1. PICK patches : patches = [j \in 1 .. n |-> "patch"]
  OBVIOUS
<1>2. patches \in Seq(Tokens) /\ Len(patches) = n /\ \A j \in 1 .. n : patches[j] = "patch"
  <2>1. "patch" \in Tokens
    BY DEF Tokens
  <2> QED BY <1>1, <2>1
<1>3. <<"img">> \in Seq(Tokens) /\ <<"/img">> \in Seq(Tokens)
  BY DEF Tokens
<1>4. PICK s : s = <<"img">> \o patches
  OBVIOUS
<1>5. /\ s \in Seq(Tokens) /\ Len(s) = n + 1 /\ s[1] = "img"
      /\ \A j \in 1 .. n : s[1 + j] = "patch"
  <2>1. Len(<<"img">>) = 1 /\ <<"img">>[1] = "img" /\ 1 \in 1 .. 1 /\ 1 + n = n + 1
    OBVIOUS
  <2> QED BY <1>2, <1>3, <1>4, <2>1, Joined
<1>6. Image = s \o <<"/img">>
  BY <1>1, <1>4 DEF Image
<1>7. PICK whole : whole = s \o <<"/img">>
  OBVIOUS
<1>8. /\ whole \in Seq(Tokens) /\ Len(whole) = n + 2 /\ whole[n + 2] = "/img"
      /\ \A j \in 1 .. n + 1 : whole[j] = s[j]
  <2>1. Len(<<"/img">>) = 1 /\ <<"/img">>[1] = "/img" /\ 1 \in 1 .. 1 /\ n + 1 + 1 = n + 2
    OBVIOUS
  <2> QED BY <1>3, <1>5, <1>7, <2>1, Joined
<1>9. whole[1] = "img" /\ \A j \in 2 .. n + 1 : whole[j] = "patch"
  <2>1. 1 \in 1 .. n + 1
    OBVIOUS
  <2>2. \A j \in 2 .. n + 1 : j \in 1 .. n + 1 /\ j - 1 \in 1 .. n /\ 1 + (j - 1) = j
    OBVIOUS
  <2> QED BY <1>5, <1>8, <2>1, <2>2
<1> QED BY <1>6, <1>7, <1>8, <1>9

\* A prompt of whole images, and how it ends.
Whole(p, opened, m) ==
  /\ p \in Seq(Tokens) /\ Len(p) > 0 /\ (Last(p) = "img" <=> opened)
  /\ Cardinality(PatchesIn(p, Len(p))) % Patches = 0
  /\ Cardinality({j \in 1 .. Len(p) : p[j] = "/img"}) = m

\* A prompt is a word, an image or none, and a few words or an <img>.
LEMMA PromptShape ==
  ASSUME NEW p, NEW i, NEW k \in Nat, NEW z \in Seq({"word", "img"}), NEW m \in 0 .. 1,
         i = (IF m = 1 THEN Image ELSE <<>>), k = Len(z), p = <<"word">> \o i \o z
  PROVE  Whole(p, k > 0 /\ z[k] = "img", m)
<1>1. PICK n \in Nat \ {0} : n = Patches
  BY GridPositions
<1>2. z \in Seq(Tokens) /\ \A j \in 1 .. k : z[j] \in {"word", "img"}
  BY DEF Tokens
<1>3. <<"word">> \in Seq(Tokens)
  BY DEF Tokens
<1>4. CASE m = 0
  <2>1. /\ p \in Seq(Tokens) /\ Len(p) = 1 + k /\ p[1] = "word"
        /\ \A j \in 1 .. k : p[1 + j] = z[j]
    <3>1. <<"word">> \o i = <<"word">>
      BY <1>4
    <3>2. p = <<"word">> \o z
      BY <3>1
    <3>3. Len(<<"word">>) = 1 /\ <<"word">>[1] = "word" /\ 1 \in 1 .. 1
      OBVIOUS
    <3>4. /\ <<"word">> \o z \in Seq(Tokens)
          /\ Len(<<"word">> \o z) = Len(<<"word">>) + Len(z)
          /\ \A j \in 1 .. Len(<<"word">>) : (<<"word">> \o z)[j] = <<"word">>[j]
          /\ \A j \in 1 .. Len(z) : (<<"word">> \o z)[Len(<<"word">>) + j] = z[j]
      BY <1>2, <1>3, Joined
    <3> QED BY <3>2, <3>3, <3>4
  <2>2. \A j \in 1 .. 1 + k : j = 1 \/ (j - 1 \in 1 .. k /\ 1 + (j - 1) = j)
    OBVIOUS
  <2>3. \A j \in 1 .. 1 + k : p[j] \in {"word", "img"}
    BY <1>2, <2>1, <2>2
  <2>4. PatchesIn(p, Len(p)) = {} /\ {j \in 1 .. Len(p) : p[j] = "/img"} = {}
    BY <2>1, <2>3 DEF PatchesIn
  <2>5. Cardinality(PatchesIn(p, Len(p))) = 0
    BY <2>4, FS_EmptySet
  <2>6. 0 % Patches = 0
    BY <1>1
  <2>7. Last(p) = IF k = 0 THEN "word" ELSE z[k]
    BY <2>1 DEF Last
  <2>8. Len(p) > 0 /\ (Last(p) = "img" <=> k > 0 /\ z[k] = "img")
    BY <2>1, <2>7
  <2>9. Cardinality({j \in 1 .. Len(p) : p[j] = "/img"}) = m
    BY <1>4, <2>4, FS_EmptySet
  <2> QED BY <2>1, <2>5, <2>6, <2>8, <2>9 DEF Whole
<1>5. CASE m = 1
  <2>1. /\ Image \in Seq(Tokens) /\ Len(Image) = n + 2 /\ Image[1] = "img" /\ Image[n + 2] = "/img"
        /\ \A j \in 2 .. n + 1 : Image[j] = "patch"
    BY <1>1, ImageShape
  <2>2. PICK q : q = <<"word">> \o i
    OBVIOUS
  <2>3. /\ q \in Seq(Tokens) /\ Len(q) = n + 3 /\ q[1] = "word"
        /\ \A j \in 1 .. n + 2 : q[1 + j] = Image[j]
    <3>1. Len(<<"word">>) = 1 /\ <<"word">>[1] = "word" /\ 1 + (n + 2) = n + 3
      OBVIOUS
    <3> QED BY <1>3, <1>5, <2>1, <2>2, <3>1, Joined
  <2>4. /\ p \in Seq(Tokens) /\ Len(p) = n + 3 + k
        /\ \A j \in 1 .. n + 3 : p[j] = q[j]
        /\ \A j \in 1 .. k : p[n + 3 + j] = z[j]
    <3>1. p = q \o z
      BY <2>2
    <3>2. /\ q \o z \in Seq(Tokens) /\ Len(q \o z) = Len(q) + Len(z)
          /\ \A j \in 1 .. Len(q) : (q \o z)[j] = q[j]
          /\ \A j \in 1 .. Len(z) : (q \o z)[Len(q) + j] = z[j]
      <4>1. q \in Seq(Tokens) /\ z \in Seq(Tokens)
        BY <1>2, <2>3
      <4> QED BY <4>1, Joined
    <3> QED BY <2>3, <3>1, <3>2
  <2>5. /\ p[1] = "word" /\ p[2] = "img" /\ p[n + 3] = "/img"
        /\ \A j \in 3 .. n + 2 : p[j] = "patch"
        /\ \A j \in n + 4 .. n + 3 + k : p[j] \in {"word", "img"}
    <3>1. 1 \in 1 .. n + 3 /\ 2 \in 1 .. n + 3 /\ n + 3 \in 1 .. n + 3
      OBVIOUS
    <3>2. /\ 1 \in 1 .. n + 2 /\ 1 + 1 = 2 /\ n + 2 \in 1 .. n + 2 /\ 1 + (n + 2) = n + 3
      OBVIOUS
    <3>3. \A j \in 3 .. n + 2 : /\ j \in 1 .. n + 3 /\ j - 1 \in 1 .. n + 2 /\ 1 + (j - 1) = j
                                /\ j - 1 \in 2 .. n + 1
      OBVIOUS
    <3>4. \A j \in n + 4 .. n + 3 + k : j - (n + 3) \in 1 .. k /\ n + 3 + (j - (n + 3)) = j
      OBVIOUS
    <3>5. p[1] = "word" /\ p[2] = "img" /\ p[n + 3] = "/img"
      <4>1. q[2] = "img" /\ q[n + 3] = "/img"
        BY <2>1, <2>3, <3>2
      <4> QED BY <2>3, <2>4, <3>1, <4>1
    <3>6. \A j \in 3 .. n + 2 : p[j] = "patch"
      BY <2>1, <2>3, <2>4, <3>3
    <3>7. \A j \in n + 4 .. n + 3 + k : p[j] \in {"word", "img"}
      BY <1>2, <2>4, <3>4
    <3> QED BY <3>5, <3>6, <3>7
  <2>6. \A j \in 1 .. n + 3 + k :
          j = 1 \/ j = 2 \/ j \in 3 .. n + 2 \/ j = n + 3 \/ j \in n + 4 .. n + 3 + k
    OBVIOUS
  <2>7. PatchesIn(p, Len(p)) = 3 .. n + 2
    <3>1. \A j \in 3 .. n + 2 : j \in 1 .. n + 3 + k
      OBVIOUS
    <3> QED BY <2>4, <2>5, <2>6, <3>1 DEF PatchesIn
  <2>8. {j \in 1 .. Len(p) : p[j] = "/img"} = {n + 3}
    <3>1. n + 3 \in 1 .. n + 3 + k
      OBVIOUS
    <3>2. \A j \in 1 .. n + 3 + k : p[j] = "/img" => j = n + 3
      BY <2>5, <2>6
    <3>3. Len(p) = n + 3 + k /\ p[n + 3] = "/img"
      BY <2>4, <2>5
    <3> QED BY <3>1, <3>2, <3>3
  <2>9. Cardinality(PatchesIn(p, Len(p))) = n
    <3>1. Cardinality(3 .. n + 2) = IF 3 > n + 2 THEN 0 ELSE (n + 2) - 3 + 1
      BY FS_Interval
    <3> QED BY <2>7, <3>1
  <2>10. n % n = 0
    OBVIOUS
  <2>11. Last(p) = IF k = 0 THEN "/img" ELSE z[k]
    <3>1. Last(p) = p[n + 3 + k]
      BY <2>4 DEF Last
    <3>2. CASE k = 0
      <4>1. n + 3 + k = n + 3
        BY <3>2
      <4> QED BY <2>5, <3>1, <3>2, <4>1
    <3>3. CASE k # 0
      <4>1. k \in 1 .. k
        BY <3>3
      <4> QED BY <2>4, <3>1, <3>3, <4>1
    <3> QED BY <3>2, <3>3
  <2>12. Cardinality({n + 3}) = 1
    BY FS_Singleton
  <2>13. Len(p) > 0 /\ (Last(p) = "img" <=> k > 0 /\ z[k] = "img")
    BY <2>4, <2>11
  <2>14. Cardinality(PatchesIn(p, Len(p))) % Patches = 0
    BY <1>1, <2>9, <2>10
  <2>15. Cardinality({j \in 1 .. Len(p) : p[j] = "/img"}) = m
    BY <1>5, <2>8, <2>12
  <2> QED BY <2>4, <2>13, <2>14, <2>15 DEF Whole
<1> QED BY <1>4, <1>5

\* Which prompts end with an <img>.
Begins(r, b) ==
  \/ b = "cond" /\ r.entry \in {"it2i", "t2i"} /\ ~r.think
  \/ b = "iu" \/ (b = "tu" /\ r.entry = "it2i")

\* The prompts of every call are such, with the images it was given, or none.
LEMMA PromptWhole ==
  ASSUME NEW r \in G!Requests, NEW b \in G!Branches
  PROVE  Whole(G!Prompt(r, b), Begins(r, b), IF b = "iu" THEN 0 ELSE r.sources)
<1>1. r.sources \in 0 .. 1
  BY DEF G!Requests
<1>2. PICK i : i = (IF r.sources = 1 THEN Image ELSE <<>>)
  OBVIOUS
<1>3. G!SourceImages(r) = i
  BY <1>2, SameReadings DEF G!SourceImages
<1>4. i \in Seq(Tokens)
  <2>1. PICK n \in Nat \ {0} : n = Patches
    BY GridPositions
  <2> QED BY <1>2, <2>1, ImageShape
<1>5. CASE b = "cond"
  <2>1. PICK z, y :
          /\ z = (IF r.entry \in {"it2i", "t2i"} /\ ~r.think THEN <<"word", "img">> ELSE <<"word">>)
          /\ y = (IF r.entry \in {"it2i", "t2i"} /\ ~r.think THEN <<"img">> ELSE <<>>)
    OBVIOUS
  <2>2. \/ r.entry \in {"it2i", "t2i"} /\ ~r.think /\ z = <<"word", "img">>
        \/ ~ (r.entry \in {"it2i", "t2i"} /\ ~r.think) /\ z = <<"word">>
    BY <2>1
  <2>3. z \in Seq({"word", "img"}) /\ Len(z) > 0 /\ Len(z) \in Nat
    <3>1. <<"word", "img">> \in Seq({"word", "img"}) /\ Len(<<"word", "img">>) = 2
      OBVIOUS
    <3>2. <<"word">> \in Seq({"word", "img"}) /\ Len(<<"word">>) = 1
      OBVIOUS
    <3>3. 2 > 0 /\ 1 > 0 /\ 2 \in Nat /\ 1 \in Nat
      OBVIOUS
    <3> QED BY <2>2, <3>1, <3>2, <3>3, Zenon
  <2>4. z[Len(z)] = "img" <=> r.entry \in {"it2i", "t2i"} /\ ~r.think
    <3>1. Len(<<"word", "img">>) = 2 /\ <<"word", "img">>[2] = "img"
      OBVIOUS
    <3>2. Len(<<"word">>) = 1 /\ <<"word">>[1] = "word" /\ "word" # "img"
      OBVIOUS
    <3> QED BY <2>2, <3>1, <3>2, Zenon
  <2>5. z[Len(z)] = "img" <=> Begins(r, b)
    BY <1>5, <2>4, Zenon DEF Begins
  <2>6. PICK q : q = <<"word">> \o i
    OBVIOUS
  <2>7. q \in Seq(Tokens)
    <3>1. <<"word">> \in Seq(Tokens)
      BY DEF Tokens
    <3> QED BY <1>4, <2>6, <3>1, Joined
  <2>8. PICK p : p = G!Prompt(r, b)
    OBVIOUS
  <2>9. p = q \o <<"word">> \o y
    BY <1>3, <1>5, <2>1, <2>6, <2>8 DEF G!Prompt
  <2>10. q \o <<"word">> \o y = q \o z
    BY <2>1, <2>7
  <2>11. p = <<"word">> \o i \o z
    BY <2>6, <2>9, <2>10
  <2>12. Whole(p, Len(z) > 0 /\ z[Len(z)] = "img", r.sources)
    BY <1>1, <1>2, <2>3, <2>11, PromptShape
  <2> QED BY <1>5, <2>3, <2>5, <2>8, <2>12 DEF Whole
<1>6. CASE b = "tu"
  <2>1. PICK z : z = (IF r.entry = "it2i" THEN <<"img">> ELSE <<>>)
    OBVIOUS
  <2>2. z \in Seq({"word", "img"}) /\ Len(z) \in Nat
    <3>1. <<"img">> \in Seq({"word", "img"}) /\ Len(<<"img">>) = 1
      OBVIOUS
    <3>2. <<>> \in Seq({"word", "img"}) /\ Len(<<>>) = 0
      OBVIOUS
    <3>3. z = <<"img">> \/ z = <<>>
      BY <2>1, Zenon
    <3> QED BY <3>1, <3>2, <3>3
  <2>3. (Len(z) > 0 /\ z[Len(z)] = "img") <=> r.entry = "it2i"
    <3>1. CASE r.entry = "it2i"
      <4>1. z = <<"img">>
        BY <2>1, <3>1
      <4>2. Len(z) > 0 /\ z[Len(z)] = "img"
        BY <4>1
      <4> QED BY <3>1, <4>2
    <3>2. CASE r.entry # "it2i"
      <4>1. z = <<>>
        BY <2>1, <3>2
      <4>2. ~ (Len(z) > 0)
        BY <4>1
      <4> QED BY <3>2, <4>2
    <3> QED BY <3>1, <3>2
  <2>4. (Len(z) > 0 /\ z[Len(z)] = "img") <=> Begins(r, b)
    BY <1>6, <2>3, Zenon DEF Begins
  <2>5. PICK p : p = G!Prompt(r, b)
    OBVIOUS
  <2>6. p = <<"word">> \o i \o z
    BY <1>3, <1>6, <2>1, <2>5 DEF G!Prompt
  <2>7. Whole(p, Len(z) > 0 /\ z[Len(z)] = "img", r.sources)
    BY <1>1, <1>2, <2>2, <2>6, PromptShape
  <2> QED BY <1>6, <2>4, <2>5, <2>7 DEF Whole
<1>7. CASE b = "iu"
  <2>1. PICK z, o : z = <<"img">> /\ o = <<>>
    OBVIOUS
  <2>2. z \in Seq({"word", "img"}) /\ Len(z) = 1 /\ z[1] = "img"
    BY <2>1
  <2>3. PICK p : p = G!Prompt(r, b)
    OBVIOUS
  <2>4. p = <<"word">> \o o \o z
    <3>1. p = <<"word", "img">>
      BY <1>7, <2>3 DEF G!Prompt
    <3> QED BY <3>1, <2>1
  <2>5. PICK m \in 0 .. 1 : m = 0
    OBVIOUS
  <2>6. o = (IF m = 1 THEN Image ELSE <<>>)
    BY <2>1, <2>5
  <2>7. Whole(p, Len(z) > 0 /\ z[Len(z)] = "img", m)
    BY <2>2, <2>4, <2>6, PromptShape
  <2>8. Begins(r, b)
    BY <1>7, Zenon DEF Begins
  <2> QED BY <1>7, <2>2, <2>3, <2>5, <2>7, <2>8 DEF Whole
<1> QED BY <1>5, <1>6, <1>7 DEF G!Branches

\* The cache of a branch: exact, open for an image or not, with so many images in it.
BranchIs(c, time, opened, m) ==
  Exact(c, time) /\ (Last(c).token = "img" <=> opened) /\ Cardinality(EndsOf(c)) = m

\* A prefilled prompt.
LEMMA BranchBegins ==
  ASSUME NEW r \in G!Requests, NEW b \in G!Branches, NEW c, c = G!Prefill(G!Prompt(r, b))
  PROVE  /\ BranchIs(c, G!Last(c).t, Begins(r, b), IF b = "iu" THEN 0 ELSE r.sources)
         /\ Len(c) = Len(G!Prompt(r, b))
<1>1. PICK p : p = G!Prompt(r, b)
  OBVIOUS
<1>2. Whole(p, Begins(r, b), IF b = "iu" THEN 0 ELSE r.sources)
  BY <1>1, PromptWhole
<1>3. c = Prefill(p) /\ G!Last(c) = Last(c)
  BY <1>1, SamePrefill, SameReadings
<1>4. /\ p \in Seq(Tokens) /\ Len(p) > 0 /\ Cardinality(PatchesIn(p, Len(p))) % Patches = 0
      /\ Cardinality({j \in 1 .. Len(p) : p[j] = "/img"}) = IF b = "iu" THEN 0 ELSE r.sources
  BY <1>2 DEF Whole
<1>5. Last(p) = "img" <=> Begins(r, b)
  BY <1>2, Zenon DEF Whole
<1>6. /\ Exact(Prefill(p), Last(Prefill(p)).t) /\ Last(Prefill(p)).token = Last(p)
      /\ EndsOf(Prefill(p)) = {i \in 1 .. Len(p) : p[i] = "/img"}
      /\ Len(Prefill(p)) = Len(p)
  BY <1>4, PrefillExact, Prefilled
<1>7. Exact(c, G!Last(c).t) /\ Last(c).token = Last(p) /\ Len(c) = Len(p)
  BY <1>3, <1>6
<1>8. Cardinality(EndsOf(c)) = IF b = "iu" THEN 0 ELSE r.sources
  BY <1>3, <1>4, <1>6
<1>9. Last(c).token = "img" <=> Begins(r, b)
  BY <1>5, <1>7, Zenon
<1> QED BY <1>1, <1>7, <1>8, <1>9 DEF BranchIs

\* One more token.
LEMMA BranchToken ==
  ASSUME NEW c, NEW time, NEW m, BranchIs(c, time, FALSE, m), NEW token \in {"word", "img"}
  PROVE  BranchIs(Decoded(c, time, token), time + 1, token = "img", m)
<1>1. Exact(c, time) /\ Last(c).token # "img" /\ Cardinality(EndsOf(c)) = m
  BY DEF BranchIs
<1>2. token \in {"word", "eos", "img"}
  OBVIOUS
<1>3. PICK d : d = Decoded(c, time, token)
  OBVIOUS
<1>4. Exact(d, time + 1) /\ EndsOf(d) = EndsOf(c) /\ Last(d).token = token
  BY <1>1, <1>2, <1>3, TokenStays
<1> QED BY <1>1, <1>3, <1>4 DEF BranchIs

\* A word, an <img>, both or neither as known text.
LEMMA BranchText ==
  ASSUME NEW c, NEW time, NEW m, BranchIs(c, time, FALSE, m), NEW tokens,
         tokens \in {<<>>, <<"word">>, <<"img">>, <<"word", "img">>}
  PROVE  BranchIs(TextAppended(c, time, tokens), time + Len(tokens),
                  tokens \in {<<"img">>, <<"word", "img">>}, m)
<1>1. Exact(c, time) /\ Last(c).token # "img" /\ Cardinality(EndsOf(c)) = m
  BY DEF BranchIs
<1>2. tokens \in Seq(Tokens) /\ Plain(tokens)
  <2>1. <<>> \in Seq(Tokens) /\ Plain(<<>>)
    BY DEF Plain
  <2>2. <<"word">> \in Seq(Tokens) /\ Plain(<<"word">>)
    BY DEF Plain, Tokens
  <2>3. <<"img">> \in Seq(Tokens) /\ Plain(<<"img">>)
    BY DEF Plain, Tokens
  <2>4. <<"word", "img">> \in Seq(Tokens) /\ Plain(<<"word", "img">>)
    BY DEF Plain, Tokens
  <2> QED BY <2>1, <2>2, <2>3, <2>4, Zenon
<1>3. PICK d : d = TextAppended(c, time, tokens)
  OBVIOUS
<1>4. /\ Exact(d, time + Len(tokens)) /\ EndsOf(d) = EndsOf(c)
      /\ Last(d).token = (IF Len(tokens) = 0 THEN Last(c).token ELSE tokens[Len(tokens)])
  BY <1>1, <1>2, <1>3, TextStays
<1>5. Last(d).token = "img" <=> tokens \in {<<"img">>, <<"word", "img">>}
  <2>1. CASE tokens = <<>>
    BY <2>1, <1>1, <1>4
  <2>2. CASE tokens = <<"word">>
    BY <2>2, <1>4
  <2>3. CASE tokens = <<"img">>
    BY <2>3, <1>4
  <2>4. CASE tokens = <<"word", "img">>
    BY <2>4, <1>4
  <2> QED BY <2>1, <2>2, <2>3, <2>4
<1>6. Exact(d, time + Len(tokens)) /\ Cardinality(EndsOf(d)) = m
  BY <1>1, <1>4
<1>7. BranchIs(d, time + Len(tokens), tokens \in {<<"img">>, <<"word", "img">>}, m)
  BY <1>5, <1>6, Zenon DEF BranchIs
<1> QED BY <1>3, <1>7, Zenon

\* The image its <img> opened; it lengthens the cache by the patches and the end.
LEMMA BranchImage ==
  ASSUME NEW c, NEW time, NEW m, BranchIs(c, time, TRUE, m)
  PROVE  LET d == ImageAppended(c, time)
         IN  /\ BranchIs(d, time + 2, FALSE, m + 1)
             /\ d \in Seq(Entries) /\ Len(d) = Len(c) + (Patches + 1)
             /\ \A i \in 1 .. Len(c) : d[i] = c[i]
<1>1. Exact(c, time) /\ Last(c).token = "img" /\ Cardinality(EndsOf(c)) = m
  BY DEF BranchIs
<1>2. PICK d : d = ImageAppended(c, time)
  OBVIOUS
<1>3. /\ Exact(d, time + 2) /\ Cardinality(EndsOf(d)) = Cardinality(EndsOf(c)) + 1
      /\ Last(d).token = "/img"
  BY <1>1, <1>2, ImageStays
<1>4. c \in Seq(Entries) /\ Len(c) \in Nat /\ time \in Int
  BY <1>1, ExactTyped
<1>5. PICK v \in EventType :
        v.kind = "image" /\ v.tokens = <<>> /\ v.from = Len(c) /\ v.t = time
  <2>1. [kind |-> "image", tokens |-> <<>>, from |-> Len(c), t |-> time] \in EventType
    BY <1>4 DEF EventType
  <2> QED BY <2>1
<1>6. Grown(c, v, d)
  BY <1>2, <1>4, <1>5, ImageGrows
<1>7. d \in Seq(Entries) /\ Len(d) = Len(c) + (Patches + 1) /\ \A i \in 1 .. Len(c) : d[i] = c[i]
  BY <1>5, <1>6 DEF Grown, Size
<1>8. BranchIs(d, time + 2, FALSE, m + 1)
  BY <1>1, <1>3 DEF BranchIs
<1> QED BY <1>2, <1>7, <1>8

\* The patches of an image stand where they are denoised: they alone come after all indexes.
LEMMA ImagePlaces ==
  ASSUME NEW c, NEW time, Exact(c, time)
  PROVE  ImageIndexes(time) =
           {<<e.t, e.h, e.w>> : e \in {e \in ToSet(ImageAppended(c, time)) :
                                         e.token = "patch" /\ e.t > time}}
<1>1. c \in Seq(Entries) /\ Len(c) \in Nat \ {0} /\ time \in Int
  BY ExactTyped
<1>2. PICK n \in Nat \ {0} : n = Len(c)
  BY <1>1
<1>3. PICK p \in Nat \ {0} : p = Patches
  BY GridPositions
<1>4. PICK d : d = ImageAppended(c, time)
  OBVIOUS
<1>5. PICK v \in EventType :
        v.kind = "image" /\ v.tokens = <<>> /\ v.from = n /\ v.t = time
  <2>1. [kind |-> "image", tokens |-> <<>>, from |-> n, t |-> time] \in EventType
    BY <1>1, <1>2 DEF EventType
  <2> QED BY <2>1
<1>6. Grown(c, v, d)
  BY <1>1, <1>2, <1>4, <1>5, ImageGrows
<1>7. /\ d \in Seq(Entries) /\ Len(d) = n + (p + 1)
      /\ \A i \in 1 .. n : d[i] = c[i]
      /\ \A i \in 1 .. p + 1 : d[n + i] = EntryOf(v, i)
  BY <1>2, <1>3, <1>5, <1>6 DEF Grown, Size
<1>8. \A i \in 1 .. p : d[n + i] = Entry("patch", time + 1, RowOf(i - 1), ColumnOf(i - 1), n + p)
  BY <1>3, <1>5, <1>7 DEF EntryOf
<1>9. d[n + (p + 1)].token = "/img"
  <2>1. p + 1 \in 1 .. p + 1 /\ ~ (p + 1 <= p)
    OBVIOUS
  <2>2. d[n + (p + 1)] = EntryOf(v, p + 1)
    BY <1>7, <2>1
  <2>3. EntryOf(v, p + 1) = Entry("/img", v.t + 2, 0, 0, v.from + p + 1)
    BY <1>3, <1>5, <2>1 DEF EntryOf
  <2> QED BY <2>2, <2>3 DEF Entry
<1>10. ASSUME NEW i \in 1 .. n PROVE c[i].t <= time /\ c[i].t \in Int
  <2>1. PICK ids : ids = TokensOf(c)
    OBVIOUS
  <2>2. ids \in Seq(Tokens) /\ Len(ids) = n
    BY <1>1, <1>2, <2>1, TokensTyped
  <2>3. c = Prefill(ids) /\ time = c[n].t
    BY <1>2, <2>1 DEF Exact, Last
  <2>4. Prefill(ids)[i].t = TIndex(ids, i) /\ Prefill(ids)[n].t = TIndex(ids, n)
    <3>1. i \in 1 .. Len(ids) /\ n \in 1 .. Len(ids)
      BY <2>2
    <3> QED BY <2>2, <3>1, PrefillAt
  <2>5. TIndex(ids, i) <= TIndex(ids, n)
    <3>1. i \in Nat \ {0} /\ i <= n
      OBVIOUS
    <3> QED BY <3>1, IndexRises
  <2>6. TIndex(ids, i) \in Int
    <3>1. i \in Int
      OBVIOUS
    <3> QED BY <3>1, IndexCounts
  <2> QED BY <2>3, <2>4, <2>5, <2>6
<1>11. \A i \in 1 .. p : /\ d[n + i].token = "patch" /\ d[n + i].t = time + 1
                         /\ d[n + i].h = RowOf(i - 1) /\ d[n + i].w = ColumnOf(i - 1)
  <2> TAKE i \in 1 .. p
  <2>1. PICK row, column : row = RowOf(i - 1) /\ column = ColumnOf(i - 1)
    OBVIOUS
  <2>2. d[n + i] = Entry("patch", time + 1, row, column, n + p)
    BY <1>8, <2>1
  <2> QED BY <2>1, <2>2 DEF Entry
<1>12. PICK new : new = {e \in ToSet(d) : e.token = "patch" /\ e.t > time}
  OBVIOUS
<1>13. ToSet(d) = {d[i] : i \in 1 .. n + (p + 1)}
  BY <1>7 DEF ToSet
<1>14. new = {d[n + i] : i \in 1 .. p}
  <2>1. ASSUME NEW i \in 1 .. n + (p + 1), d[i].token = "patch", d[i].t > time
        PROVE  \E k \in 1 .. p : d[i] = d[n + k]
    <3>1. ~ (i \in 1 .. n)
      <4>1. i \in 1 .. n => d[i] = c[i] /\ c[i].t \in Int /\ c[i].t <= time
        BY <1>7, <1>10
      <4>2. time \in Int
        BY <1>1
      <4> QED BY <2>1, <4>1, <4>2
    <3>2. i # n + (p + 1)
      BY <2>1, <1>9
    <3>3. i - n \in 1 .. p /\ n + (i - n) = i
      BY <3>1, <3>2
    <3> QED BY <3>3
  <2>2. ASSUME NEW k \in 1 .. p PROVE d[n + k] \in new
    <3>1. n + k \in 1 .. n + (p + 1)
      OBVIOUS
    <3>2. d[n + k] \in ToSet(d)
      BY <1>13, <3>1
    <3>3. d[n + k].token = "patch" /\ d[n + k].t > time
      <4>1. d[n + k].token = "patch" /\ d[n + k].t = time + 1
        BY <1>11
      <4> QED BY <4>1, <1>1
    <3> QED BY <1>12, <3>2, <3>3
  <2>3. \A e \in new : \E k \in 1 .. p : e = d[n + k]
    BY <1>12, <1>13, <2>1
  <2> QED BY <2>2, <2>3
<1>15. {<<e.t, e.h, e.w>> : e \in new} =
         {<<time + 1, RowOf(i - 1), ColumnOf(i - 1)>> : i \in 1 .. p}
  <2>1. \A i \in 1 .. p :
          <<d[n + i].t, d[n + i].h, d[n + i].w>> = <<time + 1, RowOf(i - 1), ColumnOf(i - 1)>>
    BY <1>11
  <2>2. {<<e.t, e.h, e.w>> : e \in new} = {<<d[n + i].t, d[n + i].h, d[n + i].w>> : i \in 1 .. p}
    BY <1>14, Zenon
  <2> QED BY <2>1, <2>2
<1>16. ImageIndexes(time) = {<<time + 1, RowOf(i - 1), ColumnOf(i - 1)>> : i \in 1 .. p}
  <2>1. /\ \A i \in 1 .. p : i - 1 \in 0 .. p - 1
        /\ \A k \in 0 .. p - 1 : k + 1 \in 1 .. p /\ k + 1 - 1 = k
    OBVIOUS
  <2> QED BY <1>3, <2>1 DEF ImageIndexes
<1> QED BY <1>4, <1>12, <1>15, <1>16
-----------------------------------------------------------------------------
(* The inductive invariant of the entry points. *)

\* Which branches end with the <img> that opens an image.
Opened(r, st, b) == st \in {"denoise", "finish"} \/ b = "iu" \/ (b = "tu" /\ r.entry = "it2i")

GTypes ==
  /\ stage \in {"idle", "text", "think", "denoise", "finish"}
  /\ step \in 0 .. Denoisings /\ calls \in 0 .. Calls
  /\ held \in [G!Branches -> Seq(Entries)] /\ tindex \in [G!Branches -> Int]
  /\ Sound(workspace)

\* The images of the conversation, which the text-free branch has too and the empty one not.
Told(b) == IF b = "iu" THEN 0 ELSE Cardinality(EndsOf(G!Keys("cond")))

Kept ==
  stage # "idle" =>
    /\ request \in G!Requests
    /\ \A b \in G!Built(request) :
         BranchIs(G!Keys(b), tindex[b], Opened(request, stage, b), Told(b))

\* Which entry is at which stage.
Staged ==
  /\ stage = "text" => request.entry \in {"chat", "given"}
  /\ stage = "think" => request.think

\* The buffers the patches read are the caches.
Readied ==
  stage = "denoise" =>
    /\ step < Denoisings
    /\ \A b \in G!Built(request) : flash[b] = G!Keys(b) /\ placed[b] = ImageIndexes(tindex[b])

GInv == GTypes /\ Kept /\ Staged /\ Readied

\* The branches of a call.
LEMMA Builts ==
  ASSUME NEW r
  PROVE  /\ "cond" \in G!Built(r) /\ G!Built(r) \subseteq {"cond", "tu", "iu"}
         /\ r.entry \in {"chat", "given"} => G!Built(r) = {"cond", "tu", "iu"}
         /\ r.entry = "t2i" => "tu" \notin G!Built(r)
<1>1. CASE r.entry = "t2i"
  BY <1>1, Zenon DEF G!Built, G!Branches
<1>2. CASE r.entry = "it2i"
  <2>1. G!Built(r) = {b \in G!Branches :
          \/ b = "cond"
          \/ b = "tu" /\ r.scale # <<1, 1>> /\ (G!ImageScale(r) = 1 \/ G!Scale(r) # G!ImageScale(r))
          \/ b = "iu" /\ r.scale # <<1, 1>> /\ G!ImageScale(r) # 1}
    BY <1>2 DEF G!Built
  <2> QED BY <1>2, <2>1 DEF G!Branches
<1>3. CASE r.entry \notin {"t2i", "it2i"}
  <2>1. G!Built(r) = G!Branches
    BY <1>3 DEF G!Built
  <2> QED BY <1>3, <2>1 DEF G!Branches
<1> QED BY <1>1, <1>2, <1>3

\* The keys of a branch, before and after a step.
LEMMA KeysAre ==
  ASSUME GTypes
  PROVE  /\ \A b \in {"tu", "iu"} : G!Keys(b) = held[b] /\ G!Keys(b)' = held'[b]
         /\ request.graph => G!Keys("cond") = Filled(workspace)
         /\ ~request.graph => G!Keys("cond") = held["cond"]
         /\ request'.graph => G!Keys("cond")' = Filled(workspace)'
         /\ ~request'.graph => G!Keys("cond")' = held'["cond"]
<1>1. "tu" # "cond" /\ "iu" # "cond"
  OBVIOUS
<1>2. \A b \in {"tu", "iu"} : G!Keys(b) = held[b] /\ G!Keys(b)' = held'[b]
  BY <1>1 DEF G!Keys
<1> QED BY <1>2 DEF G!Keys, Filled

\* What a call asks for.
LEMMA RequestTyped ==
  ASSUME NEW r \in G!Requests
  PROVE  /\ r.entry \in {"chat", "given", "it2i", "t2i"} /\ r.sources \in 0 .. 1
         /\ r.graph \in BOOLEAN /\ r.think \in BOOLEAN
         /\ r.graph => r.entry = "chat"
         /\ r.think => r.entry \in {"it2i", "t2i"}
BY DEF G!Requests, G!Entries

\* A branch at any stage of a call.
LEMMA BranchNow ==
  ASSUME GInv, stage # "idle", NEW b \in G!Built(request)
  PROVE  /\ BranchIs(G!Keys(b), tindex[b], Opened(request, stage, b), Told(b))
         /\ Exact(G!Keys(b), tindex[b]) /\ G!Keys(b) \in Seq(Entries) /\ tindex[b] \in Int
         /\ Last(G!Keys(b)).token = "img" <=> Opened(request, stage, b)
<1>1. BranchIs(G!Keys(b), tindex[b], Opened(request, stage, b), Told(b))
  BY DEF GInv, Kept
<1>2. Exact(G!Keys(b), tindex[b]) /\ (Last(G!Keys(b)).token = "img" <=> Opened(request, stage, b))
  BY <1>1, Zenon DEF BranchIs
<1>3. G!Keys(b) \in Seq(Entries) /\ tindex[b] \in Int
  BY <1>2, ExactTyped
<1> QED BY <1>1, <1>2, <1>3, Zenon

\* No cache is there before a call.
LEMMA GInit ==
  ASSUME G!Init
  PROVE  GInv
<1>1. 0 \in 0 .. Denoisings /\ 0 \in 0 .. Calls
  BY GenerationAssumption
<1>2. \A b \in G!Branches : held[b] = <<>> /\ tindex[b] = 0
  BY DEF G!Init, G!None
<1>3. held \in [G!Branches -> Seq(Entries)] /\ tindex \in [G!Branches -> Int]
  BY DEF G!Init, G!None
<1>4. workspace = [slots |-> [i \in 1 .. 0 |-> G!Empty], length |-> 0, seqlens |-> 0]
  BY DEF G!Init, G!Fresh
<1>5. [i \in 1 .. 0 |-> G!Empty] \in Seq(Slots) /\ Len([i \in 1 .. 0 |-> G!Empty]) = 0
  OBVIOUS
<1>6. Sound(workspace)
  BY <1>4, <1>5 DEF Sound
<1>7. stage = "idle" /\ step = 0 /\ calls = 0
  BY DEF G!Init
<1> QED BY <1>1, <1>3, <1>6, <1>7 DEF GInv, GTypes, Kept, Staged, Readied

\* The workspace a call reserves holds its prompt.
LEMMA Reserves ==
  ASSUME GTypes, NEW r \in G!Requests, NEW c \in Seq(Entries), Len(c) = Len(G!Prompt(r, "cond"))
  PROVE  Sound(G!Reserved(r, c)) /\ Filled(G!Reserved(r, c)) = c
<1>1. PICK n \in Nat : n = Len(c)
  OBVIOUS
<1>2. PICK q : q = G!Required(r)
  OBVIOUS
<1>3. q \in Nat /\ n <= q
  <2>1. MaxNewTokens \in Nat /\ Pictures \in Nat /\ Patches + 1 \in Nat
    BY GenerationAssumption, GridPositions
  <2>2. \A x, y \in Nat : x * y \in Nat
    OBVIOUS
  <2>3. PICK images \in Nat : images = Pictures * (Patches + 1)
    BY <2>1, <2>2
  <2>4. q = n + MaxNewTokens + images
    BY <1>1, <1>2, <2>3, SameReadings DEF G!Required
  <2> QED BY <2>1, <2>3, <2>4
<1>4. workspace.slots \in Seq(Slots)
  BY DEF GTypes, Sound
<1>5. PICK w : w = (IF G!Capacity(workspace) < q THEN G!Fresh(q) ELSE workspace)
  OBVIOUS
<1>6. w.slots \in Seq(Slots) /\ n <= Len(w.slots)
  <2>1. CASE G!Capacity(workspace) < q
    <3>1. w.slots = [i \in 1 .. q |-> G!Empty]
      BY <1>5, <2>1 DEF G!Fresh
    <3>2. G!Empty \in Slots
      BY DEF Slots
    <3>3. w.slots \in Seq(Slots) /\ Len(w.slots) = q
      BY <1>3, <3>1, <3>2
    <3> QED BY <1>3, <3>3
  <2>2. CASE ~ (G!Capacity(workspace) < q)
    <3>1. w = workspace /\ ~ (Len(workspace.slots) < q)
      BY <1>5, <2>2 DEF G!Capacity
    <3> QED BY <1>3, <1>4, <3>1
  <2> QED BY <2>1, <2>2
<1>7. G!Reserved(r, c) = G!Loaded(w, c)
  BY <1>2, <1>5 DEF G!Reserved
<1> QED BY <1>1, <1>6, <1>7, WorkspaceLoads

\* Where every branch is prefilled with its prompt, or has its images.
LEMMA KeptThen ==
  ASSUME NEW r \in G!Requests, request' = r,
         \A b \in G!Built(r) : \E m : BranchIs(G!Keys(b)', tindex'[b], Opened(r, stage', b), m),
         \A b \in G!Built(r) :
           Cardinality(EndsOf(G!Keys(b)')) =
             IF b = "iu" THEN 0 ELSE Cardinality(EndsOf(G!Keys("cond")'))
  PROVE  Kept'
<1>1. ASSUME NEW b \in G!Built(r)
      PROVE  BranchIs(G!Keys(b)', tindex'[b], Opened(r, stage', b), Told(b)')
  <2>1. PICK m : BranchIs(G!Keys(b)', tindex'[b], Opened(r, stage', b), m)
    OBVIOUS
  <2>2. Cardinality(EndsOf(G!Keys(b)')) = Told(b)'
    BY DEF Told, EndsOf
  <2> QED BY <2>1, <2>2 DEF BranchIs
<1>2. request' \in G!Requests /\ \A b \in G!Built(request)' :
        BranchIs(G!Keys(b)', tindex'[b], Opened(r, stage', b), Told(b)')
  BY <1>1 DEF G!Built, G!Scale, G!ImageScale
<1> QED BY <1>2 DEF Kept, BranchIs, Exact, EndsOf, Opened, G!Requests

\* Prepared for denoising, from the caches as they stand after the step.
LEMMA ReadiedThen ==
  ASSUME NEW r, request' = r, NEW keys, NEW time, G!Prepare(r, keys, time), tindex' = time,
         \A b \in G!Built(r) : keys[b] = G!Keys(b)'
  PROVE  Readied' /\ step' \in 0 .. Denoisings /\ stage' = "denoise"
<1>1. /\ flash' = [b \in G!Branches |-> keys[b]]
      /\ placed' = [b \in G!Branches |-> IF b \in G!Built(r) THEN G!ImageIndexes(time[b]) ELSE {}]
      /\ step' = 0 /\ stage' = "denoise"
  BY DEF G!Prepare
<1>2. Denoisings \in Nat \ {0}
  BY GenerationAssumption
<1>3. \A b \in G!Built(r) : b \in G!Branches
  BY Builts DEF G!Branches
<1>4. ASSUME NEW b \in G!Built(r)
      PROVE  flash'[b] = G!Keys(b)' /\ placed'[b] = ImageIndexes(tindex'[b])
  BY <1>1, <1>3, SameReadings
<1>5. 0 < Denoisings /\ 0 \in 0 .. Denoisings
  BY <1>2
<1>6. G!Built(request)' = G!Built(r)
  BY DEF G!Built, G!Scale, G!ImageScale
<1>7. ASSUME NEW b PROVE ImageIndexes(tindex'[b]) = ImageIndexes(tindex[b])'
  BY DEF ImageIndexes
<1> QED BY <1>1, <1>4, <1>5, <1>6, <1>7 DEF Readied

\* A call prefills its branches.
LEMMA GCall ==
  ASSUME GInv, G!Call
  PROVE  GInv'
<1>1. PICK r \in G!Requests :
        LET prefix == [b \in G!Branches |->
                         IF b \in G!Built(r) THEN G!Prefill(G!Prompt(r, b)) ELSE G!None]
            time == [b \in G!Branches |-> IF b \in G!Built(r) THEN G!Last(prefix[b]).t ELSE 0]
        IN  /\ request' = r /\ tindex' = time
            /\ held' = IF r.graph THEN [prefix EXCEPT !["cond"] = G!None] ELSE prefix
            /\ workspace' = IF r.graph THEN G!Reserved(r, prefix["cond"]) ELSE workspace
            /\ IF r.entry \in {"it2i", "t2i"} /\ ~r.think
                 THEN G!Prepare(r, prefix, time)
                 ELSE /\ stage' = (IF r.think THEN "think" ELSE "text")
                      /\ G!Forget(r.graph) /\ UNCHANGED <<placed, step>>
  BY DEF G!Call
<1>2. PICK prefix : prefix = [b \in G!Branches |->
                                IF b \in G!Built(r) THEN G!Prefill(G!Prompt(r, b)) ELSE G!None]
  OBVIOUS
<1>3. PICK time : time = [b \in G!Branches |-> IF b \in G!Built(r) THEN G!Last(prefix[b]).t ELSE 0]
  OBVIOUS
<1>4. /\ request' = r /\ tindex' = time
      /\ held' = IF r.graph THEN [prefix EXCEPT !["cond"] = G!None] ELSE prefix
      /\ workspace' = IF r.graph THEN G!Reserved(r, prefix["cond"]) ELSE workspace
  BY <1>1, <1>2, <1>3
<1>5. \/ r.entry \in {"it2i", "t2i"} /\ ~r.think /\ G!Prepare(r, prefix, time)
      \/ /\ ~ (r.entry \in {"it2i", "t2i"} /\ ~r.think) /\ UNCHANGED <<placed, step>>
         /\ stage' = (IF r.think THEN "think" ELSE "text")
  BY <1>1, <1>2, <1>3
<1>6. calls' \in 0 .. Calls
  <2>1. calls \in 0 .. Calls /\ calls < Calls /\ calls' = calls + 1 /\ Calls \in Nat
    BY GenerationAssumption DEF G!Call, GInv, GTypes
  <2> QED BY <2>1
<1>7. G!Branches = {"cond", "tu", "iu"} /\ "cond" \in G!Built(r) /\ G!Built(r) \subseteq G!Branches
  BY Builts DEF G!Branches
<1>8. ASSUME NEW b \in G!Built(r)
      PROVE  /\ BranchIs(prefix[b], time[b], Begins(r, b), IF b = "iu" THEN 0 ELSE r.sources)
             /\ Len(prefix[b]) = Len(G!Prompt(r, b))
             /\ prefix[b] \in Seq(Entries) /\ time[b] \in Int
  <2>1. prefix[b] = G!Prefill(G!Prompt(r, b)) /\ time[b] = G!Last(prefix[b]).t /\ b \in G!Branches
    BY <1>2, <1>3, <1>7
  <2>2. PICK c : c = prefix[b]
    OBVIOUS
  <2>3. /\ BranchIs(c, G!Last(c).t, Begins(r, b), IF b = "iu" THEN 0 ELSE r.sources)
        /\ Len(c) = Len(G!Prompt(r, b))
    BY <2>1, <2>2, BranchBegins
  <2>4. Exact(c, G!Last(c).t)
    BY <2>3 DEF BranchIs
  <2>5. c \in Seq(Entries) /\ G!Last(c).t \in Int
    BY <2>4, ExactTyped
  <2> QED BY <2>1, <2>2, <2>3, <2>5
<1>9. prefix \in [G!Branches -> Seq(Entries)] /\ time \in [G!Branches -> Int]
  <2>1. <<>> \in Seq(Entries) /\ 0 \in Int /\ G!None = <<>>
    BY DEF G!None
  <2>2. ASSUME NEW b \in G!Branches PROVE prefix[b] \in Seq(Entries) /\ time[b] \in Int
    <3>1. CASE b \in G!Built(r)
      BY <3>1, <1>8
    <3>2. CASE b \notin G!Built(r)
      BY <3>2, <2>1, <1>2, <1>3
    <3> QED BY <3>1, <3>2
  <2>3. prefix = [b \in G!Branches |-> prefix[b]] /\ time = [b \in G!Branches |-> time[b]]
    BY <1>2, <1>3
  <2> QED BY <2>2, <2>3
<1>10. held' \in [G!Branches -> Seq(Entries)]
  <2>1. G!None \in Seq(Entries)
    BY DEF G!None
  <2> QED BY <1>4, <1>9, <2>1
<1>11. r.graph => Sound(workspace') /\ Filled(workspace') = prefix["cond"]
  <2>1. prefix["cond"] \in Seq(Entries) /\ Len(prefix["cond"]) = Len(G!Prompt(r, "cond"))
    BY <1>7, <1>8
  <2>2. GTypes
    BY DEF GInv
  <2>3. /\ Sound(G!Reserved(r, prefix["cond"]))
        /\ Filled(G!Reserved(r, prefix["cond"])) = prefix["cond"]
    BY <2>1, <2>2, Reserves
  <2>4. r.graph => workspace' = G!Reserved(r, prefix["cond"])
    BY <1>4
  <2> QED BY <2>3, <2>4
<1>12. Sound(workspace)'
  <2>1. Sound(workspace)
    BY DEF GInv, GTypes
  <2>2. ~r.graph => workspace' = workspace
    BY <1>4
  <2> QED BY <1>11, <2>1, <2>2 DEF Sound
<1>13. ASSUME NEW b \in G!Built(r) PROVE G!Keys(b)' = prefix[b]
  <2>1. GTypes
    BY DEF GInv
  <2>2. CASE b = "cond"
    <3>1. CASE r.graph
      <4>1. G!Keys("cond")' = Filled(workspace)'
        BY <1>4, <2>1, <3>1, KeysAre
      <4>2. Filled(workspace)' = Filled(workspace')
        BY DEF Filled
      <4> QED BY <1>11, <2>2, <3>1, <4>1, <4>2
    <3>2. CASE ~r.graph
      <4>1. G!Keys("cond")' = held'["cond"] /\ held' = prefix
        BY <1>4, <2>1, <3>2, KeysAre
      <4> QED BY <2>2, <4>1
    <3> QED BY <3>1, <3>2
  <2>3. CASE b # "cond"
    <3>1. b \in {"tu", "iu"}
      BY <1>7, <2>3
    <3>2. G!Keys(b)' = held'[b]
      BY <2>1, <3>1, KeysAre
    <3>3. held'[b] = prefix[b]
      BY <1>4, <1>7, <1>9, <2>3
    <3> QED BY <3>2, <3>3
  <2> QED BY <2>2, <2>3
<1>14. /\ step' \in 0 .. Denoisings /\ Readied' /\ Staged'
       /\ stage' \in {"idle", "text", "think", "denoise", "finish"} /\ stage' # "idle"
       /\ \A b \in G!Built(r) : Opened(r, stage', b) <=> Begins(r, b)
  <2>1. CASE r.entry \in {"it2i", "t2i"} /\ ~r.think /\ G!Prepare(r, prefix, time)
    <3>1. Readied' /\ step' \in 0 .. Denoisings /\ stage' = "denoise"
      BY <1>4, <1>13, <2>1, ReadiedThen
    <3>2. \A b \in G!Built(r) : b \in {"cond", "tu", "iu"} /\ (b = "tu" => r.entry = "it2i")
      BY <2>1, Builts
    <3>3. \A b \in G!Built(r) : Opened(r, stage', b) <=> Begins(r, b)
      BY <2>1, <3>1, <3>2 DEF Opened, Begins
    <3> QED BY <3>1, <3>3 DEF Staged
  <2>2. CASE ~ (r.entry \in {"it2i", "t2i"} /\ ~r.think) /\ UNCHANGED <<placed, step>>
             /\ stage' = (IF r.think THEN "think" ELSE "text")
    <3>1. step' \in 0 .. Denoisings
      BY <2>2 DEF GInv, GTypes
    <3>2. stage' \in {"think", "text"} /\ (stage' = "think" <=> r.think)
      BY <2>2
    <3>3. r.entry \in {"chat", "given", "it2i", "t2i"}
      BY RequestTyped
    <3>4. stage' = "text" => r.entry \in {"chat", "given"}
      BY <2>2, <3>2, <3>3
    <3>5. Staged'
      BY <1>4, <3>2, <3>4 DEF Staged
    <3>6. \A b \in G!Built(r) : Opened(r, stage', b) <=> Begins(r, b)
      BY <2>2, <3>2 DEF Opened, Begins
    <3> QED BY <3>1, <3>2, <3>5, <3>6 DEF Readied
  <2> QED BY <1>5, <2>1, <2>2
<1>15. Kept'
  <2>1. ASSUME NEW b \in G!Built(r)
        PROVE  BranchIs(G!Keys(b)', tindex'[b], Opened(r, stage', b),
                   IF b = "iu" THEN 0 ELSE r.sources)
    <3>1. BranchIs(prefix[b], time[b], Begins(r, b), IF b = "iu" THEN 0 ELSE r.sources)
      BY <1>8
    <3>2. Opened(r, stage', b) <=> Begins(r, b)
      BY <1>14
    <3>3. G!Keys(b)' = prefix[b] /\ tindex'[b] = time[b]
      BY <1>4, <1>13
    <3> QED BY <3>1, <3>2, <3>3 DEF BranchIs
  <2>2. ASSUME NEW b \in G!Built(r)
        PROVE  Cardinality(EndsOf(G!Keys(b)')) = IF b = "iu" THEN 0 ELSE r.sources
    BY <2>1 DEF BranchIs
  <2>3. Cardinality(EndsOf(G!Keys("cond")')) = r.sources
    <3>1. "cond" # "iu"
      OBVIOUS
    <3> QED BY <1>7, <2>2, <3>1
  <2> QED BY <1>4, <2>1, <2>2, <2>3, KeptThen
<1> QED BY <1>4, <1>6, <1>9, <1>10, <1>12, <1>14, <1>15 DEF GInv, GTypes

\* A token of the conversation, through the graph or not.
LEMMA CondGrows ==
  ASSUME GInv, stage \in {"text", "think"}, request' = request, NEW token \in {"word", "img"},
         ~G!Exhausted(1), stage = "think" => ~request.graph,
         request.graph => workspace' = G!Replayed(workspace, tindex["cond"], token),
         ~request.graph => /\ workspace' = workspace
                           /\ held'["cond"] = G!Decoded(held["cond"], tindex["cond"], token)
  PROVE  /\ Sound(workspace)'
         /\ BranchIs(G!Keys("cond")', tindex["cond"] + 1, token = "img", Told("cond"))
         /\ G!Keys("cond")' \in Seq(Entries)
         /\ ~request.graph => held'["cond"] \in Seq(Entries)
<1>1. "cond" \in G!Built(request) /\ stage # "idle" /\ GTypes /\ Sound(workspace)
  BY Builts DEF GInv, GTypes
<1>2. PICK c : c = G!Keys("cond")
  OBVIOUS
<1>3. PICK time : time = tindex["cond"]
  OBVIOUS
<1>4. /\ BranchIs(c, time, Opened(request, stage, "cond"), Told("cond"))
      /\ c \in Seq(Entries) /\ time \in Int
  BY <1>1, <1>2, <1>3, BranchNow
<1>5. ~Opened(request, stage, "cond")
  BY DEF Opened
<1>6. BranchIs(c, time, FALSE, Told("cond"))
  BY <1>4, <1>5 DEF BranchIs
<1>7. BranchIs(Decoded(c, time, token), time + 1, token = "img", Told("cond"))
  BY <1>6, BranchToken
<1>8. token \in Tokens
  BY DEF Tokens
<1>9. Sound(workspace)' /\ G!Keys("cond")' = Decoded(c, time, token)
  <2>1. CASE request.graph
    <3>1. c = Filled(workspace) /\ G!Keys("cond")' = Filled(workspace)'
      BY <1>1, <1>2, <2>1, KeysAre
    <3>2. workspace.length + 1 <= Len(workspace.slots)
      BY <1>1, <2>1 DEF G!Exhausted, G!Capacity, Sound
    <3>3. PICK w : w = G!Replayed(workspace, time, token)
      OBVIOUS
    <3>4. Sound(w) /\ Filled(w) = Decoded(c, time, token)
      BY <1>1, <1>4, <1>8, <3>1, <3>2, <3>3, WorkspaceReplays
    <3>5. workspace' = w
      BY <1>3, <2>1, <3>3
    <3> QED BY <3>1, <3>4, <3>5 DEF Sound, Filled
  <2>2. CASE ~request.graph
    <3>1. c = held["cond"] /\ G!Keys("cond")' = held'["cond"]
      BY <1>1, <1>2, <2>2, KeysAre
    <3>2. workspace' = workspace /\ held'["cond"] = Decoded(c, time, token)
      BY <1>3, <2>2, <3>1, SameSteps
    <3> QED BY <1>1, <3>1, <3>2 DEF Sound
  <2> QED BY <2>1, <2>2
<1>10. Decoded(c, time, token) \in Seq(Entries)
  <2>1. Exact(Decoded(c, time, token), time + 1)
    BY <1>7 DEF BranchIs
  <2> QED BY <2>1, ExactTyped
<1>11. ~request.graph => held'["cond"] = G!Keys("cond")'
  BY <1>1, KeysAre
<1> QED BY <1>3, <1>7, <1>9, <1>10, <1>11

\* A decode that says something stays in the text, and among its images.
LEMMA Says ==
  ASSUME GInv, stage \in {"text", "think"}, request' = request, ~G!Exhausted(1),
         stage = "think" => ~request.graph, G!DecodedCond("word"),
         stage' \in {"idle", stage}, UNCHANGED <<step, calls>>
  PROVE  GInv'
<1>1. tindex' = [tindex EXCEPT !["cond"] = @ + 1]
  BY DEF G!DecodedCond
<1>2. /\ request.graph => /\ workspace' = G!Replayed(workspace, tindex["cond"], "word")
                          /\ held' = held
      /\ ~request.graph => /\ workspace' = workspace
                           /\ held' = [held EXCEPT !["cond"] = G!Decoded(@, tindex["cond"], "word")]
  BY DEF G!DecodedCond
<1>3. /\ held \in [G!Branches -> Seq(Entries)] /\ tindex \in [G!Branches -> Int]
      /\ G!Branches = {"cond", "tu", "iu"} /\ GTypes
  BY DEF GInv, GTypes, G!Branches
<1>4. ~request.graph => held'["cond"] = G!Decoded(held["cond"], tindex["cond"], "word")
  BY <1>2, <1>3
<1>5. PICK token \in {"word", "img"} : token = "word"
  OBVIOUS
<1>6. /\ Sound(workspace)'
      /\ BranchIs(G!Keys("cond")', tindex["cond"] + 1, token = "img", Told("cond"))
      /\ G!Keys("cond")' \in Seq(Entries)
      /\ ~request.graph => held'["cond"] \in Seq(Entries)
  BY <1>2, <1>4, <1>5, CondGrows
<1>7. /\ tindex' \in [G!Branches -> Int] /\ tindex'["cond"] = tindex["cond"] + 1
      /\ \A b \in {"tu", "iu"} : tindex'[b] = tindex[b]
  BY <1>1, <1>3
<1>8. held' \in [G!Branches -> Seq(Entries)] /\ \A b \in {"tu", "iu"} : held'[b] = held[b]
  <2>1. CASE request.graph
    BY <2>1, <1>2, <1>3
  <2>2. CASE ~request.graph
    <3>1. PICK e : e = G!Decoded(held["cond"], tindex["cond"], "word")
      OBVIOUS
    <3>2. held' = [held EXCEPT !["cond"] = e] /\ e \in Seq(Entries)
      BY <1>2, <1>4, <1>6, <2>2, <3>1
    <3> QED BY <1>3, <3>2
  <2> QED BY <2>1, <2>2
<1>9. GTypes'
  BY <1>6, <1>7, <1>8 DEF GInv, GTypes
<1>10. CASE stage' = "idle"
  BY <1>9, <1>10 DEF GInv, Kept, Staged, Readied
<1>11. CASE stage' = stage
  <2>1. Staged' /\ Readied'
    BY <1>11 DEF GInv, Staged, Readied
  <2>2. \A b \in G!Built(request) : Opened(request, stage', b) <=> Opened(request, stage, b)
    BY <1>11
  <2>3. request \in G!Requests
    BY DEF GInv, Kept
  <2>4. BranchIs(G!Keys("cond")', tindex'["cond"], Opened(request, stage', "cond"), Told("cond"))
    <3>1. (token = "img") <=> Opened(request, stage', "cond")
      BY <1>5, <1>11 DEF Opened
    <3> QED BY <1>6, <1>7, <3>1 DEF BranchIs
  <2>5. ASSUME NEW b \in G!Built(request), b # "cond"
        PROVE  BranchIs(G!Keys(b)', tindex'[b], Opened(request, stage', b), Told(b))
    <3>1. b \in {"tu", "iu"}
      BY <2>5, Builts
    <3>2. G!Keys(b)' = G!Keys(b) /\ tindex'[b] = tindex[b]
      BY <1>3, <1>7, <1>8, <3>1, KeysAre
    <3>3. BranchIs(G!Keys(b), tindex[b], Opened(request, stage, b), Told(b))
      BY BranchNow
    <3> QED BY <3>2, <3>3, <1>11 DEF BranchIs
  <2>6. Cardinality(EndsOf(G!Keys("cond")')) = Cardinality(EndsOf(G!Keys("cond")))
    BY <2>4 DEF BranchIs, Told
  <2>7. ASSUME NEW b \in G!Built(request)
        PROVE  /\ \E m : BranchIs(G!Keys(b)', tindex'[b], Opened(request, stage', b), m)
               /\ Cardinality(EndsOf(G!Keys(b)')) =
                    IF b = "iu" THEN 0 ELSE Cardinality(EndsOf(G!Keys("cond")'))
    <3>1. BranchIs(G!Keys(b)', tindex'[b], Opened(request, stage', b), Told(b))
      BY <2>4, <2>5
    <3>2. Cardinality(EndsOf(G!Keys(b)')) = Told(b)
      BY <3>1 DEF BranchIs
    <3> QED BY <3>1, <3>2, <2>6 DEF Told
  <2>8. Kept'
    BY <2>3, <2>7, KeptThen
  <2> QED BY <1>9, <2>1, <2>8 DEF GInv
<1> QED BY <1>10, <1>11

\* interleave_gen says something.
LEMMA GSay ==
  ASSUME GInv, G!Say
  PROVE  GInv'
<1>1. /\ stage = "text" /\ ~G!Exhausted(1) /\ G!DecodedCond("word")
      /\ stage' \in {"idle", stage} /\ request' = request /\ UNCHANGED <<step, calls>>
  BY DEF G!Say
<1> QED BY <1>1, Says

\* The call is over: nothing is kept but the workspace.
LEMMA GEnds ==
  ASSUME GInv, stage' = "idle", UNCHANGED <<held, tindex, step, workspace, calls>>
  PROVE  GInv'
<1>1. GTypes'
  BY DEF GInv, GTypes, Sound
<1> QED BY <1>1 DEF GInv, Kept, Staged, Readied

\* <img> enters the conversation and its images.
LEMMA GStartImage ==
  ASSUME GInv, G!StartImage
  PROVE  GInv'
<1>1. /\ stage = "text" /\ request.entry = "chat" /\ ~G!Exhausted(1)
      /\ request' = request /\ calls' = calls
  BY DEF G!StartImage
<1>2. PICK ws :
        ws = (IF request.graph THEN G!Replayed(workspace, tindex["cond"], "img") ELSE workspace)
  OBVIOUS
<1>3. PICK time : time = [tindex EXCEPT !["cond"] = @ + 1, !["tu"] = @ + 1]
  OBVIOUS
<1>4. PICK grown : grown = [held EXCEPT
                     !["cond"] = IF request.graph THEN G!None
                                 ELSE G!Decoded(@, tindex["cond"], "img"),
                     !["tu"] = G!Decoded(@, tindex["tu"], "img")]
  OBVIOUS
<1>5. PICK keys : keys = (IF request.graph
                          THEN [grown EXCEPT !["cond"] = SubSeq(ws.slots, 1, ws.length)] ELSE grown)
  OBVIOUS
<1>6. /\ workspace' = ws /\ tindex' = time /\ held' = grown
      /\ G!Prepare(request, keys, time)
  BY <1>2, <1>3, <1>4, <1>5 DEF G!StartImage
<1>7. /\ held \in [G!Branches -> Seq(Entries)] /\ tindex \in [G!Branches -> Int]
      /\ G!Branches = {"cond", "tu", "iu"} /\ GTypes /\ G!Built(request) = {"cond", "tu", "iu"}
      /\ request \in G!Requests
  BY <1>1, Builts DEF GInv, GTypes, Kept, G!Branches
<1>8. PICK token \in {"word", "img"} : token = "img"
  OBVIOUS
<1>9. /\ Sound(workspace)'
      /\ BranchIs(G!Keys("cond")', tindex["cond"] + 1, token = "img", Told("cond"))
      /\ G!Keys("cond")' \in Seq(Entries)
      /\ ~request.graph => held'["cond"] \in Seq(Entries)
  <2>1. ~request.graph => held'["cond"] = G!Decoded(held["cond"], tindex["cond"], token)
    BY <1>4, <1>6, <1>7, <1>8
  <2>2. /\ request.graph => workspace' = G!Replayed(workspace, tindex["cond"], token)
        /\ ~request.graph => workspace' = workspace
    BY <1>2, <1>6, <1>8
  <2> QED BY <1>1, <2>1, <2>2, CondGrows
<1>10. /\ G!Keys("tu") = held["tu"] /\ G!Keys("tu")' = held'["tu"]
       /\ G!Keys("iu") = held["iu"] /\ G!Keys("iu")' = held'["iu"]
  BY <1>7, KeysAre
<1>11. held'["tu"] = Decoded(held["tu"], tindex["tu"], token) /\ held'["iu"] = held["iu"]
  BY <1>4, <1>6, <1>7, <1>8, SameSteps
<1>12. BranchIs(G!Keys("tu")', tindex["tu"] + 1, token = "img", Told("tu"))
  <2>1. BranchIs(G!Keys("tu"), tindex["tu"], Opened(request, stage, "tu"), Told("tu"))
    BY <1>1, <1>7, BranchNow
  <2>2. ~Opened(request, stage, "tu")
    BY <1>1 DEF Opened
  <2>3. BranchIs(held["tu"], tindex["tu"], FALSE, Told("tu"))
    BY <1>10, <2>1, <2>2 DEF BranchIs
  <2>4. BranchIs(Decoded(held["tu"], tindex["tu"], token), tindex["tu"] + 1, token = "img",
            Told("tu"))
    BY <2>3, BranchToken
  <2> QED BY <1>10, <1>11, <2>4
<1>13. BranchIs(G!Keys("iu")', tindex["iu"], TRUE, Told("iu"))
  <2>1. BranchIs(G!Keys("iu"), tindex["iu"], Opened(request, stage, "iu"), Told("iu"))
    BY <1>1, <1>7, BranchNow
  <2>2. Opened(request, stage, "iu")
    BY DEF Opened
  <2> QED BY <1>10, <1>11, <2>1, <2>2 DEF BranchIs
<1>14. /\ tindex' \in [G!Branches -> Int] /\ tindex'["cond"] = tindex["cond"] + 1
       /\ tindex'["tu"] = tindex["tu"] + 1 /\ tindex'["iu"] = tindex["iu"]
  BY <1>3, <1>6, <1>7
<1>15. held' \in [G!Branches -> Seq(Entries)]
  <2>1. held'["tu"] \in Seq(Entries)
    <3>1. Exact(G!Keys("tu")', tindex["tu"] + 1)
      BY <1>12 DEF BranchIs
    <3> QED BY <1>10, <3>1, ExactTyped
  <2>2. held'["iu"] \in Seq(Entries)
    BY <1>7, <1>11
  <2>3. held'["cond"] \in Seq(Entries)
    <3>1. CASE request.graph
      <4>1. held'["cond"] = <<>>
        BY <1>4, <1>6, <1>7, <3>1 DEF G!None
      <4> QED BY <4>1
    <3>2. CASE ~request.graph
      BY <1>9, <3>2
    <3> QED BY <3>1, <3>2
  <2>4. held' = [b \in G!Branches |-> held'[b]]
    BY <1>4, <1>6, <1>7
  <2> QED BY <1>7, <2>1, <2>2, <2>3, <2>4
<1>16. ASSUME NEW b \in G!Built(request) PROVE keys[b] = G!Keys(b)'
  <2>1. CASE b = "cond"
    <3>1. CASE request.graph
      <4>1. keys["cond"] = SubSeq(ws.slots, 1, ws.length)
        BY <1>4, <1>5, <1>7, <3>1
      <4>2. G!Keys("cond")' = SubSeq(workspace'.slots, 1, workspace'.length)
        BY <1>1, <1>7, <3>1, KeysAre DEF Filled
      <4> QED BY <1>6, <2>1, <4>1, <4>2
    <3>2. CASE ~request.graph
      <4>1. keys = held' /\ G!Keys("cond")' = held'["cond"]
        BY <1>1, <1>5, <1>6, <1>7, <3>2, KeysAre
      <4> QED BY <2>1, <4>1
    <3> QED BY <3>1, <3>2
  <2>2. CASE b # "cond"
    <3>1. b \in {"tu", "iu"} /\ keys[b] = grown[b]
      BY <1>4, <1>5, <1>7, <2>2
    <3> QED BY <1>6, <1>10, <3>1
  <2> QED BY <2>1, <2>2
<1>17. Readied' /\ step' \in 0 .. Denoisings /\ stage' = "denoise"
  BY <1>1, <1>6, <1>16, ReadiedThen
<1>18. Staged'
  BY <1>17 DEF Staged
<1>19. GTypes'
  BY <1>1, <1>9, <1>14, <1>15, <1>17 DEF GInv, GTypes
<1>20. \A b : Opened(request, stage', b)
  BY <1>17 DEF Opened
<1>21. Kept'
  <2>1. Told("tu") = Told("cond") /\ Told("iu") = 0
    BY DEF Told
  <2>2. ASSUME NEW b \in G!Built(request)
        PROVE  BranchIs(G!Keys(b)', tindex'[b], Opened(request, stage', b), Told(b))
    <3>1. CASE b = "cond"
      BY <1>8, <1>9, <1>14, <1>20, <3>1 DEF BranchIs
    <3>2. CASE b = "tu"
      BY <1>8, <1>12, <1>14, <1>20, <3>2 DEF BranchIs
    <3>3. CASE b = "iu"
      BY <1>13, <1>14, <1>20, <3>3 DEF BranchIs
    <3> QED BY <1>7, <3>1, <3>2, <3>3
  <2>3. ASSUME NEW b \in G!Built(request)
        PROVE  Cardinality(EndsOf(G!Keys(b)')) =
                 IF b = "iu" THEN 0 ELSE Cardinality(EndsOf(G!Keys("cond")'))
    <3>1. Cardinality(EndsOf(G!Keys(b)')) = Told(b)
      BY <2>2 DEF BranchIs
    <3>2. Cardinality(EndsOf(G!Keys("cond")')) = Told("cond")
      BY <1>9 DEF BranchIs
    <3> QED BY <1>7, <2>1, <3>1, <3>2
  <2> QED BY <1>1, <1>7, <2>2, <2>3, KeptThen
<1> QED BY <1>17, <1>18, <1>19, <1>21 DEF GInv

\* The branches after a step of a call, one by one.
LEMMA Settles ==
  ASSUME GInv, stage # "idle", request' = request, NEW m,
         BranchIs(G!Keys("cond")', tindex'["cond"], Opened(request, stage', "cond"), m),
         "tu" \in G!Built(request) =>
           BranchIs(G!Keys("tu")', tindex'["tu"], Opened(request, stage', "tu"), m),
         "iu" \in G!Built(request) =>
           BranchIs(G!Keys("iu")', tindex'["iu"], Opened(request, stage', "iu"), 0)
  PROVE  Kept'
<1>1. request \in G!Requests /\ G!Built(request) \subseteq {"cond", "tu", "iu"}
  BY Builts DEF GInv, Kept
<1>2. ASSUME NEW b \in G!Built(request)
      PROVE  BranchIs(G!Keys(b)', tindex'[b], Opened(request, stage', b), IF b = "iu" THEN 0 ELSE m)
  <2>1. CASE b = "cond"
    BY <2>1
  <2>2. CASE b = "tu"
    BY <2>2
  <2>3. CASE b = "iu"
    BY <2>3
  <2> QED BY <1>1, <2>1, <2>2, <2>3
<1>3. ASSUME NEW b \in G!Built(request)
      PROVE  Cardinality(EndsOf(G!Keys(b)')) =
               IF b = "iu" THEN 0 ELSE Cardinality(EndsOf(G!Keys("cond")'))
  <2>1. Cardinality(EndsOf(G!Keys(b)')) = IF b = "iu" THEN 0 ELSE m
    BY <1>2 DEF BranchIs
  <2>2. Cardinality(EndsOf(G!Keys("cond")')) = m
    BY DEF BranchIs
  <2> QED BY <2>1, <2>2
<1> QED BY <1>1, <1>2, <1>3, KeptThen

\* The types of a step that grows caches outside the workspace.
LEMMA HeldTypes ==
  ASSUME GInv, UNCHANGED <<workspace, calls>>, step' \in 0 .. Denoisings,
         stage' \in {"idle", "text", "think", "denoise", "finish"},
         NEW c \in Seq(Entries), NEW d \in Seq(Entries), NEW x \in Int, NEW y \in Int,
         held' = [held EXCEPT !["cond"] = c, !["tu"] = d],
         tindex' = [tindex EXCEPT !["cond"] = x, !["tu"] = y]
  PROVE  /\ GTypes'
         /\ held'["cond"] = c /\ held'["tu"] = d /\ held'["iu"] = held["iu"]
         /\ tindex'["cond"] = x /\ tindex'["tu"] = y /\ tindex'["iu"] = tindex["iu"]
<1>1. /\ held \in [G!Branches -> Seq(Entries)] /\ tindex \in [G!Branches -> Int]
      /\ G!Branches = {"cond", "tu", "iu"} /\ Sound(workspace) /\ calls \in 0 .. Calls
  BY DEF GInv, GTypes, G!Branches
<1>2. held' \in [G!Branches -> Seq(Entries)] /\ tindex' \in [G!Branches -> Int]
  BY <1>1
<1>3. Sound(workspace)'
  BY <1>1 DEF Sound
<1> QED BY <1>1, <1>2, <1>3 DEF GTypes

\* A step that grows caches outside the workspace.
CachesGrow(c, d, x, y) ==
  /\ UNCHANGED <<workspace, calls>> /\ step' \in 0 .. Denoisings
  /\ stage' \in {"idle", "text", "think", "denoise", "finish"}
  /\ held' = [held EXCEPT !["cond"] = c, !["tu"] = d]
  /\ tindex' = [tindex EXCEPT !["cond"] = x, !["tu"] = y]

\* What such a step leaves.
LEMMA GrownTypes ==
  ASSUME GInv, NEW c \in Seq(Entries), NEW d \in Seq(Entries), NEW x \in Int, NEW y \in Int,
         CachesGrow(c, d, x, y)
  PROVE  /\ GTypes'
         /\ held'["cond"] = c /\ held'["tu"] = d /\ held'["iu"] = held["iu"]
         /\ tindex'["cond"] = x /\ tindex'["tu"] = y /\ tindex'["iu"] = tindex["iu"]
BY HeldTypes DEF CachesGrow

\* interleave_gen_image_only reads a part of its text, and the <img> after it.
LEMMA GReadPart ==
  ASSUME GInv, G!ReadPart
  PROVE  GInv'
<1>1. /\ stage = "text" /\ request.entry = "given" /\ request' = request
      /\ UNCHANGED <<workspace, calls>>
  BY DEF G!ReadPart
<1>2. /\ request \in G!Requests /\ ~request.graph /\ G!Built(request) = {"cond", "tu", "iu"}
      /\ GTypes
  BY <1>1, RequestTyped, Builts DEF GInv, Kept
<1>3. PICK part : part = (IF request.texts[count.text + 1] THEN <<"word">> ELSE <<>>)
  OBVIOUS
<1>4. PICK cond : cond = TextAppended(held["cond"], tindex["cond"], part)
  OBVIOUS
<1>5. PICK time : time = tindex["cond"] + Len(part)
  OBVIOUS
<1>6. PICK over \in BOOLEAN : over = (count.text = 2 \/ count.images >= Pictures)
  OBVIOUS
<1>7. PICK grown : grown = [held EXCEPT
          !["cond"] = IF over THEN cond ELSE TextAppended(cond, time, <<"img">>),
          !["tu"] = IF over THEN @ ELSE TextAppended(@, tindex["tu"], <<"img">>)]
  OBVIOUS
<1>8. PICK at2 : at2 = (IF over THEN [tindex EXCEPT !["cond"] = time]
                        ELSE [tindex EXCEPT !["cond"] = time + 1, !["tu"] = @ + 1])
  OBVIOUS
<1>9. /\ held' = grown /\ tindex' = at2
      /\ IF over THEN stage' = "idle" /\ UNCHANGED <<flash, placed, step>>
                 ELSE G!Prepare(request, grown, at2)
  BY <1>3, <1>4, <1>5, <1>6, <1>7, <1>8, SameSteps DEF G!ReadPart
<1>10. /\ G!Keys("tu") = held["tu"] /\ G!Keys("tu")' = held'["tu"]
       /\ G!Keys("iu") = held["iu"] /\ G!Keys("iu")' = held'["iu"]
       /\ G!Keys("cond") = held["cond"] /\ G!Keys("cond")' = held'["cond"]
  BY <1>1, <1>2, KeysAre
<1>11. /\ held \in [G!Branches -> Seq(Entries)] /\ tindex \in [G!Branches -> Int]
       /\ G!Branches = {"cond", "tu", "iu"}
  BY <1>2 DEF GTypes, G!Branches
<1>12. PICK m : m = Told("cond") /\ m = Told("tu")
  BY DEF Told
<1>13. /\ BranchIs(held["cond"], tindex["cond"], FALSE, m)
       /\ BranchIs(held["tu"], tindex["tu"], FALSE, m)
       /\ BranchIs(held["iu"], tindex["iu"], TRUE, 0)
  <2>1. /\ BranchIs(held["cond"], tindex["cond"], Opened(request, stage, "cond"), m)
        /\ BranchIs(held["tu"], tindex["tu"], Opened(request, stage, "tu"), m)
        /\ BranchIs(held["iu"], tindex["iu"], Opened(request, stage, "iu"), Told("iu"))
    BY <1>1, <1>2, <1>10, <1>12, BranchNow
  <2>2. /\ ~Opened(request, stage, "cond") /\ ~Opened(request, stage, "tu")
        /\ Opened(request, stage, "iu") /\ Told("iu") = 0
    BY <1>1 DEF Opened, Told
  <2> QED BY <2>1, <2>2 DEF BranchIs
<1>14. BranchIs(cond, time, FALSE, m)
  <2>1. part \in {<<>>, <<"word">>} /\ part \notin {<<"img">>, <<"word", "img">>}
    BY <1>3
  <2>2. BranchIs(TextAppended(held["cond"], tindex["cond"], part), tindex["cond"] + Len(part),
                 part \in {<<"img">>, <<"word", "img">>}, m)
    BY <1>13, <2>1, BranchText
  <2> QED BY <1>4, <1>5, <2>1, <2>2 DEF BranchIs
<1>15. cond \in Seq(Entries) /\ time \in Int
  <2>1. Exact(cond, time)
    BY <1>14 DEF BranchIs
  <2> QED BY <2>1, ExactTyped
<1>16. CASE over
  <2>1. /\ held' = [held EXCEPT !["cond"] = cond, !["tu"] = held["tu"]]
        /\ tindex' = [tindex EXCEPT !["cond"] = time, !["tu"] = tindex["tu"]]
    BY <1>7, <1>8, <1>9, <1>11, <1>16
  <2>2. step' \in 0 .. Denoisings /\ stage' = "idle"
    BY <1>9, <1>16 DEF GInv, GTypes
  <2>3. held["tu"] \in Seq(Entries) /\ tindex["tu"] \in Int
    BY <1>11
  <2>4. GTypes'
    BY <1>1, <1>15, <2>1, <2>2, <2>3, HeldTypes
  <2> QED BY <2>2, <2>4 DEF GInv, Kept, Staged, Readied
<1>17. CASE ~over
  <2>1. PICK c, d : c = TextAppended(cond, time, <<"img">>)
          /\ d = TextAppended(held["tu"], tindex["tu"], <<"img">>)
    OBVIOUS
  <2>2. Len(<<"img">>) = 1 /\ <<"img">> \in {<<>>, <<"word">>, <<"img">>, <<"word", "img">>}
    OBVIOUS
  <2>3. PICK tokens : tokens = <<"img">>
    OBVIOUS
  <2>4. BranchIs(c, time + 1, TRUE, m) /\ BranchIs(d, tindex["tu"] + 1, TRUE, m)
    <3>1. BranchIs(TextAppended(cond, time, tokens), time + Len(tokens),
                   tokens \in {<<"img">>, <<"word", "img">>}, m)
      BY <1>14, <2>2, <2>3, BranchText
    <3>2. BranchIs(TextAppended(held["tu"], tindex["tu"], tokens), tindex["tu"] + Len(tokens),
                   tokens \in {<<"img">>, <<"word", "img">>}, m)
      BY <1>13, <2>2, <2>3, BranchText
    <3>3. tokens \in {<<"img">>, <<"word", "img">>} /\ Len(tokens) = 1
      BY <2>3
    <3> QED BY <2>1, <2>3, <3>1, <3>2, <3>3 DEF BranchIs
  <2>5. /\ c \in Seq(Entries) /\ d \in Seq(Entries)
        /\ time + 1 \in Int /\ tindex["tu"] + 1 \in Int
    <3>1. Exact(c, time + 1) /\ Exact(d, tindex["tu"] + 1)
      BY <2>4 DEF BranchIs
    <3> QED BY <3>1, ExactTyped
  <2>6. /\ held' = [held EXCEPT !["cond"] = c, !["tu"] = d]
        /\ tindex' = [tindex EXCEPT !["cond"] = time + 1, !["tu"] = tindex["tu"] + 1]
    BY <1>7, <1>8, <1>9, <1>11, <1>17, <2>1
  <2>7. held' = grown /\ tindex' = at2 /\ G!Prepare(request, held', tindex')
    BY <1>9, <1>17
  <2>8. \A b \in G!Built(request) : held'[b] = G!Keys(b)'
    BY <1>2, <1>10
  <2>9. Readied' /\ step' \in 0 .. Denoisings /\ stage' = "denoise"
    BY <1>1, <2>7, <2>8, ReadiedThen
  <2>10. /\ GTypes'
         /\ held'["cond"] = c /\ held'["tu"] = d /\ held'["iu"] = held["iu"]
         /\ tindex'["cond"] = time + 1 /\ tindex'["tu"] = tindex["tu"] + 1
         /\ tindex'["iu"] = tindex["iu"]
    BY <1>1, <2>5, <2>6, <2>9, HeldTypes
  <2>11. \A b : Opened(request, stage', b)
    BY <2>9 DEF Opened
  <2>12. /\ BranchIs(G!Keys("cond")', tindex'["cond"], Opened(request, stage', "cond"), m)
         /\ BranchIs(G!Keys("tu")', tindex'["tu"], Opened(request, stage', "tu"), m)
         /\ BranchIs(G!Keys("iu")', tindex'["iu"], Opened(request, stage', "iu"), 0)
    BY <1>10, <1>13, <2>4, <2>10, <2>11 DEF BranchIs
  <2>13. Kept'
    BY <1>1, <2>12, Settles
  <2> QED BY <2>9, <2>10, <2>13 DEF GInv, Staged
<1> QED BY <1>16, <1>17

\* A thought ends with a break and an <img>.
LEMMA GThinkEnds ==
  ASSUME GInv, stage = "think", request' = request, UNCHANGED <<workspace, calls>>,
         NEW closing \in {<<"word">>, <<>>}, NEW said, NEW grown, NEW time,
         said = (IF closing = <<>> THEN held["cond"]
                 ELSE Decoded(held["cond"], tindex["cond"], "word")),
         grown = [held EXCEPT !["cond"] =
                    TextAppended(said, tindex["cond"] + Len(closing), <<"word", "img">>)],
         time = [tindex EXCEPT !["cond"] = @ + Len(closing) + 2],
         held' = grown, tindex' = time, G!Prepare(request, grown, time)
  PROVE  GInv'
<1>1. /\ request \in G!Requests /\ request.think /\ ~request.graph
      /\ request.entry \in {"it2i", "t2i"} /\ GTypes
      /\ "cond" \in G!Built(request) /\ G!Built(request) \subseteq {"cond", "tu", "iu"}
      /\ request.entry = "t2i" => "tu" \notin G!Built(request)
  <2>1. request \in G!Requests /\ request.think /\ GTypes
    BY DEF GInv, Kept, Staged
  <2>2. ~request.graph /\ request.entry \in {"it2i", "t2i"}
    BY <2>1, RequestTyped
  <2> QED BY <2>1, <2>2, Builts
<1>2. /\ G!Keys("tu") = held["tu"] /\ G!Keys("tu")' = held'["tu"]
      /\ G!Keys("iu") = held["iu"] /\ G!Keys("iu")' = held'["iu"]
      /\ G!Keys("cond") = held["cond"] /\ G!Keys("cond")' = held'["cond"]
  BY <1>1, KeysAre
<1>3. /\ held \in [G!Branches -> Seq(Entries)] /\ tindex \in [G!Branches -> Int]
      /\ G!Branches = {"cond", "tu", "iu"}
  BY <1>1 DEF GTypes, G!Branches
<1>4. PICK m : m = Told("cond") /\ m = Told("tu")
  BY DEF Told
<1>5. PICK x : x = tindex["cond"] + Len(closing)
  OBVIOUS
<1>6. BranchIs(held["cond"], tindex["cond"], FALSE, m)
  <2>1. BranchIs(held["cond"], tindex["cond"], Opened(request, stage, "cond"), m)
    BY <1>1, <1>2, <1>4, BranchNow
  <2>2. ~Opened(request, stage, "cond")
    BY DEF Opened
  <2> QED BY <2>1, <2>2 DEF BranchIs
<1>7. BranchIs(said, x, FALSE, m)
  <2>1. CASE closing = <<>>
    <3>1. x = tindex["cond"] /\ said = held["cond"]
      BY <1>3, <1>5, <2>1
    <3> QED BY <1>6, <3>1
  <2>2. CASE closing = <<"word">>
    <3>1. x = tindex["cond"] + 1
      BY <1>5, <2>2
    <3>2. said = Decoded(held["cond"], tindex["cond"], "word")
      <4>1. closing # <<>>
        BY <2>2
      <4> QED BY <4>1
    <3>3. PICK token \in {"word", "img"} : token = "word"
      OBVIOUS
    <3>4. BranchIs(Decoded(held["cond"], tindex["cond"], token), tindex["cond"] + 1, token = "img",
              m)
      BY <1>6, BranchToken
    <3>5. token # "img"
      BY <3>3
    <3> QED BY <3>1, <3>2, <3>3, <3>4, <3>5 DEF BranchIs
  <2> QED BY <2>1, <2>2
<1>8. PICK tokens : tokens = <<"word", "img">>
  OBVIOUS
<1>9. PICK c : c = TextAppended(said, x, tokens)
  OBVIOUS
<1>10. BranchIs(c, x + 2, TRUE, m)
  <2>1. tokens \in {<<>>, <<"word">>, <<"img">>, <<"word", "img">>}
    BY <1>8
  <2>2. BranchIs(TextAppended(said, x, tokens), x + Len(tokens),
                 tokens \in {<<"img">>, <<"word", "img">>}, m)
    BY <1>7, <2>1, BranchText
  <2>3. tokens \in {<<"img">>, <<"word", "img">>} /\ Len(tokens) = 2
    BY <1>8
  <2> QED BY <1>9, <2>2, <2>3 DEF BranchIs
<1>11. c \in Seq(Entries) /\ x + 2 \in Int
  <2>1. Exact(c, x + 2)
    BY <1>10 DEF BranchIs
  <2> QED BY <2>1, ExactTyped
<1>12. /\ held' = [held EXCEPT !["cond"] = c, !["tu"] = held["tu"]]
       /\ tindex' = [tindex EXCEPT !["cond"] = x + 2, !["tu"] = tindex["tu"]]
  BY <1>3, <1>5, <1>8, <1>9
<1>13. held["tu"] \in Seq(Entries) /\ tindex["tu"] \in Int
  BY <1>3
<1>14. Readied' /\ step' \in 0 .. Denoisings /\ stage' = "denoise"
  <2>1. \A b \in G!Built(request) : grown[b] = G!Keys(b)'
    BY <1>1, <1>2
  <2> QED BY <2>1, ReadiedThen
<1>15. /\ GTypes'
       /\ held'["cond"] = c /\ held'["tu"] = held["tu"] /\ held'["iu"] = held["iu"]
       /\ tindex'["cond"] = x + 2 /\ tindex'["tu"] = tindex["tu"] /\ tindex'["iu"] = tindex["iu"]
  <2>1. PICK y \in Int : y = x + 2
    BY <1>11
  <2>2. PICK d \in Seq(Entries) : d = held["tu"]
    BY <1>13
  <2>3. PICK z \in Int : z = tindex["tu"]
    BY <1>13
  <2>4. held' = [held EXCEPT !["cond"] = c, !["tu"] = d]
          /\ tindex' = [tindex EXCEPT !["cond"] = y, !["tu"] = z]
    BY <1>12, <2>1, <2>2, <2>3
  <2>5. stage' \in {"idle", "text", "think", "denoise", "finish"} /\ step' \in 0 .. Denoisings
    BY <1>14
  <2>6. /\ GTypes'
        /\ held'["cond"] = c /\ held'["tu"] = d /\ held'["iu"] = held["iu"]
        /\ tindex'["cond"] = y /\ tindex'["tu"] = z /\ tindex'["iu"] = tindex["iu"]
    <3>1. CachesGrow(c, d, y, z)
      BY <2>4, <2>5 DEF CachesGrow
    <3>2. c \in Seq(Entries)
      BY <1>11
    <3> QED BY <3>1, <3>2, GrownTypes
  <2> QED BY <2>1, <2>2, <2>3, <2>6
<1>16. \A b : Opened(request, stage', b)
  BY <1>14 DEF Opened
<1>17. BranchIs(G!Keys("cond")', tindex'["cond"], Opened(request, stage', "cond"), m)
  BY <1>2, <1>10, <1>15, <1>16 DEF BranchIs
<1>18. "tu" \in G!Built(request) =>
         BranchIs(G!Keys("tu")', tindex'["tu"], Opened(request, stage', "tu"), m)
  <2>1. "tu" \in G!Built(request) =>
          BranchIs(G!Keys("tu"), tindex["tu"], Opened(request, stage, "tu"), m)
    BY <1>4, BranchNow
  <2>2. "tu" \in G!Built(request) => Opened(request, stage, "tu")
    BY <1>1 DEF Opened
  <2> QED BY <1>2, <1>15, <1>16, <2>1, <2>2 DEF BranchIs
<1>19. "iu" \in G!Built(request) =>
         BranchIs(G!Keys("iu")', tindex'["iu"], Opened(request, stage', "iu"), 0)
  <2>1. "iu" \in G!Built(request) =>
          BranchIs(G!Keys("iu"), tindex["iu"], Opened(request, stage, "iu"), Told("iu"))
    BY BranchNow
  <2>2. Opened(request, stage, "iu") /\ Told("iu") = 0
    BY DEF Opened, Told
  <2> QED BY <1>2, <1>15, <1>16, <2>1, <2>2 DEF BranchIs
<1>20. Kept'
  BY <1>17, <1>18, <1>19, Settles
<1> QED BY <1>14, <1>15, <1>20 DEF GInv, Staged

\* A thought goes on, or ends.
LEMMA GThink ==
  ASSUME GInv, G!Think
  PROVE  GInv'
<1>1. stage = "think" /\ request' = request /\ calls' = calls
  BY DEF G!Think
<1>2. ~request.graph
  <2>1. request \in G!Requests /\ request.think
    BY <1>1 DEF GInv, Kept, Staged
  <2> QED BY <2>1, RequestTyped
<1>3. CASE G!DecodedCond("word") /\ stage' = stage /\ step' = step
  <2>1. ~G!Exhausted(1)
    BY <1>2 DEF G!Exhausted
  <2> QED BY <1>1, <1>2, <1>3, <2>1, Says
<1>4. ASSUME NEW closing \in {<<"word">>, <<>>},
             LET said == IF closing = <<>> THEN held["cond"]
                         ELSE G!Decoded(held["cond"], tindex["cond"], "word")
                 grown == [held EXCEPT !["cond"] =
                             G!TextAppended(said, tindex["cond"] + Len(closing), <<"word", "img">>)]
                 time == [tindex EXCEPT !["cond"] = @ + Len(closing) + 2]
             IN  held' = grown /\ tindex' = time /\ G!Prepare(request, grown, time),
             UNCHANGED workspace
      PROVE  GInv'
  <2>1. PICK said : said = (IF closing = <<>> THEN held["cond"]
                            ELSE Decoded(held["cond"], tindex["cond"], "word"))
    OBVIOUS
  <2>2. PICK grown : grown = [held EXCEPT !["cond"] =
                                TextAppended(said, tindex["cond"] + Len(closing),
                                    <<"word", "img">>)]
    OBVIOUS
  <2>3. PICK time : time = [tindex EXCEPT !["cond"] = @ + Len(closing) + 2]
    OBVIOUS
  <2>4. held' = grown /\ tindex' = time /\ G!Prepare(request, grown, time)
    BY <1>4, <2>1, <2>2, <2>3, SameSteps
  <2> QED BY <1>1, <1>4, <2>1, <2>2, <2>3, <2>4, GThinkEnds
<1>5. \/ G!DecodedCond("word") /\ stage' = stage /\ step' = step
      \/ \E closing \in {<<"word">>, <<>>} :
           LET said == IF closing = <<>> THEN held["cond"]
                       ELSE G!Decoded(held["cond"], tindex["cond"], "word")
               grown == [held EXCEPT !["cond"] =
                           G!TextAppended(said, tindex["cond"] + Len(closing), <<"word", "img">>)]
               time == [tindex EXCEPT !["cond"] = @ + Len(closing) + 2]
           IN  held' = grown /\ tindex' = time /\ G!Prepare(request, grown, time)
             /\ UNCHANGED workspace
  BY DEF G!Think
<1> QED BY <1>3, <1>4, <1>5

\* The patches leave the caches alone.
LEMMA GDenoise ==
  ASSUME GInv, G!Denoise
  PROVE  GInv'
<1>1. /\ stage = "denoise" /\ step' = step + 1 /\ stage' \in {"denoise", "finish"}
      /\ stage' = "denoise" => step' # Denoisings
      /\ UNCHANGED <<request, held, tindex, flash, placed, workspace, calls>>
  BY DEF G!Denoise
<1>2. step \in 0 .. Denoisings /\ Denoisings \in Nat /\ step < Denoisings
  BY <1>1, GenerationAssumption DEF GInv, GTypes, Readied
<1>3. step' \in 0 .. Denoisings /\ (stage' = "denoise" => step' < Denoisings)
  BY <1>1, <1>2
<1>4. GTypes'
  BY <1>1, <1>3 DEF GInv, GTypes, Sound
<1>5. GTypes
  BY DEF GInv
<1>6. \A b \in {"cond", "tu", "iu"} : G!Keys(b)' = G!Keys(b)
  BY <1>1 DEF G!Keys
<1>7. G!Built(request) \subseteq {"cond", "tu", "iu"} /\ request' = request
  BY <1>1, Builts
<1>8. Readied'
  <2>1. ASSUME NEW b \in G!Built(request)
        PROVE  flash'[b] = G!Keys(b)' /\ placed'[b] = ImageIndexes(tindex[b])'
    <3>1. flash[b] = G!Keys(b) /\ placed[b] = ImageIndexes(tindex[b])
      BY <1>1 DEF GInv, Readied
    <3> QED BY <1>1, <1>6, <1>7, <3>1 DEF ImageIndexes
  <2>2. G!Built(request)' = G!Built(request)
    BY <1>7 DEF G!Built, G!Scale, G!ImageScale
  <2> QED BY <1>3, <2>1, <2>2 DEF Readied
<1>9. ASSUME NEW b \in G!Built(request)
      PROVE  BranchIs(G!Keys(b)', tindex'[b], Opened(request, stage', b), Told(b))
  <2>1. BranchIs(G!Keys(b), tindex[b], Opened(request, stage, b), Told(b))
    BY <1>1, BranchNow
  <2>2. Opened(request, stage, b) /\ Opened(request, stage', b)
    BY <1>1 DEF Opened
  <2>3. G!Keys(b)' = G!Keys(b) /\ tindex'[b] = tindex[b]
    BY <1>1, <1>6, <1>7
  <2> QED BY <2>1, <2>2, <2>3 DEF BranchIs
<1>10. Kept'
  <2>1. PICK m : m = Told("cond") /\ m = Told("tu")
    BY DEF Told
  <2>2. "cond" \in G!Built(request) /\ Told("iu") = 0
    BY Builts DEF Told
  <2>3. BranchIs(G!Keys("cond")', tindex'["cond"], Opened(request, stage', "cond"), m)
    BY <1>9, <2>1, <2>2
  <2>4. "tu" \in G!Built(request) =>
          BranchIs(G!Keys("tu")', tindex'["tu"], Opened(request, stage', "tu"), m)
    BY <1>9, <2>1
  <2>5. "iu" \in G!Built(request) =>
          BranchIs(G!Keys("iu")', tindex'["iu"], Opened(request, stage', "iu"), 0)
    BY <1>9, <2>2
  <2> QED BY <1>1, <2>3, <2>4, <2>5, Settles
<1> QED BY <1>1, <1>4, <1>8, <1>10 DEF GInv, Staged

\* A finished image enters the conversation and its images.
LEMMA GFinish ==
  ASSUME GInv, stage = "finish", request' = request, request.entry \in {"chat", "given"},
         ~G!Exhausted(Patches + 1), stage' = "text", UNCHANGED <<step, calls>>,
         NEW cond, cond = ImageAppended(G!Keys("cond"), tindex["cond"]),
         tindex' = [tindex EXCEPT !["cond"] = @ + 2, !["tu"] = @ + 2],
         workspace' = (IF request.graph
                       THEN G!Updated(workspace, SubSeq(cond, Len(G!Keys("cond")) + 1, Len(cond)))
                       ELSE workspace),
         held' = [held EXCEPT !["cond"] = IF request.graph THEN G!None ELSE cond,
                              !["tu"] = ImageAppended(@, tindex["tu"])]
  PROVE  GInv'
<1>1. /\ request \in G!Requests /\ G!Built(request) = {"cond", "tu", "iu"} /\ GTypes
      /\ request.graph \in BOOLEAN
  BY Builts, RequestTyped DEF GInv, Kept
<1>2. /\ held \in [G!Branches -> Seq(Entries)] /\ tindex \in [G!Branches -> Int]
      /\ G!Branches = {"cond", "tu", "iu"} /\ Sound(workspace)
  BY <1>1 DEF GTypes, G!Branches
<1>3. /\ G!Keys("tu") = held["tu"] /\ G!Keys("tu")' = held'["tu"]
      /\ G!Keys("iu") = held["iu"] /\ G!Keys("iu")' = held'["iu"]
  BY <1>1, KeysAre
<1>4. PICK m : m = Told("cond") /\ m = Told("tu")
  BY DEF Told
<1>5. PICK c : c = G!Keys("cond")
  OBVIOUS
<1>6. /\ BranchIs(c, tindex["cond"], TRUE, m) /\ BranchIs(held["tu"], tindex["tu"], TRUE, m)
      /\ BranchIs(held["iu"], tindex["iu"], TRUE, 0)
  <2>1. /\ BranchIs(c, tindex["cond"], Opened(request, stage, "cond"), m)
        /\ BranchIs(held["tu"], tindex["tu"], Opened(request, stage, "tu"), m)
        /\ BranchIs(held["iu"], tindex["iu"], Opened(request, stage, "iu"), Told("iu"))
    BY <1>1, <1>3, <1>4, <1>5, BranchNow
  <2>2. (\A b : Opened(request, stage, b)) /\ Told("iu") = 0
    BY DEF Opened, Told
  <2> QED BY <2>1, <2>2 DEF BranchIs
<1>7. c \in Seq(Entries)
  BY <1>1, <1>5, BranchNow
<1>8. /\ BranchIs(cond, tindex["cond"] + 2, FALSE, m + 1)
      /\ cond \in Seq(Entries) /\ Len(cond) = Len(c) + (Patches + 1)
      /\ \A i \in 1 .. Len(c) : cond[i] = c[i]
  BY <1>5, <1>6, BranchImage
<1>9. PICK d : d = ImageAppended(held["tu"], tindex["tu"])
  OBVIOUS
<1>10. BranchIs(d, tindex["tu"] + 2, FALSE, m + 1) /\ d \in Seq(Entries)
  BY <1>6, <1>9, BranchImage
<1>11. Sound(workspace)' /\ (request.graph => Filled(workspace)' = cond)
  <2>1. CASE request.graph
    <3>1. c = Filled(workspace)
      BY <1>1, <1>5, <2>1, KeysAre
    <3>2. PICK p \in Nat : p = Patches + 1
      BY GridPositions
    <3>3. workspace.length + p <= Len(workspace.slots)
      <4>1. ~ (workspace.length + p > Len(workspace.slots))
        BY <2>1, <3>2 DEF G!Exhausted, G!Capacity
      <4>2. workspace.length \in Nat /\ workspace.slots \in Seq(Slots)
        BY <1>2 DEF Sound
      <4> QED BY <4>1, <4>2
    <3>4. PICK w : w = G!Updated(workspace, SubSeq(cond, Len(c) + 1, Len(cond)))
      OBVIOUS
    <3>5. Sound(w) /\ Filled(w) = cond
      <4>1. Len(cond) = Len(c) + p /\ cond \in Seq(Entries) /\ \A i \in 1 .. Len(c) : cond[i] = c[i]
        BY <1>8, <3>2
      <4>2. Sound(workspace) /\ c \in Seq(Entries)
        BY <1>2, <1>7
      <4>3. Extends(workspace, c, p, cond, w)
        BY <3>1, <3>3, <3>4, <4>1, <4>2 DEF Extends
      <4> QED BY <4>1, <4>2, <4>3, WorkspaceExtends
    <3>6. workspace' = w
      BY <1>5, <2>1, <3>4
    <3> QED BY <3>5, <3>6 DEF Sound, Filled
  <2>2. CASE ~request.graph
    BY <1>2, <2>2 DEF Sound
  <2> QED BY <1>1, <2>1, <2>2
<1>12. held'["tu"] = d /\ held'["iu"] = held["iu"] /\ (~request.graph => held'["cond"] = cond)
  BY <1>2, <1>9
<1>13. held' \in [G!Branches -> Seq(Entries)]
  <2>1. PICK e : e = (IF request.graph THEN G!None ELSE cond)
    OBVIOUS
  <2>2. e \in Seq(Entries)
    <3>1. <<>> \in Seq(Entries)
      OBVIOUS
    <3> QED BY <1>8, <2>1, <3>1 DEF G!None
  <2>3. held' = [held EXCEPT !["cond"] = e, !["tu"] = d]
    BY <1>2, <1>9, <2>1
  <2> QED BY <1>2, <1>10, <2>2, <2>3
<1>14. /\ tindex' \in [G!Branches -> Int] /\ tindex'["cond"] = tindex["cond"] + 2
       /\ tindex'["tu"] = tindex["tu"] + 2 /\ tindex'["iu"] = tindex["iu"]
  BY <1>2
<1>15. GTypes'
  BY <1>1, <1>11, <1>13, <1>14 DEF GTypes
<1>16. G!Keys("cond")' = cond
  <2>1. CASE request.graph
    BY <1>1, <1>11, <2>1, KeysAre
  <2>2. CASE ~request.graph
    BY <1>1, <1>12, <2>2, KeysAre
  <2> QED BY <2>1, <2>2
<1>17. /\ ~Opened(request, stage', "cond") /\ ~Opened(request, stage', "tu")
       /\ Opened(request, stage', "iu")
  BY DEF Opened
<1>18. BranchIs(G!Keys("cond")', tindex'["cond"], Opened(request, stage', "cond"), m + 1)
  BY <1>8, <1>14, <1>16, <1>17 DEF BranchIs
<1>19. BranchIs(G!Keys("tu")', tindex'["tu"], Opened(request, stage', "tu"), m + 1)
  BY <1>3, <1>10, <1>12, <1>14, <1>17 DEF BranchIs
<1>20. BranchIs(G!Keys("iu")', tindex'["iu"], Opened(request, stage', "iu"), 0)
  BY <1>3, <1>6, <1>12, <1>14, <1>17 DEF BranchIs
<1>21. Kept'
  <2>1. PICK more : more = m + 1
    OBVIOUS
  <2> QED BY <1>18, <1>19, <1>20, <2>1, Settles
<1> QED BY <1>15, <1>21 DEF GInv, Staged, Readied

\* A finished image ends the call or enters the conversation.
LEMMA GFinishImage ==
  ASSUME GInv, G!FinishImage
  PROVE  GInv'
<1>1. stage = "finish" /\ request' = request /\ UNCHANGED <<step, calls>>
  BY DEF G!FinishImage
<1>2. request.entry \in {"chat", "given", "it2i", "t2i"}
  <2>1. request \in G!Requests
    BY <1>1 DEF GInv, Kept
  <2> QED BY <2>1, RequestTyped
<1>3. CASE request.entry \in {"it2i", "t2i"}
  <2>1. stage' = "idle" /\ UNCHANGED <<held, tindex, workspace>>
    BY <1>3 DEF G!FinishImage
  <2> QED BY <1>1, <2>1, GEnds
<1>4. CASE request.entry \in {"chat", "given"}
  <2>1. PICK cond : cond = ImageAppended(G!Keys("cond"), tindex["cond"])
    OBVIOUS
  <2>2. /\ ~G!Exhausted(Patches + 1) /\ stage' = "text"
        /\ tindex' = [tindex EXCEPT !["cond"] = @ + 2, !["tu"] = @ + 2]
        /\ workspace' = (IF request.graph
                         THEN G!Updated(workspace, SubSeq(cond, Len(G!Keys("cond")) + 1, Len(cond)))
                         ELSE workspace)
        /\ held' = [held EXCEPT !["cond"] = IF request.graph THEN G!None ELSE cond,
                                !["tu"] = ImageAppended(@, tindex["tu"])]
    <3>1. request.entry \notin {"it2i", "t2i"}
      BY <1>4
    <3> QED BY <2>1, <3>1, SameSteps, SameReadings DEF G!FinishImage
  <2> QED BY <1>1, <1>4, <2>1, <2>2, GFinish
<1> QED BY <1>2, <1>3, <1>4

\* Every step of the entry points keeps the branches.
LEMMA GNext ==
  ASSUME GInv, G!Next
  PROVE  GInv'
<1>1. CASE G!Stop \/ G!Raise
  <2>1. stage' = "idle" /\ UNCHANGED <<held, tindex, step, workspace, calls>>
    BY <1>1 DEF G!Stop, G!Raise
  <2> QED BY <2>1, GEnds
<1> QED BY <1>1, GCall, GSay, GStartImage, GReadPart, GThink, GDenoise, GFinishImage DEF G!Next
-----------------------------------------------------------------------------
(* Counting images and slices. *)

\* Images among the first n events.
ImageSet(es, n) == {i \in 1 .. n : es[i].kind = "image"}

\* The images of a sequence are those among its positions.
LEMMA ImagesCounted ==
  ASSUME NEW es \in Seq(EventType)
  PROVE  ImagesOf(es) = Cardinality(ImageSet(es, Len(es))) /\ ImagesOf(es) \in Nat
<1>1. {i \in DOMAIN es : es[i].kind = "image"} = ImageSet(es, Len(es))
  BY DEF ImageSet
<1>2. ImageSet(es, Len(es)) \in SUBSET (1 .. Len(es)) /\ Len(es) \in Int
  BY DEF ImageSet
<1>3. Cardinality(ImageSet(es, Len(es))) \in Nat
  BY <1>2, Counted
<1> QED BY <1>1, <1>3 DEF ImagesOf

\* One position more counts for one if an image is there.
LEMMA OneMore ==
  ASSUME NEW es, NEW n \in Nat
  PROVE  Cardinality(ImageSet(es, n + 1)) =
           Cardinality(ImageSet(es, n)) + (IF es[n + 1].kind = "image" THEN 1 ELSE 0)
<1>1. ImageSet(es, n) \in SUBSET (1 .. n) /\ n \in Int
  BY DEF ImageSet
<1>2. IsFiniteSet(ImageSet(es, n)) /\ Cardinality(ImageSet(es, n)) \in Nat
  BY <1>1, Counted
<1>3. CASE es[n + 1].kind = "image"
  <2>1. ImageSet(es, n + 1) = ImageSet(es, n) \union {n + 1} /\ n + 1 \notin ImageSet(es, n)
    BY <1>3 DEF ImageSet
  <2>2. Cardinality(ImageSet(es, n) \union {n + 1}) = Cardinality(ImageSet(es, n)) + 1
    BY <1>2, <2>1, FS_AddElement
  <2> QED BY <1>3, <2>1, <2>2
<1>4. CASE es[n + 1].kind # "image"
  <2>1. ImageSet(es, n + 1) = ImageSet(es, n)
    BY <1>4 DEF ImageSet
  <2> QED BY <1>4, <1>2, <2>1
<1> QED BY <1>3, <1>4

\* Recording an event adds it to the count.
LEMMA ImagesAppended ==
  ASSUME NEW es \in Seq(EventType), NEW v \in EventType
  PROVE  /\ ImagesOf(es) \in Nat
         /\ ImagesOf(Append(es, v)) = ImagesOf(es) + (IF v.kind = "image" THEN 1 ELSE 0)
<1> DEFINE fs == Append(es, v)
<1>1. PICK n \in Nat : n = Len(es)
  OBVIOUS
<1>2. fs \in Seq(EventType) /\ Len(fs) = n + 1 /\ fs[n + 1] = v /\ \A k \in 1 .. n : fs[k] = es[k]
  BY <1>1, Appended
<1> HIDE DEF fs
<1>3. ImageSet(fs, n) = ImageSet(es, n)
  BY <1>2 DEF ImageSet
<1>4. Cardinality(ImageSet(fs, n + 1)) = Cardinality(ImageSet(fs,
          n)) + (IF v.kind = "image" THEN 1 ELSE 0)
  BY <1>2, OneMore
<1>5. ImagesOf(es) = Cardinality(ImageSet(es, n)) /\ ImagesOf(es) \in Nat
  BY <1>1, ImagesCounted
<1>6. ImagesOf(fs) = Cardinality(ImageSet(fs, n + 1))
  BY <1>2, ImagesCounted
<1>7. ImagesOf(fs) = ImagesOf(es) + (IF v.kind = "image" THEN 1 ELSE 0)
  BY <1>3, <1>4, <1>5, <1>6
<1> QED BY <1>5, <1>7 DEF fs

\* The images before an event, counted from event to event.
LEMMA ImagesAhead ==
  ASSUME events \in Seq(EventType)
  PROVE  /\ ImagesBefore(1) = 0
         /\ \A n \in 1 .. Len(events) :
              /\ ImagesBefore(n) \in Nat
              /\ ImagesBefore(n + 1) = ImagesBefore(n) + (IF events[n].kind = "image" THEN 1 ELSE 0)
         /\ ImagesBefore(Len(events) + 1) = ImagesOf(events)
<1>1. PICK m \in Nat : m = Len(events) /\ DOMAIN events = 1 .. m
  OBVIOUS
<1>2. ASSUME NEW n \in 0 .. m
      PROVE  /\ ImagesBefore(n + 1) = Cardinality(ImageSet(events, n))
             /\ ImagesBefore(n + 1) \in Nat
  <2> DEFINE es == SubSeq(events, 1, n)
  <2>1. es \in Seq(EventType) /\ Len(es) = n /\ \A i \in 1 .. n : es[i] = events[i]
    BY <1>1
  <2>2. n + 1 - 1 = n
    OBVIOUS
  <2>3. ImagesBefore(n + 1) = ImagesOf(es)
    BY <2>2 DEF ImagesBefore
  <2> HIDE DEF es
  <2>4. ImageSet(es, n) = ImageSet(events, n)
    BY <2>1 DEF ImageSet
  <2>5. ImagesOf(es) = Cardinality(ImageSet(es, n)) /\ ImagesOf(es) \in Nat
    BY <2>1, ImagesCounted
  <2> QED BY <2>3, <2>4, <2>5
<1>3. ImagesBefore(1) = 0
  <2>1. 0 \in 0 .. m /\ 0 + 1 = 1
    OBVIOUS
  <2>2. ImageSet(events, 0) = {}
    BY DEF ImageSet
  <2>3. ImagesBefore(0 + 1) = Cardinality(ImageSet(events, 0))
    BY <1>2, <2>1
  <2> QED BY <2>1, <2>2, <2>3, FS_EmptySet
<1>4. ASSUME NEW n \in 1 .. m
      PROVE  /\ ImagesBefore(n) \in Nat
             /\ ImagesBefore(n + 1) = ImagesBefore(n) + (IF events[n].kind = "image" THEN 1 ELSE 0)
  <2>1. n - 1 \in 0 .. m /\ n \in 0 .. m /\ n - 1 + 1 = n /\ n - 1 \in Nat
    OBVIOUS
  <2>2. ImagesBefore(n - 1 + 1) = Cardinality(ImageSet(events, n - 1))
          /\ ImagesBefore(n - 1 + 1) \in Nat
    BY <2>1, <1>2
  <2>3. ImagesBefore(n + 1) = Cardinality(ImageSet(events, n))
    BY <2>1, <1>2
  <2>4. Cardinality(ImageSet(events, n - 1 + 1)) =
          Cardinality(ImageSet(events, n - 1)) + (IF events[n - 1 + 1].kind = "image" THEN 1 ELSE 0)
    BY <2>1, OneMore
  <2> QED BY <2>1, <2>2, <2>3, <2>4
<1>5. ImagesBefore(m + 1) = ImagesOf(events)
  <2>1. ImagesBefore(m + 1) = Cardinality(ImageSet(events, m))
    BY <1>2
  <2>2. ImagesOf(events) = Cardinality(ImageSet(events, m))
    BY <1>1, ImagesCounted
  <2> QED BY <2>1, <2>2
<1> QED BY <1>1, <1>3, <1>4, <1>5

\* Division by d counts the whole d in x and leaves the rest.
LEMMA Division ==
  ASSUME NEW d \in Nat \ {0}, NEW x \in Nat
  PROVE  \E q \in Nat, r \in 0 .. d - 1 : x \div d = q /\ x = q * d + r
<1>1. x \div d \in Nat /\ x % d \in 0 .. d - 1
  OBVIOUS
<1>2. PICK q \in Nat : x \div d = q
  BY <1>1
<1>3. PICK r \in 0 .. d - 1 : x % d = r
  BY <1>1
<1>4. x = q * d + r
  BY <1>2, <1>3
<1> QED BY <1>2, <1>3, <1>4

\* The slices of an image cover its actions and no slice is empty.
LEMMA SlicesCover ==
  ASSUME NEW s \in Nat
  PROVE  /\ SlicesOf(Steps) \in Nat \ {0}
         /\ s * Microbatch < Steps <=> s < SlicesOf(Steps)
<1>1. Steps \in Nat \ {0} /\ Microbatch \in Nat \ {0}
  BY SessionAssumption
<1>2. PICK m \in Nat \ {0} : m = Microbatch
  BY <1>1
<1>3. PICK a \in Nat \ {0} : a = Steps
  BY <1>1
<1>4. a + m - 1 \in Nat
  OBVIOUS
<1>5. PICK q \in Nat, r \in 0 .. m - 1 : (a + m - 1) \div m = q /\ a + m - 1 = q * m + r
  BY <1>4, Division
<1>6. SlicesOf(Steps) = q
  BY <1>2, <1>3, <1>5 DEF SlicesOf
<1>7. q # 0
  BY <1>5
<1>8. ASSUME s < q PROVE s * m < a
  <2>1. PICK e \in Nat : q = s + 1 + e
    BY <1>8
  <2>2. q * m = s * m + m + e * m
    BY <2>1
  <2>3. s * m \in Nat /\ e * m \in Nat
    OBVIOUS
  <2> QED BY <1>5, <2>2, <2>3
<1>9. ASSUME q <= s PROVE a <= s * m
  <2>1. PICK e \in Nat : s = q + e
    BY <1>9
  <2>2. s * m = q * m + e * m
    BY <2>1
  <2>3. q * m \in Nat /\ e * m \in Nat
    OBVIOUS
  <2> QED BY <1>5, <2>2, <2>3
<1>10. s * m \in Nat /\ (s < q \/ q <= s)
  OBVIOUS
<1>11. s * m < a <=> s < q
  BY <1>8, <1>9, <1>10
<1> QED BY <1>2, <1>3, <1>6, <1>7, <1>11

-----------------------------------------------------------------------------
(* What the steps share. *)

\* The actions of an event, in order.
LEMMA OwnActionsTyped ==
  ASSUME events \in Seq(EventType), NEW e \in 1 .. Len(events)
  PROVE  /\ Own(e) \in Seq(Pairs)
         /\ Len(Own(e)) = IF events[e].kind = "text" THEN Len(events[e].tokens) ELSE 1
         /\ \A k \in 1 .. Len(Own(e)) : Own(e)[k] = <<e, k>>
<1>1. events[e] \in EventType
  OBVIOUS
<1>2. Len(events[e].tokens) \in Nat
  BY <1>1 DEF EventType
<1>3. PICK n \in Nat : n = IF events[e].kind = "text" THEN Len(events[e].tokens) ELSE 1
  BY <1>2
<1>4. Own(e) = [k \in 1 .. n |-> <<e, k>>]
  BY <1>3 DEF Own, Count
<1>5. \A k \in 1 .. n : <<e, k>> \in Pairs
  BY DEF Pairs
<1>6. Own(e) \in Seq(Pairs) /\ Len(Own(e)) = n
  BY <1>4, <1>5
<1> QED BY <1>3, <1>4, <1>6

\* An event takes a number of entries.
LEMMA Sized ==
  ASSUME NEW v \in EventType
  PROVE  Size(v) \in Nat /\ Span(v) \in Nat /\ v.from \in Nat
<1>1. Len(v.tokens) \in Nat /\ v.from \in Nat
  BY DEF EventType
<1>2. Patches \in Nat
  BY GridPositions
<1> QED BY <1>1, <1>2 DEF Size, Span

\* Where the anchor's text actions of an event are.
LEMMA SpokenSteps ==
  ASSUME Types, Recorded
  PROVE  /\ Spoken(1) = 0
         /\ \A n \in 1 .. Len(events) :
              Spoken(n + 1) =
                Spoken(n) + (IF events[n].kind = "text" THEN Len(events[n].tokens) ELSE 0)
<1>1. input.prompt \in Seq(Tokens) /\ events \in Seq(EventType)
  BY SessionAssumption DEF Types
<1>2. PICK p \in Nat : p = Patches + 1
  BY GridPositions
<1>3. PICK l \in Nat : l = Len(input.prompt)
  BY <1>1
<1>4. Spoken(1) = 0
  <2>1. EndOf(1 - 1) = l /\ ImagesBefore(1) = 0
    BY <1>1, <1>3, ImagesAhead DEF EndOf
  <2>2. 0 * p = 0
    OBVIOUS
  <2> QED BY <2>1, <2>2, <1>2, <1>3 DEF Spoken
<1>5. ASSUME NEW n \in 1 .. Len(events)
      PROVE  Spoken(n + 1) =
               Spoken(n) + (IF events[n].kind = "text" THEN Len(events[n].tokens) ELSE 0)
  <2>1. events[n] \in EventType /\ events[n].from = EndOf(n - 1)
    BY <1>1 DEF Recorded
  <2>2. PICK f \in Nat : f = events[n].from
    BY <2>1 DEF EventType
  <2>3. PICK s \in Nat : s = Len(events[n].tokens)
    BY <2>1 DEF EventType
  <2>4. PICK i \in Nat : i = ImagesBefore(n)
    BY <1>1, ImagesAhead
  <2>5. ImagesBefore(n + 1) = i + (IF events[n].kind = "image" THEN 1 ELSE 0)
    BY <1>1, <2>4, ImagesAhead
  <2>6. Spoken(n) = f - l - i * p
    BY <1>2, <1>3, <2>1, <2>2, <2>4 DEF Spoken
  <2>7. n + 1 - 1 = n /\ n # 0
    OBVIOUS
  <2>8. EndOf(n) = f + Size(events[n])
    BY <2>2, <2>7 DEF EndOf
  <2>9. Spoken(n + 1) = EndOf(n) - l - ImagesBefore(n + 1) * p
    BY <1>2, <1>3, <2>7 DEF Spoken
  <2>10. CASE events[n].kind = "text"
    <3>1. PICK m \in Int : m = i * p
      OBVIOUS
    <3>2. ImagesBefore(n + 1) = i /\ EndOf(n) = f + s
      BY <2>3, <2>5, <2>8, <2>10 DEF Size
    <3>3. Spoken(n + 1) = f + s - l - m /\ Spoken(n) = f - l - m
      BY <2>6, <2>9, <3>1, <3>2
    <3>4. Spoken(n + 1) = Spoken(n) + s
      BY <3>3
    <3> QED BY <2>3, <2>10, <3>4
  <2>11. CASE events[n].kind = "image"
    <3>1. Spoken(n + 1) = f + p - l - (i + 1) * p
      BY <1>2, <2>5, <2>8, <2>9, <2>11 DEF Size
    <3>2. i * p \in Int /\ (i + 1) * p = i * p + p
      OBVIOUS
    <3> QED BY <2>6, <2>11, <3>1, <3>2
  <2> QED BY <2>1, <2>10, <2>11 DEF EventType
<1> QED BY <1>4, <1>5

\* A replay leaves the rollout and its record alone.
LEMMA RollingStays ==
  ASSUME UNCHANGED <<input, rolling>>
  PROVE  /\ \A n : EndOf(n)' = EndOf(n) /\ TimeOf(n)' = TimeOf(n)
         /\ \A n : ImagesBefore(n)' = ImagesBefore(n) /\ Spoken(n)' = Spoken(n)
         /\ Recorded' = Recorded /\ ImagesOf(events)' = ImagesOf(events)
         /\ \A e : Own(e)' = Own(e)
<1>1. UNCHANGED <<input, cache, t, tail, span, events>>
  BY DEF rolling
<1>2. \A n : EndOf(n)' = EndOf(n) /\ TimeOf(n)' = TimeOf(n)
  BY <1>1 DEF EndOf, TimeOf, Size, Span
<1>3. \A n : ImagesBefore(n)' = ImagesBefore(n)
  BY <1>1 DEF ImagesBefore, ImagesOf
<1>4. \A n : Spoken(n)' = Spoken(n)
  BY <1>1, <1>2, <1>3 DEF Spoken
<1>5. \A v : Holds(v)' = Holds(v)
  BY <1>1 DEF Holds, Size, EntryOf
<1>6. Recorded' = Recorded
  BY <1>1, <1>2, <1>5 DEF Recorded
<1>7. \A e : Own(e)' = Own(e)
  BY <1>1 DEF Own, Count
<1>8. ImagesOf(events)' = ImagesOf(events)
  BY <1>1 DEF ImagesOf
<1> QED BY <1>2, <1>3, <1>4, <1>6, <1>7, <1>8

Replays == {"rolled", "pass", "anchor", "between", "done", "failed"}

\* While a rollout is replayed its record stays and fits.
LEMMA ReplayStays ==
  ASSUME IInv, UNCHANGED <<input, rolling>>, phase \in Replays, phase' \in Replays \ {"rolled"}
  PROVE  /\ Recorded' /\ Ended' /\ Fits'
         /\ input' \in [prompt : Prompts, modality : Modalities, backend : Backends,
                reference : BOOLEAN]
         /\ phase' \in Phases
         /\ cache' \in Seq(Entries) /\ t' \in Int /\ tail' \in BOOLEAN
         /\ span' \in [from : Nat, t : Int, image : BOOLEAN, left : Int, tokens : Seq(Tokens)]
         /\ events' \in Seq(EventType)
<1>1. UNCHANGED <<input, cache, t, tail, span, events>>
  BY DEF rolling
<1>2. phase' \in {"pass", "anchor", "between", "done", "failed"}
  BY DEF Replays
<1>3. Recorded' /\ \A n : EndOf(n)' = EndOf(n) /\ TimeOf(n)' = TimeOf(n)
  BY RollingStays DEF IInv
<1>4. Ended'
  BY <1>1, <1>2, <1>3 DEF IInv, Ended, Replays
<1>5. ImagesOf(events)' = ImagesOf(events)
  BY <1>1 DEF ImagesOf
<1>6. Fits'
  BY <1>1, <1>2, <1>5 DEF IInv, Fits, Replays
<1> QED BY <1>1, <1>2, <1>3, <1>4, <1>6 DEF IInv, Types, Phases

-----------------------------------------------------------------------------
(* The steps of a replay. *)

\* A pass that starts rebuilds the prompt's cache with its own parameters.
LEMMA EnterSteps ==
  ASSUME IInv, NEW p \in 1 .. 4, Enter(p),
         (phase = "rolled" /\ p = 1) \/ (phase = "between" /\ p > 1)
  PROVE  IInv'
<1>1. /\ pass' = p /\ phase' = "pass" /\ at' = [event |-> 1, slice |-> 0] /\ pending' = 0
      /\ again' = Prefill(input.prompt) /\ u' = Last(again').t
      /\ shards' = IF Passes[p] = "reference" THEN Reference ELSE shards
      /\ full' = IF Passes[p] = "reference" THEN shards' ELSE Gathered
      /\ used' = full' /\ UNCHANGED <<input, rolling, anchoring>>
  BY DEF Enter
<1>2. UNCHANGED <<input, cache, t, tail, span, events, replayed, offsets, anchored>>
  BY <1>1 DEF rolling, anchoring
<1>3. /\ Recorded' /\ Ended' /\ Fits'
      /\ input' \in [prompt : Prompts, modality : Modalities, backend : Backends,
             reference : BOOLEAN]
      /\ phase' \in Phases
      /\ cache' \in Seq(Entries) /\ t' \in Int /\ tail' \in BOOLEAN
      /\ span' \in [from : Nat, t : Int, image : BOOLEAN, left : Int, tokens : Seq(Tokens)]
      /\ events' \in Seq(EventType)
  BY <1>1, ReplayStays DEF Replays
<1>4. input.prompt \in Seq(Tokens) /\ Len(input.prompt) > 0
  BY SessionAssumption DEF IInv, Types
<1>5. Prefill(input.prompt) \in Seq(Entries) /\ Len(Prefill(input.prompt)) = Len(input.prompt)
  BY <1>4, Prefilled
<1>6. Last(Prefill(input.prompt)).t \in Int
  <2>1. Prefill(input.prompt)[Len(Prefill(input.prompt))] \in Entries
    BY <1>4, <1>5
  <2> QED BY <2>1 DEF Last, Entries
<1>7. again' \in Seq(Entries) /\ u' \in Int
  BY <1>1, <1>5, <1>6
<1>8. /\ shards' = PolicyOf(p) /\ full' = PolicyOf(p) /\ used' = PolicyOf(p)
      /\ PolicyOf(p) \in {Current, Reference}
  BY <1>1 DEF IInv, Types, Parameters, InRollout, PolicyOf, Gathered
<1>9. Types'
  <2>1. /\ pass' \in 0 .. 4 /\ at' \in [event : Nat \ {0}, slice : Nat] /\ pending' \in Nat
        /\ shards' \in {Current, Reference} /\ full' \in {Current, Reference, "none"}
        /\ used' \in {Current, Reference}
    BY <1>1, <1>8
  <2>2. /\ replayed' \in [texts : Seq(Pairs), images : Seq(Pairs)]
        /\ offsets' \in [text : Nat, image : Nat] /\ anchored' \in Seq(Seq(Pairs))
    BY <1>2 DEF IInv, Types
  <2> QED BY <1>3, <1>7, <2>1, <2>2, Zenon DEF Types
<1>10. Len(events) \in Nat
  BY DEF IInv, Types
<1>11. Control'
  BY <1>1, <1>2, <1>10 DEF Control
<1>12. Parameters'
  BY <1>1, <1>8 DEF Parameters, InRollout, PolicyOf
<1>13. Follows'
  <2>1. SUFFICES ASSUME 1 <= Len(events)
                 PROVE  /\ Len(again') = events[1].from /\ u' = events[1].t
                        /\ \A i \in 1 .. Len(again') : i \in DOMAIN cache /\ again'[i] = cache[i]
    BY <1>1, <1>2 DEF Follows
  <2>2. 1 \in 1 .. Len(events) /\ 1 - 1 = 0
    BY <2>1, <1>10
  <2>3. events[1].from = Len(input.prompt) /\ events[1].t = Last(Prefill(input.prompt)).t
    BY <2>2 DEF IInv, Recorded, EndOf, TimeOf
  <2>4. \A i \in 1 .. Len(input.prompt) : i \in DOMAIN cache /\ cache[i] = Prefill(input.prompt)[i]
    BY DEF IInv, Recorded
  <2> QED BY <1>1, <1>5, <2>3, <2>4
<1>14. Backward'
  BY <1>1 DEF Backward
<1>15. \A n : ImagesBefore(n)' = ImagesBefore(n) /\ Spoken(n)' = Spoken(n) /\ Own(n)' = Own(n)
  BY <1>1, RollingStays
<1>16. Cut'
  <2>1. \A e \in DOMAIN anchored' : e \in DOMAIN events' /\ anchored'[e] = Own(e)'
    BY <1>2, <1>15 DEF IInv, Cut
  <2>2. CASE p = 1
    <3>1. Untouched
      BY <2>2 DEF IInv, Cut, InRollout
    <3>2. Spoken(1) = 0 /\ ImagesBefore(1) = 0
      BY SpokenSteps, ImagesAhead DEF IInv, Types
    <3>3. Laid(1)'
      BY <1>2, <1>15, <3>1, <3>2 DEF Laid, Untouched
    <3> QED BY <1>1, <1>2, <2>1, <2>2, <3>1, <3>3 DEF Cut, InRollout, Untouched
  <2>3. CASE p > 1
    <3>1. Len(anchored) = Len(events)
      BY <2>3 DEF IInv, Cut
    <3> QED BY <1>1, <1>2, <2>1, <2>3, <3>1 DEF Cut, InRollout
  <2> QED BY <2>2, <2>3
<1> QED BY <1>3, <1>9, <1>11, <1>12, <1>13, <1>14, <1>16 DEF IInv

\* What a pass appends for an event is what the rollout appended.
LEMMA AdvanceFollows ==
  ASSUME IInv, phase = "pass", at.event \in 1 .. Len(events), UNCHANGED <<input, rolling>>,
         Grown(again, events[at.event], again'), u' = u + Span(events[at.event]),
         at'.event = at.event + 1
  PROVE  again' \in Seq(Entries) /\ u' \in Int /\ Follows'
<1>1. UNCHANGED <<input, cache, t, tail, span, events>>
  BY DEF rolling
<1>2. PICK a \in 1 .. Len(events) : a = at.event
  OBVIOUS
<1>3. events \in Seq(EventType) /\ Len(events) \in Nat
  BY DEF IInv, Types
<1>4. events[a] \in EventType
  BY <1>3
<1>5. PICK l \in Nat : l = Len(again)
  BY DEF IInv, Types
<1>6. /\ l = events[a].from /\ u = events[a].t
      /\ \A i \in 1 .. l : i \in DOMAIN cache /\ again[i] = cache[i]
  BY <1>2, <1>3, <1>5 DEF IInv, Follows
<1>7. PICK s \in Nat : s = Size(events[a])
  BY <1>4, Sized
<1>8. /\ again' \in Seq(Entries) /\ Len(again') = l + s
      /\ \A i \in 1 .. l : again'[i] = again[i]
      /\ \A i \in 1 .. s : again'[l + i] = EntryOf(events[a], i)
  BY <1>2, <1>5, <1>7 DEF Grown
<1>9. Span(events[a]) \in Int /\ u \in Int
  BY <1>4 DEF Span, EventType, IInv, Types
<1>10. \A i \in 1 .. s : l + i \in DOMAIN cache /\ cache[l + i] = EntryOf(events[a], i)
  BY <1>2, <1>6, <1>7 DEF IInv, Recorded, Holds
<1>11. ASSUME NEW i \in 1 .. l + s PROVE i \in DOMAIN cache /\ again'[i] = cache[i]
  <2>1. CASE i <= l
    BY <2>1, <1>6, <1>8
  <2>2. CASE i > l
    <3>1. PICK j \in 1 .. s : i = l + j
      <4>1. i - l \in 1 .. s /\ i = l + (i - l)
        BY <2>2
      <4> QED BY <4>1
    <3> QED BY <3>1, <1>8, <1>10
  <2> QED BY <2>1, <2>2
<1>12. ASSUME a + 1 <= Len(events)
       PROVE  events[a + 1].from = l + s /\ events[a + 1].t = u + Span(events[a])
  <2>1. a + 1 \in 1 .. Len(events) /\ a + 1 - 1 = a /\ a # 0
    BY <1>12, <1>3
  <2>2. events[a + 1].from = EndOf(a) /\ events[a + 1].t = TimeOf(a)
    BY <2>1 DEF IInv, Recorded
  <2> QED BY <2>1, <2>2, <1>6, <1>7 DEF EndOf, TimeOf
<1>13. Follows'
  BY <1>1, <1>2, <1>8, <1>11, <1>12 DEF Follows
<1>14. u' \in Int
  BY <1>2, <1>9
<1> QED BY <1>8, <1>13, <1>14

\* The anchor lays an event's likelihoods after those of the events before it.
LEMMA EvaluatedLays ==
  ASSUME IInv, phase = "pass", NEW a \in 1 .. Len(events), at.event = a, Evaluated,
         UNCHANGED <<input, rolling>>
  PROVE  /\ replayed' \in [texts : Seq(Pairs), images : Seq(Pairs)]
         /\ pass = 1 => Laid(a + 1)'
         /\ pass # 1 => replayed' = replayed
<1>1. UNCHANGED <<input, cache, t, tail, span, events>>
  BY DEF rolling
<1>2. events \in Seq(EventType) /\ Len(events) \in Nat /\ input.prompt \in Seq(Tokens)
  BY SessionAssumption DEF IInv, Types
<1>3. events[a] \in EventType
  BY <1>2
<1>4. events[a].kind \in {"text", "image"}
  BY <1>3 DEF EventType
<1>5. replayed \in [texts : Seq(Pairs), images : Seq(Pairs)]
  BY DEF IInv, Types
<1>6. Own(a) \in Seq(Pairs) /\ \A k \in 1 .. Len(Own(a)) : Own(a)[k] = <<a, k>>
  BY <1>2, OwnActionsTyped
<1>7. Passes[pass] = "anchor" <=> pass = 1
  BY DEF IInv, Control, Passes
<1>8. CASE pass # 1
  BY <1>5, <1>7, <1>8 DEF Evaluated
<1>9. CASE pass = 1 /\ events[a].kind = "text"
  <2> DEFINE w == Own(a)
             old == replayed.texts
             new == old \o w
  <2>1. replayed' = [replayed EXCEPT !.texts = new]
    BY <1>7, <1>9 DEF Evaluated, Event
  <2>2. PICK s \in Nat : s = Len(events[a].tokens) /\ Len(w) = s
    BY <1>2, <1>3, <1>9, OwnActionsTyped DEF EventType
  <2>3. PICK l \in Nat : l = Len(old)
    BY <1>5
  <2>4. old \in Seq(Pairs) /\ w \in Seq(Pairs) /\ \A k \in 1 .. s : w[k] = <<a, k>>
    BY <1>5, <1>6, <2>2
  <2> HIDE DEF w, old
  <2>5. /\ old \o w \in Seq(Pairs) /\ Len(old \o w) = Len(old) + Len(w)
        /\ \A k \in 1 .. Len(old) : (old \o w)[k] = old[k]
        /\ \A k \in 1 .. Len(w) : (old \o w)[Len(old) + k] = w[k]
    BY <2>4, SMT
  <2>6. /\ new \in Seq(Pairs) /\ Len(new) = l + s
        /\ \A k \in 1 .. l : new[k] = old[k]
        /\ \A k \in 1 .. s : new[l + k] = <<a, k>>
    BY <2>2, <2>3, <2>4, <2>5
  <2> HIDE DEF new
  <2>7. /\ replayed'.texts = new /\ replayed'.images = replayed.images
        /\ replayed' \in [texts : Seq(Pairs), images : Seq(Pairs)]
    BY <1>5, <2>1, <2>6
  <2>8. l = Spoken(a) /\ Len(replayed.images) = ImagesBefore(a) /\ \A e \in 1 .. a - 1 : Placed(e)
    BY <1>9, <2>3 DEF IInv, Cut, Laid, old
  <2>9. Spoken(a + 1) = l + s /\ ImagesBefore(a + 1) = ImagesBefore(a)
    BY <1>2, <1>9, <2>2, <2>8, SpokenSteps, ImagesAhead DEF IInv
  <2>10. \A n : ImagesBefore(n)' = ImagesBefore(n) /\ Spoken(n)' = Spoken(n)
    BY RollingStays
  <2>11. ASSUME NEW e \in 1 .. a PROVE Placed(e)'
    <3>1. CASE e = a
      <4>1. Spoken(e)' = l /\ events'[e].kind = "text" /\ Len(events'[e].tokens) = s
        BY <1>1, <1>9, <2>2, <2>8, <2>10, <3>1
      <4>2. Len(replayed'.texts) = l + s /\ \A k \in 1 .. s : replayed'.texts[l + k] = <<e, k>>
        BY <2>6, <2>7, <3>1
      <4>3. l + s <= l + s
        OBVIOUS
      <4> QED BY <4>1, <4>2, <4>3 DEF Placed
    <3>2. CASE e # a /\ events[e].kind = "text"
      <4>1. e \in 1 .. a - 1
        BY <3>2
      <4>2. PICK m \in Nat : m = Spoken(e)
        BY <2>8, <3>2, <4>1 DEF Placed
      <4>3. events[e] \in EventType
        BY <1>2, <4>1
      <4>4. PICK c \in Nat : c = Len(events[e].tokens)
        BY <4>3 DEF EventType
      <4>5. m + c <= l /\ \A k \in 1 .. c : old[m + k] = <<e, k>>
        BY <2>3, <2>8, <3>2, <4>1, <4>2, <4>4 DEF Placed, old
      <4>6. \A k \in 1 .. c : m + k \in 1 .. l
        BY <4>5
      <4>7. Len(new) = l + s /\ \A k \in 1 .. l : new[k] = old[k]
        BY <2>6
      <4>8. m + c <= Len(new)
        BY <4>5, <4>7
      <4>9. \A k \in 1 .. c : new[m + k] = <<e, k>>
        BY <4>5, <4>6, <4>7
      <4> QED BY <1>1, <2>7, <2>10, <3>2, <4>2, <4>4, <4>9, <4>8 DEF Placed
    <3>3. CASE e # a /\ events[e].kind # "text"
      <4>1. e \in 1 .. a - 1
        BY <3>3
      <4>2. ImagesBefore(e) + 1 <= Len(replayed.images)
              /\ replayed.images[ImagesBefore(e) + 1] = <<e, 1>>
        BY <2>8, <3>3, <4>1 DEF Placed
      <4> QED BY <1>1, <2>7, <2>10, <3>3, <4>2 DEF Placed
    <3> QED BY <3>1, <3>2, <3>3
  <2>12. a + 1 - 1 = a
    OBVIOUS
  <2>13. Laid(a + 1)'
    BY <2>6, <2>7, <2>8, <2>9, <2>10, <2>11, <2>12 DEF Laid
  <2> QED BY <1>9, <2>7, <2>13
<1>10. CASE pass = 1 /\ events[a].kind = "image"
  <2> DEFINE w == Own(a)
             old == replayed.images
             new == old \o w
  <2>1. replayed' = [replayed EXCEPT !.images = new]
    BY <1>7, <1>10 DEF Evaluated, Event
  <2>2. Len(w) = 1
    BY <1>2, <1>10, OwnActionsTyped
  <2>3. PICK l \in Nat : l = Len(old)
    BY <1>5
  <2>4. old \in Seq(Pairs) /\ w \in Seq(Pairs) /\ w[1] = <<a, 1>>
    BY <1>5, <1>6, <2>2
  <2> HIDE DEF w, old
  <2>5. /\ old \o w \in Seq(Pairs) /\ Len(old \o w) = Len(old) + Len(w)
        /\ \A k \in 1 .. Len(old) : (old \o w)[k] = old[k]
        /\ \A k \in 1 .. Len(w) : (old \o w)[Len(old) + k] = w[k]
    BY <2>4, SMT
  <2>6. /\ new \in Seq(Pairs) /\ Len(new) = l + 1
        /\ \A k \in 1 .. l : new[k] = old[k]
        /\ new[l + 1] = <<a, 1>>
    BY <2>2, <2>3, <2>4, <2>5
  <2> HIDE DEF new
  <2>7. /\ replayed'.images = new /\ replayed'.texts = replayed.texts
        /\ replayed' \in [texts : Seq(Pairs), images : Seq(Pairs)]
    BY <1>5, <2>1, <2>6
  <2>8. l = ImagesBefore(a) /\ Len(replayed.texts) = Spoken(a) /\ \A e \in 1 .. a - 1 : Placed(e)
    BY <1>10, <2>3 DEF IInv, Cut, Laid, old
  <2>9. Len(replayed.texts) \in Nat
    BY <1>5
  <2>10. Spoken(a + 1) = Spoken(a) /\ ImagesBefore(a + 1) = l + 1
    <3>1. Spoken(a + 1) = Spoken(a) + 0
      BY <1>10, SpokenSteps DEF IInv
    <3>2. ImagesBefore(a + 1) = ImagesBefore(a) + 1
      BY <1>2, <1>10, ImagesAhead
    <3> QED BY <2>8, <2>9, <3>1, <3>2
  <2>11. \A n : ImagesBefore(n)' = ImagesBefore(n) /\ Spoken(n)' = Spoken(n)
    BY RollingStays
  <2>12. ASSUME NEW e \in 1 .. a PROVE Placed(e)'
    <3>1. CASE e = a
      <4>1. ImagesBefore(e)' = l /\ events'[e].kind # "text"
        BY <1>1, <1>10, <2>8, <2>11, <3>1
      <4> QED BY <4>1, <2>6, <2>7, <3>1 DEF Placed
    <3>2. CASE e # a /\ events[e].kind # "text"
      <4>1. e \in 1 .. a - 1
        BY <3>2
      <4>2. e \in 1 .. Len(events)
        BY <4>1
      <4>3. PICK m \in Nat : m = ImagesBefore(e)
        BY <1>2, <4>2, ImagesAhead
      <4>4. m + 1 <= l /\ old[m + 1] = <<e, 1>>
        BY <2>3, <2>8, <3>2, <4>1, <4>3 DEF Placed, old
      <4>5. m + 1 \in 1 .. l
        BY <4>4
      <4>6. m + 1 <= Len(new) /\ new[m + 1] = <<e, 1>>
        BY <2>6, <4>4, <4>5
      <4> QED BY <1>1, <2>7, <2>11, <3>2, <4>3, <4>6 DEF Placed
    <3>3. CASE e # a /\ events[e].kind = "text"
      <4>1. e \in 1 .. a - 1
        BY <3>3
      <4>2. Placed(e)
        BY <2>8, <4>1
      <4> QED BY <1>1, <2>7, <2>11, <3>3, <4>2 DEF Placed
    <3> QED BY <3>1, <3>2, <3>3
  <2>13. a + 1 - 1 = a
    OBVIOUS
  <2>14. Laid(a + 1)'
    BY <2>6, <2>7, <2>8, <2>10, <2>11, <2>12, <2>13 DEF Laid
  <2> QED BY <1>10, <2>7, <2>14
<1> QED BY <1>4, <1>8, <1>9, <1>10

\* What a step inside a pass has to keep.
LEMMA PassGoes ==
  ASSUME IInv, phase = "pass", UNCHANGED <<input, phase, rolling, pass, offsets, anchored, shards>>,
         at' \in [event : Nat \ {0}, slice : Nat], at'.event \in 1 .. Len(events) + 1,
         again' \in Seq(Entries), u' \in Int, pending' \in Nat,
         replayed' \in [texts : Seq(Pairs), images : Seq(Pairs)],
         used' \in {Gathered, used}, full' \in {Gathered, full, "none"},
         Follows', Backward', pass = 1 => Laid(at.event)'
  PROVE  IInv'
<1>1. UNCHANGED <<cache, t, tail, span, events>>
  BY DEF rolling
<1>2. /\ Recorded' /\ Ended' /\ Fits'
      /\ input' \in [prompt : Prompts, modality : Modalities, backend : Backends,
             reference : BOOLEAN]
      /\ phase' \in Phases
      /\ cache' \in Seq(Entries) /\ t' \in Int /\ tail' \in BOOLEAN
      /\ span' \in [from : Nat, t : Int, image : BOOLEAN, left : Int, tokens : Seq(Tokens)]
      /\ events' \in Seq(EventType)
  BY ReplayStays DEF Replays
<1>3. /\ shards = PolicyOf(pass) /\ full \in {shards, "none"} /\ used = shards
      /\ shards \in {Current, Reference} /\ pass \in 1 .. 4
  BY DEF IInv, Types, Parameters, Control
<1>4. Gathered = shards
  BY <1>3 DEF Gathered
<1>5. Types'
  <2>1. pass' \in 0 .. 4 /\ offsets' \in [text : Nat, image : Nat] /\ anchored' \in Seq(Seq(Pairs))
    BY DEF IInv, Types
  <2>2. /\ shards' \in {Current, Reference} /\ full' \in {Current, Reference, "none"}
        /\ used' \in {Current, Reference}
    BY <1>3, <1>4
  <2> QED BY <1>2, <2>1, <2>2 DEF Types
<1>6. Control'
  BY <1>1, <1>3 DEF Control
<1>7. Parameters'
  BY <1>3, <1>4 DEF Parameters, InRollout, PolicyOf
<1>8. \A e : Own(e)' = Own(e)
  BY RollingStays
<1>9. Cut'
  BY <1>1, <1>8 DEF IInv, Cut, InRollout
<1> QED BY <1>2, <1>5, <1>6, <1>7, <1>9 DEF IInv

\* A span is forced as it was sampled.
LEMMA ReplayTextSteps ==
  ASSUME IInv, ReplayText
  PROVE  IInv'
<1>1. /\ phase = "pass" /\ at.event \in DOMAIN events /\ Event.kind = "text"
      /\ again' = TextReplayed(Event.tokens) /\ u' = u + Count(Event.tokens)
      /\ at' = [event |-> at.event + 1, slice |-> 0] /\ used' = Gathered
      /\ full' \in {"none", Gathered} /\ Evaluated
      /\ UNCHANGED <<input, phase, rolling, pass, pending, offsets, anchored, shards>>
  BY DEF ReplayText
<1>2. events \in Seq(EventType) /\ again \in Seq(Entries) /\ at \in [event : Nat \ {0}, slice : Nat]
  BY DEF IInv, Types
<1>3. PICK a \in 1 .. Len(events) : a = at.event
  BY <1>1, <1>2
<1>4. events[a] \in EventType /\ Event = events[a]
  BY <1>2, <1>3 DEF Event
<1>5. events[a].from = Len(again) /\ events[a].t = u
  BY <1>1, <1>2, <1>3 DEF IInv, Follows
<1>6. Grown(again, events[a], again')
  BY <1>1, <1>2, <1>4, <1>5, TextGrows
<1>7. again' \in Seq(Entries) /\ u' \in Int /\ Follows'
  <2>1. u' = u + Span(events[a]) /\ at'.event = at.event + 1
    BY <1>1, <1>4 DEF Span, Count
  <2> QED BY <1>1, <1>3, <1>6, <2>1, AdvanceFollows
<1>8. /\ replayed' \in [texts : Seq(Pairs), images : Seq(Pairs)]
      /\ pass = 1 => Laid(a + 1)'
  BY <1>1, <1>3, EvaluatedLays
<1>9. at'.event = a + 1 /\ a + 1 \in 1 .. Len(events) + 1
        /\ at' \in [event : Nat \ {0}, slice : Nat]
  BY <1>1, <1>2, <1>3
<1>10. pass = 1 => Laid(at.event)'
  BY <1>8, <1>9
<1>11. pending = 0
  BY <1>1, <1>3, <1>4 DEF IInv, Backward, InsideImage
<1>12. Backward' /\ pending' \in Nat
  BY <1>1, <1>11 DEF Backward
<1> QED BY <1>1, <1>7, <1>8, <1>9, <1>10, <1>12, PassGoes

\* An image is appended as the rollout appended it.
LEMMA AppendsFollow ==
  ASSUME IInv, phase = "pass", NEW a \in 1 .. Len(events), at.event = a, events[a].kind = "image",
         AppendReplayed, UNCHANGED <<input, rolling>>
  PROVE  /\ again' \in Seq(Entries) /\ u' \in Int /\ Follows'
         /\ at'.event = a + 1 /\ a + 1 \in 1 .. Len(events) + 1
         /\ at' \in [event : Nat \ {0}, slice : Nat]
<1>1. /\ again' = ImageAppended(again, u) /\ u' = u + 2
      /\ at' = [event |-> at.event + 1, slice |-> 0]
  BY DEF AppendReplayed
<1>2. events \in Seq(EventType) /\ again \in Seq(Entries) /\ at \in [event : Nat \ {0}, slice : Nat]
  BY DEF IInv, Types
<1>3. events[a] \in EventType
  BY <1>2
<1>4. events[a].from = Len(again) /\ events[a].t = u
  BY <1>2 DEF IInv, Follows
<1>5. Grown(again, events[a], again')
  BY <1>1, <1>2, <1>3, <1>4, ImageGrows
<1>6. u' = u + Span(events[a]) /\ at'.event = at.event + 1
  BY <1>1 DEF Span
<1>7. again' \in Seq(Entries) /\ u' \in Int /\ Follows'
  BY <1>5, <1>6, AdvanceFollows
<1> QED BY <1>1, <1>2, <1>7

\* The anchor, the reference and the text pass take an image at once.
LEMMA ReplayImageSteps ==
  ASSUME IInv, ReplayImage
  PROVE  IInv'
<1>1. /\ phase = "pass" /\ at.event \in DOMAIN events /\ Event.kind = "image"
      /\ Passes[pass] # "image" /\ AppendReplayed /\ Evaluated
      /\ used' = Gathered /\ full' = Gathered
      /\ UNCHANGED <<input, phase, rolling, pass, pending, offsets, anchored, shards>>
  BY DEF ReplayImage
<1>2. events \in Seq(EventType)
  BY DEF IInv, Types
<1>3. PICK a \in 1 .. Len(events) : a = at.event
  BY <1>1, <1>2
<1>4. events[a].kind = "image"
  BY <1>1, <1>3 DEF Event
<1>5. /\ again' \in Seq(Entries) /\ u' \in Int /\ Follows'
      /\ at'.event = a + 1 /\ a + 1 \in 1 .. Len(events) + 1
      /\ at' \in [event : Nat \ {0}, slice : Nat]
  BY <1>1, <1>3, <1>4, AppendsFollow
<1>6. /\ replayed' \in [texts : Seq(Pairs), images : Seq(Pairs)]
      /\ pass = 1 => Laid(a + 1)'
  BY <1>1, <1>3, EvaluatedLays
<1>7. pass = 1 => Laid(at.event)'
  BY <1>5, <1>6
<1>8. pending = 0
  BY <1>1 DEF IInv, Backward, InsideImage
<1>9. Backward' /\ pending' \in Nat
  BY <1>1, <1>8 DEF Backward
<1> QED BY <1>1, <1>5, <1>6, <1>7, <1>9, PassGoes

\* The images before one are fewer than all of them.
LEMMA ImagesOrdered ==
  ASSUME events \in Seq(EventType), NEW a \in 1 .. Len(events), events[a].kind = "image"
  PROVE  ImagesBefore(a) + 1 \in 1 .. ImagesOf(events)
<1>1. PICK m \in Nat : m = Len(events)
  OBVIOUS
<1>2. PICK n \in Nat : n = ImagesBefore(a) /\ ImagesBefore(a + 1) = n + 1
  <2>1. ImagesBefore(a) \in Nat /\ ImagesBefore(a + 1) = ImagesBefore(a) + 1
    BY ImagesAhead
  <2> QED BY <2>1
<1> DEFINE es == SubSeq(events, 1, a)
<1>3. es \in Seq(EventType) /\ Len(es) = a /\ \A i \in 1 .. a : es[i] = events[i]
  BY <1>1
<1>4. a + 1 - 1 = a
  OBVIOUS
<1>5. ImagesBefore(a + 1) = ImagesOf(es)
  BY <1>4 DEF ImagesBefore
<1> HIDE DEF es
<1>6. ImagesOf(es) = Cardinality(ImageSet(es, a))
  BY <1>3, ImagesCounted
<1>7. ImageSet(es, a) \subseteq ImageSet(events, m)
  BY <1>1, <1>3 DEF ImageSet
<1>8. ImageSet(events, m) \in SUBSET (1 .. m) /\ m \in Int
  BY DEF ImageSet
<1>9. IsFiniteSet(ImageSet(events, m))
  BY <1>8, Counted
<1>10. Cardinality(ImageSet(es, a)) <= Cardinality(ImageSet(events, m))
  BY <1>7, <1>9, FS_Subset
<1>11. ImagesOf(events) = Cardinality(ImageSet(events, m)) /\ ImagesOf(events) \in Nat
  BY <1>1, ImagesCounted
<1> QED BY <1>2, <1>5, <1>6, <1>10, <1>11

\* The trainer's count of slices closes each image where the policy does.
LEMMA ReplaySliceSteps ==
  ASSUME IInv, ReplaySlice
  PROVE  IInv'
<1> DEFINE done == SlicesBefore(at.event) + at.slice + 1
<1>1. /\ phase = "pass" /\ Passes[pass] = "image" /\ at.event \in DOMAIN events
      /\ Event.kind = "image" /\ at.slice * Microbatch < Steps
      /\ pending' = IF done \in Boundaries THEN 0 ELSE pending + 1
      /\ full' \in {"none", Gathered} /\ used' = Gathered /\ at' = [at EXCEPT !.slice = @ + 1]
      /\ UNCHANGED <<input, phase, rolling, pass, again, u, anchoring, shards>>
  BY DEF ReplaySlice
<1>2. /\ events \in Seq(EventType) /\ again \in Seq(Entries) /\ u \in Int /\ pending \in Nat
      /\ at \in [event : Nat \ {0}, slice : Nat]
      /\ replayed \in [texts : Seq(Pairs), images : Seq(Pairs)]
  BY DEF IInv, Types
<1>3. UNCHANGED <<cache, t, tail, span, events, replayed, offsets, anchored>>
  BY <1>1 DEF rolling, anchoring
<1>4. PICK a \in 1 .. Len(events) : a = at.event
  BY <1>1, <1>2
<1>5. PICK s \in Nat : s = at.slice
  BY <1>2
<1>6. at'.event = a /\ at'.slice = s + 1 /\ at' \in [event : Nat \ {0}, slice : Nat]
  <2>1. PICK next \in Nat : next = s + 1
    OBVIOUS
  <2>2. at' = [at EXCEPT !.slice = next]
    BY <1>1, <1>5, <2>1
  <2> QED BY <1>2, <1>4, <2>1, <2>2
<1>7. PICK q \in Nat \ {0} : q = SlicesOf(Steps) /\ s < q
  BY <1>1, <1>5, SlicesCover
<1>8. events[a].kind = "image"
  BY <1>1, <1>4 DEF Event
<1>9. s + 1 = q => done \in Boundaries
  <2>1. PICK n \in Nat : n = ImagesBefore(a)
    BY <1>2, ImagesAhead
  <2>2. n + 1 \in 1 .. ImagesOf(events)
    BY <1>2, <1>8, <2>1, ImagesOrdered
  <2>3. SlicesBefore(a) = n * q
    BY <1>7, <2>1 DEF SlicesBefore, ImagesBefore
  <2>4. (n + 1) * q = n * q + q /\ n * q \in Nat
    OBVIOUS
  <2>5. (n + 1) * q \in Boundaries
    BY <1>7, <2>2 DEF Boundaries
  <2>6. s + 1 = q => done = (n + 1) * q
    BY <1>4, <1>5, <2>3, <2>4
  <2> QED BY <2>5, <2>6
<1>10. pending' \in Nat
  BY <1>1, <1>2
<1>11. Backward'
  <2>1. CASE s + 1 = q
    <3>1. pending' = 0
      BY <1>1, <1>9, <2>1
    <3> QED BY <3>1 DEF Backward
  <2>2. CASE s + 1 # q
    <3>1. 0 < s + 1 /\ s + 1 < q
      BY <1>7, <2>2
    <3>2. SlicesOf(Steps)' = q
      BY <1>7 DEF SlicesOf
    <3>3. a <= Len(events)
      OBVIOUS
    <3> QED BY <1>1, <1>3, <1>6, <1>8, <3>1, <3>2, <3>3 DEF Backward, InsideImage
  <2> QED BY <2>1, <2>2
<1>12. Follows'
  BY <1>1, <1>3, <1>4, <1>6 DEF IInv, Follows
<1>13. pass # 1
  BY <1>1 DEF Passes
<1>14. a \in 1 .. Len(events) + 1
  BY <1>2
<1> QED BY <1>1, <1>2, <1>3, <1>6, <1>10, <1>11, <1>12, <1>13, <1>14, PassGoes

\* An image whose slices are done is appended, unless nothing comes after it.
LEMMA NextImageSteps ==
  ASSUME IInv, NextImage
  PROVE  IInv'
<1>1. /\ phase = "pass" /\ Passes[pass] = "image" /\ at.event \in DOMAIN events
      /\ Event.kind = "image" /\ ~(at.slice * Microbatch < Steps)
      /\ UNCHANGED <<input, phase, rolling, pass, pending, anchoring, shards>>
  <2>1. /\ phase = "pass" /\ Passes[pass] = "image" /\ at.event \in DOMAIN events
        /\ Event.kind = "image" /\ at.slice * Microbatch >= Steps
        /\ UNCHANGED <<input, phase, rolling, pass, pending, anchoring, shards>>
    BY DEF NextImage
  <2>2. at.slice \in Nat /\ Microbatch \in Nat /\ Steps \in Nat
    BY SessionAssumption DEF IInv, Types
  <2>3. at.slice * Microbatch \in Nat
    BY <2>2
  <2> QED BY <2>1, <2>2, <2>3
<1>2. \/ /\ at' = [event |-> Len(events) + 1, slice |-> 0] /\ UNCHANGED <<again, u, full, used>>
      \/ AppendReplayed /\ used' = Gathered /\ full' = Gathered
  BY DEF NextImage
<1>3. /\ events \in Seq(EventType) /\ again \in Seq(Entries) /\ u \in Int /\ pending \in Nat
      /\ at \in [event : Nat \ {0}, slice : Nat]
      /\ replayed \in [texts : Seq(Pairs), images : Seq(Pairs)]
  BY DEF IInv, Types
<1>4. UNCHANGED <<cache, t, tail, span, events, replayed, offsets, anchored>>
  BY <1>1 DEF rolling, anchoring
<1>5. PICK a \in 1 .. Len(events) : a = at.event
  BY <1>1, <1>3
<1>6. events[a].kind = "image"
  BY <1>1, <1>5 DEF Event
<1>7. pending = 0
  <2>1. ~(at.slice < SlicesOf(Steps))
    BY <1>1, <1>3, SlicesCover
  <2> QED BY <1>1, <2>1 DEF IInv, Backward, InsideImage
<1>8. Backward' /\ pending' \in Nat
  BY <1>1, <1>7 DEF Backward
<1>9. pass # 1
  BY <1>1 DEF Passes
<1>10. CASE at' = [event |-> Len(events) + 1, slice |-> 0] /\ UNCHANGED <<again, u, full, used>>
  <2>1. PICK m \in Nat : m = Len(events)
    BY <1>3
  <2>2. at'.event = m + 1 /\ m + 1 \in 1 .. m + 1 /\ at' \in [event : Nat \ {0}, slice : Nat]
    BY <1>10, <2>1
  <2>3. Follows'
    BY <1>4, <2>1, <2>2 DEF Follows
  <2> QED BY <1>1, <1>3, <1>4, <1>8, <1>9, <1>10, <2>1, <2>2, <2>3, PassGoes
<1>11. CASE AppendReplayed /\ used' = Gathered /\ full' = Gathered
  <2>1. /\ again' \in Seq(Entries) /\ u' \in Int /\ Follows'
        /\ at'.event = a + 1 /\ a + 1 \in 1 .. Len(events) + 1
        /\ at' \in [event : Nat \ {0}, slice : Nat]
    BY <1>1, <1>5, <1>6, <1>11, AppendsFollow
  <2> QED BY <1>1, <1>3, <1>4, <1>8, <1>9, <1>11, <2>1, PassGoes
<1> QED BY <1>2, <1>10, <1>11

\* Leaving a pass gives the shards back.
LEMMA RestoredParameters ==
  ASSUME IInv, phase = "pass", Restored
  PROVE  shards' = Current /\ full' \in {Current, "none"}
<1>1. shards = PolicyOf(pass) /\ full \in {shards, "none"}
  BY DEF IInv, Parameters
<1>2. CASE Passes[pass] = "reference"
  BY <1>2 DEF Restored
<1>3. CASE Passes[pass] # "reference"
  BY <1>1, <1>3 DEF Restored, PolicyOf
<1> QED BY <1>2, <1>3

\* A pass that ends has no loss waiting, and the anchor's has every likelihood.
LEMMA EndPassSteps ==
  ASSUME IInv, EndPass
  PROVE  IInv'
<1>1. /\ phase = "pass"
      /\ at.event > Len(events) \/ (Passes[pass] = "image" /\ ImagesOf(events) = 0)
      /\ phase' = IF Passes[pass] = "anchor" THEN "anchor"
                  ELSE IF pass < Len(Passes) THEN "between"
                  ELSE IF pending = 0 THEN "done" ELSE "raised"
      /\ at' = [event |-> 1, slice |-> 0] /\ Restored
      /\ UNCHANGED <<input, rolling, pass, again, u, pending, anchoring, used>>
  BY DEF EndPass
<1>2. /\ events \in Seq(EventType) /\ Len(events) \in Nat
      /\ at \in [event : Nat \ {0}, slice : Nat] /\ at.event \in 1 .. Len(events) + 1
      /\ pass \in 1 .. 4
  BY <1>1 DEF IInv, Types, Control
<1>3. UNCHANGED <<cache, t, tail, span, events, replayed, offsets, anchored>>
  BY <1>1 DEF rolling, anchoring
<1>4. pending = 0
  <2>1. SUFFICES ASSUME InsideImage PROVE FALSE
    BY <1>1 DEF IInv, Backward
  <2>2. PICK a \in 1 .. Len(events) : a = at.event
    BY <1>2, <2>1 DEF InsideImage
  <2>3. events[a].kind = "image" /\ ImagesOf(events) = 0
    BY <1>1, <1>2, <2>1, <2>2 DEF InsideImage
  <2>4. ImagesBefore(a) + 1 \in 1 .. ImagesOf(events)
    BY <1>2, <2>3, ImagesOrdered
  <2> QED BY <2>3, <2>4
<1>5. /\ Passes[pass] = "anchor" <=> pass = 1
      /\ Passes[pass] = "image" <=> pass = 4
      /\ Len(Passes) = 4
  BY <1>2 DEF Passes
<1>6. phase' = IF pass = 1 THEN "anchor" ELSE IF pass < 4 THEN "between" ELSE "done"
  BY <1>1, <1>2, <1>4, <1>5
<1>7. phase' \in Replays \ {"rolled"} /\ phase \in Replays
  BY <1>1, <1>6 DEF Replays
<1>8. /\ Recorded' /\ Ended' /\ Fits'
      /\ input' \in [prompt : Prompts, modality : Modalities, backend : Backends,
             reference : BOOLEAN]
      /\ phase' \in Phases
      /\ cache' \in Seq(Entries) /\ t' \in Int /\ tail' \in BOOLEAN
      /\ span' \in [from : Nat, t : Int, image : BOOLEAN, left : Int, tokens : Seq(Tokens)]
      /\ events' \in Seq(EventType)
  BY <1>1, <1>7, ReplayStays
<1>9. shards' = Current /\ full' \in {Current, "none"}
  BY <1>1, RestoredParameters
<1>10. Types'
  BY <1>1, <1>3, <1>8, <1>9 DEF IInv, Types
<1>11. Control'
  BY <1>1, <1>2, <1>3, <1>6 DEF Control
<1>12. Parameters'
  BY <1>6, <1>9 DEF Parameters, InRollout, Current, Reference
<1>13. Follows' /\ Backward'
  BY <1>6 DEF Follows, Backward
<1>14. \A n : ImagesBefore(n)' = ImagesBefore(n) /\ Spoken(n)' = Spoken(n) /\ Own(n)' = Own(n)
  BY <1>1, RollingStays
<1>15. \A e \in DOMAIN anchored' : e \in DOMAIN events' /\ anchored'[e] = Own(e)'
  BY <1>3, <1>14 DEF IInv, Cut
<1>16. Cut'
  <2>1. CASE pass = 1
    <3>1. at.event = Len(events) + 1
      BY <1>1, <1>2, <1>5, <2>1
    <3>2. Laid(Len(events) + 1) /\ offsets.text = 0 /\ offsets.image = 0 /\ Len(anchored) = 0
      BY <1>1, <2>1, <3>1 DEF IInv, Cut
    <3>3. Laid(Len(events) + 1)'
      BY <1>3, <1>14, <3>2 DEF Laid, Placed
    <3>4. Spoken(1) = 0 /\ ImagesBefore(1) = 0
      BY <1>2, SpokenSteps, ImagesAhead DEF IInv
    <3>5. Spoken(at.event)' = 0 /\ ImagesBefore(at.event)' = 0 /\ at'.event = 1
      BY <1>1, <1>14, <3>4
    <3> QED BY <1>3, <1>6, <1>15, <2>1, <3>2, <3>3, <3>5 DEF Cut, InRollout
  <2>2. CASE pass # 1
    <3>1. Len(anchored) = Len(events)
      BY <1>1, <1>2, <2>2 DEF IInv, Cut
    <3> QED BY <1>3, <1>6, <1>15, <2>2, <3>1 DEF Cut, InRollout
  <2> QED BY <2>1, <2>2
<1> QED BY <1>8, <1>10, <1>11, <1>12, <1>13, <1>16 DEF IInv

\* Cutting the likelihoods back leaves everything else alone.
LEMMA CutGoes ==
  ASSUME IInv, phase = "anchor", phase' \in {"anchor", "between"},
         UNCHANGED <<input, rolling, pass, again, u, pending, replayed, shards, full, used>>,
         at' \in [event : Nat \ {0}, slice : Nat], at'.event \in 1 .. Len(events) + 1,
         offsets' \in [text : Nat, image : Nat], anchored' \in Seq(Seq(Pairs)), Cut'
  PROVE  IInv'
<1>1. UNCHANGED <<cache, t, tail, span, events>>
  BY DEF rolling
<1>2. /\ Recorded' /\ Ended' /\ Fits'
      /\ input' \in [prompt : Prompts, modality : Modalities, backend : Backends,
             reference : BOOLEAN]
      /\ phase' \in Phases
      /\ cache' \in Seq(Entries) /\ t' \in Int /\ tail' \in BOOLEAN
      /\ span' \in [from : Nat, t : Int, image : BOOLEAN, left : Int, tokens : Seq(Tokens)]
      /\ events' \in Seq(EventType)
  BY ReplayStays DEF Replays
<1>3. Types'
  BY <1>2 DEF IInv, Types
<1>4. Control'
  BY <1>1 DEF IInv, Control
<1>5. Parameters'
  BY DEF IInv, Parameters, InRollout
<1>6. Follows' /\ Backward'
  BY DEF Follows, Backward
<1> QED BY <1>2, <1>3, <1>4, <1>5, <1>6 DEF IInv

\* What the cuts share: whose likelihoods are still to be taken back.
LEMMA CutSteps ==
  ASSUME IInv, phase = "anchor"
  PROVE  /\ events \in Seq(EventType) /\ Len(events) \in Nat
         /\ at \in [event : Nat \ {0}, slice : Nat] /\ at.event \in 1 .. Len(events) + 1
         /\ offsets \in [text : Nat, image : Nat] /\ anchored \in Seq(Seq(Pairs))
         /\ replayed \in [texts : Seq(Pairs), images : Seq(Pairs)]
         /\ Laid(Len(events) + 1) /\ Len(anchored) = at.event - 1
         /\ offsets.text = Spoken(at.event) /\ offsets.image = ImagesBefore(at.event)
         /\ \A e \in 1 .. Len(events) : Placed(e)
<1>1. /\ events \in Seq(EventType) /\ Len(events) \in Nat
      /\ at \in [event : Nat \ {0}, slice : Nat] /\ at.event \in 1 .. Len(events) + 1
      /\ offsets \in [text : Nat, image : Nat] /\ anchored \in Seq(Seq(Pairs))
      /\ replayed \in [texts : Seq(Pairs), images : Seq(Pairs)]
  BY DEF IInv, Types, Control
<1>2. /\ Laid(Len(events) + 1) /\ Len(anchored) = at.event - 1
      /\ offsets.text = Spoken(at.event) /\ offsets.image = ImagesBefore(at.event)
  BY DEF IInv, Cut
<1>3. Len(events) + 1 - 1 = Len(events)
  BY <1>1
<1> QED BY <1>1, <1>2, <1>3 DEF Laid

\* An event cut back after the others keeps the anchored events in step.
LEMMA CutOne ==
  ASSUME IInv, phase = "anchor", phase' = "anchor", NEW a \in 1 .. Len(events), at.event = a,
         anchored' = Append(anchored, Own(a)), at' = [at EXCEPT !.event = @ + 1],
         offsets' \in [text : Nat, image : Nat],
         offsets'.text = Spoken(a + 1), offsets'.image = ImagesBefore(a + 1),
         UNCHANGED <<input, rolling, pass, again, u, pending, replayed, shards, full, used>>
  PROVE  IInv'
<1>1. UNCHANGED <<cache, t, tail, span, events>>
  BY DEF rolling
<1>2. /\ events \in Seq(EventType) /\ Len(events) \in Nat
      /\ at \in [event : Nat \ {0}, slice : Nat] /\ anchored \in Seq(Seq(Pairs))
      /\ Laid(Len(events) + 1) /\ Len(anchored) = a - 1
  BY CutSteps
<1>3. Own(a) \in Seq(Pairs)
  BY <1>2, OwnActionsTyped
<1>4. /\ anchored' \in Seq(Seq(Pairs)) /\ Len(anchored') = a
      /\ \A k \in 1 .. a - 1 : anchored'[k] = anchored[k]
      /\ anchored'[a] = Own(a) /\ DOMAIN anchored' = 1 .. a /\ DOMAIN anchored = 1 .. a - 1
  BY <1>2, <1>3
<1>5. /\ at' \in [event : Nat \ {0}, slice : Nat] /\ at'.event = a + 1
      /\ a + 1 \in 1 .. Len(events) + 1
  <2>1. a \in Nat \ {0} /\ a + 1 \in Nat \ {0} /\ a + 1 \in 1 .. Len(events) + 1
    BY <1>2
  <2>2. PICK next : next = a + 1
    OBVIOUS
  <2>3. at' = [at EXCEPT !.event = next]
    BY <1>2, <2>2
  <2> QED BY <1>2, <2>1, <2>2, <2>3
<1>6. \A n : ImagesBefore(n)' = ImagesBefore(n) /\ Spoken(n)' = Spoken(n) /\ Own(n)' = Own(n)
  BY RollingStays
<1>7. Laid(Len(events) + 1)'
  BY <1>1, <1>2, <1>6 DEF Laid, Placed
<1>8. ASSUME NEW e \in DOMAIN anchored' PROVE e \in DOMAIN events' /\ anchored'[e] = Own(e)'
  <2>1. CASE e = a
    BY <1>1, <1>2, <1>4, <1>6, <2>1
  <2>2. CASE e # a
    <3>1. e \in 1 .. a - 1
      BY <1>4, <2>2
    <3>2. e \in DOMAIN events /\ anchored[e] = Own(e)
      BY <1>4, <3>1 DEF IInv, Cut
    <3> QED BY <1>1, <1>4, <1>6, <3>1, <3>2
  <2> QED BY <2>1, <2>2
<1>9. Len(anchored') = at'.event - 1
  BY <1>4, <1>5
<1>10. offsets'.text = Spoken(at.event)' /\ offsets'.image = ImagesBefore(at.event)'
  BY <1>5, <1>6
<1>11. Cut'
  BY <1>7, <1>8, <1>9, <1>10 DEF Cut, InRollout
<1> QED BY <1>4, <1>5, <1>11, CutGoes

\* A span gets its own likelihoods back.
LEMMA CutTextSteps ==
  ASSUME IInv, CutText
  PROVE  IInv'
<1>1. /\ phase = "anchor" /\ at.event \in DOMAIN events /\ Event.kind = "text"
      /\ anchored' = Append(anchored, SubSeq(replayed.texts, offsets.text + 1,
                                             offsets.text + Count(Event.tokens)))
      /\ offsets' = [offsets EXCEPT !.text = @ + Count(Event.tokens)]
      /\ at' = [at EXCEPT !.event = @ + 1]
      /\ UNCHANGED <<input, phase, rolling, pass, again, u, pending, replayed, shards, full, used>>
  BY DEF CutText
<1>2. /\ events \in Seq(EventType) /\ Len(events) \in Nat
      /\ offsets \in [text : Nat, image : Nat]
      /\ replayed \in [texts : Seq(Pairs), images : Seq(Pairs)]
      /\ offsets.text = Spoken(at.event) /\ offsets.image = ImagesBefore(at.event)
      /\ \A e \in 1 .. Len(events) : Placed(e)
  BY <1>1, CutSteps
<1>3. PICK a \in 1 .. Len(events) : a = at.event
  BY <1>1, <1>2
<1>4. events[a].kind = "text" /\ events[a] \in EventType /\ Event = events[a]
  BY <1>1, <1>2, <1>3 DEF Event
<1>5. PICK c \in Nat : c = Len(events[a].tokens)
  BY <1>4 DEF EventType
<1>6. PICK o \in Nat : o = Spoken(a) /\ o = offsets.text
  BY <1>2, <1>3
<1> DEFINE texts == replayed.texts
           own == SubSeq(texts, o + 1, o + c)
<1>7. texts \in Seq(Pairs) /\ o + c <= Len(texts) /\ \A k \in 1 .. c : texts[o + k] = <<a, k>>
  BY <1>2, <1>4, <1>5, <1>6 DEF Placed
<1> HIDE DEF texts
<1>8. own = [k \in 1 .. c |-> texts[o + k]]
  <2>1. o + c - (o + 1) + 1 = c
    OBVIOUS
  <2>2. \A k \in 1 .. c : k + (o + 1) - 1 = o + k
    OBVIOUS
  <2> QED BY <1>7, <2>1, <2>2
<1>9. own = [k \in 1 .. c |-> <<a, k>>]
  BY <1>7, <1>8
<1>10. own = Own(a)
  BY <1>4, <1>5, <1>9 DEF Own, Count
<1>11. anchored' = Append(anchored, Own(a))
  BY <1>1, <1>4, <1>5, <1>6, <1>10 DEF Count, texts
<1>12. Spoken(a + 1) = o + c /\ ImagesBefore(a + 1) = ImagesBefore(a)
  <2>1. ImagesBefore(a) \in Nat /\ ImagesBefore(a + 1) = ImagesBefore(a) + 0
    BY <1>2, <1>4, ImagesAhead
  <2>2. Spoken(a + 1) = o + c
    BY <1>4, <1>5, <1>6, SpokenSteps DEF IInv
  <2> QED BY <2>1, <2>2
<1>13. /\ offsets' \in [text : Nat, image : Nat]
       /\ offsets'.text = Spoken(a + 1) /\ offsets'.image = ImagesBefore(a + 1)
  <2>1. offsets' = [offsets EXCEPT !.text = o + c]
    BY <1>1, <1>4, <1>5, <1>6 DEF Count
  <2>2. offsets'.text = o + c /\ offsets'.image = offsets.image /\ o + c \in Nat
    BY <1>2, <2>1
  <2>3. offsets' \in [text : Nat, image : Nat]
    BY <1>2, <2>1, <2>2
  <2> QED BY <1>2, <1>3, <1>12, <2>2, <2>3
<1> QED BY <1>1, <1>3, <1>11, <1>13, CutOne

\* An image gets its own likelihoods back.
LEMMA CutImageSteps ==
  ASSUME IInv, CutImage
  PROVE  IInv'
<1>1. /\ phase = "anchor" /\ at.event \in DOMAIN events /\ Event.kind = "image"
      /\ anchored' = Append(anchored, <<replayed.images[offsets.image + 1]>>)
      /\ offsets' = [offsets EXCEPT !.image = @ + 1]
      /\ at' = [at EXCEPT !.event = @ + 1]
      /\ UNCHANGED <<input, phase, rolling, pass, again, u, pending, replayed, shards, full, used>>
  BY DEF CutImage
<1>2. /\ events \in Seq(EventType) /\ Len(events) \in Nat
      /\ offsets \in [text : Nat, image : Nat]
      /\ offsets.text = Spoken(at.event) /\ offsets.image = ImagesBefore(at.event)
      /\ \A e \in 1 .. Len(events) : Placed(e)
  BY <1>1, CutSteps
<1>3. PICK a \in 1 .. Len(events) : a = at.event
  BY <1>1, <1>2
<1>4. events[a].kind = "image"
  BY <1>1, <1>3 DEF Event
<1>5. PICK o \in Nat : o = ImagesBefore(a) /\ o = offsets.image
  BY <1>2, <1>3
<1>6. replayed.images[o + 1] = <<a, 1>>
  BY <1>2, <1>4, <1>5 DEF Placed
<1>7. Own(a) = <<<<a, 1>>>>
  <2>1. Own(a) = [k \in 1 .. 1 |-> <<a, k>>]
    BY <1>4 DEF Own
  <2> QED BY <2>1
<1>8. anchored' = Append(anchored, Own(a))
  BY <1>1, <1>5, <1>6, <1>7
<1>9. Spoken(a + 1) = Spoken(a) /\ ImagesBefore(a + 1) = o + 1
  <2>1. Spoken(a) \in Nat /\ Spoken(a + 1) = Spoken(a) + 0
    BY <1>2, <1>3, <1>4, SpokenSteps DEF IInv
  <2>2. ImagesBefore(a + 1) = o + 1
    BY <1>2, <1>4, <1>5, ImagesAhead
  <2> QED BY <2>1, <2>2
<1>10. /\ offsets' \in [text : Nat, image : Nat]
       /\ offsets'.text = Spoken(a + 1) /\ offsets'.image = ImagesBefore(a + 1)
  BY <1>1, <1>2, <1>3, <1>5, <1>9
<1> QED BY <1>1, <1>3, <1>8, <1>10, CutOne

\* The anchor consumes the whole concatenation and never raises.
LEMMA EndAnchorSteps ==
  ASSUME IInv, EndAnchor
  PROVE  IInv'
<1>1. /\ phase = "anchor" /\ at.event > Len(events)
      /\ phase' = IF offsets = [text |-> Len(replayed.texts), image |-> Len(replayed.images)]
                  THEN "between" ELSE "raised"
      /\ UNCHANGED <<input, rolling, replaying>>
  BY DEF EndAnchor
<1>2. /\ Len(events) \in Nat /\ at \in [event : Nat \ {0}, slice : Nat]
      /\ at.event \in 1 .. Len(events) + 1
      /\ offsets \in [text : Nat, image : Nat] /\ anchored \in Seq(Seq(Pairs))
      /\ Laid(Len(events) + 1) /\ Len(anchored) = at.event - 1
      /\ offsets.text = Spoken(at.event) /\ offsets.image = ImagesBefore(at.event)
  BY <1>1, CutSteps
<1>3. UNCHANGED <<cache, t, tail, span, events, pass, at, again, u, pending, replayed, offsets,
                  anchored, shards, full, used>>
  BY <1>1 DEF rolling, replaying, anchoring
<1>4. PICK n \in Nat : n = Len(events) /\ at.event = n + 1
  BY <1>1, <1>2
<1>5. offsets = [text |-> offsets.text, image |-> offsets.image]
  BY <1>2
<1>6. offsets = [text |-> Len(replayed.texts), image |-> Len(replayed.images)]
  BY <1>2, <1>4, <1>5 DEF Laid
<1>7. phase' = "between"
  BY <1>1, <1>6
<1>8. Len(anchored) = n
  BY <1>2, <1>4
<1>9. \A e : Own(e)' = Own(e)
  BY <1>1, RollingStays
<1>10. Cut'
  BY <1>3, <1>4, <1>7, <1>8, <1>9 DEF IInv, Cut, InRollout
<1> QED BY <1>1, <1>2, <1>3, <1>7, <1>10, CutGoes

\* A pass that fails gives the shards back.
LEMMA FailSteps ==
  ASSUME IInv, Fail
  PROVE  IInv'
<1>1. /\ phase = "pass" /\ phase' = "failed" /\ Restored
      /\ UNCHANGED <<input, rolling, pass, at, again, u, pending, anchoring, used>>
  BY DEF Fail
<1>2. UNCHANGED <<cache, t, tail, span, events, replayed, offsets, anchored>>
  BY <1>1 DEF rolling, anchoring
<1>3. /\ Recorded' /\ Ended' /\ Fits'
      /\ input' \in [prompt : Prompts, modality : Modalities, backend : Backends,
             reference : BOOLEAN]
      /\ phase' \in Phases
      /\ cache' \in Seq(Entries) /\ t' \in Int /\ tail' \in BOOLEAN
      /\ span' \in [from : Nat, t : Int, image : BOOLEAN, left : Int, tokens : Seq(Tokens)]
      /\ events' \in Seq(EventType)
  BY <1>1, ReplayStays DEF Replays
<1>4. shards' = Current /\ full' \in {Current, "none"}
  BY <1>1, RestoredParameters
<1>5. Types'
  BY <1>1, <1>2, <1>3, <1>4 DEF IInv, Types
<1>6. Control' /\ Follows' /\ Backward'
  BY <1>1 DEF Control, Follows, Backward
<1>7. Parameters'
  BY <1>1, <1>4 DEF Parameters, InRollout, Current, Reference
<1>8. \A e : Own(e)' = Own(e)
  BY <1>1, RollingStays
<1>9. Cut'
  BY <1>1, <1>2, <1>8 DEF IInv, Cut, InRollout
<1> QED BY <1>3, <1>5, <1>6, <1>7, <1>9 DEF IInv

\* The anchor comes first, and the others in their order.
LEMMA StartSteps ==
  ASSUME IInv, Start \/ NextPass
  PROVE  IInv'
<1>1. CASE Start
  <2>1. phase = "rolled" /\ Enter(1)
    BY <1>1 DEF Start
  <2>2. PICK q \in 1 .. 4 : q = 1 /\ Enter(q)
    BY <2>1
  <2>3. (phase = "rolled" /\ q = 1) \/ (phase = "between" /\ q > 1)
    BY <2>1, <2>2
  <2> QED BY <2>2, <2>3, EnterSteps
<1>2. CASE NextPass
  <2> DEFINE p == IF Passes[pass + 1] = "reference" /\ ~input.reference THEN pass + 2 ELSE pass + 1
  <2>1. phase = "between" /\ Enter(p)
    BY <1>2 DEF NextPass
  <2>2. pass \in 1 .. 3
    BY <2>1 DEF IInv, Control
  <2>3. p \in 1 .. 4 /\ p > 1
    <3>1. Passes[4] # "reference"
      BY DEF Passes
    <3> QED BY <2>2, <3>1
  <2>4. PICK q \in 1 .. 4 : q > 1 /\ Enter(q)
    BY <2>1, <2>3
  <2>5. phase = "between"
    BY <2>1
  <2> QED BY <2>4, <2>5, EnterSteps
<1> QED BY <1>1, <1>2

-----------------------------------------------------------------------------
(* The steps of a rollout. *)

\* Before its replay a rollout leaves the passes alone.
LEMMA RolloutGoes ==
  ASSUME IInv, phase \in {"loop", "span", "image"}, phase' \in {"loop", "span", "image", "rolled"},
         UNCHANGED <<input, replaying>>
  PROVE  /\ Control' /\ Parameters' /\ Follows' /\ Backward' /\ Cut'
         /\ input' \in [prompt : Prompts, modality : Modalities, backend : Backends,
                reference : BOOLEAN]
         /\ phase' \in Phases
         /\ pass' \in 0 .. 4 /\ at' \in [event : Nat \ {0}, slice : Nat]
         /\ again' \in Seq(Entries) /\ u' \in Int /\ pending' \in Nat
         /\ replayed' \in [texts : Seq(Pairs), images : Seq(Pairs)]
         /\ offsets' \in [text : Nat, image : Nat] /\ anchored' \in Seq(Seq(Pairs))
         /\ shards' \in {Current, Reference} /\ full' \in {Current, Reference, "none"}
         /\ used' \in {Current, Reference}
<1>1. UNCHANGED <<pass, at, again, u, pending, replayed, offsets, anchored, shards, full, used>>
  BY DEF replaying, anchoring
<1>2. Untouched /\ shards = Current /\ full = Current
  BY DEF IInv, Cut, Parameters, InRollout
<1>3. anchored \in Seq(Seq(Pairs))
  BY DEF IInv, Types
<1>4. DOMAIN anchored = {}
  BY <1>2, <1>3 DEF Untouched
<1>5. Cut'
  BY <1>1, <1>2, <1>4 DEF Cut, Untouched, InRollout
<1>6. Control' /\ Parameters' /\ Follows' /\ Backward'
  BY <1>1, <1>2 DEF Control, Parameters, InRollout, Follows, Backward
<1> QED BY <1>1, <1>5, <1>6 DEF IInv, Types, Phases

CacheGrows == \A i \in DOMAIN cache : i \in (DOMAIN cache)' /\ cache'[i] = cache[i]

\* What is recorded stays recorded while the cache grows.
LEMMA RecordKept ==
  ASSUME Types, Recorded, UNCHANGED <<input, events>>, CacheGrows
  PROVE  Recorded' /\ \A n : EndOf(n)' = EndOf(n) /\ TimeOf(n)' = TimeOf(n)
<1>1. \A n : EndOf(n)' = EndOf(n) /\ TimeOf(n)' = TimeOf(n)
  BY DEF EndOf, TimeOf, Size, Span
<1>2. \A v : Holds(v) => Holds(v)'
  BY DEF Holds, CacheGrows, Size, EntryOf
<1>3. Recorded'
  BY <1>1, <1>2 DEF Recorded, CacheGrows
<1> QED BY <1>1, <1>3

\* An event is recorded with the entries it appended.
LEMMA RecordGrows ==
  ASSUME Types, Recorded, NEW v \in EventType, input' = input, events' = Append(events, v),
         v.from = EndOf(Len(events)), v.t = TimeOf(Len(events)), CacheGrows, Holds(v)'
  PROVE  /\ Recorded' /\ events' \in Seq(EventType) /\ Len(events') = Len(events) + 1
         /\ events'[Len(events')] = v
         /\ EndOf(Len(events))' = v.from + Size(v) /\ TimeOf(Len(events))' = v.t + Span(v)
<1>1. PICK m \in Nat : m = Len(events) /\ DOMAIN events = 1 .. m
  BY DEF Types
<1>2. /\ events' \in Seq(EventType) /\ Len(events') = m + 1 /\ events'[m + 1] = v
      /\ \A e \in 1 .. m : events'[e] = events[e]
  BY <1>1 DEF Types
<1>3. ASSUME NEW n \in 0 .. m PROVE EndOf(n)' = EndOf(n) /\ TimeOf(n)' = TimeOf(n)
  <2>1. n # 0 => events'[n] = events[n]
    BY <1>2
  <2> QED BY <2>1 DEF EndOf, TimeOf, Size, Span
<1>4. \A w : Holds(w) => Holds(w)'
  BY DEF Holds, CacheGrows, Size, EntryOf
<1>5. ASSUME NEW e \in 1 .. m + 1
      PROVE  events'[e].from = EndOf(e - 1)' /\ events'[e].t = TimeOf(e - 1)' /\ Holds(events[e])'
  <2>1. e - 1 \in 0 .. m
    OBVIOUS
  <2>2. CASE e = m + 1
    <3>1. e - 1 = m
      BY <2>2
    <3> QED BY <1>1, <1>2, <1>3, <2>1, <2>2, <3>1
  <2>3. CASE e # m + 1
    <3>1. e \in 1 .. m
      BY <2>3
    <3>2. events[e].from = EndOf(e - 1) /\ events[e].t = TimeOf(e - 1) /\ Holds(events[e])
      BY <1>1, <3>1 DEF Recorded
    <3> QED BY <1>2, <1>3, <1>4, <2>1, <3>1, <3>2
  <2> QED BY <2>2, <2>3
<1>6. \A i \in 1 .. Len(input'.prompt) :
        i \in (DOMAIN cache)' /\ cache'[i] = (Prefill(input.prompt)[i])'
  BY DEF Recorded, CacheGrows
<1>7. Recorded'
  BY <1>2, <1>5, <1>6 DEF Recorded
<1>8. EndOf(m + 1)' = v.from + Size(v) /\ TimeOf(m + 1)' = v.t + Span(v)
  <2>1. m + 1 # 0
    OBVIOUS
  <2> QED BY <1>2, <2>1 DEF EndOf, TimeOf, Size, Span
<1> QED BY <1>1, <1>2, <1>7, <1>8

\* A span starts with the room its image leaves.
LEMMA NextSpanSteps ==
  ASSUME IInv, NextSpan
  PROVE  IInv'
<1>1. phase = "loop" /\ UNCHANGED <<input, cache, t, events, replaying>>
  BY DEF NextSpan
<1>2. PICK i \in BOOLEAN, f \in BOOLEAN :
        /\ i => ~tail
        /\ f <=> MaxLength - Len(cache) >= Reserve(i) + 1
        /\ IF Len(cache) >= MaxLength
             THEN phase' = "rolled" /\ UNCHANGED <<tail, span>>
             ELSE /\ phase' = "span" /\ tail' = (tail \/ ~f)
                  /\ span' = [from |-> Len(cache), t |-> t, image |-> i /\ f,
                              left |-> Room(i /\ f), tokens |-> <<>>]
  BY DEF NextSpan
<1>3. PICK l \in Nat : l = Len(cache)
  BY DEF IInv, Types
<1>4. PICK m \in Nat \ {0} : m = MaxLength
  BY SessionAssumption
<1>5. PICK r \in Nat : r = Patches + 2
  BY GridPositions
<1>6. Reserve(TRUE) = r /\ Reserve(FALSE) = 0
  <2>1. GeneratedImageContextTokens = Patches + 1 /\ Patches \in Nat
    BY GridPositions DEF GeneratedImageContextTokens
  <2> QED BY <1>5, <2>1 DEF Reserve
<1>7. l < m /\ (~tail => ImagesOf(events) < MaxImages) /\ ImagesOf(events) <= MaxImages
  BY <1>1, <1>3, <1>4 DEF IInv, Fits
<1>8. /\ phase' = "span" /\ tail' = (tail \/ ~f)
      /\ span' = [from |-> l, t |-> t, image |-> i /\ f, left |-> Room(i /\ f), tokens |-> <<>>]
  BY <1>2, <1>3, <1>4, <1>7
<1>9. PICK b \in BOOLEAN : b = (i /\ f)
  OBVIOUS
<1>10. /\ Room(b) = m - l - Reserve(b) /\ Room(b) \in Int /\ Room(b) >= 1
       /\ b => ImagesOf(events) < MaxImages
  <2>1. Room(b) = m - l - Reserve(b)
    BY <1>3, <1>4 DEF Room
  <2>2. CASE b = TRUE
    <3>1. i = TRUE /\ f = TRUE
      BY <1>9, <2>2
    <3>2. ~tail /\ m - l >= r + 1 /\ Reserve(b) = r
      BY <1>2, <1>3, <1>4, <1>6, <2>2, <3>1
    <3> QED BY <1>7, <2>1, <3>2
  <2>3. CASE b = FALSE
    <3>1. Reserve(b) = 0
      BY <1>6, <2>3
    <3> QED BY <1>7, <2>1, <2>3, <3>1
  <2> QED BY <2>2, <2>3
<1>11. /\ span'.from = l /\ span'.t = t /\ span'.image = b /\ span'.left = Room(b)
       /\ span'.tokens = <<>>
       /\ span' \in [from : Nat, t : Int, image : BOOLEAN, left : Int, tokens : Seq(Tokens)]
  <2>1. t \in Int /\ <<>> \in Seq(Tokens)
    BY DEF IInv, Types
  <2> QED BY <1>8, <1>9, <1>10, <2>1
<1>12. /\ Control' /\ Parameters' /\ Follows' /\ Backward' /\ Cut'
       /\ input' \in [prompt : Prompts, modality : Modalities, backend : Backends,
              reference : BOOLEAN]
       /\ phase' \in Phases
       /\ pass' \in 0 .. 4 /\ at' \in [event : Nat \ {0}, slice : Nat]
       /\ again' \in Seq(Entries) /\ u' \in Int /\ pending' \in Nat
       /\ replayed' \in [texts : Seq(Pairs), images : Seq(Pairs)]
       /\ offsets' \in [text : Nat, image : Nat] /\ anchored' \in Seq(Seq(Pairs))
       /\ shards' \in {Current, Reference} /\ full' \in {Current, Reference, "none"}
       /\ used' \in {Current, Reference}
  BY <1>1, <1>8, RolloutGoes
<1>13. Types'
  BY <1>1, <1>8, <1>11, <1>12 DEF IInv, Types
<1>14. CacheGrows
  BY <1>1 DEF CacheGrows
<1>15. Recorded' /\ \A n : EndOf(n)' = EndOf(n) /\ TimeOf(n)' = TimeOf(n)
  BY <1>1, <1>14, RecordKept DEF IInv
<1>16. Ended'
  <2>1. l = EndOf(Len(events)) /\ t = TimeOf(Len(events))
    BY <1>1, <1>3 DEF IInv, Ended
  <2>2. EndOf(Len(events))' = l /\ TimeOf(Len(events))' = t
    BY <1>1, <1>15, <2>1
  <2>3. Len(span'.tokens) = 0
    BY <1>11
  <2>4. Holds(SpanEvent(span.tokens))'
    BY <2>3 DEF Holds, Size, SpanEvent
  <2>5. l + 0 = l /\ t + 0 = t
    BY DEF IInv, Types
  <2> QED BY <1>1, <1>3, <1>8, <1>11, <2>2, <2>3, <2>4, <2>5 DEF Ended
<1>17. Fits'
  <2>1. Reserve(b) \in Nat
    <3>1. CASE b = TRUE
      <4>1. Reserve(b) = r
        BY <1>6, <3>1
      <4> QED BY <4>1, <1>5
    <3>2. CASE b = FALSE
      <4>1. Reserve(b) = 0
        BY <1>6, <3>2
      <4> QED BY <4>1
    <3> QED BY <3>1, <3>2
  <2>2. l + Room(b) + Reserve(b) = m
    BY <1>10, <2>1
  <2>3. Reserve(b)' = Reserve(b) /\ ImagesOf(events)' = ImagesOf(events)
    BY <1>1 DEF Reserve, GeneratedImageContextTokens, ImagesOf
  <2>4. Reserve(span.image)' = Reserve(b)
    BY <1>11, <2>3
  <2> QED BY <1>1, <1>3, <1>4, <1>7, <1>8, <1>10, <1>11, <2>2, <2>3, <2>4 DEF Fits
<1> QED BY <1>12, <1>13, <1>15, <1>16, <1>17 DEF IInv

\* A sampled token enters the span and the cache.
Entered(token, tokens, v) ==
  /\ tokens = Append(span.tokens, token) /\ v = SpanEvent(tokens)
  /\ cache' = Decoded(cache, t, token) /\ t' = t + 1

\* One token more is one entry more.
LEMMA TokenEnters ==
  ASSUME IInv, phase = "span", NEW token \in Tokens, NEW tokens, NEW v, Entered(token, tokens, v)
  PROVE  /\ v \in EventType /\ v.kind = "text" /\ v.tokens = tokens
         /\ v.from = span.from /\ v.t = span.t
         /\ tokens \in Seq(Tokens) /\ Len(tokens) = Len(span.tokens) + 1
         /\ cache' \in Seq(Entries) /\ Len(cache') = Len(cache) + 1 /\ t' \in Int
         /\ Len(cache') = v.from + Len(tokens) /\ t' = v.t + Len(tokens)
         /\ CacheGrows /\ Holds(v)'
<1>1. /\ span \in [from : Nat, t : Int, image : BOOLEAN, left : Int, tokens : Seq(Tokens)]
      /\ cache \in Seq(Entries) /\ t \in Int
  BY DEF IInv, Types
<1>2. PICK l \in Nat : l = Len(cache) /\ DOMAIN cache = 1 .. l
  BY <1>1
<1>3. PICK n \in Nat : n = Len(span.tokens) /\ DOMAIN span.tokens = 1 .. n
  BY <1>1
<1>4. l = span.from + n /\ t = span.t + n /\ Holds(SpanEvent(span.tokens))
  BY <1>2, <1>3 DEF IInv, Ended
<1>5. /\ tokens \in Seq(Tokens) /\ Len(tokens) = n + 1 /\ tokens[n + 1] = token
      /\ \A i \in 1 .. n : tokens[i] = span.tokens[i]
  BY <1>1, <1>3 DEF Entered
<1>6. v \in EventType /\ v.kind = "text" /\ v.tokens = tokens /\ v.from = span.from /\ v.t = span.t
  BY <1>1, <1>5 DEF Entered, EventType, SpanEvent
<1>7. v.from \in Nat /\ v.t \in Int
  BY <1>1, <1>6
<1>8. l = v.from + n /\ t = v.t + n
  BY <1>4, <1>6
<1>9. Size(v) = n + 1
  BY <1>5, <1>6 DEF Size
<1>10. EntryOf(v, n + 1) = Entry(token, t + 1, 0, 0, l + 1)
  <2>1. v.t + (n + 1) = t + 1 /\ v.from + (n + 1) = l + 1
    BY <1>7, <1>8
  <2> QED BY <1>5, <1>6, <2>1 DEF EntryOf
<1>11. EntryOf(v, n + 1) \in Entries
  BY <1>6, <1>9, EntryTyped
<1>12. PICK e \in Entries : e = EntryOf(v, n + 1)
  BY <1>11
<1>13. cache' = Append(cache, e)
  BY <1>2, <1>10, <1>12 DEF Entered, Decoded
<1>14. /\ cache' \in Seq(Entries) /\ Len(cache') = l + 1 /\ cache'[l + 1] = e
       /\ DOMAIN cache' = 1 .. l + 1
       /\ \A i \in 1 .. l : cache'[i] = cache[i]
  BY <1>1, <1>2, <1>12, <1>13
<1>15. CacheGrows
  BY <1>2, <1>14 DEF CacheGrows
<1>16. ASSUME NEW i \in 1 .. n + 1
       PROVE  v.from + i \in DOMAIN cache' /\ cache'[v.from + i] = EntryOf(v, i)
  <2>1. v.from \in Nat /\ v.from + i \in 1 .. l + 1
    BY <1>7, <1>8
  <2>2. CASE i = n + 1
    <3>1. v.from + i = l + 1
      BY <1>7, <1>8, <2>2
    <3> QED BY <1>12, <1>14, <2>1, <2>2, <3>1
  <2>3. CASE i # n + 1
    <3>1. i \in 1 .. n /\ v.from + i \in 1 .. l
      BY <1>7, <1>8, <2>3
    <3>2. Size(SpanEvent(span.tokens)) = n
      BY <1>3 DEF Size, SpanEvent
    <3>3. cache[v.from + i] = EntryOf(SpanEvent(span.tokens), i)
      BY <1>4, <1>6, <3>1, <3>2 DEF Holds, SpanEvent
    <3>4. EntryOf(SpanEvent(span.tokens), i) = EntryOf(v, i)
      BY <1>5, <1>6, <3>1 DEF EntryOf, SpanEvent
    <3> QED BY <1>14, <2>1, <3>1, <3>3, <3>4
  <2> QED BY <2>2, <2>3
<1>17. Holds(v)'
  BY <1>9, <1>16 DEF Holds, Size, EntryOf
<1>18. l + 1 = v.from + (n + 1) /\ t' = v.t + (n + 1) /\ t' \in Int
  <2>1. t' = t + 1
    BY DEF Entered
  <2> QED BY <1>7, <1>8, <2>1
<1> QED BY <1>2, <1>3, <1>5, <1>6, <1>14, <1>15, <1>17, <1>18

\* A token that ends its span leaves room for the image it announces.
LEMMA SampleSteps ==
  ASSUME IInv, Sample
  PROVE  IInv'
<1>1. PICK token \in {"word"} \union Stops :
        LET tokens == Append(span.tokens, token)
            over == token \in Stops \/ span.left = 1
            full2 == Len(cache) + 1 >= MaxLength
        IN  /\ cache' = Decoded(cache, t, token) /\ t' = t + 1
            /\ span' = [span EXCEPT !.tokens = tokens, !.left = @ - 1]
            /\ events' = IF over THEN Append(events, SpanEvent(tokens)) ELSE events
            /\ phase' = IF ~over THEN "span"
                        ELSE IF token = "img" THEN "image"
                        ELSE IF token = "eos" \/ ~span.image \/ full2 THEN "rolled"
                        ELSE "loop"
            /\ tail' = (tail \/ phase' = "loop")
  BY Zenon DEF Sample
<1>2. phase = "span" /\ UNCHANGED <<input, replaying>>
  BY DEF Sample
<1> DEFINE over == token \in Stops \/ span.left = 1
<1>3. PICK tokens : tokens = Append(span.tokens, token)
  OBVIOUS
<1>4. PICK v : v = SpanEvent(tokens)
  OBVIOUS
<1>5. /\ cache' = Decoded(cache, t, token) /\ t' = t + 1
      /\ span' = [span EXCEPT !.tokens = tokens, !.left = @ - 1]
      /\ events' = IF over THEN Append(events, v) ELSE events
      /\ phase' = IF ~over THEN "span"
                  ELSE IF token = "img" THEN "image"
                  ELSE IF token = "eos" \/ ~span.image \/ Len(cache) + 1 >= MaxLength THEN "rolled"
                  ELSE "loop"
      /\ tail' = (tail \/ phase' = "loop")
  BY <1>1, <1>3, <1>4, Zenon
<1>6. token \in Tokens /\ (token = "img" => span.image)
  BY DEF Stops, Tokens
<1>7. /\ v \in EventType /\ v.kind = "text" /\ v.tokens = tokens
      /\ v.from = span.from /\ v.t = span.t
      /\ tokens \in Seq(Tokens) /\ Len(tokens) = Len(span.tokens) + 1
      /\ cache' \in Seq(Entries) /\ Len(cache') = Len(cache) + 1 /\ t' \in Int
      /\ Len(cache') = v.from + Len(tokens) /\ t' = v.t + Len(tokens)
      /\ CacheGrows /\ Holds(v)'
  <2>1. Entered(token, tokens, v)
    BY <1>3, <1>4, <1>5 DEF Entered
  <2> QED BY <1>2, <1>6, <2>1, TokenEnters
<1> HIDE DEF over
<1>8. /\ span \in [from : Nat, t : Int, image : BOOLEAN, left : Int, tokens : Seq(Tokens)]
      /\ events \in Seq(EventType) /\ tail \in BOOLEAN
      /\ span.from = EndOf(Len(events)) /\ span.t = TimeOf(Len(events))
  BY <1>2 DEF IInv, Types, Ended
<1>9. PICK l \in Nat : l = Len(cache)
  BY DEF IInv, Types
<1>10. PICK m \in Nat \ {0} : m = MaxLength
  BY SessionAssumption
<1>11. PICK left \in Int : left = span.left
  BY <1>8
<1>12. PICK r \in Nat : r = Patches + 2
  BY GridPositions
<1>13. Reserve(TRUE) = r /\ Reserve(FALSE) = 0
  <2>1. GeneratedImageContextTokens = Patches + 1 /\ Patches \in Nat
    BY GridPositions DEF GeneratedImageContextTokens
  <2> QED BY <1>12, <2>1 DEF Reserve
<1>14. PICK w \in Nat : w = Reserve(span.image) /\ (span.image => w = r)
  <2>1. CASE span.image = TRUE
    BY <1>13, <2>1
  <2>2. CASE span.image = FALSE
    BY <1>13, <2>2
  <2> QED BY <1>8, <2>1, <2>2
<1>15. left >= 1 /\ l + left + w = m /\ (span.image => ImagesOf(events) < MaxImages)
       /\ ImagesOf(events) <= MaxImages
  BY <1>2, <1>9, <1>10, <1>11, <1>14 DEF IInv, Fits
<1>16. /\ span'.from = span.from /\ span'.t = span.t /\ span'.image = span.image
       /\ span'.left = left - 1 /\ span'.tokens = tokens
       /\ span' \in [from : Nat, t : Int, image : BOOLEAN, left : Int, tokens : Seq(Tokens)]
  <2>1. PICK rest \in Int : rest = span.left - 1
    BY <1>8
  <2>2. span' = [span EXCEPT !.tokens = tokens, !.left = rest]
    BY <1>5, <2>1
  <2>3. rest = left - 1
    BY <1>11, <2>1
  <2> QED BY <1>7, <1>8, <2>2, <2>3
<1>17. phase' \in {"loop", "span", "image", "rolled"} /\ tail' \in BOOLEAN
  BY <1>5, <1>8
<1>18. /\ Control' /\ Parameters' /\ Follows' /\ Backward' /\ Cut'
       /\ input' \in [prompt : Prompts, modality : Modalities, backend : Backends,
              reference : BOOLEAN]
       /\ phase' \in Phases
       /\ pass' \in 0 .. 4 /\ at' \in [event : Nat \ {0}, slice : Nat]
       /\ again' \in Seq(Entries) /\ u' \in Int /\ pending' \in Nat
       /\ replayed' \in [texts : Seq(Pairs), images : Seq(Pairs)]
       /\ offsets' \in [text : Nat, image : Nat] /\ anchored' \in Seq(Seq(Pairs))
       /\ shards' \in {Current, Reference} /\ full' \in {Current, Reference, "none"}
       /\ used' \in {Current, Reference}
  BY <1>2, <1>17, RolloutGoes
<1>19. Types /\ Recorded /\ UNCHANGED input
  BY <1>2 DEF IInv
<1>20. Reserve(span.image)' = w
  <2>1. Reserve(span.image)' = IF span'.image THEN GeneratedImageContextTokens + 1 ELSE 0
    BY DEF Reserve, GeneratedImageContextTokens
  <2> QED BY <1>14, <1>16, <2>1 DEF Reserve
<1>21. l + 1 = Len(cache') /\ l + 1 <= m
  BY <1>7, <1>9, <1>15
<1>22. CASE ~over
  <2>1. phase' = "span" /\ UNCHANGED events /\ left # 1
    BY <1>5, <1>11, <1>22 DEF over
  <2>2. Recorded' /\ \A n : EndOf(n)' = EndOf(n) /\ TimeOf(n)' = TimeOf(n)
    BY <1>7, <1>19, <2>1, RecordKept
  <2>3. Holds(SpanEvent(span.tokens))'
    <3>1. SpanEvent(span.tokens)' = v
      BY <1>4, <1>16 DEF SpanEvent
    <3> QED BY <1>7, <3>1 DEF Holds, Size, EntryOf, SpanEvent
  <2>4. Ended'
    <3>1. EndOf(Len(events))' = span.from /\ TimeOf(Len(events))' = span.t
      BY <1>8, <2>1, <2>2
    <3> QED BY <1>7, <1>16, <2>1, <2>3, <3>1 DEF Ended
  <2>5. ImagesOf(events)' = ImagesOf(events)
    BY <2>1 DEF ImagesOf
  <2>6. left - 1 >= 1 /\ l + 1 + (left - 1) + w = m
    BY <1>15, <2>1
  <2>7. Fits'
    BY <1>10, <1>15, <1>16, <1>20, <1>21, <2>1, <2>5, <2>6 DEF Fits
  <2>8. Types'
    BY <1>7, <1>8, <1>16, <1>17, <1>18, <2>1 DEF Types
  <2> QED BY <1>18, <2>2, <2>4, <2>7, <2>8 DEF IInv
<1>23. CASE over
  <2>1. events' = Append(events, v) /\ phase' \in {"image", "rolled", "loop"}
    BY <1>5, <1>23
  <2>2. /\ Recorded' /\ events' \in Seq(EventType) /\ Len(events') = Len(events) + 1
        /\ events'[Len(events')] = v
        /\ EndOf(Len(events))' = v.from + Size(v) /\ TimeOf(Len(events))' = v.t + Span(v)
    <3>1. v \in EventType /\ v.from = EndOf(Len(events)) /\ v.t = TimeOf(Len(events))
      BY <1>7, <1>8
    <3>2. input' = input
      BY <1>19
    <3> QED BY <1>7, <1>19, <2>1, <3>1, <3>2, RecordGrows
  <2>3. Ended'
    <3>1. Size(v) = Len(tokens) /\ Span(v) = Len(tokens)
      BY <1>7 DEF Size, Span
    <3> QED BY <1>7, <2>1, <2>2, <3>1 DEF Ended
  <2>4. ImagesOf(events)' = ImagesOf(events)
    <3>1. /\ ImagesOf(events) \in Nat
          /\ ImagesOf(Append(events, v)) = ImagesOf(events) + (IF v.kind = "image" THEN 1 ELSE 0)
      BY <1>7, <1>8, ImagesAppended
    <3>2. ImagesOf(events)' = ImagesOf(Append(events, v))
      BY <2>1 DEF ImagesOf
    <3>3. (IF v.kind = "image" THEN 1 ELSE 0) = 0
      BY <1>7
    <3> QED BY <3>1, <3>2, <3>3
  <2>5. Len(events) \in Nat
    BY <1>8
  <2>6. phase' = "image" => l + 1 + r <= m /\ ImagesOf(events) < MaxImages
    <3>1. phase' = "image" => span.image
      BY <1>5, <1>6, <1>23
    <3> QED BY <1>14, <1>15, <3>1
  <2>7. phase' = "loop" => l + 1 < m /\ tail' = TRUE
    <3>1. SUFFICES ASSUME phase' = "loop" PROVE ~(l + 1 >= m) /\ tail' = TRUE
      OBVIOUS
    <3> QED BY <1>5, <1>8, <1>9, <1>10, <1>23, <3>1
  <2>8. phase' = "image" => l + 1 + Patches + 2 <= m
    <3>1. l + 1 + r = l + 1 + Patches + 2
      BY <1>12, GridPositions
    <3> QED BY <2>6, <3>1
  <2>9. Fits'
    <3>1. Len(events') > 0 /\ events'[Len(events')].kind = "text"
      BY <1>7, <2>2, <2>5
    <3>2. Patches' = Patches /\ phase' # "raised" /\ phase' # "span"
      BY <2>1 DEF Patches
    <3> QED BY <1>10, <1>15, <1>21, <2>4, <2>6, <2>7, <2>8, <3>1, <3>2 DEF Fits
  <2>10. Types'
    BY <1>7, <1>16, <1>17, <1>18, <2>2 DEF Types
  <2> QED BY <1>18, <2>2, <2>3, <2>9, <2>10 DEF IInv
<1> QED BY <1>22, <1>23

\* An image takes its own room and leaves a token's after it.
LEMMA SampleImageSteps ==
  ASSUME IInv, SampleImage
  PROVE  IInv'
<1>1. PICK v : v = [kind |-> "image", tokens |-> <<>>, from |-> Len(cache), t |-> t]
  OBVIOUS
<1>2. /\ phase = "image" /\ events' = Append(events, v)
      /\ cache' = ImageAppended(cache, t) /\ t' = t + 2
      /\ phase' = (IF Len(cache') > MaxLength THEN "raised" ELSE "loop")
      /\ tail' = (tail \/ ImagesOf(events') >= MaxImages)
      /\ UNCHANGED <<input, span, replaying>>
  BY <1>1 DEF SampleImage
<1>3. /\ cache \in Seq(Entries) /\ t \in Int /\ tail \in BOOLEAN /\ events \in Seq(EventType)
      /\ span \in [from : Nat, t : Int, image : BOOLEAN, left : Int, tokens : Seq(Tokens)]
      /\ Types /\ Recorded
  BY DEF IInv, Types
<1>4. v \in EventType /\ v.kind = "image" /\ v.from = Len(cache) /\ v.t = t
  BY <1>1, <1>3 DEF EventType
<1>5. PICK l \in Nat : l = Len(cache) /\ DOMAIN cache = 1 .. l
  BY <1>3
<1>6. PICK m \in Nat \ {0} : m = MaxLength
  BY SessionAssumption
<1>7. PICK n \in Nat : n = Patches
  BY GridPositions
<1>8. l = EndOf(Len(events)) /\ t = TimeOf(Len(events))
  BY <1>2, <1>5 DEF IInv, Ended
<1>9. l + n + 2 <= m /\ ImagesOf(events) < MaxImages
  BY <1>2, <1>5, <1>6, <1>7 DEF IInv, Fits
<1>10. Grown(cache, v, cache')
  <2>1. Grown(cache, v, ImageAppended(cache, v.t))
    BY <1>3, <1>4, ImageGrows
  <2> QED BY <1>2, <1>4, <2>1
<1>11. Size(v) = n + 1 /\ Span(v) = 2
  BY <1>4, <1>7 DEF Size, Span
<1>12. /\ cache' \in Seq(Entries) /\ Len(cache') = l + (n + 1) /\ DOMAIN cache' = 1 .. l + (n + 1)
       /\ \A i \in 1 .. l : cache'[i] = cache[i]
       /\ \A i \in 1 .. n + 1 : cache'[l + i] = EntryOf(v, i)
  BY <1>5, <1>10, <1>11 DEF Grown
<1>13. CacheGrows
  BY <1>5, <1>12 DEF CacheGrows
<1>14. Holds(v)'
  <2>1. ASSUME NEW i \in 1 .. n + 1
        PROVE  v.from + i \in DOMAIN cache' /\ cache'[v.from + i] = EntryOf(v, i)
    <3>1. v.from + i = l + i /\ l + i \in 1 .. l + (n + 1)
      BY <1>4, <1>5
    <3> QED BY <1>12, <3>1
  <2> QED BY <1>11, <2>1 DEF Holds, Size, EntryOf
<1>15. /\ Recorded' /\ events' \in Seq(EventType) /\ Len(events') = Len(events) + 1
       /\ events'[Len(events')] = v
       /\ EndOf(Len(events))' = v.from + Size(v) /\ TimeOf(Len(events))' = v.t + Span(v)
  <2>1. v.from = EndOf(Len(events)) /\ v.t = TimeOf(Len(events))
    BY <1>4, <1>5, <1>8
  <2>2. input' = input
    BY <1>2
  <2> QED BY <1>2, <1>3, <1>4, <1>13, <1>14, <2>1, <2>2, RecordGrows
<1>16. Len(cache') < m /\ phase' = "loop"
  <2>1. l + (n + 1) < m
    BY <1>9
  <2> QED BY <1>2, <1>6, <1>12, <2>1
<1>17. /\ Control' /\ Parameters' /\ Follows' /\ Backward' /\ Cut'
       /\ input' \in [prompt : Prompts, modality : Modalities, backend : Backends,
              reference : BOOLEAN]
       /\ phase' \in Phases
       /\ pass' \in 0 .. 4 /\ at' \in [event : Nat \ {0}, slice : Nat]
       /\ again' \in Seq(Entries) /\ u' \in Int /\ pending' \in Nat
       /\ replayed' \in [texts : Seq(Pairs), images : Seq(Pairs)]
       /\ offsets' \in [text : Nat, image : Nat] /\ anchored' \in Seq(Seq(Pairs))
       /\ shards' \in {Current, Reference} /\ full' \in {Current, Reference, "none"}
       /\ used' \in {Current, Reference}
  BY <1>2, <1>16, RolloutGoes
<1>18. Ended'
  <2>1. Len(cache') = v.from + Size(v) /\ t' = v.t + Span(v)
    BY <1>2, <1>4, <1>5, <1>11, <1>12
  <2> QED BY <1>15, <1>16, <2>1 DEF Ended
<1>19. ImagesOf(events)' = ImagesOf(events) + 1 /\ ImagesOf(events) \in Nat
  <2>1. /\ ImagesOf(events) \in Nat
        /\ ImagesOf(Append(events, v)) = ImagesOf(events) + (IF v.kind = "image" THEN 1 ELSE 0)
    BY <1>3, <1>4, ImagesAppended
  <2>2. ImagesOf(events)' = ImagesOf(Append(events, v))
    BY <1>2 DEF ImagesOf
  <2> QED BY <1>4, <2>1, <2>2
<1>20. Fits'
  <2>1. MaxImages \in Nat
    BY SessionAssumption
  <2>2. tail' = (tail \/ ImagesOf(events)' >= MaxImages)
    BY <1>2 DEF ImagesOf
  <2>3. ImagesOf(events)' >= MaxImages => tail'
    BY <2>2, Zenon
  <2>4. ImagesOf(events)' <= MaxImages /\ ImagesOf(events)' \in Nat
    BY <1>9, <1>19, <2>1
  <2>5. ImagesOf(events)' >= MaxImages \/ ImagesOf(events)' < MaxImages
    BY <2>1, <2>4
  <2>6. ImagesOf(events)' <= MaxImages /\ (~tail' => ImagesOf(events)' < MaxImages)
    BY <2>3, <2>4, <2>5
  <2>7. Len(cache') \in Nat
    BY <1>12
  <2> QED BY <1>6, <1>16, <2>6, <2>7 DEF Fits
<1>21. Types'
  <2>1. t' \in Int /\ tail' \in BOOLEAN
    BY <1>2, <1>3
  <2> QED BY <1>2, <1>3, <1>12, <1>15, <1>17, <2>1 DEF Types
<1> QED BY <1>15, <1>17, <1>18, <1>20, <1>21 DEF IInv

-----------------------------------------------------------------------------
(* The theorems. *)

\* A session begins with the prompt alone.
LEMMA InitHolds ==
  ASSUME Init
  PROVE  IInv
<1>1. /\ input \in [prompt : Prompts, modality : Modalities, backend : Backends,
             reference : BOOLEAN]
      /\ phase = IF Len(input.prompt) >= MaxLength THEN "raised" ELSE "loop"
      /\ cache = Prefill(input.prompt) /\ t = Last(cache).t
      /\ tail = (input.modality = "ti2t" \/ MaxImages = 0)
      /\ span = NoSpan /\ events = <<>>
      /\ pass = 0 /\ at = [event |-> 1, slice |-> 0] /\ again = <<>> /\ u = 0 /\ pending = 0
      /\ replayed = [texts |-> <<>>, images |-> <<>>] /\ offsets = [text |-> 0, image |-> 0]
      /\ anchored = <<>>
      /\ shards = Current /\ full = Current /\ used = Current
  BY DEF Init
<1>2. input.prompt \in Seq(Tokens) /\ input.prompt # <<>>
  BY <1>1, SessionAssumption
<1>3. cache \in Seq(Entries) /\ Len(cache) = Len(input.prompt) /\ Len(cache) \in Nat
  BY <1>1, <1>2, Prefilled
<1>4. t \in Int
  <2>1. Len(cache) \in 1 .. Len(cache)
    BY <1>2, <1>3
  <2>2. cache[Len(cache)] \in Entries
    BY <1>3, <2>1
  <2> QED BY <1>1, <2>2 DEF Last, Entries
<1>5. PICK m \in Nat \ {0} : m = MaxLength
  BY SessionAssumption
<1>6. ImagesOf(events) = 0 /\ Len(events) = 0 /\ events \in Seq(EventType)
  <2>1. DOMAIN events = {}
    BY <1>1
  <2>2. {i \in DOMAIN events : events[i].kind = "image"} = {}
    BY <2>1
  <2>3. ImagesOf(events) = Cardinality({})
    BY <2>2 DEF ImagesOf
  <2> QED BY <1>1, <2>3, FS_EmptySet
<1>7. Types
  <2>1. span \in [from : Nat, t : Int, image : BOOLEAN, left : Int, tokens : Seq(Tokens)]
    BY <1>1 DEF NoSpan
  <2>2. replayed \in [texts : Seq(Pairs), images : Seq(Pairs)] /\ anchored \in Seq(Seq(Pairs))
    BY <1>1
  <2>3. phase \in Phases /\ tail \in BOOLEAN
    BY <1>1 DEF Phases
  <2>4. again \in Seq(Entries)
    BY <1>1
  <2> QED BY <1>1, <1>3, <1>4, <1>6, <2>1, <2>2, <2>3, <2>4 DEF Types
<1>8. Recorded
  BY <1>1, <1>3, <1>6 DEF Recorded
<1>9. Ended
  BY <1>1, <1>3, <1>6 DEF Ended, EndOf, TimeOf
<1>10. Control /\ Parameters /\ Follows /\ Backward
  BY <1>1 DEF Control, Parameters, InRollout, Follows, Backward
<1>11. Fits
  <2>1. MaxImages \in Nat
    BY SessionAssumption
  <2>2. ~tail => 0 < MaxImages
    <3>1. MaxImages = 0 => tail
      BY <1>1, Zenon
    <3>2. MaxImages # 0 => 0 < MaxImages
      BY <2>1
    <3> QED BY <3>1, <3>2
  <2> QED BY <1>1, <1>3, <1>5, <1>6, <2>1, <2>2 DEF Fits
<1>12. Cut
  <2>1. Untouched /\ DOMAIN anchored = {}
    BY <1>1 DEF Untouched
  <2> QED BY <1>1, <2>1 DEF Cut, InRollout
<1> QED BY <1>7, <1>8, <1>9, <1>10, <1>11, <1>12 DEF IInv

\* Nothing moves while the session stands still.
LEMMA StutterHolds ==
  ASSUME IInv, UNCHANGED vars
  PROVE  IInv'
<1>1. UNCHANGED <<input, phase, cache, t, tail, span, events, pass, at, again, u, pending,
                  replayed, offsets, anchored, shards, full, used>>
  BY DEF vars, rolling, replaying, anchoring
<1>2. UNCHANGED <<input, rolling>>
  BY <1>1 DEF rolling
<1>3. /\ \A n : EndOf(n)' = EndOf(n) /\ TimeOf(n)' = TimeOf(n)
      /\ \A n : ImagesBefore(n)' = ImagesBefore(n) /\ Spoken(n)' = Spoken(n)
      /\ Recorded' = Recorded /\ ImagesOf(events)' = ImagesOf(events)
      /\ \A e : Own(e)' = Own(e)
  BY <1>2, RollingStays
<1>4. Types' /\ Recorded' /\ Control' /\ Parameters' /\ Follows' /\ Backward'
  BY <1>1, <1>3
     DEF IInv, Types, Control, Parameters, InRollout, PolicyOf, Follows, Backward, InsideImage
<1>5. Ended' /\ Fits'
  <2>1. Holds(SpanEvent(span.tokens))' = Holds(SpanEvent(span.tokens))
    BY <1>1 DEF Holds, SpanEvent, Size, EntryOf
  <2>2. Reserve(span.image)' = Reserve(span.image)
    BY <1>1 DEF Reserve, GeneratedImageContextTokens
  <2>3. EndOf(Len(events))' = EndOf(Len(events)) /\ TimeOf(Len(events))' = TimeOf(Len(events))
    BY <1>1, <1>3
  <2>4. Ended'
    BY <1>1, <2>1, <2>3 DEF IInv, Ended
  <2>5. Fits'
    BY <1>1, <1>3, <2>2 DEF IInv, Fits
  <2> QED BY <2>4, <2>5
<1>6. Cut'
  <2>1. \A n : Laid(n) => Laid(n)'
    BY <1>1, <1>3 DEF Laid, Placed
  <2>2. pass = 1 /\ phase = "pass" => Laid(at.event)'
    BY <1>1, <2>1 DEF IInv, Cut
  <2>3. phase = "anchor" => Laid(Len(events) + 1)'
    BY <1>1, <2>1 DEF IInv, Cut
  <2>4. Spoken(at.event)' = Spoken(at.event) /\ ImagesBefore(at.event)' = ImagesBefore(at.event)
    BY <1>1, <1>3
  <2> QED BY <1>1, <1>3, <2>2, <2>3, <2>4 DEF IInv, Cut, InRollout, Untouched
<1> QED BY <1>4, <1>5, <1>6 DEF IInv

\* Every step of a rollout and of its passes keeps the invariant.
LEMMA NextHolds ==
  ASSUME IInv, [Next]_vars
  PROVE  IInv'
BY NextSpanSteps, SampleSteps, SampleImageSteps, StartSteps, ReplayTextSteps, ReplayImageSteps,
   ReplaySliceSteps, NextImageSteps, EndPassSteps, CutTextSteps, CutImageSteps, EndAnchorSteps,
   FailSteps, StutterHolds DEF Next

\* The inductive invariant.
THEOREM SessionInvariant == Spec => []IInv
BY InitHolds, NextHolds, PTL DEF Spec

\* Type correctness.
THEOREM SessionTypeOK == Spec => []TypeOK
<1>1. ASSUME IInv PROVE TypeOK
  <2>1. Len(Passes) = 4
    BY DEF Passes
  <2> QED BY <1>1, <2>1 DEF IInv, Types, TypeOK
<1> QED BY <1>1, SessionInvariant, PTL

\* The invariant bounds the context.
LEMMA InvariantFits ==
  ASSUME IInv
  PROVE  StaysInContext
<1>1. /\ phase \in Phases /\ Len(cache) \in Nat /\ Len(input.prompt) \in Nat
      /\ MaxLength \in Nat
  <2>1. input.prompt \in Seq(Tokens)
    BY SessionAssumption DEF IInv, Types
  <2>2. phase \in Phases /\ cache \in Seq(Entries)
    BY DEF IInv, Types
  <2>3. Len(cache) \in Nat /\ Len(input.prompt) \in Nat
    BY <2>1, <2>2
  <2> QED BY <2>2, <2>3, SessionAssumption
<1>2. phase = "rolled" => Last(events).kind = "text"
  BY DEF IInv, Fits, Last
<1> QED BY <1>1, <1>2 DEF IInv, Fits, StaysInContext

\* A rollout stays in its context: the room NextSpan reserves before <img> is what an image takes.
THEOREM SessionStaysInContext == Spec => []StaysInContext
BY InvariantFits, SessionInvariant, PTL

\* The invariant makes a replay the rollout again.
LEMMA InvariantReplays ==
  ASSUME IInv
  PROVE  ReplayMatchesRollout
<1>1. SameContext
  <2>1. SUFFICES ASSUME phase = "pass", at.event \in DOMAIN events
                 PROVE  again = SubSeq(cache, 1, Event.from) /\ u = Event.t
    BY DEF SameContext
  <2>2. /\ cache \in Seq(Entries) /\ again \in Seq(Entries) /\ events \in Seq(EventType)
    BY DEF IInv, Types
  <2>3. at.event \in 1 .. Len(events) /\ at.event <= Len(events)
    BY <2>1, <2>2
  <2>4. /\ Len(again) = Event.from /\ u = Event.t
        /\ \A i \in 1 .. Len(again) : i \in DOMAIN cache /\ again[i] = cache[i]
    BY <2>1, <2>3 DEF IInv, Follows, Event
  <2>5. PICK n \in Nat : n = Len(again)
    BY <2>2
  <2>6. /\ \A i \in 1 .. n : cache[i] \in Entries
        /\ SubSeq(cache, 1, n) = [i \in 1 .. n |-> cache[i]]
    <3>1. \A i \in 1 .. n : i \in 1 .. Len(cache) /\ 1 + i - 1 = i
      BY <2>2, <2>4, <2>5
    <3> QED BY <2>2, <2>5, <3>1
  <2>7. again = [i \in 1 .. n |-> again[i]]
    BY <2>2, <2>5
  <2>8. again = [i \in 1 .. n |-> cache[i]]
    BY <2>4, <2>5, <2>7
  <2> QED BY <2>4, <2>5, <2>6, <2>8
<1>2. OwnParameters
  BY DEF IInv, Types, Parameters, PolicyOf, OwnParameters
<1>3. OwnActions
  BY DEF IInv, Cut, OwnActions
<1> QED BY <1>1, <1>2, <1>3 DEF ReplayMatchesRollout

\* A replay is the rollout again: the same cache, index, parameters and actions at every event.
THEOREM SessionReplayMatches == Spec => []ReplayMatchesRollout
BY InvariantReplays, SessionInvariant, PTL

-----------------------------------------------------------------------------
(* What a rollout, its passes and the entry points hold in common.         *)

\* A prefill of one word.
LEMMA WordExact == Exact(Prefill(<<"word">>), 0)
<1>1. PICK ids : ids = <<"word">>
  OBVIOUS
<1>2. ids \in Seq(Tokens) /\ Len(ids) = 1 /\ Len(ids) > 0 /\ ids[1] = "word"
  BY <1>1 DEF Tokens
<1>3. Cardinality(PatchesIn(ids, Len(ids))) % Patches = 0
  <2>1. PatchesIn(ids, Len(ids)) = {}
    BY <1>2 DEF PatchesIn
  <2>2. Cardinality(PatchesIn(ids, Len(ids))) = 0
    BY <2>1, FS_EmptySet
  <2> QED BY <2>2, GridPositions
<1>4. Exact(Prefill(ids), Last(Prefill(ids)).t)
  BY <1>2, <1>3, PrefillExact
<1>5. Last(Prefill(ids)).t = TIndex(ids, 1)
  <2>1. Len(Prefill(ids)) = 1
    BY <1>2, Prefilled
  <2>2. DOMAIN ids = 1 .. 1
    BY <1>1
  <2>3. 1 \in DOMAIN ids
    BY <2>2
  <2>4. Prefill(ids)[1].t = TIndex(ids, 1)
    BY <2>3, Zenon DEF Prefill, Entry
  <2> QED BY <2>1, <2>4 DEF Last
<1>6. TIndex(ids, 1) = 0
  <2>1. Texts(ids, 1) = {1} /\ Starts(ids, 1 - 1) = {}
    BY <1>2 DEF Texts, Starts
  <2>2. Cardinality(Texts(ids, 1)) = 1 /\ Cardinality(Starts(ids, 1 - 1)) = 0
    BY <2>1, FS_EmptySet, FS_Singleton
  <2>3. TIndex(ids, 1) = Cardinality(Texts(ids, 1)) + Cardinality(Starts(ids, 1 - 1)) - 1
    <3>1. 1 \in Int
      OBVIOUS
    <3> QED BY <3>1, IndexCounts
  <2> QED BY <2>2, <2>3
<1> QED BY <1>1, <1>4, <1>5, <1>6

\* Caches that are exact are prefills.
LEMMA ExactCaches ==
  ASSUME IInv, KInv
  PROVE  CacheIsPrefill
BY DEF KInv, Sampled, Replayed, Exact, CacheIsPrefill

\* Where no rollout is, the cache is a prefill.
LEMMA NoSessionCache ==
  ASSUME NoSession
  PROVE  CacheIsPrefill
<1>1. cache = Prefill(<<"word">>) /\ t = 0 /\ pass = 0
  BY DEF NoSession
<1>2. Exact(cache, t)
  BY <1>1, WordExact
<1> QED BY <1>1, <1>2 DEF Exact, CacheIsPrefill

\* Where no rollout is, nothing is replayed and nothing too long.
LEMMA NoSessionRests ==
  ASSUME NoSession
  PROVE  ReplayMatchesRollout /\ StaysInContext
<1>1. /\ phase = "done" /\ pass = 0 /\ anchored = <<>> /\ events = <<>> /\ shards = Current
      /\ full = Current /\ cache = Prefill(<<"word">>)
  BY DEF NoSession
<1>2. SameContext
  BY <1>1 DEF SameContext
<1>3. OwnParameters
  BY <1>1 DEF OwnParameters, Current, Reference
<1>4. OwnActions
  BY <1>1 DEF OwnActions
<1>5. StaysInContext
  <2>1. <<"word">> \in Seq(Tokens) /\ Len(<<"word">>) = 1
    BY DEF Tokens
  <2>2. Len(cache) = 1
    BY <1>1, <2>1, Prefilled
  <2>3. 1 <= MaxLength /\ 0 <= MaxImages
    BY SessionAssumption
  <2>4. ImagesOf(events) = 0
    <3>1. {i \in DOMAIN events : events[i].kind = "image"} = {}
      BY <1>1
    <3> QED BY <3>1, FS_EmptySet DEF ImagesOf
  <2> QED BY <1>1, <2>2, <2>3, <2>4 DEF StaysInContext
<1> QED BY <1>2, <1>3, <1>4, <1>5 DEF ReplayMatchesRollout

\* Where no rollout is, none begins.
LEMMA NoSessionStays ==
  ASSUME NoSession
  PROVE  ~Next
<1>1. phase = "done"
  BY DEF NoSession
<1>2. ~(NextSpan \/ Sample \/ SampleImage)
  BY <1>1 DEF NextSpan, Sample, SampleImage
<1>3. ~(Start \/ ReplayText \/ ReplayImage \/ ReplaySlice \/ NextImage \/ EndPass)
  BY <1>1 DEF Start, ReplayText, ReplayImage, ReplaySlice, NextImage, EndPass
<1>4. ~(CutText \/ CutImage \/ EndAnchor \/ NextPass \/ Fail)
  BY <1>1 DEF CutText, CutImage, EndAnchor, NextPass, Fail
<1> QED BY <1>2, <1>3, <1>4 DEF Next

\* The caches of a rollout and of its passes are the prefills of their tokens.
THEOREM SessionCacheIsPrefill == Spec => []CacheIsPrefill
<1>1. Init => IInv /\ KInv
  BY InitHolds, KInit
<1>2. IInv /\ KInv /\ [Next]_vars => (IInv /\ KInv)'
  BY NextHolds, KNext
<1> QED BY <1>1, <1>2, ExactCaches, PTL DEF Spec

\* Entry points that rest keep their branches.
LEMMA GStutter ==
  ASSUME GInv, UNCHANGED generation
  PROVE  GInv'
<1>1. UNCHANGED <<request, stage, held, tindex, flash, placed, step, workspace, calls>>
  BY DEF generation
<1>2. GTypes'
  BY <1>1 DEF GInv, GTypes, Sound
<1>3. \A b \in {"cond", "tu", "iu"} : G!Keys(b)' = G!Keys(b)
  BY <1>1 DEF G!Keys
<1>4. G!Built(request) \subseteq {"cond", "tu", "iu"} /\ request' = request
  BY <1>1, Builts
<1>5. Readied'
  <2>1. ASSUME stage = "denoise", NEW b \in G!Built(request)
        PROVE  flash'[b] = G!Keys(b)' /\ placed'[b] = ImageIndexes(tindex[b])'
    <3>1. flash[b] = G!Keys(b) /\ placed[b] = ImageIndexes(tindex[b])
      BY <2>1 DEF GInv, Readied
    <3> QED BY <1>1, <1>3, <1>4, <3>1 DEF ImageIndexes
  <2>2. G!Built(request)' = G!Built(request)
    BY <1>4 DEF G!Built, G!Scale, G!ImageScale
  <2> QED BY <1>1, <2>1, <2>2 DEF GInv, Readied
<1>6. CASE stage = "idle"
  BY <1>1, <1>2, <1>5, <1>6 DEF GInv, Kept, Staged
<1>7. CASE stage # "idle"
  <2>1. PICK m : m = Told("cond") /\ m = Told("tu")
    BY DEF Told
  <2>2. "cond" \in G!Built(request) /\ Told("iu") = 0
    BY Builts DEF Told
  <2>3. ASSUME NEW b \in G!Built(request)
        PROVE  BranchIs(G!Keys(b)', tindex'[b], Opened(request, stage', b), Told(b))
    <3>1. BranchIs(G!Keys(b), tindex[b], Opened(request, stage, b), Told(b))
      BY <1>7, BranchNow
    <3>2. G!Keys(b)' = G!Keys(b) /\ tindex'[b] = tindex[b] /\ stage' = stage
      BY <1>1, <1>3, <1>4
    <3> QED BY <3>1, <3>2 DEF BranchIs, Opened
  <2>4. BranchIs(G!Keys("cond")', tindex'["cond"], Opened(request, stage', "cond"), m)
    BY <2>1, <2>2, <2>3
  <2>5. "tu" \in G!Built(request) =>
          BranchIs(G!Keys("tu")', tindex'["tu"], Opened(request, stage', "tu"), m)
    BY <2>1, <2>3
  <2>6. "iu" \in G!Built(request) =>
          BranchIs(G!Keys("iu")', tindex'["iu"], Opened(request, stage', "iu"), 0)
    BY <2>2, <2>3
  <2>7. Kept'
    BY <1>1, <1>7, <2>4, <2>5, <2>6, Settles
  <2> QED BY <1>1, <1>2, <1>5, <2>7 DEF GInv, Staged
<1> QED BY <1>6, <1>7

\* A branch a denoising step may read was built when the call began.
LEMMA ReadsBuilt ==
  ASSUME NEW r \in G!Requests, NEW use \in BOOLEAN, NEW b \in G!Reads(r, use)
  PROVE  b \in G!Built(r)
<1>1. r.entry \in {"chat", "given", "it2i", "t2i"} /\ "cond" \in G!Built(r)
  BY RequestTyped, Builts
<1>2. PICK others :
        others = IF r.entry = "t2i" THEN IF use /\ G!Scale(r) > 1 THEN {"iu"} ELSE {}
                 ELSE IF ~use \/ r.scale = <<1, 1>> THEN {}
                 ELSE IF G!ImageScale(r) = 1 THEN {"tu"}
                 ELSE IF G!Scale(r) = G!ImageScale(r) THEN {"iu"} ELSE {"tu", "iu"}
  OBVIOUS
<1>3. b = "cond" \/ b \in others
  <2>1. G!Reads(r, use) = {"cond"} \union others
    BY <1>2, Zenon DEF G!Reads
  <2> QED BY <2>1
<1>4. CASE r.entry = "t2i"
  <2>1. b = "cond" \/ b \in (IF use /\ G!Scale(r) > 1 THEN {"iu"} ELSE {})
    BY <1>4, <1>2, <1>3
  <2>2. G!Built(r) = {"cond"} \union (IF G!Scale(r) > 1 THEN {"iu"} ELSE {})
    BY <1>4 DEF G!Built
  <2> QED BY <2>1, <2>2
<1>5. CASE r.entry # "t2i" /\ (~use \/ r.scale = <<1, 1>>)
  <2>1. b = "cond"
    BY <1>5, <1>2, <1>3
  <2> QED BY <1>1, <2>1
<1>6. CASE r.entry # "t2i" /\ use /\ r.scale # <<1, 1>>
  <2>1. \/ b = "cond" \/ (b = "tu" /\ (G!ImageScale(r) = 1 \/ G!Scale(r) # G!ImageScale(r)))
        \/ (b = "iu" /\ G!ImageScale(r) # 1)
    <3>1. CASE G!ImageScale(r) = 1
      BY <1>6, <1>2, <1>3, <3>1
    <3>2. CASE G!ImageScale(r) # 1
      BY <1>6, <1>2, <1>3, <3>2
    <3> QED BY <3>1, <3>2
  <2>2. CASE r.entry = "it2i"
    <3>1. G!Built(r) = {x \in G!Branches :
            \/ x = "cond"
            \/ x = "tu" /\ r.scale # <<1, 1>>
                 /\ (G!ImageScale(r) = 1 \/ G!Scale(r) # G!ImageScale(r))
            \/ x = "iu" /\ r.scale # <<1, 1>> /\ G!ImageScale(r) # 1}
      BY <2>2 DEF G!Built
    <3>2. b \in G!Branches
      BY <2>1 DEF G!Branches
    <3> QED BY <1>6, <2>1, <3>1, <3>2
  <2>3. CASE r.entry \in {"chat", "given"}
    BY <2>1, <2>3, Builts
  <2> QED BY <1>1, <1>6, <2>2, <2>3
<1> QED BY <1>4, <1>5, <1>6

\* The branches of a call are prefills, and its workspace counts the same twice.
LEMMA BranchesExact ==
  ASSUME GInv
  PROVE  G!CacheIsPrefill
<1>1. ASSUME NEW b \in G!Live
      PROVE  G!Keys(b) = G!Prefill(G!TokensOf(G!Keys(b))) /\ tindex[b] = G!Last(G!Keys(b)).t
  <2>1. stage # "idle" /\ b \in G!Built(request)
    BY DEF G!Live
  <2>2. Exact(G!Keys(b), tindex[b])
    BY <2>1, BranchNow
  <2>3. PICK c : c = G!Keys(b)
    OBVIOUS
  <2>4. c = Prefill(TokensOf(c)) /\ tindex[b] = Last(c).t
    BY <2>2, <2>3 DEF Exact
  <2>5. G!Prefill(G!TokensOf(c)) = Prefill(TokensOf(c)) /\ G!Last(c) = Last(c)
    BY SamePrefill, SameReadings
  <2> QED BY <2>3, <2>4, <2>5
<1>2. workspace.seqlens = workspace.length
  BY DEF GInv, GTypes, Sound
<1> QED BY <1>1, <1>2 DEF G!CacheIsPrefill

\* The branches a denoising step reads agree.
LEMMA BranchesAgree ==
  ASSUME GInv
  PROVE  G!BranchesAligned
<1>1. SUFFICES ASSUME stage = "denoise", NEW use \in BOOLEAN, NEW b \in G!Reads(request, use)
               PROVE  /\ b \in G!Built(request)
                      /\ flash[b] = G!Keys(b) /\ G!Last(flash[b]).token = "img"
                      /\ placed[b] = {<<e.t, e.h, e.w>> :
                           e \in {e \in G!ToSet(G!ImageAppended(G!Keys(b), tindex[b])) :
                                    e.token = "patch" /\ e.t > tindex[b]}}
                      /\ G!ImagesIn(flash[b]) =
                           IF b = "iu" THEN 0 ELSE G!ImagesIn(G!Keys("cond"))
  BY DEF G!BranchesAligned
<1>2. request \in G!Requests
  BY <1>1 DEF GInv, Kept
<1>3. b \in G!Built(request) /\ "cond" \in G!Built(request)
  BY <1>2, ReadsBuilt, Builts
<1>4. /\ BranchIs(G!Keys(b), tindex[b], Opened(request, stage, b), Told(b))
      /\ Exact(G!Keys(b), tindex[b]) /\ G!Keys(b) \in Seq(Entries)
      /\ Last(G!Keys(b)).token = "img" <=> Opened(request, stage, b)
  BY <1>1, <1>3, BranchNow
<1>5. G!Keys("cond") \in Seq(Entries)
  BY <1>1, <1>3, BranchNow
<1>6. flash[b] = G!Keys(b) /\ placed[b] = ImageIndexes(tindex[b])
  BY <1>1, <1>3 DEF GInv, Readied
<1>7. PICK c, d : c = G!Keys(b) /\ d = G!Keys("cond")
  OBVIOUS
<1>8. G!Last(c).token = "img"
  <2>1. Opened(request, stage, b)
    BY <1>1 DEF Opened
  <2> QED BY <1>4, <1>7, <2>1, SameReadings
<1>9. placed[b] = {<<e.t, e.h, e.w>> : e \in {e \in G!ToSet(G!ImageAppended(c, tindex[b])) :
                                                e.token = "patch" /\ e.t > tindex[b]}}
  <2>1. G!ToSet(G!ImageAppended(c, tindex[b])) = ToSet(ImageAppended(c, tindex[b]))
    BY SameSteps, SameReadings
  <2>2. PICK time : time = tindex[b]
    OBVIOUS
  <2>3. Exact(c, time)
    BY <1>4, <1>7, <2>2
  <2>4. ImageIndexes(time) = {<<e.t, e.h, e.w>> : e \in {e \in ToSet(ImageAppended(c, time)) :
                                                           e.token = "patch" /\ e.t > time}}
    BY <2>3, ImagePlaces
  <2> QED BY <1>6, <2>1, <2>2, <2>4
<1>10. G!ImagesIn(c) = IF b = "iu" THEN 0 ELSE G!ImagesIn(d)
  <2>1. G!ImagesIn(c) = Cardinality(EndsOf(c)) /\ G!ImagesIn(d) = Cardinality(EndsOf(d))
    BY <1>4, <1>5, <1>7, SameEnds
  <2>2. Cardinality(EndsOf(c)) = Told(b)
    BY <1>4, <1>7 DEF BranchIs
  <2>3. Told(b) = IF b = "iu" THEN 0 ELSE Cardinality(EndsOf(d))
    BY <1>7 DEF Told
  <2> QED BY <2>1, <2>2, <2>3
<1> QED BY <1>3, <1>6, <1>7, <1>8, <1>9, <1>10

\* Either a rollout under its invariant or none, and the branches of the entry points.
EitherInv == ((IInv /\ KInv) \/ NoSession) /\ GInv

\* A step of either machine.
LEMMA EitherHolds ==
  ASSUME EitherInv, [EitherNext]_<<vars, generation>>
  PROVE  EitherInv'
<1>1. CASE Next /\ UNCHANGED generation
  <2>1. IInv /\ KInv
    BY <1>1, NoSessionStays DEF EitherInv
  <2>2. IInv' /\ KInv'
    BY <1>1, <2>1, NextHolds, KNext
  <2>3. GInv'
    BY <1>1, GStutter DEF EitherInv
  <2> QED BY <2>2, <2>3 DEF EitherInv
<1>2. ASSUME UNCHANGED vars PROVE ((IInv /\ KInv) \/ NoSession)'
  <2>1. CASE IInv /\ KInv
    <3>1. IInv' /\ KInv'
      BY <1>2, <2>1, NextHolds, KNext
    <3> QED BY <3>1
  <2>2. CASE NoSession
    <3>1. NoSession'
      BY <1>2, <2>2 DEF NoSession, vars, rolling, replaying, anchoring
    <3> QED BY <3>1
  <2> QED BY <2>1, <2>2 DEF EitherInv
<1>3. CASE G!Next /\ UNCHANGED <<input, phase, rolling, replaying>>
  <2>1. UNCHANGED vars
    BY <1>3 DEF vars
  <2>2. GInv'
    BY <1>3, GNext DEF EitherInv
  <2> QED BY <1>2, <2>1, <2>2 DEF EitherInv
<1>4. CASE UNCHANGED <<vars, generation>>
  BY <1>2, <1>4, GStutter DEF EitherInv
<1> QED BY <1>1, <1>3, <1>4 DEF EitherNext

\* The inductive invariant of rollouts and entry points.
THEOREM EitherInvariant == EitherSpec => []EitherInv
<1>1. ASSUME EitherInit PROVE EitherInv
  <2>1. GInv
    BY <1>1, GInit DEF EitherInit
  <2>2. Init => IInv /\ KInv
    BY InitHolds, KInit
  <2> QED BY <1>1, <2>1, <2>2 DEF EitherInit, EitherInv
<1> QED BY <1>1, EitherHolds, PTL DEF EitherSpec

\* Every cache, of a rollout, a pass or a call, is the prefill of its tokens.
THEOREM GenerationCaches == EitherSpec => []CachesArePrefills
<1>1. ASSUME EitherInv PROVE CachesArePrefills
  BY <1>1, ExactCaches, NoSessionCache, BranchesExact DEF EitherInv, CachesArePrefills
<1> QED BY <1>1, EitherInvariant, PTL

\* A denoising step reads branches of the same conversation, where the image will stand.
THEOREM GenerationBranches == EitherSpec => []BranchesAligned
<1>1. ASSUME EitherInv PROVE BranchesAligned
  BY <1>1, BranchesAgree DEF EitherInv, BranchesAligned
<1> QED BY <1>1, EitherInvariant, PTL

\* Beside the entry points too, a replay is the rollout again.
THEOREM GenerationReplays == EitherSpec => []ReplayMatchesRollout
<1>1. ASSUME EitherInv PROVE ReplayMatchesRollout
  BY <1>1, InvariantReplays, NoSessionRests DEF EitherInv
<1> QED BY <1>1, EitherInvariant, PTL

\* Beside the entry points too, a rollout stays in its context.
THEOREM GenerationStaysInContext == EitherSpec => []StaysInContext
<1>1. ASSUME EitherInv PROVE StaysInContext
  BY <1>1, InvariantFits, NoSessionRests DEF EitherInv
<1> QED BY <1>1, EitherInvariant, PTL
=============================================================================
