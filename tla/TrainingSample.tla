----------------------------- MODULE TrainingSample -----------------------------
(***************************************************************************)
(* From a line of the training set to tokens and labels: the conditions    *)
(* that are dropped, the generated images that are repeated for the        *)
(* understanding branch, and the tokens that are supervised, of            *)
(* sensenovavl/data/multimodal_dataset.py and dataset.py.  A turn's value  *)
(* is a sequence of "word" and "image"; an image is named by its place in  *)
(* the line's list, and every image has the one grid of KvCache.           *)
(***************************************************************************)
EXTENDS KvCache

Turn(from, value) == [from |-> from, value |-> value]
Count(value) == Len(SelectSeq(value, LAMBDA x : x = "image"))
OnlyImages(value) == SelectSeq(value, LAMBDA x : x = "image")
OnlyText(value) == SelectSeq(value, LAMBDA x : x # "image")
CountAll(conv) == FoldLeft(LAMBDA n, turn : n + Count(turn.value), 0, conv)

-----------------------------------------------------------------------------
(* Which conversations a task takes.                                       *)
EndsInItsOnlyImage(value) == Count(value) = 1 /\ Last(value) = "image"

CheckT2i(conv) == Len(conv) = 2 /\ EndsInItsOnlyImage(conv[2].value) /\ Count(conv[1].value) = 0

CheckIt2i(conv, images) ==
  /\ Len(conv) = 2 /\ EndsInItsOnlyImage(conv[2].value)
  /\ Count(conv[1].value) = Len(images) - 1

(* The images of a gpt turn are counted with all those before it.          *)
CheckInterleave(conv, images) ==
  /\ Len(images) <= 40 /\ CountAll(conv) = Len(images)
  /\ \E i \in DOMAIN conv : conv[i].from = "gpt" /\ CountAll(SubSeq(conv, 1, i)) > 0

CheckI2t(conv, images) ==
  /\ \A i \in DOMAIN conv : conv[i].from = "gpt" => Count(conv[i].value) = 0
  /\ CountAll(conv) = Len(images)

-----------------------------------------------------------------------------
(* A prepared conversation: its images in order, which of them are         *)
(* generated, which repeat the one before, whether the last one is not     *)
(* repeated, and whether the text was dropped.                             *)
Prepared(conv, images, gen, dup, bare, silent) ==
  [conv |-> conv, images |-> images, gen |-> gen, dup |-> dup, bare |-> bare, silent |-> silent]

System == Turn("system", <<"word">>)
FirstHuman(conv) ==
  IF \E i \in DOMAIN conv : conv[i].from = "human"
  THEN SelectInSeq(conv, LAMBDA turn : turn.from = "human") ELSE 1
Silenced(conv, value) ==
  [conv EXCEPT ![FirstHuman(conv)].value = value, ![Len(conv)].value = <<"image">>]

PrepareT2i(conv, images, drop) ==
  Prepared(IF drop = "txt" THEN Silenced(conv, <<>>) ELSE <<System>> \o conv,
           images, <<TRUE>>, <<FALSE>>, FALSE, drop = "txt")

(* Dropped independently or one of three ways, the result is one of these. *)
PrepareIt2i(conv, images, drop) ==
  LET kept == IF drop \in {"img", "txtimg"} THEN <<Last(images)>> ELSE images
  IN  Prepared(CASE drop = "none"   -> <<System>> \o conv
                 [] drop = "txt"    -> Silenced(conv, [i \in 1 .. Len(images) - 1 |-> "image"])
                 [] drop = "img"    -> [conv EXCEPT ![FirstHuman(conv)].value = OnlyText(@)]
                 [] drop = "txtimg" -> Silenced(conv, <<>>),
               kept, [i \in DOMAIN kept |-> i = Len(kept)], [i \in DOMAIN kept |-> FALSE],
               FALSE, drop \in {"txt", "txtimg"})

(* The images of gpt turns, by their places in the list.                   *)
GeneratedPlaces(conv) ==
  UNION {LET before == CountAll(SubSeq(conv, 1, i - 1))
         IN  {before + k : k \in 1 .. Count(conv[i].value)}
         : i \in {j \in DOMAIN conv : conv[j].from = "gpt"}}

(* The text is dropped, or all but one generated image.                    *)
Uncondition(conv, images, drop, pick) ==
  CASE drop = "none" -> [conv |-> conv, images |-> images]
    [] drop = "txt" ->
         LET bare == [i \in DOMAIN conv |-> [conv[i] EXCEPT !.value = OnlyImages(@)]]
         IN  [conv |-> IF conv[1].from = "system" THEN Tail(bare) ELSE bare, images |-> images]
    [] drop = "txtimg" ->
         [conv |-> <<Turn("human", <<>>), Turn("gpt", <<"image">>)>>, images |-> <<images[pick]>>]

Doubled(value) ==
  FlattenSeq([i \in DOMAIN value |-> IF value[i] = "image" THEN <<"image", "image">> ELSE <<value[i]>>])
RepeatAllButLast(value) ==
  LET last == CHOOSE i \in DOMAIN value :
                value[i] = "image" /\ \A j \in i + 1 .. Len(value) : value[j] # "image"
  IN  IF Count(value) <= 1 THEN value
      ELSE Doubled(SubSeq(value, 1, last - 1)) \o SubSeq(value, last, Len(value))

(* Every generated image is followed by a copy, but for the last one when  *)
(* nothing after it is learned; "again" is the draw that keeps its copy.   *)
RepeatGenerated(conv, images, drop, again, und) ==
  LET last == conv[Len(conv)]
      bare == /\ last.from = "gpt" /\ Count(last.value) > 0
              /\ ~und \/ (Last(last.value) = "image" /\ ~again) \/ drop # "none"
      Marks(i) ==
        LET before == CountAll(SubSeq(conv, 1, i - 1))
            own == [k \in 1 .. Count(conv[i].value) |-> images[before + k]]
            Mark(image, gen, dup) == [image |-> image, gen |-> gen, dup |-> dup]
        IN  FlattenSeq([k \in DOMAIN own |->
              IF conv[i].from = "gpt" THEN <<Mark(own[k], TRUE, FALSE), Mark(own[k], FALSE, TRUE)>>
              ELSE <<Mark(own[k], FALSE, FALSE)>>])
      all == FlattenSeq([i \in DOMAIN conv |-> Marks(i)])
      marks == IF bare THEN Front(all) ELSE all
  IN  Prepared([i \in DOMAIN conv |->
                  IF conv[i].from # "gpt" THEN conv[i]
                  ELSE [conv[i] EXCEPT !.value = IF bare /\ i = Len(conv) THEN RepeatAllButLast(@)
                                                 ELSE Doubled(@)]],
               [k \in DOMAIN marks |-> marks[k].image], [k \in DOMAIN marks |-> marks[k].gen],
               [k \in DOMAIN marks |-> marks[k].dup], bare, drop # "none")

PrepareInterleave(conv, images, drop, pick, again, und) ==
  LET from == Uncondition(conv, images, drop, pick)
  IN  RepeatGenerated(from.conv, from.images, drop, again, und)

(* Answers without generated images.  A lone image may go unmentioned; of  *)
(* several that are never mentioned only the text is learned.              *)
PrepareI2t(conv, images) ==
  LET first == FirstHuman(conv)
      told == IF Len(images) = 1 /\ Count(conv[first].value) = 0
              THEN [conv EXCEPT ![first].value = <<"image">> \o @] ELSE conv
      kept == IF CountAll(told) = 0 THEN <<>> ELSE images
      none == [i \in DOMAIN kept |-> FALSE]
  IN  Prepared(told, kept, none, none, FALSE, FALSE)

-----------------------------------------------------------------------------
(* Tokens and labels of the chat format: only the content of an answer and *)
(* its end are supervised.  Where answers think, one that does not opens   *)
(* with an empty thought, except in a sample without text.                 *)
Content(value) ==
  FlattenSeq([i \in DOMAIN value |-> IF value[i] = "image" THEN Image ELSE <<value[i]>>])
Opening(turn, thinks, silent) ==
  <<"word">> \o IF turn.from = "gpt" /\ thinks /\ ~silent /\ (turn.value = <<>> \/ turn.value[1] # "think")
                THEN <<"think">> ELSE <<>>
Chat(p, thinks) ==
  LET Told(turn) == Opening(turn, thinks, p.silent) \o Content(turn.value) \o <<"eos">>
      Learned(turn) == [i \in DOMAIN Told(turn) |->
                          turn.from = "gpt" /\ i > Len(Opening(turn, thinks, p.silent))]
  IN  [ids |-> FlattenSeq([i \in DOMAIN p.conv |-> Told(p.conv[i])]),
       labels |-> FlattenSeq([i \in DOMAIN p.conv |-> Learned(p.conv[i])])]

Where(ids, token) == SelectSeq([i \in DOMAIN ids |-> i], LAMBDA i : ids[i] = token)

(* The last image of an editing task and what follows is left to the image *)
(* loss, its start token too.                                              *)
EditingLabels(chat, und) ==
  LET start == Last(Where(chat.ids, "img"))
  IN  [i \in DOMAIN chat.ids |-> und /\ i < start /\ chat.labels[i]]

(* Between turns, a start token is learned and its image is not; a copy is *)
(* not, nor what follows the last image when it has no copy.               *)
InterleaveLabels(chat, p, und) ==
  LET start == Where(chat.ids, "img")
      end == Where(chat.ids, "/img")
      Hidden(i) ==
        \/ \E k \in DOMAIN p.gen : p.gen[k] /\ i \in start[k] + 1 .. end[k]
        \/ \E k \in DOMAIN p.dup : p.dup[k] /\ i \in start[k] .. end[k]
        \/ p.bare /\ i >= Last(end)
  IN  [i \in DOMAIN chat.ids |-> und /\ ~p.silent /\ chat.labels[i] /\ ~Hidden(i)]

TypeIds == [i2t |-> 1, text |-> 2, t2i |-> 3, it2i |-> 4, interleave |-> 5]

(* One line as a sample; a line no task accepts is refused.                *)
Accepted(line) ==
  CASE line.task = "t2i" -> CheckT2i(line.conv)
    [] line.task = "it2i" -> CheckIt2i(line.conv, line.images)
    [] line.task = "interleave" ->
         /\ CheckInterleave(line.conv, line.images)
         /\ GeneratedPlaces(line.conv) # {}
    [] OTHER -> LET p == PrepareI2t(line.conv, line.images) IN CheckI2t(p.conv, p.images)

Prepare(line) ==
  CASE line.task = "t2i" -> PrepareT2i(line.conv, line.images, line.drop)
    [] line.task = "it2i" -> PrepareIt2i(line.conv, line.images, line.drop)
    [] line.task = "interleave" ->
         PrepareInterleave(line.conv, line.images, line.drop, line.pick, line.again, line.und)
    [] OTHER -> PrepareI2t(line.conv, line.images)

Labelled(line, p, chat) ==
  [ids |-> chat.ids,
   labels |-> CASE line.task \in {"t2i", "it2i"} -> EditingLabels(chat, line.und)
                [] line.task = "interleave" -> InterleaveLabels(chat, p, line.und)
                [] OTHER -> chat.labels,
   images |-> p.images, gen |-> p.gen, dup |-> p.dup, type |-> TypeIds[line.task]]
SampleOf(line, p) == Labelled(line, p, Chat(p, line.thinks))
Sample(line) == SampleOf(line, Prepare(line))

-----------------------------------------------------------------------------
(* The k-th marker of the prepared text is the k-th image of its list,     *)
(* generated in answers only, each generated image once, and repeated at   *)
(* once and as itself, unless nothing but its image loss is learned of it  *)
(* and what follows.                                                       *)
MarkersFit(p, s) ==
  LET turns == FlattenSeq([i \in DOMAIN p.conv |-> [k \in 1 .. Count(p.conv[i].value) |-> p.conv[i].from]])
      generated == {k \in DOMAIN p.gen : p.gen[k]}
      end == Where(s.ids, "/img")
  IN  /\ Len(turns) = Len(p.images) /\ Len(p.gen) = Len(p.images) /\ Len(p.dup) = Len(p.images)
      /\ \A k \in DOMAIN turns : turns[k] = "gpt" <=> p.gen[k] \/ p.dup[k]
      /\ \A j, k \in generated : p.images[j] = p.images[k] => j = k
      /\ \A k \in DOMAIN p.dup : p.dup[k] => k > 1 /\ p.gen[k - 1] /\ p.images[k - 1] = p.images[k]
      /\ \A k \in generated :
           \/ k < Len(p.dup) /\ p.dup[k + 1]
           \/ \A i \in end[k] .. Len(s.labels) : ~s.labels[i]

(* A sample without text holds frames and images; and no condition of the  *)
(* one without text and images, which is the same for every line.          *)
Unconditional == <<"word", "eos", "word">> \o Image \o <<"eos">>
DropsEverything(line, p, s) ==
  /\ p.silent =>
       \A i \in DOMAIN s.ids : s.ids[i] \notin {"think"} /\ (s.ids[i] = "word" => i = 1 \/ s.ids[i - 1] = "eos")
  /\ line.drop = "txtimg" \/ (line.task = "t2i" /\ line.drop = "txt") => s.ids = Unconditional

FitsAndDrops(line, p, s) == MarkersFit(p, s) /\ DropsEverything(line, p, s)
SampleExact(line) ==
  LET p == Prepare(line) IN FitsAndDrops(line, p, SampleOf(line, p))

=============================================================================
