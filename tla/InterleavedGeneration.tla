------------------------ MODULE InterleavedGeneration ------------------------
(***************************************************************************)
(* The generation entry points of NEOChatModel: interleave_gen ("chat"),   *)
(* interleave_gen_image_only ("given"), it2i_generate and t2i_generate of  *)
(* models/neo_unify/modeling_neo_chat.py, with the CUDA-graph decode       *)
(* workspace of utils/decode_cache.py that survives a call.  An image is   *)
(* denoised against up to three caches: the conversation, its images       *)
(* without its text, and neither.                                          *)
(***************************************************************************)
EXTENDS KvCache

CONSTANTS
  MaxNewTokens,  \* generation_config.max_new_tokens
  MaxThink,      \* max_think_tokens
  Pictures,      \* max_images
  Denoisings,    \* num_steps
  Scales,        \* pairs <<cfg_scale, img_cfg_scale>>
  Calls          \* bound: calls of one model object

Branches == {"cond", "tu", "iu"}
None == <<>>                               \* no cache, no buffer
Empty == Entry("none", 0, 0, 0, 0)         \* a slot nothing was written to
Entries == {"chat", "given", "it2i", "t2i"}

VARIABLES
  request,    \* the call: [entry, sources, scale, think, graph, texts]
  stage,      \* "idle", "text", "think", "denoise", "finish"
  held,       \* per branch, its cache, or None where the call built none
  tindex,     \* per branch, the last temporal index
  flash,      \* per branch, the buffer prepared for denoising, or None
  placed,     \* per branch, the positions given to the patches being denoised
  step,       \* denoising steps done
  count,      \* [text |-> tokens generated or given parts read, images |-> images made]
  workspace,  \* the decode workspace: [slots, length, seqlens]; no slots at first
  calls

gvars == <<request, stage, held, tindex, flash, placed, step, count, workspace, calls>>

Scale(r) == r.scale[1]
ImageScale(r) == r.scale[2]

(* What each entry accepts; only interleave_gen decodes through a graph.   *)
Requests ==
  {r \in [entry : Entries, sources : 0 .. 1, scale : Scales, think : BOOLEAN, graph : BOOLEAN,
          texts : [1 .. 3 -> BOOLEAN]] :
     /\ r.entry = "it2i" => r.sources = 1
     /\ r.entry = "t2i" => r.sources = 0 /\ ImageScale(r) = 1
     /\ r.graph => r.entry = "chat"
     /\ r.think => r.entry \in {"it2i", "t2i"}
     /\ r.entry # "given" => \A i \in 1 .. 3 : r.texts[i]}

SourceImages(r) == IF r.sources = 1 THEN Image ELSE <<>>

(* it2i_generate and t2i_generate end the prompt with <img> unless the     *)
(* model is to think first.                                                *)
Prompt(r, b) ==
  CASE b = "cond" -> <<"word">> \o SourceImages(r) \o <<"word">>
                       \o (IF r.entry \in {"it2i", "t2i"} /\ ~r.think THEN <<"img">> ELSE <<>>)
    [] b = "tu" -> <<"word">> \o SourceImages(r) \o (IF r.entry = "it2i" THEN <<"img">> ELSE <<>>)
    [] OTHER -> <<"word", "img">>

\* Mutant: the images' branch is thought needless beside the empty one.
BuiltOne(r) ==
  CASE r.entry = "t2i" -> {"cond"} \union IF Scale(r) > 1 THEN {"iu"} ELSE {}
    [] r.entry = "it2i" ->
         {"cond"} \union IF r.scale = <<1, 1>> THEN {} ELSE IF ImageScale(r) = 1 THEN {"tu"} ELSE {"iu"}
    [] OTHER -> Branches

(* needs_img_condition and needs_uncondition; t2i's needs_cfg.             *)
Built(r) ==
  LET guided == r.scale # <<1, 1>>
  IN  CASE r.entry = "t2i" -> {"cond"} \union IF Scale(r) > 1 THEN {"iu"} ELSE {}
        [] r.entry = "it2i" ->
             {b \in Branches :
                \/ b = "cond"
                \/ b = "tu" /\ guided /\ (ImageScale(r) = 1 \/ Scale(r) # ImageScale(r))
                \/ b = "iu" /\ guided /\ ImageScale(r) # 1}
        [] OTHER -> Branches

(* The branches one denoising step evaluates; use_cfg depends on the time. *)
Reads(r, use) ==
  {"cond"} \union
    (IF r.entry = "t2i" THEN IF use /\ Scale(r) > 1 THEN {"iu"} ELSE {}
     ELSE IF ~use \/ r.scale = <<1, 1>> THEN {}
     ELSE IF ImageScale(r) = 1 THEN {"tu"}
     ELSE IF Scale(r) = ImageScale(r) THEN {"iu"} ELSE {"tu", "iu"})

-----------------------------------------------------------------------------
(* The decode workspace                                                    *)

Capacity(w) == Len(w.slots)

(* Room for the prompt, the text and each image with its end token.        *)
Required(r) == Len(Prompt(r, "cond")) + MaxNewTokens + Pictures * (Patches + 1)

(* load_prefix: the slots after the prefix keep what an earlier call left. *)
Loaded(w, prefix) ==
  [slots |-> [i \in DOMAIN w.slots |-> IF i <= Len(prefix) THEN prefix[i] ELSE w.slots[i]],
   length |-> Len(prefix), seqlens |-> Len(prefix)]

Fresh(capacity) == [slots |-> [i \in 1 .. capacity |-> Empty], length |-> 0, seqlens |-> 0]

Reserved(r, prefix) ==
  Loaded(IF Capacity(workspace) < Required(r) THEN Fresh(Required(r))
                                                                 ELSE workspace, prefix)

(* The flash kernel writes after seqlens and attends that far; the host    *)
(* then counts both lengths up.                                            *)
Replayed(w, t, token) ==
  [slots |-> [w.slots EXCEPT ![w.seqlens + 1] = Entry(token, t + 1, 0, 0, w.seqlens + 1)],
   length |-> w.length + 1, seqlens |-> w.seqlens + 1]

\* Mutant: nobody calls sync_flash_decode_length after an image.
UpdatedUnsynced(w, entries) ==
  LET end == w.length + Len(entries)
  IN  [slots |-> [i \in DOMAIN w.slots |->
                    IF i \in w.length + 1 .. end THEN entries[i - w.length] ELSE w.slots[i]],
       length |-> end, seqlens |-> w.seqlens]

(* update() writes after length; sync_flash_decode_length catches up.      *)
Updated(w, entries) ==
  LET end == w.length + Len(entries)
  IN  [slots |-> [i \in DOMAIN w.slots |->
                    IF i \in w.length + 1 .. end THEN entries[i - w.length] ELSE w.slots[i]],
       length |-> end, seqlens |-> end]

(* The keys of a branch: the workspace's first slots where a graph decodes. *)
Keys(b) ==
  IF b = "cond" /\ request.graph THEN SubSeq(workspace.slots, 1, workspace.length) ELSE held[b]

-----------------------------------------------------------------------------
NoRequest == [entry |-> "t2i", sources |-> 0, scale |-> <<1, 1>>, think |-> FALSE,
              graph |-> FALSE, texts |-> [i \in 1 .. 3 |-> TRUE]]

Init ==
  /\ request = NoRequest /\ stage = "idle"
  /\ held = [b \in Branches |-> None] /\ tindex = [b \in Branches |-> 0]
  /\ flash = [b \in Branches |-> None] /\ placed = [b \in Branches |-> {}]
  /\ step = 0 /\ count = [text |-> 0, images |-> 0] /\ workspace = Fresh(0) /\ calls = 0

(* Buffers and positions for the patches, from the caches as they stand.   *)
Prepare(r, keys, t) ==
  /\ flash' = [b \in Branches |-> keys[b]]
  /\ placed' = [b \in Branches |-> IF b \in Built(r) THEN ImageIndexes(t[b]) ELSE {}]
  /\ step' = 0 /\ stage' = "denoise"

Forget(graph) == flash' = [b \in Branches |-> IF graph /\ b = "cond" THEN flash[b] ELSE None]

(* A call prefills its branches.  it2i_generate and t2i_generate without   *)
(* thinking go straight to their image.                                    *)
Call ==
  /\ stage = "idle" /\ calls < Calls /\ calls' = calls + 1
  /\ count' = [text |-> 0, images |-> 0]
  /\ \E r \in Requests :
       LET prefix == [b \in Branches |-> IF b \in Built(r) THEN Prefill(Prompt(r, b)) ELSE None]
           t == [b \in Branches |-> IF b \in Built(r) THEN Last(prefix[b]).t ELSE 0]
       IN  /\ request' = r /\ tindex' = t
           /\ held' = IF r.graph THEN [prefix EXCEPT !["cond"] = None] ELSE prefix
           /\ workspace' = IF r.graph THEN Reserved(r, prefix["cond"]) ELSE workspace
           /\ IF r.entry \in {"it2i", "t2i"} /\ ~r.think
                THEN Prepare(r, prefix, t)
                ELSE /\ stage' = (IF r.think THEN "think" ELSE "text")
                     /\ Forget(r.graph) /\ UNCHANGED <<placed, step>>

(* One decode of the conversation; past the workspace's end it raises.     *)
Exhausted(added) == request.graph /\ workspace.length + added > Capacity(workspace)

DecodedCond(token) ==
  /\ tindex' = [tindex EXCEPT !["cond"] = @ + 1]
  /\ IF request.graph
       THEN workspace' = Replayed(workspace, tindex["cond"], token) /\ UNCHANGED held
       ELSE /\ held' = [held EXCEPT !["cond"] = Decoded(@, tindex["cond"], token)]
            /\ UNCHANGED workspace

(* interleave_gen: text until <eos>, <img> or the token limit.             *)
Say ==
  /\ stage = "text" /\ request.entry = "chat" /\ ~Exhausted(1)
  /\ DecodedCond("word")
  /\ count' = [count EXCEPT !.text = @ + 1]
  /\ stage' = IF count'.text >= MaxNewTokens THEN "idle" ELSE "text"
  /\ UNCHANGED <<request, flash, placed, step, calls>>

Stop ==
  /\ stage = "text" /\ request.entry = "chat" /\ stage' = "idle"
  /\ UNCHANGED <<request, held, tindex, flash, placed, step, count, workspace, calls>>

(* <img> enters the conversation and its images, not the empty prompt,     *)
(* which ends with one for good.                                           *)
StartImage ==
  /\ stage = "text" /\ request.entry = "chat" /\ count.images < Pictures /\ ~Exhausted(1)
  /\ LET ws == IF request.graph THEN Replayed(workspace, tindex["cond"], "img") ELSE workspace
         t == [tindex EXCEPT !["cond"] = @ + 1, !["tu"] = @ + 1]
         grown == [held EXCEPT
                     !["cond"] = IF request.graph THEN None ELSE Decoded(@, tindex["cond"], "img"),
                     !["tu"] = Decoded(@, tindex["tu"], "img")]
     IN  /\ workspace' = ws /\ tindex' = t /\ held' = grown
         /\ Prepare(request,
                    IF request.graph THEN [grown EXCEPT !["cond"] = SubSeq(ws.slots, 1, ws.length)]
                                     ELSE grown, t)
  /\ UNCHANGED <<request, count, calls>>

(* interleave_gen_image_only: the next part of the given text, and the     *)
(* image that follows all parts but the last.                              *)
ReadPart ==
  /\ stage = "text" /\ request.entry = "given"
  /\ LET part == IF request.texts[count.text + 1] THEN <<"word">> ELSE <<>>
         cond == TextAppended(held["cond"], tindex["cond"], part)
         t == tindex["cond"] + Len(part)
         over == count.text = 2 \/ count.images >= Pictures
         grown == [held EXCEPT !["cond"] = IF over THEN cond ELSE TextAppended(cond, t, <<"img">>),
                               !["tu"] = IF over THEN @ ELSE TextAppended(@, tindex["tu"], <<"img">>)]
         at == IF over THEN [tindex EXCEPT !["cond"] = t]
                       ELSE [tindex EXCEPT !["cond"] = t + 1, !["tu"] = @ + 1]
     IN  /\ held' = grown /\ tindex' = at
         /\ IF over THEN stage' = "idle" /\ UNCHANGED <<flash, placed, step>>
                    ELSE Prepare(request, grown, at)
  /\ count' = [count EXCEPT !.text = @ + 1]
  /\ UNCHANGED <<request, workspace, calls>>

(* _generate_think: tokens until </think>, <eos> or the limit, then a      *)
(* break and <img>.                                                        *)
Think ==
  /\ stage = "think"
  /\ \/ /\ count.text < MaxThink
        /\ DecodedCond("word") /\ count' = [count EXCEPT !.text = @ + 1]
        /\ UNCHANGED <<stage, flash, placed, step>>
     \/ \E closing \in {<<"word">>, <<>>} :
          LET said == IF closing = <<>> THEN held["cond"]
                      ELSE Decoded(held["cond"], tindex["cond"], "word")
              grown == [held EXCEPT !["cond"] =
                          TextAppended(said, tindex["cond"] + Len(closing), <<"word", "img">>)]
              t == [tindex EXCEPT !["cond"] = @ + Len(closing) + 2]
          IN  /\ closing # <<>> => count.text < MaxThink
              /\ held' = grown /\ tindex' = t /\ Prepare(request, grown, t)
              /\ UNCHANGED <<count, workspace>>
  /\ UNCHANGED <<request, calls>>

-----------------------------------------------------------------------------
(* The patches attend to the buffer of each branch and leave caches alone. *)
Denoise ==
  /\ stage = "denoise" /\ step' = step + 1
  /\ stage' = IF step' = Denoisings THEN "finish" ELSE stage
  /\ UNCHANGED <<request, held, tindex, flash, placed, count, workspace, calls>>

(* The finished image is encoded for understanding and appended where the  *)
(* conversation goes on; the other entries return it.                      *)
FinishImage ==
  /\ stage = "finish"
  /\ flash' = [b \in Branches |-> None]
  /\ count' = [count EXCEPT !.images = @ + 1]
  /\ IF request.entry \in {"it2i", "t2i"}
       THEN stage' = "idle" /\ UNCHANGED <<held, tindex, workspace>>
       ELSE /\ ~Exhausted(Patches + 1) /\ stage' = "text"
            /\ tindex' = [tindex EXCEPT !["cond"] = @ + 2, !["tu"] = @ + 2]
            /\ LET cond == ImageAppended(Keys("cond"), tindex["cond"])
               IN  /\ workspace' = IF request.graph
                                     THEN Updated(workspace, SubSeq(cond, Len(Keys("cond")) + 1, Len(cond)))
                                     ELSE workspace
                   /\ held' = [held EXCEPT !["cond"] = IF request.graph THEN None ELSE cond,
                                           !["tu"] = ImageAppended(@, tindex["tu"])]
  /\ UNCHANGED <<request, placed, step, calls>>

(* An exception ends the call: a full workspace, or anything raised while  *)
(* denoising.  The workspace and the buffers on its layers stay behind.    *)
Raise ==
  /\ \/ stage = "text" /\ Exhausted(1)
     \/ stage = "finish" /\ request.entry = "chat" /\ Exhausted(Patches + 1)
     \/ stage = "denoise"
  /\ stage' = "idle" /\ Forget(request.graph)
  /\ UNCHANGED <<request, held, tindex, placed, step, count, workspace, calls>>

Next ==
  \/ Call \/ Say \/ Stop \/ StartImage \/ ReadPart \/ Think \/ Denoise \/ FinishImage \/ Raise

Spec == Init /\ [][Next]_gvars

-----------------------------------------------------------------------------
TypeOK ==
  /\ stage \in {"idle", "text", "think", "denoise", "finish"}
  /\ step \in 0 .. Denoisings /\ calls \in 0 .. Calls
  /\ DOMAIN held = Branches /\ DOMAIN tindex = Branches

Live == IF stage = "idle" THEN {} ELSE Built(request)

(* Whatever a call decodes, forces or appends, through a fixed-address     *)
(* workspace left over by another call or not, each branch holds the keys  *)
(* one prefill of its tokens would, and the next key goes to its end.      *)
CacheIsPrefill ==
  /\ \A b \in Live : Keys(b) = Prefill(TokensOf(Keys(b))) /\ tindex[b] = Last(Keys(b)).t
  /\ stage # "idle" /\ request.graph => workspace.seqlens = workspace.length

ImagesIn(keys) == Cardinality({i \in DOMAIN keys : keys[i].token = "/img"})

(* Whenever the patches are denoised, every branch a step may evaluate was *)
(* built, its buffer is its present cache and ends with the <img> they     *)
(* stand after, at the index their keys will have when the image is        *)
(* appended; the guidance compares the same images with and without text,  *)
(* against none.                                                           *)
BranchesAligned ==
  stage = "denoise" => \A use \in BOOLEAN : \A b \in Reads(request, use) :
    /\ b \in Built(request)
    /\ flash[b] = Keys(b) /\ Last(flash[b]).token = "img"
    /\ placed[b] = {<<e.t, e.h, e.w>> : e \in {e \in ToSet(ImageAppended(Keys(b), tindex[b])) :
                                             e.token = "patch" /\ e.t > tindex[b]}}
    /\ ImagesIn(flash[b]) = IF b = "iu" THEN 0 ELSE ImagesIn(Keys("cond"))
=============================================================================
