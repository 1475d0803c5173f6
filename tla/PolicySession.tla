---------------------------- MODULE PolicySession ----------------------------
(***************************************************************************)
(* One rollout of the RL policy and the passes that replay it:             *)
(* src/sensenova_u1/rl/policy_runtime.py with rollout.py, driven by        *)
(* _replay_backward of trainer.py.  A rollout samples text spans and       *)
(* images into one cache; the anchor, the frozen reference, the text pass  *)
(* and the image pass each rebuild that cache from the recorded events.    *)
(***************************************************************************)
EXTENDS KvCache, TLC

CONSTANTS
  MaxLength,     \* plan.max_sequence_length
  MaxImages,     \* plan.max_images
  Steps,         \* plan.sde_window_steps: actions of an image
  Microbatch,    \* plan.image_replay_microbatch_size
  Prompts        \* token sequences of prompts

ASSUME SessionAssumption ==
  /\ {MaxLength, Steps, Microbatch} \subseteq Nat \ {0} /\ MaxImages \in Nat
  /\ Prompts \subseteq Seq(Tokens) \ {<<>>}

(* The images of a prompt are whole, and text follows the last one.        *)
ASSUME PromptAssumption ==
  \A prompt \in Prompts :
    /\ Last(prompt) # "img"
    /\ Cardinality({i \in DOMAIN prompt : prompt[i] = "patch"}) % Patches = 0

Modalities == {"ti2t", "ti2ti"}
Backends == {"flash", "sdpa"}
Passes == <<"anchor", "reference", "text", "image">>

VARIABLES
  input,      \* prompt, modality, attention backend, whether the loss needs the reference
  phase,      \* where the rollout or its replay is: one of Phases
  cache, t,   \* the rollout's cache and its last temporal index
  tail,       \* text_only_tail
  span,       \* the span being sampled: [from, t, image, left, tokens]
  events,     \* what was recorded: [kind, tokens, from, t]
  pass,       \* index of the pass under way
  at,         \* the event it comes to, and the actions of it already sliced
  again, u,   \* the pass's own cache and its last temporal index
  pending,    \* image losses not yet backpropagated
  replayed,   \* the anchor's likelihoods, concatenated: [texts, images]
  offsets,    \* how much of each the events have taken back: [text, image]
  anchored,   \* old_log_probs as the anchor stored them, per event
  shards,     \* whose parameters the FSDP shards hold
  full,       \* whose parameters the language root holds gathered, or "none"
  used        \* whose parameters the last forward of the pass used

rolling == <<cache, t, tail, span, events>>
anchoring == <<replayed, offsets, anchored>>
replaying == <<pass, at, again, u, pending, anchoring, shards, full, used>>
vars == <<input, phase, rolling, replaying>>

Phases ==
  {"loop", "span", "image", "rolled", "pass", "anchor", "between", "done", "raised", "failed"}

Current == "current"
Reference == "reference"
NoSpan == [from |-> 0, t |-> 0, image |-> FALSE, left |-> 0, tokens |-> <<>>]

Init ==
  /\ input \in [prompt : Prompts, modality : Modalities, backend : Backends, reference : BOOLEAN]
  /\ phase = IF Len(input.prompt) >= MaxLength THEN "raised" ELSE "loop"
  /\ cache = Prefill(input.prompt) /\ t = Last(cache).t
  /\ tail = (input.modality = "ti2t" \/ MaxImages = 0)
  /\ span = NoSpan /\ events = <<>>
  /\ pass = 0 /\ at = [event |-> 1, slice |-> 0] /\ again = <<>> /\ u = 0 /\ pending = 0
  /\ replayed = [texts |-> <<>>, images |-> <<>>] /\ offsets = [text |-> 0, image |-> 0]
  /\ anchored = <<>>
  /\ shards = Current /\ full = Current /\ used = Current

-----------------------------------------------------------------------------
(* Rollout                                                                 *)

ImagesOf(es) == Cardinality({i \in DOMAIN es : es[i].kind = "image"})

\* Mutant: the end token of an image is not counted.
GeneratedPatchTokens == Patches

(* Cache tokens an image takes after its <img>.                            *)
GeneratedImageContextTokens == Patches + 1

(* Room for the span's text, less an image and one token to follow it.     *)
Reserve(image) == IF image THEN GeneratedImageContextTokens + 1 ELSE 0
Room(image) == MaxLength - Len(cache) - Reserve(image)

NextSpan ==
  /\ phase = "loop"
  /\ LET image == input.modality = "ti2ti" /\ ~tail
         fits == MaxLength - Len(cache) >= Reserve(image) + 1
     IN  IF Len(cache) >= MaxLength
           THEN phase' = "rolled" /\ UNCHANGED <<tail, span>>
           ELSE /\ phase' = "span" /\ tail' = (tail \/ ~fits)
                /\ span' = [from |-> Len(cache), t |-> t, image |-> image /\ fits,
                            left |-> Room(image /\ fits), tokens |-> <<>>]
  /\ UNCHANGED <<input, cache, t, events, replaying>>

Stops == {"eos"} \union IF span.image THEN {"img"} ELSE {}

SpanEvent(tokens) == [kind |-> "text", tokens |-> tokens, from |-> span.from, t |-> span.t]

(* <img> is masked unless an image may follow.  Every sampled token enters *)
(* the cache, the one that stops the span too.                             *)
Sample ==
  /\ phase = "span"
  /\ \E token \in {"word"} \union Stops :
       LET tokens == Append(span.tokens, token)
           over == token \in Stops \/ span.left = 1
           full2 == Len(cache) + 1 >= MaxLength
       IN  /\ cache' = Decoded(cache, t, token) /\ t' = t + 1
           /\ span' = [span EXCEPT !.tokens = tokens, !.left = @ - 1]
           /\ events' = IF over THEN Append(events, SpanEvent(tokens)) ELSE events
           /\ phase' = IF ~over THEN "span"
                       ELSE IF token = "img" THEN "image"
                       ELSE IF token = "eos" \/ ~span.image \/ full2 THEN "rolled"
                       ELSE "loop"
           /\ tail' = (tail \/ phase' = "loop")
  /\ UNCHANGED <<input, replaying>>

(* The denoising reads the cache and leaves it alone; the finished image   *)
(* is encoded again and appended.                                          *)
SampleImage ==
  /\ phase = "image"
  /\ events' = Append(events, [kind |-> "image", tokens |-> <<>>, from |-> Len(cache), t |-> t])
  /\ cache' = ImageAppended(cache, t) /\ t' = t + 2
  /\ phase' = IF Len(cache') > MaxLength THEN "raised" ELSE "loop"
  /\ tail' = (tail \/ ImagesOf(events') >= MaxImages)
  /\ UNCHANGED <<input, span, replaying>>

-----------------------------------------------------------------------------
(* Replay                                                                  *)

Gathered == IF full = "none" THEN shards ELSE full

(* reference_parameters copies shards: the gathered root is released first. *)
Enter(p) ==
  /\ pass' = p /\ phase' = "pass" /\ at' = [event |-> 1, slice |-> 0] /\ pending' = 0
  /\ again' = Prefill(input.prompt) /\ u' = Last(again').t
  /\ LET released == Passes[p] = "reference"
     IN  /\ shards' = IF released THEN Reference ELSE shards
         /\ full' = IF released THEN shards' ELSE Gathered
  /\ used' = full'
  /\ UNCHANGED <<input, rolling, anchoring>>

\* Mutant: the shards come back and the gathered root stays.
RestoredUnreleased ==
  IF Passes[pass] = "reference" THEN shards' = Current /\ UNCHANGED full
                                ELSE UNCHANGED <<shards, full>>

(* Leaving the reference releases the root again and copies back.          *)
Restored ==
  IF Passes[pass] = "reference" THEN shards' = Current /\ full' = "none"
                                ELSE UNCHANGED <<shards, full>>

Start == phase = "rolled" /\ Enter(1)

Event == events[at.event]
Count(tokens) == Len(tokens)

(* Action k of an event is <<event, k>>.  The anchor's replay concatenates  *)
(* the likelihoods of all text actions, and lists those of the images.      *)
Own(e) ==
  [k \in 1 .. (IF events[e].kind = "text" THEN Count(events[e].tokens) ELSE 1) |-> <<e, k>>]

Evaluated ==
  replayed' = IF Passes[pass] # "anchor" THEN replayed
              ELSE IF Event.kind = "text" THEN [replayed EXCEPT !.texts = @ \o Own(at.event)]
              ELSE [replayed EXCEPT !.images = @ \o Own(at.event)]

(* A span forced as a whole; without flash attention the mask is explicit. *)
ReplayMask(i, n) == Len(again) + i
TextReplayed(tokens) ==
  again \o [i \in DOMAIN tokens |-> Entry(tokens[i], u + i, 0, 0, ReplayMask(i, Count(tokens)))]

(* The text pass yields each span for a backward, which reshards the root; *)
(* the embedding of the next image's end gathers it again.                 *)
ReplayText ==
  /\ phase = "pass" /\ at.event \in DOMAIN events /\ Event.kind = "text"
  /\ again' = TextReplayed(Event.tokens) /\ u' = u + Count(Event.tokens)
  /\ at' = [event |-> at.event + 1, slice |-> 0]
  /\ used' = Gathered
  /\ full' = IF Passes[pass] = "text" THEN "none" ELSE Gathered
  /\ Evaluated
  /\ UNCHANGED <<input, phase, rolling, pass, pending, offsets, anchored, shards>>

LastImage == at.event = Max({i \in DOMAIN events : events[i].kind = "image"})

AppendReplayed ==
  /\ again' = ImageAppended(again, u) /\ u' = u + 2
  /\ at' = [event |-> at.event + 1, slice |-> 0]

(* Anchor and reference evaluate an image at once, the text pass only      *)
(* appends it.                                                             *)
ReplayImage ==
  /\ phase = "pass" /\ at.event \in DOMAIN events /\ Event.kind = "image"
  /\ Passes[pass] # "image"
  /\ AppendReplayed /\ Evaluated
  /\ used' = Gathered /\ full' = Gathered
  /\ UNCHANGED <<input, phase, rolling, pass, pending, offsets, anchored, shards>>

(* The image pass takes one slice of actions at a time; the trainer runs a *)
(* backward where its own count of slices says an image ends.              *)
SlicesOf(steps) == (steps + Microbatch - 1) \div Microbatch
Boundaries == {n * SlicesOf(Steps) : n \in 1 .. ImagesOf(events)}
SlicesBefore(e) == ImagesOf(SubSeq(events, 1, e - 1)) * SlicesOf(Steps)

ReplaySlice ==
  /\ phase = "pass" /\ Passes[pass] = "image"
  /\ at.event \in DOMAIN events /\ Event.kind = "image" /\ at.slice * Microbatch < Steps
  /\ LET done == SlicesBefore(at.event) + at.slice + 1
     IN  /\ pending' = IF done \in Boundaries THEN 0 ELSE pending + 1
         /\ full' = IF done \in Boundaries THEN "none" ELSE Gathered
  /\ used' = Gathered
  /\ at' = [at EXCEPT !.slice = @ + 1]
  /\ UNCHANGED <<input, phase, rolling, pass, again, u, anchoring, shards>>

(* The last image is not appended: nothing is replayed after it.           *)
NextImage ==
  /\ phase = "pass" /\ Passes[pass] = "image"
  /\ at.event \in DOMAIN events /\ Event.kind = "image" /\ at.slice * Microbatch >= Steps
  /\ IF LastImage
       THEN /\ at' = [event |-> Len(events) + 1, slice |-> 0]
            /\ UNCHANGED <<again, u, full, used>>
       ELSE AppendReplayed /\ used' = Gathered /\ full' = Gathered
  /\ UNCHANGED <<input, phase, rolling, pass, pending, anchoring, shards>>

EndPass ==
  /\ phase = "pass"
  /\ \/ at.event > Len(events)
     \/ Passes[pass] = "image" /\ ImagesOf(events) = 0
  /\ phase' = IF Passes[pass] = "anchor" THEN "anchor"
              ELSE IF pass < Len(Passes) THEN "between"
              ELSE IF pending = 0 THEN "done" ELSE "raised"
  /\ at' = [event |-> 1, slice |-> 0]
  /\ Restored
  /\ UNCHANGED <<input, rolling, pass, again, u, pending, anchoring, used>>

(* anchor_rollout_with_metrics cuts the concatenation back into events,    *)
(* text and images each by an offset of their own ...                      *)
CutText ==
  /\ phase = "anchor" /\ at.event \in DOMAIN events /\ Event.kind = "text"
  /\ LET count == Count(Event.tokens)
     IN  /\ anchored' =
              Append(anchored, SubSeq(replayed.texts, offsets.text + 1, offsets.text + count))
         /\ offsets' = [offsets EXCEPT !.text = @ + count]
  /\ at' = [at EXCEPT !.event = @ + 1]
  /\ UNCHANGED <<input, phase, rolling, pass, again, u, pending, replayed, shards, full, used>>

CutImage ==
  /\ phase = "anchor" /\ at.event \in DOMAIN events /\ Event.kind = "image"
  /\ anchored' = Append(anchored, <<replayed.images[offsets.image + 1]>>)
  /\ offsets' = [offsets EXCEPT !.image = @ + 1]
  /\ at' = [at EXCEPT !.event = @ + 1]
  /\ UNCHANGED <<input, phase, rolling, pass, again, u, pending, replayed, shards, full, used>>

(* ... and raises unless they have consumed all of it.                     *)
EndAnchor ==
  /\ phase = "anchor" /\ at.event > Len(events)
  /\ phase' = IF offsets = [text |-> Len(replayed.texts), image |-> Len(replayed.images)]
                THEN "between" ELSE "raised"
  /\ UNCHANGED <<input, rolling, replaying>>

(* Without a regularizer that consumes it there is no reference pass.      *)
NextPass ==
  phase = "between"
    /\ Enter(IF Passes[pass + 1] = "reference" /\ ~input.reference THEN pass + 2 ELSE pass + 1)

(* A forward may raise; the reference gives the shards back even so.       *)
Fail ==
  /\ phase = "pass" /\ phase' = "failed" /\ Restored
  /\ UNCHANGED <<input, rolling, pass, at, again, u, pending, anchoring, used>>

Next ==
  \/ NextSpan \/ Sample \/ SampleImage
  \/ Start \/ ReplayText \/ ReplayImage \/ ReplaySlice \/ NextImage \/ EndPass
  \/ CutText \/ CutImage \/ EndAnchor \/ NextPass \/ Fail

Spec == Init /\ [][Next]_vars

-----------------------------------------------------------------------------
TypeOK ==
  /\ phase \in Phases
  /\ {shards, full, used} \subseteq {Current, Reference, "none"}
  /\ pass \in 0 .. Len(Passes) /\ pending \in Nat

(* Whatever mixture of decoding, forced text and appended images built it, *)
(* a cache is the one a single prefill of its tokens would build: the keys *)
(* of a token do not depend on the pass that computed them.                *)
CacheIsPrefill ==
  /\ cache = Prefill(TokensOf(cache)) /\ t = Last(cache).t
  /\ pass > 0 => again = Prefill(TokensOf(again)) /\ u = Last(again).t

(* Every pass comes to an event with the cache and the index the rollout   *)
(* sampled it from, and evaluates it with the parameters of its policy;    *)
(* the anchor leaves each event its own actions' likelihoods.              *)
SameContext ==
  phase = "pass" /\ at.event \in DOMAIN events =>
    again = SubSeq(cache, 1, Event.from) /\ u = Event.t
OwnParameters ==
  /\ phase = "pass" => used = (IF Passes[pass] = "reference" THEN Reference ELSE Current)
  /\ phase \in {"between", "done", "failed"} => shards = Current /\ full # Reference
OwnActions ==
  /\ \A e \in DOMAIN anchored : anchored[e] = Own(e)
  /\ phase \in {"between", "done"} => Len(anchored) = Len(events)
ReplayMatchesRollout == SameContext /\ OwnParameters /\ OwnActions

(* A rollout stays inside max_sequence_length, never generates more than   *)
(* max_images, and an image always leaves room for the text after it, so   *)
(* its last event is text; no pass stops inside an image's actions.        *)
StaysInContext ==
  /\ Len(cache) <= MaxLength \/ Len(input.prompt) >= MaxLength
  /\ phase = "raised" => Len(input.prompt) >= MaxLength
  /\ ImagesOf(events) <= MaxImages
  /\ phase = "rolled" => Last(events).kind = "text"
=============================================================================
