---------------------------- MODULE MCGeneration ----------------------------
(* Either one rollout with its replays, or a few calls of the generation   *)
(* entry points; the other machine stays where it is.                      *)
EXTENDS PolicySession

CONSTANTS MaxNewTokens, MaxThink, Pictures, Denoisings, Scales, Calls

ASSUME GenerationAssumption ==
  {MaxNewTokens, MaxThink, Pictures, Calls} \subseteq Nat /\ Denoisings \in Nat \ {0}

VARIABLES request, stage, held, tindex, flash, placed, step, count, workspace, calls

generation == <<request, stage, held, tindex, flash, placed, step, count, workspace, calls>>

G == INSTANCE InterleavedGeneration

MCPrompts == {<<"word">>, <<"word">> \o Image \o <<"word">>, [i \in 1 .. MaxLength |-> "word"]}
MCScales == {<<1, 1>>, <<2, 1>>, <<2, 2>>, <<3, 2>>, <<1, 2>>}

NoSession ==
  /\ input = [prompt |-> <<"word">>, modality |-> "ti2t", backend |-> "flash", reference |-> FALSE]
  /\ phase = "done" /\ cache = Prefill(<<"word">>) /\ t = 0 /\ tail = TRUE
  /\ span = NoSpan /\ events = <<>>
  /\ pass = 0 /\ at = [event |-> 1, slice |-> 0] /\ again = <<>> /\ u = 0 /\ pending = 0
  /\ replayed = [texts |-> <<>>, images |-> <<>>] /\ offsets = [text |-> 0, image |-> 0]
  /\ anchored = <<>> /\ shards = Current /\ full = Current /\ used = Current

EitherInit == G!Init /\ (Init \/ NoSession)

EitherNext ==
  \/ Next /\ UNCHANGED generation
  \/ phase = "done" /\ pass = 0 /\ G!Next /\ UNCHANGED <<input, phase, rolling, replaying>>

EitherSpec == EitherInit /\ [][EitherNext]_<<vars, generation>>

CachesArePrefills == CacheIsPrefill /\ G!CacheIsPrefill
BranchesAligned == G!BranchesAligned
=============================================================================
