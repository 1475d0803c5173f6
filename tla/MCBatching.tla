----------------------------- MODULE MCBatching -----------------------------
(***************************************************************************)
(* Samples cut into batches for every rank: either one replay schedule or  *)
(* one packed stream; the other machine stays where it is.                 *)
(* The stream has two datasets, packs of 25 tokens and three images, at    *)
(* most two buffers.                                                       *)
(***************************************************************************)
EXTENDS ReplaySchedule, PackedStream

Shape(t, n) == [tokens |-> t, images |-> n]

\* A full row, a nearly full one, and two that fill a pack together.
MCShapes == {Shape(25, 0), Shape(24, 1), Shape(9, 2), Shape(16, 0)}

MCRows ==
  {[a |-> ra, b |-> rb] :
     ra \in {<<>>} \union [1 .. 3 -> MCShapes], rb \in {<<>>, <<Shape(9, 1), Shape(9, 1)>>}}

\* The shares that even, small and capped workers are estimated to hold.
MCEstimates == {[a |-> 3, b |-> 2], [a |-> 1, b |-> 1], [a |-> 4, b |-> 1]}

MCConfigurations ==
  {c \in [rows : MCRows, estimate : MCEstimates, packed : SUBSET {"b"},
          replacement : BOOLEAN, overflow : BOOLEAN] :
     c.packed # {} => c.rows["b"] # <<>> /\ ~c.overflow}

NoSchedule ==
  /\ signature = [i \in Rollouts |-> "t"] /\ collected = 0 /\ bucket = [s \in Signatures |-> <<>>]
  /\ bucketOrder = <<>> /\ current = 1 /\ offset = 0 /\ rankCursor = 0 /\ schedule = <<>>
  /\ phase = "done"

NoStream ==
  /\ cfg = [rows |-> [d \in Datasets |-> <<>>], estimate |-> [d \in Datasets |-> 1], packed |-> {},
            replacement |-> FALSE, overflow |-> FALSE]
  /\ stage = "end" /\ epoch = Epochs /\ positive = {} /\ clock = 0
  /\ read = [d \in Datasets |-> 0] /\ consumed = [d \in Datasets |-> 0]
  /\ buffers = <<>> /\ full = <<>> /\ last = Shape(0, 0) /\ delivered = <<>>

EitherInit == (ScheduleInit /\ NoStream) \/ (Init /\ NoSchedule)

EitherNext ==
  \/ ScheduleNext /\ UNCHANGED vars
  \/ Next /\ UNCHANGED scheduleVars

EitherSpec == EitherInit /\ [][EitherNext]_<<scheduleVars, vars>> /\ WF_vars(Next)
=============================================================================
