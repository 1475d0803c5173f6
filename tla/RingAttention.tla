---------------------------- MODULE RingAttention ----------------------------
(***************************************************************************)
(* Causal attention over a context group, double ring (ring_flash_attn/    *)
(* zigzag_ring_flash_attn_with_sliding_window.py).  The sequence is cut in *)
(* 2C chunks; context rank r holds chunks r and 2C-1-r, so that all ranks  *)
(* have equal work.  Keys travel inside a window of ranks, then from       *)
(* window to window; in the backward pass their gradients follow on rings  *)
(* of their own.  Sends and receives are asynchronous: data is read from   *)
(* the sender's buffer and written to the receiver's at any moment between *)
(* the two commits and the first of the two waits.                         *)
(***************************************************************************)
EXTENDS ProcessGroups, Bags

CONSTANT Shapes   \* [context, window, interleaved] of context groups

ASSUME ShapesAssumption ==
  \A s \in Shapes : /\ {s.context, s.window} \subseteq Nat \ {0}
                    /\ s.context % s.window = 0 /\ s.interleaved \in BOOLEAN

VARIABLES
  shape,   \* the context group
  pass,    \* "forward" or "backward"
  pc,      \* of each rank, the call it comes to: [j, s, at]
  buf,     \* buffers of each rank: whose keys, or the gradients gathered in it
  req,     \* of each rank and ring, what it committed and did not wait for
  out      \* of each rank, the blocks of scores it computed

vars == <<shape, pass, pc, buf, req, out>>

Ranks == 0 .. shape.context - 1
Rings == {"inter", "intra", "dkv inter", "dkv intra"}
NoRequest == [from |-> <<>>, to |-> <<>>, sent |-> TRUE, got |-> TRUE]

Attn(s) == [head |-> 1, context |-> s.context, window |-> s.window,
            headFirst |-> TRUE, interleaved |-> s.interleaved]
RingGroups(s, ring) ==
  IF ring \in {"intra", "dkv intra"} THEN Intra(s.context, Attn(s)) ELSE Inter(s.context, Attn(s))

(* Rank in each ring and the rank to send to, for every shape.              *)
Places ==
  [s \in Shapes |-> [ring \in Rings |-> [r \in 0 .. s.context - 1 |->
     LET g == GroupOf(RingGroups(s, ring), r)
         local == LocalRank(RingGroups(s, ring), r)
     IN  [rank |-> local, send |-> g[(local + 1) % Cardinality(DOMAIN g)]]]]]
Local(ring, r) == Places[shape][ring][r].rank
SendRank(ring, r) == Places[shape][ring][r].send

Chunk(r, half) == IF half = 0 THEN r ELSE 2 * shape.context - 1 - r

-----------------------------------------------------------------------------
(* Which halves of the queries meet which halves of the keys at step s of   *)
(* window j: before a rank's own keys come those of earlier chunks.         *)

Halves == {0, 1}

Meets(r, j, s) ==
  IF j = 0 /\ s = 0 THEN {<<0, 0>>, <<1, 0>>, <<1, 1>>}
  ELSE IF (j = 0 /\ s <= Local("intra", r)) \/ (j > 0 /\ j <= Local("inter", r))
  THEN Halves \X {0} ELSE {1} \X Halves

\* A causal kernel masks equal chunks; the others are whole.
Blocks(r, owner, j, s) ==
  {[q |-> Chunk(r, m[1]), k |-> Chunk(owner, m[2]), mask |-> j = 0 /\ s = 0 /\ m[1] = m[2]] :
     m \in Meets(r, j, s)}

-----------------------------------------------------------------------------
(* Keys(j, s) are the keys in hand at step s of window j, Grads the         *)
(* gradients that belong to them: a window takes two buffers in turn.       *)

Keys(j, s) == <<"keys", j, s>>
GradsInPlace(j, s) == <<"grads", j, 0>>   \* mutant: one buffer for the whole window
Grads(j, s) == <<"grads", j, s % 2>>

(* A buffer nothing arrived in yet: keys of nobody, gradients of nothing.   *)
Read(r, b, unwritten) == IF b \in DOMAIN buf[r] THEN buf[r][b] ELSE unwritten
Write(b, value, buffers) == [x \in DOMAIN buffers \union {b} |-> IF x = b THEN value ELSE buffers[x]]
Owner(r, j, s) == Read(r, Keys(j, s), -1)

(* Where a rank stands: before which call of step s of window j.  Calls     *)
(* under a condition that does not hold are passed over.                    *)

Window == shape.window
Windows == shape.context \div shape.window
Backward == pass = "backward"
Place(j, s, at) == [j |-> j, s |-> s, at |-> at]

AtCompute(j, s) ==
  IF Backward /\ (j > 0 \/ s > 0) THEN Place(j, s, "grads") ELSE Place(j, s, "compute")
AtStep(j, s) == IF s + 1 # Window THEN Place(j, s, "keys") ELSE AtCompute(j, s)
AtWindow(j) == IF j + 1 # Windows THEN Place(j, 0, "onward") ELSE AtStep(j, 0)
AfterWindow(j) ==
  Place(j + 1, 0, IF j + 1 # Windows THEN "window" ELSE IF Backward THEN "end" ELSE "done")
AfterStep(j, s) ==
  IF s + 1 # Window THEN AtStep(j, s + 1)
  ELSE IF Backward THEN Place(j, 0, "last") ELSE AfterWindow(j)
AfterKeys(j, s) == IF Backward THEN Place(j, s, "pass") ELSE AfterStep(j, s)
AfterCompute(j, s) == IF s + 1 # Window THEN Place(j, s, "arrival") ELSE AfterKeys(j, s)

At(r, point) == pc[r].at = point
Go(r, place) == pc' = [pc EXCEPT ![r] = place] /\ UNCHANGED <<shape, pass>>
Done(r) == At(r, "done")

\* Mutant: the first rank of a ring has no neighbour to exchange with.
CommitButFirst(r, ring, from, to) ==
  /\ req[r][ring] = NoRequest
  /\ req' = [req EXCEPT ![r][ring] =
       IF Local(ring, r) = 0 THEN [@ EXCEPT !.from = from]
       ELSE [from |-> from, to |-> to, sent |-> FALSE, got |-> FALSE]]

\* Committing a ring twice, or waiting for one not committed, raises.
Commit(r, ring, from, to) ==
  /\ req[r][ring] = NoRequest
  /\ req' = [req EXCEPT ![r][ring] = [from |-> from, to |-> to, sent |-> FALSE, got |-> FALSE]]

Wait(r, ring) ==
  /\ req[r][ring] # NoRequest /\ req[r][ring].sent /\ req[r][ring].got
  /\ req' = [req EXCEPT ![r][ring] = NoRequest]

-----------------------------------------------------------------------------
(* Between windows. *)

WaitWindow(r) ==
  /\ At(r, "window") /\ Wait(r, "inter")
  /\ Go(r, AtWindow(pc[r].j)) /\ UNCHANGED <<buf, out>>

SendWindow(r) ==
  LET j == pc[r].j IN
  /\ At(r, "onward") /\ Commit(r, "inter", Keys(j, 0), Keys(j + 1, 0))
  /\ Go(r, AtStep(j, 0)) /\ UNCHANGED <<buf, out>>

(* A step of a window. *)

SendKeys(r) ==
  LET j == pc[r].j
      s == pc[r].s
  IN  /\ At(r, "keys") /\ Commit(r, "intra", Keys(j, s), Keys(j, s + 1))
      /\ Go(r, AtCompute(j, s)) /\ UNCHANGED <<buf, out>>

WaitGrads(r) ==
  /\ At(r, "grads") /\ Wait(r, IF pc[r].s > 0 THEN "dkv intra" ELSE "dkv inter")
  /\ Go(r, Place(pc[r].j, pc[r].s, "compute")) /\ UNCHANGED <<buf, out>>

(* The blocks of scores at a rank's place; the first step of the first      *)
(* window starts the sum of gradients.  The kernel reads nothing that       *)
(* WaitGrads waits for, so the two make one step behind the wait.           *)
Compute(r) ==
  LET j == pc[r].j
      s == pc[r].s
      new == SetToBag(Blocks(r, Owner(r, j, s), j, s))
      sum == IF j = 0 /\ s = 0 THEN new ELSE Read(r, Grads(j, s), EmptyBag) (+) new
  IN  /\ At(r, "compute")
      /\ out' = [out EXCEPT ![r] = @ (+) new]
      /\ buf' = IF Backward THEN [buf EXCEPT ![r] = Write(Grads(j, s), sum, @)] ELSE buf
      /\ Go(r, AfterCompute(j, s)) /\ UNCHANGED req

WaitKeys(r) ==
  /\ At(r, "arrival") /\ Wait(r, "intra")
  /\ Go(r, AfterKeys(pc[r].j, pc[r].s)) /\ UNCHANGED <<buf, out>>

SendGrads(r) ==
  LET j == pc[r].j
      s == pc[r].s
  IN  /\ At(r, "pass") /\ Commit(r, "dkv intra", Grads(j, s), Grads(j, s + 1))
      /\ Go(r, AfterStep(j, s)) /\ UNCHANGED <<buf, out>>

(* The end of a window of the backward pass, and of the pass. *)

WaitLast(r) ==
  /\ At(r, "last") /\ Wait(r, "dkv intra")
  /\ Go(r, Place(pc[r].j, 0, "home")) /\ UNCHANGED <<buf, out>>

SendHome(r) ==
  LET j == pc[r].j IN
  /\ At(r, "home") /\ Commit(r, "dkv inter", Grads(j, Window), Grads(j + 1, 0))
  /\ Go(r, AfterWindow(j)) /\ UNCHANGED <<buf, out>>

WaitHome(r) ==
  /\ At(r, "end") /\ Wait(r, "dkv inter")
  /\ Go(r, Place(Windows, 0, "done")) /\ UNCHANGED <<buf, out>>

(* A transfer happens when both ends have committed it. *)
Transfer(r, ring) ==
  LET peer == SendRank(ring, r)
      value == Read(r, req[r][ring].from, EmptyBag)
  IN  /\ ~req[r][ring].sent /\ ~req[peer][ring].got
      /\ buf' = [buf EXCEPT ![peer] = Write(req[peer][ring].to, value, @)]
      /\ req' = IF peer = r THEN [req EXCEPT ![r][ring].sent = TRUE, ![r][ring].got = TRUE]
                ELSE [req EXCEPT ![r][ring].sent = TRUE, ![peer][ring].got = TRUE]
      /\ UNCHANGED <<shape, pass, pc, out>>

Finished == (\A r \in Ranks : Done(r)) /\ UNCHANGED vars

Init ==
  /\ shape \in Shapes /\ pass \in {"forward", "backward"}
  /\ pc = [r \in Ranks |-> AtWindow(0)]
  /\ buf = [r \in Ranks |-> [b \in {Keys(0, 0)} |-> r]]
  /\ req = [r \in Ranks |-> [ring \in Rings |-> NoRequest]]
  /\ out = [r \in Ranks |-> EmptyBag]

Step(r) ==
  \/ WaitWindow(r) \/ SendWindow(r) \/ SendKeys(r) \/ WaitGrads(r) \/ Compute(r)
  \/ WaitKeys(r) \/ SendGrads(r) \/ WaitLast(r) \/ SendHome(r) \/ WaitHome(r)

Next ==
  \/ \E r \in Ranks : Step(r) \/ \E ring \in Rings : Transfer(r, ring)
  \/ Finished

Spec == Init /\ [][Next]_vars
FairSpec == Spec /\ WF_vars(Next)

-----------------------------------------------------------------------------
CausalBlocks ==
  {[q |-> i, k |-> j, mask |-> i = j] : i \in 0 .. 2 * shape.context - 1, j \in 0 .. 2 * shape.context - 1}
Causal(Mine(_)) == SetToBag({b \in CausalBlocks : b.k <= b.q /\ Mine(b)})
Holds(r, chunk) == chunk \in {Chunk(r, 0), Chunk(r, 1)}

(* Every rank's queries meet every chunk of keys that is not later than     *)
(* their own exactly once, and none that is later, in both passes.          *)
CausalOnce ==
  \A r \in Ranks : Done(r) => out[r] = Causal(LAMBDA b : Holds(r, b.q))

(* The gradients of a rank's keys come home with what every rank added,     *)
(* once each: no buffer is overwritten or added to while it is in transfer, *)
(* and no gradient is added to that of other keys.                          *)
GradientsComeHome ==
  \A r \in Ranks : Done(r) /\ pass = "backward" =>
    Read(r, Grads(shape.context \div shape.window, 0), EmptyBag) = Causal(LAMBDA b : Holds(r, b.k))

(* Both: what the passes compute is the causal attention and its gradients. *)
RingExact == CausalOnce /\ GradientsComeHome

(* No rank waits for another for ever: what one commits its neighbours do.  *)
RingsComplete == <>(\A r \in Ranks : Done(r))
=============================================================================
