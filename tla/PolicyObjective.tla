--------------------------- MODULE PolicyObjective ---------------------------
(***************************************************************************)
(* What one update of the policy optimises: the image transitions that a   *)
(* rollout records and a replay evaluates again (rl/rollout.py), the two   *)
(* branches of the objective (rl/flow.py, rl/objective.py) as              *)
(* _replay_backward accumulates them slice by slice on every rank          *)
(* (rl/trainer.py), and the advantages (rl/advantage.py, rl/conditioned.py).*)
(*                                                                         *)
(* Flow time runs over 0..One.  A latent, a velocity, the mean and scale   *)
(* of a transition and a likelihood are the terms they are computed from.  *)
(* Ratios are tenths; a mean is kept exact as a multiple of 1 / Unit.      *)
(***************************************************************************)
EXTENDS Integers, FiniteSets, SequencesExt

One == 12
Unit == 5040

Sum(s) == FoldLeft(LAMBDA a, b : a + b, 0, s)
Joined(s) == FoldLeft(LAMBDA a, b : a \o b, <<>>, s)
Least(a, b) == IF a < b THEN a ELSE b
Greatest(S) == CHOOSE x \in S : \A y \in S : y <= x
Rows(n) == 0 .. n - 1

-----------------------------------------------------------------------------
(* The steps of the schedule that are sampled with noise.                   *)

Selectable(w) ==
  /\ 0 <= w.first /\ w.first < w.end /\ w.end <= w.total
  /\ w.count \in 1 .. w.end - w.first

SelectSdeIndices(w) ==
  [k \in 1 .. w.count |->
     IF w.count = 1 THEN w.first ELSE w.first + ((k - 1) * (w.end - w.first - 1)) \div (w.count - 1)]

Prepared(ts) ==
  /\ Len(ts) >= 2 /\ ts[1] = 0 /\ ts[Len(ts)] = One /\ ts[2] < One
  /\ \A i \in 1 .. Len(ts) - 1 : ts[i] < ts[i + 1]

-----------------------------------------------------------------------------
(* Transitions.  At sigma = One the largest interior sigma replaces it in   *)
(* the diffusion coefficient.                                               *)

Velocity(policy, sample, t) == <<"velocity", policy, sample, t>>

SdeTransition(velocity, sample, sigma, prev, interior) ==
  LET noise == <<sigma, IF sigma = One THEN interior ELSE sigma>>
  IN  [mean |-> <<sample, velocity, sigma, prev, noise>>, scale |-> <<noise, sigma - prev>>]

\* Flow time runs against sigma.
Transition(velocity, sample, t, next, interior) ==
  SdeTransition(velocity, sample, One - t, One - next, interior)

\* The standard deviation is positive and finite.
HasDensity(tr) ==
  tr.scale[1][1] > 0 /\ tr.scale[1][2] \in 1 .. One - 1 /\ tr.scale[2] > 0

Drawn(tr, index) == <<"drawn", tr, index>>
Euler(sample, velocity, t, next) == <<"euler", sample, velocity, t, next>>
LogProb(prev, tr) == <<"density", prev, tr>>

StepOf(policy, batch, ts, indices, run, index) ==
  LET t == ts[index + 1]
      next == ts[index + 2]
      v == [r \in Rows(batch) |-> Velocity(policy, run.sample[r], t)]
      tr == [r \in Rows(batch) |-> Transition(v[r], run.sample[r], t, next, One - ts[2])]
      prev == [r \in Rows(batch) |-> IF index \in ToSet(indices) THEN Drawn(tr[r], index)
                                     ELSE Euler(run.sample[r], v[r], t, next)]
      record == [sample |-> run.sample, prev |-> prev, old |-> [r \in Rows(batch) |-> LogProb(prev[r], tr[r])],
                 mean |-> [r \in Rows(batch) |-> tr[r].mean], t |-> t, next |-> next, index |-> index]
  IN  [sample |-> prev,
       steps |-> IF index \in ToSet(indices) THEN Append(run.steps, record) ELSE run.steps]

SampleImage(policy, batch, ts, indices) ==
  LET run == FoldLeft(LAMBDA run, index : StepOf(policy, batch, ts, indices, run, index),
                      [sample |-> [r \in Rows(batch) |-> <<"noise", r>>], steps |-> <<>>],
                      [i \in 1 .. Len(ts) - 1 |-> i - 1])
  IN  [batch |-> batch, steps |-> run.steps, final |-> run.sample, interior |-> One - ts[2]]

TraceAccepted(trace) ==
  /\ trace.steps # <<>> /\ trace.interior \in 1 .. One - 1
  /\ \A k \in DOMAIN trace.steps : trace.steps[k].t < trace.steps[k].next
  /\ \A k \in 1 .. Len(trace.steps) - 1 : trace.steps[k].index < trace.steps[k + 1].index

\* _validated_image_replay_geometry: the schedule is still the recorded one.
ScheduleUnchanged(trace, ts) ==
  \A k \in DOMAIN trace.steps :
    LET s == trace.steps[k] IN ts[s.index + 1] = s.t /\ ts[s.index + 2] = s.next

-----------------------------------------------------------------------------
(* Replays: for each action the velocity, its transition and its likelihood. *)

Evaluated(policy, trace, sample, prev, t, next) ==
  LET v == Velocity(policy, sample, t)
      tr == Transition(v, sample, t, next, trace.interior)
  IN  [velocity |-> v, transition |-> tr, log |-> LogProb(prev, tr)]

Replay(policy, trace) ==
  [k \in DOMAIN trace.steps |->
     LET s == trace.steps[k]
     IN  [r \in Rows(trace.batch) |-> Evaluated(policy, trace, s.sample[r], s.prev[r], s.t, s.next)]]

Actions(trace) == Len(trace.steps) * trace.batch
FlatStep(trace, a) == trace.steps[(a \div trace.batch) + 1]

\* Mutant: the timesteps are tiled instead of repeated for each row.
FlatTimesTiled(trace, a) ==
  LET s == trace.steps[(a % Len(trace.steps)) + 1] IN <<s.t, s.next>>

FlatTimes(trace, a) == <<FlatStep(trace, a).t, FlatStep(trace, a).next>>

Chunks(n, size) ==
  [c \in 1 .. (n + size - 1) \div size |->
     [first |-> (c - 1) * size, end |-> Least(c * size, n)]]

\* Every chunk of the flattened actions is evaluated; the whole is reshaped.
ReplayBatched(policy, trace, size) ==
  LET Flat(c) == [i \in 1 .. c.end - c.first |->
                    LET a == c.first + i - 1
                    IN  Evaluated(policy, trace, FlatStep(trace, a).sample[a % trace.batch],
                                  FlatStep(trace, a).prev[a % trace.batch],
                                  FlatTimes(trace, a)[1], FlatTimes(trace, a)[2])]
      chunks == Chunks(Actions(trace), size)
      all == Joined([c \in DOMAIN chunks |-> Flat(chunks[c])])
  IN  [k \in DOMAIN trace.steps |-> [r \in Rows(trace.batch) |-> all[(k - 1) * trace.batch + r + 1]]]

SliceTrace(trace, c) == [trace EXCEPT !.steps = SubSeq(@, c.first + 1, c.end)]

\* Every action carries the advantage of its row.
BranchInputs(replay, batch, advantages) ==
  Joined([k \in DOMAIN replay |->
            [r \in 1 .. batch |-> [log |-> replay[k][r - 1].log, advantage |-> advantages[r - 1]]]])

(* An image replayed with the parameters that sampled it has the recorded   *)
(* likelihoods, whatever the batching; under other parameters, and for the  *)
(* reference, each velocity is the one of the recorded latent at the        *)
(* recorded time; slices of a trace replay to slices of its replay.         *)
ReplayExact(w, ts, batch) ==
  LET indices == SelectSdeIndices(w)
      trace == SampleImage("old", batch, ts, indices)
      advantages == [r \in Rows(batch) |-> r + 1]
  IN  /\ Cardinality(ToSet(indices)) = w.count
      /\ ToSet(indices) \subseteq w.first .. w.end - 1 /\ w.first \in ToSet(indices)
      /\ w.count > 1 => w.end - 1 \in ToSet(indices)
      /\ TraceAccepted(trace) /\ ScheduleUnchanged(trace, ts)
      /\ \A policy \in {"old", "new", "reference"} :
           LET replay == Replay(policy, trace) IN
           /\ \A k \in DOMAIN trace.steps, r \in Rows(batch) :
                /\ HasDensity(replay[k][r].transition)
                /\ replay[k][r].velocity = Velocity(policy, trace.steps[k].sample[r], trace.steps[k].t)
                /\ policy = "old" => /\ replay[k][r].log = trace.steps[k].old[r]
                                     /\ replay[k][r].transition.mean = trace.steps[k].mean[r]
           /\ \A size \in 1 .. Actions(trace) : ReplayBatched(policy, trace, size) = replay
           /\ batch = 1 => \A size \in 1 .. Len(trace.steps) :
                Joined([c \in DOMAIN Chunks(Len(trace.steps), size) |->
                   ReplayBatched(policy, SliceTrace(trace, Chunks(Len(trace.steps), size)[c]),
                     Actions(SliceTrace(trace, Chunks(Len(trace.steps), size)[c])))]) = replay
           /\ ToSet(BranchInputs(replay, batch, advantages)) =
                {[log |-> replay[k][r].log, advantage |-> advantages[r]] :
                   k \in DOMAIN trace.steps, r \in Rows(batch)}

-----------------------------------------------------------------------------
(* Text: spans of rows, whose entries are actions or padding.               *)

Real(row) == SelectSeq(row, LAMBDA e : e.real)
Padding == [real |-> FALSE, action |-> <<"pad">>]

ConcatenateSpans(spans, batch) ==
  LET row == [r \in Rows(batch) |-> Joined([s \in DOMAIN spans |-> Real(spans[s][r])])]
      width == Greatest({Len(row[r]) : r \in Rows(batch)})
  IN  [r \in Rows(batch) |-> row[r] \o [i \in 1 .. width - Len(row[r]) |-> Padding]]

TextAccepted(span, batch) == \A r \in Rows(batch) : Real(span[r]) # <<>>

\* anchor_rollout_with_metrics: the events of one rollout take the replayed
\* likelihoods in turn.  A text event is one row; an image event its steps.
Anchored(events, texts, images) ==
  LET Next(done, e) ==
        IF e.kind = "text"
        THEN LET Before(i) == Len(Real(SubSeq(e.row, 1, i)))
                 old == [i \in DOMAIN e.row |->
                           IF e.row[i].real THEN texts[done.text + Before(i)] ELSE <<"zero">>]
             IN  [done EXCEPT !.events = Append(@, old), !.text = @ + Before(Len(e.row))]
        ELSE [done EXCEPT !.events = Append(@, images[done.image + 1]), !.image = @ + 1]
  IN  FoldLeft(Next, [events |-> <<>>, text |-> 0, image |-> 0], events)

(* Padding of a span never becomes an action, actions keep their order, and *)
(* the anchor gives each event the likelihoods replayed for that event.     *)
TextExact(spans, batch) ==
  LET joined == ConcatenateSpans(spans, batch)
      events == Joined([s \in DOMAIN spans |-> <<[kind |-> "text", row |-> spans[s][0]], [kind |-> "image"]>>])
      texts == [i \in DOMAIN Real(joined[0]) |-> Real(joined[0])[i].action]
      anchored == Anchored(events, texts, [s \in DOMAIN spans |-> <<"image", s>>])
  IN  /\ TextAccepted(joined, batch)
      /\ \A r, q \in Rows(batch) : Len(joined[r]) = Len(joined[q])
      /\ \A r \in Rows(batch) :
           /\ Real(joined[r]) = Joined([s \in DOMAIN spans |-> Real(spans[s][r])])
           /\ \A i \in DOMAIN joined[r] : joined[r][i].real <=> i <= Len(Real(joined[r]))
      /\ anchored.text = Len(texts) /\ anchored.image = Len(spans)
      /\ \A s \in DOMAIN spans :
           /\ anchored.events[2 * s] = <<"image", s>>
           /\ \A i \in DOMAIN spans[s][0] :
                anchored.events[2 * s - 1][i] =
                  IF spans[s][0][i].real THEN spans[s][0][i].action ELSE <<"zero">>

-----------------------------------------------------------------------------
(* The objective.  An action has its ratio and its distance to the          *)
(* reference, [ratio, distance].                                            *)

Clamp(x, low, high) == IF x < low THEN low ELSE IF x > high THEN high ELSE x
Mean(xs) == (Unit * Sum(xs)) \div Len(xs)
MapSeq(s, F(_)) == [i \in DOMAIN s |-> F(s[i])]

\* The worse of the clipped and the unclipped surrogate.
Surrogate(advantage, ratio, clip) ==
  Greatest({- advantage * ratio, - advantage * Clamp(ratio, 10 - clip, 10 + clip)})

PolicyLoss(advantage, actions, clip) == Mean(MapSeq(actions, LAMBDA a : Surrogate(advantage, a.ratio, clip)))
ReferenceLoss(actions) == Mean(MapSeq(actions, LAMBDA a : a.distance))

\* Mean over a trajectory's actions, then over trajectories; padding is zero.
MaskedTrajectoryMean(rows, F(_)) ==
  LET PerRow(row) == (Unit * Sum([i \in DOMAIN row |-> IF row[i].real THEN F(row[i].action) ELSE 0]))
                       \div Len(Real(row))
  IN  Sum(MapSeq(rows, PerRow)) \div Len(rows)

\* The rows of one rollout: its actions.
TextRows(actions) == <<MapSeq(actions, LAMBDA a : [real |-> TRUE, action |-> a])>>
TextPolicyLoss(advantage, actions, clip) ==
  MaskedTrajectoryMean(TextRows(actions), LAMBDA a : Surrogate(advantage, a.ratio, clip))
TextKlLoss(actions) == MaskedTrajectoryMean(TextRows(actions), LAMBDA a : a.distance)

\* An absent branch is an exact zero.
UniGdpoLoss(plan, advantage, image, text) ==
  [image |-> IF image = <<>> THEN 0 ELSE PolicyLoss(advantage, image, plan.imageClip),
   mse |-> IF image = <<>> THEN 0 ELSE ReferenceLoss(image),
   text |-> IF text = <<>> THEN 0 ELSE TextPolicyLoss(advantage, text, plan.textClip),
   kl |-> IF text = <<>> THEN 0 ELSE TextKlLoss(text)]

\* Several images of one trajectory weigh as many as their actions.
ComputeUniGdpoLoss(plan, advantage, images, text) ==
  LET total == Sum(MapSeq(images, Len))
      parts == MapSeq(images, LAMBDA a : UniGdpoLoss(plan, advantage, a, <<>>))
      Weighted(F(_)) == Sum([k \in DOMAIN images |-> (F(parts[k]) * Len(images[k])) \div total])
      words == UniGdpoLoss(plan, advantage, <<>>, text)
  IN  plan.image * Weighted(LAMBDA u : u.image) + plan.mse * Weighted(LAMBDA u : u.mse)
        + plan.text * words.text + plan.kl * words.kl

-----------------------------------------------------------------------------
(* _replay_backward of one rollout: text span by span, then each image in   *)
(* slices, every part weighted by its actions.                              *)

EventsOf(rollout, kind) == SelectSeq(rollout, LAMBDA e : e.kind = kind)
ActionsOf(rollout, kind) == Joined(MapSeq(EventsOf(rollout, kind), LAMBDA e : e.actions))

SlicesOf(event, size) ==
  LET chunks == Chunks(Len(event.actions), size)
  IN  [c \in DOMAIN chunks |-> SubSeq(event.actions, chunks[c].first + 1, chunks[c].end)]

ImageSlices(rollout, size) ==
  Joined(MapSeq(EventsOf(rollout, "image"), LAMBDA e : SlicesOf(e, size)))

TextParts(plan, rollout, item, total) ==
  LET all == Len(ActionsOf(rollout, "text"))
      words == [plan EXCEPT !.image = 0, !.mse = 0, !.text = 1]
  IN  MapSeq(EventsOf(rollout, "text"), LAMBDA e :
        (((ComputeUniGdpoLoss(words, item.advantage, <<>>, e.actions) * Len(e.actions)) \div all) * item.weight) \div total)

\* Mutant: slices weigh alike.
ImagePartsAlike(plan, rollout, item, total) ==
  LET slices == ImageSlices(rollout, plan.microbatch)
      pixels == [plan EXCEPT !.text = 0, !.kl = 0]
  IN  MapSeq(slices, LAMBDA s :
        ((ComputeUniGdpoLoss(pixels, item.advantage, <<s>>, <<>>) \div Len(slices)) * item.weight) \div total)

ImageParts(plan, rollout, item, total) ==
  LET all == Len(ActionsOf(rollout, "image"))
      pixels == [plan EXCEPT !.text = 0, !.kl = 0]
  IN  MapSeq(ImageSlices(rollout, plan.microbatch), LAMBDA s :
        (((ComputeUniGdpoLoss(pixels, item.advantage, <<s>>, <<>>) * Len(s)) \div all) * item.weight) \div total)

\* The backward calls of a stream: the parts each covers, and whether the
\* graph of the prefix stays for the next.
TextBackwards(rollout) ==
  LET n == Len(EventsOf(rollout, "text")) IN [k \in 1 .. n |-> [parts |-> <<k>>, retain |-> k < n]]

ImageBackwards(plan, rollout) ==
  LET counts == MapSeq(EventsOf(rollout, "image"), LAMBDA e : Len(SlicesOf(e, plan.microbatch)))
      boundaries == {Sum(SubSeq(counts, 1, k)) : k \in DOMAIN counts}
      Part(run, k) ==
        IF k \in boundaries
        THEN [pending |-> <<>>,
              calls |-> Append(run.calls, [parts |-> Append(run.pending, k), retain |-> k < Sum(counts)])]
        ELSE [run EXCEPT !.pending = Append(@, k)]
  IN  FoldLeft(Part, [pending |-> <<>>, calls |-> <<>>], [k \in 1 .. Sum(counts) |-> k])

\* Every part is differentiated once, and the last call alone frees the graph.
GraphFreedOnce(calls, parts) ==
  /\ Joined(MapSeq(calls, LAMBDA c : c.parts)) = [k \in 1 .. parts |-> k]
  /\ \A k \in DOMAIN calls : calls[k].retain <=> k < Len(calls)

RatioErrors(rollout) ==
  MapSeq(ActionsOf(rollout, "text") \o ActionsOf(rollout, "image"),
         LAMBDA a : Greatest({a.ratio - 10, 10 - a.ratio}))

\* One rank's part of the update.  Padding keeps step with the others.
ReplayBackward(plan, rollouts, items, total) ==
  LET Parts(item) == TextParts(plan, rollouts[item.rollout], item, total)
                       \o ImageParts(plan, rollouts[item.rollout], item, total)
      real == SelectSeq(items, LAMBDA item : item.weight = 1)
      errors == Joined(MapSeq(real, LAMBDA item : RatioErrors(rollouts[item.rollout])))
  IN  [loss |-> Sum(Joined(MapSeq(items, Parts))), error |-> Sum(errors), count |-> Len(errors),
       worst |-> Greatest({0} \union ToSet(errors))]

AllReduced(ranks) ==
  LET Over(F(_)) == Sum([r \in DOMAIN ranks |-> F(ranks[r])])
  IN  [loss |-> Over(LAMBDA m : m.loss) \div Len(ranks), error |-> Over(LAMBDA m : m.error),
       count |-> Over(LAMBDA m : m.count), worst |-> Greatest({ranks[r].worst : r \in DOMAIN ranks})]
Reduced(plan, rollouts, schedule, total) ==
  AllReduced([r \in DOMAIN schedule |-> ReplayBackward(plan, rollouts, schedule[r], total)])

(* However the rollouts are distributed over the ranks and their images are *)
(* sliced, one update differentiates the mean over all rollouts of each     *)
(* one's own objective, and reports the ratio of every real action once.    *)
UpdateIs(update, plan, rollouts, advantages) ==
  LET n == Len(rollouts)
      errors == Joined(MapSeq(rollouts, RatioErrors))
      Own(x) == ComputeUniGdpoLoss([plan EXCEPT !.text = 1], advantages[x],
                  MapSeq(EventsOf(rollouts[x], "image"), LAMBDA e : e.actions), ActionsOf(rollouts[x], "text"))
  IN  /\ n * update.loss = Sum([x \in 1 .. n |-> Own(x)])
      /\ update.error = Sum(errors) /\ update.count = Len(errors)
      /\ update.worst = Greatest(ToSet(errors))
      /\ \A x \in 1 .. n :
           /\ GraphFreedOnce(TextBackwards(rollouts[x]), Len(EventsOf(rollouts[x], "text")))
           /\ ImageBackwards(plan, rollouts[x]).pending = <<>>
           /\ GraphFreedOnce(ImageBackwards(plan, rollouts[x]).calls,
                             Len(ImageSlices(rollouts[x], plan.microbatch)))
UpdateExact(plan, rollouts, advantages, schedule) ==
  UpdateIs(Reduced(plan, rollouts, schedule, Len(rollouts) \div Len(schedule)), plan, rollouts, advantages)

-----------------------------------------------------------------------------
(* Advantages.  A reward is [available, value]; each reward dimension is     *)
(* normalised inside its group, the weighted sum over the whole batch.  A   *)
(* deviation is scaled by the size of its population, and eps is left out:  *)
(* a population without spread has advantage 0.                             *)

Root(n) == CHOOSE r \in 0 .. n : r * r = n

CombinedRewards(batches) == Joined(MapSeq(batches, LAMBDA b : b.rows))
GroupIds(batches) == Joined([g \in DOMAIN batches |-> [i \in DOMAIN batches[g].rows |-> g]])
Scorable(batches) ==
  /\ Len(batches) >= 2
  /\ \A i \in DOMAIN CombinedRewards(batches) : \E d \in DOMAIN CombinedRewards(batches)[i] :
       CombinedRewards(batches)[i][d].available

Members(rewards, groups, g, d) == {i \in DOMAIN rewards : groups[i] = g /\ rewards[i][d].available}
SumOver(S, F(_)) == FoldLeft(LAMBDA a, i : a + F(i), 0, SetToSeq(S))

Moments(rewards, groups, g, d) ==
  LET members == Members(rewards, groups, g, d)
      count == Cardinality(members)
      total == SumOver(members, LAMBDA i : rewards[i][d].value)
      Deviation(i) == count * rewards[i][d].value - total
  IN  [count |-> count, total |-> total, squares |-> SumOver(members, LAMBDA i : Deviation(i) * Deviation(i))]

\* A value alone in its group has nothing to be compared with.
Normal(rewards, groups, i, d) ==
  LET m == Moments(rewards, groups, groups[i], d)
  IN  IF rewards[i][d].available /\ m.count > 1 /\ m.squares > 0
      THEN (m.count * rewards[i][d].value - m.total) \div Root(m.squares \div (m.count - 1))
      ELSE 0

Aggregate(rewards, groups, weights) ==
  [i \in DOMAIN rewards |-> Sum([d \in DOMAIN weights |-> weights[d] * Normal(rewards, groups, i, d)])]

\* Each advantage is deviation / sqrt(squares / (n - 1)) of the batch.
NormalizeBatch(aggregate) ==
  LET n == Len(aggregate)
      deviation == [i \in 1 .. n |-> n * aggregate[i] - Sum(aggregate)]
  IN  [deviation |-> deviation, squares |-> Sum([i \in 1 .. n |-> deviation[i] * deviation[i]])]

GdpoAdvantage(rewards, groups, weights) == NormalizeBatch(Aggregate(rewards, groups, weights))

\* The ablation sums raw rewards first and normalises once per group.
RawsumAdvantage(rewards, groups, weights) ==
  LET summed == [i \in DOMAIN rewards |-> <<[available |-> TRUE, value |->
                   Sum([d \in DOMAIN weights |->
                          IF rewards[i][d].available THEN weights[d] * rewards[i][d].value ELSE 0])]>>]
      Of(i) == Moments(summed, groups, groups[i], 1)
  IN  [i \in DOMAIN rewards |->
         [deviation |-> IF Of(i).count > 1 THEN Of(i).count * summed[i][1].value - Of(i).total ELSE 0,
          squares |-> Of(i).squares]]

\* Of the final-answer gates, semantics is paid only for what parses.
Conditions(gates) ==
  IF {"parse", "semantic"} \subseteq gates THEN {[dimension |-> 2, requires |-> {1}]} ELSE {}

Conditioned(rewards, conditions) ==
  LET Met(i, c) == \A d \in c.requires : rewards[i][d].available /\ rewards[i][d].value >= 1
  IN  [i \in DOMAIN rewards |-> [d \in DOMAIN rewards[i] |->
         IF \E c \in conditions : c.dimension = d /\ ~Met(i, c)
         THEN [rewards[i][d] EXCEPT !.value = 0] ELSE rewards[i][d]]]

RewardAdvantages(batches, weights, conditions) ==
  GdpoAdvantage(Conditioned(CombinedRewards(batches), conditions), GroupIds(batches), weights)

(* Advantages compare a rollout with its own group: a shift of one group's  *)
(* rewards or another unit of a dimension leaves them as they are, a reward *)
(* without contrast or missing adds nothing, and they sum to zero; an       *)
(* unmet condition never makes a missing reward present.                    *)
AdvantagesCompare(batches, weights) ==
  LET rewards == CombinedRewards(batches)
      groups == GroupIds(batches)
      Result(x) == GdpoAdvantage(x, groups, weights)
      Changed(g, d, F(_)) == [i \in DOMAIN rewards |->
        IF groups[i] = g THEN [rewards[i] EXCEPT ![d].value = F(@)] ELSE rewards[i]]
      raw == RawsumAdvantage(rewards, groups, weights)
      conditioned == Conditioned(rewards, Conditions({"parse", "semantic"}))
  IN  /\ Sum(RewardAdvantages(batches, weights, {}).deviation) = 0
      /\ \A g \in DOMAIN batches, d \in DOMAIN weights :
           LET rows == {i \in DOMAIN rewards : groups[i] = g} IN
           /\ SumOver(rows, LAMBDA i : Normal(rewards, groups, i, d)) = 0
           /\ Cardinality(Members(rewards, groups, g, d)) <= 1 =>
                \A i \in rows : Normal(rewards, groups, i, d) = 0
           /\ Result(Changed(g, d, LAMBDA v : v + 5)) = Result(rewards)
           /\ Result(Changed(g, d, LAMBDA v : 2 * v)) = Result(rewards)
           /\ SumOver(rows, LAMBDA i : raw[i].deviation) = 0
      /\ \A i \in DOMAIN rewards : \A d \in DOMAIN weights :
           /\ conditioned[i][d].available = rewards[i][d].available
           /\ rewards[i][1].available /\ rewards[i][1].value >= 1 => conditioned[i] = rewards[i]
=============================================================================
