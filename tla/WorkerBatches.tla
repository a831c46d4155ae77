--------------------------- MODULE WorkerBatches ---------------------------
(* From the plans of a cycle to the order in which worker batches start:   *)
(* the packet gate, the handoff chains, the three ways of batching, the    *)
(* hard cap, the tightening, the split by ordered steps and the loop over  *)
(* the batches (src/src/core/orchestrator.ts, worker_batch_planner.ts and  *)
(* plan_contract_validator.ts).                                            *)
(*                                                                         *)
(* Data. A plan is its place in the list, and what the batching reads of   *)
(* it: the worker's role, the wave, the ordered steps, the tokens, whether *)
(* it has dependencies, whether it touches the one file that plans may     *)
(* share, whether it is risky enough for a chain, and the batch index that *)
(* Athena gave it (0: none).  Plans are listed in the order of priority,   *)
(* so the sorts by priority and critical path inside a wave keep it.       *)
EXTENDS Naturals, SequencesExt

CONSTANTS
  Shapes,     \* the plans there can be, as records without place and index
  MaxTasks,   \* the plans of a cycle
  Roles,      \* worker roles are 1..Roles, in the order of their names
  LastWave,   \* waves are 1..LastWave, chains included
  GateCap,    \* planner.maxActionableStepsPerPacket: steps the gate admits
  StepCap,    \* OVERBUNDLE_STEPS_THRESHOLD: steps of a batch at dispatch
  MaxPlans,   \* MAX_ACTIONABLE_STEPS_PER_PACKET: plans of a batch
  MaxMerged,  \* runtime.tightRoleWavePackingMaxMergedPlans
  DepCap,     \* MAX_PLANS_PER_DEPENDENCY_BATCH
  Usable      \* usable context tokens of the model

ASSUME BatchAssumption ==
  /\ {Roles, LastWave, StepCap, MaxPlans, MaxMerged, DepCap, Usable} \subseteq Nat \ {0}
  /\ MaxTasks \in Nat /\ GateCap \in Nat
  /\ Shapes \subseteq [role : 1..Roles, wave : 1..LastWave, steps : Nat \ {0},
                       tokens : Nat, deps : BOOLEAN, shared : BOOLEAN, risky : BOOLEAN]
  /\ \A shape \in Shapes : shape.risky => shape.wave + 2 <= LastWave

VARIABLES
  plans,    \* the plans, in the order given
  batches,  \* the worker batches, in the order they are dispatched
  path,     \* which way the batches were made
  stage,    \* the step of the cycle that comes next
  next,     \* the batch to run
  done      \* the <<task, stage>> of the plans whose batch succeeded

vars == <<plans, batches, path, stage, next, done>>

Evolution == 1        \* evolution-worker, the first role by name
Quality == Roles      \* quality-worker, the last one

---------------------------------------------------------------------------
(* Plans and batches *)

Name(p) == <<p.task, p.stage>>

\* Plans without an index count as the first batch.
Index(p) == IF p.index = 0 THEN 1 ELSE p.index

Total(ps, cost) == FoldLeft(LAMBDA n, p : n + p[cost], 0, ps)

HasDeps(ps) == \E i \in DOMAIN ps : ps[i].deps

\* The elements of s that are in X, in their order.
Among(s, X) == FoldLeft(LAMBDA out, e : IF e \in X THEN Append(out, e) ELSE out, << >>, s)

\* A stable sort by wave, of plans or of batches.
ByWave(s) == FlattenSeq([w \in 1..LastWave |-> Among(s, {e \in ToSet(s) : e.wave = w})])

\* Packs filled in turn: a plan that would take the last one past the cap
\* opens another.
PackedBy(ps, cost, cap) ==
  FoldLeft(LAMBDA packs, p :
             IF packs # << >> /\ Total(Last(packs), cost) + p[cost] <= cap
               THEN [packs EXCEPT ![Len(packs)] = Append(@, p)]
               ELSE Append(packs, <<p>>),
           << >>, ps)

\* Mutant: a last chunk that is not full is forgotten.
ChunkedWhole(ps, n) ==
  IF Len(ps) < n THEN <<ps>>
  ELSE [k \in 1..(Len(ps) \div n) |-> SubSeq(ps, (k - 1) * n + 1, k * n)]

Chunked(ps, n) ==
  [k \in 1..((Len(ps) + n - 1) \div n) |->
     SubSeq(ps, (k - 1) * n + 1, Min({k * n, Len(ps)}))]

Batch(role, wave, ps) ==
  [role |-> role, wave |-> wave, plans |-> ps, usable |-> Usable,
   tokens |-> Total(ps, "tokens"), steps |-> Total(ps, "steps")]

---------------------------------------------------------------------------
(* Gate 12 of the pre-dispatch governance gate: oversized packets *)

\* The plans that share a role and a batch index with p.
RoleGroup(p) == Among(plans, {q \in ToSet(plans) : q.role = p.role /\ q.index = p.index})

Oversized == \E i \in DOMAIN plans : Total(RoleGroup(plans[i]), "steps") > GateCap

\* One role's plans in one original batch, packed again.
Repacked(o, r) ==
  PackedBy(Among(plans, {p \in ToSet(plans) : Index(p) = o /\ p.role = r}), "steps", GateCap)

SlotsOf(o) == Max({Len(Repacked(o, r)) : r \in 1..Roles})

\* Batches after one that was split move up.
ShiftOf(o) ==
  LET earlier == {Index(plans[i]) : i \in DOMAIN plans} \cap 1..(o - 1)
  IN MapThenSumSet(LAMBDA e : SlotsOf(e) - 1, earlier)

Rebatched ==
  [i \in DOMAIN plans |->
     LET p == plans[i]
         o == Index(p)
         packs == Repacked(o, p.role)
         slot == CHOOSE k \in DOMAIN packs : p \in ToSet(packs[k])
     IN [p EXCEPT !.index = o + ShiftOf(o) + slot - 1]]

---------------------------------------------------------------------------
(* Typed handoff chains *)

\* Architect, implementation and verification, one wave after the other, with
\* batch indexes of their own.
StagesOf(p, cursor) ==
  [k \in 1..3 |-> [p EXCEPT !.stage = k, !.wave = @ + k - 1,
                            !.role = IF k = 2 THEN Evolution ELSE Quality,
                            !.index = cursor + k - 1]]

Expanded ==
  FlattenSeq([i \in DOMAIN plans |->
    IF plans[i].risky
      THEN StagesOf(plans[i],
                    1 + 3 * Cardinality({j \in 1..(i - 1) : plans[j].risky}))
      ELSE <<plans[i]>>])

---------------------------------------------------------------------------
(* The three ways of batching *)

\* Mutant: the batches carry their step count.
PrebatchedCounted ==
  LET indexes == {Index(plans[i]) : i \in DOMAIN plans}
      Prebuilt(i) ==
        LET ps == Among(plans, {p \in ToSet(plans) : Index(p) = i})
        IN Batch(Head(ps).role, Head(ps).wave, ps)
  IN ByWave(FlattenSeq([i \in 1..Max(indexes) |->
       IF i \in indexes THEN <<Prebuilt(i)>> ELSE << >>]))

\* Athena's batches: role and wave of the first plan, and no step count.
PrebatchedBatches ==
  LET indexes == {Index(plans[i]) : i \in DOMAIN plans}
      Prebuilt(i) ==
        LET ps == Among(plans, {p \in ToSet(plans) : Index(p) = i})
        IN [role |-> Head(ps).role, wave |-> Head(ps).wave, plans |-> ps,
            usable |-> 0, tokens |-> 0, steps |-> 0]
  IN ByWave(FlattenSeq([i \in 1..Max(indexes) |->
       IF i \in indexes THEN <<Prebuilt(i)>> ELSE << >>]))

\* Roles after the specialist routing: fit is the role that a plan's fit score
\* locks (Evolution: none); a specialist below its fill threshold with no locked
\* plan hands its plans to the evolution worker.
Routed(fit, below) ==
  LET chosen == [i \in DOMAIN plans |-> IF fit[i] = Evolution THEN plans[i].role ELSE fit[i]]
      Locked(r) == \E i \in DOMAIN plans : fit[i] = r /\ r # Evolution
  IN [i \in DOMAIN plans |->
        [plans[i] EXCEPT !.role = IF chosen[i] \in below /\ ~Locked(chosen[i])
                                    THEN Evolution ELSE chosen[i]]]

\* The first pack with room and without a file of the plan's.
FirstFit(ps) ==
  FoldLeft(LAMBDA packs, p :
             LET fits == {i \in DOMAIN packs :
                            /\ Total(packs[i], "tokens") + p.tokens <= Usable
                            /\ \A j \in DOMAIN packs[i] : ~(p.shared /\ packs[i][j].shared)}
             IN IF fits = {} THEN Append(packs, <<p>>)
                             ELSE [packs EXCEPT ![Min(fits)] = Append(@, p)],
           << >>, ps)

\* Role by role, and within a role wave by wave.
TokenFirstBatches(ps) ==
  FlattenSeq([r \in 1..Roles |->
    FlattenSeq([w \in 1..LastWave |->
      LET packs == FirstFit(Among(ps, {p \in ToSet(ps) : p.role = r /\ p.wave = w}))
      IN [k \in DOMAIN packs |-> Batch(r, w, packs[k])]])])

\* A pack joins the fullest earlier one that it fits.
Compacted(packs) ==
  FoldLeft(LAMBDA out, c :
             LET fits == {i \in DOMAIN out :
                            /\ Total(out[i] \o c, "tokens") <= Usable
                            /\ HasDeps(out[i] \o c) => Len(out[i] \o c) <= DepCap}
                 best == CHOOSE i \in fits : \A j \in fits :
                           \/ Total(out[i], "tokens") > Total(out[j], "tokens")
                           \/ Total(out[i], "tokens") = Total(out[j], "tokens") /\ i <= j
             IN IF fits = {} THEN Append(out, c) ELSE [out EXCEPT ![best] = @ \o c],
           << >>, packs)

\* The packs of one role in one wave.
RoleWavePacks(ps) ==
  LET full == PackedBy(ps, "tokens", Usable)
  IN Compacted(FlattenSeq([k \in DOMAIN full |->
       IF HasDeps(full[k]) THEN Chunked(full[k], DepCap) ELSE <<full[k]>>]))

\* The tokens that a pack is said to have, of those cut from the full ones: a
\* chunk that merged with no other keeps its share of the whole pack's tokens, by
\* the number of its plans and rounded; any other pack is counted again.
Estimated(full, c) ==
  LET cut == {k \in DOMAIN full : HasDeps(full[k]) /\ Contains(Chunked(full[k], DepCap), c)}
      whole == full[CHOOSE k \in cut : TRUE]
  IN IF cut = {} THEN Total(c, "tokens")
     ELSE (2 * Total(whole, "tokens") * Len(c) + Len(whole)) \div (2 * Len(whole))

RoleWaveBatches(r, w, ps) ==
  LET packs == RoleWavePacks(ps)
      full == PackedBy(ps, "tokens", Usable)
  IN [k \in DOMAIN packs |-> [Batch(r, w, packs[k]) EXCEPT !.tokens = Estimated(full, packs[k])]]

RolesInTurn(ps) ==
  FoldLeft(LAMBDA rs, p : IF Contains(rs, p.role) THEN rs ELSE Append(rs, p.role), << >>, ps)

\* Mutant: the batches stay role by role.
RoleSplitUnsorted ==
  LET ordered == ByWave(plans)
      roles == RolesInTurn(ordered)
  IN FlattenSeq([n \in DOMAIN roles |->
       FlattenSeq([w \in 1..LastWave |->
         RoleWaveBatches(roles[n], w,
           Among(ordered, {p \in ToSet(ordered) : p.role = roles[n] /\ p.wave = w}))])])

\* Role by role too, but sorted by wave at the end.
RoleSplitBatches ==
  LET ordered == ByWave(plans)
      roles == RolesInTurn(ordered)
  IN ByWave(FlattenSeq([n \in DOMAIN roles |->
       FlattenSeq([w \in 1..LastWave |->
         RoleWaveBatches(roles[n], w,
           Among(ordered, {p \in ToSet(ordered) : p.role = roles[n] /\ p.wave = w}))])]))

---------------------------------------------------------------------------
(* After the batching *)

\* What a chunk does not set it has from its batch, tokens and steps too.
CappedBatches ==
  FlattenSeq([i \in DOMAIN batches |->
    LET chunks == Chunked(batches[i].plans, MaxPlans)
    IN [k \in DOMAIN chunks |-> [batches[i] EXCEPT !.plans = chunks[k]]]])

\* Mutant: the number of plans is not looked at.
MergeableUncapped(prev, b) ==
  /\ prev.role = b.role /\ prev.wave = b.wave
  /\ ~HasDeps(prev.plans \o b.plans)
  /\ prev.usable = 0 \/ prev.tokens + b.tokens <= prev.usable

Mergeable(prev, b) ==
  LET cap == IF prev.usable # 0 THEN prev.usable ELSE b.usable
  IN /\ prev.role = b.role /\ prev.wave = b.wave
     /\ Len(prev.plans) + Len(b.plans) <= MaxMerged
     /\ ~HasDeps(prev.plans \o b.plans)
     /\ cap = 0 \/ prev.tokens + b.tokens <= cap

\* Neighbours of one role and wave merge; the first one's step count stays.
TightBatches ==
  FoldLeft(LAMBDA out, b :
             IF out # << >> /\ Mergeable(Last(out), b)
               THEN [out EXCEPT ![Len(out)].plans = @ \o b.plans,
                                ![Len(out)].tokens = @ + b.tokens]
               ELSE Append(out, b),
           << >>, batches)

OverStepped(b) == b.steps > StepCap

Unsplittable(b) == OverStepped(b) /\ \E i \in DOMAIN b.plans : b.plans[i].steps > StepCap

StepChunks(b) ==
  LET packs == PackedBy(b.plans, "steps", StepCap)
  IN IF ~OverStepped(b) \/ Len(packs) = 1 THEN <<b>>
     ELSE [k \in DOMAIN packs |->
             [b EXCEPT !.plans = packs[k], !.steps = Total(packs[k], "steps")]]

SplitBatches == FlattenSeq([i \in DOMAIN batches |-> StepChunks(batches[i])])

---------------------------------------------------------------------------
(* The cycle *)

\* Athena numbers every plan, without gaps; its fast paths approve plans as they
\* come, none of them risky.
Init ==
  /\ \E n \in 1..MaxTasks : \E shape \in [1..n -> Shapes] : \E index \in [1..n -> 0..n] :
       /\ \/ \A i \in 1..n : index[i] = 0 /\ ~shape[i].risky
          \/ \E total \in 1..n : {index[i] : i \in 1..n} = 1..total
       /\ plans = [i \in 1..n |->
            [task |-> i, stage |-> 0, index |-> index[i], role |-> shape[i].role,
             wave |-> shape[i].wave, steps |-> shape[i].steps, tokens |-> shape[i].tokens,
             deps |-> shape[i].deps, shared |-> shape[i].shared, risky |-> shape[i].risky]]
  /\ batches = << >> /\ path = "none" /\ stage = "gate" /\ next = 1 /\ done = {}

GateBlocks ==
  /\ stage = "gate"
  /\ \E i \in DOMAIN plans : plans[i].steps > GateCap
  /\ stage' = "blocked"
  /\ UNCHANGED <<plans, batches, path, next, done>>

GateAdmits ==
  /\ stage = "gate"
  /\ \A i \in DOMAIN plans : plans[i].steps <= GateCap
  /\ plans' = IF Oversized THEN Rebatched ELSE plans
  /\ stage' = "chain"
  /\ UNCHANGED <<batches, path, next, done>>

ExpandChains ==
  /\ stage = "chain"
  /\ plans' = Expanded
  /\ stage' = "batch"
  /\ UNCHANGED <<batches, path, next, done>>

\* The first plan's index alone says that Athena made the batches.
Prebatched == plans[1].index # 0

UsePrebatched ==
  /\ stage = "batch" /\ Prebatched
  /\ batches' = PrebatchedBatches
  /\ path' = "prebatched" /\ stage' = "cap"
  /\ UNCHANGED <<plans, next, done>>

\* planner.tokenFirstPacking is on unless it is set to false.
PackTokenFirst ==
  /\ stage = "batch" /\ ~Prebatched
  /\ \E fit \in [DOMAIN plans -> 1..Roles], below \in SUBSET (2..Roles) :
       batches' = TokenFirstBatches(Routed(fit, below))
  /\ path' = "tokenFirst" /\ stage' = "cap"
  /\ UNCHANGED <<plans, next, done>>

PackByRole ==
  /\ stage = "batch" /\ ~Prebatched
  /\ batches' = RoleSplitBatches
  /\ path' = "roleSplit" /\ stage' = "cap"
  /\ UNCHANGED <<plans, next, done>>

ApplyHardCap ==
  /\ stage = "cap"
  /\ batches' = CappedBatches
  /\ stage' = "tighten"
  /\ UNCHANGED <<plans, path, next, done>>

Tighten ==
  /\ stage = "tighten"
  /\ batches' = TightBatches
  /\ stage' = "split"
  /\ UNCHANGED <<plans, path, next, done>>

BlockOverStepped ==
  /\ stage = "split"
  /\ \E i \in DOMAIN batches : Unsplittable(batches[i])
  /\ stage' = "blocked"
  /\ UNCHANGED <<plans, batches, path, next, done>>

SplitOverStepped ==
  /\ stage = "split"
  /\ \A i \in DOMAIN batches : ~Unsplittable(batches[i])
  /\ batches' = SplitBatches
  /\ stage' = "dispatch"
  /\ UNCHANGED <<plans, path, next, done>>

StartBatch ==
  /\ stage = "dispatch" /\ next <= Len(batches)
  /\ stage' = "running"
  /\ UNCHANGED <<plans, batches, path, next, done>>

BatchSucceeds ==
  /\ stage = "running"
  /\ done' = done \cup {Name(batches[next].plans[i]) : i \in DOMAIN batches[next].plans}
  /\ next' = next + 1 /\ stage' = "dispatch"
  /\ UNCHANGED <<plans, batches, path>>

\* A batch that fails ends the cycle; the checkpoint keeps the batches.
BatchFails ==
  /\ stage = "running"
  /\ stage' = "stopped"
  /\ UNCHANGED <<plans, batches, path, next, done>>

Resume ==
  /\ stage = "stopped"
  /\ stage' = "dispatch"
  /\ UNCHANGED <<plans, batches, path, next, done>>

CompleteDispatch ==
  /\ stage = "dispatch" /\ next > Len(batches)
  /\ stage' = "complete"
  /\ UNCHANGED <<plans, batches, path, next, done>>

Next ==
  \/ GateBlocks \/ GateAdmits \/ ExpandChains
  \/ UsePrebatched \/ PackTokenFirst \/ PackByRole
  \/ ApplyHardCap \/ Tighten \/ BlockOverStepped \/ SplitOverStepped
  \/ StartBatch \/ BatchSucceeds \/ BatchFails \/ Resume \/ CompleteDispatch

Spec == Init /\ [][Next]_vars

---------------------------------------------------------------------------
(* Properties *)

Stages == {"gate", "chain", "batch", "cap", "tighten", "split", "dispatch",
           "running", "stopped", "complete", "blocked"}

BatchPlans == FlattenSeq([i \in DOMAIN batches |-> batches[i].plans])

\* Types, and the size of a batch that goes to a worker: not empty, and at most
\* what the hard cap and the tightening allow.
TypeOK ==
  /\ \A i \in DOMAIN plans :
       /\ plans[i].role \in 1..Roles /\ plans[i].wave \in 1..LastWave
       /\ plans[i].stage \in 0..3 /\ plans[i].index \in Nat
  /\ path \in {"none", "prebatched", "tokenFirst", "roleSplit"} /\ stage \in Stages
  /\ \A i \in DOMAIN batches :
       /\ batches[i].role \in 1..Roles /\ batches[i].wave \in 1..LastWave
       /\ stage # "cap" => Len(batches[i].plans) \in 1..Max({MaxPlans, MaxMerged})
  /\ stage = "running" => next \in DOMAIN batches
  /\ done \subseteq {Name(plans[i]) : i \in DOMAIN plans}

\* Whatever packs, chunks, merges and splits the plans, each one that was
\* admitted, or each stage of its chain, is in exactly one batch.
EveryPlanOnce ==
  path # "none" =>
    /\ Len(BatchPlans) = Len(plans)
    /\ {Name(p) : p \in ToSet(BatchPlans)} = {Name(p) : p \in ToSet(plans)}

\* When a batch starts, plans of earlier waves than its own are done: all of
\* them where batches are made role by role and sorted, those of the same role
\* where tokens come first; Athena's batches follow the wave each is given.
WavesInTurn ==
  stage = "running" =>
    \A b \in ToSet(batches) :
      IF path = "prebatched"
        THEN b.wave < batches[next].wave => \A p \in ToSet(b.plans) : Name(p) \in done
        ELSE \A p \in ToSet(b.plans), q \in ToSet(batches[next].plans) :
               p.wave < q.wave /\ (path = "roleSplit" \/ p.role = q.role)
                 => Name(p) \in done

\* Athena's batches are never split by ordered steps nor blocked for them,
\* however many steps they have: they carry no count.
PrebatchedNeverSplit ==
  [][path = "prebatched" /\ stage = "split" => batches' = batches /\ stage' = "dispatch"]_vars

\* A batch of several plans fits the context of its model: where tokens come
\* first at every stage, for what a batch says it costs is never too little; in
\* the role split as it is made and capped, for the tightening trusts the shares
\* of the chunks, which may be less than their plans cost.  The role split keeps
\* a batch short if it has dependencies, after the tightening too.
WithinContext ==
  \A i \in DOMAIN batches :
    /\ path = "tokenFirst" \/ (path = "roleSplit" /\ stage \in {"cap", "tighten"}) =>
         (Len(batches[i].plans) > 1 => Total(batches[i].plans, "tokens") <= Usable)
    /\ path = "roleSplit" /\ HasDeps(batches[i].plans) => Len(batches[i].plans) <= DepCap

\* What the loop over the batches says of a wave boundary: "Arrival here proves
\* all prior-wave batches done" (src/src/core/orchestrator.ts:6693).
WaveBarrier ==
  stage = "running" =>
    \A i \in DOMAIN batches : batches[i].wave < batches[next].wave => i < next
=============================================================================
