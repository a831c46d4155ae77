--------------------------- MODULE DependencyWaves ---------------------------
(***************************************************************************)
(* The dependency graph resolver, core/dependency_graph_resolver.ts.       *)
(*                                                                         *)
(* It takes the tasks of a plan set in the order of the plan, refuses a    *)
(* malformed list, searches the declared dependencies for cycles, finds    *)
(* the pairs of tasks that share a file, and relaxes wave numbers until    *)
(* every task is in a later wave than what it depends on and no two        *)
(* conflicting tasks share one.  The dispatch gate of the orchestrator     *)
(* blocks a cycle; the batch planner sorts its batches by the waves.       *)
(*                                                                         *)
(* Task ids are numbers, compared as the code compares its strings.  What  *)
(* files a task names matters only through the pairs that share one, so    *)
(* the pairs are chosen where the code first reads the files.              *)
(***************************************************************************)
EXTENDS Integers, Sequences, FiniteSets

CONSTANTS
    Id,            \* the task ids that a plan may hold or name
    Orders,        \* the lists of task ids given to the resolver
    MaxEdges,      \* bounds the declared dependencies
    MaxConflicts   \* bounds the pairs that share a file

ASSUME IdAssumption == Id \subseteq Nat
ASSUME OrdersAssumption == Orders \subseteq Seq(Id)

VARIABLES
    order,      \* taskIds
    dependsOn,  \* <<t, d>> when t declares that it depends on d
    phase,      \* what the resolver does, or the status it returned
    white,      \* the ids the search has not met
    black,      \* the ids the search has left
    stack,      \* the path of the search; all on it are gray
    left,       \* the dependencies of each id still to scan
    cycles,     \* the paths it reports
    conflicts,  \* detectConflicts: the pairs that share a file
    waveOf,     \* the waves
    pos,        \* the next task of the sweep
    changed,    \* changed, over one round of the relaxation
    rounds      \* rounds of the relaxation (observed, not in the code)

inputVars == <<order, dependsOn>>
searchVars == <<white, black, stack, left, cycles>>
waveVars == <<conflicts, waveOf, pos, changed, rounds>>
vars == <<inputVars, phase, searchVars, waveVars>>

Statuses == {"ok", "empty", "invalid_input", "cycle_detected"}
Phases == {"validate", "search", "conflicts", "sweep"} \cup Statuses

(* taskIds as a set, and what a task declares to depend on. *)
TaskIds == {order[i] : i \in DOMAIN order}
Deps(t) == {d \in Id : <<t, d>> \in dependsOn}

Init ==
    /\ order \in Orders
    /\ dependsOn \in SUBSET (Id \X Id)
    /\ Cardinality(dependsOn) <= MaxEdges
    /\ \A e \in dependsOn : e[1] \in TaskIds
    /\ phase = "validate"
    /\ white = {} /\ black = {} /\ stack = << >> /\ cycles = {}
    /\ left = [t \in Id |-> {}]
    /\ conflicts = {} /\ waveOf = [t \in Id |-> 1]
    /\ pos = 1 /\ changed = FALSE /\ rounds = 0

-----------------------------------------------------------------------------
(***************************************************************************)
(* Validation                                                              *)
(***************************************************************************)

(* No tasks: status ok, reason EMPTY_INPUT, no waves. *)
EmptyInput ==
    /\ phase = "validate" /\ order = << >>
    /\ phase' = "empty"
    /\ UNCHANGED <<inputVars, searchVars, waveVars>>

(* An id twice in the list. *)
Duplicated == \E i, j \in DOMAIN order : i # j /\ order[i] = order[j]

InvalidInput ==
    /\ phase = "validate" /\ Duplicated
    /\ phase' = "invalid_input"
    /\ UNCHANGED <<inputVars, searchVars, waveVars>>

StartSearch ==
    /\ phase = "validate" /\ order # << >> /\ ~Duplicated
    /\ phase' = "search"
    /\ white' = TaskIds
    /\ left' = [t \in Id |-> Deps(t)]
    /\ UNCHANGED <<inputVars, black, stack, cycles, waveVars>>

-----------------------------------------------------------------------------
(***************************************************************************)
(* detectCycles: a depth-first search with an explicit stack.  A frame's   *)
(* path is the stack up to it.                                             *)
(***************************************************************************)

Gray == TaskIds \ (white \cup black)

(* The next white task in the order of the list. *)
IsNextStart(t) ==
    \E i \in DOMAIN order :
        /\ order[i] = t /\ t \in white
        /\ \A j \in 1..(i - 1) : order[j] \notin white

StartAt(t) ==
    /\ phase = "search" /\ stack = << >> /\ IsNextStart(t)
    /\ stack' = <<t>>
    /\ white' = white \ {t}
    /\ UNCHANGED <<inputVars, phase, black, left, cycles, waveVars>>

Top == stack[Len(stack)]

(* The path from place i of the stack to the top, and back to i's task d. *)
PathFrom(i, d) == SubSeq(stack, i, Len(stack)) \o <<d>>

(* One dependency of the task at the top: outside the list, gray, white or *)
(* black.  The list of dependencies may have any order.                    *)
Outside(d) ==
    /\ d \notin TaskIds
    /\ UNCHANGED <<white, stack, cycles>>

BackEdge(d) ==
    /\ d \in Gray
    /\ \E i \in DOMAIN stack :
        /\ stack[i] = d
        /\ cycles' = cycles \cup {PathFrom(i, d)}
    /\ UNCHANGED <<white, stack>>

Descend(d) ==
    /\ d \in white
    /\ white' = white \ {d}
    /\ stack' = Append(stack, d)
    /\ UNCHANGED cycles

\* Mutant: a task that the search has left is taken for a back edge too.
KnownReported(d) ==
    /\ d \in black
    /\ cycles' = cycles \cup {Append(stack, d)}
    /\ UNCHANGED <<white, stack>>

Known(d) ==
    /\ d \in black
    /\ UNCHANGED <<white, stack, cycles>>

ScanDep(d) ==
    /\ phase = "search" /\ stack # << >> /\ d \in left[Top]
    /\ left' = [left EXCEPT ![Top] = @ \ {d}]
    /\ Outside(d) \/ BackEdge(d) \/ Descend(d) \/ Known(d)
    /\ UNCHANGED <<inputVars, phase, black, waveVars>>

Leave ==
    /\ phase = "search" /\ stack # << >> /\ left[Top] = {}
    /\ black' = black \cup {Top}
    /\ stack' = SubSeq(stack, 1, Len(stack) - 1)
    /\ UNCHANGED <<inputVars, phase, white, left, cycles, waveVars>>

(* Any cycle ends the resolution with no waves. *)
EndSearch ==
    /\ phase = "search" /\ stack = << >> /\ white = {}
    /\ phase' = IF cycles = {} THEN "conflicts" ELSE "cycle_detected"
    /\ UNCHANGED <<inputVars, searchVars, waveVars>>

-----------------------------------------------------------------------------
(***************************************************************************)
(* detectConflicts and assignWaves                                         *)
(***************************************************************************)

Pairs == {p \in TaskIds \X TaskIds : p[1] < p[2]}

DetectConflicts ==
    /\ phase = "conflicts"
    /\ \E c \in SUBSET Pairs :
        /\ Cardinality(c) <= MaxConflicts
        /\ conflicts' = c
    /\ phase' = "sweep"
    /\ UNCHANGED <<inputVars, searchVars, waveOf, pos, changed, rounds>>

(* The wave a task moves to: after all it depends on, never back. *)
Floors(t) == {waveOf[t]} \cup {waveOf[d] + 1 : d \in Deps(t) \cap TaskIds}
IsRequired(t, w) == w \in Floors(t) /\ \A v \in Floors(t) : v <= w

(* Phase A: one sweep over the tasks, in the order of the list. *)
Propagate ==
    /\ phase = "sweep" /\ pos <= Len(order)
    /\ \E w \in Floors(order[pos]) :
        /\ IsRequired(order[pos], w)
        /\ waveOf' = [waveOf EXCEPT ![order[pos]] = w]
        /\ changed' = (changed \/ w # waveOf[order[pos]])
    /\ pos' = pos + 1
    /\ UNCHANGED <<inputVars, phase, searchVars, conflicts, rounds>>

\* Mutant: the larger id is moved on even when it is in a later wave.
CollidesOrFollows(p) == p \in conflicts /\ waveOf[p[1]] <= waveOf[p[2]]

(* The conflicts that a bump must solve, and the first of them in the      *)
(* order detectConflicts finds them: by the earlier task of the two in the *)
(* list, then by the later one.                                            *)
Collides(p) == p \in conflicts /\ waveOf[p[1]] = waveOf[p[2]]

PlaceOf(t) == CHOOSE i \in DOMAIN order : order[i] = t
FirstPlace(p) == IF PlaceOf(p[1]) < PlaceOf(p[2]) THEN PlaceOf(p[1]) ELSE PlaceOf(p[2])
LastPlace(p) == IF PlaceOf(p[1]) < PlaceOf(p[2]) THEN PlaceOf(p[2]) ELSE PlaceOf(p[1])
FoundBefore(p, q) ==
    \/ FirstPlace(p) < FirstPlace(q)
    \/ FirstPlace(p) = FirstPlace(q) /\ LastPlace(p) <= LastPlace(q)
IsFirstCollision(p) ==
    /\ Collides(p)
    /\ \A q \in conflicts : Collides(q) => FoundBefore(p, q)

\* Mutant: a round starts one task before the first.
NextRoundFromZero ==
    /\ pos' = 0 /\ changed' = FALSE /\ rounds' = rounds + 1
    /\ UNCHANGED phase

NextRound ==
    /\ pos' = 1 /\ changed' = FALSE /\ rounds' = rounds + 1
    /\ UNCHANGED phase

(* Phase B: the larger id of one colliding pair moves a wave on. *)
Bump(p) ==
    /\ phase = "sweep" /\ pos > Len(order) /\ IsFirstCollision(p)
    /\ waveOf' = [waveOf EXCEPT ![p[2]] = @ + 1]
    /\ NextRound
    /\ UNCHANGED <<inputVars, searchVars, conflicts>>

\* Mutant: the relaxation stops at the first round without a collision.
SettleAtOnce ==
    /\ phase = "sweep" /\ pos > Len(order)
    /\ \A p \in conflicts : ~Collides(p)
    /\ phase' = "ok" /\ UNCHANGED <<pos, changed, rounds>>
    /\ UNCHANGED <<inputVars, searchVars, conflicts, waveOf>>

(* No collision left: the sweep is repeated when it changed something. *)
Settle ==
    /\ phase = "sweep" /\ pos > Len(order)
    /\ \A p \in conflicts : ~Collides(p)
    /\ \/ changed /\ NextRound
       \/ ~changed /\ phase' = "ok" /\ UNCHANGED <<pos, changed, rounds>>
    /\ UNCHANGED <<inputVars, searchVars, conflicts, waveOf>>

(* The resolver has returned. *)
Returned == phase \in Statuses /\ UNCHANGED vars

Next ==
    \/ EmptyInput \/ InvalidInput \/ StartSearch
    \/ \E t \in Id : StartAt(t)
    \/ \E d \in Id : ScanDep(d)
    \/ Leave \/ EndSearch
    \/ DetectConflicts \/ Propagate
    \/ \E p \in conflicts : Bump(p)
    \/ Settle
    \/ Returned

Spec == Init /\ [][Next]_vars

-----------------------------------------------------------------------------
(***************************************************************************)
(* Gates: what a task of a wave waits for (computeTaskGates).              *)
(***************************************************************************)

DependencyGates(t) == Deps(t) \cap TaskIds
ConflictGates(t) ==
    {u \in TaskIds :
        /\ <<t, u>> \in conflicts \/ <<u, t>> \in conflicts
        /\ waveOf[u] < waveOf[t]}
Gates(t) == DependencyGates(t) \cup ConflictGates(t)

(* The resolver's state keeps its types. *)
TypeOK ==
    /\ order \in Seq(Id)
    /\ dependsOn \in SUBSET (Id \X Id)
    /\ phase \in Phases
    /\ white \in SUBSET TaskIds
    /\ black \in SUBSET TaskIds
    /\ stack \in Seq(TaskIds)
    /\ left \in [Id -> SUBSET Id]
    /\ cycles \in SUBSET Seq(TaskIds)
    /\ conflicts \in SUBSET (TaskIds \X TaskIds)
    /\ waveOf \in [Id -> Nat \ {0}]
    /\ pos \in 1..(Len(order) + 1)
    /\ changed \in BOOLEAN
    /\ rounds \in Nat

(* A cycle, said without any search: tasks of which each depends on one    *)
(* among them.                                                             *)
Closed(S) == S # {} /\ \A t \in S : Deps(t) \cap S # {}
Cyclic == \E S \in SUBSET TaskIds : Closed(S)

(* The dispatch gate blocks a plan set for a cycle exactly when there is   *)
(* one (detectCycles): the colours neither miss a cycle nor report a task  *)
(* that two paths reach.                                                   *)
CycleFoundIffCyclic ==
    /\ phase = "cycle_detected" => Cyclic
    /\ phase \in {"conflicts", "sweep", "ok"} => ~Cyclic

(* A reported path can be followed along the dependencies back to where it *)
(* starts: the error message names a cycle of the plan set.                *)
ReportedCyclesReal ==
    \A c \in cycles :
        /\ Len(c) >= 2 /\ c[1] = c[Len(c)]
        /\ \A i \in 1..(Len(c) - 1) : c[i + 1] \in Deps(c[i])

(* When the relaxation stops, all that a task waits for is in an earlier   *)
(* wave, and of two tasks that share a file one waits for the other        *)
(* (assignWaves, computeTaskGates).  A sweep sees stale waves and a bump   *)
(* can undo what a sweep has done, so it is the last round that counts.    *)
WavesRespectGates ==
    phase = "ok" =>
        /\ \A t \in TaskIds : \A u \in Gates(t) : waveOf[u] < waveOf[t]
        /\ \A p \in conflicts : p[1] \in Gates(p[2]) \/ p[2] \in Gates(p[1])

(* The relaxation ends: the comment of assignWaves says that it is bounded *)
(* by O(n^2) rounds.                                                       *)
RoundsBounded == rounds <= Len(order) * Len(order)

(* However the tasks depend on each other and share files, no wave that    *)
(* assignWaves gives is higher than about the square of their number: a    *)
(* bump pushes on what depends on it, and may leave a wave empty, but not  *)
(* without end.                                                            *)
WavesBounded == \A t \in TaskIds : waveOf[t] <= Len(order) * (Len(order) + 1)

(* The while loop of assignWaves, which has no counter of its own, ends on *)
(* every plan set without a cycle.                                         *)
RelaxationEnds == rounds <= Len(order) * Len(order) * (Len(order) + 1)

=============================================================================
