------------------------ MODULE DependencyWavesProofs ------------------------
(***************************************************************************)
(* What the dependency graph resolver guarantees for any plan set: the     *)
(* verdict on cycles is right, a reported cycle is one, the waves respect  *)
(* the gates, and the relaxation ends.  The search is handled by the       *)
(* classical colours: the gray tasks are the path, a black task leads to   *)
(* black tasks only, and no cycle lies among black tasks.  That the waves  *)
(* are right when the relaxation stops rests on one fact: a round that has *)
(* changed nothing so far has satisfied the tasks it has swept.  That it   *)
(* stops rests on the waves the tasks are due in, which the sweeps do not  *)
(* change: a bump may leave a gap among them, but a gap of g waves took g  *)
(* rounds, in which the tasks of g ranks caught up with it, and a task     *)
(* that has caught up makes no gap wider.                                  *)
(***************************************************************************)
EXTENDS DependencyWaves, SequenceTheorems, FiniteSetTheorems, WellFoundedInduction, TLAPS

(* A path of dependencies. *)
IsPath(s) == \A i \in 1..(Len(s) - 1) : s[i + 1] \in Deps(s[i])

(* The gray tasks are the ones on the stack, which is a path. *)
StackIsGray ==
    /\ white \cap black = {}
    /\ \A i \in DOMAIN stack : stack[i] \notin white \cup black
    /\ \A i, j \in DOMAIN stack : stack[i] = stack[j] => i = j
    /\ \A t \in TaskIds : t \in white \cup black \/ \E i \in DOMAIN stack : stack[i] = t
    /\ IsPath(stack)

(* What is still to scan: all of a white task's dependencies; of a task on *)
(* the stack, all but the black ones and the one above it.                 *)
Unscanned ==
    /\ \A t \in Id : left[t] \subseteq Deps(t)
    /\ \A t \in white : left[t] = Deps(t)

BlackClosed == \A t \in black : Deps(t) \cap TaskIds \subseteq black

GrayScanned ==
    \A i \in DOMAIN stack : \A d \in Deps(stack[i]) \cap TaskIds :
        \/ d \in black
        \/ d \in left[stack[i]]
        \/ i < Len(stack) /\ d = stack[i + 1]

NoneClosedIn(B) == \A S \in SUBSET B : ~Closed(S)

SearchInv ==
    /\ phase = "validate" => white = {} /\ black = {} /\ stack = << >>
    /\ phase = "search" =>
        /\ StackIsGray /\ Unscanned
        /\ cycles = {} => BlackClosed /\ GrayScanned /\ NoneClosedIn(black)

(* What is reported, and what the end of the search says. *)
VerdictInv ==
    /\ phase = "validate" => cycles = {}
    /\ ReportedCyclesReal
    /\ phase = "cycle_detected" => cycles # {}
    /\ phase \in {"conflicts", "sweep", "ok"} => ~Cyclic

Satisfied(t) == \A d \in Deps(t) \cap TaskIds : waveOf[d] < waveOf[t]

WaveInv ==
    /\ conflicts \subseteq Pairs
    /\ phase \in {"validate", "search", "conflicts"} => pos = 1 /\ ~changed
    /\ phase = "sweep" /\ ~changed => \A i \in 1..(pos - 1) : Satisfied(order[i])
    /\ phase = "ok" =>
        /\ \A t \in TaskIds : Satisfied(t)
        /\ \A p \in conflicts : ~Collides(p)

-----------------------------------------------------------------------------
(***************************************************************************)
(* Types                                                                   *)
(***************************************************************************)

(* The resolver starts with values of the right types. *)
LEMMA InitTypes == Init => TypeOK
<1> SUFFICES ASSUME Init PROVE TypeOK
  OBVIOUS
<1>1. order \in Seq(Id)
  BY OrdersAssumption DEF Init
<1>2. Len(order) \in Nat
  BY <1>1, LenProperties
<1>3. << >> \in Seq(TaskIds)
  BY EmptySeq
<1>4. pos \in 1..(Len(order) + 1)
  BY <1>2 DEF Init
<1>5. waveOf \in [Id -> Nat \ {0}] /\ left \in [Id -> SUBSET Id]
  BY DEF Init
<1>6. QED BY <1>1, <1>3, <1>4, <1>5 DEF Init, TypeOK, Phases

(* The list of ids and the tasks in it. *)
LEMMA OrderFacts ==
  ASSUME TypeOK
  PROVE  /\ Len(order) \in Nat /\ DOMAIN order = 1..Len(order)
         /\ TaskIds \subseteq Id
         /\ \A i \in 1..Len(order) : order[i] \in TaskIds
         /\ Len(stack) \in Nat /\ DOMAIN stack = 1..Len(stack)
BY LenProperties DEF TypeOK, TaskIds

(* Popping and pushing keep a sequence of tasks. *)
LEMMA PopPush ==
  ASSUME NEW T, NEW s \in Seq(T)
  PROVE  /\ s # << >> => /\ s[Len(s)] \in T
                         /\ Len(s) \in Nat /\ Len(s) >= 1
                         /\ SubSeq(s, 1, Len(s) - 1) \in Seq(T)
                         /\ Len(SubSeq(s, 1, Len(s) - 1)) = Len(s) - 1
                         /\ \A i \in 1..(Len(s) - 1) : SubSeq(s, 1, Len(s) - 1)[i] = s[i]
         /\ \A t \in T : /\ Append(s, t) \in Seq(T)
                         /\ Len(Append(s, t)) = Len(s) + 1
                         /\ Append(s, t)[Len(s) + 1] = t
                         /\ \A i \in 1..Len(s) : Append(s, t)[i] = s[i]
         /\ DOMAIN s = 1..Len(s)
<1>1. Len(s) \in Nat /\ DOMAIN s = 1..Len(s) /\ \A i \in 1..Len(s) : s[i] \in T
  BY LenProperties, ElementOfSeq
<1>2. ASSUME s # << >>
      PROVE  /\ s[Len(s)] \in T /\ Len(s) >= 1
             /\ SubSeq(s, 1, Len(s) - 1) \in Seq(T)
             /\ Len(SubSeq(s, 1, Len(s) - 1)) = Len(s) - 1
             /\ \A i \in 1..(Len(s) - 1) : SubSeq(s, 1, Len(s) - 1)[i] = s[i]
  <2>1. Len(s) >= 1
    BY <1>1, <1>2, EmptySeq
  <2> DEFINE n == Len(s) - 1
  <2>2. n \in Int /\ 1 \in Int /\ \A i \in 1..n : s[i] \in T
    BY <1>1
  <2>3. /\ SubSeq(s, 1, n) \in Seq(T)
        /\ Len(SubSeq(s, 1, n)) = IF 1 <= n THEN n - 1 + 1 ELSE 0
        /\ \A i \in 1..(n - 1 + 1) : SubSeq(s, 1, n)[i] = s[1 + i - 1]
    BY <2>2, SubSeqProperties
  <2>4. QED BY <1>1, <2>1, <2>3
<1>3. QED BY <1>1, <1>2, AppendProperties

(* The path that a back edge closes, as a sequence. *)
LEMMA PathFromElements ==
  ASSUME TypeOK, NEW i \in DOMAIN stack, NEW d \in TaskIds
  PROVE  /\ PathFrom(i, d) \in Seq(TaskIds)
         /\ Len(PathFrom(i, d)) = Len(stack) - i + 2
         /\ \A k \in 1..(Len(stack) - i + 1) : PathFrom(i, d)[k] = stack[i + k - 1]
         /\ PathFrom(i, d)[Len(stack) - i + 2] = d
<1> DEFINE s == SubSeq(stack, i, Len(stack))
<1>1. /\ stack \in Seq(TaskIds) /\ i \in 1..Len(stack) /\ Len(stack) \in Nat
  BY DEF TypeOK
<1>2. /\ s \in Seq(TaskIds) /\ Len(s) = Len(stack) - i + 1
      /\ \A k \in 1..(Len(stack) - i + 1) : s[k] = stack[i + k - 1]
  BY <1>1
<1> HIDE DEF s
<1>4. /\ s \o <<d>> \in Seq(TaskIds)
      /\ Len(s \o <<d>>) = Len(s) + 1
      /\ \A k \in 1..Len(s) : (s \o <<d>>)[k] = s[k]
      /\ (s \o <<d>>)[Len(s) + 1] = d
  <2>1. Append(s, d) = s \o <<d>>
    BY <1>2, AppendIsConcat
  <2>2. QED BY <1>2, <2>1, PopPush
<1>5. PathFrom(i, d) = s \o <<d>>
  BY DEF PathFrom, s
<1>6. Len(s) + 1 = Len(stack) - i + 2
  BY <1>1, <1>2
<1>7. QED BY <1>2, <1>4, <1>5, <1>6

(* No step of the resolver takes its state out of its types. *)
LEMMA TypesKept == TypeOK /\ [Next]_vars => TypeOK'
<1> SUFFICES ASSUME TypeOK, [Next]_vars PROVE TypeOK'
  OBVIOUS
<1> USE DEF Phases, Statuses, inputVars, searchVars, waveVars
<1>1. CASE EmptyInput
  BY <1>1 DEF EmptyInput, TypeOK, TaskIds
<1>2. CASE InvalidInput
  BY <1>2 DEF InvalidInput, TypeOK, TaskIds
<1>3. CASE StartSearch
  BY <1>3 DEF StartSearch, TypeOK, TaskIds, Deps
<1>4. ASSUME NEW t \in Id, StartAt(t) PROVE TypeOK'
  <2>1. t \in TaskIds
    BY <1>4 DEF StartAt, IsNextStart, TaskIds
  <2>2. <<t>> \in Seq(TaskIds)
    BY <2>1
  <2>3. QED BY <1>4, <2>2 DEF StartAt, TypeOK, TaskIds
<1>5. ASSUME NEW d \in Id, ScanDep(d) PROVE TypeOK'
  <2>1. /\ TaskIds' = TaskIds
        /\ UNCHANGED <<order, dependsOn, phase, black, conflicts, waveOf, pos, changed, rounds>>
    BY <1>5 DEF ScanDep, TaskIds
  <2>2. Top \in Id /\ left' \in [Id -> SUBSET Id]
    <3>1. Top \in TaskIds
      BY <1>5, PopPush DEF ScanDep, TypeOK, Top
    <3>2. TaskIds \subseteq Id
      BY DEF TaskIds, TypeOK
    <3>3. QED BY <1>5, <3>1, <3>2 DEF ScanDep, TypeOK
  <2>3. white' \in SUBSET TaskIds /\ stack' \in Seq(TaskIds) /\ cycles' \in SUBSET Seq(TaskIds)
    <3>1. CASE Outside(d)
      BY <3>1 DEF Outside, TypeOK
    <3>2. CASE BackEdge(d)
      BY <3>2, PathFromElements DEF BackEdge, Gray, TypeOK
    <3>3. CASE Descend(d)
      BY <3>3, PopPush DEF Descend, TypeOK
    <3>4. CASE Known(d)
      BY <3>4 DEF Known, TypeOK
    <3>5. QED BY <1>5, <3>1, <3>2, <3>3, <3>4 DEF ScanDep
  <2>4. QED BY <2>1, <2>2, <2>3 DEF TypeOK
<1>6. CASE Leave
  <2>1. Top \in TaskIds /\ stack' \in Seq(TaskIds)
    BY <1>6, PopPush DEF Leave, TypeOK, Top
  <2>2. QED BY <1>6, <2>1 DEF Leave, TypeOK, TaskIds
<1>7. CASE EndSearch
  BY <1>7 DEF EndSearch, TypeOK, TaskIds
<1>8. CASE DetectConflicts
  BY <1>8 DEF DetectConflicts, TypeOK, TaskIds, Pairs
<1>9. CASE Propagate
  <2>1. PICK w \in Floors(order[pos]) :
          /\ waveOf' = [waveOf EXCEPT ![order[pos]] = w]
          /\ changed' = (changed \/ w # waveOf[order[pos]])
    BY <1>9 DEF Propagate
  <2>2. order[pos] \in Id /\ pos' \in 1..(Len(order) + 1)
    BY <1>9 DEF Propagate, TypeOK
  <2>3. w \in Nat \ {0}
    BY <2>2, OrderFacts DEF Floors, TypeOK
  <2>4. waveOf' \in [Id -> Nat \ {0}]
    BY <2>1, <2>3 DEF TypeOK
  <2>5. changed' \in BOOLEAN
    BY <2>1
  <2>6. TaskIds' = TaskIds
    BY <1>9 DEF Propagate, TaskIds
  <2>7. QED BY <1>9, <2>2, <2>4, <2>5, <2>6 DEF Propagate, TypeOK
<1>10. ASSUME NEW p \in conflicts, Bump(p) PROVE TypeOK'
  <2>1. p[2] \in Id /\ waveOf[p[2]] + 1 \in Nat \ {0}
    BY <1>10 DEF TypeOK, TaskIds
  <2>2. waveOf' \in [Id -> Nat \ {0}]
    BY <1>10, <2>1 DEF Bump, TypeOK
  <2>3. pos' \in 1..(Len(order) + 1) /\ rounds' \in Nat
    <3>1. Len(order) \in Nat
      BY OrderFacts
    <3>2. QED BY <1>10, <3>1 DEF Bump, NextRound, TypeOK
  <2>4. TaskIds' = TaskIds
    BY <1>10 DEF Bump, TaskIds
  <2>5. /\ UNCHANGED <<order, dependsOn, phase, white, black, stack, left, cycles, conflicts>>
        /\ changed' = FALSE
    BY <1>10 DEF Bump, NextRound
  <2>6. QED BY <2>2, <2>3, <2>4, <2>5 DEF TypeOK
<1>11. CASE Settle
  <2>1. pos' \in 1..(Len(order) + 1) /\ changed' \in BOOLEAN /\ rounds' \in Nat /\ phase' \in Phases
    <3>1. Len(order) \in Nat
      BY OrderFacts
    <3>2. CASE NextRound
      <4>1. rounds \in Nat /\ phase \in Phases
        BY DEF TypeOK
      <4>2. pos' \in 1..(Len(order) + 1) /\ rounds' \in Nat
        BY <3>1, <3>2, <4>1 DEF NextRound
      <4>3. changed' \in BOOLEAN /\ phase' \in Phases
        BY <3>2, <4>1 DEF NextRound
      <4>4. QED BY <4>2, <4>3
    <3>3. CASE phase' = "ok" /\ UNCHANGED <<pos, changed, rounds>>
      <4>1. pos \in 1..(Len(order) + 1) /\ changed \in BOOLEAN /\ rounds \in Nat
        BY DEF TypeOK
      <4>2. QED BY <3>3, <4>1
    <3>4. QED BY <1>11, <3>2, <3>3 DEF Settle
  <2>2. TaskIds' = TaskIds
    BY <1>11 DEF Settle, TaskIds
  <2>3. QED BY <1>11, <2>1, <2>2 DEF Settle, TypeOK
<1>12. CASE UNCHANGED vars
  BY <1>12 DEF vars, TypeOK, TaskIds
<1>13. QED
  BY <1>1, <1>2, <1>3, <1>4, <1>5, <1>6, <1>7, <1>8, <1>9, <1>10, <1>11, <1>12
     DEF Next, Returned

(* The resolver's state keeps its types, for any tasks and dependencies. *)
THEOREM WavesTypeCorrect == Spec => []TypeOK
<1>1. QED BY InitTypes, TypesKept, PTL DEF Spec

-----------------------------------------------------------------------------
(***************************************************************************)
(* The search                                                              *)
(***************************************************************************)

(* A task that depends, within the list, on black tasks only, closes no    *)
(* cycle with them.                                                        *)
LEMMA BlackGrows ==
  ASSUME NEW B \in SUBSET TaskIds, NEW t \in TaskIds, t \notin B,
         NoneClosedIn(B),
         \A u \in B : Deps(u) \cap TaskIds \subseteq B,
         Deps(t) \cap TaskIds \subseteq B
  PROVE  NoneClosedIn(B \cup {t})
<1> SUFFICES ASSUME NEW S \in SUBSET (B \cup {t}), Closed(S) PROVE FALSE
  BY DEF NoneClosedIn
<1>1. t \in S
  BY DEF NoneClosedIn
<1>2. S \ {t} \in SUBSET B
  OBVIOUS
<1>3. \A u \in S : Deps(u) \cap (S \ {t}) # {}
  <2> TAKE u \in S
  <2>1. PICK d \in Deps(u) \cap S : TRUE
    BY DEF Closed
  <2>2. d \in B
    BY <2>1
  <2>3. QED BY <2>1, <2>2
<1>4. S \ {t} # {}
  BY <1>1, <1>3
<1>5. Closed(S \ {t})
  BY <1>3, <1>4 DEF Closed
<1>6. QED BY <1>2, <1>5 DEF NoneClosedIn

(* A back edge closes a cycle. *)
LEMMA BackEdgeCloses ==
  ASSUME TypeOK, IsPath(stack), stack # << >>,
         NEW i \in DOMAIN stack, stack[i] \in Deps(Top)
  PROVE  /\ Cyclic
         /\ LET c == PathFrom(i, stack[i]) IN
              /\ Len(c) >= 2 /\ c[1] = c[Len(c)]
              /\ \A k \in 1..(Len(c) - 1) : c[k + 1] \in Deps(c[k])
<1> DEFINE n == Len(stack)
           S == {stack[k] : k \in i..n}
           c == PathFrom(i, stack[i])
<1>1. n \in Nat /\ i \in 1..n /\ \A k \in 1..n : stack[k] \in TaskIds
  BY OrderFacts, ElementOfSeq DEF TypeOK
<1>0. i \in Nat /\ 1 <= i /\ i <= n
  BY <1>1
<1>2. Cyclic
  <2>1. S \in SUBSET TaskIds /\ S # {}
    BY <1>1
  <2>2. \A t \in S : Deps(t) \cap S # {}
    <3> TAKE t \in S
    <3>1. PICK k \in i..n : t = stack[k]
      OBVIOUS
    <3>2. CASE k = n
      BY <1>1, <3>1, <3>2 DEF Top
    <3>3. CASE k # n
      <4>1. k + 1 \in i..n /\ k \in 1..(n - 1)
        BY <1>1, <3>3
      <4>2. stack[k + 1] \in Deps(stack[k])
        BY <4>1 DEF IsPath
      <4>3. QED BY <3>1, <4>1, <4>2
    <3>4. QED BY <3>2, <3>3
  <2>3. QED BY <2>1, <2>2 DEF Closed, Cyclic
<1>3. /\ Len(c) = n - i + 2
      /\ \A k \in 1..(n - i + 1) : c[k] = stack[i + k - 1]
      /\ c[n - i + 2] = stack[i]
  BY <1>1, PathFromElements
<1> HIDE DEF c, n
<1>4. Len(c) >= 2 /\ c[1] = c[Len(c)]
  <2>1. 1 \in 1..(n - i + 1) /\ i + 1 - 1 = i
    BY <1>0, <1>1
  <2>2. c[1] = stack[i]
    BY <1>3, <2>1
  <2>3. QED BY <1>0, <1>1, <1>3, <2>2
<1>5. ASSUME NEW k \in 1..(Len(c) - 1)
      PROVE  c[k + 1] \in Deps(c[k])
  <2>1. k \in 1..(n - i + 1) /\ k \in Nat /\ c[k] = stack[i + k - 1]
    BY <1>0, <1>1, <1>3, <1>5
  <2>2. CASE k = n - i + 1
    <3>1. k + 1 = n - i + 2 /\ i + k - 1 = n
      BY <1>0, <1>1, <2>2
    <3>2. c[k + 1] = stack[i] /\ c[k] = stack[n]
      BY <1>3, <2>1, <3>1
    <3>3. QED BY <3>2 DEF Top, n
  <2>3. CASE k # n - i + 1
    <3>1. k + 1 \in 1..(n - i + 1) /\ i + k - 1 \in 1..(n - 1)
      BY <1>0, <1>1, <2>1, <2>3
    <3>2. i + (k + 1) - 1 = (i + k - 1) + 1
      BY <1>0, <2>1
    <3>3. c[k + 1] = stack[(i + k - 1) + 1]
      BY <1>3, <3>1, <3>2
    <3>4. QED BY <2>1, <3>1, <3>3 DEF IsPath, n
  <2>4. QED BY <2>2, <2>3
<1>6. QED BY <1>2, <1>4, <1>5 DEF c

(* The steps other than the search's leave what the search is about alone, *)
(* and do not go back to it.                                               *)
SearchVarsKept == UNCHANGED <<order, dependsOn, white, black, stack, left, cycles>>
PhaseGoesOn ==
    \/ phase' = phase
    \/ phase' \in {"empty", "invalid_input"}
    \/ phase \in {"conflicts", "sweep"} /\ phase' \in {"sweep", "ok"}

(* The steps that are no part of the search leave its state alone. *)
LEMMA OtherSteps ==
  ASSUME [Next]_vars
  PROVE  \/ StartSearch
         \/ \E t \in Id : StartAt(t)
         \/ \E d \in Id : ScanDep(d)
         \/ Leave
         \/ EndSearch
         \/ SearchVarsKept /\ PhaseGoesOn
<1> USE DEF inputVars, searchVars, waveVars, SearchVarsKept, PhaseGoesOn
<1>1. CASE EmptyInput \/ InvalidInput \/ DetectConflicts
  BY <1>1 DEF EmptyInput, InvalidInput, DetectConflicts
<1>2. CASE Propagate
  BY <1>2 DEF Propagate
<1>3. CASE \E p \in conflicts : Bump(p)
  BY <1>3 DEF Bump, NextRound
<1>4. CASE Settle
  BY <1>4 DEF Settle, NextRound
<1>5. CASE UNCHANGED vars
  BY <1>5 DEF vars
<1>6. QED BY <1>1, <1>2, <1>3, <1>4, <1>5 DEF Next, Returned

(* The plan set fixes the tasks and their dependencies. *)
LEMMA DepsKept ==
  ASSUME UNCHANGED <<order, dependsOn>>
  PROVE  /\ TaskIds' = TaskIds
         /\ \A t : Deps(t)' = Deps(t)
         /\ \A S : Closed(S)' <=> Closed(S)
         /\ Cyclic' <=> Cyclic
<1>1. TaskIds' = TaskIds /\ \A t : Deps(t)' = Deps(t)
  BY DEF TaskIds, Deps
<1>2. \A S : Closed(S)' <=> Closed(S)
  BY <1>1 DEF Closed
<1>3. QED BY <1>1, <1>2 DEF Cyclic

(* One dependency scanned: the path grows, or nothing but left changes. *)
LEMMA ScanKeeps ==
  ASSUME TypeOK, SearchInv, NEW d \in Id, ScanDep(d)
  PROVE  SearchInv'
<1>1. /\ phase = "search" /\ phase' = "search" /\ stack # << >> /\ d \in left[Top]
      /\ left' = [left EXCEPT ![Top] = @ \ {d}]
      /\ UNCHANGED <<order, dependsOn, black>>
  BY DEF ScanDep, inputVars
<1>2. /\ TaskIds' = TaskIds /\ \A t : Deps(t)' = Deps(t)
      /\ \A S : Closed(S)' <=> Closed(S)
  BY <1>1, DepsKept
<1>3. StackIsGray /\ Unscanned
  BY <1>1 DEF SearchInv
<1>4. /\ Len(stack) \in Nat /\ Len(stack) >= 1 /\ DOMAIN stack = 1..Len(stack)
      /\ TaskIds \subseteq Id
      /\ Top \in TaskIds /\ Top = stack[Len(stack)]
      /\ \A i \in 1..Len(stack) : stack[i] \in TaskIds
  BY <1>1, OrderFacts, PopPush, ElementOfSeq DEF Top, TypeOK
<1>5. Top \notin white \cup black
  BY <1>3, <1>4 DEF StackIsGray
<1>6. /\ d \in Deps(Top)
      /\ \A t \in Id : t # Top => left'[t] = left[t]
      /\ left'[Top] = left[Top] \ {d}
  BY <1>1, <1>3, <1>4 DEF Unscanned, TypeOK
<1>7. /\ \A t \in Id : left'[t] \subseteq Deps(t)'
      /\ \A t \in white : left'[t] = Deps(t)'
  BY <1>2, <1>3, <1>4, <1>5, <1>6 DEF Unscanned, TypeOK
<1>8. cycles = {} => BlackClosed' /\ NoneClosedIn(black)'
  <2>1. cycles = {} => BlackClosed /\ NoneClosedIn(black)
    BY <1>1 DEF SearchInv
  <2>2. QED BY <1>1, <1>2, <2>1 DEF BlackClosed, NoneClosedIn
<1>9. ASSUME UNCHANGED <<white, stack>>, d \in black \/ d \notin TaskIds \/ cycles' # {},
             cycles' = {} => cycles = {}
      PROVE  SearchInv'
  <2>1. StackIsGray'
    BY <1>1, <1>2, <1>3, <1>9 DEF StackIsGray, IsPath
  <2>2. Unscanned'
    BY <1>7, <1>9 DEF Unscanned
  <2>3. ASSUME cycles' = {} PROVE GrayScanned'
    <3>1. GrayScanned
      BY <1>1, <1>9, <2>3 DEF SearchInv
    <3>2. QED BY <1>1, <1>2, <1>4, <1>6, <1>9, <2>3, <3>1 DEF GrayScanned
  <2>4. QED BY <1>1, <1>8, <1>9, <2>1, <2>2, <2>3 DEF SearchInv
<1>10. CASE Outside(d) \/ Known(d)
  BY <1>9, <1>10 DEF Outside, Known
<1>11. CASE BackEdge(d)
  BY <1>9, <1>11 DEF BackEdge
<1>12. CASE Descend(d)
  <2>1. /\ d \in white /\ d \in TaskIds /\ white' = white \ {d}
        /\ stack' = Append(stack, d) /\ cycles' = cycles
    BY <1>12 DEF Descend, TypeOK
  <2>2. /\ Len(stack') = Len(stack) + 1 /\ stack'[Len(stack) + 1] = d
        /\ \A i \in 1..Len(stack) : stack'[i] = stack[i]
        /\ DOMAIN stack' = 1..(Len(stack) + 1)
    <3>1. stack' \in Seq(TaskIds)
      BY <2>1, PopPush DEF TypeOK
    <3>2. QED BY <2>1, <3>1, PopPush DEF TypeOK
  <2>3. \A i \in 1..Len(stack) : stack[i] # d
    BY <1>3, <1>4, <2>1 DEF StackIsGray
  <2>4. StackIsGray'
    <3>1. white' \cap black' = {}
      BY <1>1, <1>3, <2>1 DEF StackIsGray
    <3>2. \A i \in DOMAIN stack' : stack'[i] \notin white' \cup black'
      BY <1>1, <1>3, <1>4, <2>1, <2>2 DEF StackIsGray
    <3>3. \A i, j \in DOMAIN stack' : stack'[i] = stack'[j] => i = j
      BY <1>3, <1>4, <2>2, <2>3 DEF StackIsGray
    <3>4. \A t \in TaskIds' : t \in white' \cup black' \/ \E i \in DOMAIN stack' : stack'[i] = t
      <4> TAKE t \in TaskIds'
      <4>1. CASE t = d
        BY <1>4, <2>2, <4>1
      <4>2. CASE t # d
        <5>1. t \in white \cup black \/ \E i \in DOMAIN stack : stack[i] = t
          BY <1>2, <1>3 DEF StackIsGray
        <5>2. QED BY <1>1, <1>4, <2>1, <2>2, <4>2, <5>1
      <4>3. QED BY <4>1, <4>2
    <3>5. IsPath(stack)'
      <4> SUFFICES ASSUME NEW i \in 1..(Len(stack') - 1)
                   PROVE  stack'[i + 1] \in Deps(stack[i])'
        BY DEF IsPath
      <4>1. Deps(stack[i])' = Deps(stack'[i])
        BY <1>1 DEF Deps
      <4>2. CASE i = Len(stack)
        BY <1>4, <1>6, <2>2, <4>1, <4>2
      <4>3. CASE i # Len(stack)
        <5>1. i \in 1..(Len(stack) - 1) /\ i + 1 \in 1..Len(stack) /\ i \in 1..Len(stack)
          BY <1>4, <2>2, <4>3
        <5>2. stack[i + 1] \in Deps(stack[i])
          BY <1>3, <5>1 DEF StackIsGray, IsPath
        <5>3. QED BY <2>2, <4>1, <5>1, <5>2
      <4>4. QED BY <4>2, <4>3
    <3>6. QED BY <3>1, <3>2, <3>3, <3>4, <3>5 DEF StackIsGray
  <2>5. Unscanned'
    BY <1>7, <2>1 DEF Unscanned
  <2>6. ASSUME cycles' = {} PROVE GrayScanned'
    <3>1. GrayScanned
      BY <1>1, <2>1, <2>6 DEF SearchInv
    <3> SUFFICES ASSUME NEW i \in DOMAIN stack', NEW e \in Deps(stack'[i]) \cap TaskIds
                 PROVE  \/ e \in black
                        \/ e \in left'[stack'[i]]
                        \/ i < Len(stack') /\ e = stack'[i + 1]
      BY <1>1, <1>2 DEF GrayScanned
    <3>2. CASE i = Len(stack) + 1
      <4>1. stack'[i] = d /\ left'[d] = Deps(d)
        BY <1>2, <1>7, <2>1, <2>2, <3>2
      <4>2. QED BY <4>1
    <3>3. CASE i # Len(stack) + 1
      <4>1. i \in 1..Len(stack) /\ stack'[i] = stack[i] /\ i < Len(stack')
        BY <1>4, <2>2, <3>3
      <4>2. \/ e \in black \/ e \in left[stack[i]]
            \/ i < Len(stack) /\ e = stack[i + 1]
        BY <1>4, <3>1, <4>1 DEF GrayScanned
      <4>3. CASE i = Len(stack)
        <5>1. stack[i] = Top /\ stack'[i + 1] = d
          BY <1>4, <2>2, <4>3
        <5>2. e \in black \/ e \in left'[Top] \/ e = d
          BY <1>6, <4>2, <4>3, <5>1
        <5>3. QED BY <4>1, <5>1, <5>2
      <4>4. CASE i # Len(stack)
        <5>1. stack[i] # Top
          BY <1>3, <1>4, <4>1, <4>4 DEF StackIsGray
        <5>2. left'[stack[i]] = left[stack[i]]
          BY <1>4, <1>6, <4>1, <5>1
        <5>3. stack'[i + 1] = stack[i + 1]
          BY <1>4, <2>2, <4>1, <4>4
        <5>4. QED BY <4>1, <4>2, <5>2, <5>3
      <4>5. QED BY <4>3, <4>4
    <3>4. QED BY <3>2, <3>3
  <2>7. QED BY <1>1, <1>8, <2>1, <2>4, <2>5, <2>6 DEF SearchInv
<1>13. QED BY <1>10, <1>11, <1>12 DEF ScanDep

(* The colours mean what they should after every step of detectCycles. *)
LEMMA SearchKept == TypeOK /\ SearchInv /\ [Next]_vars => SearchInv'
<1> SUFFICES ASSUME TypeOK, SearchInv, [Next]_vars PROVE SearchInv'
  OBVIOUS
<1>1. CASE StartSearch
  <2>1. /\ phase = "validate" /\ phase' = "search"
        /\ white' = TaskIds /\ left' = [t \in Id |-> Deps(t)]
        /\ UNCHANGED <<order, dependsOn, black, stack, cycles>>
    BY <1>1 DEF StartSearch, inputVars
  <2>2. black' = {} /\ stack' = << >> /\ DOMAIN stack' = {} /\ Len(stack') = 0
    BY <2>1 DEF SearchInv
  <2>3. TaskIds' = TaskIds /\ \A t : Deps(t)' = Deps(t)
    BY <2>1, DepsKept
  <2>4. StackIsGray' /\ GrayScanned'
    BY <2>1, <2>2, <2>3 DEF StackIsGray, IsPath, GrayScanned
  <2>5. Unscanned'
    BY <2>1, <2>3, OrderFacts DEF Unscanned
  <2>6. BlackClosed' /\ NoneClosedIn(black)'
    BY <2>2 DEF BlackClosed, NoneClosedIn, Closed
  <2>7. QED BY <2>1, <2>4, <2>5, <2>6 DEF SearchInv
<1>2. ASSUME NEW t \in Id, StartAt(t) PROVE SearchInv'
  <2>1. /\ phase = "search" /\ phase' = "search" /\ stack = << >> /\ t \in white
        /\ stack' = <<t>> /\ white' = white \ {t}
        /\ UNCHANGED <<order, dependsOn, black, left, cycles>>
    BY <1>2 DEF StartAt, IsNextStart, inputVars
  <2>2. Len(stack') = 1 /\ DOMAIN stack' = {1} /\ stack'[1] = t
    BY <2>1
  <2>3. /\ TaskIds' = TaskIds /\ \A u : Deps(u)' = Deps(u)
        /\ \A S : Closed(S)' <=> Closed(S)
    BY <2>1, DepsKept
  <2>4. StackIsGray /\ Unscanned /\ t \in TaskIds
    BY <2>1 DEF SearchInv, TypeOK
  <2>5. StackIsGray'
    <3>1. IsPath(stack)'
      BY <2>2 DEF IsPath
    <3>2. \A u \in TaskIds : u \in white \cup black
      BY <2>1, <2>4 DEF StackIsGray
    <3>3. t \notin black /\ white \cap black = {}
      BY <2>1, <2>4 DEF StackIsGray
    <3>4. QED BY <2>1, <2>2, <2>3, <3>1, <3>2, <3>3 DEF StackIsGray
  <2>6. Unscanned'
    BY <2>1, <2>3, <2>4 DEF Unscanned
  <2>7. ASSUME cycles' = {} PROVE BlackClosed' /\ GrayScanned' /\ NoneClosedIn(black)'
    <3>1. BlackClosed /\ NoneClosedIn(black)
      BY <2>1, <2>7 DEF SearchInv
    <3>2. left'[t] = Deps(t)
      BY <2>1, <2>4 DEF Unscanned
    <3>3. QED BY <2>1, <2>2, <2>3, <3>1, <3>2 DEF BlackClosed, GrayScanned, NoneClosedIn
  <2>8. QED BY <2>1, <2>5, <2>6, <2>7 DEF SearchInv
<1>3. CASE \E d \in Id : ScanDep(d)
  BY <1>3, ScanKeeps
<1>4. CASE Leave
  <2>1. /\ phase = "search" /\ phase' = "search" /\ stack # << >> /\ left[Top] = {}
        /\ black' = black \cup {Top} /\ stack' = SubSeq(stack, 1, Len(stack) - 1)
        /\ UNCHANGED <<order, dependsOn, white, left, cycles>>
    BY <1>4 DEF Leave, inputVars
  <2>2. /\ Len(stack) \in Nat /\ Len(stack) >= 1 /\ DOMAIN stack = 1..Len(stack)
        /\ Top \in TaskIds /\ Top = stack[Len(stack)]
    BY <2>1, OrderFacts, PopPush DEF Top, TypeOK
  <2>3. /\ Len(stack') = Len(stack) - 1 /\ DOMAIN stack' = 1..(Len(stack) - 1)
        /\ \A i \in 1..(Len(stack) - 1) : stack'[i] = stack[i]
    <3>1. stack' \in Seq(TaskIds)
      BY <2>1, PopPush DEF TypeOK
    <3>2. QED BY <2>1, <3>1, PopPush DEF TypeOK
  <2>4. /\ TaskIds' = TaskIds /\ \A u : Deps(u)' = Deps(u)
        /\ \A S : Closed(S)' <=> Closed(S)
    BY <2>1, DepsKept
  <2>5. StackIsGray /\ Unscanned
    BY <2>1 DEF SearchInv
  <2>6. \A i \in 1..(Len(stack) - 1) : stack[i] # Top
    BY <2>2, <2>5 DEF StackIsGray
  <2>7. StackIsGray'
    <3>1. Top \notin white
      BY <2>2, <2>5 DEF StackIsGray
    <3>2. white' \cap black' = {} /\ \A i \in DOMAIN stack' : stack'[i] \notin white' \cup black'
      BY <2>1, <2>2, <2>3, <2>5, <2>6, <3>1 DEF StackIsGray
    <3>3. \A i, j \in DOMAIN stack' : stack'[i] = stack'[j] => i = j
      BY <2>2, <2>3, <2>5 DEF StackIsGray
    <3>4. \A u \in TaskIds' : u \in white' \cup black' \/ \E i \in DOMAIN stack' : stack'[i] = u
      <4> SUFFICES ASSUME NEW u \in TaskIds, u \notin white, u \notin black, u # Top
                   PROVE  \E i \in DOMAIN stack' : stack'[i] = u
        BY <2>1, <2>4
      <4>1. PICK i \in 1..Len(stack) : stack[i] = u
        BY <2>2, <2>5 DEF StackIsGray
      <4>2. i \in 1..(Len(stack) - 1)
        BY <2>2, <4>1
      <4>3. QED BY <2>3, <4>1, <4>2
    <3>5. IsPath(stack)'
      <4> SUFFICES ASSUME NEW i \in 1..(Len(stack') - 1)
                   PROVE  stack'[i + 1] \in Deps(stack[i])'
        BY DEF IsPath
      <4>1. Deps(stack[i])' = Deps(stack'[i])
        BY <2>1 DEF Deps
      <4>2. i \in 1..(Len(stack) - 1) /\ i + 1 \in 1..(Len(stack) - 1)
        BY <2>2, <2>3
      <4>3. stack[i + 1] \in Deps(stack[i])
        BY <2>5, <4>2 DEF StackIsGray, IsPath
      <4>4. QED BY <2>3, <4>1, <4>2, <4>3
    <3>6. QED BY <3>2, <3>3, <3>4, <3>5 DEF StackIsGray
  <2>8. Unscanned'
    BY <2>1, <2>4, <2>5 DEF Unscanned
  <2>9. ASSUME cycles' = {} PROVE BlackClosed' /\ GrayScanned' /\ NoneClosedIn(black)'
    <3>1. BlackClosed /\ GrayScanned /\ NoneClosedIn(black)
      BY <2>1, <2>9 DEF SearchInv
    <3>2. Deps(Top) \cap TaskIds \subseteq black
      BY <2>1, <2>2, <3>1 DEF GrayScanned
    <3>3. Top \notin black /\ black \in SUBSET TaskIds
      BY <2>2, <2>5 DEF StackIsGray, TypeOK
    <3>4. NoneClosedIn(black \cup {Top})
      BY <2>2, <3>1, <3>2, <3>3, BlackGrows DEF BlackClosed
    <3>5. NoneClosedIn(black)'
      BY <2>1, <2>4, <3>4 DEF NoneClosedIn
    <3>6. BlackClosed'
      BY <2>1, <2>4, <3>1, <3>2 DEF BlackClosed
    <3>7. GrayScanned'
      <4> SUFFICES ASSUME NEW i \in DOMAIN stack', NEW e \in Deps(stack'[i]) \cap TaskIds
                   PROVE  \/ e \in black'
                          \/ e \in left[stack'[i]]
                          \/ i < Len(stack') /\ e = stack'[i + 1]
        BY <2>1, <2>4 DEF GrayScanned, Deps
      <4>1. i \in 1..(Len(stack) - 1) /\ i \in DOMAIN stack /\ stack'[i] = stack[i]
        BY <2>2, <2>3
      <4>2. e \in black \/ e \in left[stack[i]] \/ e = stack[i + 1]
        BY <3>1, <4>1 DEF GrayScanned
      <4>3. CASE i = Len(stack) - 1
        <5>1. stack[i + 1] = Top
          BY <2>2, <4>1, <4>3
        <5>2. QED BY <2>1, <4>1, <4>2, <5>1
      <4>4. CASE i # Len(stack) - 1
        <5>1. i < Len(stack') /\ stack'[i + 1] = stack[i + 1]
          BY <2>2, <2>3, <4>1, <4>4
        <5>2. QED BY <2>1, <4>1, <4>2, <5>1
      <4>5. QED BY <4>3, <4>4
    <3>8. QED BY <3>5, <3>6, <3>7
  <2>10. QED BY <2>1, <2>7, <2>8, <2>9 DEF SearchInv
<1>5. CASE EndSearch
  BY <1>5 DEF EndSearch, SearchInv
<1>6. CASE SearchVarsKept /\ PhaseGoesOn
  <2>1. UNCHANGED <<order, dependsOn, white, black, stack, left, cycles>>
    BY <1>6 DEF SearchVarsKept
  <2>2. /\ TaskIds' = TaskIds /\ \A u : Deps(u)' = Deps(u)
        /\ \A S : Closed(S)' <=> Closed(S)
    BY <2>1, DepsKept
  <2>3. /\ StackIsGray' <=> StackIsGray
        /\ Unscanned' <=> Unscanned
    BY <2>1, <2>2 DEF StackIsGray, IsPath, Unscanned, Deps
  <2>4. /\ BlackClosed' <=> BlackClosed
        /\ GrayScanned' <=> GrayScanned
        /\ NoneClosedIn(black)' <=> NoneClosedIn(black)
    BY <2>1, <2>2 DEF BlackClosed, GrayScanned, NoneClosedIn, Deps
  <2>5. QED BY <1>6, <2>1, <2>3, <2>4 DEF SearchInv, PhaseGoesOn
<1>7. QED BY <1>1, <1>2, <1>3, <1>4, <1>5, <1>6, OtherSteps

-----------------------------------------------------------------------------
(***************************************************************************)
(* The verdict                                                             *)
(***************************************************************************)

(* A cycle on record is real, and an end without one found none. *)
LEMMA VerdictKept ==
  TypeOK /\ SearchInv /\ VerdictInv /\ (cycles # {} => Cyclic) /\ [Next]_vars
    => VerdictInv' /\ (cycles # {} => Cyclic)'
<1> SUFFICES ASSUME TypeOK, SearchInv, VerdictInv, cycles # {} => Cyclic, [Next]_vars
             PROVE  VerdictInv' /\ (cycles # {} => Cyclic)'
  OBVIOUS
<1> DEFINE Real(c) == /\ Len(c) >= 2 /\ c[1] = c[Len(c)]
                      /\ \A i \in 1..(Len(c) - 1) : c[i + 1] \in Deps(c[i])
<1>1. ASSUME UNCHANGED <<order, dependsOn, cycles>>
      PROVE  ReportedCyclesReal' /\ (cycles # {} => Cyclic)'
  <2>1. Cyclic' <=> Cyclic
    BY <1>1, DepsKept
  <2>2. ReportedCyclesReal' <=> ReportedCyclesReal
    BY <1>1 DEF ReportedCyclesReal, Deps
  <2>3. QED BY <1>1, <2>1, <2>2 DEF VerdictInv
<1>2. ASSUME NEW d \in Id, ScanDep(d) PROVE VerdictInv' /\ (cycles # {} => Cyclic)'
  <2>1. /\ phase = "search" /\ phase' = "search" /\ stack # << >> /\ d \in left[Top]
        /\ UNCHANGED <<order, dependsOn>>
    BY <1>2 DEF ScanDep, inputVars
  <2>2. CASE ~BackEdge(d)
    <3>1. cycles' = cycles
      BY <1>2, <2>2 DEF ScanDep, Outside, Descend, Known
    <3>2. QED BY <1>1, <2>1, <3>1 DEF VerdictInv
  <2>3. CASE BackEdge(d)
    <3>1. PICK i \in DOMAIN stack : stack[i] = d /\ cycles' = cycles \cup {PathFrom(i, d)}
      BY <2>3 DEF BackEdge
    <3>2. Top \in Id /\ IsPath(stack) /\ Unscanned
      <4>1. Top \in TaskIds
        BY <2>1, PopPush DEF Top, TypeOK
      <4>2. QED BY <2>1, <4>1, OrderFacts DEF SearchInv, StackIsGray
    <3>3. d \in Deps(Top)
      BY <2>1, <3>2 DEF Unscanned
    <3>4. Cyclic /\ Real(PathFrom(i, d))
      BY <2>1, <3>1, <3>2, <3>3, BackEdgeCloses
    <3>5. \A c \in cycles : Real(c)
      BY DEF VerdictInv, ReportedCyclesReal
    <3>6. \A c \in cycles' : Real(c)
      BY <3>1, <3>4, <3>5
    <3>7. ReportedCyclesReal'
      BY <2>1, <3>6 DEF ReportedCyclesReal, Deps
    <3>8. Cyclic'
      BY <2>1, <3>4, DepsKept
    <3>9. QED BY <2>1, <3>7, <3>8 DEF VerdictInv
  <2>4. QED BY <2>2, <2>3
<1>3. CASE EndSearch
  <2>1. /\ phase = "search" /\ stack = << >> /\ white = {}
        /\ phase' = IF cycles = {} THEN "conflicts" ELSE "cycle_detected"
        /\ UNCHANGED <<order, dependsOn, cycles>>
    BY <1>3 DEF EndSearch, inputVars, searchVars
  <2>2. ASSUME cycles = {} PROVE ~Cyclic
    <3>1. \A t \in TaskIds : t \in black
      BY <2>1 DEF SearchInv, StackIsGray
    <3>2. NoneClosedIn(black)
      BY <2>1, <2>2 DEF SearchInv
    <3>3. QED BY <3>1, <3>2 DEF NoneClosedIn, Cyclic
  <2>3. Cyclic' <=> Cyclic
    BY <2>1, DepsKept
  <2>4. QED BY <1>1, <2>1, <2>2, <2>3 DEF VerdictInv
<1>4. CASE StartSearch \/ Leave \/ \E t \in Id : StartAt(t)
  <2>1. UNCHANGED <<order, dependsOn, cycles>> /\ phase' = "search"
    BY <1>4 DEF StartSearch, Leave, StartAt, inputVars
  <2>2. QED BY <1>1, <2>1 DEF VerdictInv
<1>5. CASE SearchVarsKept /\ PhaseGoesOn
  <2>1. Cyclic' <=> Cyclic
    BY <1>5, DepsKept DEF SearchVarsKept
  <2>2. ReportedCyclesReal' /\ (cycles # {} => Cyclic)'
    BY <1>1, <1>5 DEF SearchVarsKept
  <2>3. cycles' = cycles
    BY <1>5 DEF SearchVarsKept
  <2>4. QED BY <1>5, <2>1, <2>2, <2>3 DEF VerdictInv, PhaseGoesOn
<1>6. QED BY <1>2, <1>3, <1>4, <1>5, OtherSteps

-----------------------------------------------------------------------------
(***************************************************************************)
(* The relaxation                                                          *)
(***************************************************************************)

(* A task stays behind its dependencies while the waves stay. *)
LEMMA SatisfiedKept ==
  ASSUME UNCHANGED <<order, dependsOn, waveOf>>
  PROVE  \A t : Satisfied(t)' <=> Satisfied(t)
BY DEF Satisfied, Deps, TaskIds

(* What a round has swept without a change is satisfied, after every step. *)
LEMMA WaveKept == TypeOK /\ WaveInv /\ [Next]_vars => WaveInv'
<1> SUFFICES ASSUME TypeOK, WaveInv, [Next]_vars PROVE WaveInv'
  OBVIOUS
<1> USE DEF inputVars, searchVars, waveVars
<1>1. ASSUME UNCHANGED <<order, dependsOn, conflicts, waveOf, pos, changed>>,
             \/ phase' = phase
             \/ phase' \in {"empty", "invalid_input", "cycle_detected"}
             \/ phase = "validate" /\ phase' = "search"
             \/ phase = "search" /\ phase' = "conflicts"
      PROVE  WaveInv'
  <2>1. Pairs' = Pairs /\ TaskIds' = TaskIds
    BY <1>1 DEF Pairs, TaskIds
  <2>2. \A t : Satisfied(t)' <=> Satisfied(t)
    BY <1>1, SatisfiedKept
  <2>3. \A i \in 1..(pos - 1) : Satisfied(order[i])' <=> Satisfied(order[i])
    BY <1>1 DEF Satisfied, Deps, TaskIds
  <2>4. \A p : Collides(p)' <=> Collides(p)
    BY <1>1 DEF Collides
  <2>5. QED BY <1>1, <2>1, <2>2, <2>3, <2>4 DEF WaveInv
<1>2. CASE EmptyInput \/ InvalidInput
  BY <1>1, <1>2 DEF EmptyInput, InvalidInput
<1>3. CASE StartSearch \/ Leave \/ EndSearch \/ \E t \in Id : StartAt(t)
  BY <1>1, <1>3 DEF StartSearch, Leave, EndSearch, StartAt
<1>4. CASE \E d \in Id : ScanDep(d)
  BY <1>1, <1>4 DEF ScanDep
<1>5. CASE DetectConflicts
  <2>1. conflicts' \subseteq Pairs /\ Pairs' = Pairs
    BY <1>5 DEF DetectConflicts, Pairs, TaskIds
  <2>2. pos' = 1 /\ phase' = "sweep"
    BY <1>5 DEF DetectConflicts, WaveInv
  <2>3. QED BY <2>1, <2>2 DEF WaveInv
<1>6. CASE Propagate
  <2> DEFINE t == order[pos]
  <2>1. PICK w \in Floors(t) :
          /\ IsRequired(t, w)
          /\ waveOf' = [waveOf EXCEPT ![t] = w]
          /\ changed' = (changed \/ w # waveOf[t])
    BY <1>6 DEF Propagate
  <2>2. /\ phase = "sweep" /\ phase' = "sweep" /\ pos' = pos + 1
        /\ UNCHANGED <<order, dependsOn, conflicts>> /\ pos \in Nat /\ pos >= 1
    BY <1>6, OrderFacts DEF Propagate, TypeOK
  <2>3. Pairs' = Pairs
    BY <2>2 DEF Pairs, TaskIds
  <2>4. ASSUME ~changed' PROVE \A i \in 1..(pos' - 1) : Satisfied(order[i])'
    <3>1. ~changed /\ w = waveOf[t]
      BY <2>1, <2>4
    <3>2. waveOf' = waveOf
      BY <2>1, <3>1 DEF TypeOK
    <3>3. \A i \in 1..(pos - 1) : Satisfied(order[i])
      BY <2>2, <3>1 DEF WaveInv
    <3>4. Satisfied(t)
      <4> SUFFICES ASSUME NEW d \in Deps(t) \cap TaskIds PROVE waveOf[d] < waveOf[t]
        BY DEF Satisfied
      <4>1. waveOf[d] + 1 <= w
        BY <2>1 DEF IsRequired, Floors
      <4>2. waveOf[d] \in Nat /\ waveOf[t] \in Nat
        <5>1. t \in Id /\ d \in Id
          BY <1>6, OrderFacts DEF Propagate, TypeOK
        <5>2. QED BY <5>1 DEF TypeOK
      <4>3. QED BY <3>1, <4>1, <4>2
    <3>5. \A i \in 1..pos : Satisfied(order[i])
      BY <2>2, <3>3, <3>4
    <3>6. \A i \in 1..pos : Satisfied(order[i])' <=> Satisfied(order[i])
      BY <2>2, <3>2 DEF Satisfied, Deps, TaskIds
    <3>7. pos' - 1 = pos
      BY <2>2
    <3>8. QED BY <3>5, <3>6, <3>7
  <2>5. QED BY <2>2, <2>3, <2>4 DEF WaveInv
<1>7. ASSUME NEW p \in conflicts, Bump(p) PROVE WaveInv'
  <2>1. /\ phase' = "sweep" /\ pos' = 1 /\ UNCHANGED <<order, conflicts>>
    BY <1>7 DEF Bump, NextRound
  <2>2. Pairs' = Pairs
    BY <2>1 DEF Pairs, TaskIds
  <2>3. QED BY <2>1, <2>2 DEF WaveInv
<1>8. CASE Settle
  <2>1. /\ phase = "sweep" /\ pos > Len(order) /\ \A p \in conflicts : ~Collides(p)
        /\ UNCHANGED <<order, dependsOn, conflicts, waveOf>>
    BY <1>8 DEF Settle
  <2>2. Pairs' = Pairs /\ TaskIds' = TaskIds
    BY <2>1 DEF Pairs, TaskIds
  <2>3. CASE changed /\ NextRound
    BY <2>1, <2>2, <2>3 DEF NextRound, WaveInv
  <2>4. CASE ~changed /\ phase' = "ok"
    <3>1. \A i \in 1..(pos - 1) : Satisfied(order[i])
      BY <2>1, <2>4 DEF WaveInv
    <3>2. \A t \in TaskIds : Satisfied(t)
      <4> TAKE t \in TaskIds
      <4>1. PICK i \in DOMAIN order : order[i] = t
        BY DEF TaskIds
      <4>2. i \in 1..(pos - 1)
        BY <2>1, OrderFacts DEF TypeOK
      <4>3. QED BY <3>1, <4>1, <4>2
    <3>3. \A t \in TaskIds' : Satisfied(t)'
      BY <2>1, <2>2, <3>2, SatisfiedKept
    <3>4. \A p \in conflicts' : ~Collides(p)'
      BY <2>1 DEF Collides
    <3>5. QED BY <2>1, <2>2, <2>4, <3>3, <3>4 DEF WaveInv
  <2>5. QED BY <1>8, <2>3, <2>4 DEF Settle
<1>9. CASE UNCHANGED vars
  BY <1>1, <1>9 DEF vars
<1>10. QED BY <1>2, <1>3, <1>4, <1>5, <1>6, <1>7, <1>8, <1>9 DEF Next, Returned

-----------------------------------------------------------------------------
(***************************************************************************)
(* The inductive invariant and what follows                                *)
(***************************************************************************)

WavesInv == TypeOK /\ SearchInv /\ VerdictInv /\ (cycles # {} => Cyclic) /\ WaveInv

(* The invariant of the resolver holds when it starts. *)
LEMMA InitInvariant == Init => WavesInv
<1> SUFFICES ASSUME Init PROVE WavesInv
  OBVIOUS
<1>1. TypeOK
  BY InitTypes
<1>2. SearchInv
  BY DEF Init, SearchInv
<1>3. VerdictInv
  BY DEF Init, VerdictInv, ReportedCyclesReal
<1>4. WaveInv
  BY DEF Init, WaveInv
<1>5. cycles = {}
  BY DEF Init
<1>6. QED BY <1>1, <1>2, <1>3, <1>4, <1>5 DEF WavesInv

(* Every step of the resolver keeps its invariant. *)
LEMMA InvariantKept == WavesInv /\ [Next]_vars => WavesInv'
BY TypesKept, SearchKept, VerdictKept, WaveKept DEF WavesInv

(* The invariant of search, verdict and waves holds for every plan set. *)
LEMMA WavesInvHolds == Spec => []WavesInv
BY InitInvariant, InvariantKept, PTL DEF Spec

(* The dispatch gate's verdict on cycles is right for every plan set: it   *)
(* is blocked for a cycle exactly when its dependencies hold one.          *)
THEOREM VerdictCorrect == Spec => []CycleFoundIffCyclic
<1>1. WavesInv => CycleFoundIffCyclic
  BY DEF WavesInv, VerdictInv, CycleFoundIffCyclic
<1>2. QED BY <1>1, WavesInvHolds, PTL

(* Every path the resolver reports can be followed round.                  *)
THEOREM ReportedPathsReal == Spec => []ReportedCyclesReal
<1>1. WavesInv => ReportedCyclesReal
  BY DEF WavesInv, VerdictInv
<1>2. QED BY <1>1, WavesInvHolds, PTL

(* The waves it returns put every task after all it waits for, and order   *)
(* every two tasks that share a file.                                      *)
THEOREM GatesRespected == Spec => []WavesRespectGates
<1>1. WavesInv => WavesRespectGates
  <2> SUFFICES ASSUME WavesInv, phase = "ok" PROVE
               /\ \A t \in TaskIds : \A u \in Gates(t) : waveOf[u] < waveOf[t]
               /\ \A p \in conflicts : p[1] \in Gates(p[2]) \/ p[2] \in Gates(p[1])
    BY DEF WavesRespectGates
  <2>1. \A t \in TaskIds : Satisfied(t)
    BY DEF WavesInv, WaveInv
  <2>2. \A t \in TaskIds : \A u \in Gates(t) : waveOf[u] < waveOf[t]
    BY <2>1 DEF Gates, DependencyGates, ConflictGates, Satisfied
  <2>3. ASSUME NEW p \in conflicts PROVE p[1] \in Gates(p[2]) \/ p[2] \in Gates(p[1])
    <3>1. p \in TaskIds \X TaskIds /\ p = <<p[1], p[2]>>
      BY DEF WavesInv, TypeOK
    <3>2. waveOf[p[1]] # waveOf[p[2]]
      BY DEF WavesInv, WaveInv, Collides
    <3>3. waveOf[p[1]] \in Nat /\ waveOf[p[2]] \in Nat
      BY <3>1, OrderFacts DEF WavesInv, TypeOK
    <3>4. waveOf[p[1]] < waveOf[p[2]] \/ waveOf[p[2]] < waveOf[p[1]]
      BY <3>2, <3>3
    <3>5. <<p[1], p[2]>> \in conflicts
      BY <3>1
    <3>6. QED BY <3>1, <3>4, <3>5 DEF Gates, ConflictGates
  <2>4. QED BY <2>2, <2>3
<1>2. QED BY <1>1, WavesInvHolds, PTL

-----------------------------------------------------------------------------
(***************************************************************************)
(* The end of the relaxation                                               *)
(***************************************************************************)

(* Every set of naturals has a least element.                              *)
LEMMA LeastNat ==
  ASSUME NEW T \in SUBSET Nat, T # {}
  PROVE  \E n \in T : \A m \in T : n <= m
<1> DEFINE R == {p \in Nat \X Nat : p[1] < p[2]}
<1>1. IsWellFoundedOn(R, Nat)
  <2>1. IsWellFoundedOn(OpToRel(<, Nat), Nat)
    BY NatLessThanWellFounded
  <2>2. QED BY <2>1 DEF OpToRel, IsWellFoundedOn
<1>2. \E n \in T : \A m \in T : <<m, n>> \notin R
  <2> HIDE DEF R
  <2>1. QED BY <1>1, WFMin
<1>3. PICK n \in T : \A m \in T : <<m, n>> \notin R
  BY <1>2
<1>4. ASSUME NEW m \in T PROVE n <= m
  <2>1. m \in Nat /\ n \in Nat
    OBVIOUS
  <2>2. ~(m < n)
    BY <1>3, <2>1
  <2>3. QED BY <2>1, <2>2
<1>5. QED BY <1>4

(* The wave a task will get from the sweeps alone, were there no more      *)
(* bumps: its own, or one more than that of a dependency.                  *)
Due(v) ==
    /\ v \in [TaskIds -> Nat]
    /\ \A t \in TaskIds :
        /\ waveOf[t] <= v[t]
        /\ \A d \in DependencyGates(t) : v[d] + 1 <= v[t]
        /\ v[t] = waveOf[t] \/ \E d \in DependencyGates(t) : v[t] = v[d] + 1

(* A numbering of the tasks along their dependencies.                      *)
Ranked(r) ==
    /\ r \in [TaskIds -> 0..(Cardinality(TaskIds) - 1)]
    /\ \A t \in TaskIds : \A d \in DependencyGates(t) : r[d] < r[t]

(* No task is due in one of the g waves after h.                           *)
Gap(v, h, g) == \A t \in TaskIds : v[t] <= h \/ v[t] > h + g

(* Beyond a gap of g waves the first g ranks of tasks have caught up with  *)
(* it; those that the sweep has seen are one rank and one wave further.    *)
CaughtUp(v, r) ==
    \A h \in Nat, g \in Nat \ {0} : Gap(v, h, g) =>
        /\ \A t \in TaskIds : v[t] > h /\ r[t] < g => waveOf[t] > h + g
        /\ \A i \in 1..(pos - 1) :
            r[order[i]] <= g /\ (\E d \in DependencyGates(order[i]) : v[d] > h)
              => waveOf[order[i]] > h + g + 1

(* No gap below a task is wider than there are tasks.                      *)
GapsBounded(v) ==
    \A h, g \in Nat :
        Gap(v, h, g) /\ (\E t \in TaskIds : v[t] > h) => g <= Cardinality(TaskIds)

Relaxing(v, r) == Due(v) /\ Ranked(r) /\ CaughtUp(v, r) /\ GapsBounded(v)

RelaxInv ==
    /\ phase \notin {"sweep", "ok"} => waveOf = [t \in Id |-> 1]
    /\ phase \in {"sweep", "ok"} => \E v, r : Relaxing(v, r)

-----------------------------------------------------------------------------
(* The list names finitely many tasks, not more than it is long.           *)
LEMMA TasksFinite ==
  ASSUME TypeOK
  PROVE  /\ IsFiniteSet(TaskIds) /\ Cardinality(TaskIds) \in Nat
         /\ Cardinality(TaskIds) <= Len(order)
         /\ TaskIds # {} => Cardinality(TaskIds) >= 1
<1>1. Len(order) \in Nat /\ DOMAIN order = 1..Len(order)
  BY OrderFacts
<1>2. IsFiniteSet(1..Len(order)) /\ Cardinality(1..Len(order)) = Len(order)
  <2> DEFINE m == Len(order)
  <2> HIDE DEF m
  <2>1. 1 \in Int /\ m \in Nat /\ m \in Int
    BY <1>1 DEF m
  <2>2. IsFiniteSet(1..m) /\ Cardinality(1..m) = IF 1 > m THEN 0 ELSE m - 1 + 1
    BY <2>1, FS_Interval
  <2>3. Cardinality(1..m) = m
    BY <2>1, <2>2
  <2>4. QED BY <2>2, <2>3 DEF m
<1>3. TaskIds = {order[i] : i \in 1..Len(order)}
  BY <1>1 DEF TaskIds
<1>4. order \in Surjection(1..Len(order), TaskIds)
  BY <1>1, <1>3 DEF TypeOK, Surjection
<1>5. IsFiniteSet(TaskIds) /\ Cardinality(TaskIds) <= Cardinality(1..Len(order))
  BY <1>2, <1>4, FS_Surjection
<1>6. Cardinality(TaskIds) \in Nat /\ (TaskIds # {} => Cardinality(TaskIds) # 0)
  BY <1>5, FS_CardinalityType, FS_EmptySet
<1>7. QED BY <1>1, <1>2, <1>5, <1>6

(* Dependencies without a cycle can be followed from tasks that have none: *)
(* the waves that the sweeps alone would end with, each at most the number *)
(* of tasks.                                                               *)
LEMMA FirstWaves ==
  ASSUME TypeOK, ~Cyclic
  PROVE  \E u \in [TaskIds -> 1..Cardinality(TaskIds)] : \A t \in TaskIds :
           /\ \A d \in DependencyGates(t) : u[d] + 1 <= u[t]
           /\ u[t] = 1 \/ \E d \in DependencyGates(t) : u[t] = u[d] + 1
<1> DEFINE n == Cardinality(TaskIds)
           Fits(u, S) ==
             \A t \in S : /\ DependencyGates(t) \subseteq S
                          /\ \A d \in DependencyGates(t) : u[d] + 1 <= u[t]
                          /\ u[t] = 1 \/ \E d \in DependencyGates(t) : u[t] = u[d] + 1
           Numbered(S) == \E u \in [S -> 1..Cardinality(S)] : Fits(u, S)
           Left == {k \in Nat : \E S \in SUBSET TaskIds : Numbered(S) /\ k = n - Cardinality(S)}
<1>1. IsFiniteSet(TaskIds) /\ n \in Nat
  BY TasksFinite
<1>2. \A S \in SUBSET TaskIds : IsFiniteSet(S) /\ Cardinality(S) \in Nat /\ Cardinality(S) <= n
  BY <1>1, FS_Subset, FS_CardinalityType
<1>3. Numbered({})
  <2>1. [t \in {} |-> 1] \in [{} -> 1..Cardinality({})]
    OBVIOUS
  <2>2. QED BY <2>1
<1>4. Left # {}
  <2>1. n - Cardinality({}) \in Nat
    BY <1>1, <1>2
  <2>2. QED BY <1>3, <2>1
<1>5. PICK k \in Left : \A m \in Left : k <= m
  <2>1. Left \in SUBSET Nat
    OBVIOUS
  <2> HIDE DEF Left
  <2>2. QED BY <1>4, <2>1, LeastNat
<1>6. PICK S \in SUBSET TaskIds : Numbered(S) /\ k = n - Cardinality(S)
  BY <1>5
<1>7. PICK u \in [S -> 1..Cardinality(S)] : Fits(u, S)
  BY <1>6
<1>8. ASSUME S # TaskIds PROVE FALSE
  <2>1. PICK t \in TaskIds \ S : Deps(t) \cap (TaskIds \ S) = {}
    <3>1. TaskIds \ S # {} /\ TaskIds \ S \in SUBSET TaskIds
      BY <1>8
    <3>2. ~Closed(TaskIds \ S)
      BY <3>1 DEF Cyclic
    <3>3. QED BY <3>1, <3>2 DEF Closed
  <2>2. DependencyGates(t) \subseteq S
    BY <2>1 DEF DependencyGates
  <2> DEFINE c == Cardinality(S)
             T == {w \in Nat \ {0} : \A d \in DependencyGates(t) : u[d] + 1 <= w}
  <2>3. c \in Nat /\ \A d \in DependencyGates(t) : u[d] \in 1..c
    BY <1>2, <1>7, <2>2
  <2>4. c + 1 \in T
    BY <2>3
  <2>5. PICK w \in T : \A m \in T : w <= m
    <3>1. T \in SUBSET Nat /\ T # {}
      BY <2>4
    <3> HIDE DEF T
    <3>2. QED BY <3>1, LeastNat
  <2>6. w \in 1..(c + 1)
    BY <2>3, <2>4, <2>5
  <2>7. w = 1 \/ \E d \in DependencyGates(t) : w = u[d] + 1
    <3>1. SUFFICES ASSUME w # 1, \A d \in DependencyGates(t) : w # u[d] + 1 PROVE FALSE
      OBVIOUS
    <3>2. w - 1 \in T
      BY <2>3, <2>6, <3>1
    <3>3. QED BY <2>5, <2>6, <3>2
  <2> DEFINE S1 == S \cup {t}
             u1 == [s \in S1 |-> IF s = t THEN w ELSE u[s]]
  <2>8. Cardinality(S1) = c + 1
    BY <1>2, <2>1, FS_AddElement
  <2>9. u1 \in [S1 -> 1..(c + 1)]
    <3>1. \A s \in S : u[s] \in 1..(c + 1)
      BY <1>7, <2>3
    <3>2. QED BY <2>6, <3>1
  <2>10. Fits(u1, S1)
    <3>1. u1[t] = w /\ \A s \in S : u1[s] = u[s] /\ s # t
      BY <2>1
    <3>2. \A d \in DependencyGates(t) : u1[d] = u[d]
      BY <2>2, <3>1
    <3>3. \A s \in S : \A d \in DependencyGates(s) : u1[d] = u[d]
      BY <1>7, <3>1
    <3>4. ASSUME NEW s \in S
          PROVE  /\ DependencyGates(s) \subseteq S1
                 /\ \A d \in DependencyGates(s) : u1[d] + 1 <= u1[s]
                 /\ u1[s] = 1 \/ \E d \in DependencyGates(s) : u1[s] = u1[d] + 1
      BY <1>7, <3>1, <3>3
    <3>5. /\ DependencyGates(t) \subseteq S1
          /\ \A d \in DependencyGates(t) : u1[d] + 1 <= u1[t]
          /\ u1[t] = 1 \/ \E d \in DependencyGates(t) : u1[t] = u1[d] + 1
      BY <2>2, <2>5, <2>7, <3>1, <3>2
    <3> HIDE DEF u1
    <3>6. QED BY <3>4, <3>5
  <2>11. Numbered(S1)
    <3> HIDE DEF u1, S1, Fits
    <3>1. QED BY <2>8, <2>9, <2>10
  <2>12. S1 \in SUBSET TaskIds
    BY <2>1
  <2>13. n - (c + 1) \in Left
    <3>1. c + 1 <= n
      BY <1>2, <2>8, <2>12
    <3> HIDE DEF Numbered, S1
    <3>2. QED BY <1>1, <2>3, <2>8, <2>11, <2>12, <3>1
  <2>14. QED BY <1>1, <1>5, <1>6, <2>3, <2>13
<1>9. QED BY <1>7, <1>8

(* What Relaxing looks at: the tasks, their waves and the place of the     *)
(* sweep.                                                                  *)
LEMMA GatesKept ==
  ASSUME UNCHANGED <<order, dependsOn>>
  PROVE  TaskIds' = TaskIds /\ \A t : DependencyGates(t)' = DependencyGates(t)
BY DEF TaskIds, DependencyGates, Deps

(* What is due, and who has caught up, hangs on the waves alone. *)
LEMMA RelaxingKept ==
  ASSUME NEW v, NEW r, Relaxing(v, r), UNCHANGED <<order, dependsOn, waveOf>>,
         pos' = pos \/ pos' = 1
  PROVE  Relaxing(v, r)'
<1>1. TaskIds' = TaskIds /\ \A t : DependencyGates(t)' = DependencyGates(t)
  BY GatesKept
<1>2. Due(v)'
  BY <1>1 DEF Relaxing, Due
<1>3. Ranked(r)'
  BY <1>1 DEF Relaxing, Ranked
<1>4. \A h, g : Gap(v, h, g)' <=> Gap(v, h, g)
  BY <1>1 DEF Gap
<1>5. CaughtUp(v, r)'
  <2>1. \A i \in 1..(pos' - 1) : i \in 1..(pos - 1) /\ pos' = pos
    OBVIOUS
  <2>2. \A i \in 1..(pos' - 1) : DependencyGates(order[i])' = DependencyGates(order[i])
    BY <1>1
  <2>3. QED BY <1>1, <1>4, <2>1, <2>2 DEF Relaxing, CaughtUp
<1>6. GapsBounded(v)'
  BY <1>1, <1>4 DEF Relaxing, GapsBounded
<1>7. QED BY <1>2, <1>3, <1>5, <1>6 DEF Relaxing

(* Before the first sweep the due waves have no gap.                       *)
LEMMA FirstRelaxing ==
  ASSUME TypeOK, ~Cyclic, waveOf = [t \in Id |-> 1], pos = 1
  PROVE  \E v, r : Relaxing(v, r)
<1> DEFINE n == Cardinality(TaskIds)
<1>1. n \in Nat /\ TaskIds \subseteq Id
  BY TasksFinite, OrderFacts
<1>2. PICK v \in [TaskIds -> 1..n] : \A t \in TaskIds :
           /\ \A d \in DependencyGates(t) : v[d] + 1 <= v[t]
           /\ v[t] = 1 \/ \E d \in DependencyGates(t) : v[t] = v[d] + 1
  BY FirstWaves
<1> DEFINE r == [t \in TaskIds |-> v[t] - 1]
<1>3. \A t \in TaskIds : DependencyGates(t) \subseteq TaskIds
  BY DEF DependencyGates
<1>4. \A t \in TaskIds : waveOf[t] = 1
  BY <1>1
<1>5. Due(v)
  <2>1. v \in [TaskIds -> Nat] /\ \A t \in TaskIds : v[t] \in Nat /\ 1 <= v[t]
    BY <1>1, <1>2
  <2>2. QED BY <1>2, <1>4, <2>1 DEF Due
<1>6. Ranked(r)
  <2>1. \A t \in TaskIds : r[t] = v[t] - 1 /\ v[t] \in 1..n
    BY <1>2
  <2>2. r \in [TaskIds -> 0..(n - 1)]
    <3>1. \A t \in TaskIds : v[t] - 1 \in 0..(n - 1)
      BY <1>1, <2>1
    <3>2. QED BY <3>1
  <2>3. \A t \in TaskIds : \A d \in DependencyGates(t) : r[d] < r[t]
    <3> HIDE DEF r
    <3>1. QED BY <1>1, <1>2, <1>3, <2>1
  <2> HIDE DEF r
  <2>4. QED BY <2>2, <2>3 DEF Ranked
<1>7. ASSUME NEW h \in Nat, NEW g \in Nat \ {0}, Gap(v, h, g), NEW t \in TaskIds, v[t] > h
      PROVE  FALSE
  <2> DEFINE T == {k \in Nat : \E s \in TaskIds : v[s] > h /\ k = v[s]}
  <2>1. T \in SUBSET Nat /\ v[t] \in T
    BY <1>1, <1>2, <1>7
  <2>2. PICK k \in T : \A m \in T : k <= m
    <3> HIDE DEF T
    <3>1. QED BY <2>1, LeastNat
  <2>3. PICK s \in TaskIds : v[s] > h /\ k = v[s]
    BY <2>2
  <2>4. v[s] \in Nat /\ v[s] > h + g
    BY <1>1, <1>2, <1>7, <2>3 DEF Gap
  <2>5. PICK d \in DependencyGates(s) : v[s] = v[d] + 1
    BY <1>2, <1>7, <2>4
  <2>6. d \in TaskIds /\ v[d] \in Nat /\ v[d] > h
    <3>1. d \in TaskIds /\ v[d] \in Nat
      BY <1>1, <1>2, <1>3, <2>5
    <3>2. QED BY <1>7, <2>4, <2>5, <3>1
  <2>7. v[d] \in T
    BY <2>6
  <2>8. QED BY <2>2, <2>3, <2>5, <2>6, <2>7
<1>8. CaughtUp(v, r)
  <2>1. 1..(pos - 1) = {}
    OBVIOUS
  <2> HIDE DEF r
  <2>2. QED BY <1>7, <2>1 DEF CaughtUp
<1>9. GapsBounded(v)
  <2> SUFFICES ASSUME NEW h \in Nat, NEW g \in Nat, Gap(v, h, g), \E t \in TaskIds : v[t] > h
               PROVE  g <= n
    BY DEF GapsBounded
  <2>1. g = 0
    BY <1>7
  <2>2. QED BY <1>1, <2>1
<1>10. QED
  <2> HIDE DEF r
  <2>1. Relaxing(v, r)
    BY <1>5, <1>6, <1>8, <1>9 DEF Relaxing
  <2>2. QED BY <2>1

(* A task that the sweep moves is not moved beyond the wave it is due in.  *)
LEMMA SweepKeeps ==
  ASSUME TypeOK, NEW v, NEW r, Relaxing(v, r), Propagate
  PROVE  Relaxing(v, r)'
<1> DEFINE t == order[pos]
<1>1. PICK w \in Floors(t) : IsRequired(t, w) /\ waveOf' = [waveOf EXCEPT ![t] = w]
  BY DEF Propagate
<1>2. /\ UNCHANGED <<order, dependsOn>> /\ pos' = pos + 1
      /\ pos \in Nat /\ pos >= 1 /\ pos <= Len(order)
      /\ t \in TaskIds /\ TaskIds \subseteq Id /\ Len(order) \in Nat
  BY OrderFacts DEF Propagate, TypeOK, inputVars
<1>3. TaskIds' = TaskIds /\ \A s : DependencyGates(s)' = DependencyGates(s)
  BY <1>2, GatesKept
<1>4. /\ \A s \in TaskIds : waveOf[s] \in Nat /\ v[s] \in Nat /\ DependencyGates(s) \subseteq TaskIds
      /\ \A s \in TaskIds : waveOf'[s] = IF s = t THEN w ELSE waveOf[s]
  BY <1>1, <1>2 DEF TypeOK, Relaxing, Due, DependencyGates
<1>5. /\ w \in Nat /\ waveOf[t] <= w /\ \A d \in DependencyGates(t) : waveOf[d] + 1 <= w
      /\ w = waveOf[t] \/ \E d \in DependencyGates(t) : w = waveOf[d] + 1
  <2>1. Floors(t) = {waveOf[t]} \cup {waveOf[d] + 1 : d \in DependencyGates(t)}
    BY DEF Floors, DependencyGates
  <2>2. w = waveOf[t] \/ \E d \in DependencyGates(t) : w = waveOf[d] + 1
    BY <2>1
  <2>3. w \in Nat
    BY <1>2, <1>4, <2>2
  <2>4. QED BY <1>1, <2>1, <2>2, <2>3 DEF IsRequired
<1>6. w <= v[t]
  BY <1>2, <1>4, <1>5 DEF Relaxing, Due
<1>7. \A s \in TaskIds : waveOf'[s] \in Nat /\ waveOf[s] <= waveOf'[s] /\ waveOf'[s] <= v[s]
  BY <1>2, <1>4, <1>5, <1>6 DEF Relaxing, Due
<1>8. Due(v)'
  <2>1. \A s \in TaskIds : v[s] = waveOf'[s] \/ \E d \in DependencyGates(s) : v[s] = v[d] + 1
    BY <1>2, <1>4, <1>5, <1>6 DEF Relaxing, Due
  <2>2. QED BY <1>3, <1>7, <2>1 DEF Relaxing, Due
<1>9. Ranked(r)'
  BY <1>3 DEF Relaxing, Ranked
<1>10. \A h, g : Gap(v, h, g)' <=> Gap(v, h, g)
  BY <1>3 DEF Gap
<1>11. CaughtUp(v, r)'
  <2> SUFFICES ASSUME NEW h \in Nat, NEW g \in Nat \ {0}, Gap(v, h, g)
               PROVE  /\ \A s \in TaskIds' : v[s] > h /\ r[s] < g => waveOf'[s] > h + g
                      /\ \A i \in 1..(pos' - 1) :
                          r[order'[i]] <= g /\ (\E d \in DependencyGates(order[i])' : v[d] > h)
                            => waveOf'[order'[i]] > h + g + 1
    BY <1>10 DEF CaughtUp
  <2>1. \A s \in TaskIds : v[s] > h /\ r[s] < g => waveOf[s] > h + g
    BY DEF Relaxing, CaughtUp
  <2>2. \A i \in 1..(pos - 1) :
          r[order[i]] <= g /\ (\E d \in DependencyGates(order[i]) : v[d] > h)
            => waveOf[order[i]] > h + g + 1
    BY DEF Relaxing, CaughtUp
  <2>3. \A s \in TaskIds : r[s] \in Int /\ \A d \in DependencyGates(s) : r[d] \in Int /\ r[d] < r[s]
    BY <1>4 DEF Relaxing, Ranked
  <2>4. \A i \in 1..(pos - 1) : order[i] \in TaskIds
    BY <1>2, OrderFacts
  <2>5. ASSUME r[t] <= g, NEW d \in DependencyGates(t), v[d] > h
        PROVE  w > h + g + 1
    <3>1. d \in TaskIds /\ r[d] < g
      BY <1>2, <1>4, <2>3, <2>5
    <3>2. waveOf[d] > h + g
      BY <2>1, <2>5, <3>1
    <3>3. QED BY <1>4, <1>5, <3>1, <3>2
  <2>6. \A s \in TaskIds : v[s] > h /\ r[s] < g => waveOf'[s] > h + g
    BY <1>4, <1>7, <2>1
  <2>7. ASSUME NEW i \in 1..(pos - 1), r[order[i]] <= g,
               \E d \in DependencyGates(order[i]) : v[d] > h
        PROVE  waveOf'[order[i]] > h + g + 1
    BY <1>4, <1>7, <2>2, <2>4, <2>7
  <2>8. waveOf'[t] = w
    BY <1>2, <1>4
  <2>9. \A i \in 1..pos : i \in 1..(pos - 1) \/ i = pos
    BY <1>2
  <2>10. ASSUME NEW i \in 1..pos, r[order[i]] <= g,
                \E d \in DependencyGates(order[i]) : v[d] > h
         PROVE  waveOf'[order[i]] > h + g + 1
    <3>1. CASE i \in 1..(pos - 1)
      BY <2>7, <2>10, <3>1
    <3>2. CASE i = pos
      BY <2>5, <2>8, <2>10, <3>2
    <3>3. QED BY <2>9, <3>1, <3>2
  <2>11. /\ pos' - 1 = pos /\ order' = order
         /\ \A i \in 1..pos : DependencyGates(order[i])' = DependencyGates(order[i])
    BY <1>2, <1>3
  <2>12. QED BY <1>3, <2>6, <2>10, <2>11
<1>12. GapsBounded(v)'
  BY <1>3, <1>10 DEF Relaxing, GapsBounded
<1>13. QED BY <1>8, <1>9, <1>11, <1>12 DEF Relaxing

(* The tasks that are due one wave later when x is: x, and those due right *)
(* after one of them.                                                      *)
Along(v, S) ==
    \A t \in TaskIds : (\E d \in DependencyGates(t) : d \in S /\ v[t] = v[d] + 1) => t \in S
Pushed(v, x) == {t \in TaskIds : \A S \in SUBSET TaskIds : x \in S /\ Along(v, S) => t \in S}

(* The tasks a bump of x pushes on: x, and later ones that hang on it. *)
LEMMA PushedFacts ==
  ASSUME TypeOK, NEW v, Due(v), NEW x \in TaskIds
  PROVE  /\ x \in Pushed(v, x) /\ Along(v, Pushed(v, x))
         /\ \A t \in Pushed(v, x) : t = x \/ v[t] > v[x]
         /\ \A t \in Pushed(v, x) :
              t = x \/ \E d \in DependencyGates(t) : d \in Pushed(v, x) /\ v[t] = v[d] + 1
<1> DEFINE P == Pushed(v, x)
<1>1. P \subseteq TaskIds /\ x \in P
  BY DEF Pushed
<1>2. \A t \in TaskIds : v[t] \in Nat /\ DependencyGates(t) \subseteq TaskIds
  BY DEF Due, DependencyGates
<1>3. Along(v, P)
  <2> SUFFICES ASSUME NEW t \in TaskIds, NEW d \in DependencyGates(t), d \in P, v[t] = v[d] + 1,
                      NEW S \in SUBSET TaskIds, x \in S, Along(v, S)
               PROVE  t \in S
    BY DEF Along, Pushed
  <2>1. d \in S
    BY DEF Pushed
  <2>2. QED BY <2>1 DEF Along
<1>4. \A t \in P : t = x \/ v[t] > v[x]
  <2> DEFINE S == {t \in TaskIds : t = x \/ v[t] > v[x]}
  <2>1. S \in SUBSET TaskIds /\ x \in S
    OBVIOUS
  <2>2. Along(v, S)
    BY <1>2 DEF Along
  <2>3. P \subseteq S
    <3> HIDE DEF S
    <3>1. QED BY <2>1, <2>2 DEF Pushed
  <2>4. QED BY <2>3
<1>5. ASSUME NEW t \in P, t # x, \A d \in DependencyGates(t) : ~(d \in P /\ v[t] = v[d] + 1)
      PROVE  FALSE
  <2> DEFINE S == P \ {t}
  <2>1. S \in SUBSET TaskIds /\ x \in S /\ t \notin S
    BY <1>1, <1>5
  <2>2. Along(v, S)
    BY <1>3, <1>5 DEF Along
  <2>3. t \in S
    <3> HIDE DEF S
    <3>1. QED BY <2>1, <2>2 DEF Pushed
  <2>4. QED BY <2>1, <2>3
<1>6. QED BY <1>1, <1>3, <1>4, <1>5

(* A bump of a task that is due later anyway changes no due wave.          *)
LEMMA LateBumpKeeps ==
  ASSUME TypeOK, NEW v, NEW r, Relaxing(v, r), NEW x \in TaskIds, waveOf[x] < v[x],
         waveOf' = [waveOf EXCEPT ![x] = @ + 1], pos' = 1, UNCHANGED <<order, dependsOn>>
  PROVE  Relaxing(v, r)'
<1>1. TaskIds' = TaskIds /\ \A t : DependencyGates(t)' = DependencyGates(t)
  BY GatesKept
<1>2. \A t \in TaskIds : /\ waveOf[t] \in Nat /\ v[t] \in Nat
                         /\ waveOf'[t] = IF t = x THEN waveOf[t] + 1 ELSE waveOf[t]
  BY OrderFacts DEF TypeOK, Relaxing, Due
<1>3. Due(v)'
  <2>1. \A t \in TaskIds :
          /\ waveOf'[t] <= v[t]
          /\ v[t] = waveOf'[t] \/ \E d \in DependencyGates(t) : v[t] = v[d] + 1
    BY <1>2 DEF Relaxing, Due
  <2>2. QED BY <1>1, <2>1 DEF Relaxing, Due
<1>4. Ranked(r)'
  BY <1>1 DEF Relaxing, Ranked
<1>5. \A h, g : Gap(v, h, g)' <=> Gap(v, h, g)
  BY <1>1 DEF Gap
<1>6. CaughtUp(v, r)'
  <2>1. 1..(pos' - 1) = {}
    OBVIOUS
  <2>2. ASSUME NEW h \in Nat, NEW g \in Nat \ {0}, Gap(v, h, g), NEW t \in TaskIds,
               v[t] > h, r[t] < g
        PROVE  waveOf'[t] > h + g
    <3>1. waveOf[t] > h + g
      BY <2>2 DEF Relaxing, CaughtUp
    <3>2. QED BY <1>2, <3>1
  <2>3. QED BY <1>1, <1>5, <2>1, <2>2 DEF CaughtUp
<1>7. GapsBounded(v)'
  BY <1>1, <1>5 DEF Relaxing, GapsBounded
<1>8. QED BY <1>3, <1>4, <1>6, <1>7 DEF Relaxing

(* A bump of a task that is in the wave it is due in.  Its wave is left to *)
(* the tasks that collide with it; only if they are all due later does a   *)
(* gap get wider, and then a task beyond the gap has not caught up.        *)
LEMMA BumpKeeps ==
  ASSUME TypeOK, NEW v, NEW r, Relaxing(v, r), pos = Len(order) + 1,
         NEW x \in TaskIds, NEW y \in TaskIds, x # y, waveOf[x] = waveOf[y], waveOf[x] = v[x],
         waveOf' = [waveOf EXCEPT ![x] = @ + 1], pos' = 1, UNCHANGED <<order, dependsOn>>
  PROVE  \E u : Relaxing(u, r)'
<1> DEFINE n == Cardinality(TaskIds)
           w == v[x]
<1>1. TaskIds' = TaskIds /\ \A t : DependencyGates(t)' = DependencyGates(t)
  BY GatesKept
<1>2. n \in Nat /\ n >= 1
  BY TasksFinite
<1>3. \A t \in TaskIds :
        /\ waveOf[t] \in Nat /\ v[t] \in Nat /\ waveOf[t] <= v[t]
        /\ waveOf'[t] = IF t = x THEN waveOf[t] + 1 ELSE waveOf[t]
        /\ DependencyGates(t) \subseteq TaskIds
        /\ \A d \in DependencyGates(t) : v[d] + 1 <= v[t]
        /\ v[t] = waveOf[t] \/ \E d \in DependencyGates(t) : v[t] = v[d] + 1
  BY OrderFacts DEF TypeOK, Relaxing, Due, DependencyGates
<1>4. \A t \in TaskIds : r[t] \in Nat /\ r[t] <= n - 1 /\ \A d \in DependencyGates(t) : r[d] < r[t]
  BY <1>2 DEF Relaxing, Ranked
<1>5. PICK P \in SUBSET TaskIds :
        /\ x \in P /\ Along(v, P)
        /\ \A t \in P : t = x \/ v[t] > w
        /\ \A t \in P : t = x \/ \E d \in DependencyGates(t) : d \in P /\ v[t] = v[d] + 1
  <2>1. Due(v)
    BY DEF Relaxing
  <2>2. Pushed(v, x) \in SUBSET TaskIds
    BY DEF Pushed
  <2>3. QED BY <2>1, <2>2, PushedFacts
<1>6. PICK u \in [TaskIds -> Nat] :
        \A t \in TaskIds : u[t] = IF t \in P THEN v[t] + 1 ELSE v[t]
  <2> DEFINE f == [t \in TaskIds |-> IF t \in P THEN v[t] + 1 ELSE v[t]]
  <2>1. f \in [TaskIds -> Nat] /\ \A t \in TaskIds : f[t] = IF t \in P THEN v[t] + 1 ELSE v[t]
    BY <1>3
  <2> HIDE DEF f
  <2>2. QED BY <2>1
<1>7. \A t \in TaskIds : u[t] \in Nat /\ v[t] <= u[t]
  BY <1>3, <1>6
<1> HIDE DEF n
<1>8. ASSUME NEW t \in TaskIds, NEW d \in DependencyGates(t) PROVE u[d] + 1 <= u[t]
  <2>1. d \in TaskIds /\ v[d] \in Nat /\ v[t] \in Nat /\ v[d] + 1 <= v[t]
    BY <1>3, <1>8
  <2>2. CASE d \in P /\ t \notin P
    <3>1. v[t] # v[d] + 1
      BY <1>5, <1>8, <2>2 DEF Along
    <3>2. QED BY <1>6, <1>7, <2>1, <2>2, <3>1
  <2>3. CASE d \notin P \/ t \in P
    BY <1>6, <1>7, <2>1, <2>3
  <2>4. QED BY <2>2, <2>3
<1>9. ASSUME NEW t \in TaskIds
      PROVE  u[t] = waveOf'[t] \/ \E d \in DependencyGates(t) : u[t] = u[d] + 1
  <2>1. CASE t = x
    BY <1>3, <1>5, <1>6, <1>7, <2>1
  <2>2. CASE t \in P /\ t # x
    <3>1. PICK d \in DependencyGates(t) : d \in P /\ v[t] = v[d] + 1
      BY <1>5, <2>2
    <3>2. QED BY <1>3, <1>6, <1>7, <2>2, <3>1
  <2>3. CASE t \notin P
    <3>1. t # x /\ u[t] = v[t]
      BY <1>5, <1>6, <1>7, <2>3
    <3>2. CASE v[t] = waveOf[t]
      BY <1>3, <3>1, <3>2
    <3>3. ASSUME NEW d \in DependencyGates(t), v[t] = v[d] + 1
          PROVE  u[t] = u[d] + 1
      <4>1. d \in TaskIds /\ d \notin P
        BY <1>3, <1>5, <2>3, <3>3 DEF Along
      <4>2. QED BY <1>6, <1>7, <3>1, <3>3, <4>1
    <3>4. QED BY <1>3, <3>2, <3>3
  <2>4. QED BY <2>1, <2>2, <2>3
<1>10. Due(u)'
  <2>1. \A t \in TaskIds : waveOf'[t] <= u[t]
    BY <1>3, <1>5, <1>6, <1>7
  <2>2. QED BY <1>1, <1>6, <1>7, <1>8, <1>9, <2>1 DEF Due
<1>11. Ranked(r)'
  BY <1>1 DEF Relaxing, Ranked
<1>12. ASSUME NEW h \in Nat, NEW g \in Nat \ {0}, Gap(u, h, g)
       PROVE  /\ \A t \in TaskIds : u[t] > h => v[t] > h /\ u[t] > h + g
              /\ Gap(v, h, g) \/ (h + g = w /\ Gap(v, h, g - 1))
  <2>1. ASSUME NEW t \in TaskIds, u[t] > h PROVE v[t] > h /\ u[t] > h + g
    <3>1. u[t] > h + g /\ g >= 1
      BY <1>12, <2>1 DEF Gap
    <3>2. u[t] <= v[t] + 1 /\ v[t] \in Nat /\ u[t] \in Nat
      BY <1>3, <1>6, <1>7
    <3>3. QED BY <3>1, <3>2
  <2>2. ASSUME NEW t \in TaskIds, v[t] > h, v[t] <= h + g
        PROVE  t = x /\ w = h + g
    <3>1. u[t] > h + g
      BY <1>3, <1>6, <1>7, <1>12, <2>2 DEF Gap
    <3>2. t \in P /\ v[t] = h + g
      <4>1. v[t] \in Nat /\ u[t] = (IF t \in P THEN v[t] + 1 ELSE v[t])
        BY <1>3, <1>6
      <4>2. t \in P
        BY <2>2, <3>1, <4>1
      <4>3. v[t] + 1 > h + g /\ v[t] <= h + g
        BY <2>2, <3>1, <4>1, <4>2
      <4>4. QED BY <4>1, <4>2, <4>3
    <3>3. ASSUME t # x PROVE FALSE
      <4>1. PICK d \in DependencyGates(t) : d \in P /\ v[t] = v[d] + 1
        BY <1>5, <3>2, <3>3
      <4>2. d \in TaskIds /\ u[d] = v[d] + 1 /\ v[d] \in Nat
        BY <1>3, <1>6, <1>7, <4>1
      <4>3. u[d] = h + g
        BY <3>2, <4>1, <4>2
      <4>4. QED BY <1>12, <4>2, <4>3 DEF Gap
    <3>4. QED BY <3>2, <3>3
  <2>3. CASE \E t \in TaskIds : v[t] > h /\ v[t] <= h + g
    <3>1. h + g = w
      BY <2>2, <2>3
    <3>2. ASSUME NEW t \in TaskIds, v[t] > h, v[t] <= h + (g - 1) PROVE FALSE
      <4>1. v[t] <= h + g /\ v[t] \in Nat
        BY <1>3, <3>2
      <4>2. v[t] = h + g
        BY <2>2, <3>2, <4>1
      <4>3. QED BY <3>2, <4>2
    <3>3. Gap(v, h, g - 1)
      BY <1>3, <3>2 DEF Gap
    <3>4. QED BY <2>1, <3>1, <3>3
  <2>4. CASE ~\E t \in TaskIds : v[t] > h /\ v[t] <= h + g
    <3>1. Gap(v, h, g)
      BY <1>3, <2>4 DEF Gap
    <3>2. QED BY <2>1, <3>1
  <2>5. QED BY <2>3, <2>4
<1>13. ASSUME NEW h \in Nat, NEW g \in Nat, g >= 2, Gap(v, h, g - 1), NEW t \in TaskIds,
              r[t] <= g - 1, NEW d \in DependencyGates(t), v[d] > h
       PROVE  waveOf[t] > h + g
  <2>1. PICK i \in 1..(pos - 1) : order[i] = t
    <3>1. \E i \in DOMAIN order : order[i] = t
      BY DEF TaskIds
    <3>2. DOMAIN order = 1..(pos - 1)
      BY OrderFacts
    <3>3. QED BY <3>1, <3>2
  <2>2. g - 1 \in Nat \ {0}
    BY <1>13
  <2>3. waveOf[t] > h + (g - 1) + 1
    BY <1>13, <2>1, <2>2 DEF Relaxing, CaughtUp
  <2>4. QED BY <1>3, <2>3
<1>14. CaughtUp(u, r)'
  <2>1. 1..(pos' - 1) = {}
    OBVIOUS
  <2>2. ASSUME NEW h \in Nat, NEW g \in Nat \ {0}, Gap(u, h, g), NEW t \in TaskIds,
               u[t] > h, r[t] < g
        PROVE  waveOf'[t] > h + g
    <3>1. v[t] > h /\ u[t] > h + g
      BY <1>12, <2>2
    <3>2. CASE Gap(v, h, g)
      <4>1. waveOf[t] > h + g
        BY <2>2, <3>1, <3>2 DEF Relaxing, CaughtUp
      <4>2. QED BY <1>3, <4>1
    <3>3. CASE u[t] = waveOf'[t]
      BY <3>1, <3>3
    <3>4. ASSUME h + g = w, Gap(v, h, g - 1), NEW d \in DependencyGates(t), u[t] = u[d] + 1
          PROVE  waveOf'[t] > h + g
      <4>1. d \in TaskIds /\ u[d] \in Nat /\ r[d] \in Nat /\ r[d] < r[t] /\ r[t] \in Nat
        BY <1>3, <1>4, <1>6, <1>7, <3>4
      <4>2. u[d] > h
        BY <2>2, <3>1, <3>4, <4>1
      <4>3. v[d] > h
        BY <1>12, <2>2, <4>1, <4>2
      <4>4. g >= 2 /\ r[t] <= g - 1
        BY <2>2, <4>1
      <4>5. waveOf[t] > h + g
        BY <1>13, <2>2, <3>4, <4>3, <4>4
      <4>6. QED BY <1>3, <4>5
    <3>5. QED BY <1>9, <1>12, <2>2, <3>2, <3>3, <3>4
  <2>3. \A h, g : Gap(u, h, g)' <=> Gap(u, h, g)
    BY <1>1 DEF Gap
  <2>4. QED BY <1>1, <2>1, <2>2, <2>3 DEF CaughtUp
<1>15. GapsBounded(u)'
  <2>1. ASSUME NEW h \in Nat, NEW g \in Nat, Gap(u, h, g), NEW t \in TaskIds, u[t] > h
        PROVE  g <= n
    <3>1. CASE g <= 1
      BY <1>2, <3>1
    <3>2. CASE g >= 2 /\ Gap(v, h, g)
      <4>1. v[t] > h
        BY <1>12, <2>1, <3>2
      <4>2. QED BY <3>2, <4>1 DEF Relaxing, GapsBounded, n
    <3>3. CASE g >= 2 /\ h + g = w /\ Gap(v, h, g - 1)
      <4>1. waveOf[y] = w /\ v[y] \in Nat /\ w <= v[y] /\ w \in Nat
        BY <1>3
      <4>2. u[y] > w
        <5>1. u[y] \in Nat /\ u[y] > h
          BY <1>6, <1>7, <3>3, <4>1
        <5>2. QED BY <1>12, <2>1, <3>3, <5>1
      <4>3. v[y] > w
        <5>1. CASE y \in P
          BY <1>5, <5>1
        <5>2. CASE y \notin P
          BY <1>6, <1>7, <4>2, <5>2
        <5>3. QED BY <5>1, <5>2
      <4>4. PICK d \in DependencyGates(y) : v[y] = v[d] + 1
        BY <1>3, <4>1, <4>3
      <4>5. d \in TaskIds /\ v[d] \in Nat
        BY <1>3, <4>4
      <4>6. v[d] > h
        BY <3>3, <4>1, <4>3, <4>4, <4>5
      <4>7. ASSUME r[y] <= g - 1 PROVE FALSE
        <5>1. waveOf[y] > h + g
          BY <1>13, <2>1, <3>3, <4>6, <4>7
        <5>2. QED BY <3>3, <4>1, <5>1
      <4>8. QED BY <1>2, <1>4, <4>7
    <3>4. QED BY <1>12, <2>1, <3>1, <3>2, <3>3
  <2>2. \A h, g : Gap(u, h, g)' <=> Gap(u, h, g)
    BY <1>1 DEF Gap
  <2>3. QED BY <1>1, <2>1, <2>2 DEF GapsBounded, n
<1>16. QED BY <1>10, <1>11, <1>14, <1>15 DEF Relaxing

(* Every step of the resolver keeps due waves, gaps and who caught up. *)
LEMMA RelaxKept == TypeOK /\ VerdictInv /\ WaveInv /\ RelaxInv /\ [Next]_vars => RelaxInv'
<1> SUFFICES ASSUME TypeOK, VerdictInv, WaveInv, RelaxInv, [Next]_vars PROVE RelaxInv'
  OBVIOUS
<1> USE DEF inputVars, searchVars, waveVars
<1>1. ASSUME UNCHANGED <<order, dependsOn, waveOf>>, pos' = pos \/ pos' = 1,
             phase' \in {"sweep", "ok"} <=> phase \in {"sweep", "ok"}
      PROVE  RelaxInv'
  <2>1. \A v, r : Relaxing(v, r) => Relaxing(v, r)'
    BY <1>1, RelaxingKept
  <2>2. QED BY <1>1, <2>1 DEF RelaxInv
<1>2. CASE EmptyInput \/ InvalidInput
  BY <1>1, <1>2 DEF EmptyInput, InvalidInput
<1>3. CASE StartSearch \/ Leave \/ EndSearch \/ \E t \in Id : StartAt(t)
  BY <1>1, <1>3 DEF StartSearch, Leave, EndSearch, StartAt
<1>4. CASE \E d \in Id : ScanDep(d)
  BY <1>1, <1>4 DEF ScanDep
<1>5. CASE DetectConflicts
  <2>1. /\ phase = "conflicts" /\ phase' = "sweep" /\ pos = 1 /\ pos' = 1
        /\ UNCHANGED <<order, dependsOn, waveOf>>
    BY <1>5 DEF DetectConflicts, WaveInv
  <2>2. ~Cyclic
    BY <2>1 DEF VerdictInv
  <2>6. waveOf = [t \in Id |-> 1]
    BY <2>1 DEF RelaxInv
  <2>3. PICK v, r : Relaxing(v, r)
    BY <2>1, <2>2, <2>6, FirstRelaxing
  <2>4. Relaxing(v, r)'
    BY <2>1, <2>3, RelaxingKept
  <2>5. QED BY <2>1, <2>4 DEF RelaxInv
<1>6. CASE Propagate
  <2>1. phase = "sweep" /\ phase' = "sweep"
    BY <1>6 DEF Propagate
  <2>2. PICK v, r : Relaxing(v, r)
    BY <2>1 DEF RelaxInv
  <2>3. Relaxing(v, r)'
    BY <1>6, <2>2, SweepKeeps
  <2>4. QED BY <2>1, <2>3 DEF RelaxInv
<1>7. ASSUME NEW p \in conflicts, Bump(p) PROVE RelaxInv'
  <2>1. /\ phase = "sweep" /\ phase' = "sweep" /\ pos' = 1 /\ pos > Len(order)
        /\ waveOf' = [waveOf EXCEPT ![p[2]] = @ + 1] /\ waveOf[p[1]] = waveOf[p[2]]
        /\ UNCHANGED <<order, dependsOn>>
    BY <1>7 DEF Bump, NextRound, IsFirstCollision, Collides
  <2>2. p[1] \in TaskIds /\ p[2] \in TaskIds /\ p[1] # p[2]
    <3>1. p \in Pairs
      BY <1>7 DEF WaveInv
    <3>2. \A t \in TaskIds : t \in Nat
      BY OrderFacts, IdAssumption
    <3>3. QED BY <3>1, <3>2 DEF Pairs
  <2>3. pos = Len(order) + 1
    BY <2>1, OrderFacts DEF TypeOK
  <2>4. PICK v, r : Relaxing(v, r)
    BY <2>1 DEF RelaxInv
  <2>5. waveOf[p[2]] \in Nat /\ v[p[2]] \in Nat /\ waveOf[p[2]] <= v[p[2]]
    BY <2>2, <2>4, OrderFacts DEF TypeOK, Relaxing, Due
  <2>6. CASE waveOf[p[2]] < v[p[2]]
    <3>1. Relaxing(v, r)'
      BY <2>1, <2>2, <2>4, <2>6, LateBumpKeeps
    <3>2. QED BY <2>1, <3>1 DEF RelaxInv
  <2>7. CASE waveOf[p[2]] = v[p[2]]
    <3>1. \E u : Relaxing(u, r)'
      BY <2>1, <2>2, <2>3, <2>4, <2>7, BumpKeeps
    <3>2. QED BY <2>1, <3>1 DEF RelaxInv
  <2>8. QED BY <2>5, <2>6, <2>7
<1>8. CASE Settle
  <2>1. /\ UNCHANGED <<order, dependsOn, waveOf>> /\ (pos' = pos \/ pos' = 1)
        /\ phase = "sweep" /\ phase' \in {"sweep", "ok"}
    BY <1>8 DEF Settle, NextRound
  <2>2. PICK v, r : Relaxing(v, r)
    BY <2>1 DEF RelaxInv
  <2>3. Relaxing(v, r)'
    BY <2>1, <2>2, RelaxingKept
  <2>4. QED BY <2>1, <2>3 DEF RelaxInv
<1>9. CASE UNCHANGED vars
  BY <1>1, <1>9 DEF vars
<1>10. QED BY <1>2, <1>3, <1>4, <1>5, <1>6, <1>7, <1>8, <1>9 DEF Next, Returned

-----------------------------------------------------------------------------
(* Waves without wide gaps are not high: of n + 1 stretches of n + 1 waves *)
(* each, all below a task, every one would hold a task of its own.         *)
MaxWave == Cardinality(TaskIds) * (Cardinality(TaskIds) + 1)

(* No task is in a wave beyond MaxWave. *)
LEMMA WavesLow ==
  ASSUME TypeOK, NEW v, NEW r, Relaxing(v, r), NEW s \in TaskIds
  PROVE  waveOf[s] <= MaxWave
<1> DEFINE n == Cardinality(TaskIds)
           From(k) == k * (n + 1)
           In(k, t) == v[t] > From(k) /\ v[t] <= From(k) + (n + 1)
<1>1. IsFiniteSet(TaskIds) /\ n \in Nat
  BY TasksFinite
<1>2. \A t \in TaskIds : v[t] \in Nat /\ waveOf[t] \in Nat /\ waveOf[t] <= v[t]
  BY OrderFacts DEF TypeOK, Relaxing, Due
<1> HIDE DEF n
<1>3. \A k \in 0..n : From(k) \in Nat
  BY <1>1
<1>4. \A k \in 0..n : From(k) <= From(n)
  BY <1>1
<1>5. \A j, k \in 0..n : j < k => From(j) + (n + 1) <= From(k)
  <2> SUFFICES ASSUME NEW j \in 0..n, NEW k \in 0..n, j < k PROVE From(j) + (n + 1) <= From(k)
    OBVIOUS
  <2>1. From(j) + (n + 1) = (j + 1) * (n + 1)
    BY <1>1
  <2>2. j + 1 \in Nat /\ k \in Nat /\ j + 1 <= k /\ n + 1 \in Nat
    BY <1>1
  <2>3. \A a, b, c \in Nat : a <= b => a * c <= b * c
    OBVIOUS
  <2>4. QED BY <2>1, <2>2, <2>3
<1>6. SUFFICES ASSUME v[s] > From(n) PROVE FALSE
  <2>1. From(n) = MaxWave /\ From(n) \in Nat
    BY <1>1, <1>3 DEF MaxWave, n
  <2> HIDE DEF From
  <2>2. QED BY <1>2, <1>6, <2>1
<1>7. ASSUME NEW k \in 0..n PROVE \E t \in TaskIds : In(k, t)
  <2>1. v[s] > From(k)
    <3> HIDE DEF From
    <3>1. QED BY <1>1, <1>2, <1>3, <1>4, <1>6
  <2>2. ~Gap(v, From(k), n + 1)
    <3>1. From(k) \in Nat /\ n + 1 \in Nat /\ ~(n + 1 <= n)
      BY <1>1, <1>3
    <3> HIDE DEF From
    <3>2. QED BY <2>1, <3>1 DEF Relaxing, GapsBounded, n
  <2>3. PICK t \in TaskIds : ~(v[t] <= From(k) \/ v[t] > From(k) + (n + 1))
    <3> HIDE DEF From
    <3>1. QED BY <2>2 DEF Gap
  <2>4. From(k) \in Nat /\ v[t] \in Nat
    BY <1>2, <1>3
  <2>5. v[t] > From(k) /\ v[t] <= From(k) + (n + 1)
    <3> HIDE DEF From
    <3>1. QED BY <1>1, <2>3, <2>4
  <2>6. QED BY <2>5
<1> DEFINE f == [k \in 0..n |-> CHOOSE t \in TaskIds : In(k, t)]
<1>8. \A k \in 0..n : f[k] \in TaskIds /\ In(k, f[k])
  <2> HIDE DEF In
  <2>1. QED BY <1>7
<1>9. ASSUME NEW j \in 0..n, NEW k \in 0..n, f[j] = f[k] PROVE j = k
  <2>1. In(j, f[j]) /\ In(k, f[j]) /\ v[f[j]] \in Nat
    <3> HIDE DEF f, In
    <3>1. QED BY <1>2, <1>8, <1>9
  <2> HIDE DEF f, From
  <2>2. ~(j < k) /\ ~(k < j)
    BY <1>1, <1>3, <1>5, <2>1
  <2>3. QED BY <1>1, <2>2
<1>10. f \in Injection(0..n, TaskIds)
  <2>1. f \in [0..n -> TaskIds]
    <3> HIDE DEF In
    <3>1. QED BY <1>8
  <2> HIDE DEF f
  <2>2. QED BY <1>9, <2>1 DEF Injection, IsInjective
<1>11. Cardinality(0..n) <= n
  <2> HIDE DEF f
  <2>1. QED BY <1>1, <1>10, FS_Injection DEF n
<1>12. Cardinality(0..n) = n + 1
  <2>1. 0 \in Int /\ n \in Int /\ ~(0 > n) /\ n - 0 + 1 = n + 1
    BY <1>1
  <2>2. QED BY <2>1, FS_Interval
<1>13. QED BY <1>1, <1>11, <1>12

(* The waves that tasks have passed: a round that changes something passes *)
(* one more.                                                               *)
Passed == {c \in TaskIds \X (Nat \ {0}) : c[2] < waveOf[c[1]]}

RoundsPaid == rounds + (IF changed THEN 1 ELSE 0) <= Cardinality(Passed)

(* With the waves the passed ones are limited. *)
LEMMA PassedFinite ==
  ASSUME TypeOK, \A t \in TaskIds : waveOf[t] <= MaxWave
  PROVE  /\ IsFiniteSet(Passed) /\ Cardinality(Passed) \in Nat
         /\ Cardinality(Passed) <= Cardinality(TaskIds) * MaxWave
<1> DEFINE n == Cardinality(TaskIds)
           m == MaxWave
<1>1. IsFiniteSet(TaskIds) /\ n \in Nat
  BY TasksFinite
<1> HIDE DEF n
<1>2. m \in Nat
  BY <1>1 DEF MaxWave, n
<1> HIDE DEF m
<1>3. IsFiniteSet(1..m) /\ Cardinality(1..m) = m
  <2>1. 1 \in Int /\ m \in Int
    BY <1>2
  <2>2. IsFiniteSet(1..m) /\ Cardinality(1..m) = IF 1 > m THEN 0 ELSE m - 1 + 1
    BY <2>1, FS_Interval
  <2>3. Cardinality(1..m) = m
    BY <1>2, <2>2
  <2>4. QED BY <2>2, <2>3
<1>4. IsFiniteSet(TaskIds \X (1..m)) /\ Cardinality(TaskIds \X (1..m)) = n * m
  BY <1>1, <1>3, FS_Product DEF n
<1>5. Passed \in SUBSET (TaskIds \X (1..m))
  <2> SUFFICES ASSUME NEW c \in Passed PROVE c \in TaskIds \X (1..m)
    OBVIOUS
  <2>1. /\ c \in TaskIds \X (Nat \ {0}) /\ c[2] < waveOf[c[1]]
        /\ c[1] \in TaskIds /\ c[2] \in Nat \ {0}
    BY DEF Passed
  <2>2. waveOf[c[1]] <= m /\ waveOf[c[1]] \in Nat
    BY <2>1, OrderFacts DEF TypeOK, m
  <2>3. c[2] \in 1..m
    BY <1>2, <2>1, <2>2
  <2>4. QED BY <2>1, <2>3
<1>6. IsFiniteSet(Passed) /\ Cardinality(Passed) <= n * m
  BY <1>4, <1>5, FS_Subset
<1>7. QED BY <1>6, FS_CardinalityType DEF n, m

(* A task that moves to a later wave passes one more at least. *)
LEMMA PassedGrows ==
  ASSUME TypeOK, IsFiniteSet(Passed'), TaskIds' = TaskIds, NEW x \in TaskIds, NEW w \in Nat,
         waveOf[x] < w, waveOf' = [waveOf EXCEPT ![x] = w]
  PROVE  Cardinality(Passed') >= Cardinality(Passed) + 1
<1> DEFINE c == <<x, waveOf[x]>>
<1>1. /\ \A t \in TaskIds : waveOf[t] \in Nat \ {0}
      /\ \A t \in TaskIds : waveOf'[t] = IF t = x THEN w ELSE waveOf[t]
  BY OrderFacts DEF TypeOK
<1>2. c \notin Passed
  BY <1>1 DEF Passed
<1>3. Passed \cup {c} \in SUBSET Passed'
  <2>1. Passed' = {e \in TaskIds \X (Nat \ {0}) : e[2] < waveOf'[e[1]]}
    BY DEF Passed
  <2>2. c \in Passed'
    BY <1>1, <2>1
  <2>3. ASSUME NEW e \in Passed PROVE e \in Passed'
    <3>1. e \in TaskIds \X (Nat \ {0}) /\ e[1] \in TaskIds /\ e[2] \in Nat /\ e[2] < waveOf[e[1]]
      BY DEF Passed
    <3>2. e[2] < waveOf'[e[1]]
      BY <1>1, <3>1
    <3>3. QED BY <2>1, <3>1, <3>2
  <2>4. QED BY <2>2, <2>3
<1> HIDE DEF c
<1>4. IsFiniteSet(Passed \cup {c}) /\ Cardinality(Passed \cup {c}) <= Cardinality(Passed')
  BY <1>3, FS_Subset
<1>5. IsFiniteSet(Passed)
  <2>1. Passed \in SUBSET (Passed \cup {c})
    OBVIOUS
  <2>2. QED BY <1>4, <2>1, FS_Subset
<1>6. Cardinality(Passed \cup {c}) = Cardinality(Passed) + 1
  BY <1>2, <1>5, FS_AddElement
<1>7. Cardinality(Passed) \in Nat /\ Cardinality(Passed') \in Nat
  BY <1>5, FS_CardinalityType
<1>8. QED BY <1>4, <1>6, <1>7

(* Each round of assignWaves that changes something is paid by a passed wave. *)
LEMMA PaidKept ==
  ASSUME TypeOK, WaveInv, RoundsPaid, [Next]_vars, IsFiniteSet(Passed), IsFiniteSet(Passed')
  PROVE  RoundsPaid'
<1> USE DEF inputVars, searchVars, waveVars
<1>1. Cardinality(Passed) \in Nat /\ Cardinality(Passed') \in Nat /\ rounds \in Nat
  BY FS_CardinalityType DEF TypeOK
<1>2. ASSUME UNCHANGED <<order, waveOf>> PROVE Passed' = Passed
  <2>1. TaskIds' = TaskIds
    BY <1>2 DEF TaskIds
  <2>2. QED BY <1>2, <2>1 DEF Passed
<1>3. ASSUME UNCHANGED <<order, waveOf, rounds, changed>> PROVE RoundsPaid'
  BY <1>2, <1>3 DEF RoundsPaid
<1>4. CASE EmptyInput \/ InvalidInput \/ DetectConflicts
  BY <1>3, <1>4 DEF EmptyInput, InvalidInput, DetectConflicts
<1>5. CASE StartSearch \/ Leave \/ EndSearch \/ \E t \in Id : StartAt(t)
  BY <1>3, <1>5 DEF StartSearch, Leave, EndSearch, StartAt
<1>6. CASE \E d \in Id : ScanDep(d)
  BY <1>3, <1>6 DEF ScanDep
<1>7. CASE Propagate
  <2> DEFINE t == order[pos]
  <2>1. PICK w \in Floors(t) : /\ IsRequired(t, w) /\ waveOf' = [waveOf EXCEPT ![t] = w]
                               /\ changed' = (changed \/ w # waveOf[t])
    BY <1>7 DEF Propagate
  <2>2. t \in TaskIds /\ TaskIds' = TaskIds /\ rounds' = rounds /\ t \in Id
    <3>1. pos \in 1..Len(order)
      BY <1>7, OrderFacts DEF Propagate, TypeOK
    <3>2. QED BY <1>7, <3>1, OrderFacts DEF Propagate, TaskIds
  <2>3. waveOf[t] \in Nat /\ w \in Nat /\ waveOf[t] <= w
    <3>1. \A d \in Id : waveOf[d] \in Nat
      BY DEF TypeOK
    <3>2. w = waveOf[t] \/ \E d \in Id : w = waveOf[d] + 1
      BY DEF Floors, Deps
    <3>3. waveOf[t] \in Floors(t)
      BY DEF Floors
    <3>4. waveOf[t] \in Nat /\ w \in Nat
      BY <2>2, <3>1, <3>2
    <3>5. QED BY <2>1, <3>3, <3>4 DEF IsRequired
  <2>4. CASE w = waveOf[t]
    <3>1. waveOf' = waveOf
      BY <2>1, <2>4 DEF TypeOK
    <3>3. changed' = changed
      <4>1. changed \in BOOLEAN
        BY DEF TypeOK
      <4>2. changed' = (changed \/ FALSE)
        BY <2>1, <2>4
      <4>3. QED BY <4>1, <4>2
    <3>2. QED BY <1>3, <1>7, <2>2, <3>1, <3>3 DEF Propagate
  <2>5. CASE waveOf[t] < w
    <3>1. Cardinality(Passed') >= Cardinality(Passed) + 1
      BY <2>1, <2>2, <2>3, <2>5, PassedGrows
    <3>2. QED BY <1>1, <2>2, <3>1 DEF RoundsPaid
  <2>6. QED BY <2>3, <2>4, <2>5
<1>8. ASSUME NEW p \in conflicts, Bump(p) PROVE RoundsPaid'
  <2>1. /\ waveOf' = [waveOf EXCEPT ![p[2]] = waveOf[p[2]] + 1] /\ rounds' = rounds + 1
        /\ changed' = FALSE /\ TaskIds' = TaskIds
    BY <1>8 DEF Bump, NextRound, TaskIds
  <2>2. p[2] \in TaskIds /\ waveOf[p[2]] \in Nat
    BY <1>8, OrderFacts DEF WaveInv, Pairs, TypeOK
  <2>3. waveOf[p[2]] + 1 \in Nat /\ waveOf[p[2]] < waveOf[p[2]] + 1
    BY <2>2
  <2>4. Cardinality(Passed') >= Cardinality(Passed) + 1
    BY <2>1, <2>2, <2>3, PassedGrows
  <2>5. QED BY <1>1, <2>1, <2>4 DEF RoundsPaid
<1>9. CASE Settle
  <2>1. Passed' = Passed
    BY <1>2, <1>9 DEF Settle
  <2>2. CASE changed /\ NextRound
    BY <1>1, <2>1, <2>2 DEF NextRound, RoundsPaid
  <2>3. CASE ~changed /\ phase' = "ok" /\ UNCHANGED <<pos, changed, rounds>>
    BY <2>1, <2>3 DEF RoundsPaid
  <2>4. QED BY <1>9, <2>2, <2>3 DEF Settle
<1>10. CASE UNCHANGED vars
  BY <1>3, <1>10 DEF vars
<1>11. QED BY <1>4, <1>5, <1>6, <1>7, <1>8, <1>9, <1>10 DEF Next, Returned


(* Before, during and after the relaxation no wave is beyond MaxWave. *)
LEMMA LowWaves ==
  ASSUME TypeOK, RelaxInv, NEW t \in TaskIds
  PROVE  waveOf[t] <= MaxWave
<1>1. CASE phase \in {"sweep", "ok"}
  <2>1. PICK v, r : Relaxing(v, r)
    BY <1>1 DEF RelaxInv
  <2>2. QED BY <2>1, WavesLow
<1>2. CASE phase \notin {"sweep", "ok"}
  <2>1. waveOf[t] = 1
    BY <1>2, OrderFacts DEF RelaxInv
  <2> DEFINE n == Cardinality(TaskIds)
  <2>2. n \in Nat /\ n >= 1
    BY TasksFinite
  <2>3. 1 <= n * (n + 1)
    <3> HIDE DEF n
    <3>1. \A k \in Nat : k >= 1 => 1 <= k * (k + 1)
      OBVIOUS
    <3>2. QED BY <2>2, <3>1
  <2>4. QED BY <2>1, <2>3 DEF MaxWave
<1>3. QED BY <1>1, <1>2

(* The passed waves are finitely many. *)
LEMMA LowPassed == TypeOK /\ RelaxInv => IsFiniteSet(Passed)
<1>1. TypeOK /\ RelaxInv => \A t \in TaskIds : waveOf[t] <= MaxWave
  BY LowWaves
<1>2. QED BY <1>1, PassedFinite

(* Products grow with their factors.                                       *)
LEMMA Products ==
  ASSUME NEW a \in Nat, NEW b \in Nat, NEW c \in Nat, NEW d \in Nat, a <= b, c <= d
  PROVE  a * c \in Nat /\ b * d \in Nat /\ a * c <= b * d
<1>1. \A x, y, z \in Nat : x <= y => x * z <= y * z /\ z * x <= z * y /\ x * z \in Nat
  OBVIOUS
<1>2. a * c <= b * c /\ b * c <= b * d /\ a * c \in Nat /\ b * c \in Nat /\ b * d \in Nat
  BY <1>1
<1>3. QED BY <1>2

RelaxationInv == WavesInv /\ RelaxInv /\ RoundsPaid

(* The invariant of the relaxation holds for every plan set. *)
LEMMA RelaxationInvHolds == Spec => []RelaxationInv
<1>1. Init => RelaxationInv
  <2> SUFFICES ASSUME Init PROVE RelaxationInv
    OBVIOUS
  <2>1. WavesInv
    BY InitInvariant
  <2>2. RelaxInv
    BY DEF Init, RelaxInv
  <2>3. TypeOK
    BY <2>1 DEF WavesInv
  <2>4. \A t \in TaskIds : waveOf[t] <= MaxWave
    BY <2>2, <2>3, LowWaves
  <2>5. Cardinality(Passed) \in Nat
    BY <2>3, <2>4, PassedFinite
  <2>6. rounds = 0 /\ changed = FALSE
    BY DEF Init
  <2>7. RoundsPaid
    BY <2>5, <2>6 DEF RoundsPaid
  <2>8. QED BY <2>1, <2>2, <2>7 DEF RelaxationInv
<1>2. RelaxationInv /\ [Next]_vars => RelaxationInv'
  <2> SUFFICES ASSUME RelaxationInv, [Next]_vars PROVE RelaxationInv'
    OBVIOUS
  <2>1. WavesInv' /\ WavesInv
    BY InvariantKept DEF RelaxationInv
  <2>2. TypeOK /\ TypeOK' /\ VerdictInv /\ WaveInv /\ RelaxInv /\ RoundsPaid
    BY <2>1 DEF WavesInv, RelaxationInv
  <2>3. RelaxInv'
    BY <2>2, RelaxKept
  <2>4. IsFiniteSet(Passed)
    <3>1. \A t \in TaskIds : waveOf[t] <= MaxWave
      BY <2>2, LowWaves
    <3>2. QED BY <2>2, <3>1, PassedFinite
  <2>5. IsFiniteSet(Passed')
    <3>1. (TypeOK /\ RelaxInv => IsFiniteSet(Passed))'
      BY LowPassed, PTL
    <3>2. QED BY <2>2, <2>3, <3>1
  <2>6. RoundsPaid'
    BY <2>2, <2>4, <2>5, PaidKept
  <2>7. QED BY <2>1, <2>3, <2>6 DEF RelaxationInv
<1>3. QED BY <1>1, <1>2, PTL DEF Spec

(* In numbers of the list's length.                                        *)
LEMMA LowInLength ==
  ASSUME RelaxationInv
  PROVE  WavesBounded /\ RelaxationEnds
<1> DEFINE n == Cardinality(TaskIds)
           l == Len(order)
<1>1. TypeOK /\ RelaxInv /\ RoundsPaid
  BY DEF RelaxationInv, WavesInv
<1>2. n \in Nat /\ l \in Nat /\ n <= l
  BY <1>1, TasksFinite, OrderFacts
<1>3. \A t \in TaskIds : waveOf[t] <= MaxWave /\ waveOf[t] \in Nat
  BY <1>1, LowWaves, OrderFacts DEF TypeOK
<1>4. Cardinality(Passed) \in Nat /\ Cardinality(Passed) <= n * MaxWave
  BY <1>1, <1>3, PassedFinite
<1>5. MaxWave = n * (n + 1)
  BY DEF MaxWave
<1> HIDE DEF n, l
<1>6. MaxWave \in Nat /\ l * (l + 1) \in Nat /\ MaxWave <= l * (l + 1)
  <2>1. n + 1 \in Nat /\ l + 1 \in Nat /\ n + 1 <= l + 1
    BY <1>2
  <2>2. QED BY <1>2, <1>5, <2>1, Products
<1>7. n * MaxWave \in Nat /\ l * (l * (l + 1)) \in Nat /\ n * MaxWave <= l * (l * (l + 1))
  BY <1>2, <1>6, Products
<1>8. l * (l * (l + 1)) = l * l * (l + 1)
  <2>1. \A a, b, c \in Nat : a * (b * c) = a * b * c
    OBVIOUS
  <2>2. l + 1 \in Nat
    BY <1>2
  <2>3. QED BY <1>2, <2>1, <2>2
<1>9. WavesBounded
  BY <1>3, <1>6 DEF WavesBounded, l
<1>10. rounds <= l * l * (l + 1)
  <2>1. rounds \in Nat /\ rounds <= Cardinality(Passed)
    BY <1>1, <1>4 DEF RoundsPaid, TypeOK
  <2>2. QED BY <1>4, <1>7, <1>8, <2>1
<1>11. QED BY <1>9, <1>10 DEF RelaxationEnds, l

(* However the tasks depend on each other and share files, no wave is      *)
(* higher than the square of their number, about: a bump does not push     *)
(* tasks on without end.                                                   *)
THEOREM WavesLimited == Spec => []WavesBounded
<1>1. RelaxationInv => WavesBounded
  BY LowInLength
<1>2. QED BY <1>1, RelaxationInvHolds, PTL

(* The loop of assignWaves ends for every plan set without a cycle.        *)
THEOREM RelaxationLimited == Spec => []RelaxationEnds
<1>1. RelaxationInv => RelaxationEnds
  BY LowInLength
<1>2. QED BY <1>1, RelaxationInvHolds, PTL

=============================================================================
