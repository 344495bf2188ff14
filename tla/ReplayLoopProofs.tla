-------------------------- MODULE ReplayLoopProofs --------------------------
(***************************************************************************)
(* Proofs about ReplayLoop, for any adapters under ReplayAssumption, any   *)
(* robots, and any recycle period.                                         *)
(***************************************************************************)
EXTENDS ReplayLoop, TLAPS

-----------------------------------------------------------------------------
(* Division with remainder.                                                *)

LEMMA Division ==
  ASSUME NEW k \in Nat, NEW p \in Nat \ {0}
  PROVE  k = p * (k \div p) + (k % p) /\ k % p \in 0..(p - 1) /\ k \div p \in Nat
OBVIOUS

LEMMA UniqueDivision ==
  ASSUME NEW p \in Nat \ {0}, NEW q \in Nat, NEW r \in 0..(p - 1)
  PROVE  (p * q + r) % p = r /\ (p * q + r) \div p = q
OBVIOUS

LEMMA NextRemainder ==
  ASSUME NEW k \in Nat, NEW p \in Nat \ {0}
  PROVE  (k + 1) % p = 0 \/ (k + 1) % p = (k % p) + 1
<1> DEFINE q == k \div p
           r == k % p
<1>1. k = p * q + r /\ r \in 0..(p - 1) /\ q \in Nat
  BY Division
<1>2. SUFFICES (k + 1) % p = 0 \/ (k + 1) % p = r + 1
  OBVIOUS
<1> HIDE DEF q, r
<1>3. CASE r + 1 < p
  <2>1. k + 1 = p * q + (r + 1) /\ r + 1 \in 0..(p - 1)
    BY <1>1, <1>3
  <2> QED BY <1>1, <2>1, UniqueDivision
<1>4. CASE r + 1 = p
  <2>1. k + 1 = p * (q + 1) + 0 /\ q + 1 \in Nat /\ 0 \in 0..(p - 1)
    BY <1>1, <1>4
  <2> QED BY <2>1, UniqueDivision
<1> QED BY <1>1, <1>3, <1>4

LEMMA DividesTransitive ==
  ASSUME NEW k \in Nat, NEW p \in Nat \ {0}, NEW d \in Nat \ {0},
         k % p = 0, p % d = 0
  PROVE  k % d = 0
<1> DEFINE q == k \div p
           s == p \div d
<1>1. k = p * q /\ q \in Nat /\ p = d * s /\ s \in Nat
  BY Division
<1> HIDE DEF q, s
<1>2. s * q \in Nat /\ k = d * (s * q) + 0 /\ 0 \in 0..(d - 1)
  BY <1>1
<1> QED BY <1>2, UniqueDivision

-----------------------------------------------------------------------------
(* define_origins, replay_common.py:219-227: the grid has a place for      *)
(* every robot, and no two robots share one.                               *)

THEOREM OriginsApart ==
  ASSUME NEW n \in Nat \ {0}, Cols(n) \in 1..n,
         NEW i \in 0..(n - 1), NEW j \in 0..(n - 1), i # j
  PROVE  /\ Origin(n, i) \in (0..(Rows(n) - 1)) \X (0..(Cols(n) - 1))
         /\ Origin(n, i) # Origin(n, j)
<1> DEFINE c == Cols(n)
           r == Rows(n)
<1>1. c \in Nat \ {0} /\ c <= n /\ r = (n + c - 1) \div c
  BY DEF Rows
<1>2. Origin(n, i) = <<i % r, i \div r>> /\ Origin(n, j) = <<j % r, j \div r>>
  BY DEF Origin
<1>3. SUFFICES /\ i % r \in 0..(r - 1) /\ i \div r \in 0..(c - 1)
               /\ i % r # j % r \/ i \div r # j \div r
  BY <1>2
<1> HIDE DEF c, r
<1>4. r \in Nat \ {0} /\ r * c >= n
  <2> DEFINE m == n + c - 1
  <2>1. m \in Nat /\ m - (c - 1) = n /\ r = m \div c
    BY <1>1
  <2> HIDE DEF m
  <2>2. m = c * r + (m % c) /\ m % c \in 0..(c - 1) /\ r \in Nat
    BY <1>1, <2>1, Division
  <2>3. c * r \in Nat /\ c * r >= n
    BY <1>1, <2>1, <2>2
  <2>4. r # 0
    BY <1>1, <2>3
  <2> QED BY <1>1, <2>2, <2>3, <2>4
<1>5. i \in Nat /\ j \in Nat /\ i < n
  OBVIOUS
<1>6. /\ i = r * (i \div r) + (i % r) /\ i % r \in 0..(r - 1) /\ i \div r \in Nat
      /\ j = r * (j \div r) + (j % r)
  BY <1>4, <1>5, Division
<1>7. i \div r <= c - 1
  <2> DEFINE q == i \div r
  <2>1. r * q <= i /\ i < r * c /\ q \in Nat
    <3>1. q \in Nat /\ i = r * q + (i % r)
      BY <1>6
    <3> HIDE DEF q
    <3>2. r * c \in Nat /\ r * q \in Nat
      BY <1>1, <1>4, <3>1
    <3> QED BY <1>4, <1>5, <1>6, <3>1, <3>2
  <2> HIDE DEF q
  <2>2. ASSUME q >= c PROVE FALSE
    <3> DEFINE t == q - c
    <3>1. t \in Nat /\ q = c + t
      BY <1>1, <2>1, <2>2
    <3> HIDE DEF t
    <3>2. r * q = r * c + r * t /\ r * t \in Nat /\ r * c \in Nat
      BY <1>1, <1>4, <3>1
    <3> QED BY <2>1, <3>2
  <2> QED BY <1>1, <2>1, <2>2 DEF q
<1> QED BY <1>1, <1>6, <1>7
-----------------------------------------------------------------------------
(* Types.                                                                  *)

LEMMA NoActionType ==
  /\ NoAction \in Actions
  /\ NoAction \in [of : Nat, size : {"within", "beyond", "clamped"}]
BY DEF NoAction, Output, Actions

LEMMA OutputsType == ASSUME NEW n \in Nat PROVE Outputs(n) \subseteq Actions
BY DEF Outputs, Output, Actions

LEMMA DrivenType ==
  ASSUME NEW a \in Actions
  PROVE  Driven(a) \in [of : Nat, size : {"within", "beyond", "clamped"}]
<1>1. a.of \in Nat /\ a.size \in {"within", "beyond"} /\ a = Output(a.of, a.size)
  BY DEF Actions, Output
<1>2. CASE adapter.clamps /\ a.size = "beyond"
  BY <1>1, <1>2 DEF Driven, Output
<1>3. CASE ~(adapter.clamps /\ a.size = "beyond")
  BY <1>1, <1>3 DEF Driven, Actions
<1> QED BY <1>2, <1>3

LEMMA InitType == Init => TypeOK
<1> SUFFICES ASSUME Init PROVE TypeOK
  OBVIOUS
<1>1. logs \in Seq(SUBSET Iterations)
  BY DEF Init
<1>2. checkpoint \in Nat \X Int
  BY DEF Init, Given
<1>3. /\ action \in [Robots -> Actions] /\ last_actions \in [Robots -> Actions]
      /\ applied \in [Robots -> [of : Nat, size : {"within", "beyond", "clamped"}]]
      /\ obs \in [Robots -> [life : Nat, last : Actions]]
  BY NoActionType DEF Init, AtRest
<1> QED BY <1>1, <1>2, <1>3 DEF Init, TypeOK, Zero

LEMMA LoopType ==
  ASSUME TypeOK, Loop
  PROVE  TypeOK'
<1>1. adapter \in Adapters /\ files' = files
  BY DEF Loop, AppCloses, Decide, ApplyAction, Step, Recycle, TypeOK
<1>2. /\ logs' \in Seq(SUBSET Iterations) /\ before' \subseteq FilesOf(logs)'
      /\ checkpoint' \in Nat \X Int /\ adapter' \in Adapters
  BY <1>1 DEF files, FilesOf, TypeOK
<1>3. CASE AppCloses
  BY <1>2, <1>3 DEF AppCloses, TypeOK, control, robots
<1>4. CASE Decide
  <2>1. obs' \in [Robots -> [life : Nat, last : Actions]]
        /\ action' \in [Robots -> Actions] /\ last_actions' \in [Robots -> Actions]
    <3>1. CASE Decides
      <4>1. obs' = Observation /\ last_actions' = action'
            /\ action' \in [Robots -> Outputs(step_count + 1)] /\ step_count + 1 \in Nat
        BY <1>4, <3>1 DEF Decide, TypeOK
      <4>2. action' \in [Robots -> Actions]
        BY <4>1, OutputsType
      <4>3. obs' \in [Robots -> [life : Nat, last : Actions]]
        BY <4>1 DEF Observation, TypeOK
      <4> QED BY <4>1, <4>2, <4>3
    <3>2. CASE ~Decides
      BY <1>4, <3>2 DEF Decide, TypeOK
    <3> QED BY <3>1, <3>2
  <2> QED BY <1>2, <1>4, <2>1 DEF Decide, TypeOK, robots
<1>5. CASE ApplyAction
  <2>1. applied' \in [Robots -> [of : Nat, size : {"within", "beyond", "clamped"}]]
    BY <1>5, DrivenType DEF ApplyAction, TypeOK
  <2> QED BY <1>2, <1>5, <2>1 DEF ApplyAction, TypeOK, control
<1>6. CASE Step
  BY <1>2, <1>6 DEF Step, TypeOK
<1>7. CASE Recycle
  <2>1. CASE Recycles
    <3>1. PutBack(fallen)
      BY <1>7, <2>1 DEF Recycle, Recycled
    <3>2. /\ fallen' \subseteq Robots
          /\ life' \in [Robots -> Nat] /\ down' \in [Robots -> Nat]
      BY <3>1 DEF PutBack, TypeOK
    <3>3. /\ last_actions' \in [Robots -> Actions]
          /\ applied' \in [Robots -> [of : Nat, size : {"within", "beyond", "clamped"}]]
      BY <3>1, NoActionType DEF PutBack, TypeOK
    <3> QED BY <1>2, <1>7, <3>2, <3>3 DEF Recycle, TypeOK
  <2>2. CASE ~Recycles
    BY <1>2, <1>7, <2>2 DEF Recycle, TypeOK, robots
  <2> QED BY <2>1, <2>2
<1> QED BY <1>3, <1>4, <1>5, <1>6, <1>7 DEF Loop

LEMMA FilesGrow ==
  ASSUME TypeOK, Trainer
  PROVE  /\ logs' \in Seq(SUBSET Iterations)
         /\ FilesOf(logs) \subseteq FilesOf(logs)'
         /\ DOMAIN logs \subseteq DOMAIN logs'
         /\ UNCHANGED <<adapter, before, checkpoint, pc, control, robots>>
<1>1. logs \in Seq(SUBSET Iterations)
  BY DEF TypeOK
<1>2. CASE TrainerStartsRun
  <2>1. logs' = Append(logs, {})
    BY <1>2 DEF TrainerStartsRun
  <2>2. /\ logs' \in Seq(SUBSET Iterations) /\ Len(logs') = Len(logs) + 1
        /\ Len(logs) \in Nat /\ \A r \in 1..Len(logs) : logs'[r] = logs[r]
    BY <1>1, <2>1
  <2> QED BY <1>1, <1>2, <2>2 DEF TrainerStartsRun, FilesOf
<1>3. ASSUME NEW r \in DOMAIN logs, NEW n \in Iterations, TrainerSaves(r, n)
      PROVE  /\ logs' \in Seq(SUBSET Iterations)
             /\ FilesOf(logs) \subseteq FilesOf(logs)'
             /\ DOMAIN logs \subseteq DOMAIN logs'
             /\ UNCHANGED <<adapter, before, checkpoint, pc, control, robots>>
  <2>1. logs' = [logs EXCEPT ![r] = @ \cup {n}]
    BY <1>3 DEF TrainerSaves
  <2>2. /\ logs' \in Seq(SUBSET Iterations) /\ Len(logs') = Len(logs)
        /\ DOMAIN logs' = DOMAIN logs
        /\ \A q \in 1..Len(logs) : logs[q] \subseteq logs'[q]
    BY <1>1, <2>1
  <2> QED BY <1>3, <2>2 DEF TrainerSaves, FilesOf
<1> QED BY <1>2, <1>3 DEF Trainer

LEMMA TypeStep == TypeOK /\ [Next]_vars => TypeOK'
<1> SUFFICES ASSUME TypeOK, [Next]_vars PROVE TypeOK'
  OBVIOUS
<1>1. CASE UNCHANGED vars
  BY <1>1 DEF vars, files, control, robots, TypeOK, FilesOf
<1>2. CASE Trainer
  BY <1>2, FilesGrow DEF TypeOK, control, robots
<1>3. CASE ListRuns
  <2>1. Len(logs) \in Nat /\ (logs # << >> => Len(logs) \in DOMAIN logs)
    BY DEF TypeOK
  <2> QED BY <1>3, <2>1 DEF ListRuns, TypeOK, FilesOf, control, robots
<1>4. CASE GlobModels
  <2>1. checkpoint' = checkpoint \/ checkpoint' \in Nat \X Int
    <3>1. checkpoint[1] \in Nat
      BY DEF TypeOK
    <3> QED BY <1>4, <3>1, ReplayAssumption DEF GlobModels, ReplayAssumption
  <2> QED BY <1>4, <2>1 DEF GlobModels, TypeOK, FilesOf, control, robots
<1>5. CASE LoadFails
  BY <1>5 DEF LoadFails, TypeOK, FilesOf, files, control, robots
<1>6. CASE Setup
  <2>1. /\ last_actions' \in [Robots -> Actions] /\ action' \in [Robots -> Actions]
        /\ obs' \in [Robots -> [life : Nat, last : Actions]]
    BY <1>6, NoActionType DEF Setup, AtRest, TypeOK
  <2> QED BY <1>6, <2>1 DEF Setup, TypeOK, FilesOf, files
<1>7. CASE Loop
  BY <1>7, LoopType
<1> QED BY <1>1, <1>2, <1>3, <1>4, <1>5, <1>6, <1>7 DEF Next

\* replay_common.py: every variable keeps its type.
THEOREM TypeCorrect == Spec => []TypeOK
BY InitType, TypeStep, PTL DEF Spec

-----------------------------------------------------------------------------
(* Observations and actions.  Both properties hold because a robot is put  *)
(* back only where the next step decides: the recycle period is a multiple *)
(* of the decimation of every adapter that recycles.                       *)

LEMMA RecyclesWhereDecides ==
  ASSUME TypeOK, Recycles
  PROVE  Decides
<1>1. /\ adapter \in Adapters /\ adapter.recycles /\ step_count \in Nat
      /\ step_count % RecyclePeriod = 0
  BY DEF TypeOK, Recycles
<1>2. /\ RecyclePeriod \in Nat \ {0} /\ adapter.decimation \in Nat \ {0}
      /\ RecyclePeriod % adapter.decimation = 0
  BY <1>1, ReplayAssumption DEF ReplayAssumption
<1> QED BY <1>1, <1>2, DividesTransitive DEF Decides

\* The current action belongs to the current life, unless a new one is due.
LifeInv ==
  \/ pc \in {"loop", "closed"} /\ Decides
  \/ \A e \in Robots : obs[e].life = life[e]

\* What is remembered, what it drove the robot by and the action agree in the
\* same way.
ActionInv ==
  \A e \in Robots :
    /\ pc \in {"step", "recycle", "loop"} => applied[e] = Driven(last_actions[e])
    /\ pc \in {"list", "glob", "setup"} => applied[e] = NoAction
    /\ pc \in {"apply", "step", "recycle"} => last_actions[e] = action[e]
    /\ pc = "loop" /\ ~Decides => last_actions[e] = action[e]

LEMMA NoActionIsDriven == Driven(NoAction) = NoAction
BY DEF Driven, NoAction, Output

MemoryInv == LifeInv /\ ActionInv

LEMMA MemoryInit == Init => MemoryInv
BY DEF Init, MemoryInv, LifeInv, ActionInv, Zero, AtRest

LEMMA MemoryStep == TypeOK /\ MemoryInv /\ [Next]_vars => MemoryInv'
<1> SUFFICES ASSUME TypeOK, MemoryInv, [Next]_vars PROVE MemoryInv'
  OBVIOUS
<1>1. CASE UNCHANGED vars
  BY <1>1 DEF vars, files, control, robots, MemoryInv, LifeInv, ActionInv, Decides, Driven
<1>2. CASE Trainer
  BY <1>2, FilesGrow DEF control, robots, MemoryInv, LifeInv, ActionInv, Decides,
                         Driven
<1>3. CASE ListRuns
  BY <1>3 DEF ListRuns, control, robots, MemoryInv, LifeInv, ActionInv, Decides,
              Driven
<1>4. CASE GlobModels
  BY <1>4 DEF GlobModels, control, robots, MemoryInv, LifeInv, ActionInv, Decides
<1>5. CASE LoadFails
  BY <1>5 DEF LoadFails, control, robots, MemoryInv, LifeInv, ActionInv, Decides
<1>6. CASE Setup
  BY <1>6, NoActionIsDriven DEF Setup, files, AtRest, TypeOK, MemoryInv, LifeInv,
                                ActionInv, Driven
<1>7. CASE AppCloses
  BY <1>7 DEF AppCloses, control, robots, files, MemoryInv, LifeInv, ActionInv, Decides
<1>8. CASE Decide
  <2>1. CASE Decides
    BY <1>8, <2>1 DEF Decide, Observation, robots, TypeOK, MemoryInv, LifeInv, ActionInv
  <2>2. CASE ~Decides
    BY <1>8, <2>2 DEF Decide, robots, MemoryInv, LifeInv, ActionInv
  <2> QED BY <2>1, <2>2
<1>9. CASE ApplyAction
  BY <1>9 DEF ApplyAction, control, files, TypeOK, MemoryInv, LifeInv, ActionInv,
              Driven
<1>10. CASE Step
  BY <1>10 DEF Step, files, MemoryInv, LifeInv, ActionInv, Driven
<1>11. CASE Recycle
  <2>1. CASE Recycles
    <3>1. PutBack(fallen) /\ pc' = "loop" /\ Decides' /\ UNCHANGED <<obs, action>>
      BY <1>11, <2>1, RecyclesWhereDecides DEF Recycle, Recycled, Decides, files
    <3>2. ASSUME NEW e \in Robots PROVE applied'[e] = Driven(last_actions[e])'
      <4>1. adapter' = adapter /\ pc = "recycle"
        BY <1>11 DEF Recycle, files
      <4>2. CASE e \in fallen
        BY <3>1, <4>1, <4>2, NoActionIsDriven DEF PutBack, TypeOK, Driven
      <4>3. CASE e \notin fallen
        BY <3>1, <4>1, <4>3 DEF PutBack, TypeOK, MemoryInv, ActionInv, Driven
      <4> QED BY <4>2, <4>3
    <3> QED BY <3>1, <3>2 DEF MemoryInv, LifeInv, ActionInv
  <2>2. CASE ~Recycles
    BY <1>11, <2>2 DEF Recycle, files, robots, MemoryInv, LifeInv, ActionInv, Decides,
                       Driven
  <2> QED BY <2>1, <2>2
<1> QED BY <1>1, <1>2, <1>3, <1>4, <1>5, <1>6, <1>7, <1>8, <1>9, <1>10, <1>11
        DEF Next, Loop

LEMMA MemoryAlways == Spec => []MemoryInv
BY InitType, TypeStep, MemoryInit, MemoryStep, PTL DEF Spec

\* replay_common.py:422-437: no robot is driven by an action that was chosen
\* for its former life.
THEOREM ActionsAreCurrent == Spec => []ActionOfThisLife
<1>1. MemoryInv => ActionOfThisLife
  BY DEF MemoryInv, LifeInv, ActionOfThisLife
<1> QED BY <1>1, MemoryAlways, PTL

\* replay_ant.py:111, 170-174 and 195: the last action of an observation is the
\* policy's own, and clamped where the adapter clamps it is what drove the robot
\* in this life.
THEOREM ObservationsRemember == Spec => []ObservesWhatDrove
<1>1. MemoryInv => ObservesWhatDrove
  BY DEF MemoryInv, ActionInv, ObservesWhatDrove, Observation
<1> QED BY <1>1, MemoryAlways, PTL

-----------------------------------------------------------------------------
(* Fallen robots: a count since the last check bounds the time each is     *)
(* down.                                                                   *)

DownInv ==
  /\ \A e \in Robots \ fallen : down[e] = 0
  /\ \A e \in Robots :
       /\ pc \in {"list", "glob", "setup"} => down[e] = 0
       /\ pc \in {"loop", "apply", "step"} /\ adapter.recycles
            => down[e] <= step_count % RecyclePeriod
       /\ pc = "recycle" /\ adapter.recycles
            => down[e] <= ((step_count - 1) % RecyclePeriod) + 1 /\ step_count > 0
  /\ DownNoLongerThanPeriod

LEMMA DownStep == TypeOK /\ DownInv /\ [Next]_vars => DownInv'
<1> SUFFICES ASSUME TypeOK, DownInv, [Next]_vars PROVE DownInv'
  OBVIOUS
<1>p. RecyclePeriod \in Nat \ {0}
  BY ReplayAssumption DEF ReplayAssumption
<1>1. CASE UNCHANGED vars
  BY <1>1 DEF vars, files, control, robots, DownInv, DownNoLongerThanPeriod
<1>2. CASE Trainer
  BY <1>2, FilesGrow DEF control, robots, DownInv, DownNoLongerThanPeriod
<1>3. CASE ListRuns \/ GlobModels \/ LoadFails
  BY <1>3 DEF ListRuns, GlobModels, LoadFails, files, control, robots, DownInv,
              DownNoLongerThanPeriod
<1>4. CASE Setup
  <2>1. step_count' % RecyclePeriod \in Nat
    BY <1>4, <1>p DEF Setup
  <2> QED BY <1>4, <2>1 DEF Setup, files, DownInv, DownNoLongerThanPeriod
<1>5. CASE AppCloses \/ Decide \/ ApplyAction
  BY <1>5 DEF AppCloses, Decide, ApplyAction, files, control, robots, DownInv,
              DownNoLongerThanPeriod
<1>6. CASE Step
  <2>1. /\ step_count' = step_count + 1 /\ step_count \in Nat
        /\ step_count' - 1 = step_count
    BY <1>6 DEF Step, TypeOK
  <2>2. step_count % RecyclePeriod \in 0..(RecyclePeriod - 1)
    BY <1>p, <2>1, Division
  <2>3. /\ pc = "step" /\ pc' = "recycle" /\ adapter' = adapter
        /\ \A e \in Robots : down'[e] = IF e \in fallen' THEN down[e] + 1 ELSE 0
    BY <1>6 DEF Step, files, TypeOK
  <2>4. \A e \in Robots : down[e] \in Nat
    BY DEF TypeOK
  <2>5. ASSUME adapter.recycles, NEW e \in Robots
        PROVE  /\ down'[e] <= (step_count % RecyclePeriod) + 1
               /\ down'[e] <= RecyclePeriod
    BY <1>p, <2>2, <2>3, <2>4, <2>5 DEF DownInv
  <2> QED BY <2>1, <2>3, <2>5 DEF DownInv, DownNoLongerThanPeriod
<1>7. CASE Recycle
  <2>1. /\ pc = "recycle" /\ pc' = "loop" /\ adapter' = adapter
        /\ step_count' = step_count /\ step_count \in Nat
    BY <1>7 DEF Recycle, files, TypeOK
  <2>2. CASE Recycles
    <3>1. /\ fallen' = {}
          /\ \A e \in Robots : down'[e] = IF e \in fallen THEN 0 ELSE down[e]
      BY <1>7, <2>2 DEF Recycle, Recycled, PutBack, TypeOK
    <3>2. \A e \in Robots : down'[e] = 0
      BY <3>1 DEF DownInv
    <3>3. step_count % RecyclePeriod = 0
      BY <2>2 DEF Recycles
    <3> QED BY <1>p, <2>1, <3>2, <3>3 DEF DownInv, DownNoLongerThanPeriod
  <2>3. CASE ~Recycles
    <3>1. UNCHANGED <<fallen, down>>
      BY <1>7, <2>3 DEF Recycle, robots
    <3>2. ASSUME adapter.recycles, NEW e \in Robots
          PROVE  down[e] <= step_count % RecyclePeriod
      <4>1. step_count % RecyclePeriod # 0
        BY <2>3, <3>2 DEF Recycles
      <4>2. step_count - 1 \in Nat /\ step_count = (step_count - 1) + 1
            /\ down[e] <= ((step_count - 1) % RecyclePeriod) + 1
        BY <2>1, <3>2 DEF DownInv
      <4> QED BY <1>p, <4>1, <4>2, NextRemainder
    <3> QED BY <2>1, <3>1, <3>2 DEF DownInv, DownNoLongerThanPeriod
  <2> QED BY <2>2, <2>3
<1> QED BY <1>1, <1>2, <1>3, <1>4, <1>5, <1>6, <1>7 DEF Next, Loop

\* replay_common.py:435: where fallen robots are recycled, none is down for
\* more than a period.
THEOREM FallenArePutBack == Spec => []DownNoLongerThanPeriod
<1>1. Init => DownInv
  BY ReplayAssumption DEF Init, DownInv, DownNoLongerThanPeriod, Zero, ReplayAssumption
<1>2. DownInv => DownNoLongerThanPeriod
  BY DEF DownInv
<1> QED BY <1>1, <1>2, InitType, TypeStep, DownStep, PTL DEF Spec

-----------------------------------------------------------------------------
(* The checkpoint: runs and files only appear, so the latest run is still  *)
(* no older than any file there was at the start when it is searched.      *)

CheckpointInv ==
  /\ pc = "glob" => \A f \in before : f[1] <= checkpoint[1]
  /\ NewestCheckpoint

LEMMA CheckpointStep == TypeOK /\ CheckpointInv /\ [Next]_vars => CheckpointInv'
<1> SUFFICES ASSUME TypeOK, CheckpointInv, [Next]_vars PROVE CheckpointInv'
  OBVIOUS
<1>1. \A f \in before : f \in (1..Len(logs)) \X Iterations /\ f[2] \in logs[f[1]]
  BY DEF TypeOK, FilesOf
<1>2. CASE UNCHANGED vars
  BY <1>2 DEF vars, files, CheckpointInv, NewestCheckpoint, Later
<1>3. CASE Trainer
  BY <1>3, FilesGrow DEF CheckpointInv, NewestCheckpoint, Later
<1>4. CASE ListRuns
  <2>1. CASE logs = << >>
    BY <1>4, <2>1 DEF ListRuns, CheckpointInv, NewestCheckpoint
  <2>2. CASE logs # << >>
    <3>1. /\ before' = before /\ pc' = "glob" /\ checkpoint' = <<Len(logs), 0>>
      BY <1>4, <2>2 DEF ListRuns
    <3>2. \A f \in before : f[1] <= Len(logs)
      BY <1>1 DEF TypeOK
    <3> QED BY <3>1, <3>2 DEF CheckpointInv, NewestCheckpoint
  <2> QED BY <2>1, <2>2
<1>5. CASE GlobModels
  <2>1. before' = before /\ pc = "glob"
    BY <1>5 DEF GlobModels
  <2>2. CASE pc' = "failed"
    BY <2>1, <2>2 DEF CheckpointInv, NewestCheckpoint
  <2>3. CASE pc' # "failed"
    <3>1. PICK n \in Iterations :
            /\ LastByIteration(n, logs[checkpoint[1]])
            /\ pc' = "setup" /\ checkpoint' = <<checkpoint[1], n>>
      BY <1>5, <2>3 DEF GlobModels
    <3>2. ASSUME NEW f \in before PROVE ~Later(f, checkpoint')
      <4>1. f[1] \in Int /\ checkpoint[1] \in Int /\ f[1] <= checkpoint[1]
        BY <1>1, <2>1 DEF CheckpointInv, TypeOK
      <4>2. n \in Int /\ f[2] \in Int
        BY <1>1, <3>1, ReplayAssumption DEF ReplayAssumption
      <4>3. f[1] = checkpoint[1] => f[2] <= n
        BY <1>1, <3>1 DEF LastByIteration
      <4> QED BY <3>1, <4>1, <4>2, <4>3 DEF Later
    <3> QED BY <2>1, <3>1, <3>2 DEF CheckpointInv, NewestCheckpoint
  <2> QED BY <2>2, <2>3
<1>6. CASE LoadFails \/ Setup \/ Loop
  <2>1. /\ before' = before /\ checkpoint' = checkpoint /\ pc' # "glob"
        /\ pc \notin {"list", "glob", "failed"}
    BY <1>6 DEF LoadFails, Setup, Loop, AppCloses, Decide, ApplyAction, Step,
                Recycle, files
  <2> QED BY <2>1 DEF CheckpointInv, NewestCheckpoint, Later
<1> QED BY <1>2, <1>3, <1>4, <1>5, <1>6 DEF Next

\* replay_common.py:115-146: no checkpoint older than what was there is loaded,
\* for any number of runs and trainers.
THEOREM LoadsNewest == Spec => []NewestCheckpoint
<1>1. Init => CheckpointInv
  BY DEF Init, CheckpointInv, NewestCheckpoint
<1>2. CheckpointInv => NewestCheckpoint
  BY DEF CheckpointInv
<1> QED BY <1>1, <1>2, InitType, TypeStep, CheckpointStep, PTL DEF Spec
=============================================================================
