----------------------------- MODULE ReplayLoop -----------------------------
(***************************************************************************)
(* isaaclab-patches/replay_common.py: replay of a trained policy.  The     *)
(* script finds a checkpoint, sets the scene up and runs one loop: every   *)
(* adapter.decimation steps the policy is asked for an action, every step  *)
(* applies the current action to all robots and advances the physics, and  *)
(* every RecyclePeriod steps the adapter may put fallen robots back at     *)
(* their origin.  A trainer may write checkpoints at the same time.        *)
(*                                                                         *)
(* Left out: numbers of the observation and of the network, the camera     *)
(* (it changes the view only) and what Kit draws.  An action of a robot is *)
(* the number of the step it was computed in, plus 1, and whether all of   *)
(* it is within [-1, 1]; number 0 is the zero action.  A robot is up or    *)
(* fallen, and its life is the number of times it was put back.            *)
(***************************************************************************)
EXTENDS Integers, Sequences

CONSTANTS
  Adapters,       \* the TaskAdapters: [decimation, recycles, clamps]
  RecyclePeriod,  \* steps between two calls of maybe_reset (30 in the code)
  Robots,         \* the environments, one robot each
  Iterations,     \* N of the files model_<N>.pt; -1 for a file without one
  MaxRuns,        \* bound: run directories of an experiment
  MaxSteps        \* bound: steps of the loop

\* Holds of the adapters in the repository; nothing checks it of a new one.
ASSUME ReplayAssumption ==
  /\ RecyclePeriod \in Nat \ {0}
  /\ MaxRuns \in Nat /\ MaxSteps \in Nat
  /\ Iterations \subseteq Int
  /\ \A a \in Adapters :
       /\ a.decimation \in Nat \ {0}
       /\ {a.recycles, a.clamps} \subseteq BOOLEAN
       /\ a.recycles => RecyclePeriod % a.decimation = 0

VARIABLES
  adapter,       \* the adapter --task names
  logs,          \* logs/rsl_rl/<experiment>: the files of each run, by time
  before,        \* ghost: the files there were when the script started
  checkpoint,    \* the file that is loaded: <<run, N>>
  pc,            \* where run_replay stands
  step_count,
  obs,           \* obs[e]: the observation of robot e the action came from
  action,        \* action[e]: the policy's output for e, applied every step
  last_actions,  \* last_actions[e]: what the next observation will hold
  fallen,        \* robots below TERMINATION_HEIGHT
  life,          \* life[e]: how often e was put back
  applied,       \* ghost: applied[e]: what e was last driven with in this life
  down           \* ghost: down[e]: for how many steps of the loop e has lain

files == <<adapter, logs, before, checkpoint>>
robots == <<fallen, life, applied, down>>
control == <<step_count, obs, action, last_actions>>
vars == <<files, pc, control, robots>>

Zero == [e \in Robots |-> 0]
Output(n, size) == [of |-> n, size |-> size]
Outputs(n) == {Output(n, size) : size \in {"within", "beyond"}}
NoAction == Output(0, "within")
AtRest == [e \in Robots |-> NoAction]

-----------------------------------------------------------------------------
(* The checkpoint, and the trainer that may be writing to the same place.   *)

Given == <<0, 0>>     \* the path after --checkpoint

FilesOf(ls) ==
  {f \in (1..Len(ls)) \X Iterations : f[2] \in ls[f[1]]}

Later(f, g) ==
  \/ f[1] > g[1]
  \/ f[1] = g[1] /\ f[2] > g[2]

Looking == pc \in {"list", "glob"}

TrainerStartsRun ==
  /\ Looking /\ Len(logs) < MaxRuns
  /\ logs' = Append(logs, {})
  /\ UNCHANGED <<adapter, before, checkpoint, pc, control, robots>>

TrainerSaves(r, n) ==
  /\ Looking /\ n \notin logs[r]
  /\ logs' = [logs EXCEPT ![r] = @ \cup {n}]
  /\ UNCHANGED <<adapter, before, checkpoint, pc, control, robots>>

\* Mutant: the last of no directories.
ListRunsUnchecked ==
  /\ pc = "list"
  /\ pc' = "glob"
  /\ checkpoint' = <<Len(logs), 0>>
  /\ UNCHANGED <<adapter, logs, before, control, robots>>

\* The latest run directory; checkpoint holds it until a file is chosen.
ListRuns ==
  /\ pc = "list"
  /\ \/ /\ logs = << >>
        /\ pc' = "failed"
        /\ UNCHANGED checkpoint
     \/ /\ logs # << >>
        /\ pc' = "glob"
        /\ checkpoint' = <<Len(logs), 0>>
  /\ UNCHANGED <<adapter, logs, before, control, robots>>

\* Mutant: file names sorted as strings, so that model_9 follows model_10.
LastByName(n, ns) == n \in ns /\ (n = 9 \/ 9 \notin ns)

LastByIteration(n, ns) == n \in ns /\ \A m \in ns : m <= n

GlobModels ==
  LET run == checkpoint[1] IN
  /\ pc = "glob"
  /\ \/ /\ logs[run] = {}
        /\ pc' = "failed"
        /\ UNCHANGED checkpoint
     \/ \E n \in Iterations :
          /\ LastByIteration(n, logs[run])
          /\ pc' = "setup"
          /\ checkpoint' = <<run, n>>
  /\ UNCHANGED <<adapter, logs, before, control, robots>>

-----------------------------------------------------------------------------
(* The adapters, and where they put the robots.                            *)

Ant == [decimation |-> 2, recycles |-> TRUE, clamps |-> TRUE]
AnymalD == [decimation |-> 4, recycles |-> FALSE, clamps |-> FALSE]

\* What apply_action makes of an action: the Ant's efforts come from the action
\* clamped to [-1, 1], the Anymal's joint targets from the action as it is.
Driven(out) ==
  IF adapter.clamps /\ out.size = "beyond" THEN Output(out.of, "clamped") ELSE out

\* A grid of n origins, numbered from 0, in units of the spacing.
Cols(n) == CHOOSE c \in 1..n : c * c <= n /\ n < (c + 1) * (c + 1)
Rows(n) == (n + Cols(n) - 1) \div Cols(n)
Origin(n, i) == <<i % Rows(n), i \div Rows(n)>>

-----------------------------------------------------------------------------
(* run_replay.                                                             *)

Observation == [e \in Robots |-> [life |-> life[e], last |-> last_actions[e]]]

\* The file may be missing, half written, or not of this task.
LoadFails ==
  /\ pc = "setup"
  /\ pc' = "failed"
  /\ UNCHANGED <<files, control, robots>>

\* sim.reset(), a warm-up step after which a robot may lie, and a first
\* observation.
Setup ==
  /\ pc = "setup"
  /\ pc' = "loop"
  /\ fallen' \in SUBSET Robots
  /\ last_actions' = AtRest /\ action' = AtRest /\ step_count' = 0
  /\ obs' = [e \in Robots |-> [life |-> life[e], last |-> NoAction]]
  /\ UNCHANGED <<files, life, applied, down>>

AppCloses ==
  /\ pc = "loop"
  /\ pc' = "closed"
  /\ UNCHANGED <<files, control, robots>>

Decides == step_count % adapter.decimation = 0

\* The top of the loop: in its turn, the policy sees a new observation.
Decide ==
  /\ pc = "loop" /\ step_count < MaxSteps
  /\ pc' = "apply"
  /\ IF Decides
     THEN /\ obs' = Observation
          /\ action' \in [Robots -> Outputs(step_count + 1)]
          /\ last_actions' = action'
     ELSE UNCHANGED <<obs, action, last_actions>>
  /\ UNCHANGED <<files, step_count, robots>>

\* adapter.apply_action: the action is clamped on the way to the robot, and
\* last_actions keeps it as it was.
ApplyAction ==
  /\ pc = "apply"
  /\ pc' = "step"
  /\ applied' = [e \in Robots |-> Driven(action[e])]
  /\ UNCHANGED <<files, control, fallen, life, down>>

\* sim.step() and robot.update(): any robot may fall or get up.
Step ==
  /\ pc = "step"
  /\ pc' = "recycle"
  /\ step_count' = step_count + 1
  /\ fallen' \in SUBSET Robots
  /\ down' = [e \in Robots |-> IF e \in fallen' THEN down[e] + 1 ELSE 0]
  /\ UNCHANGED <<files, obs, action, last_actions, life, applied>>

\* Mutant: the remembered action survives the reset.
PutBackRemembering(S) ==
  /\ fallen' = fallen \ S
  /\ life' = [e \in Robots |-> IF e \in S THEN life[e] + 1 ELSE life[e]]
  /\ applied' = [e \in Robots |-> IF e \in S THEN NoAction ELSE applied[e]]
  /\ down' = [e \in Robots |-> IF e \in S THEN 0 ELSE down[e]]
  /\ UNCHANGED last_actions

\* AntAdapter.maybe_reset: S is put back, with the zero action remembered.
PutBack(S) ==
  /\ fallen' = fallen \ S
  /\ life' = [e \in Robots |-> IF e \in S THEN life[e] + 1 ELSE life[e]]
  /\ last_actions' =
       [e \in Robots |-> IF e \in S THEN NoAction ELSE last_actions[e]]
  /\ applied' = [e \in Robots |-> IF e \in S THEN NoAction ELSE applied[e]]
  /\ down' = [e \in Robots |-> IF e \in S THEN 0 ELSE down[e]]

\* Mutant: the check runs before step_count is advanced.
RecyclesEarly == adapter.recycles /\ (step_count - 1) % RecyclePeriod = 0

Recycles == adapter.recycles /\ step_count % RecyclePeriod = 0

\* Mutant: fallen.all() in place of fallen.any().
AllFallen == IF fallen = Robots THEN Robots ELSE {}

Recycled == fallen

Recycle ==
  /\ pc = "recycle"
  /\ pc' = "loop"
  /\ IF Recycles THEN PutBack(Recycled) ELSE UNCHANGED <<robots, last_actions>>
  /\ UNCHANGED <<files, step_count, obs, action>>

-----------------------------------------------------------------------------
Init ==
  /\ adapter \in Adapters
  /\ logs \in UNION {[1..n -> SUBSET Iterations] : n \in 0..MaxRuns}
  /\ before = FilesOf(logs)
  /\ checkpoint = Given
  /\ pc = "list" \/ (pc = "setup" /\ logs = << >>)  \* --checkpoint: not looked at
  /\ step_count = 0
  /\ action = AtRest /\ last_actions = AtRest /\ applied = AtRest
  /\ obs = [e \in Robots |-> [life |-> 0, last |-> NoAction]]
  /\ fallen = {}
  /\ life = Zero /\ down = Zero

Trainer ==
  \/ TrainerStartsRun
  \/ \E r \in DOMAIN logs, n \in Iterations : TrainerSaves(r, n)

Loop == AppCloses \/ Decide \/ ApplyAction \/ Step \/ Recycle

Next == Trainer \/ ListRuns \/ GlobModels \/ LoadFails \/ Setup \/ Loop

Spec == Init /\ [][Next]_vars

-----------------------------------------------------------------------------
Actions == [of : Nat, size : {"within", "beyond"}]

TypeOK ==
  /\ adapter \in Adapters
  /\ logs \in Seq(SUBSET Iterations)
  /\ before \subseteq FilesOf(logs)
  /\ checkpoint \in Nat \X Int
  /\ pc \in {"list", "glob", "setup", "loop", "apply", "step", "recycle",
             "failed", "closed"}
  /\ pc = "glob" => checkpoint[1] \in DOMAIN logs
  /\ step_count \in Nat
  /\ action \in [Robots -> Actions]
  /\ obs \in [Robots -> [life : Nat, last : Actions]]
  /\ last_actions \in [Robots -> Actions]
  /\ fallen \subseteq Robots
  /\ life \in [Robots -> Nat]
  /\ applied \in [Robots -> [of : Nat, size : {"within", "beyond", "clamped"}]]
  /\ down \in [Robots -> Nat]

\* replay_common.py:115-121, 139-143.  The file that is loaded is no older
\* than any that was there when the script started, whatever the trainer does
\* between the two looks at the directories.
NewestCheckpoint ==
  pc \notin {"list", "glob", "failed"} /\ checkpoint # Given
    => \A f \in before : ~Later(f, checkpoint)

\* replay_common.py:422-437.  A robot that was put back is not driven by an
\* action the policy chose from what it saw of the robot's former life.
ActionOfThisLife ==
  pc = "step" => \A e \in Robots : obs[e].life = life[e]

\* replay_common.py:424-431, replay_ant.py:111, 170-174 and 195.  What an
\* observation calls the last action is the policy's own output, out of range
\* or not, that the robot was last driven by in this life: clamped on the way
\* where the adapter clamps, as it is where it does not, and zero if the robot
\* was put back since.
ObservesWhatDrove ==
  pc = "loop" /\ Decides =>
    \A e \in Robots : Driven(Observation[e].last) = applied[e]

\* replay_common.py:435, "Recycle fallen agents every 30 sim steps".
DownNoLongerThanPeriod ==
  adapter.recycles => \A e \in Robots : down[e] <= RecyclePeriod
=============================================================================
