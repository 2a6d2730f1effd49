------------------------- MODULE LoadTestGenerator -------------------------
(***************************************************************************)
(* tools/generate-from-pipeline: it reads a PipelineRun, resolves the      *)
(* bundles of its tasks in one goroutine each, prints for every task what  *)
(* the load test will consist of, and writes a PipelineRun whose tasks     *)
(* have as many steps and are as large as the real ones.  What is printed  *)
(* and what is generated are worked out separately, in main and in         *)
(* generatePipelineTask.                                                   *)
(*                                                                         *)
(* A script is its length in bytes; YAML is left out.                      *)
(***************************************************************************)
EXTENDS Integers, Sequences, FiniteSets, SequencesExt

CONSTANTS
  PipelineRuns,  \* inputs: [tasks, finally, params, overrides]
  Registry,      \* the layers of the image behind each bundle reference
  Settings,      \* the flags: [skipResolve, defaultSteps, defaultSize, preserve]
  SleepDigits    \* numbers of digits of the seconds to sleep

VARIABLES
  run, cfg,   \* the input and the flags
  pc,         \* where main is
  tasks,      \* the taskInfos
  next,       \* the loop variable of main's loops
  wg, mu,     \* the WaitGroup's counter; the goroutine that holds the mutex, 0 if none
  worker,     \* where the goroutine of each task is
  found,      \* what it has resolved
  pulled,     \* tasks whose image and layer could be had
  results,    \* the map, by name of the task
  report,     \* what is printed of each task
  out         \* the generated PipelineRun

vars == <<run, cfg, pc, tasks, next, wg, mu, worker, found, pulled, results, report, out>>
resolving == <<wg, mu, worker, found, pulled, results>>
-----------------------------------------------------------------------------
(* A PipelineTask has a resolver with the bundle and task it names, the    *)
(* steps and size of an embedded spec, runAfter and a matrix.              *)
extractSingleTaskInfo(pt, isFinally) ==
  [name |-> pt.name, runAfter |-> pt.runAfter, matrix |-> pt.matrix, finally |-> isFinally,
   bundleRef |-> IF pt.resolver = "bundles" THEN pt.bundle ELSE "",
   bundleTask |-> IF pt.resolver = "bundles" THEN pt.task ELSE "",
   steps |-> pt.steps, size |-> pt.size]
extractTaskInfos(pr) ==
  [i \in 1..Len(pr.tasks) |-> extractSingleTaskInfo(pr.tasks[i], FALSE)]
  \o [i \in 1..Len(pr.finally) |-> extractSingleTaskInfo(pr.finally[i], TRUE)]

(* A parameter of a matrix has a number of values; if it is a single       *)
(* reference, it takes those of the PipelineRun's array parameter.         *)
resolveMatrixValues(matrix, params) ==
  [matrix EXCEPT !.params = [i \in 1..Len(matrix.params) |->
     LET p == matrix.params[i]
     IN  IF p.ref \in DOMAIN params THEN [p EXCEPT !.values = params[p.ref], !.ref = ""] ELSE p]]
matrixExpansionCount(matrix) ==
  IF matrix.params = <<>> /\ matrix.include > 0 THEN matrix.include
  ELSE FoldLeft(LAMBDA n, p : IF p.values > 0 THEN n * p.values ELSE n, 1, matrix.params)

(* The first entry of the layer that is a Task, and the first layer that   *)
(* holds the task.                                                         *)
Failed(size) == [err |-> TRUE, steps |-> <<>>, size |-> size]
extractTask(layer) ==
  LET i == SelectInSeq(layer.entries, LAMBDA e : e.kind = "Task")
  IN  IF i = 0 THEN Failed(layer.size)
      ELSE [err |-> FALSE, steps |-> layer.entries[i].steps, size |-> layer.entries[i].size]
resolveBundle(t, layers, readable) ==
  LET i == SelectInSeq(layers, LAMBDA l : l.kind = "task" /\ t.bundleTask \in {"", l.name})
  IN  IF i = 0 THEN Failed(0)
      ELSE IF readable THEN extractTask(layers[i]) ELSE Failed(layers[i].size)

(* Variant: the padding is not cut to size.                                *)
padScriptUncut(digits, target) ==
  LET base == 25 + digits
      needed == target - (base + 12)
      raw == (needed * 3) \div 4
      padding == 4 * ((raw + 2) \div 3)
  IN  IF target <= base + 12 \/ raw = 0 THEN base ELSE base + 12 + padding
(* The length of the script: "#!/usr/bin/env sh", "sleep n" and "# padding:*)
(* ..." are lines of their own, and the padding is base64 of random bytes. *)
padScript(digits, target) ==
  LET base == 25 + digits
      needed == target - (base + 12)
      raw == (needed * 3) \div 4
      padding == 4 * ((raw + 2) \div 3)
  IN  IF target <= base + 12 \/ raw = 0 THEN base
      ELSE base + 12 + (IF padding > needed THEN needed ELSE padding)

(* A step without a name is named for its place.                           *)
StepName(name, i) == [given |-> name, place |-> IF name = "" THEN i ELSE 0]

(* The steps and the size of the task to generate: those of the bundle,    *)
(* or of the embedded spec, or the defaults.                               *)
Resolved(t) == IF t.name \in DOMAIN results THEN results[t.name] ELSE Failed(0)
Steps(t) == IF t.bundleRef = "" /\ t.steps # <<>> THEN t.steps ELSE Resolved(t).steps
TargetSize(t) ==
  IF t.bundleRef = "" /\ t.steps # <<>> /\ t.size > 0 THEN t.size
  ELSE IF Resolved(t).size > 0 THEN Resolved(t).size ELSE cfg.defaultSize
StepCount(t) ==
  LET n == IF Steps(t) = <<>> THEN cfg.defaultSteps ELSE Len(Steps(t))
  IN  IF n < 1 THEN 1 ELSE n
generatePipelineTask(t, digits) ==
  LET n == StepCount(t)
      per == IF TargetSize(t) \div n < 100 THEN 100 ELSE TargetSize(t) \div n
  IN  [name |-> t.name, runAfter |-> t.runAfter,
       matrix |-> resolveMatrixValues(t.matrix, run.params),
       steps |-> [i \in 1..n |->
         LET known == i <= Len(Steps(t))
         IN  [name |-> StepName(IF known THEN Steps(t)[i].name ELSE "", i),
              script |-> padScript(digits[i], per),
              resources |-> IF cfg.preserve /\ known THEN Steps(t)[i].resources ELSE 0]]]
-----------------------------------------------------------------------------
Init ==
  /\ run \in PipelineRuns /\ cfg \in Settings
  /\ pc = "extract" /\ tasks = <<>> /\ next = 1
  /\ wg = 0 /\ mu = 0 /\ worker = <<>> /\ found = <<>> /\ pulled = {}
  /\ results = [n \in {} |-> Failed(0)]
  /\ report = <<>> /\ out = [tasks |-> <<>>, finally |-> <<>>, overrides |-> <<>>]

(* Without tasks the program exits with an error.                          *)
Extract ==
  /\ pc = "extract"
  /\ tasks' = extractTaskInfos(run)
  /\ worker' = [i \in 1..Len(tasks') |-> "none"]
  /\ found' = [i \in 1..Len(tasks') |-> Failed(0)]
  /\ pc' = IF tasks' = <<>> THEN "exit"
           ELSE IF cfg.skipResolve \/ \A i \in 1..Len(tasks') : tasks'[i].bundleRef = ""
                  THEN "report" ELSE "resolve"
  /\ UNCHANGED <<run, cfg, next, wg, mu, pulled, results, report, out>>

Loop(after) ==
  IF next = Len(tasks) THEN next' = 1 /\ pc' = after ELSE next' = next + 1 /\ UNCHANGED pc

(* Variant: the goroutines count themselves, when they get to run.         *)
SpawnUncounted ==
  /\ pc = "resolve"
  /\ IF tasks[next].bundleRef = "" THEN UNCHANGED <<wg, worker>>
     ELSE wg' = wg /\ worker' = [worker EXCEPT ![next] = "pull"]
  /\ Loop("wait")
  /\ UNCHANGED <<run, cfg, tasks, mu, found, pulled, results, report, out>>
(* resolveBundles: the loop that starts the goroutines.                    *)
Spawn ==
  /\ pc = "resolve"
  /\ IF tasks[next].bundleRef = "" THEN UNCHANGED <<wg, worker>>
     ELSE wg' = wg + 1 /\ worker' = [worker EXCEPT ![next] = "pull"]
  /\ Loop("wait")
  /\ UNCHANGED <<run, cfg, tasks, mu, found, pulled, results, report, out>>

(* Variant: a goroutine that cannot pull its image is done without saying  *)
(* so.                                                                     *)
PullAborting(i) ==
  /\ worker[i] = "pull"
  /\ \/ /\ found' = [found EXCEPT ![i] = resolveBundle(tasks[i], Registry[tasks[i].bundleRef], TRUE)]
        /\ pulled' = pulled \cup {i} /\ worker' = [worker EXCEPT ![i] = "lock"]
     \/ worker' = [worker EXCEPT ![i] = "done"] /\ UNCHANGED <<found, pulled>>
  /\ UNCHANGED <<run, cfg, pc, tasks, next, wg, mu, results, report, out>>
(* The image is pulled, or cannot be, and looked through; the layer with   *)
(* the task may still be unreadable.                                       *)
Pull(i) ==
  /\ worker[i] = "pull"
  /\ \/ \E readable \in BOOLEAN :
          /\ found' = [found EXCEPT ![i] =
               resolveBundle(tasks[i], Registry[tasks[i].bundleRef], readable)]
          /\ pulled' = IF readable THEN pulled \cup {i} ELSE pulled
     \/ UNCHANGED <<found, pulled>>
  /\ worker' = [worker EXCEPT ![i] = "lock"]
  /\ UNCHANGED <<run, cfg, pc, tasks, next, wg, mu, results, report, out>>
Lock(i) ==
  /\ worker[i] = "lock" /\ mu = 0
  /\ mu' = i /\ worker' = [worker EXCEPT ![i] = "store"]
  /\ UNCHANGED <<run, cfg, pc, tasks, next, wg, found, pulled, results, report, out>>

Put(name, r) == [n \in DOMAIN results \cup {name} |-> IF n = name THEN r ELSE results[n]]
(* Variant: the goroutines share the loop variable.                        *)
StoreShared(i) ==
  /\ worker[i] = "store"
  /\ results' = Put(tasks[IF pc = "resolve" THEN next ELSE Len(tasks)].name, found[i])
  /\ mu' = 0 /\ wg' = wg - 1 /\ worker' = [worker EXCEPT ![i] = "done"]
  /\ UNCHANGED <<run, cfg, pc, tasks, next, found, pulled, report, out>>
(* The result is put into the map, mu is unlocked, and Done is deferred.   *)
Store(i) ==
  /\ worker[i] = "store"
  /\ results' = Put(tasks[i].name, found[i])
  /\ mu' = 0 /\ wg' = wg - 1 /\ worker' = [worker EXCEPT ![i] = "done"]
  /\ UNCHANGED <<run, cfg, pc, tasks, next, found, pulled, report, out>>

Wait ==
  /\ pc = "wait" /\ wg = 0
  /\ pc' = "report"
  /\ UNCHANGED <<run, cfg, tasks, next, resolving, report, out>>

(* main prints, for every task, its TaskRuns, steps and size.              *)
Report ==
  /\ pc = "report"
  /\ LET t == tasks[next]
         r == Resolved(t)
         inline == t.name \notin DOMAIN results /\ t.steps # <<>>
     IN  report' = Append(report,
           [runs |-> matrixExpansionCount(resolveMatrixValues(t.matrix, run.params)),
            steps |-> IF ~r.err THEN Len(r.steps)
                      ELSE IF inline THEN Len(t.steps) ELSE cfg.defaultSteps,
            size |-> IF ~r.err \/ r.size > 0 THEN r.size
                     ELSE IF inline THEN t.size ELSE cfg.defaultSize])
  /\ Loop("generate")
  /\ UNCHANGED <<run, cfg, tasks, resolving, out>>

(* generatePipelineRun: tasks, and the taskRunSpecs of the same names,     *)
(* each the steps it overrides; one without steps overrides the task.      *)
Generate ==
  /\ pc = "generate"
  /\ \E digits \in [1..StepCount(tasks[next]) -> SleepDigits] :
       LET t == tasks[next]
           pt == <<generatePipelineTask(t, digits)>>
           forwarded == cfg.preserve /\ t.name \in DOMAIN run.overrides
       IN  out' = [tasks |-> out.tasks \o (IF t.finally THEN <<>> ELSE pt),
                   finally |-> out.finally \o (IF t.finally THEN pt ELSE <<>>),
                   overrides |-> out.overrides \o
                     (IF forwarded THEN <<[task |-> t.name, steps |-> run.overrides[t.name]]>>
                                   ELSE <<>>)]
  /\ Loop("write")
  /\ UNCHANGED <<run, cfg, tasks, resolving, report>>

(* The file is written, or the program exits with an error.                *)
Write ==
  /\ pc = "write"
  /\ pc' \in {"done", "exit"}
  /\ UNCHANGED <<run, cfg, tasks, next, resolving, report, out>>

Main == Extract \/ Spawn \/ Wait \/ Report \/ Generate \/ Write
Goroutine(i) == Pull(i) \/ Lock(i) \/ Store(i)
Next == Main \/ \E i \in 1..Len(tasks) : Goroutine(i)

Spec == Init /\ [][Next]_vars
FairSpec == Spec /\ WF_vars(Next)
-----------------------------------------------------------------------------
(* The variables keep to their types; the WaitGroup's counter, which may   *)
(* not become negative, counts the goroutines under way, and the mutex is  *)
(* held by the one that writes the map.                                    *)
TypeOK ==
  /\ pc \in {"extract", "resolve", "wait", "report", "generate", "write", "done", "exit"}
  /\ next \in 1..Len(tasks) \cup {1}
  /\ wg = Cardinality({i \in DOMAIN worker : worker[i] \in {"pull", "lock", "store"}})
  /\ mu \in {0} \cup {i \in DOMAIN worker : worker[i] = "store"}
  /\ DOMAIN results \subseteq {tasks[i].name : i \in 1..Len(tasks)}

(* The map of results is not read by main, nor written by another          *)
(* goroutine, while one is writing it or has yet to.                       *)
NoMapRace ==
  /\ \A i, j \in DOMAIN worker : worker[i] = "store" /\ worker[j] = "store" => i = j
  /\ pc \in {"report", "generate", "write"} =>
       \A i \in DOMAIN worker : worker[i] \in {"none", "done"}

(* The steps of the real task, none if they cannot be had: of the Task     *)
(* that the bundle holds under the name asked for, of its first one when   *)
(* no name is given, or of the spec.                                       *)
Held(t) == SelectSeq(Registry[t.bundleRef],
  LAMBDA l : l.kind = "task" /\ (t.bundleTask = "" \/ l.name = t.bundleTask))
Original(i) ==
  LET t == tasks[i]
  IN  IF t.bundleRef = "" THEN t.steps
      ELSE IF i \notin pulled \/ Held(t) = <<>> \/ Held(t)[1].entries[1].kind # "Task" THEN <<>>
      ELSE Held(t)[1].entries[1].steps
(* There is no task without a step.                                        *)
StepsByDefault == IF cfg.defaultSteps < 1 THEN 1 ELSE cfg.defaultSteps
Generated(i) == (out.tasks \o out.finally)[i]

(* README: "a PipelineRun where each task has the same number of steps as  *)
(* the real task (with real step names)" and preserved runAfter: in the    *)
(* order of the input, whichever order the goroutines finish in and        *)
(* whichever of them fail; with preserveResources, the resources of every  *)
(* step too.  Where the real task is not to be had, or has no steps, the   *)
(* default number.                                                         *)
LooksLikeInput ==
  pc = "done" =>
    /\ Len(out.tasks) = Len(run.tasks) /\ Len(out.finally) = Len(run.finally)
    /\ \A i \in 1..Len(tasks) :
         LET pt == Generated(i)
         IN  /\ pt.name = tasks[i].name /\ pt.runAfter = tasks[i].runAfter
             /\ IF Original(i) = <<>> THEN Len(pt.steps) = StepsByDefault
                ELSE /\ Len(pt.steps) = Len(Original(i))
                     /\ \A k \in 1..Len(pt.steps) :
                          /\ pt.steps[k].name = StepName(Original(i)[k].name, k)
                          /\ cfg.preserve => pt.steps[k].resources = Original(i)[k].resources

(* What main prints of a task is what it writes: as many steps, but for    *)
(* the default number where it prints none, and as many TaskRuns as the    *)
(* generated matrix has combinations of values, parameters without any     *)
(* left out, or include entries; and the scripts are as large as printed,  *)
(* up to the rounding (a byte for the division and one for the encoding of *)
(* each step) and to 100 bytes for each step.                              *)
Combinations(params) ==
  {f \in [1..Len(params) -> UNION {1..params[k].values : k \in 1..Len(params)}] :
     \A k \in 1..Len(params) : f[k] <= params[k].values}
ReportIsTrue ==
  pc = "done" => \A i \in 1..Len(tasks) :
    LET pt == Generated(i)
        n == Len(pt.steps)
        total == FoldLeft(LAMBDA sum, s : sum + s.script, 0, pt.steps)
        filled == SelectSeq(pt.matrix.params, LAMBDA p : p.values > 0)
    IN  /\ report[i].steps = n \/ (report[i].steps = 0 /\ n = StepsByDefault)
        /\ report[i].runs = IF pt.matrix.params = <<>> /\ pt.matrix.include > 0
                              THEN pt.matrix.include ELSE Cardinality(Combinations(filled))
        /\ total + 2 * n > report[i].size
        /\ total <= report[i].size \/ \A k \in 1..n : pt.steps[k].script \in {99, 100}

(* The program comes to its end, whichever bundles cannot be pulled.       *)
Terminates == <>(pc \in {"done", "exit"})

(* The comment at matrixExpansionCount: it "returns the number of TaskRuns *)
(* that the matrix will fan out into".                                     *)
RunsAreCombinations ==
  pc = "done" => \A i \in 1..Len(tasks) :
    Generated(i).matrix.params # <<>> =>
      report[i].runs = Cardinality(Combinations(Generated(i).matrix.params))

(* The comment at generatePipelineRun: taskRunSpecs are forwarded "so that *)
(* per-task and per-step compute resource overrides are preserved": an     *)
(* override of a step the real task has is one of a step of the generated  *)
(* task.                                                                   *)
OverridesPreserved ==
  pc = "done" => \A k \in 1..Len(out.overrides) : \A i \in 1..Len(tasks) :
    tasks[i].name = out.overrides[k].task =>
      \A s \in out.overrides[k].steps :
        \E j \in 1..Len(Generated(i).steps) : Generated(i).steps[j].name.given = s
=============================================================================
