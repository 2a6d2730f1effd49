------------------------ MODULE MCLoadTestGenerator ------------------------
(* Instances of LoadTestGenerator for TLC.                                 *)
EXTENDS LoadTestGenerator

Step(name, resources) == [name |-> name, resources |-> resources]
NoMatrix == [params |-> <<>>, include |-> 0]
Platforms ==
  [params |-> <<[name |-> "platform", values |-> 1, ref |-> "platforms"],
                [name |-> "mode", values |-> 2, ref |-> ""]>>, include |-> 0]
Included == [params |-> <<>>, include |-> 3]
Task(name, bundle, task, after, matrix) ==
  [name |-> name, resolver |-> "bundles", bundle |-> bundle, task |-> task, runAfter |-> after,
   matrix |-> matrix, steps |-> <<>>, size |-> 0]
Embedded(name, resolver, steps, size, matrix) ==
  [name |-> name, resolver |-> resolver, bundle |-> "", task |-> "", runAfter |-> {},
   matrix |-> matrix, steps |-> steps, size |-> size]

(* A bundle with two tasks after something else, one with a single task    *)
(* that does not parse, one whose task has no steps, and one without the   *)
(* task asked for.                                                         *)
Entry(kind, steps, size) == [kind |-> kind, steps |-> steps, size |-> size]
Layer(kind, name, size, entries) ==
  [kind |-> kind, name |-> name, size |-> size, entries |-> entries]
MCRegistry ==
  "two" :> <<Layer("pipeline", "build", 90, <<Entry("Pipeline", <<>>, 90)>>),
             Layer("task", "clone", 60, <<Entry("Task", <<Step("clone", 1)>>, 331)>>),
             Layer("task", "build", 80, <<Entry("Task", <<Step("compile", 2), Step("", 3),
                                                          Step("push", 1)>>, 1002)>>)>>
  @@ "broken" :> <<Layer("task", "scan", 150, <<Entry("Text", <<>>, 700)>>)>>
  @@ "stepless" :> <<Layer("task", "noop", 40, <<Entry("Task", <<>>, 210)>>)>>
  @@ "empty" :> <<>>

Build ==
  [tasks |-> <<Task("clone", "two", "clone", {}, NoMatrix),
               Task("build", "two", "build", {"clone"}, Platforms)>>,
   finally |-> <<Task("scan", "broken", "scan", {}, Included),
                 Embedded("notify", "", <<Step("", 2), Step("mail", 0)>>, 420, NoMatrix)>>,
   params |-> "platforms" :> 3, overrides |-> "build" :> {"compile"}]
Local ==
  [tasks |-> <<Embedded("first", "git", <<>>, 0, Included), Task("second", "empty", "any", {"first"}, Platforms)>>,
   finally |-> <<>>, params |-> "other" :> 2, overrides |-> "first" :> {}]
Unusual ==
  [tasks |-> <<Task("noop", "stepless", "noop", {}, Platforms),
               Task("unnamed", "two", "", {"noop"}, NoMatrix)>>,
   finally |-> <<>>, params |-> "platforms" :> 0, overrides |-> "noop" :> {}]
Empty == [tasks |-> <<>>, finally |-> <<>>, params |-> "other" :> 2, overrides |-> "first" :> {}]

Flags(skip, preserve, steps) ==
  [skipResolve |-> skip, defaultSteps |-> steps, defaultSize |-> 1024, preserve |-> preserve]
MCPipelineRuns == {Build, Local, Unusual, Empty}
MCSettings == {Flags(skip, preserve, steps) : skip, preserve \in BOOLEAN, steps \in {0, 3}}
=============================================================================
