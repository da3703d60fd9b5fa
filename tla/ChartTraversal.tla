--------------------------- MODULE ChartTraversal ---------------------------
(***************************************************************************)
(* The charts of one sync document (cmd/hauler/cli/store/add.go):          *)
(* traverseChartLevels walks the dependencies breadth first, one errgroup  *)
(* per level, fetchChart stores a chart and reports the images it renders  *)
(* and the charts it depends on.  A dependency with a file:// repository   *)
(* is read from the directory its parent was expanded into.                *)
(***************************************************************************)
EXTENDS Naturals, Sequences, FiniteSets, SequencesExt

CONSTANTS
  Chart,            \* name, repository and version of a chart
  Deps,             \* the charts a chart depends on
  Inside,           \* those that are named by a file:// repository
  Images,           \* the images a chart renders, with its dependencies
  ImageRef,         \* image references
  MaxChartDepth,    \* levels that are walked
  ChartConcurrency  \* --concurrency

(* A chart of the manifest, or one found in another: dir is the expansion  *)
(* a file:// chart is read from, 0 for all others, and within the file://  *)
(* charts it lies in there, outermost first.                               *)
ChartJob == [chart : Chart, dir : Nat, within : Seq(Chart), addImages : BOOLEAN, addDeps : BOOLEAN]

ASSUME ChartAssumption ==
  /\ Deps \in [Chart -> SUBSET Chart]
  /\ Inside \subseteq Chart
  /\ Images \in [Chart -> SUBSET ImageRef]
  /\ \A c \in Chart : IsFiniteSet(Deps[c]) /\ IsFiniteSet(Images[c])
  /\ MaxChartDepth \in Nat \ {0}
  /\ ChartConcurrency \in Nat \ {0}

VARIABLES
  level,     \* the jobs of the level
  at,        \* where each of them is
  depth,     \* levels walked so far
  seen,      \* the keys scheduled so far
  deps,      \* dependency jobs found in this level, in the order found
  images,    \* images found so far, in the order found
  walkErr,   \* the error that broke the walk off
  live,      \* the expansions under tempRoot
  dirs,      \* how many were made
  fetched,   \* the jobs whose fetch returned no error, with their expansions
             \* and whether they were fetched in full
  charts     \* the charts in the store

walkVars == <<level, at, depth, seen, deps, images, walkErr, live, dirs, fetched, charts>>

(* chartJobKey: a file:// chart is named by its path.                      *)
ChartKey(j) == <<j.chart, j.dir, j.within>>

WalkTypeOK ==
  /\ \A i \in DOMAIN level : level[i] \in ChartJob
  /\ DOMAIN at = DOMAIN level
  /\ \A i \in DOMAIN at : at[i] \in {"queued", "load", "add", "expand", "done", "failed"}
  /\ depth \in 0..MaxChartDepth
  /\ seen \subseteq Chart \X Nat \X Seq(Chart)
  /\ \A i \in DOMAIN deps : deps[i] \in ChartJob
  /\ \A i \in DOMAIN images : images[i] \in ImageRef
  /\ walkErr \in BOOLEAN
  /\ dirs \in Nat /\ live \subseteq 1..dirs
  /\ \A f \in fetched : f.job \in ChartJob /\ f.dir \in 0..dirs /\ f.full \in BOOLEAN
  /\ charts \subseteq Chart

WalkInit ==
  /\ level = <<>> /\ at = <<>>
  /\ depth = 0
  /\ seen = {}
  /\ deps = <<>> /\ images = <<>>
  /\ walkErr = FALSE
  /\ live = {} /\ dirs = 0
  /\ fetched = {}
  /\ charts = {}

-----------------------------------------------------------------------------
Level(js) ==
  /\ level' = js
  /\ at' = [i \in DOMAIN js |-> "queued"]

(* runChartJobs: every chart of the manifest is scheduled, also twice.     *)
WalkStart(js) ==
  /\ Level(js)
  /\ depth' = 0
  /\ seen' = {ChartKey(js[i]) : i \in DOMAIN js}
  /\ deps' = <<>> /\ images' = <<>>
  /\ walkErr' = FALSE
  /\ fetched' = {}
  /\ UNCHANGED <<live, dirs, charts>>

IsAt(i, place) == i \in DOMAIN at /\ at[i] = place
Busy == {i \in DOMAIN at : at[i] \in {"load", "add", "expand"}}

Moves(i, place) ==
  /\ at' = [at EXCEPT ![i] = place]
  /\ walkErr' = (walkErr \/ place = "failed")

(* g.Go starts the next job of the level.  A job that starts after the     *)
(* context was cancelled gives up at once.                                 *)
GoChart(i) ==
  /\ IsAt(i, "queued")
  /\ \A k \in 1..(i - 1) : ~IsAt(k, "queued")
  /\ Cardinality(Busy) < ChartConcurrency /\ depth < MaxChartDepth
  /\ Moves(i, IF walkErr THEN "failed" ELSE "load")
  /\ UNCHANGED <<level, depth, seen, deps, images, live, dirs, fetched, charts>>

Readable(j) == j.chart \in Inside => j.dir \in live

(* NewChart and Load, which locate or download the chart; an error of      *)
(* theirs is not ignored.                                                  *)
LoadChart(i) ==
  /\ IsAt(i, "load")
  /\ \/ Readable(level[i]) /\ Moves(i, "add")
     \/ Moves(i, "failed")
  /\ UNCHANGED <<level, depth, seen, deps, images, live, dirs, fetched, charts>>

(* AddArtifact, with its retries.  What is given up with --ignore-errors   *)
(* counts as fetched and has found nothing.                                *)
AddChart(i, ignore) ==
  /\ IsAt(i, "add")
  /\ \/ /\ charts' = charts \cup {level[i].chart}
        /\ Moves(i, "expand")
        /\ UNCHANGED fetched
     \/ /\ ignore
        /\ Moves(i, "done")
        /\ fetched' = fetched \cup {[job |-> level[i], dir |-> 0, full |-> FALSE]}
        /\ UNCHANGED charts
     \/ /\ ~ignore
        /\ Moves(i, "failed")
        /\ UNCHANGED <<charts, fetched>>
  /\ UNCHANGED <<level, depth, seen, deps, images, live, dirs>>

(* The directory its dependencies are read from: a new expansion for a     *)
(* chart from a repository, its own directory for a file:// chart.         *)
DirOf(i) == IF level[i].chart \in Inside THEN level[i].dir ELSE dirs + 1

(* A dependency of the job j, whose chart was read from dir.               *)
Dependency(c, j, dir) ==
  [chart |-> c, dir |-> IF c \in Inside THEN dir ELSE 0,
   within |-> IF {c, j.chart} \subseteq Inside THEN Append(j.within, j.chart) ELSE <<>>,
   addImages |-> FALSE, addDeps |-> TRUE]

(* The rest of fetchChart: annotation, rewrite, expansion, rendering; an   *)
(* error is not ignored.  Images are looked for in charts of the manifest  *)
(* only, and not all are found when templates do not render or a registry  *)
(* does not fit; dependencies inherit addDeps.  What is found is appended. *)
Expands(i, alive, before) ==
  /\ IsAt(i, "expand")
  /\ \/ /\ Moves(i, "done")
        /\ dirs' = IF level[i].chart \in Inside THEN dirs ELSE dirs + 1
        /\ live' = alive
        /\ \E some \in SUBSET (IF level[i].addImages THEN Images[level[i].chart] ELSE {}) :
             \E found \in SetToSeqs(some) : images' = images \o found
        /\ \E found \in SetToSeqs(IF level[i].addDeps THEN Deps[level[i].chart] ELSE {}) :
             deps' = before \o [k \in DOMAIN found |-> Dependency(found[k], level[i], DirOf(i))]
        /\ fetched' = fetched \cup {[job |-> level[i], dir |-> DirOf(i), full |-> TRUE]}
     \/ /\ Moves(i, "failed")
        /\ UNCHANGED <<deps, images, live, dirs, fetched>>
  /\ UNCHANGED <<level, depth, seen, charts>>

(* Mutant: each chart's expansion is removed when fetchChart returns.      *)
ExpandLocally(i) == Expands(i, live, deps)

(* Mutant: what a level finds is collected without the lock.               *)
ExpandRacy(i) == Expands(i, live \cup (dirs + 1)..dirs', <<>>)

(* An expansion stays under tempRoot until the walk is over.               *)
Expand(i) == Expands(i, live \cup (dirs + 1)..dirs', deps)

(* Mutant: a key is taken as seen when its chart is fetched, so siblings   *)
(* schedule a dependency they share twice.                                 *)
NextLevelLate ==
  /\ level # <<>> /\ ~walkErr /\ depth < MaxChartDepth
  /\ \A i \in DOMAIN at : at[i] = "done"
  /\ LET next == SelectSeq(deps, LAMBDA j : ChartKey(j) \notin seen)
     IN /\ Level(next)
        /\ seen' = seen \cup {ChartKey(next[i]) : i \in DOMAIN next}
  /\ deps' = <<>>
  /\ depth' = depth + 1
  /\ UNCHANGED <<images, walkErr, live, dirs, fetched, charts>>

(* The elements of a set of numbers, in order.                             *)
InOrder(S) == {f \in SetToSeqs(S) : \A i, k \in DOMAIN f : i < k => f[i] < f[k]}

(* The level's g.Wait: the next level is what was found and not seen, each *)
(* key once.                                                               *)
NextLevel ==
  /\ level # <<>> /\ ~walkErr /\ depth < MaxChartDepth
  /\ \A i \in DOMAIN at : at[i] = "done"
  /\ LET first(i) == \A k \in 1..(i - 1) : ChartKey(deps[k]) # ChartKey(deps[i])
         next     == {i \in DOMAIN deps : ChartKey(deps[i]) \notin seen /\ first(i)}
     IN /\ \E order \in InOrder(next) : Level([i \in DOMAIN order |-> deps[order[i]]])
        /\ seen' = seen \cup {ChartKey(deps[i]) : i \in next}
  /\ deps' = <<>>
  /\ depth' = depth + 1
  /\ UNCHANGED <<images, walkErr, live, dirs, fetched, charts>>

(* The walk is over: nothing left, too deep, or broken off.                *)
Walked == level = <<>> \/ depth = MaxChartDepth
BrokenOff == walkErr /\ \A i \in DOMAIN at : at[i] \in {"done", "failed"}

(* runChartJobs returns: tempRoot is removed, its variables are gone.      *)
WalkEnd ==
  /\ Level(<<>>)
  /\ depth' = 0
  /\ seen' = {} /\ fetched' = {}
  /\ deps' = <<>> /\ images' = <<>>
  /\ walkErr' = FALSE
  /\ live' = {} /\ dirs' = 0
  /\ UNCHANGED charts

ChartStep(i, ignore) == LoadChart(i) \/ AddChart(i, ignore) \/ Expand(i)

(* dedupeImageJobs keeps the first of each image: the one list it returns. *)
Deduped ==
  LET first(i) == \A k \in 1..(i - 1) : images[k] # images[i]
  IN {[i \in DOMAIN order |-> images[order[i]]] :
        order \in InOrder({i \in DOMAIN images : first(i)})}

-----------------------------------------------------------------------------
(* A dependency is scheduled once however many charts share it, and in     *)
(* however many levels: jobs with one key run twice only if the manifest   *)
(* lists the chart twice.                                                  *)
ScheduledOnce ==
  depth > 0 => /\ \A i, k \in DOMAIN level : ChartKey(level[i]) = ChartKey(level[k]) => i = k
               /\ \A i \in DOMAIN level : at[i] = "queued" =>
                    \A f \in fetched : ChartKey(f.job) # ChartKey(level[i])

(* The expansion a file:// dependency is read from is there when a later   *)
(* level reads it.                                                         *)
FileDepsReadable == \A i \in DOMAIN level : at[i] \in {"queued", "load"} => Readable(level[i])

(* A walk that is over without an error has fetched, or with               *)
(* --ignore-errors given up, every dependency of every chart it fetched    *)
(* with its dependencies -- cycles, shared dependencies and file:// charts *)
(* included -- unless it stopped at MaxChartDepth.                         *)
TreeComplete ==
  level = <<>> /\ ~walkErr /\ depth < MaxChartDepth =>
    \A f \in fetched : f.job.addDeps /\ f.full =>
      \A c \in Deps[f.job.chart] :
        \E g \in fetched : ChartKey(g.job) = ChartKey(Dependency(c, f.job, f.dir))
=============================================================================
