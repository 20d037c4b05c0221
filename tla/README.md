# A verification development of the multi-threaded global router

The repository (`src/src/`, C++17) is a global router in the CUGR tradition, made
parallel on two levels: the chip is cut into areas that are routed by one thread
each, and inside an area the nets are routed in batches by a pool of threads. It
has no tests. This directory holds TLA+ models of the parts whose correctness
depends on order, concurrency or bookkeeping, TLC runs that check them on small
instances, and TLAPS proofs that hold for every instance.

## 1. Inventory

| Component | State it keeps | Operations | What makes it correct |
|---|---|---|---|
| Job pool, `runJobsMT` (`gr/GlobalRouter.cpp:934`, the same in `par/Par.cpp:204`) | counter `globalJobIdx` under a mutex, the threads | draw an index, run `handle`, spawn, join | every job runs once and has ended when the call returns |
| Batch scheduler, `getBatches`, `Scheduler::scheduleOrderEq` (`multithread/Scheduler.cpp`) | batches so far, `assigned`, the R-tree of the open batch, `lastUnroute`, `lastMetric` | open a batch from a seed, scan, place or skip, find the next seed | nets of a batch do not meet; the list's order is kept; every net is placed |
| Grid graph (`gr/GridGraph.cpp`) | capacity and demand of every edge, totals | commit / rip up a tree, check overflow, extract and update 2D views | demand is the sum of the committed trees; views agree with the demands |
| Area router, `GlobalRouter::route_multi` (`gr/GlobalRouter.cpp:1005`) | nets with their routing trees, list of overflowing nets, views | stage 1 (pattern), stage 2 (rip up, detours), stage 3 (maze), checks in between | see grid graph; lists and views are not stale; every net gets a tree; it ends |
| Pattern routing (`gr/PatternRoute.cpp`) | Steiner tree, routing DAG, scaffolds, detours, costs | choose access points, build tree and DAG, find congested trunks, copy them for each shift, dynamic programming, extract tree | no pin lost in the tree or behind a detour; every congested trunk found; cheapest layer assignment of the DAG; a tree over all pins |
| Maze routing (`gr/MazeRoute.cpp`) | sparse graph, priority queue, solutions | best-first search pin by pin | connects all pins, cheapest paths |
| Net partition (`par/Par.cpp:237`, `par/Hypergraph.hpp`) | pin and net hypergraph, area of each pin | normalise, choose the cut, split the nets | local and cross nets together connect all the pins of a net |
| Area threads (`main.cpp`) | result maps, merged grid graph, FLUTE mutex | route each area, merge, route cross nets, write | every area's result is merged once; FLUTE is never entered twice |
| Parser and parameters (`obj/`, `utils/parameters.*`) | tables of the input | read | plain sequential input |
| Guide output (`gr/GlobalRouter.cpp:1391`) | - | `getGuide`, `write` | the guides of a net touch one another and its pins |
| GPU maze router (`gamer/`, `gr/GPUMazeRoute.*`; CMake option `ENABLE_CUDA`) | demands, routes, costs and distances on the device | rip up all, then per net: guides from a coarse route, fine route in the guides, commit; apply to the host | a sweep finds the shortest ways whatever the threads' order; demands of the device and trees of the host stay exact when a net fails |

Interactions: `main` partitions the nets, runs one `GlobalRouter` per area through
`Par::runJobsMT`, merges the grid graphs and runs one more router over the cross nets.
A router calls `getBatches` (which calls `runJobsMT` and the scheduler), then one
`runJobsMT` per batch; each job builds a tree and commits it to the grid graph that all
jobs of the area share. The only locks are the pool's counter mutex and `areamtx`, which
guards FLUTE. `demand += d` (`GridGraph.cpp:374`) has none: the batches are supposed to
keep the writers apart. With CUDA, stage 3 hands all overflowing nets to `GPUMazeRoute`,
which keeps demands of its own, and applies its routes to the host's trees at the end.

What is hard: the draw/join protocol of the pool; the scheduler's three nested loops with
their `lastMetric` cut-off; the unlocked updates, at the border of bounding boxes and when
detours leave them; rip-up against commit; lists and views that must be recomputed at the
right moment; detours, which copy parts of a DAG that other detours have already changed; the
kernels, whose threads update one row in place; the device's view of a net that failed.
`PROJECT.json` lists each hazard at its line.

## 2. Modules and the code they model

| Module | Source | State and actions |
|---|---|---|
| `ParallelFor` | what the callers of `runJobsMT` rely on | each job goes from waiting to running to done, in any order; the call returns when all are done |
| `JobPool` | `runJobsMT` | `mainPc`/`i` are the caller (spawn, join, or the plain loop when `numThreads <= 1`), `pc`/`jobIdx` the threads. `jobIdx = globalJobIdx++` is `Load` and `Store` between `Lock` and `Unlock`; `Break` is the exit test, `Handle`/`Handled` the job |
| `BatchScheduler` | `getBatches`, `scheduleOrderEq`, `hasConflict`, `updateSet` | `NewBatch` opens a batch with the seed; `ScanAssigned`, `ScanBreak`, `ScanConflict`, `ScanPlace`, `ScanEnd` are the paths through the inner loop; `SeedAssigned`, `SeedFound` the search for the next seed; `SingleBatch` the one-thread shortcut. The R-tree is the set of nets in it |
| `GridGraph` | `commitTree` and what it calls, `checkOverflow`, `extractWireCostView`, `updateWireCostView` | operators only: the updates (edge by edge, with the half-track updates of vias) a tree makes, and the view cells they invalidate |
| `AreaRouter` | `route_multi` | stages 1 and 2: `PickBatch` (any set of nets that meet the scheduler's contract), then per job `RipUp`, `RunPattern` or `RunDetours`, and `Load`/`Store` for each update of a demand, `BatchJoined`; `CheckPatterns`, `CheckDetours`, `CheckMaze` are the overflow checks; stage 3 is `RipUpForMaze`, `ExtractView`, `MazeRoute` |
| `NetPartition` | `cross_cut`, `parNets` | `CrossCut` gives each location one of four areas through the quadrant tests as they are written; then one action per kind of net: `SinglePinNet`, `OneAreaNet`, `CrossNet` |
| `AreaThreads` | `main`, the FLUTE sections of `route_multi` | routers 0 .. `AreaThreads - 1` and the cross router. Lookup, lock, table, tree, and the two map insertions are two-step (`InsertNets`, `NetsInserted`), so that two threads can be inside one; `Join`, `Merge`, `Write` are main's |
| `SparseGraph` | `SparseGraph::init` | operators only: from pins, grid and wire costs to vertices and edges |
| `MazeSearch` | `MazeRoute::run`, `getSteinerTree` | `Search` takes a cheapest solution from the queue: it is pruned, expanded, or reaches a pin, whose path becomes a new source. The tree is a function of the paths found |
| `PatternDag` | `constructRoutingDAG`, `constructPaths` | operators only: Steiner nodes become DAG nodes, a bent edge gets both its corners |
| `SteinerTree` | `selectAccessPoints`, `constructSteinerTree` | operators only: `Branches` is any tree of least length FLUTE may return, with its Steiner points anywhere, on pins and on each other; `SteinerTree` merges coincident points and roots the tree |
| `DetourDag` | `constructDetours` | `ConstructTree`, `BuildScaffolds`, `NextTrunk`, then the shift window (`DetourShift`) and one `BuildDetour` per shift, which adds a copy of the trunk to the DAG as it is by then; `TrunkDone` |
| `SweepScan` | `sweepWireGlobal` (`gamer/GuidedGamer.cu`), `calculateWireCostSum*` (`gamer/BasicGamer2D.cu`) | one block: `SweepStep(t)` and `SumStep(t)` are one turn of thread `t` through the inner loop, `Sync` is `__syncthreads()`, `Store` the last loop |
| `WirePacking` | `GuidedGamer::setGuide2D` (lines 425-468), `packWireToRows` | operators only: `PackPlan` gives each wire its offset (`PlaceLong`, `PlaceShort`), `CellAt` and `CostAt` what the kernel writes to the rows, `Blocks` the parts of the rows the sweep kernels are started for |
| `Gamer` | `BasicGamer2D::route`, `GuidedGamer::route` and their kernels but for the scan | operators only: rounds of sweeps, the nearest pin, the traced path; a sweep is what `SweepScan` shows it to be |
| `GPURouter` | `GPUMazeRouter`, `GridScaler2D`, `Grid2DExtractor`, `GPUMazeRoute::run` | `RipUp` (all nets in one kernel), then per net `Prepare` (access points, guides, order of the pins), `RoutePin`, `CommitNet`; `MarkOverflow`, `Apply` per net of the list, `Write` |
| `GuideOutput` | `getGuide`, `write` | operators only: a tree's guides and the lines they are printed as |
| `PatternDP` | `calculateRoutingCosts`, `getRoutingTree` | `stack` holds the recursive calls; `Descend` is a call, `Calculate` the rest of one, `GetRoutingTree` the tree |
| `DetourShift` | `constructDetours`, lines 586-669 | one action per loop: `Lower`, `Raise`, `Coarsen`, `Align`, `Shift`; `Close` ends a trunk |

How they compose: `JobPool` is shown to implement `ParallelFor` (an `INSTANCE` with a
refinement mapping, checked and proved). `AreaRouter` uses the two contracts instead of the
two implementations: a batch is any set of pairwise disjoint nets (`ConflictFree` of
`BatchScheduler`), its jobs run as `ParallelFor` allows. It extends `GridGraph`.
`AreaThreads` treats a router between two FLUTE sections as one step, because routers of
different areas share nothing else. `MCMazeSearch` builds the graphs it searches with
`SparseGraph`. `PatternDP` and `DetourDag` both work on the DAG of `PatternDag`, and `DetourDag`
extends `SteinerTree` and `DetourShift`: tree, DAG, window and copies are one pipeline.
`GPURouter` extends `Gamer` and, through `GuideOutput`, `GridGraph`: it is the composition from
the overflow check on the device through the trees and demands of the host to the guide file.

## 3. What the runs check

Every property is broken by a plausible bug in a mapped definition (the `mutants` of
`PROJECT.json`, the operators commented `mutant` in the modules). Each proof module proves its
module's type invariant; the runs are kept for what could be wrong.

| Run | Instance | What it shows |
|---|---|---|
| `job_pool` | 0-4 jobs, 0-3 threads | refinement of `ParallelFor` with its liveness: each job runs once (a second entry has no state in the contract), all have ended at return, and it returns (that the first two hold for every instance is proved). Covers no job, one job, fewer jobs than threads, and threads that draw twice |
| `batch_scheduler` | all lists of up to 4 of 7 boxes, 1 or 4 threads | batches are conflict-free; no net overtakes a smaller earlier one it should wait for; every net placed, no empty batch; it ends. Four nets are what two batches with a blocked and a skipped net in one scan need; lists are in any order, as with `ENABLE_ISSSORT` |
| `area_router` | 5 layers, 3 x 2 cells, 3 nets (two concurrent) with two candidate trees each, two capacities | after stage 1 every net has a tree (`EveryNetRouted`); demands equal the trees' unless two jobs were in one update at once (`DemandExact`); in stage 1 that happens only on an edge between two boxes, through vias (`StageOneRaces`); a net not on the list to be rerouted did not overflow when the list was made (`UnlistedNetsFit`); stage 3's view agrees with the demands (`ViewFresh`); it ends |
| `net_partition` | 1-2 nets of 1-4 pins over 3 locations, one with two layers, all cuts | the parts connect the pins, form a tree, stay in their areas; no single-pin net reaches a router. Three locations give every pattern of areas with one, two or three pins |
| `area_threads` | 3 threads, 2 nets; nets in all areas, in some, without cross nets | FLUTE guarded by its mutex; `par_nets[i]` only collides when an area is empty; unless a map was raced on, every net of a router is merged and written; it ends |
| `maze_search` | 1-4 pins on a 3 x 2 chip, both grid offsets, one congested edge or none | each step connects a nearest pin at least cost; the queue lasts; the tree made of the paths spans the pins: straight edges, every pin on a node that has its layers; it ends |
| `pattern_dp` | 1920 nets on 4 layers: five shapes of Steiner tree, unit costs 1-2, via costs 1-3, a congested line or none | the dynamic programming equals a brute-force minimum over all layer and L-shape choices; the tree has that cost; it visits each Steiner node once and its vias meet every pin and wire. A fork of two bends is the smallest net whose children compete for one stack of vias |
| `detours` | nets of 1-4 points on the lines 0, 3 and 6 of a 7 x 7 grid, every least tree for them, up to three congested stretches or many, target 3 | the Steiner tree keeps every pin and its layers whichever pin is the root (`SteinerTreeKeepsPins`); every path from the root through the DAG, over any choice of detours, meets every pin (`PinsReached`); every congested trunk is a trunk of one scaffold (`TrunksFound`); the number of shifts is between one and two times the target where the step was made coarser, never more than twice, evenly spaced and in the grid (`DetoursOnTarget`). 120,604 states, half a minute. Four points give a trunk with stems on both sides and two trunks in one tree; the target of 3 (the code's 20 needs 40 lines) lets the step reach 2 |
| `sweep_scan` | blocks of 2 threads, rows of 4 entries into which up to three wires of 1-3 cells are packed, also on layer 0 and beside a long wire, long wires of 5-7 cells, all distances in {0, 2, Infinity} | a sweep leaves the shortest distance of every cell and the cell it comes from (`SweepIsShortest`), no two threads touch an entry one of them writes (`RaceFree`), sums are right where half a row fits a block (`SumsExact`), every wire has its cells in one row in order no path leads from one wire into another, and a wire above layer 0 is reached whole or not at all (`WiresStayApart`). 99,844 states, 40 seconds; the rows that are summed have 1-7 cells. Seven cells are three rounds and two passes of a round for two threads; three wires of up to three cells fill rows exactly, leave gaps, and begin new ones (the code's row has 1024 entries and a block half as many threads) |
| `gpu_router` | two or three nets of 2-3 pins on 3 layers of 6 x 5 cells, scales 2 and 3 (the second leaves a narrower last row of coarse cells), margin 1, 4 coarse and 4 fine turns | guides hold the pins and the fine route starts where the coarse one does (`PinsOnGuides`); every pin ends a route, so the root is found (`PinsEndRoutes`); the device's demands are those of its routes (`DeviceDemandExact`); the host's trees join all pins, and its demands are their sum, even if a net fails (`HostTreesJoinPins`); the guides written touch (`GuidesTouch`). 2,244 states, about a minute. The code's 9 turns never fail on a grid this small: with 4 some net cannot be routed |
| `stage_two_demand` (violation) | as `area_router` | a lost update in stage 2, see 6 |
| `long_stems` (violation) | as `detours` | the window opens too far, see 6 |

No run needs a bound on a counter: every loop is bounded by its input. `Infinity = 1000` in
`pattern_dp` stands for the largest double, and `Infinity` of the GPU runs for
`INFINITY_DISTANCE`; each is above every cost of its instance. Deadlock is checked
everywhere; a module's last disjunct (`Returned`, `Finished`) stutters when the call has
returned. No symmetry is used.

**Fairness.** All liveness is under weak fairness of the steps of a running thread, which is
what the operating system's scheduler gives: of any step of the job pool's caller or threads; `WF(Step)` for the sequential scheduler, the area
router's control and the maze search; `WF` of main and of each router in `AreaThreads`. A fair
mutex is not assumed: a thread waits for `areamtx` only while another holds it, and each
router takes it a bounded number of times, so weak fairness of the others' steps is enough.

## 4. What is proved

Every theorem is checked by TLAPS for all values of the constants that satisfy the modules'
`ASSUME`s. Each proof module defines `IInv`, proves `Init => IInv`, and that each action
preserves it, one step per action.

- `JobPoolProofs`. `IInv` says who holds the mutex in which `pc`, that drawn indices are
  distinct and below the counter, and what `started` and `finished` are for each index by
  whether it was drawn and by where its thread is. It gives `TypeCorrect`, `JobsRunOnce`,
  `DoneAtReturn` and `RefinesParallelFor` (the safety part: every step is a step of
  `ParallelFor` or a stutter). None of the properties is inductive: that an index is drawn
  once is only visible in the relation of counter, mutex and the threads' copies.
- `GlobalRouterProofs`, part 1 (`BatchScheduler`). `IInv` adds that the R-tree holds exactly the open batch and that
  no net the scan has passed over is smaller than `lastMetric`. It gives `TypeCorrect`,
  `BatchesConflictFree`, `OrderKept`, `EveryNetScheduled`.
- `FiniteSums`, for the others: induction over a finite set and over the natural numbers, stated
  for a set that holds the first element and grows, so that no operator is passed to a theorem
  (`GrowingFamily`, `GrowingNumbers`), and sums over finite sets as counts of units
  (`DisjointUnion`, the `Sum` lemmas). It is what makes recursive definitions and folds provable.
- `AreaRouterProofs`. `UpdateKeepsFresh`: the incremental view update reaches every entry that a
  tree changes; `ViewIsFresh` follows. Further `AllNetsRouted`, `RacesOfStageOne`, the types of
  the state, and two results about the numbers. `DemandsAreExact`: an edge that no two jobs ever
  updated at once has the demand the trees committed so far take of it, *while* jobs run: the
  demand is the sum of the finished trees and of the updates already stored by the jobs under way
  (`NumbersInv`), and a job that is alone at an edge has loaded the current value there
  (`AccessInv`). `CheckedNetsFit`: what an overflow check says of a net it leaves off the list
  stays true as long as neither trees nor demands change (`CheckedInv`). Of the rest, `IInv` says
  that a job's outstanding updates
  come from its own net's tree, the open batch is conflict-free, and in stage 1 a net without
  a tree still waits for its batch or its job. Assumes that candidate trees are well formed and,
  for stage 1, that they stay in
  the bounding box (`PatternInBox`: without detours, FLUTE's points lie on the pins' grid).
  Two more theorems say where demands can go wrong at all. `ExactInBoxes`: in stage 1 the demand of
  every edge that does not join the boxes of two nets is exact, and if the detours stay in the boxes
  it is so to the end (`DetoursInBox`; `BoxedRace` is the argument both stages share). `ExactAlone`:
  when all boxes meet, so that nets are routed one by one, every demand is exact at every
  moment. So the violation of `stage_two_demand` (see 6) needs two concurrent nets and either a
  detour out of a box or vias at the border of two.
- `NetPartitionProofs`. `PartsConnect`, `AreasKept`, `SinglesLeftOut`, for every cut.
  Connectivity is stated through cuts: however the pins of a net are told apart, some part has
  pins on both sides. `IInv` adds that no part of a net exists before its turn. `PartsAreTrees`: the parts have
  as many connections as a tree over the pins; each part without one of its pins, the parts'
  remainders are disjoint and cover all the pins but one root.
- `AreaThreadsProofs`. `FluteGuarded`, `LookupsOnlyRaceOnEmptyAreas`, `AllDemandsMerged`,
  `OutputComplete`. `OutputIsSound`: even when maps are raced on, nothing but the nets of a router is
  written, so with fewer than four threads the nets of the remaining areas are not (see the end of 5).
  `OneThreadIsExact`: with one thread no map is ever raced on, and the results that exclude races hold as they
  stand. `IInv` ties the mutex to the `pc`s, the result maps to the routers that
  passed the insertion (if no collision was recorded), and the merged grid to the maps.
- `RerouteProofs`, part 1 (`MazeSearch`). `TypeCorrect` and `QueueLasts`: the search never takes from an empty
  queue. A pin found at cost 0 is not pushed again (line 180), so the frontier could dry up;
  `IInv` shows that this never happens on graphs that are connected, whose wires cost
  something, and whose only free edges are the vias at pins (`GraphsAssumption`): no pin is
  reached at cost 0, since its free vias lead only to nodes on the same point.
  `PinsNearestFirst`: each pin is found at the least cost of any walk from the tree built so far.
  `NearInv` is the potential argument: `minCosts`, cut off at the least cost in the queue, is 0 on
  the tree and exactly that least cost at every detached pin, and no edge raises it by more than
  it costs (`NoShortcut`), because a vertex below the cut has been expanded. So no walk, of any
  length, is cheaper than the path found (`WalksCost`). Conversely the part of the path outside the
  tree costs what its edges cost and repeats no vertex, hence it is a walk of at most as many edges
  as there are vertices, where `Distances` stops (`WalksReach`). That a path found does not
  touch the tree again is `FreshOutside`. The fold that builds the tree and the recursion of
  `Distances` are shown to be well defined on the way (`TreesExist`, `WalksExist`).

- `RerouteProofs`, part 2 (`DetourShift`), for `WindowSpec`: the loops of `constructDetours` for any
  sequence of trunks with any stems, as `DetourDag` runs them for the trunks of its scaffolds. `WindowOnTarget`
  states `DetoursOnTarget`. `AlignedInv` counts: after `Align` there are whole numbers of steps on either
  side, the round of the last loop is at the k-th of these positions, and the detours are those before it
  but the trunk itself. That there are at most twice the target is `CoarserHalves`: the step that was
  refused, longer by one, has at least half as many positions on a side. `RatioHolds` says what the
  wrong test at line 598 (see 6) leaves of `max_detour_ratio`: it is kept below the trunk, and above
  it each stem may be longer by two more positions (`StemsInv`).
- `SweepScanProofs`. `RoundsRaceFree`, `SweepsAreShortest`, `SumsAreExact`, for rows of any length
  with edges of no negative cost and blocks of any size. `Inv` says what each entry stands for at
  any moment: the cells of its span, or of two spans once its pair has been done in this round
  (`Low`). Its cost is then the way across them, its distance the shortest way that starts in one
  of them. A pair joins two spans (`JoinCosts`, `Relax`); that a thread reads a finished
  entry follows from the pairs being independent (`PairsIndependent`), and that a barrier leaves
  only whole spans from every entry being in a pair or in a lower half (`PairOrNot`). The last
  round's spans are the row (`WholeRow`). For wires of any number and length,
  `PackedRowsApart` then shows what the two loops of `setGuide2D` make of them (`Planned`): the
  wires lie behind one another (`IsPlan`), the long ones from the begin of a row, the short ones
  each inside one (`InRow`), so the blocks hold the wires they meet whole (`WholeWires`) and an entry
  is a cell of at most one (`OneWire`). `WiresKeptApart` joins the two: a distance below `Infinity` comes
  along edges below `Infinity` (`ShortWays`), and those stay in a wire (`WireGoesOn`). That all of a
  wire is reached is `WireCosts`: an edge of a wire costs no more than the dearest. The theorem supposes
  that the rows swept are such rows and that the dearest way along one, added to a distance in it, is
  below `Infinity` (`Affordable`): the code's `INFINITY_DISTANCE` is that of floating-point numbers
  (`gamer_utils.cuh:20`), and every finite cost is below it. That the folds of the packing
  go wire by wire is `LongFold`, `ShortFold` and `PlanSteps`.

- `GlobalRouterProofs`, part 2 (`GPURouter`): all five invariants of the run, for grids, scales, nets and
  pins of every size. A scale per axis need not divide the grid: the coarse grid is rounded up
  (`ScaleAssumption` asks only that the scales are positive). The assumptions are that the
  coarse gamer has two turns or more (`TurnsAssumption`; with fewer it draws no corner), and that
  `Infinity` is above the cost of every coarse way (`InfinityAssumption`); `Init` says that stage 3 starts
  from trees that join their pins (`Joins`), as the stages before leave them. The argument follows the code:
  - `DemandInv`: the device's demands without its routes never change. Rip-up and commit are
    sums over routes (`DemandRipUp`, `DemandCommit`), and the list the rip-up takes is the one that is
    routed. `DeviceDemandIsExact` needs nothing about the routes.
  - A round of a gamer. A turn of sweeps never makes a cell farther (`NeverFarther`), the way back
    through the turns moves along lines and ends in a marked cell (`WayFacts`, `MarkedNearer`), so what
    is marked hangs together by routes that lie on lines (`TrailHangs`, `RoutingTrail`). On lines that reach
    every cell, all pins are connected (`RouteAll`).
  - Coarse routing. In a box of full rows and columns two turns reach every cell
    (`CoarseReached`), below `Infinity` since the sums of the costs are bounded (`CoarsePositionBound`). So the
    coarse route, unlike the fine one, never fails: its pieces cover every coarse pin
    (`CoarseCovers`), and blown up to the fine grid they hold the pins
    (`GuidesHold`, with the rounding of `CoarseInGrid`, `CoarseBoxHolds` and `FineHolds`): `GuidesHoldPins`.
  - Fine routing. It may fail; if `getIsRouted` is true, the routes join all pins, each pin an end of one
    (`Joining`). `RouteInv` carries this from `RoutePin` to `CommitNet`: `WorkInv` for the net
    being routed, `RoutesInv` for the finished ones. `RoutesEndInPins` follows.
  - `extractGRTree`. Splitting the routes at each other's ends keeps them joined (`PiecesConnect`,
    `JoiningLinks`); the walk with its stack has marked, after as many rounds as there are points, a set
    closed under the pieces (`WalkReaches`), which holds all pins (`ExtractedJoins`).
    `HostInv` adds that the demands are the trees' sum, through `Apply`'s rip-up and commit: `TreesJoinPins`.
  - `write`. A pair's lines touch both its points (`PairMeets`), so lines that grow from the root take
    in the whole tree (`TreeTouches`): `GuidesMeet` for every tree that joins its pins, and with
    `WriteInv` `WrittenGuidesTouch`. The proof asks for a second point in a tree with pairs: `getGuide` skips a
    pair of equal points, and a tree with only such pairs would have no guide. `Joins` says so,
    and `LinkEnds` shows that `extractGRTree` never makes such a pair.

## 5. Only model-checked, and not modelled

Only model-checked: all liveness (out of the provers' reach); `PatternDP`, and `DetourDag` but for its
window (their trees and DAGs are read off by RECURSIVE operators, which a module with theorems cannot
contain). The proofs of `GPURouter` take a sweep to be what `Swept` says; that the
kernel computes this for every schedule is `SweepsAreShortest`.

Abstractions a reader should know:
- A data race is a choice of outcomes the build can produce: a lost `+=`, a lost map entry,
  an empty lookup. Crashes from a corrupted `unordered_map` are not modelled; `raced` and
  `contended` record that the program has left defined behaviour.
- Which tree a net gets in `AreaRouter` is any of a candidate set, which for stages 1 and 2
  stands for the costs at that moment. The cut in `NetPartition` is any point: its weights
  start from an uninitialised sum (`Hypergraph.hpp:314`).
- Costs are integers. In `PatternDP` wire and via costs are those of one moment, though the
  demands they depend on may change under a running job; the optimum is with respect to them.

- FLUTE is any tree of least rectilinear length over the points, its Steiner points wherever
  they keep that length. The dynamic programming is checked on DAGs without detours.
- `GPURouter`: the logistic cost of a wire is two-valued (1, or 9 without a free track), a via
  costs 1, and the means of the coarse costs are sums brought to a common denominator (`Weight`: a
  coarse cell at the border may have fewer cells). `coarsenCost2D` also reads costs left of and above
  the box that `extract2DGrid` filled in an earlier round (`GridScaler2D.cu:56`-`:59`): they shift a
  row's sums alike and cancel in its ways. A kernel over cells of different nets or rows is one step.
- `SweepScan` models the sums of `BasicGamer2D` on one row. Its rows of a sweep are those of
  `WirePacking`: an entry no wire was packed into costs `Infinity` and is never reached. `Gamer` and
  `GPURouter` sweep each wire by itself, which `WiresStayApart` justifies.

Not modelled: cost functions of the grid graph (numeric, no state), its congestion view as it
is filled (`DetourDag` takes any set of congested edges), `modifyCap` and the heat map; the choice
of the cut (the model takes any); the parser, parameters and logging (sequential input);
`BasicGamer.cu`, a 3D gamer nothing constructs;
FLUTE, `robin_hood`, `enum.h`, `prettyprint`, the CUDA samples' helpers and other vendored code,
which are more than half of the lines of the repository; functions nothing calls
(`GlobalRouter::route` at line 49, `runJobsMTnew`, the older variants of `write` and `getGuides`, the
unused partitioners); `printStatistics` and the large blocks of commented-out code. Most of the
program's own active code is mapped; what is not is named here.

Known to be exposed and covered by no property: with fewer than four `area_threads` the nets of
the areas without a router are never routed (`Hypergraph.hpp:405`; `OutputIsSound` proves that they
are not in the output); nets of one area are not
checked against the demands of another before the merge (`main.cpp:51`); the congestion view of
stage 2 is extracted once and stale for every later job (`GlobalRouter.cpp:1156`: it steers
detours, nothing relies on it); `totalLength` and `totalNumVias` are added to without a lock and
only printed (`GridGraph.cpp:389`).

## 6. Findings

- *Lost updates in stage 2* (`GridGraph.cpp:374`). Detours leave the bounding boxes the batches
  were built from, and the vias' half-track updates touch edges that join two boxes. Two jobs of
  one batch then execute `demand += d` on one edge at once. The check left commented out at
  `GlobalRouter.cpp:1233-1279` looks for just that (`wrong_demand_num`). In stage 1 the run and
  the theorem `RacesOfStageOne` confine it to via updates on edges between two boxes.
- *Detour window* (`PatternRoute.cpp:598`). The upper end tests `high - 1`, the lower end the
  next position `low - 1`; the stems of a detour may then grow beyond what `max_detour_ratio`
  (`parameters.h:18`) allows, and on that side the window is not symmetric to the other.

Beside these, what a reader of the code meets and no run depends on:

- The tests that give a location its area compare `position.first` with `cut_result_y` in three of
  four cases (`Hypergraph.hpp:406`-`:408`), so the areas are not the quadrants of the cut, and a
  location that passes none of the tests stays in area 0. `Quadrant` has the tests as they are
  written. What is proved of the parts of a net needs no more than some area for every location.
- `BasicGamer2D.cu:21` and `:44` choose the pair by `threadIdx.x` where the loop counts `cur`: right
  as long as half a row fits a block (`SumsExact` and its theorem), wrong for coarse rows of more
  than 2 * 1024 + 1 cells.
- The device charges a via differently from `commitNonStackVia`: its rip-up takes off more than the
  host committed. `DeviceDemandExact` is therefore stated relative to the first demands.
- `GPUMazeRoute mazeRoute(nets, gridGraph, ...)` (`GlobalRouter.cpp:431`, `:1368`) passes a pointer
  where the constructor takes a reference: with `ENABLE_CUDA` on it does not compile. `GPURouter`
  models the call as it is meant.
- The scale is the grid's size over 256 (`GPUMazeRouter.cu:276`): a grid below that gives 0, by which
  the coarsening then divides.
- With fewer layers than `VIA_SEG_SIZE`, `sweepVia` writes the distance and the previous cell of entry
  -1 of its rows for each entry of a segment without a layer (`GuidedGamer.cu:217`, `:218`; line 199
  keeps it from reading a distance there). That is outside the arrays, so the language defines no outcome;
  `ViaSegment` has a segment's layers only. On ties the loop that goes up and down a segment at once
  keeps the source below in the lower half and the one above in the upper half; `Swept` does so by `half`.
- The guide of a single node on the top layer names a layer past the last (`GlobalRouter.cpp:1480`).

## 7. Plan

Done: 1. `ParallelFor`, `JobPool`; 2. `BatchScheduler`; 3. `GridGraph`, `AreaRouter`;
4. `NetPartition`; 5. `AreaThreads`, each with its proofs; 6. `PatternDag`, `PatternDP`;
7. `MazeSearch` with its proofs; 8. `SteinerTree`, `DetourShift`, `DetourDag`; 9. `SweepScan` with its
proofs, `WirePacking`; 10. `Gamer`, `GPURouter`, `GuideOutput`,
with their proofs.

Left, should the project go on: proofs about `PatternDP` and the trees of `DetourDag`; the choice of the cut with its uninitialised weight.
