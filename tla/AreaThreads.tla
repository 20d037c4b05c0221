---------------------------- MODULE AreaThreads ----------------------------
(***************************************************************************)
(* main: one router per area, all in parallel (Par::runJobsMT with as many *)
(* threads as jobs, see JobPool), then one router for the cross nets on a  *)
(* grid graph that all areas' demands are merged into, then the output.    *)
(*   The routers share the global tables of FLUTE, guarded by areamtx, and *)
(* main's maps, guarded by nothing.  An unordered_map that one thread      *)
(* inserts into while another uses it is undefined behaviour: of what the  *)
(* build can do then, the model has the lost entry and the empty lookup,   *)
(* not the crash.                                                          *)
(*   What route_multi does between its calls of FLUTE is in AreaRouter;    *)
(* here it adds the trees of the router's nets to its grid graph.          *)
(***************************************************************************)
EXTENDS Integers, FiniteSetsExt, Functions

CONSTANTS AreaThreads,   \* area_threads
          Net,
          Partitions     \* what parNets may return: the nets of some keys

Cross == -1
Nobody == -2
Areas == 0 .. AreaThreads - 1          \* jobs of runJobsMT
Routers == Areas \cup {Cross}

ASSUME AreaThreadsAssumption ==
  /\ AreaThreads \in Nat \ {0}
  /\ \A P \in Partitions :
       /\ DOMAIN P \subseteq 0 .. 3 \cup {Cross}    \* the cut makes four areas
       /\ \A k \in DOMAIN P : P[k] \subseteq Net /\ P[k] # {}

VARIABLES
  par_nets,         \* map from areas, and Cross, to nets
  main,             \* areas, merge, cross, group, written
  pc,               \* where each router is
  mtx,              \* areamtx: its holder
  tables,           \* the tables of FLUTE: none, partial, whole
  nets,             \* the nets each router was given
  todo,             \* those that still need a Steiner tree in this stage
  gridGraph,        \* how often it contains the trees of each router's nets
  routedGridGraph,  \* the keys of the result maps
  routedNets,
  seen,             \* the map as a thread found it when it began to insert
  merged,           \* the grid graphs merged so far
  outGRNet,         \* the output: nets and the routers they come from
  input,            \* history: par_nets as parNets returned it
  raced             \* history: the maps on which threads collided

maps == <<par_nets, routedGridGraph, routedNets, seen, raced>>
flute == <<mtx, tables, todo>>
results == <<gridGraph, merged, outGRNet>>
vars == <<maps, flute, results, main, pc, nets, input>>

Init ==
  /\ par_nets \in Partitions /\ input = par_nets
  /\ main = "areas"
  /\ pc = [k \in Routers |-> "none"]
  /\ mtx = Nobody /\ tables = "none"
  /\ nets = [k \in Routers |-> {}] /\ todo = [k \in Routers |-> {}]
  /\ gridGraph = [k \in Routers |-> [j \in Routers |-> 0]]
  /\ routedGridGraph = {} /\ routedNets = {}
  /\ seen = [k \in Routers |-> {}]
  /\ merged = {} /\ outGRNet = {}
  /\ raced = {}

(* The lambda of runJobsMT, and main itself for the cross nets. *)
Begin(k) ==
  /\ pc[k] = "none"
  /\ main = IF k = Cross THEN "cross" ELSE "areas"
  /\ pc' = [pc EXCEPT ![k] = "lookup"]
  /\ UNCHANGED <<maps, flute, results, main, nets, input>>

(* par_nets[k] inserts an empty list if there is none.  The threads' other *)
(* lookups collide with that, and so do two insertions.                    *)
LookedUpByErasing(k) ==    \* mutant: the nets are moved out of the map
  /\ pc[k] = "lookup"
  /\ raced' = IF \E j \in Routers \ {k} : pc[j] = "lookup" THEN raced \cup {"par_nets"} ELSE raced
  /\ nets' = [nets EXCEPT ![k] = IF k \in DOMAIN par_nets THEN par_nets[k] ELSE {}]
  /\ par_nets' = [j \in DOMAIN par_nets \ {k} |-> par_nets[j]]
  /\ pc' = [pc EXCEPT ![k] = "table"]
  /\ UNCHANGED <<routedGridGraph, routedNets, seen, flute, results, main, input>>

LookedUp(k) ==
  LET inserting == {j \in Routers : pc[j] = "lookup" /\ j \notin DOMAIN par_nets}
      collides == \E j \in Routers \ {k} : pc[j] = "lookup" /\ inserting \cap {j, k} # {}
      found == IF k \in DOMAIN par_nets THEN par_nets[k] ELSE {}
  IN
  /\ pc[k] = "lookup"
  /\ raced' = IF collides THEN raced \cup {"par_nets"} ELSE raced
  /\ \E answer \in IF "par_nets" \in raced' THEN {found, {}} ELSE {found} :
       nets' = [nets EXCEPT ![k] = answer]
  /\ par_nets' = [j \in DOMAIN par_nets \cup {k} |->
                    IF j \in DOMAIN par_nets THEN par_nets[j] ELSE {}]
  /\ pc' = [pc EXCEPT ![k] = "table"]
  /\ UNCHANGED <<routedGridGraph, routedNets, seen, flute, results, main, input>>

(* route_multi *)
LockAlwaysFree(k, from, to) ==    \* mutant: areamtx is not taken
  /\ pc[k] = from
  /\ mtx' = k
  /\ pc' = [pc EXCEPT ![k] = to]

Lock(k, from, to) ==
  /\ pc[k] = from /\ mtx = Nobody
  /\ mtx' = k
  /\ pc' = [pc EXCEPT ![k] = to]

ReadTable(k) ==
  /\ Lock(k, "table", "reading")
  /\ tables' = "partial"
  /\ UNCHANGED <<maps, results, main, nets, input, todo>>

TableReadHoldsMutex(k) ==    \* mutant: areamtx is not released
  /\ pc[k] = "reading"
  /\ tables' = "whole"
  /\ todo' = [todo EXCEPT ![k] = nets[k]]
  /\ pc' = [pc EXCEPT ![k] = "stage1"]
  /\ UNCHANGED <<maps, results, main, nets, input, mtx>>

TableRead(k) ==
  /\ pc[k] = "reading"
  /\ tables' = "whole"
  /\ mtx' = Nobody
  /\ todo' = [todo EXCEPT ![k] = nets[k]]
  /\ pc' = [pc EXCEPT ![k] = "stage1"]
  /\ UNCHANGED <<maps, results, main, nets, input>>

(* Stage 1 builds a tree for every net, stage 2 for those that overflow.   *)
BuildTree(k) ==
  /\ \/ Lock(k, "stage1", "tree1")
     \/ Lock(k, "stage2", "tree2")
  /\ todo[k] # {}
  /\ UNCHANGED <<maps, results, main, nets, input, todo, tables>>

TreeBuilt(k) ==
  /\ \/ pc[k] = "tree1" /\ pc' = [pc EXCEPT ![k] = "stage1"]
     \/ pc[k] = "tree2" /\ pc' = [pc EXCEPT ![k] = "stage2"]
  /\ mtx' = Nobody
  /\ \E n \in todo[k] : todo' = [todo EXCEPT ![k] = @ \ {n}]
  /\ UNCHANGED <<maps, results, main, nets, input, tables>>

Overflowing(k) ==
  /\ pc[k] = "stage1" /\ todo[k] = {}
  /\ \E listed \in SUBSET nets[k] : todo' = [todo EXCEPT ![k] = listed]
  /\ pc' = [pc EXCEPT ![k] = "stage2"]
  /\ UNCHANGED <<maps, results, main, nets, input, mtx, tables>>

Routed(k) ==
  /\ pc[k] = "stage2" /\ todo[k] = {}
  /\ gridGraph' = [gridGraph EXCEPT ![k][k] = @ + 1]
  /\ pc' = [pc EXCEPT ![k] = "routed"]
  /\ UNCHANGED <<maps, flute, main, nets, input, merged, outGRNet>>

(* An insertion into one of the result maps ends: what other threads have  *)
(* inserted since it began is lost.                                        *)
Inserted(k, map, name) ==
  /\ map' = seen[k] \cup {k}
  /\ raced' = IF \E j \in Routers \ {k} : pc[j] = pc[k] THEN raced \cup {name} ELSE raced

InsertGridGraph(k) ==
  /\ pc[k] = "routed"
  /\ seen' = [seen EXCEPT ![k] = routedGridGraph]
  /\ pc' = [pc EXCEPT ![k] = "graph"]
  /\ UNCHANGED <<par_nets, routedGridGraph, routedNets, raced, flute, results, main, nets, input>>

GridGraphInserted(k) ==
  /\ pc[k] = "graph"
  /\ Inserted(k, routedGridGraph, "routedGridGraph")
  /\ pc' = [pc EXCEPT ![k] = "nets"]
  /\ UNCHANGED <<par_nets, routedNets, seen, flute, results, main, nets, input>>

InsertNets(k) ==
  /\ pc[k] = "nets"
  /\ seen' = [seen EXCEPT ![k] = routedNets]
  /\ pc' = [pc EXCEPT ![k] = "result"]
  /\ UNCHANGED <<par_nets, routedGridGraph, routedNets, raced, flute, results, main, nets, input>>

NetsInserted(k) ==
  /\ pc[k] = "result"
  /\ Inserted(k, routedNets, "routedNets")
  /\ pc' = [pc EXCEPT ![k] = "done"]
  /\ UNCHANGED <<par_nets, routedGridGraph, seen, flute, results, main, nets, input>>

Router(k) ==
  \/ Begin(k) \/ LookedUp(k)
  \/ ReadTable(k) \/ TableRead(k)
  \/ BuildTree(k) \/ TreeBuilt(k) \/ Overflowing(k) \/ Routed(k)
  \/ InsertGridGraph(k) \/ GridGraphInserted(k)
  \/ InsertNets(k) \/ NetsInserted(k)

JoinFirst ==    \* mutant: main waits for one of the threads only
  /\ main = "areas" /\ \E k \in Areas : pc[k] = "done"
  /\ main' = "merge"
  /\ UNCHANGED <<maps, flute, results, pc, nets, input>>

Join ==
  /\ main = "areas" /\ \A k \in Areas : pc[k] = "done"
  /\ main' = "merge"
  /\ UNCHANGED <<maps, flute, results, pc, nets, input>>

MergeInto(k, j) == [i \in Routers |-> gridGraph[k][i] + gridGraph[j][i]]

Merge ==
  /\ main = "merge"
  /\ \E k \in routedGridGraph \ merged :
       /\ gridGraph' = [gridGraph EXCEPT ![Cross] = MergeInto(Cross, k)]
       /\ merged' = merged \cup {k}
  /\ UNCHANGED <<maps, flute, main, pc, nets, input, outGRNet>>

Merged ==
  /\ main = "merge" /\ merged = routedGridGraph
  /\ main' = "cross"
  /\ UNCHANGED <<maps, flute, results, pc, nets, input>>

CrossRouted ==
  /\ main = "cross" /\ pc[Cross] = "done"
  /\ main' = "group"
  /\ UNCHANGED <<maps, flute, results, pc, nets, input>>

WriteAreasOnly ==    \* mutant: the cross nets are left out of the output
  /\ main = "group"
  /\ outGRNet' = {o \in Net \X routedNets : o[1] \in nets[o[2]] /\ o[2] # Cross}
  /\ main' = "written"
  /\ UNCHANGED <<maps, flute, pc, nets, input, gridGraph, merged>>

Write ==
  /\ main = "group"
  /\ outGRNet' = {o \in Net \X routedNets : o[1] \in nets[o[2]]}
  /\ main' = "written"
  /\ UNCHANGED <<maps, flute, pc, nets, input, gridGraph, merged>>

Main == Join \/ Merge \/ Merged \/ CrossRouted \/ Write

Returned == main = "written" /\ UNCHANGED vars

Next == Main \/ Returned \/ \E k \in Routers : Router(k)

(* No thread stops for ever.  Each takes areamtx a bounded number of times, *)
(* so the mutex need not be fair.                                          *)
Spec == Init /\ [][Next]_vars /\ WF_vars(Main) /\ \A k \in Routers : WF_vars(Router(k))
----------------------------------------------------------------------------
InTree == {"tree1", "tree2"}
PC == InTree \cup {"none", "lookup", "table", "reading", "stage1", "stage2", "routed", "graph",
                   "nets", "result", "done"}
MainPC == {"areas", "merge", "cross", "group", "written"}
Maps == {"par_nets", "routedGridGraph", "routedNets"}

TypeOK ==
  /\ input \in Partitions
  /\ DOMAIN par_nets \subseteq 0 .. 3 \cup Routers
  /\ \A k \in DOMAIN par_nets : par_nets[k] = IF k \in DOMAIN input THEN input[k] ELSE {}
  /\ main \in MainPC /\ pc \in [Routers -> PC]
  /\ mtx \in Routers \cup {Nobody} /\ tables \in {"none", "partial", "whole"}
  /\ nets \in [Routers -> SUBSET Net] /\ todo \in [Routers -> SUBSET Net]
  /\ gridGraph \in [Routers -> [Routers -> Nat]]
  /\ routedGridGraph \subseteq Routers /\ routedNets \subseteq Routers
  /\ seen \in [Routers -> SUBSET Routers]
  /\ merged \subseteq Areas /\ outGRNet \subseteq Net \X Routers
  /\ raced \subseteq Maps

(* FLUTE is never called on tables that are being read, or by two threads. *)
TablesInUse ==
  \A k \in Routers : pc[k] \in InTree =>
    /\ tables = "whole"
    /\ \A j \in Routers \ {k} : pc[j] \notin InTree \cup {"reading"}

(* The threads' lookups in par_nets only collide if some area has no net.  *)
LookupsRace == "par_nets" \in raced => \E k \in Areas : k \notin DOMAIN input

(* Unless threads collided on a map, the output has the nets of all areas  *)
(* that have a thread, and the cross nets.                                 *)
NoNetLost ==
  main = "written" /\ raced = {} =>
    outGRNet = {o \in Net \X Routers : o[2] \in DOMAIN input /\ o[1] \in input[o[2]]}

(* The cross nets are routed on the demands of every area, each taken once. *)
DemandsMerged ==
  main \in {"cross", "group", "written"} /\ "routedGridGraph" \notin raced =>
    \A k \in Areas : gridGraph[Cross][k] = 1

(* The threads never wait for each other's mutex for ever: the output is   *)
(* written.                                                                *)
Terminates == <>(main = "written")
=============================================================================
