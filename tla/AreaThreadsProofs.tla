------------------------- MODULE AreaThreadsProofs -------------------------
(***************************************************************************)
(* Proofs about AreaThreads for every number of threads and every result   *)
(* of the partition.                                                       *)
(***************************************************************************)
EXTENDS AreaThreads, TLAPS

AfterGraph == {"nets", "result", "done"}
HasRouted == AfterGraph \cup {"routed", "graph"}
Given(k) == IF k \in DOMAIN input THEN input[k] ELSE {}

(* areamtx is held by the router that is inside FLUTE. *)
MutexInv == \A k \in Routers : pc[k] \in InTree \cup {"reading"} <=> mtx = k

(* Once a router has read the tables they are complete, but for the time   *)
(* another one reads them again.                                           *)
TablesInv ==
  \A k \in Routers : pc[k] \notin {"none", "lookup", "table", "reading"} =>
    tables = "whole" \/ \E j \in Routers : pc[j] = "reading"

(* Where main is while the routers run. *)
MainInv ==
  /\ main \in {"areas", "merge"} => pc[Cross] = "none"
  /\ main # "areas" => \A k \in Areas : pc[k] = "done"
  /\ main \in {"group", "written"} => pc[Cross] = "done"

(* Without a collision, every router has got its nets. *)
NetsInv ==
  /\ DOMAIN input \subseteq DOMAIN par_nets
  /\ "par_nets" \notin raced =>
       \A k \in Routers : pc[k] \notin {"none", "lookup"} => nets[k] = Given(k)

(* Without a collision, the result maps have every router that is through. *)
MapsInv ==
  /\ \A k \in routedGridGraph : pc[k] \in AfterGraph
  /\ \A k \in Routers : pc[k] = "graph" => \A j \in seen[k] : pc[j] \in AfterGraph
  /\ "routedGridGraph" \notin raced =>
       /\ \A k \in Routers : pc[k] \in AfterGraph => k \in routedGridGraph
       /\ \A k \in Routers : pc[k] = "graph" => seen[k] = routedGridGraph
  /\ "routedNets" \notin raced =>
       /\ \A k \in Routers : pc[k] = "done" => k \in routedNets
       /\ \A k \in Routers : pc[k] = "result" => seen[k] = routedNets

(* An area's grid graph has its own trees only; the merged one has those   *)
(* of the areas merged so far.                                             *)
DemandInv ==
  /\ \A k, j \in Areas : gridGraph[k][j] = IF j = k /\ pc[k] \in HasRouted THEN 1 ELSE 0
  /\ \A j \in Areas : gridGraph[Cross][j] = IF j \in merged THEN 1 ELSE 0
  /\ main = "areas" => merged = {}
  /\ main \in {"cross", "group", "written"} /\ "routedGridGraph" \notin raced => merged = Areas

IInv == /\ TypeOK /\ MutexInv /\ TablesInv /\ MainInv /\ LookupsRace
        /\ NetsInv /\ MapsInv /\ DemandInv /\ NoNetLost
----------------------------------------------------------------------------
(* The routers are the areas and the cross router. *)
LEMMA RouterFacts ==
  /\ Cross \in Routers /\ Cross \notin Areas /\ Areas \subseteq Routers /\ Nobody \notin Routers
  /\ \A k \in Routers : k = Cross \/ k \in Areas
BY DEF Routers, Areas, Cross, Nobody

(* A router's step moves that router only. *)
LEMMA RouterStep ==
  ASSUME TypeOK, NEW k \in Routers, Router(k)
  PROVE  /\ pc' \in [Routers -> PC]
         /\ \A j \in Routers : j # k => pc'[j] = pc[j]
         /\ main' = main /\ input' = input /\ merged' = merged /\ outGRNet' = outGRNet
         /\ raced \subseteq raced'
<1>1. \E p \in PC : pc' = [pc EXCEPT ![k] = p]
  BY DEF Router, Begin, LookedUp, ReadTable, TableRead, BuildTree, TreeBuilt, Overflowing,
         Routed, InsertGridGraph, GridGraphInserted, InsertNets, NetsInserted, Lock, PC, InTree
<1>2. main' = main /\ input' = input /\ merged' = merged /\ outGRNet' = outGRNet
  BY DEF Router, Begin, LookedUp, ReadTable, TableRead, BuildTree, TreeBuilt, Overflowing,
         Routed, InsertGridGraph, GridGraphInserted, InsertNets, NetsInserted, results
<1>3. raced \subseteq raced'
  BY DEF Router, Begin, LookedUp, ReadTable, TableRead, BuildTree, TreeBuilt, Overflowing,
         Routed, InsertGridGraph, GridGraphInserted, InsertNets, NetsInserted, Inserted, maps
<1>4. QED
  BY <1>1, <1>2, <1>3 DEF TypeOK

(* A router's step keeps the table mutex to one holder and the tables with it. *)
LEMMA RouterKeepsMutex ==
  ASSUME TypeOK, MutexInv, TablesInv, NEW k \in Routers, Router(k)
  PROVE  MutexInv' /\ TablesInv'
<1> USE RouterFacts, RouterStep DEF TypeOK, InTree
<1>1. CASE Begin(k) \/ LookedUp(k) \/ Overflowing(k) \/ Routed(k) \/ InsertGridGraph(k)
           \/ GridGraphInserted(k) \/ InsertNets(k) \/ NetsInserted(k)
  <2>1. /\ mtx' = mtx /\ tables' = tables
        /\ pc[k] \notin InTree \cup {"reading"} /\ pc'[k] \notin InTree \cup {"reading"}
        /\ pc'[k] \notin {"none", "lookup", "table"} =>
             pc[k] \notin {"none", "lookup", "table"} \/ pc'[k] = "table"
    BY <1>1 DEF Begin, LookedUp, Overflowing, Routed, InsertGridGraph, GridGraphInserted,
                InsertNets, NetsInserted, flute
  <2>2. MutexInv'
    BY <2>1 DEF MutexInv
  <2>3. TablesInv'
    BY <2>1 DEF TablesInv
  <2>4. QED
    BY <2>2, <2>3
<1>2. CASE ReadTable(k)
  <2>1. pc'[k] = "reading" /\ mtx = Nobody /\ mtx' = k
    BY <1>2 DEF ReadTable, Lock
  <2>2. QED
    BY <2>1 DEF MutexInv, TablesInv
<1>3. CASE TableRead(k)
  <2>1. pc[k] = "reading" /\ pc'[k] = "stage1" /\ mtx' = Nobody /\ tables' = "whole"
    BY <1>3 DEF TableRead
  <2>2. QED
    BY <2>1 DEF MutexInv, TablesInv
<1>4. CASE BuildTree(k)
  <2>1. /\ pc[k] \in {"stage1", "stage2"} /\ pc'[k] \in InTree
        /\ mtx = Nobody /\ mtx' = k /\ tables' = tables
    BY <1>4 DEF BuildTree, Lock
  <2>2. QED
    BY <2>1 DEF MutexInv, TablesInv
<1>5. CASE TreeBuilt(k)
  <2>1. /\ pc[k] \in InTree /\ pc'[k] \in {"stage1", "stage2"}
        /\ mtx' = Nobody /\ tables' = tables
    BY <1>5 DEF TreeBuilt
  <2>2. QED
    BY <2>1 DEF MutexInv, TablesInv
<1>6. QED
  BY <1>1, <1>2, <1>3, <1>4, <1>5 DEF Router

(* A router's step keeps what main waits for. *)
LEMMA RouterKeepsMain ==
  ASSUME TypeOK, MainInv, NEW k \in Routers, Router(k)
  PROVE  MainInv'
<1> USE RouterFacts, RouterStep
<1>1. pc[k] # "done"
  BY DEF Router, Begin, LookedUp, ReadTable, TableRead, BuildTree, TreeBuilt, Overflowing,
         Routed, InsertGridGraph, GridGraphInserted, InsertNets, NetsInserted, Lock
<1>2. k = Cross /\ pc[k] = "none" => main = "cross"
  BY DEF Router, Begin, LookedUp, ReadTable, TableRead, BuildTree, TreeBuilt, Overflowing,
         Routed, InsertGridGraph, GridGraphInserted, InsertNets, NetsInserted, Lock
<1>3. QED
  BY <1>1, <1>2 DEF MainInv

(* A router's step keeps the types. *)
LEMMA RouterKeepsType ==
  ASSUME TypeOK, NetsInv, NEW k \in Routers, Router(k)
  PROVE  TypeOK'
<1> USE RouterFacts, RouterStep
<1>1. input' \in Partitions /\ main' \in MainPC /\ pc' \in [Routers -> PC] /\ merged' \subseteq Areas
      /\ outGRNet' \subseteq Net \X Routers
  BY DEF TypeOK
<1>2. /\ DOMAIN par_nets' \subseteq 0 .. 3 \cup Routers
      /\ \A j \in DOMAIN par_nets' : par_nets'[j] = IF j \in DOMAIN input THEN input[j] ELSE {}
  <2>1. CASE LookedUp(k)
    <3>1. par_nets' = [j \in DOMAIN par_nets \cup {k} |->
                         IF j \in DOMAIN par_nets THEN par_nets[j] ELSE {}]
      BY <2>1 DEF LookedUp
    <3>2. DOMAIN par_nets' = DOMAIN par_nets \cup {k}
      BY <3>1
    <3>3. ASSUME NEW j \in DOMAIN par_nets'
          PROVE  par_nets'[j] = IF j \in DOMAIN input THEN input[j] ELSE {}
      <4>1. par_nets'[j] = IF j \in DOMAIN par_nets THEN par_nets[j] ELSE {}
        BY <3>1, <3>2
      <4>2. QED
        BY <4>1 DEF NetsInv, TypeOK
    <3>4. QED
      BY <3>2, <3>3 DEF TypeOK
  <2>2. CASE ~LookedUp(k)
    <3>1. par_nets' = par_nets
      BY <2>2 DEF Router, Begin, ReadTable, TableRead, BuildTree, TreeBuilt, Overflowing,
             Routed, InsertGridGraph, GridGraphInserted, InsertNets, NetsInserted, maps
    <3>2. QED
      BY <3>1 DEF TypeOK
  <2>3. QED
    BY <2>1, <2>2
<1>3. mtx' \in Routers \cup {Nobody} /\ tables' \in {"none", "partial", "whole"}
  BY DEF TypeOK, Router, Begin, LookedUp, ReadTable, TableRead, BuildTree, TreeBuilt, Overflowing,
         Routed, InsertGridGraph, GridGraphInserted, InsertNets, NetsInserted, Lock, flute
<1>4. nets' \in [Routers -> SUBSET Net]
  <2>1. CASE LookedUp(k)
    BY <2>1, AreaThreadsAssumption DEF LookedUp, TypeOK
  <2>2. CASE ~LookedUp(k)
    BY <2>2 DEF TypeOK, Router, Begin, ReadTable, TableRead, BuildTree, TreeBuilt, Overflowing,
           Routed, InsertGridGraph, GridGraphInserted, InsertNets, NetsInserted
  <2>3. QED
    BY <2>1, <2>2
<1>5. todo' \in [Routers -> SUBSET Net]
  BY DEF TypeOK, Router, Begin, LookedUp, ReadTable, TableRead, BuildTree, TreeBuilt, Overflowing,
         Routed, InsertGridGraph, GridGraphInserted, InsertNets, NetsInserted, flute
<1>6. gridGraph' \in [Routers -> [Routers -> Nat]]
  BY DEF TypeOK, Router, Begin, LookedUp, ReadTable, TableRead, BuildTree, TreeBuilt, Overflowing,
         Routed, InsertGridGraph, GridGraphInserted, InsertNets, NetsInserted, results
<1>7. /\ routedGridGraph' \subseteq Routers /\ routedNets' \subseteq Routers
      /\ seen' \in [Routers -> SUBSET Routers] /\ raced' \subseteq Maps
  BY DEF TypeOK, Maps, Router, Begin, LookedUp, ReadTable, TableRead, BuildTree, TreeBuilt, Overflowing,
         Routed, InsertGridGraph, GridGraphInserted, InsertNets, NetsInserted, Inserted, maps
<1>8. QED
  BY <1>1, <1>2, <1>3, <1>4, <1>5, <1>6, <1>7 DEF TypeOK

(* A router's step keeps the nets it has looked up. *)
LEMMA RouterKeepsNets ==
  ASSUME TypeOK, MainInv, NetsInv, LookupsRace, NEW k \in Routers, Router(k)
  PROVE  NetsInv' /\ LookupsRace'
<1> USE RouterFacts, RouterStep
<1>1. CASE LookedUp(k)
  <2>1. /\ pc[k] = "lookup" /\ pc'[k] = "table" /\ pc' = [pc EXCEPT ![k] = "table"]
        /\ DOMAIN par_nets' = DOMAIN par_nets \cup {k}
    BY <1>1 DEF LookedUp, TypeOK
  <2>2. ASSUME "par_nets" \notin raced'
        PROVE  nets' = [nets EXCEPT ![k] = Given(k)]
    <3>1. nets' = [nets EXCEPT ![k] = IF k \in DOMAIN par_nets THEN par_nets[k] ELSE {}]
      BY <1>1, <2>2 DEF LookedUp
    <3>2. QED
      BY <3>1 DEF NetsInv, TypeOK, Given
  <2>3. NetsInv'
    <3>1. ASSUME "par_nets" \notin raced', NEW j \in Routers, pc'[j] \notin {"none", "lookup"}
          PROVE  nets'[j] = Given(j)
      BY <2>1, <2>2, <3>1 DEF NetsInv, TypeOK
    <3>2. \A j : Given(j)' = Given(j)
      BY DEF Given
    <3>3. QED
      BY <2>1, <3>1, <3>2 DEF NetsInv
  <2>4. LookupsRace'
    <3>1. CASE "par_nets" \in raced
      BY <3>1 DEF LookupsRace
    <3>2. CASE "par_nets" \in raced' /\ "par_nets" \notin raced
      <4>1. PICK j \in Routers \ {k} :
              /\ pc[j] = "lookup"
              /\ \E i \in {j, k} : pc[i] = "lookup" /\ i \notin DOMAIN par_nets
        BY <1>1, <3>2 DEF LookedUp
      <4>2. j \in Areas /\ k \in Areas
        BY <2>1, <4>1 DEF MainInv, TypeOK, MainPC
      <4>3. QED
        BY <4>1, <4>2 DEF LookupsRace, NetsInv
    <3>3. QED
      BY <3>1, <3>2 DEF LookupsRace
  <2>5. QED
    BY <2>3, <2>4
<1>2. CASE ~LookedUp(k)
  <2>1. /\ par_nets' = par_nets /\ nets' = nets
        /\ "par_nets" \in raced' => "par_nets" \in raced
        /\ pc'[k] \notin {"none", "lookup"} => pc[k] \notin {"none", "lookup"}
    BY <1>2 DEF TypeOK, Router, Begin, ReadTable, TableRead, BuildTree, TreeBuilt, Overflowing, Routed,
           InsertGridGraph, GridGraphInserted, InsertNets, NetsInserted, Lock, Inserted, maps
  <2>2. \A j : Given(j)' = Given(j)
    BY DEF Given
  <2>3. QED
    BY <2>1, <2>2 DEF NetsInv, LookupsRace
<1>3. QED
  BY <1>1, <1>2

(* A router's step keeps what the shared maps hold. *)
LEMMA RouterKeepsMaps ==
  ASSUME TypeOK, MapsInv, NEW k \in Routers, Router(k)
  PROVE  MapsInv'
<1> USE RouterFacts, RouterStep DEF AfterGraph
<1>1. CASE Begin(k) \/ LookedUp(k) \/ ReadTable(k) \/ TableRead(k) \/ BuildTree(k) \/ TreeBuilt(k)
           \/ Overflowing(k) \/ Routed(k)
  <2>1. /\ UNCHANGED <<routedGridGraph, routedNets, seen>>
        /\ "routedGridGraph" \in raced' => "routedGridGraph" \in raced
        /\ "routedNets" \in raced' => "routedNets" \in raced
        /\ pc[k] \notin AfterGraph /\ pc'[k] \notin AfterGraph /\ pc'[k] # "graph"
    BY <1>1 DEF TypeOK, Begin, LookedUp, ReadTable, TableRead, BuildTree, TreeBuilt, Overflowing, Routed,
                Lock, InTree, maps
  <2>2. QED
    BY <2>1 DEF MapsInv, TypeOK
<1>2. CASE InsertGridGraph(k)
  <2>1. /\ UNCHANGED <<routedGridGraph, routedNets, raced>> /\ pc[k] = "routed" /\ pc'[k] = "graph"
        /\ seen' = [seen EXCEPT ![k] = routedGridGraph]
    BY <1>2 DEF InsertGridGraph, TypeOK
  <2>2. QED
    BY <2>1 DEF MapsInv, TypeOK
<1>3. CASE GridGraphInserted(k)
  <2>1. /\ UNCHANGED <<seen, routedNets>> /\ pc[k] = "graph" /\ pc'[k] = "nets"
        /\ routedGridGraph' = seen[k] \cup {k}
        /\ "routedNets" \in raced' => "routedNets" \in raced
        /\ "routedGridGraph" \notin raced' => \A j \in Routers \ {k} : pc[j] # "graph"
    BY <1>3 DEF GridGraphInserted, Inserted, TypeOK
  <2>2. QED
    BY <2>1 DEF MapsInv, TypeOK
<1>4. CASE InsertNets(k)
  <2>1. /\ UNCHANGED <<routedGridGraph, routedNets, raced>> /\ pc[k] = "nets" /\ pc'[k] = "result"
        /\ seen' = [seen EXCEPT ![k] = routedNets]
    BY <1>4 DEF InsertNets, TypeOK
  <2>2. QED
    BY <2>1 DEF MapsInv, TypeOK
<1>5. CASE NetsInserted(k)
  <2>1. /\ UNCHANGED <<seen, routedGridGraph>> /\ pc[k] = "result" /\ pc'[k] = "done"
        /\ routedNets' = seen[k] \cup {k}
        /\ "routedGridGraph" \in raced' => "routedGridGraph" \in raced
        /\ "routedNets" \notin raced' => \A j \in Routers \ {k} : pc[j] # "result"
    BY <1>5 DEF NetsInserted, Inserted, TypeOK
  <2>2. QED
    BY <2>1 DEF MapsInv, TypeOK
<1>6. QED
  BY <1>1, <1>2, <1>3, <1>4, <1>5 DEF Router

(* A router's step keeps each grid graph's demand to the routers that made it. *)
LEMMA RouterKeepsDemand ==
  ASSUME TypeOK, DemandInv, NEW k \in Routers, Router(k)
  PROVE  DemandInv'
<1> USE RouterFacts, RouterStep DEF HasRouted, AfterGraph
<1>1. CASE Routed(k)
  <2>1. /\ gridGraph' = [gridGraph EXCEPT ![k][k] = @ + 1] /\ raced' = raced
        /\ pc[k] = "stage2" /\ pc'[k] = "routed"
    BY <1>1 DEF Routed, TypeOK, maps
  <2>2. \A i, j \in Routers : gridGraph'[i][j] = IF i = k /\ j = k THEN gridGraph[i][j] + 1
                                                                  ELSE gridGraph[i][j]
    BY <2>1 DEF TypeOK
  <2>3. QED
    BY <2>1, <2>2 DEF DemandInv
<1>2. CASE ~Routed(k)
  <2>1. /\ gridGraph' = gridGraph
        /\ pc'[k] \in HasRouted <=> pc[k] \in HasRouted
    BY <1>2 DEF TypeOK, Router, Begin, LookedUp, ReadTable, TableRead, BuildTree, TreeBuilt, Overflowing,
         InsertGridGraph, GridGraphInserted, InsertNets, NetsInserted, Lock, results, InTree
  <2>2. QED
    BY <2>1 DEF DemandInv
<1>3. QED
  BY <1>1, <1>2

(* So it keeps the invariant. *)
LEMMA RouterKeepsInv ==
  ASSUME IInv, NEW k \in Routers, Router(k)
  PROVE  IInv'
<1>1. TypeOK' /\ NetsInv' /\ LookupsRace'
  BY RouterKeepsType, RouterKeepsNets DEF IInv
<1>2. MutexInv' /\ TablesInv' /\ MainInv'
  BY RouterKeepsMutex, RouterKeepsMain DEF IInv
<1>3. MapsInv' /\ DemandInv'
  BY RouterKeepsMaps, RouterKeepsDemand DEF IInv
<1>4. NoNetLost'
  <2>1. pc[k] # "done"
    BY DEF Router, Begin, LookedUp, ReadTable, TableRead, BuildTree, TreeBuilt, Overflowing,
           Routed, InsertGridGraph, GridGraphInserted, InsertNets, NetsInserted, Lock
  <2>2. main # "written"
    BY <2>1, RouterFacts DEF IInv, MainInv
  <2>3. QED
    BY <2>2, RouterStep DEF IInv, NoNetLost
<1>5. QED
  BY <1>1, <1>2, <1>3, <1>4 DEF IInv
----------------------------------------------------------------------------
(* A step of main keeps the invariant. *)
LEMMA MainKeepsInv ==
  ASSUME IInv, Main
  PROVE  IInv'
<1> USE RouterFacts
<1>1. /\ UNCHANGED <<par_nets, routedGridGraph, routedNets, seen, raced, mtx, tables, todo, pc,
                     nets, input>>
      /\ main' \in MainPC /\ main # "written"
  BY DEF Main, Join, Merge, Merged, CrossRouted, Write, maps, flute, results, MainPC
<1>2. MutexInv' /\ TablesInv' /\ MapsInv' /\ LookupsRace'
  BY <1>1 DEF IInv, MutexInv, TablesInv, MapsInv, LookupsRace
<1>3. NetsInv'
  <2>1. \A k : Given(k)' = Given(k)
    BY <1>1 DEF Given
  <2>2. QED
    BY <1>1, <2>1 DEF IInv, NetsInv
<1>4. MainInv'
  BY <1>1 DEF IInv, MainInv, Main, Join, Merge, Merged, CrossRouted, Write
<1>5. CASE Merge
  <2>1. PICK k \in routedGridGraph \ merged :
          /\ gridGraph' = [gridGraph EXCEPT ![Cross] = MergeInto(Cross, k)]
          /\ merged' = merged \cup {k}
    BY <1>5 DEF Merge
  <2>2. main = "merge" /\ main' = "merge" /\ outGRNet' = outGRNet
    BY <1>5 DEF Merge
  <2>3. k \in Areas /\ pc[k] \in AfterGraph
    BY <2>2 DEF IInv, MapsInv, MainInv, TypeOK, AfterGraph
  <2>4. gridGraph' \in [Routers -> [Routers -> Nat]]
    BY <2>1, <2>3 DEF IInv, TypeOK, MergeInto
  <2>5. TypeOK'
    BY <1>1, <2>1, <2>2, <2>3, <2>4 DEF IInv, TypeOK
  <2>6. /\ \A i, j \in Areas : gridGraph'[i][j] = gridGraph[i][j]
        /\ \A j \in Areas : gridGraph'[Cross][j] = gridGraph[Cross][j] + gridGraph[k][j]
    BY <2>1 DEF IInv, TypeOK, MergeInto
  <2>7. DemandInv'
    <3>1. \A j \in Areas : gridGraph'[Cross][j] = IF j \in merged' THEN 1 ELSE 0
      BY <2>1, <2>3, <2>6 DEF IInv, DemandInv, HasRouted
    <3>2. QED
      BY <1>1, <2>2, <2>6, <3>1 DEF IInv, DemandInv
  <2>8. NoNetLost'
    BY <2>2 DEF NoNetLost
  <2>9. QED
    BY <1>2, <1>3, <1>4, <2>5, <2>7, <2>8 DEF IInv
<1>6. CASE Write
  <2>1. /\ outGRNet' = {o \in Net \X routedNets : o[1] \in nets[o[2]]}
        /\ main = "group" /\ main' = "written" /\ UNCHANGED <<gridGraph, merged>>
    BY <1>6 DEF Write
  <2>2. TypeOK'
    BY <1>1, <2>1 DEF IInv, TypeOK
  <2>3. DemandInv'
    BY <1>1, <2>1 DEF IInv, DemandInv
  <2>4. NoNetLost'
    <3>1. ASSUME raced = {}
          PROVE  outGRNet' = {o \in Net \X Routers : o[2] \in DOMAIN input /\ o[1] \in input[o[2]]}
      <4>1. \A k \in Routers : pc[k] = "done"
        BY <2>1 DEF IInv, MainInv
      <4>2. routedNets = Routers
        BY <3>1, <4>1 DEF IInv, MapsInv, TypeOK
      <4>3. \A k \in Routers : nets[k] = Given(k)
        BY <3>1, <4>1 DEF IInv, NetsInv
      <4>4. \A o \in Net \X Routers : o[1] \in nets[o[2]] <=> o[2] \in DOMAIN input /\ o[1] \in input[o[2]]
        BY <4>3 DEF Given
      <4>5. QED
        BY <2>1, <4>2, <4>4
    <3>2. QED
      BY <1>1, <3>1 DEF NoNetLost
  <2>5. QED
    BY <1>2, <1>3, <1>4, <2>2, <2>3, <2>4 DEF IInv
<1>7. CASE Join \/ Merged \/ CrossRouted
  <2>1. UNCHANGED <<gridGraph, merged, outGRNet>> /\ main' # "written"
    BY <1>7 DEF Join, Merged, CrossRouted, results
  <2>2. TypeOK' /\ NoNetLost'
    BY <1>1, <2>1 DEF IInv, TypeOK, NoNetLost
  <2>3. DemandInv'
    <3>1. ASSUME Merged, "routedGridGraph" \notin raced
          PROVE  merged = Areas
      <4>1. /\ \A k \in Areas : pc[k] = "done"
            /\ merged = routedGridGraph
        BY <3>1 DEF Merged, IInv, MainInv
      <4>2. Areas \subseteq routedGridGraph
        BY <3>1, <4>1 DEF IInv, MapsInv, AfterGraph
      <4>3. QED
        BY <4>1, <4>2 DEF IInv, TypeOK
    <3>2. main' = "areas" => main = "areas"
      BY <1>7 DEF Join, Merged, CrossRouted
    <3>3. main' \in {"cross", "group", "written"} => Merged \/ main \in {"cross", "group", "written"}
      BY <1>7 DEF Join, CrossRouted
    <3>4. QED
      BY <1>1, <2>1, <3>1, <3>2, <3>3 DEF IInv, DemandInv
  <2>4. QED
    BY <1>2, <1>3, <1>4, <2>2, <2>3 DEF IInv
<1>8. QED
  BY <1>5, <1>6, <1>7 DEF Main

(* The invariant holds at first. *)
LEMMA InitInv ==
  ASSUME Init
  PROVE  IInv
<1> USE RouterFacts
<1>1. TypeOK
  BY AreaThreadsAssumption DEF Init, TypeOK, MainPC, PC, Maps
<1>2. MutexInv /\ TablesInv /\ MainInv
  BY DEF Init, MutexInv, TablesInv, MainInv, InTree
<1>3. NetsInv /\ MapsInv /\ LookupsRace /\ NoNetLost
  <2>1. NetsInv /\ LookupsRace /\ NoNetLost
    BY DEF Init, NetsInv, LookupsRace, NoNetLost
  <2>2. MapsInv
    BY DEF Init, MapsInv, AfterGraph
  <2>3. QED
    BY <2>1, <2>2
<1>4. DemandInv
  BY DEF Init, DemandInv, HasRouted, AfterGraph
<1>5. QED
  BY <1>1, <1>2, <1>3, <1>4 DEF IInv
----------------------------------------------------------------------------
(* FLUTE, main's maps, the merge and the output, for every interleaving.   *)
THEOREM Invariant == Spec => []IInv
<1>1. IInv /\ [Next]_vars => IInv'
  <2> SUFFICES ASSUME IInv, [Next]_vars
               PROVE  IInv'
    OBVIOUS
  <2>1. CASE \E k \in Routers : Router(k)
    BY <2>1, RouterKeepsInv
  <2>2. CASE Main
    BY <2>2, MainKeepsInv
  <2>3. CASE UNCHANGED vars
    <3>1. \A k : Given(k)' = Given(k)
      BY <2>3 DEF vars, maps, flute, results, Given
    <3>2. QED
      BY <2>3, <3>1 DEF vars, maps, flute, results, IInv, TypeOK, MutexInv, TablesInv, MainInv,
                       LookupsRace, NetsInv, MapsInv, DemandInv, NoNetLost
  <2>4. QED
    BY <2>1, <2>2, <2>3 DEF Next, Returned
<1>2. QED
  BY <1>1, InitInv, PTL DEF Spec

(* Every variable of main and the routers is well typed. *)
THEOREM TypeCorrect == Spec => []TypeOK
<1>1. IInv => TypeOK
  BY DEF IInv
<1>2. QED
  BY <1>1, Invariant, PTL

(* FLUTE is never called on tables that are being read, or by two threads. *)
THEOREM FluteGuarded == Spec => []TablesInUse
<1>1. IInv => TablesInUse
  <2> SUFFICES ASSUME IInv, NEW k \in Routers, pc[k] \in InTree
               PROVE  /\ tables = "whole"
                      /\ \A j \in Routers \ {k} : pc[j] \notin InTree \cup {"reading"}
    BY DEF TablesInUse
  <2>1. \A j \in Routers \ {k} : pc[j] \notin InTree \cup {"reading"}
    BY DEF IInv, MutexInv
  <2>2. tables = "whole"
    BY <2>1 DEF IInv, TablesInv, InTree
  <2>3. QED
    BY <2>1, <2>2
<1>2. QED
  BY <1>1, Invariant, PTL

(* Lookups in par_nets only collide if the partition left an area empty.   *)
THEOREM LookupsOnlyRaceOnEmptyAreas == Spec => []LookupsRace
<1>1. IInv => LookupsRace
  BY DEF IInv
<1>2. QED
  BY <1>1, Invariant, PTL

(* Without a collision the cross nets are routed on all areas' demands.    *)
THEOREM AllDemandsMerged == Spec => []DemandsMerged
<1>1. IInv => DemandsMerged
  BY DEF IInv, DemandInv, DemandsMerged
<1>2. QED
  BY <1>1, Invariant, PTL

(* Without a collision the output has every net that was given to a router. *)
THEOREM OutputComplete == Spec => []NoNetLost
<1>1. IInv => NoNetLost
  BY DEF IInv
<1>2. QED
  BY <1>1, Invariant, PTL
----------------------------------------------------------------------------
(* What a router was given, if anything, is what the output has from it.   *)
GivenInv ==
  /\ \A k \in Routers : nets[k] \subseteq Given(k)
  /\ \A o \in outGRNet : o[1] \in Given(o[2])

(* Whatever is raced on, the output has nothing but nets that parNets gave *)
(* to a router.  So with fewer than four threads the nets of an area that  *)
(* has none, which the cut makes all the same, are not in it.              *)
OutputSound ==
  /\ outGRNet \subseteq {o \in Net \X Routers : o[2] \in DOMAIN input /\ o[1] \in input[o[2]]}
  /\ \A n \in Net : (\A k \in Routers \cap DOMAIN input : n \notin input[k]) =>
       \A o \in outGRNet : o[1] # n

(* A lookup gives a router its nets, or none. *)
LEMMA RouterKeepsGiven ==
  ASSUME IInv, GivenInv, NEW k \in Routers, Router(k)
  PROVE  GivenInv'
<1> USE DEF GivenInv
<1>1. \A j : Given(j)' = Given(j)
  BY DEF Given, Router, Begin, LookedUp, ReadTable, TableRead, BuildTree, TreeBuilt, Overflowing,
         Routed, InsertGridGraph, GridGraphInserted, InsertNets, NetsInserted
<1>2. outGRNet' = outGRNet
  BY DEF Router, Begin, LookedUp, ReadTable, TableRead, BuildTree, TreeBuilt, Overflowing,
         Routed, InsertGridGraph, GridGraphInserted, InsertNets, NetsInserted, results
<1>3. CASE LookedUp(k)
  <2>1. PICK answer : /\ nets' = [nets EXCEPT ![k] = answer]
                      /\ answer = {} \/ answer = IF k \in DOMAIN par_nets THEN par_nets[k] ELSE {}
    BY <1>3 DEF LookedUp
  <2>2. answer \subseteq Given(k)
    BY <2>1 DEF IInv, TypeOK, Given
  <2>3. \A j \in Routers : nets'[j] = IF j = k THEN answer ELSE nets[j]
    BY <2>1 DEF IInv, TypeOK
  <2>4. QED
    BY <1>1, <1>2, <2>2, <2>3
<1>4. CASE nets' = nets
  BY <1>1, <1>2, <1>4
<1>5. QED
  BY <1>3, <1>4
     DEF Router, Begin, ReadTable, TableRead, BuildTree, TreeBuilt, Overflowing,
         Routed, InsertGridGraph, GridGraphInserted, InsertNets, NetsInserted

(* Main writes what the routers have. *)
LEMMA MainKeepsGiven ==
  ASSUME IInv, GivenInv, Main
  PROVE  GivenInv'
<1> USE DEF GivenInv
<1>1. nets' = nets /\ \A j : Given(j)' = Given(j)
  BY DEF Given, Main, Join, Merge, Merged, CrossRouted, Write
<1>2. CASE Write
  <2>1. outGRNet' = {o \in Net \X routedNets : o[1] \in nets[o[2]]} /\ routedNets \subseteq Routers
    BY <1>2 DEF Write, IInv, TypeOK
  <2>2. QED
    BY <1>1, <2>1
<1>3. CASE outGRNet' = outGRNet
  BY <1>1, <1>3
<1>4. QED
  BY <1>2, <1>3 DEF Main, Join, Merge, Merged, CrossRouted, results

(* The output has nothing but what the routers were given. *)
THEOREM OutputIsSound == Spec => []OutputSound
<1>1. Init => GivenInv
  BY DEF Init, GivenInv
<1>2. IInv /\ GivenInv /\ [Next]_vars => GivenInv'
  <2>1. ASSUME UNCHANGED vars, GivenInv
        PROVE  GivenInv'
    <3>1. nets' = nets /\ outGRNet' = outGRNet /\ \A j : Given(j)' = Given(j)
      BY <2>1 DEF vars, maps, flute, results, Given
    <3>2. QED
      BY <2>1, <3>1 DEF GivenInv
  <2>2. QED
    BY <2>1, RouterKeepsGiven, MainKeepsGiven DEF Next, Returned
<1>3. IInv /\ GivenInv => OutputSound
  <2> SUFFICES ASSUME IInv, GivenInv
               PROVE  OutputSound
    OBVIOUS
  <2>1. ASSUME NEW o \in outGRNet
        PROVE  /\ o \in Net \X Routers /\ o[2] \in Routers
               /\ o[2] \in DOMAIN input /\ o[1] \in input[o[2]]
    BY DEF IInv, TypeOK, GivenInv, Given
  <2>2. QED
    BY <2>1 DEF OutputSound
<1>4. QED
  BY <1>1, <1>2, <1>3, Invariant, PTL DEF Spec

(* With one thread the two routers run one after the other, so no map is   *)
(* raced on: no net is lost, and the cross nets are routed on the area's   *)
(* demands.                                                                *)
OneThreadExact ==
  AreaThreads = 1 =>
    /\ raced = {}
    /\ main = "written" =>
         outGRNet = {o \in Net \X Routers : o[2] \in DOMAIN input /\ o[1] \in input[o[2]]}
    /\ main \in {"cross", "group", "written"} => gridGraph[Cross][0] = 1

(* A router that takes a step is alone. *)
LEMMA AloneStep ==
  ASSUME IInv, AreaThreads = 1, raced = {}, NEW k \in Routers, Router(k)
  PROVE  raced' = {}
<1>1. Areas = {0} /\ Routers = {0, Cross}
  BY DEF Areas, Routers
<1>2. \A j \in Routers \ {k} : pc[j] \in {"none", "done"}
  <2>1. CASE k = Cross
    <3>1. pc[0] = "done"
      BY <1>1, <2>1 DEF IInv, MainInv, Router, Begin, LookedUp, ReadTable, TableRead, BuildTree,
                        TreeBuilt, Overflowing, Routed, InsertGridGraph, GridGraphInserted,
                        InsertNets, NetsInserted, Lock
    <3>2. QED
      BY <1>1, <2>1, <3>1
  <2>2. CASE k # Cross
    <3>1. main = "areas"
      BY <1>1, <2>2, AreaThreadsAssumption
         DEF IInv, MainInv, Router, Begin, LookedUp, ReadTable, TableRead, BuildTree,
             TreeBuilt, Overflowing, Routed, InsertGridGraph, GridGraphInserted,
             InsertNets, NetsInserted, Lock
    <3>2. QED
      BY <1>1, <2>2, <3>1 DEF IInv, MainInv
  <2>3. QED
    BY <2>1, <2>2
<1>3. QED
  BY <1>2 DEF Router, Begin, LookedUp, ReadTable, TableRead, BuildTree, TreeBuilt, Overflowing,
              Routed, InsertGridGraph, GridGraphInserted, InsertNets, NetsInserted, Inserted, maps

(* So with one thread nothing depends on the order of the threads' steps.  *)
THEOREM OneThreadIsExact == Spec => []OneThreadExact
<1> DEFINE Alone == AreaThreads = 1 => raced = {}
<1>1. Init => Alone
  BY DEF Init
<1>2. IInv /\ Alone /\ [Next]_vars => Alone'
  <2>1. Main \/ UNCHANGED vars => raced' = raced
    BY DEF Main, Join, Merge, Merged, CrossRouted, Write, vars, maps
  <2>2. QED
    BY <2>1, AloneStep DEF Next, Returned
<1>3. IInv /\ Alone => OneThreadExact
  <2> SUFFICES ASSUME IInv, raced = {}, AreaThreads = 1
               PROVE  OneThreadExact
    BY DEF OneThreadExact
  <2>1. 0 \in Areas
    BY DEF Areas
  <2>2. QED
    BY <2>1 DEF OneThreadExact, IInv, NoNetLost, DemandInv
<1>4. QED
  <2> HIDE DEF Alone
  <2>1. QED
    BY <1>1, <1>2, <1>3, Invariant, PTL DEF Spec
=============================================================================
