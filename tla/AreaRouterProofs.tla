-------------------------- MODULE AreaRouterProofs --------------------------
(***************************************************************************)
(* Proofs about AreaRouter, and about the grid it updates, for every grid, *)
(* every set of nets and every choice of candidate trees.                  *)
(***************************************************************************)
EXTENDS AreaRouter, FiniteSums

(* The entry of the cost view an edge is summed up in. *)
ViewOf(e) == ViewCell(layerDirections[e[1]], Cell(e))

(* The cells between two cells, both included. *)
Between(p, a, b) ==
  /\ Low(a[1], b[1]) <= p[1] /\ p[1] <= High(a[1], b[1])
  /\ Low(a[2], b[2]) <= p[2] /\ p[2] <= High(a[2], b[2])

(* A segment with legal ends: its layers, cells and coordinates. *)
LEMMA LegalParts ==
  ASSUME NEW s, Legal(s)
  PROVE  /\ s.u.l \in Layers /\ s.v.l \in Layers
         /\ s.u.c \in Cells /\ s.v.c \in Cells
         /\ layerDirections[s.u.l] \in {H, V}
BY GridAssumption DEF Legal, Points

(* The parts of a cell. *)
LEMMA CellParts ==
  ASSUME NEW c \in Cells
  PROVE  /\ c[1] \in 0 .. xSize - 1 /\ c[2] \in 0 .. ySize - 1
         /\ c = <<c[1], c[2]>>
BY DEF Cells

(* The parts of an edge. *)
LEMMA EdgeParts ==
  ASSUME NEW l \in Layers, NEW x \in 0 .. xSize - 1, NEW y \in 0 .. ySize - 1
  PROVE  <<l, x, y>> \in Edges <=>
           Coord(<<x, y>>, layerDirections[l]) < getSize(layerDirections[l]) - 1
BY DEF Edges, Cell

(* An edge is on a layer and has a successor along it. *)
LEMMA EdgeType ==
  ASSUME NEW e \in Edges
  PROVE  /\ e[1] \in Layers /\ e[2] \in 0 .. xSize - 1 /\ e[3] \in 0 .. ySize - 1
         /\ e = <<e[1], e[2], e[3]>>
         /\ Coord(Cell(e), layerDirections[e[1]]) < getSize(layerDirections[e[1]]) - 1
BY DEF Edges

(* The ends of an edge are points. *)
LEMMA EndsType ==
  ASSUME NEW e \in Edges, NEW p \in Ends(e)
  PROVE  p[1] \in Int /\ p[2] \in Int
<1>1. e[2] \in Int /\ e[3] \in Int
  BY EdgeType, GridAssumption
<1>2. Cell(e)[1] \in Int /\ Cell(e)[2] \in Int
  BY <1>1 DEF Cell
<1>3. CASE p = Cell(e)
  BY <1>2, <1>3
<1>4. CASE p = Shift(Cell(e), layerDirections[e[1]], 1)
  BY <1>2, <1>4 DEF Shift
<1>5. QED
  BY <1>3, <1>4 DEF Ends
----------------------------------------------------------------------------
(* A wire's edges follow it: each lies on the wire's layer and joins two   *)
(* cells between the wire's ends.                                          *)
LEMMA WireEdge ==
  ASSUME NEW s, Legal(s), IsWire(s), NEW e \in WireEdges(s)
  PROVE  /\ e \in Edges
         /\ \A p \in Ends(e) : Between(p, s.u.c, s.v.c)
<1> DEFINE l == s.u.l
           d == layerDirections[l]
           a == Coord(s.u.c, d)
           b == Coord(s.v.c, d)
<1>1. /\ l \in Layers /\ d \in {H, V}
      /\ s.u.c \in Cells /\ s.v.c \in Cells
      /\ s.u.c[1] \in 0 .. xSize - 1 /\ s.u.c[2] \in 0 .. ySize - 1
      /\ s.v.c[1] \in 0 .. xSize - 1 /\ s.v.c[2] \in 0 .. ySize - 1
  BY LegalParts, CellParts
<1>2. PICK x \in Low(a, b) .. High(a, b) - 1 : e = Edge(l, Shift(s.u.c, d, x - a))
  BY DEF WireEdges
<1>3. Coord(s.u.c, 1 - d) = Coord(s.v.c, 1 - d)
  BY DEF Legal
<1>4. CASE d = H
  <2>1. /\ a = s.u.c[1] /\ b = s.v.c[1] /\ s.u.c[2] = s.v.c[2]
    BY <1>3, <1>4 DEF Coord, H
  <2>2. x \in Int /\ Low(a, b) <= x /\ x <= High(a, b) - 1
    BY <1>1, <1>2, <2>1 DEF Low, High
  <2>3. /\ x \in 0 .. xSize - 1 /\ x < xSize - 1
    BY <1>1, <2>1, <2>2, GridAssumption DEF Low, High
  <2>4. e = <<l, x, s.u.c[2]>>
    BY <1>1, <1>2, <1>4, <2>1, <2>2 DEF Edge, Shift
  <2>5. e \in Edges
    BY <1>1, <1>4, <2>3, <2>4, EdgeParts DEF Coord, getSize
  <2>6. Ends(e) = {<<x, s.u.c[2]>>, <<x + 1, s.u.c[2]>>}
    BY <1>4, <2>4 DEF Ends, Cell, Shift
  <2>7. \A p \in Ends(e) : Between(p, s.u.c, s.v.c)
    BY <1>1, <2>1, <2>2, <2>6 DEF Between, Low, High
  <2>8. QED
    BY <2>5, <2>7
<1>5. CASE d = V
  <2>1. /\ a = s.u.c[2] /\ b = s.v.c[2] /\ s.u.c[1] = s.v.c[1]
    BY <1>3, <1>5 DEF Coord, H, V
  <2>2. x \in Int /\ Low(a, b) <= x /\ x <= High(a, b) - 1
    BY <1>1, <1>2, <2>1 DEF Low, High
  <2>3. /\ x \in 0 .. ySize - 1 /\ x < ySize - 1
    BY <1>1, <2>1, <2>2, GridAssumption DEF Low, High
  <2>4. e = <<l, s.u.c[1], x>>
    BY <1>1, <1>2, <1>5, <2>1, <2>2 DEF Edge, Shift, H, V
  <2>5. e \in Edges
    BY <1>1, <1>5, <2>3, <2>4, EdgeParts DEF Coord, getSize, H, V
  <2>6. Ends(e) = {<<s.u.c[1], x>>, <<s.u.c[1], x + 1>>}
    BY <1>5, <2>4 DEF Ends, Cell, Shift, H, V
  <2>7. \A p \in Ends(e) : Between(p, s.u.c, s.v.c)
    BY <1>1, <2>1, <2>2, <2>6 DEF Between, Low, High
  <2>8. QED
    BY <2>5, <2>7
<1>6. QED
  BY <1>1, <1>4, <1>5

(* A via's edges leave its cell, on layers it passes through. *)
LEMMA ViaEdge ==
  ASSUME NEW s, Legal(s), IsVia(s), NEW e \in ViaEdges(s)
  PROVE  /\ e \in Edges
         /\ e[1] \in NonStackLayers(s)
         /\ s.u.c \in Ends(e)
         /\ \/ Cell(e) = s.u.c
            \/ /\ Cell(e) = Shift(s.u.c, layerDirections[e[1]], -1)
               /\ Coord(s.u.c, layerDirections[e[1]]) > 0
<1>1. PICK l \in NonStackLayers(s) : e \in NonStackEdges(l, s.u.c)
  BY DEF ViaEdges
<1> DEFINE c == s.u.c
           d == layerDirections[l]
<1>2. /\ l \in Layers /\ d \in {H, V} /\ c \in Cells
      /\ c[1] \in 0 .. xSize - 1 /\ c[2] \in 0 .. ySize - 1 /\ c = <<c[1], c[2]>>
  BY <1>1, LegalParts, CellParts, GridAssumption DEF NonStackLayers
<1>3. CASE e = Edge(l, Shift(c, d, -1)) /\ LowSide(l, c)
  <2>1. CASE d = H
    <3>1. e = <<l, c[1] - 1, c[2]>> /\ c[1] > 0
      BY <1>2, <1>3, <2>1 DEF Edge, Shift, LowSide, Coord
    <3>2. c[1] - 1 \in 0 .. xSize - 1 /\ c[1] - 1 < xSize - 1
      BY <1>2, <3>1, GridAssumption
    <3>3. e \in Edges
      BY <1>2, <2>1, <3>1, <3>2, EdgeParts DEF Coord, getSize
    <3>4. Shift(Cell(e), d, 1) = c
      BY <1>2, <2>1, <3>1 DEF Cell, Shift
    <3>5. Cell(e) = Shift(c, d, -1) /\ e[1] = l
      BY <1>2, <2>1, <3>1 DEF Cell, Shift
    <3>6. QED
      BY <1>1, <1>3, <3>3, <3>4, <3>5 DEF Ends, LowSide
  <2>2. CASE d = V
    <3>1. e = <<l, c[1], c[2] - 1>> /\ c[2] > 0
      BY <1>2, <1>3, <2>2 DEF Edge, Shift, LowSide, Coord, H, V
    <3>2. c[2] - 1 \in 0 .. ySize - 1 /\ c[2] - 1 < ySize - 1
      BY <1>2, <3>1, GridAssumption
    <3>3. e \in Edges
      BY <1>2, <2>2, <3>1, <3>2, EdgeParts DEF Coord, getSize, H, V
    <3>4. Shift(Cell(e), d, 1) = c
      BY <1>2, <2>2, <3>1 DEF Cell, Shift, H, V
    <3>5. Cell(e) = Shift(c, d, -1) /\ e[1] = l
      BY <1>2, <2>2, <3>1 DEF Cell, Shift, H, V
    <3>6. QED
      BY <1>1, <1>3, <3>3, <3>4, <3>5 DEF Ends, LowSide
  <2>3. QED
    BY <1>2, <2>1, <2>2
<1>4. CASE e = Edge(l, c) /\ HighSide(l, c)
  <2>1. e = <<l, c[1], c[2]>> /\ Cell(e) = c /\ e[1] = l
    BY <1>2, <1>4 DEF Edge, Cell
  <2>2. e \in Edges
    BY <1>2, <1>4, <2>1, EdgeParts DEF HighSide
  <2>3. QED
    BY <1>1, <2>1, <2>2 DEF Ends
<1>5. QED
  BY <1>1, <1>3, <1>4 DEF NonStackEdges

(* What a segment updates are edges of the grid. *)
LEMMA SegmentEdgesType ==
  ASSUME NEW s, Legal(s)
  PROVE  SegmentEdges(s) \subseteq Edges
BY WireEdge, ViaEdge DEF SegmentEdges, IsWire, IsVia

(* A tree updates edges of the grid only. *)
LEMMA CommitsType ==
  ASSUME NEW t, DOMAIN t \subseteq Nat, \A k \in DOMAIN t : Legal(t[k])
  PROVE  Commits(t) \subseteq Nat \X Edges
<1> SUFFICES ASSUME NEW u \in Commits(t)
             PROVE  u \in Nat \X Edges
  OBVIOUS
<1>1. PICK k \in DOMAIN t : \E e \in SegmentEdges(t[k]) : u = <<k, e>>
  BY DEF Commits
<1>2. QED
  BY <1>1, SegmentEdgesType
----------------------------------------------------------------------------
(* updateWireCostView reaches every entry whose demands a tree changes: of *)
(* wires, and of the half-track updates of vias on either side.            *)
LEMMA UpdateCovers ==
  ASSUME NEW t, \A k \in DOMAIN t : Legal(t[k]), NEW e \in TreeEdges(t)
  PROVE  ViewOf(e) \in UpdatedCells(t)
<1>1. PICK k \in DOMAIN t : e \in SegmentEdges(t[k])
  BY DEF TreeEdges
<1> DEFINE s == t[k]
<1>2. Legal(s)
  OBVIOUS
<1>3. e \in Edges
  BY <1>1, <1>2, SegmentEdgesType
<1>4. ViewOf(e) \in ViewCells
  <2>1. /\ layerDirections[e[1]] \in {H, V}
        /\ e[2] \in 0 .. xSize - 1 /\ e[3] \in 0 .. ySize - 1
        /\ Coord(Cell(e), layerDirections[e[1]]) < getSize(layerDirections[e[1]]) - 1
    BY <1>3, EdgeType, GridAssumption
  <2>2. ViewOf(e) = <<layerDirections[e[1]], e[2], e[3]>>
    BY DEF ViewOf, ViewCell, Cell
  <2>3. QED
    BY <2>1, <2>2 DEF ViewCells, Cell
<1>5. CASE IsWire(s)
  <2>1. ViewOf(e) \in WireViewCells(s)
    BY <1>1, <1>5 DEF WireViewCells, ViewOf, SegmentEdges
  <2>2. QED
    BY <1>4, <1>5, <2>1 DEF UpdatedCells
<1>6. CASE IsVia(s)
  <2>1. e \in ViaEdges(s)
    BY <1>1, <1>6 DEF SegmentEdges, IsWire, IsVia
  <2>2. /\ e[1] \in NonStackLayers(s)
        /\ \/ Cell(e) = s.u.c
           \/ /\ Cell(e) = Shift(s.u.c, layerDirections[e[1]], -1)
              /\ Coord(s.u.c, layerDirections[e[1]]) > 0
    BY <1>2, <1>6, <2>1, ViaEdge
  <2>3. e[1] \in Low(s.u.l, s.v.l) .. High(s.u.l, s.v.l) - 1
    BY <1>2, <2>2, LegalParts, GridAssumption DEF NonStackLayers, Layers, Low, High
  <2>4. ViewOf(e) \in ViaViewCells(s)
    BY <2>2, <2>3 DEF ViaViewCells, ViewOf
  <2>5. QED
    BY <1>4, <1>6, <2>4 DEF UpdatedCells, IsWire, IsVia
<1>7. QED
  BY <1>5, <1>6 DEF IsWire, IsVia

(* An entry that is not updated has kept all of its demands. *)
LEMMA OthersKeepDemand ==
  ASSUME NEW t, \A k \in DOMAIN t : Legal(t[k]), NEW old,
         NEW v \in ViewCells \ UpdatedCells(t)
  PROVE  ViewDemand(Commit(old, t), v) = ViewDemand(old, v)
<1>1. /\ v[1] \in {H, V} /\ v[2] \in 0 .. xSize - 1 /\ v[3] \in 0 .. ySize - 1
      /\ v = <<v[1], v[2], v[3]>>
      /\ Coord(<<v[2], v[3]>>, v[1]) < getSize(v[1]) - 1
  BY DEF ViewCells
<1>2. ASSUME NEW l \in ViewLayers(v[1])
      PROVE  Commit(old, t)[<<l, v[2], v[3]>>] = old[<<l, v[2], v[3]>>]
  <2> DEFINE e == <<l, v[2], v[3]>>
  <2>1. l \in Layers /\ layerDirections[l] = v[1]
    BY DEF ViewLayers
  <2>2. e \in Edges
    BY <1>1, <2>1, EdgeParts
  <2>3. ViewOf(e) = v
    BY <1>1, <2>1 DEF ViewOf, ViewCell, Cell
  <2>4. e \notin TreeEdges(t)
    BY <2>3, UpdateCovers
  <2>5. QED
    BY <2>2, <2>4 DEF Commit
<1>3. [l \in ViewLayers(v[1]) |-> Commit(old, t)[<<l, v[2], v[3]>>]]
        = [l \in ViewLayers(v[1]) |-> old[<<l, v[2], v[3]>>]]
  BY <1>2
<1>4. QED
  BY <1>3 DEF ViewDemand

(* Updating a fresh view after a commit leaves it fresh. *)
LEMMA UpdateKeepsFresh ==
  ASSUME NEW t, \A k \in DOMAIN t : Legal(t[k]), NEW old
  PROVE  updateWireCostView(extractWireCostView(old), Commit(old, t), t)
           = extractWireCostView(Commit(old, t))
BY OthersKeepDemand DEF updateWireCostView, extractWireCostView
----------------------------------------------------------------------------
(* What the updates us of tree t take of edge e. *)
Taken(t, us, e) == SumFunction([u \in {u \in us : u[2] = e} |-> CommitDemand(t, u)])

(* Demands are natural numbers. *)
LEMMA DemandType ==
  ASSUME NEW t, NEW u, NEW k, NEW e
  PROVE  CommitDemand(t, u) \in Nat /\ SegmentDemand(t[k], e) \in Nat
BY DEF CommitDemand, SegmentDemand, NonStackDemand

(* A tree updates an edge at most once for each of its pairs. *)
LEMMA UpdatesFinite ==
  ASSUME NEW t, IsFiniteSet(DOMAIN t), NEW us \in SUBSET Commits(t), NEW e
  PROVE  IsFiniteSet({u \in us : u[2] = e})
<1> DEFINE T == {u \in us : u[2] = e}
           h == [u \in T |-> u[1]]
<1>1. \A u \in T : u[1] \in DOMAIN t /\ u = <<u[1], e>>
  BY DEF Commits
<1>2. h \in [T -> DOMAIN t] /\ \A u, v \in T : h[u] = h[v] => u = v
  BY <1>1
<1>3. QED
  <2> HIDE DEF T, h
  <2>1. h \in Injection(T, DOMAIN t)
    BY <1>2, Fun_IsInj
  <2>2. IsFiniteSet(T)
    BY <2>1, FS_Injection
  <2>3. QED
    BY <2>2 DEF T

(* What a tree's updates of an edge take is a natural number. *)
LEMMA TakenType ==
  ASSUME NEW t, IsFiniteSet(DOMAIN t), NEW us \in SUBSET Commits(t), NEW e
  PROVE  Taken(t, us, e) \in Nat
<1> DEFINE f == [u \in {u \in us : u[2] = e} |-> CommitDemand(t, u)]
<1>1. IsFiniteSet(DOMAIN f) /\ \A u \in DOMAIN f : f[u] \in Nat
  BY UpdatesFinite, DemandType
<1>2. QED
  <2> HIDE DEF f
  <2>1. SumFunction(f) \in Nat
    BY <1>1, SumType
  <2>2. QED
    BY <2>1 DEF Taken, f

(* No updates take nothing. *)
LEMMA TakenNone ==
  ASSUME NEW t, NEW e
  PROVE  Taken(t, {}, e) = 0
<1> DEFINE f == [u \in {u \in {} : u[2] = e} |-> CommitDemand(t, u)]
<1>1. DOMAIN f = {}
  OBVIOUS
<1>2. QED
  <2> HIDE DEF f
  <2>1. SumFunction(f) = 0
    BY <1>1, SumOfNone
  <2>2. QED
    BY <2>1 DEF Taken, f

(* One update more. *)
LEMMA TakenAdd ==
  ASSUME NEW t, IsFiniteSet(DOMAIN t), NEW us \in SUBSET Commits(t),
         NEW v \in Commits(t), v \notin us, NEW e
  PROVE  Taken(t, us \cup {v}, e)
           = Taken(t, us, e) + (IF v[2] = e THEN CommitDemand(t, v) ELSE 0)
<1> DEFINE old == {u \in us : u[2] = e}
           new == {u \in us \cup {v} : u[2] = e}
           f == [u \in old |-> CommitDemand(t, u)]
           g == [u \in new |-> CommitDemand(t, u)]
<1>1. CASE v[2] = e
  <2>1. IsFiniteSet(old) /\ v \notin old /\ new = old \cup {v}
    BY <1>1, UpdatesFinite
  <2>2. /\ DOMAIN f = old /\ DOMAIN g = old \cup {v}
        /\ \A u \in old : f[u] \in Nat /\ g[u] = f[u]
        /\ g[v] = CommitDemand(t, v) /\ g[v] \in Nat
    BY <2>1, DemandType
  <2>3. SumFunction(g) = SumFunction(f) + g[v]
    <3> HIDE DEF f, g, old, new
    <3>1. QED
      BY <2>1, <2>2, SumAdd
  <2>4. QED
    BY <1>1, <2>2, <2>3 DEF Taken
<1>2. CASE v[2] # e
  <2>1. new = old
    BY <1>2
  <2>2. Taken(t, us, e) \in Nat
    BY TakenType
  <2>3. Taken(t, us \cup {v}, e) = Taken(t, us, e)
    BY <2>1 DEF Taken
  <2>4. QED
    BY <1>2, <2>2, <2>3
<1>3. QED
  BY <1>1, <1>2

(* All the updates of a tree take what the tree as a whole takes. *)
LEMMA TakenAll ==
  ASSUME NEW t, IsFiniteSet(DOMAIN t), NEW e
  PROVE  /\ Taken(t, Commits(t), e) = Usage(t, e)
         /\ e \notin TreeEdges(t) => Taken(t, Commits(t), e) = 0
<1> DEFINE T == {u \in Commits(t) : u[2] = e}
           f == [k \in DOMAIN t |->
                   IF e \in SegmentEdges(t[k]) THEN SegmentDemand(t[k], e) ELSE 0]
           g == [u \in T |-> CommitDemand(t, u)]
           h == [u \in T |-> u[1]]
<1>1. \A u \in T : u[1] \in DOMAIN t /\ u = <<u[1], e>> /\ e \in SegmentEdges(t[u[1]])
  BY DEF Commits
<1>2. /\ f \in [DOMAIN t -> Nat] /\ g \in [T -> Nat] /\ h \in [T -> DOMAIN t]
      /\ \A u, v \in T : h[u] = h[v] => u = v
  BY <1>1, DemandType
<1>3. \A u \in T : g[u] = f[h[u]]
  BY <1>1 DEF CommitDemand
<1>4. ASSUME NEW k \in DOMAIN t, \A u \in T : h[u] # k
      PROVE  f[k] = 0
  <2>1. e \in SegmentEdges(t[k]) => <<k, e>> \in T
    BY DEF Commits
  <2>2. QED
    BY <1>4, <2>1
<1>5. SumFunction(g) = SumFunction(f)
  <2> HIDE DEF T, f, g, h
  <2>1. QED
    BY <1>2, <1>3, <1>4, SumReindexed
<1>6. e \notin TreeEdges(t) => DOMAIN g = {}
  BY <1>1 DEF TreeEdges
<1>7. e \notin TreeEdges(t) => SumFunction(g) = 0
  <2> HIDE DEF g
  <2>1. QED
    BY <1>6, SumOfNone
<1>8. QED
  BY <1>5, <1>7 DEF Taken, Usage
----------------------------------------------------------------------------
(* Where a job is says what it may still have to commit. *)
JobInv ==
  \A n \in Nets :
    /\ n \notin batch => jobPc[n] = "idle"
    /\ IF jobPc[n] \in {"ripup", "commit"}
         THEN todo[n] \subseteq Commits(tree[n]) ELSE todo[n] = {}
    /\ jobPc[n] = "ripup" => pc = "stage2"
    /\ updating[n] \subseteq todo[n]
    /\ pc = "stage1" /\ jobPc[n] \in {"commit", "done"} => tree[n] \in PatternTrees[n]

(* A batch is routed in the first two stages only; its boxes are disjoint. *)
BatchInv ==
  /\ pc \in {"ripup", "maze", "done"} => batch = {}
  /\ \A m, n \in batch : m # n => ~Overlap(boundingBox[m], boundingBox[n])

(* In stage 1 the nets without a tree are those that still wait for their  *)
(* batch or their job.                                                     *)
TreeInv ==
  /\ \A n \in Nets : tree[n] \in {NoTree} \cup Trees(n)
  /\ pc = "stage1" =>
       /\ netIndices = Nets
       /\ \A n \in Nets : n \in pending \/ jobPc[n] = "todo" <=> tree[n] = NoTree
  /\ EveryNetRouted

NumbersInv ==
  demand \in [Edges -> Int] /\ capacity \in [Edges -> Int] /\ reg \in [Nets -> Int]

(* A job makes one update at a time.  On an edge that never saw two at     *)
(* once it is alone, and what it loaded is still the demand.               *)
AccessInv ==
  \A n \in Nets : \A u \in updating[n] :
    /\ updating[n] = {u}
    /\ u[2] \notin contended =>
         /\ reg[n] = demand[u[2]]
         /\ \A m \in Nets \ {n} : \A w \in updating[m] : w[2] # u[2]

(* Until the next job or rip-up, the last check of the nets stands. *)
CheckedInv ==
  JustChecked =>
    \A n \in Nets \ netIndices : ~checkOverflow(capacity, demand, tree[n])

IInv ==
  /\ ControlTypeOK /\ JobInv /\ BatchInv /\ TreeInv /\ ViewFresh
  /\ NumbersInv /\ AccessInv /\ DemandExact /\ CheckedInv
----------------------------------------------------------------------------

(* What is assumed of the candidate trees of a net. *)
LEMMA TreeFacts ==
  ASSUME NEW n \in Nets, NEW t \in Trees(n)
  PROVE  /\ t # NoTree /\ IsFiniteSet(DOMAIN t)
         /\ \A k \in DOMAIN t : Legal(t[k])
         /\ Commits(t) \subseteq Nat \X Edges
         /\ t \in {NoTree} \cup UNION {Trees(m) : m \in Nets}
<1>1. /\ t # NoTree /\ DOMAIN t \subseteq Nat /\ IsFiniteSet(DOMAIN t)
      /\ \A k \in DOMAIN t : Legal(t[k])
  BY AreaAssumption
<1>2. Commits(t) \subseteq Nat \X Edges
  BY <1>1, CommitsType
<1>3. QED
  BY <1>1, <1>2

(* The actions of a step, one by one. *)
LEMMA Cases ==
  ASSUME [Next]_vars
  PROVE  \/ PickBatch \/ BatchJoined
         \/ \E n \in Nets : RunPattern(n)
         \/ \E n \in Nets : RipUp(n)
         \/ \E n \in Nets : RunDetours(n)
         \/ \E n \in Nets : Load(n)
         \/ \E n \in Nets : Store(n)
         \/ \E n \in Nets : JobDone(n)
         \/ CheckPatterns \/ CheckDetours
         \/ \E n \in Nets : RipUpForMaze(n)
         \/ ExtractView
         \/ \E n \in Nets : MazeRoute(n)
         \/ CheckMaze
         \/ UNCHANGED vars
BY DEF Next, Step, Job, Returned

(* What a net has in the demands is part of its tree. *)
LEMMA CommittedFacts ==
  ASSUME JobInv, TreeInv, NEW n \in Nets
  PROVE  /\ Committed(n) \subseteq Commits(tree[n])
         /\ Committed(n) # {} => tree[n] \in Trees(n)
         /\ \A e : Share(n, e) = Taken(tree[n], Committed(n), e) /\ Share(n, e) \in Nat
<1>1. Committed(n) \subseteq Commits(tree[n])
  BY DEF Committed, JobInv
<1>2. Committed(n) # {} => tree[n] \in Trees(n)
  BY DEF Committed, JobInv, TreeInv, EveryNetRouted, Trees
<1>3. ASSUME NEW e
      PROVE  Share(n, e) = Taken(tree[n], Committed(n), e) /\ Share(n, e) \in Nat
  <2>1. Share(n, e) = Taken(tree[n], Committed(n), e)
    BY DEF Share, Taken
  <2>2. CASE Committed(n) = {}
    BY <2>1, <2>2, TakenNone
  <2>3. CASE Committed(n) # {}
    BY <1>1, <1>2, <2>1, <2>3, TreeFacts, TakenType
  <2>4. QED
    BY <2>1, <2>2, <2>3
<1>4. QED
  BY <1>1, <1>2, <1>3

(* The invariant holds at first. *)
LEMMA InitInv == Init => IInv
<1> SUFFICES ASSUME Init
             PROVE  IInv
  OBVIOUS
<1>1. ControlTypeOK
  BY DEF Init, ControlTypeOK
<1>2. JobInv /\ BatchInv /\ TreeInv /\ ViewFresh
  BY DEF Init, JobInv, BatchInv, TreeInv, EveryNetRouted, ViewFresh
<1>3. NumbersInv /\ AccessInv /\ CheckedInv
  BY AreaAssumption DEF Init, NumbersInv, AccessInv, CheckedInv, JustChecked
<1>4. DemandExact
  <2> SUFFICES ASSUME NEW e \in Edges
               PROVE  demand[e] = TrueDemand(e)
    BY DEF DemandExact
  <2> DEFINE f == [n \in Nets |-> Share(n, e)]
  <2>1. ASSUME NEW n \in Nets
        PROVE  f[n] = 0
    <3>1. Committed(n) = {}
      BY DEF Init, Committed
    <3>2. Share(n, e) = 0
      BY <1>2, <3>1, CommittedFacts, TakenNone
    <3>3. QED
      BY <3>2
  <2>2. SumFunction(f) = 0
    <3> HIDE DEF f
    <3>1. DOMAIN f = Nets
      BY DEF f
    <3>2. QED
      BY <2>1, <3>1, AreaAssumption, SumOfZeros
  <2>3. QED
    BY <2>2 DEF Init, TrueDemand
<1>5. QED
  BY <1>1, <1>2, <1>3, <1>4 DEF IInv

(* Every step keeps the types. *)
LEMMA TypeStep == IInv /\ [Next]_vars => ControlTypeOK'
<1> SUFFICES ASSUME IInv, [Next]_vars
             PROVE  ControlTypeOK'
  OBVIOUS
<1> USE DEF ControlTypeOK
<1>1. ControlTypeOK
  BY DEF IInv
<1>2. CASE PickBatch
  BY <1>1, <1>2 DEF PickBatch
<1>3. CASE BatchJoined
  BY <1>1, <1>3 DEF BatchJoined
<1>4. ASSUME NEW n \in Nets, RunPattern(n)
      PROVE  ControlTypeOK'
  <2>1. PICK t \in PatternTrees[n] :
          tree' = [tree EXCEPT ![n] = t] /\ todo' = [todo EXCEPT ![n] = Commits(t)]
    BY <1>4 DEF RunPattern, Run
  <2>2. Commits(t) \subseteq Nat \X Edges /\ t \in {NoTree} \cup UNION {Trees(m) : m \in Nets}
    BY TreeFacts DEF Trees
  <2>3. QED
    BY <1>1, <1>4, <2>1, <2>2 DEF RunPattern, Run
<1>5. ASSUME NEW n \in Nets, RipUp(n)
      PROVE  ControlTypeOK'
  <2>1. tree[n] \in Trees(n)
    BY <1>5 DEF IInv, TreeInv, EveryNetRouted, RipUp
  <2>2. Commits(tree[n]) \subseteq Nat \X Edges
    BY <2>1, TreeFacts
  <2>3. QED
    BY <1>1, <1>5, <2>2 DEF RipUp
<1>6. ASSUME NEW n \in Nets, RunDetours(n)
      PROVE  ControlTypeOK'
  <2>1. PICK t \in DetourTrees[n] :
          tree' = [tree EXCEPT ![n] = t] /\ todo' = [todo EXCEPT ![n] = Commits(t)]
    BY <1>6 DEF RunDetours, Run
  <2>2. Commits(t) \subseteq Nat \X Edges /\ t \in {NoTree} \cup UNION {Trees(m) : m \in Nets}
    BY TreeFacts DEF Trees
  <2>3. QED
    BY <1>1, <1>6, <2>1, <2>2 DEF RunDetours, Run
<1>7. ASSUME NEW n \in Nets, Load(n)
      PROVE  ControlTypeOK'
  <2>1. PICK u \in todo[n] :
          /\ updating' = [updating EXCEPT ![n] = {u}]
          /\ contended' \subseteq contended \cup {u[2]}
    BY <1>7 DEF Load
  <2>2. u \in Nat \X Edges
    BY <1>1
  <2>3. QED
    BY <1>1, <1>7, <2>1, <2>2 DEF Load
<1>8. ASSUME NEW n \in Nets, Store(n)
      PROVE  ControlTypeOK'
  BY <1>1, <1>8 DEF Store
<1>9. ASSUME NEW n \in Nets, JobDone(n)
      PROVE  ControlTypeOK'
  BY <1>1, <1>9 DEF JobDone
<1>10. CASE CheckPatterns \/ CheckDetours
  BY <1>1, <1>10 DEF CheckPatterns, CheckDetours, Recheck, Overflows, jobs
<1>11. ASSUME NEW n \in Nets, RipUpForMaze(n)
       PROVE  ControlTypeOK'
  BY <1>1, <1>11 DEF RipUpForMaze, jobs
<1>12. CASE ExtractView
  BY <1>1, <1>12 DEF ExtractView, jobs, IInv, BatchInv
<1>13. ASSUME NEW n \in Nets, MazeRoute(n)
       PROVE  ControlTypeOK'
  <2>1. PICK t \in MazeTrees[n] : tree' = [tree EXCEPT ![n] = t]
    BY <1>13 DEF MazeRoute
  <2>2. t \in {NoTree} \cup UNION {Trees(m) : m \in Nets}
    BY TreeFacts DEF Trees
  <2>3. QED
    BY <1>1, <1>13, <2>1, <2>2 DEF MazeRoute, jobs
<1>14. CASE CheckMaze
  BY <1>1, <1>14 DEF CheckMaze, Overflows, jobs, IInv, BatchInv
<1>15. CASE UNCHANGED vars
  BY <1>1, <1>15 DEF vars, jobs
<1>16. QED
  BY <1>2, <1>3, <1>4, <1>5, <1>6, <1>7, <1>8, <1>9, <1>10, <1>11, <1>12, <1>13,
     <1>14, <1>15, Cases

(* Only a net's own job touches its updates and its tree. *)
LEMMA JobStep == IInv /\ [Next]_vars => JobInv'
<1> SUFFICES ASSUME IInv, [Next]_vars
             PROVE  JobInv'
  OBVIOUS
<1> USE DEF JobInv
<1>1. JobInv /\ ControlTypeOK
  BY DEF IInv
<1>2. CASE PickBatch
  <2>1. \A n \in Nets : jobPc[n] = "idle" /\ todo[n] = {} /\ updating[n] = {}
    BY <1>1, <1>2 DEF PickBatch
  <2>2. QED
    BY <1>1, <1>2, <2>1 DEF PickBatch, ControlTypeOK
<1>3. CASE BatchJoined
  <2>1. \A n \in Nets : todo[n] = {} /\ updating[n] = {}
    BY <1>1, <1>3 DEF BatchJoined
  <2>2. QED
    BY <1>1, <1>3, <2>1 DEF BatchJoined
<1>4. ASSUME NEW n \in Nets, RunPattern(n)
      PROVE  JobInv'
  <2>1. PICK t \in PatternTrees[n] :
          tree' = [tree EXCEPT ![n] = t] /\ todo' = [todo EXCEPT ![n] = Commits(t)]
    BY <1>4 DEF RunPattern, Run
  <2>2. QED
    BY <1>1, <1>4, <2>1 DEF RunPattern, Run, ControlTypeOK
<1>5. ASSUME NEW n \in Nets, RipUp(n)
      PROVE  JobInv'
  BY <1>1, <1>5 DEF RipUp, ControlTypeOK
<1>6. ASSUME NEW n \in Nets, RunDetours(n)
      PROVE  JobInv'
  <2>1. PICK t \in DetourTrees[n] :
          tree' = [tree EXCEPT ![n] = t] /\ todo' = [todo EXCEPT ![n] = Commits(t)]
    BY <1>6 DEF RunDetours, Run
  <2>2. QED
    BY <1>1, <1>6, <2>1 DEF RunDetours, Run, ControlTypeOK
<1>7. ASSUME NEW n \in Nets, Load(n)
      PROVE  JobInv'
  BY <1>1, <1>7 DEF Load, ControlTypeOK
<1>8. ASSUME NEW n \in Nets, Store(n)
      PROVE  JobInv'
  BY <1>1, <1>8 DEF Store, ControlTypeOK
<1>9. ASSUME NEW n \in Nets, JobDone(n)
      PROVE  JobInv'
  BY <1>1, <1>9 DEF JobDone, ControlTypeOK
<1>10. CASE CheckPatterns \/ CheckDetours
  <2>1. \A n \in Nets : jobPc[n] = "idle"
    BY <1>1, <1>10 DEF CheckPatterns, CheckDetours
  <2>2. QED
    BY <1>1, <1>10, <2>1 DEF CheckPatterns, CheckDetours, Recheck, jobs
<1>11. ASSUME NEW n \in Nets, RipUpForMaze(n)
       PROVE  JobInv'
  BY <1>1, <1>11 DEF RipUpForMaze, jobs
<1>12. CASE ExtractView
  BY <1>1, <1>12 DEF ExtractView, jobs
<1>13. ASSUME NEW n \in Nets, MazeRoute(n)
       PROVE  JobInv'
  <2>1. \A m \in Nets : jobPc[m] = "idle"
    BY <1>1, <1>13 DEF MazeRoute, IInv, BatchInv
  <2>2. QED
    BY <1>1, <1>13, <2>1 DEF MazeRoute, jobs
<1>14. CASE CheckMaze
  BY <1>1, <1>14 DEF CheckMaze, jobs
<1>15. CASE UNCHANGED vars
  BY <1>1, <1>15 DEF vars, jobs
<1>16. QED
  BY <1>2, <1>3, <1>4, <1>5, <1>6, <1>7, <1>8, <1>9, <1>10, <1>11, <1>12, <1>13,
     <1>14, <1>15, Cases

(* Every step keeps what is known of the batch. *)
LEMMA BatchStep == IInv /\ [Next]_vars => BatchInv'
<1> SUFFICES ASSUME IInv, [Next]_vars
             PROVE  BatchInv'
  OBVIOUS
<1>1. BatchInv
  BY DEF IInv
<1>2. CASE PickBatch \/ BatchJoined
  BY <1>1, <1>2 DEF PickBatch, BatchJoined, BatchInv
<1>3. ASSUME NEW n \in Nets, Job(n)
      PROVE  BatchInv'
  BY <1>1, <1>3
     DEF Job, RunPattern, RipUp, RunDetours, Run, Load, Store, JobDone, BatchInv
<1>4. CASE CheckPatterns \/ CheckDetours
  BY <1>1, <1>4 DEF CheckPatterns, CheckDetours, Recheck, BatchInv
<1>5. ASSUME NEW n \in Nets, RipUpForMaze(n) \/ MazeRoute(n)
      PROVE  BatchInv'
  BY <1>1, <1>5 DEF RipUpForMaze, MazeRoute, BatchInv
<1>6. CASE ExtractView \/ CheckMaze
  BY <1>1, <1>6 DEF ExtractView, CheckMaze, BatchInv
<1>7. CASE UNCHANGED vars
  BY <1>1, <1>7 DEF vars, BatchInv
<1>8. QED
  BY <1>2, <1>3, <1>4, <1>5, <1>6, <1>7 DEF Next, Step, Returned

(* Stage 1 ends with a tree for every net, and trees are only replaced. *)
LEMMA TreeStep == IInv /\ [Next]_vars => TreeInv'
<1> SUFFICES ASSUME IInv, [Next]_vars
             PROVE  TreeInv'
  OBVIOUS
<1> USE DEF TreeInv, EveryNetRouted
<1>1. TreeInv /\ JobInv /\ ControlTypeOK
  BY DEF IInv
<1>2. ASSUME NEW n \in Nets, NEW t \in Trees(n), tree' = [tree EXCEPT ![n] = t]
      PROVE  /\ \A m \in Nets : tree'[m] \in {NoTree} \cup Trees(m)
             /\ tree'[n] # NoTree
             /\ \A m \in Nets : tree[m] # NoTree => tree'[m] # NoTree
  <2>1. t # NoTree
    BY TreeFacts
  <2>2. tree \in [Nets -> {NoTree} \cup UNION {Trees(m) : m \in Nets}]
    BY <1>1 DEF ControlTypeOK
  <2>3. QED
    BY <1>1, <1>2, <2>1, <2>2
<1>3. CASE PickBatch
  BY <1>1, <1>3 DEF PickBatch, JobInv
<1>4. CASE BatchJoined
  <2>1. ASSUME pc = "stage1", NEW n \in Nets
        PROVE  n \in pending \/ tree[n] # NoTree
    <3>1. CASE n \in batch
      BY <1>1, <1>4, <2>1, <3>1, TreeFacts DEF BatchJoined, JobInv, Trees
    <3>2. CASE n \notin batch
      BY <1>1, <2>1, <3>2 DEF JobInv
    <3>3. QED
      BY <3>1, <3>2
  <2>2. QED
    BY <1>1, <1>4, <2>1 DEF BatchJoined
<1>5. ASSUME NEW n \in Nets, RunPattern(n)
      PROVE  TreeInv'
  <2>1. PICK t \in PatternTrees[n] : tree' = [tree EXCEPT ![n] = t]
    BY <1>5 DEF RunPattern, Run
  <2>2. t \in Trees(n)
    BY DEF Trees
  <2>3. QED
    BY <1>1, <1>2, <1>5, <2>1, <2>2 DEF RunPattern, Run, ControlTypeOK
<1>6. ASSUME NEW n \in Nets, RunDetours(n)
      PROVE  TreeInv'
  <2>1. PICK t \in DetourTrees[n] : tree' = [tree EXCEPT ![n] = t]
    BY <1>6 DEF RunDetours, Run
  <2>2. t \in Trees(n)
    BY DEF Trees
  <2>3. QED
    BY <1>1, <1>2, <1>6, <2>1, <2>2 DEF RunDetours, Run, ControlTypeOK
<1>7. ASSUME NEW n \in Nets, MazeRoute(n)
      PROVE  TreeInv'
  <2>1. PICK t \in MazeTrees[n] : tree' = [tree EXCEPT ![n] = t]
    BY <1>7 DEF MazeRoute
  <2>2. t \in Trees(n)
    BY DEF Trees
  <2>3. QED
    BY <1>1, <1>2, <1>7, <2>1, <2>2 DEF MazeRoute
<1>8. ASSUME NEW n \in Nets, RipUp(n) \/ Load(n) \/ Store(n) \/ JobDone(n)
      PROVE  TreeInv'
  BY <1>1, <1>8 DEF RipUp, Load, Store, JobDone, ControlTypeOK, JobInv
<1>9. CASE CheckPatterns
  <2>1. \A n \in Nets : tree[n] # NoTree
    BY <1>1, <1>9 DEF CheckPatterns, JobInv
  <2>2. QED
    BY <1>1, <1>9, <2>1 DEF CheckPatterns, Recheck
<1>10. CASE CheckDetours
  BY <1>1, <1>10 DEF CheckDetours, Recheck
<1>11. CASE \E n \in Nets : RipUpForMaze(n)
  BY <1>1, <1>11 DEF RipUpForMaze
<1>12. CASE ExtractView \/ CheckMaze
  BY <1>1, <1>12 DEF ExtractView, CheckMaze
<1>13. CASE UNCHANGED vars
  BY <1>1, <1>13 DEF vars, jobs
<1>14. QED
  BY <1>3, <1>4, <1>5, <1>6, <1>7, <1>8, <1>9, <1>10, <1>11, <1>12, <1>13, Cases

(* Demands and view change together in stage 3, and only there. *)
LEMMA ViewStep == IInv /\ [Next]_vars => ViewFresh'
<1> SUFFICES ASSUME IInv, [Next]_vars, pc' = "maze"
             PROVE  (wireCostView = extractWireCostView(demand))'
  BY DEF ViewFresh
<1>1. CASE ExtractView
  BY <1>1 DEF ExtractView, extractWireCostView, ViewDemand
<1>2. ASSUME NEW n \in Nets, MazeRoute(n)
      PROVE  (wireCostView = extractWireCostView(demand))'
  <2>1. PICK t \in MazeTrees[n] :
          /\ demand' = Commit(demand, t)
          /\ wireCostView' = updateWireCostView(wireCostView, Commit(demand, t), t)
    BY <1>2 DEF MazeRoute
  <2>2. \A k \in DOMAIN t : Legal(t[k])
    BY TreeFacts DEF Trees
  <2>3. wireCostView = extractWireCostView(demand)
    BY <1>2 DEF MazeRoute, IInv, ViewFresh
  <2>4. wireCostView' = extractWireCostView(Commit(demand, t))
    BY <2>1, <2>2, <2>3, UpdateKeepsFresh
  <2>5. QED
    BY <2>1, <2>4
<1>3. CASE ~ExtractView /\ ~(\E n \in Nets : MazeRoute(n))
  <2>1. pc = "maze" /\ UNCHANGED <<demand, wireCostView>>
    <3>1. batch = {} \/ pc # "maze"
      BY DEF IInv, BatchInv
    <3>2. QED
      BY <1>3, <3>1, Cases
         DEF PickBatch, BatchJoined, RunPattern, RipUp, RunDetours, Run, Load, Store,
             JobDone, CheckPatterns, CheckDetours, Recheck, RipUpForMaze, CheckMaze,
             vars, jobs
  <2>2. QED
    BY <2>1 DEF IInv, ViewFresh
<1>4. QED
  BY <1>1, <1>2, <1>3
(* What a tree adds to an edge. *)
LEMMA UsageType ==
  ASSUME NEW t, IsFiniteSet(DOMAIN t), NEW e
  PROVE  Usage(t, e) \in Nat
BY TakenAll, TakenType

(* Every step keeps the numbers' types. *)
LEMMA NumbersStep == IInv /\ [Next]_vars => NumbersInv'
<1> SUFFICES ASSUME IInv, [Next]_vars
             PROVE  NumbersInv'
  OBVIOUS
<1> USE DEF NumbersInv
<1>1. NumbersInv /\ ControlTypeOK /\ TreeInv
  BY DEF IInv
<1>2. ASSUME NEW n \in Nets, Load(n)
      PROVE  NumbersInv'
  <2>1. PICK u \in todo[n] : reg' = [reg EXCEPT ![n] = demand[u[2]]]
    BY <1>2 DEF Load
  <2>2. u[2] \in Edges
    BY <1>1 DEF ControlTypeOK
  <2>3. QED
    BY <1>1, <1>2, <2>1, <2>2 DEF Load
<1>3. ASSUME NEW n \in Nets, Store(n)
      PROVE  NumbersInv'
  <2>1. PICK u \in updating[n] :
          demand' = [demand EXCEPT ![u[2]] =
                       IF jobPc[n] = "ripup" THEN reg[n] - CommitDemand(tree[n], u)
                       ELSE reg[n] + CommitDemand(tree[n], u)]
    BY <1>3 DEF Store
  <2>2. CommitDemand(tree[n], u) \in Nat
    BY DemandType
  <2>3. reg[n] \in Int /\ demand \in [Edges -> Int]
    BY <1>1
  <2>4. PICK v \in Int : demand' = [demand EXCEPT ![u[2]] = v]
    <3> DEFINE v == IF jobPc[n] = "ripup" THEN reg[n] - CommitDemand(tree[n], u)
                    ELSE reg[n] + CommitDemand(tree[n], u)
    <3>1. v \in Int
      BY <2>2, <2>3
    <3>2. demand' = [demand EXCEPT ![u[2]] = v]
      BY <2>1
    <3> HIDE DEF v
    <3>3. QED
      BY <3>1, <3>2
  <2>5. UNCHANGED <<capacity, reg>>
    BY <1>3 DEF Store
  <2>6. QED
    BY <1>1, <2>4, <2>5
<1>4. ASSUME NEW n \in Nets, RipUpForMaze(n)
      PROVE  NumbersInv'
  <2>1. \A e \in Edges : Usage(tree[n], e) \in Nat
    BY <1>1, <1>4, TreeFacts, UsageType DEF RipUpForMaze, TreeInv, EveryNetRouted
  <2>2. QED
    BY <1>1, <1>4, <2>1 DEF RipUpForMaze, RipUpTree, jobs
<1>5. ASSUME NEW n \in Nets, MazeRoute(n)
      PROVE  NumbersInv'
  <2>1. PICK t \in MazeTrees[n] : demand' = Commit(demand, t)
    BY <1>5 DEF MazeRoute
  <2>2. \A e \in Edges : Usage(t, e) \in Nat
    BY TreeFacts, UsageType DEF Trees
  <2>3. QED
    BY <1>1, <1>5, <2>1, <2>2 DEF MazeRoute, Commit, jobs
<1>6. CASE UNCHANGED <<demand, capacity, reg>>
  BY <1>1, <1>6
<1>7. QED
  BY <1>2, <1>3, <1>4, <1>5, <1>6, Cases
     DEF PickBatch, BatchJoined, RunPattern, RipUp, RunDetours, Run, JobDone,
         CheckPatterns, CheckDetours, Recheck, ExtractView, CheckMaze, vars, jobs

(* A load takes part in a race if another job is at the edge; a store ends *)
(* an update, and changes nothing under another job that is alone.         *)
LEMMA AccessStep == IInv /\ [Next]_vars => AccessInv'
<1> SUFFICES ASSUME IInv, [Next]_vars
             PROVE  AccessInv'
  OBVIOUS
<1> USE DEF AccessInv
<1>1. AccessInv /\ ControlTypeOK /\ NumbersInv /\ JobInv /\ BatchInv
  BY DEF IInv
<1>2. ASSUME NEW n \in Nets, Load(n)
      PROVE  AccessInv'
  <2>1. PICK u \in todo[n] :
          /\ updating' = [updating EXCEPT ![n] = {u}]
          /\ reg' = [reg EXCEPT ![n] = demand[u[2]]]
          /\ contended' = contended \cup
               {e \in {u[2]} : \E m \in Nets \ {n} : \E w \in updating[m] : w[2] = e}
    BY <1>2 DEF Load
  <2>2. updating'[n] = {u} /\ reg'[n] = demand[u[2]]
    BY <1>1, <2>1 DEF ControlTypeOK, NumbersInv
  <2>3. \A m \in Nets \ {n} : updating'[m] = updating[m] /\ reg'[m] = reg[m]
    BY <1>1, <2>1 DEF ControlTypeOK, NumbersInv
  <2>4. demand' = demand
    BY <1>2 DEF Load
  <2>5. QED
    BY <1>1, <2>1, <2>2, <2>3, <2>4
<1>3. ASSUME NEW n \in Nets, Store(n)
      PROVE  AccessInv'
  <2>1. PICK u \in updating[n] : \A e \in Edges \ {u[2]} : demand'[e] = demand[e]
    BY <1>1, <1>3 DEF Store, NumbersInv
  <2>2. updating'[n] = {} /\ reg' = reg /\ contended' = contended
    BY <1>1, <1>3 DEF Store, ControlTypeOK
  <2>3. \A m \in Nets \ {n} : updating'[m] = updating[m]
    BY <1>1, <1>3 DEF Store, ControlTypeOK
  <2>4. \A m \in Nets : \A w \in updating[m] : w[2] \in Edges
    BY <1>1 DEF ControlTypeOK
  <2>5. ASSUME NEW m \in Nets \ {n}, NEW w \in updating[m], w[2] \notin contended
        PROVE  reg[m] = demand'[w[2]]
    <3>1. w[2] # u[2] /\ reg[m] = demand[w[2]]
      BY <1>1, <2>5
    <3>2. QED
      BY <2>1, <2>4, <3>1
  <2>6. QED
    BY <1>1, <2>2, <2>3, <2>5
<1>4. ASSUME NEW n \in Nets, RipUpForMaze(n) \/ MazeRoute(n)
      PROVE  AccessInv'
  <2>1. \A m \in Nets : updating[m] = {} /\ updating' = updating
    BY <1>1, <1>4 DEF RipUpForMaze, MazeRoute, JobInv, BatchInv, jobs
  <2>2. QED
    BY <2>1
<1>5. CASE UNCHANGED <<demand, reg, updating, contended>>
  BY <1>1, <1>5
<1>6. QED
  BY <1>2, <1>3, <1>4, <1>5, Cases
     DEF PickBatch, BatchJoined, RunPattern, RipUp, RunDetours, Run, JobDone,
         CheckPatterns, CheckDetours, Recheck, ExtractView, CheckMaze, vars, jobs

(* A check of the nets stands as long as demands and trees do. *)
LEMMA CheckedStep == IInv /\ [Next]_vars => CheckedInv'
<1> SUFFICES ASSUME IInv, [Next]_vars, JustChecked'
             PROVE  (\A n \in Nets \ netIndices : ~checkOverflow(capacity, demand, tree[n]))'
  BY DEF CheckedInv
<1>1. CheckedInv /\ ControlTypeOK /\ BatchInv
  BY DEF IInv
<1>2. CASE CheckPatterns \/ CheckDetours \/ CheckMaze
  BY <1>2 DEF CheckPatterns, CheckDetours, CheckMaze, Recheck, Overflows
<1>3. CASE /\ JustChecked
           /\ UNCHANGED <<netIndices, capacity, demand, tree>>
  BY <1>1, <1>3 DEF CheckedInv
<1>4. CASE PickBatch \/ BatchJoined
  <2>1. PickBatch => batch' # {} /\ pc' # "done"
    BY DEF PickBatch
  <2>2. BatchJoined => pending' # netIndices' /\ pc' # "done"
    <3>1. batch # {} => pending # netIndices /\ pc # "done"
      BY <1>1 DEF ControlTypeOK, BatchInv
    <3>2. QED
      BY <3>1 DEF BatchJoined
  <2>3. QED
    BY <1>4, <2>1, <2>2 DEF JustChecked
<1>5. ASSUME NEW n \in Nets, Job(n)
      PROVE  ~JustChecked'
  BY <1>1, <1>5
     DEF Job, RunPattern, RipUp, RunDetours, Run, Load, Store, JobDone, JustChecked, BatchInv
<1>6. ASSUME NEW n \in Nets, RipUpForMaze(n) \/ MazeRoute(n)
      PROVE  ~JustChecked'
  BY <1>1, <1>6 DEF RipUpForMaze, MazeRoute, JustChecked, ControlTypeOK
<1>7. CASE ExtractView
  BY <1>7 DEF ExtractView, JustChecked
<1>8. CASE UNCHANGED vars
  BY <1>3, <1>8 DEF vars, JustChecked
<1>9. QED
  BY <1>2, <1>4, <1>5, <1>6, <1>7, <1>8 DEF Next, Step, Returned

(* A step leaves what net n has in the demands alone. *)
Kept(n) ==
  /\ Committed(n)' = Committed(n)
  /\ Committed(n) = {} \/ tree'[n] = tree[n]

(* A net no step touches keeps its share of an edge. *)
LEMMA KeptShare ==
  ASSUME JobInv, TreeInv, NEW n \in Nets, Kept(n), NEW e
  PROVE  Share(n, e)' = Share(n, e)
<1>1. Share(n, e) = Taken(tree[n], Committed(n), e)
  BY CommittedFacts
<1>2. Share(n, e)' = Taken(tree'[n], Committed(n), e)
  BY DEF Share, Taken, Kept
<1>3. QED
  BY <1>1, <1>2, TakenNone DEF Kept

(* Demands stay exact if all shares are left alone, or if the demand       *)
(* changes by as much as the one share that is not.                        *)
LEMMA AllKept ==
  ASSUME JobInv, TreeInv, NEW e, demand[e] = TrueDemand(e),
         \A n \in Nets : Kept(n), demand'[e] = demand[e]
  PROVE  demand'[e] = TrueDemand(e)'
<1>1. [n \in Nets |-> Share(n, e)'] = [n \in Nets |-> Share(n, e)]
  BY KeptShare
<1>2. QED
  BY <1>1 DEF TrueDemand

(* A step that changes one net's share of an edge by what it adds to the demand keeps the demand exact. *)
LEMMA OneChanged ==
  ASSUME JobInv, TreeInv, NEW e, demand[e] = TrueDemand(e),
         NEW n \in Nets, \A m \in Nets \ {n} : Kept(m), Share(n, e)' \in Nat,
         demand'[e] = demand[e] - Share(n, e) + Share(n, e)'
  PROVE  demand'[e] = TrueDemand(e)'
<1> DEFINE f == [m \in Nets |-> Share(m, e)]
           g == [m \in Nets |-> Share(m, e)']
<1>1. f \in [Nets -> Nat] /\ f[n] = Share(n, e) /\ g[n] = Share(n, e)'
  BY CommittedFacts
<1>2. \A m \in Nets \ {n} : g[m] = f[m]
  BY KeptShare
<1>3. g \in [Nets -> Nat]
  BY <1>1, <1>2
<1>4. SumFunction(g) = SumFunction(f) - f[n] + g[n]
  <2> HIDE DEF f, g
  <2>1. QED
    BY <1>1, <1>2, <1>3, AreaAssumption, SumUpdate
<1>5. QED
  BY <1>1, <1>4 DEF TrueDemand

(* Every step but three leaves all shares alone. *)
LEMMA StepKeeps ==
  ASSUME IInv, [Next]_vars,
         ~(\E n \in Nets : Store(n) \/ RipUpForMaze(n) \/ MazeRoute(n))
  PROVE  demand' = demand /\ \A n \in Nets : Kept(n)
<1>1. JobInv /\ TreeInv /\ BatchInv /\ ControlTypeOK
  BY DEF IInv
<1>2. CASE PickBatch
  <2>1. \A n \in Nets : jobPc[n] = "idle" /\ jobPc'[n] \in {"idle", "todo"}
    BY <1>1, <1>2 DEF PickBatch, JobInv
  <2>2. \A n \in Nets : RippedUp(n)' = FALSE /\ RippedUp(n) = FALSE
    BY <1>2 DEF PickBatch, RippedUp
  <2>3. QED
    BY <1>2, <2>1, <2>2 DEF PickBatch, Kept, Committed
<1>3. CASE BatchJoined
  <2>1. \A n \in Nets : jobPc[n] \in {"idle", "done"} /\ jobPc'[n] = "idle"
    BY <1>1, <1>3 DEF BatchJoined, JobInv
  <2>2. QED
    BY <1>3, <2>1 DEF BatchJoined, Kept, Committed, RippedUp
<1>4. ASSUME NEW n \in Nets, RunPattern(n)
      PROVE  demand' = demand /\ \A m \in Nets : Kept(m)
  <2>1. PICK t \in PatternTrees[n] :
          tree' = [tree EXCEPT ![n] = t] /\ todo' = [todo EXCEPT ![n] = Commits(t)]
    BY <1>4 DEF RunPattern, Run
  <2>2. jobPc' = [jobPc EXCEPT ![n] = "commit"] /\ UNCHANGED <<pc, netIndices, pending, demand>>
    BY <1>4 DEF RunPattern, Run
  <2>3. Committed(n) = {}
    BY <1>1, <1>4 DEF RunPattern, TreeInv, Committed
  <2>4. Committed(n)' = {}
    BY <1>1, <2>1, <2>2 DEF Committed, ControlTypeOK
  <2>5. \A m \in Nets \ {n} :
          tree'[m] = tree[m] /\ todo'[m] = todo[m] /\ jobPc'[m] = jobPc[m]
    BY <1>1, <2>1, <2>2 DEF ControlTypeOK
  <2>6. \A m \in Nets \ {n} : Kept(m)
    BY <2>2, <2>5 DEF Kept, Committed, RippedUp
  <2>7. QED
    BY <2>2, <2>3, <2>4, <2>6 DEF Kept
<1>5. ASSUME NEW n \in Nets, RipUp(n)
      PROVE  demand' = demand /\ \A m \in Nets : Kept(m)
  <2>1. Committed(n) = Commits(tree[n])
    BY <1>1, <1>5 DEF RipUp, TreeInv, EveryNetRouted, Committed, RippedUp
  <2>2. Committed(n)' = Commits(tree[n])
    <3>1. jobPc'[n] = "ripup" /\ todo'[n] = Commits(tree[n])
      BY <1>1, <1>5 DEF RipUp, ControlTypeOK
    <3>2. QED
      BY <3>1 DEF Committed
  <2>3. \A m \in Nets \ {n} : todo'[m] = todo[m] /\ jobPc'[m] = jobPc[m]
    BY <1>1, <1>5 DEF RipUp, ControlTypeOK
  <2>4. \A m \in Nets \ {n} : Kept(m)
    BY <1>5, <2>3 DEF RipUp, Kept, Committed, RippedUp
  <2>5. QED
    BY <1>5, <2>1, <2>2, <2>4 DEF RipUp, Kept
<1>6. ASSUME NEW n \in Nets, RunDetours(n)
      PROVE  demand' = demand /\ \A m \in Nets : Kept(m)
  <2>1. PICK t \in DetourTrees[n] :
          tree' = [tree EXCEPT ![n] = t] /\ todo' = [todo EXCEPT ![n] = Commits(t)]
    BY <1>6 DEF RunDetours, Run
  <2>2. jobPc' = [jobPc EXCEPT ![n] = "commit"] /\ UNCHANGED <<pc, netIndices, pending, demand>>
    BY <1>6 DEF RunDetours, Run
  <2>3. Committed(n) = {}
    BY <1>6 DEF RunDetours, Committed
  <2>4. Committed(n)' = {}
    BY <1>1, <2>1, <2>2 DEF Committed, ControlTypeOK
  <2>5. \A m \in Nets \ {n} :
          tree'[m] = tree[m] /\ todo'[m] = todo[m] /\ jobPc'[m] = jobPc[m]
    BY <1>1, <2>1, <2>2 DEF ControlTypeOK
  <2>6. \A m \in Nets \ {n} : Kept(m)
    BY <2>2, <2>5 DEF Kept, Committed, RippedUp
  <2>7. QED
    BY <2>2, <2>3, <2>4, <2>6 DEF Kept
<1>7. ASSUME NEW n \in Nets, Load(n)
      PROVE  demand' = demand /\ \A m \in Nets : Kept(m)
  BY <1>7 DEF Load, Kept, Committed, RippedUp
<1>8. ASSUME NEW n \in Nets, JobDone(n)
      PROVE  demand' = demand /\ \A m \in Nets : Kept(m)
  <2>1. tree[n] # NoTree /\ ~RippedUp(n) /\ RippedUp(n)' = FALSE
    BY <1>1, <1>8, TreeFacts
       DEF JobDone, JobInv, TreeInv, EveryNetRouted, BatchInv, RippedUp, Trees
  <2>2. Committed(n) = Commits(tree[n])
    <3>1. jobPc[n] = "commit" /\ Commits(tree[n]) \ todo[n] = Commits(tree[n])
      BY <1>8 DEF JobDone
    <3>2. QED
      BY <3>1 DEF Committed
  <2>3. Committed(n)' = Commits(tree[n])
    BY <1>1, <1>8, <2>1 DEF JobDone, Committed, ControlTypeOK
  <2>4. \A m \in Nets \ {n} : jobPc'[m] = jobPc[m]
    BY <1>1, <1>8 DEF JobDone, ControlTypeOK
  <2>5. \A m \in Nets \ {n} : Kept(m)
    BY <1>8, <2>4 DEF JobDone, Kept, Committed, RippedUp
  <2>6. QED
    BY <1>8, <2>2, <2>3, <2>5 DEF JobDone, Kept
<1>9. CASE CheckPatterns \/ CheckDetours \/ ExtractView \/ CheckMaze
  <2>1. \A n \in Nets : jobPc[n] = "idle" /\ jobPc'[n] = jobPc[n] /\ tree'[n] = tree[n]
    BY <1>1, <1>9
       DEF CheckPatterns, CheckDetours, Recheck, ExtractView, CheckMaze, JobInv, BatchInv, jobs
  <2>2. \A n \in Nets : RippedUp(n)' <=> RippedUp(n)
    BY <1>9 DEF CheckPatterns, CheckDetours, Recheck, ExtractView, CheckMaze, RippedUp
  <2>3. \A n \in Nets : Kept(n)
    BY <2>1, <2>2 DEF Kept, Committed
  <2>4. QED
    BY <1>9, <2>3 DEF CheckPatterns, CheckDetours, Recheck, ExtractView, CheckMaze
<1>10. CASE UNCHANGED vars
  BY <1>10 DEF vars, jobs, Kept, Committed, RippedUp
<1>11. QED
  BY <1>2, <1>3, <1>4, <1>5, <1>6, <1>7, <1>8, <1>9, <1>10, Cases

(* One job's store takes one update out of the net's share or adds it; the *)
(* whole trees of stage 3 go out and in as a whole.                        *)
LEMMA DemandStep == IInv /\ [Next]_vars => DemandExact'
<1> SUFFICES ASSUME IInv, [Next]_vars, NEW e \in Edges, e \notin contended'
             PROVE  demand'[e] = TrueDemand(e)'
  BY DEF DemandExact, TrueDemand, Edges
<1>1. JobInv /\ TreeInv /\ BatchInv /\ ControlTypeOK /\ NumbersInv /\ AccessInv
  BY DEF IInv
<1>2. e \notin contended
  BY Cases
     DEF PickBatch, BatchJoined, RunPattern, RipUp, RunDetours, Run, Load, Store, JobDone,
         CheckPatterns, CheckDetours, Recheck, RipUpForMaze, ExtractView, MazeRoute,
         CheckMaze, vars, jobs
<1>3. demand[e] = TrueDemand(e)
  BY <1>2 DEF IInv, DemandExact
<1>4. ASSUME NEW n \in Nets, Store(n)
      PROVE  demand'[e] = TrueDemand(e)'
  <2>1. PICK u \in updating[n] :
          /\ demand' = [demand EXCEPT ![u[2]] =
                          IF jobPc[n] = "ripup" THEN reg[n] - CommitDemand(tree[n], u)
                          ELSE reg[n] + CommitDemand(tree[n], u)]
          /\ todo' = [todo EXCEPT ![n] = @ \ {u}]
    BY <1>4 DEF Store
  <2>2. u \in todo[n] /\ u[2] \in Edges /\ todo[n] \subseteq Commits(tree[n])
    BY <1>1 DEF JobInv, ControlTypeOK
  <2>3. jobPc[n] \in {"ripup", "commit"}
    BY <1>1, <2>2 DEF JobInv
  <2>4. UNCHANGED <<pc, netIndices, pending, jobPc, tree>>
    BY <1>4 DEF Store
  <2>5. todo'[n] = todo[n] \ {u} /\ \A m \in Nets \ {n} : todo'[m] = todo[m]
    BY <1>1, <2>1 DEF ControlTypeOK
  <2>6. \A m \in Nets \ {n} : Kept(m)
    BY <2>4, <2>5 DEF Kept, Committed, RippedUp
  <2>7. tree[n] \in Trees(n) /\ IsFiniteSet(DOMAIN tree[n])
    BY <1>1, <2>3, TreeFacts DEF JobInv, TreeInv, EveryNetRouted, Trees
  <2> DEFINE d == IF u[2] = e THEN CommitDemand(tree[n], u) ELSE 0
             sign == IF jobPc[n] = "ripup" THEN -d ELSE d
  <2>8. CommitDemand(tree[n], u) \in Nat /\ d \in Nat
    BY DemandType
  <2>9. demand'[e] = demand[e] + sign
    <3>1. demand \in [Edges -> Int] /\ reg[n] \in Int
      BY <1>1 DEF NumbersInv
    <3>2. u[2] = e => reg[n] = demand[e]
      BY <1>1, <1>2 DEF AccessInv
    <3>3. CASE u[2] = e
      BY <2>1, <2>8, <3>1, <3>2, <3>3
    <3>4. CASE u[2] # e
      BY <2>1, <2>8, <3>1, <3>4
    <3>5. QED
      BY <3>3, <3>4
  <2>10. Share(n, e)' \in Nat /\ Share(n, e)' = Share(n, e) + sign
    <3>1. Share(n, e) = Taken(tree[n], Committed(n), e)
      BY <1>1, CommittedFacts
    <3>2. Share(n, e)' = Taken(tree[n], Committed(n)', e)
      BY <2>4 DEF Share, Taken
    <3>3. CASE jobPc[n] = "ripup"
      <4> DEFINE us == todo[n] \ {u}
      <4>1. Committed(n) = us \cup {u} /\ Committed(n)' = us
        BY <2>2, <2>4, <2>5, <3>3 DEF Committed
      <4>2. us \in SUBSET Commits(tree[n]) /\ u \in Commits(tree[n]) /\ u \notin us
        BY <2>2
      <4>3. /\ Taken(tree[n], us \cup {u}, e) = Taken(tree[n], us, e) + d
            /\ Taken(tree[n], us, e) \in Nat
        <5> HIDE DEF us
        <5>1. QED
          BY <2>7, <4>2, TakenAdd, TakenType
      <4>4. QED
        <5> HIDE DEF us, d
        <5>1. QED
          BY <2>8, <3>1, <3>2, <3>3, <4>1, <4>3
    <3>4. CASE jobPc[n] = "commit"
      <4> DEFINE us == Commits(tree[n]) \ todo[n]
      <4>1. Committed(n) = us /\ Committed(n)' = us \cup {u}
        BY <2>2, <2>4, <2>5, <3>4 DEF Committed
      <4>2. us \in SUBSET Commits(tree[n]) /\ u \in Commits(tree[n]) /\ u \notin us
        BY <2>2
      <4>3. /\ Taken(tree[n], us \cup {u}, e) = Taken(tree[n], us, e) + d
            /\ Taken(tree[n], us, e) \in Nat
        <5> HIDE DEF us
        <5>1. QED
          BY <2>7, <4>2, TakenAdd, TakenType
      <4>4. QED
        <5> HIDE DEF us, d
        <5>1. QED
          BY <2>8, <3>1, <3>2, <3>4, <4>1, <4>3
    <3>5. QED
      BY <2>3, <3>3, <3>4
  <2>11. demand'[e] = demand[e] - Share(n, e) + Share(n, e)'
    <3>1. demand[e] \in Int /\ Share(n, e) \in Nat /\ sign \in Int
      BY <1>1, <2>8, CommittedFacts DEF NumbersInv
    <3> HIDE DEF sign
    <3>2. QED
      BY <2>9, <2>10, <3>1
  <2>12. QED
    BY <1>1, <1>3, <2>6, <2>10, <2>11, OneChanged
<1>5. ASSUME NEW n \in Nets, RipUpForMaze(n)
      PROVE  demand'[e] = TrueDemand(e)'
  <2>1. \A m \in Nets : jobPc[m] = "idle"
    BY <1>1, <1>5 DEF RipUpForMaze, JobInv, BatchInv
  <2>2. /\ UNCHANGED <<pc, netIndices, jobPc, tree>>
        /\ pc = "ripup" /\ n \in pending /\ n \in netIndices /\ pending' = pending \ {n}
    BY <1>1, <1>5 DEF RipUpForMaze, ControlTypeOK, jobs
  <2>3. \A m \in Nets \ {n} : Kept(m)
    BY <2>1, <2>2 DEF Kept, Committed, RippedUp
  <2>4. tree[n] \in Trees(n) /\ IsFiniteSet(DOMAIN tree[n])
    BY <1>1, <2>2, TreeFacts DEF TreeInv, EveryNetRouted
  <2>5. Committed(n) = Commits(tree[n]) /\ Committed(n)' = {}
    BY <2>1, <2>2, <2>4, TreeFacts DEF Committed, RippedUp
  <2>6. Share(n, e) = Taken(tree[n], Commits(tree[n]), e) /\ Share(n, e) \in Nat
    BY <1>1, <2>5, CommittedFacts
  <2>7. Share(n, e)' = 0
    BY <2>5, TakenNone DEF Share, Taken
  <2>8. demand'[e] = demand[e] - Share(n, e)
    <3>1. demand[e] \in Int
      BY <1>1 DEF NumbersInv
    <3>2. demand'[e] = IF e \in TreeEdges(tree[n]) THEN demand[e] - Usage(tree[n], e)
                       ELSE demand[e]
      BY <1>5 DEF RipUpForMaze, RipUpTree
    <3>3. QED
      BY <2>4, <2>6, <3>1, <3>2, TakenAll
  <2>9. demand'[e] = demand[e] - Share(n, e) + Share(n, e)'
    <3>1. demand[e] \in Int
      BY <1>1 DEF NumbersInv
    <3>2. QED
      BY <2>6, <2>7, <2>8, <3>1
  <2>10. QED
    BY <1>1, <1>3, <2>3, <2>7, <2>9, OneChanged
<1>6. ASSUME NEW n \in Nets, MazeRoute(n)
      PROVE  demand'[e] = TrueDemand(e)'
  <2>1. PICK t \in MazeTrees[n] :
          tree' = [tree EXCEPT ![n] = t] /\ demand' = Commit(demand, t)
    BY <1>6 DEF MazeRoute
  <2>2. \A m \in Nets : jobPc[m] = "idle"
    BY <1>1, <1>6 DEF MazeRoute, JobInv, BatchInv
  <2>3. /\ UNCHANGED <<pc, netIndices, jobPc>>
        /\ pc = "maze" /\ n \in pending /\ pending' = pending \ {n}
    BY <1>6 DEF MazeRoute, jobs
  <2>4. tree'[n] = t /\ \A m \in Nets \ {n} : tree'[m] = tree[m]
    BY <1>1, <2>1 DEF ControlTypeOK
  <2>5. \A m \in Nets \ {n} : Kept(m)
    BY <2>2, <2>3, <2>4 DEF Kept, Committed, RippedUp
  <2>6. t # NoTree /\ IsFiniteSet(DOMAIN t)
    BY TreeFacts DEF Trees
  <2>7. Committed(n) = {} /\ Committed(n)' = Commits(t)
    BY <2>2, <2>3, <2>4, <2>6 DEF Committed, RippedUp
  <2>8. Share(n, e) = 0
    BY <1>1, <2>7, CommittedFacts, TakenNone
  <2>9. Share(n, e)' = Taken(t, Commits(t), e)
    BY <2>4, <2>7 DEF Share, Taken
  <2>10. Share(n, e)' \in Nat
    BY <2>6, <2>9, TakenType
  <2>11. demand'[e] = demand[e] - Share(n, e) + Share(n, e)'
    <3>1. demand[e] \in Int
      BY <1>1 DEF NumbersInv
    <3>2. demand'[e] = IF e \in TreeEdges(t) THEN demand[e] + Usage(t, e) ELSE demand[e]
      BY <2>1 DEF Commit
    <3>3. QED
      BY <2>6, <2>8, <2>9, <2>10, <3>1, <3>2, TakenAll
  <2>12. QED
    BY <1>1, <1>3, <2>5, <2>10, <2>11, OneChanged
<1>7. CASE ~(\E n \in Nets : Store(n) \/ RipUpForMaze(n) \/ MazeRoute(n))
  BY <1>1, <1>3, <1>7, StepKeeps, AllKept
<1>8. QED
  BY <1>4, <1>5, <1>6, <1>7
----------------------------------------------------------------------------
(* The inductive invariant: what a job has still to commit is part of its  *)
(* net's tree, the batches are disjoint, no net is lost, the view follows  *)
(* the demands, a job alone at an edge adds to what it loaded, demands are *)
(* exact where jobs were alone, and a check of the nets stands until trees *)
(* or demands change.                                                      *)
THEOREM Invariant == Spec => []IInv
<1>1. IInv /\ [Next]_vars => IInv'
  BY TypeStep, JobStep, BatchStep, TreeStep, ViewStep, NumbersStep, AccessStep,
     DemandStep, CheckedStep
     DEF IInv
<1>2. QED
  BY InitInv, <1>1, PTL DEF Spec

(* The control state is well typed: a batch consists of nets of the stage  *)
(* that are no longer pending, and every update is one of an edge.         *)
THEOREM ControlTypes == Spec => []ControlTypeOK
<1>1. IInv => ControlTypeOK
  BY DEF IInv
<1>2. QED
  BY <1>1, Invariant, PTL

(* No commit, rip-up or overflow check after stage 1 meets a null tree. *)
THEOREM AllNetsRouted == Spec => []EveryNetRouted
<1>1. IInv => EveryNetRouted
  BY DEF IInv, TreeInv
<1>2. QED
  BY <1>1, Invariant, PTL

(* Every maze search sees the demands as they are: the incremental updates *)
(* of the view equal a new extraction.                                     *)
THEOREM ViewIsFresh == Spec => []ViewFresh
<1>1. IInv => ViewFresh
  BY DEF IInv
<1>2. QED
  BY <1>1, Invariant, PTL

(* The unlocked updates of the jobs add up: wherever no two of them met on *)
(* an edge, its demand is at every moment what the trees committed so far  *)
(* take of it.                                                             *)
THEOREM DemandsAreExact == Spec => []DemandExact
<1>1. IInv => DemandExact
  BY DEF IInv
<1>2. QED
  BY <1>1, Invariant, PTL

(* A net that is not handed on to the next stage, or not reported at the   *)
(* end, fits: the overflow checks, made on the demands the jobs left,      *)
(* decide on what the committed trees really take.                         *)
THEOREM CheckedNetsFit == Spec => []UnlistedNetsFit
<1>1. IInv => UnlistedNetsFit
  <2> SUFFICES ASSUME IInv, JustChecked, NEW n \in Nets \ netIndices,
                      NEW k \in DOMAIN tree[n], IsWire(tree[n][k]),
                      NEW e \in WireEdges(tree[n][k]) \ contended
               PROVE  TrueDemand(e) <= capacity[e]
    BY DEF UnlistedNetsFit
  <2>1. ~(capacity[e] - demand[e] < 0)
    BY DEF IInv, CheckedInv, checkOverflow, EdgeOverflow
  <2>2. tree[n] \in Trees(n)
    BY DEF IInv, TreeInv, EveryNetRouted, JustChecked
  <2>3. e \in Edges
    BY <2>2, TreeFacts, WireEdge
  <2>4. demand[e] = TrueDemand(e)
    BY <2>3 DEF IInv, DemandExact
  <2>5. demand[e] \in Int /\ capacity[e] \in Int
    BY <2>3 DEF IInv, NumbersInv
  <2>6. QED
    BY <2>1, <2>4, <2>5
<1>2. QED
  BY <1>1, Invariant, PTL
----------------------------------------------------------------------------
(* A cell in two boxes makes them overlap. *)
LEMMA CommonCell ==
  ASSUME NEW m \in Nets, NEW n \in Nets,
         ~Overlap(boundingBox[m], boundingBox[n]),
         NEW p, p[1] \in Int, p[2] \in Int,
         InBox(p, boundingBox[m]), InBox(p, boundingBox[n])
  PROVE  FALSE
BY AreaAssumption DEF Overlap, InBox

(* A job that updates is one of the batch, for an edge of its net's tree.  *)
LEMMA CommittedJob ==
  ASSUME JobInv, TreeInv, NEW n \in Nets, NEW u \in updating[n]
  PROVE  n \in batch /\ tree[n] \in Trees(n) /\ u \in Commits(tree[n])
<1>1. u \in todo[n] /\ jobPc[n] \in {"ripup", "commit"}
  BY DEF JobInv
<1>2. n \in batch /\ u \in Commits(tree[n])
  BY <1>1 DEF JobInv
<1>3. tree[n] # NoTree
  <2>1. pc = "stage1" => tree[n] \in Trees(n)
    BY <1>1 DEF JobInv, Trees
  <2>2. pc # "stage1" => tree[n] # NoTree
    BY DEF TreeInv, EveryNetRouted
  <2>3. QED
    BY <2>1, <2>2, TreeFacts
<1>4. QED
  BY <1>2, <1>3 DEF TreeInv

(* A tree in its net's box. *)
InItsBox(n, t) ==
  \A k \in DOMAIN t : InBox(t[k].u.c, boundingBox[n]) /\ InBox(t[k].v.c, boundingBox[n])

(* A wire in a box updates edges inside it; a via updates edges that have  *)
(* an end there.                                                           *)
LEMMA StaysInBox ==
  ASSUME NEW n \in Nets, NEW t \in Trees(n), InItsBox(n, t), NEW k \in DOMAIN t,
         NEW e \in SegmentEdges(t[k])
  PROVE  /\ IsWire(t[k]) => \A p \in Ends(e) : InBox(p, boundingBox[n])
         /\ \E p \in Ends(e) : InBox(p, boundingBox[n])
<1> DEFINE s == t[k]
<1>1. Legal(s) /\ InBox(s.u.c, boundingBox[n]) /\ InBox(s.v.c, boundingBox[n])
  BY TreeFacts DEF InItsBox
<1>2. boundingBox[n] \in [lx : Int, hx : Int, ly : Int, hy : Int]
  BY AreaAssumption
<1>3. CASE IsWire(s)
  <2>1. e \in Edges /\ \A p \in Ends(e) : Between(p, s.u.c, s.v.c)
    BY <1>1, <1>3, WireEdge DEF SegmentEdges
  <2>2. \A p \in Ends(e) : p[1] \in Int /\ p[2] \in Int
    BY <2>1, EndsType
  <2>3. \A p \in Ends(e) : InBox(p, boundingBox[n])
    BY <1>1, <1>2, <2>1, <2>2 DEF Between, InBox, Low, High
  <2>4. QED
    BY <2>3 DEF Ends
<1>4. CASE ~IsWire(s)
  BY <1>1, <1>4, ViaEdge DEF SegmentEdges, IsWire, IsVia
<1>5. QED
  BY <1>3, <1>4

(* Two jobs whose trees are in their boxes meet at edges between these,    *)
(* and only through vias.                                                  *)
LEMMA BoxedRace ==
  ASSUME IInv, NEW m \in Nets, NEW n \in Nets, m # n,
         NEW u \in updating[m], NEW w \in updating[n], u[2] = w[2],
         InItsBox(m, tree[m]), InItsBox(n, tree[n])
  PROVE  /\ IsVia(tree[m][u[1]]) /\ IsVia(tree[n][w[1]])
         /\ Joins(u[2], boundingBox[m], boundingBox[n])
<1>1. /\ m \in batch /\ tree[m] \in Trees(m) /\ u \in Commits(tree[m])
      /\ n \in batch /\ tree[n] \in Trees(n) /\ w \in Commits(tree[n])
  BY CommittedJob DEF IInv
<1>2. ~Overlap(boundingBox[m], boundingBox[n]) /\ ~Overlap(boundingBox[n], boundingBox[m])
  BY <1>1 DEF IInv, BatchInv
<1>3. /\ u[1] \in DOMAIN tree[m] /\ u[2] \in SegmentEdges(tree[m][u[1]])
      /\ w[1] \in DOMAIN tree[n] /\ w[2] \in SegmentEdges(tree[n][w[1]])
  BY <1>1 DEF Commits
<1>4. u[2] \in Edges
  BY <1>1, TreeFacts
<1>5. \A p \in Ends(u[2]) : p[1] \in Int /\ p[2] \in Int
  BY <1>4, EndsType
<1>6. PICK p \in Ends(u[2]) : InBox(p, boundingBox[m])
  BY <1>1, <1>3, StaysInBox
<1>7. PICK q \in Ends(u[2]) : InBox(q, boundingBox[n])
  BY <1>1, <1>3, StaysInBox
<1>8. ~IsWire(tree[m][u[1]])
  <2>1. IsWire(tree[m][u[1]]) => InBox(q, boundingBox[m])
    BY <1>1, <1>3, StaysInBox
  <2>2. QED
    BY <1>2, <1>5, <1>7, <2>1, CommonCell
<1>9. ~IsWire(tree[n][w[1]])
  <2>1. IsWire(tree[n][w[1]]) => InBox(p, boundingBox[n])
    BY <1>1, <1>3, StaysInBox
  <2>2. QED
    BY <1>2, <1>5, <1>6, <2>1, CommonCell
<1>10. p # q
  BY <1>2, <1>5, <1>6, <1>7, CommonCell
<1>11. QED
  BY <1>6, <1>7, <1>8, <1>9, <1>10 DEF IsVia, IsWire, Joins

(* The bounding boxes keep stage 1's concurrent jobs apart, up to vias on  *)
(* the edges that join two boxes.                                          *)
THEOREM RacesOfStageOne == Spec => []StageOneRaces
<1>1. IInv => StageOneRaces
  <2> SUFFICES ASSUME IInv, pc = "stage1", NEW m \in Nets, NEW n \in Nets, m # n,
                      NEW u \in updating[m], NEW w \in updating[n], u[2] = w[2]
               PROVE  /\ IsVia(tree[m][u[1]]) /\ IsVia(tree[n][w[1]])
                      /\ Joins(u[2], boundingBox[m], boundingBox[n])
    BY DEF StageOneRaces
  <2>1. tree[m] \in PatternTrees[m] /\ tree[n] \in PatternTrees[n]
    BY DEF IInv, JobInv
  <2>2. InItsBox(m, tree[m]) /\ InItsBox(n, tree[n])
    BY <2>1, PatternInBox DEF InItsBox
  <2>3. QED
    BY <2>2, BoxedRace
<1>2. QED
  BY <1>1, Invariant, PTL
----------------------------------------------------------------------------
(* Demands can go wrong in two ways only: at the edges between two boxes,  *)
(* where vias meet, and in stage 2 when detours leave the boxes.           *)
DetoursInBox == \A n \in Nets : \A t \in DetourTrees[n] : InItsBox(n, t)
BetweenBoxes(e) ==
  \E m, n \in Nets : m # n /\ Joins(e, boundingBox[m], boundingBox[n])

(* Races in this state, of jobs with trees in their boxes. *)
RacesBetween ==
  \A m, n \in Nets : m # n => \A u \in updating[m], w \in updating[n] : u[2] = w[2] =>
    /\ tree[m] # NoTree /\ tree[n] # NoTree
    /\ InItsBox(m, tree[m]) /\ InItsBox(n, tree[n]) => BetweenBoxes(u[2])

(* They are all at edges between two boxes. *)
LEMMA RacesAreBetween == IInv => RacesBetween
<1> SUFFICES ASSUME IInv, NEW m \in Nets, NEW n \in Nets, m # n,
                    NEW u \in updating[m], NEW w \in updating[n], u[2] = w[2]
             PROVE  /\ tree[m] # NoTree /\ tree[n] # NoTree
                    /\ InItsBox(m, tree[m]) /\ InItsBox(n, tree[n]) => BetweenBoxes(u[2])
  BY DEF RacesBetween
<1>1. tree[m] \in Trees(m) /\ tree[n] \in Trees(n)
  BY CommittedJob DEF IInv
<1>2. tree[m] # NoTree /\ tree[n] # NoTree
  BY <1>1, TreeFacts
<1>3. ASSUME InItsBox(m, tree[m]), InItsBox(n, tree[n])
      PROVE  BetweenBoxes(u[2])
  BY <1>3, BoxedRace DEF BetweenBoxes
<1>4. QED
  BY <1>2, <1>3

(* The jobs' trees are those of their stages. *)
StageInv ==
  /\ pc \in {"stage1", "stage2"} =>
       \A n \in Nets : tree[n] \in {NoTree} \cup PatternTrees[n] \cup DetourTrees[n]
  /\ pc = "stage1" => \A n \in Nets : tree[n] \in {NoTree} \cup PatternTrees[n]

BoxesInv ==
  pc = "stage1" \/ DetoursInBox => \A e \in contended : BetweenBoxes(e)

(* Every step keeps them so. *)
LEMMA StageStep == IInv /\ StageInv /\ [Next]_vars => StageInv'
<1> SUFFICES ASSUME IInv, StageInv, [Next]_vars
             PROVE  StageInv'
  OBVIOUS
<1> USE DEF StageInv
<1>1. tree \in [Nets -> {NoTree} \cup UNION {Trees(n) : n \in Nets}]
  BY DEF IInv, ControlTypeOK
<1>2. ASSUME NEW n \in Nets, RunPattern(n)
      PROVE  StageInv'
  BY <1>1, <1>2 DEF RunPattern, Run
<1>3. ASSUME NEW n \in Nets, RunDetours(n)
      PROVE  StageInv'
  BY <1>1, <1>3 DEF RunDetours, Run
<1>4. CASE CheckPatterns
  BY <1>4 DEF CheckPatterns, Recheck
<1>5. CASE CheckDetours \/ CheckMaze \/ ExtractView \/ \E n \in Nets : MazeRoute(n)
  <2>1. pc' \notin {"stage1", "stage2"}
    BY <1>5 DEF CheckDetours, Recheck, CheckMaze, ExtractView, MazeRoute
  <2>2. QED
    BY <2>1
<1>6. CASE UNCHANGED <<pc, tree>>
  BY <1>6
<1>7. QED
  BY <1>2, <1>3, <1>4, <1>5, <1>6, Cases
     DEF PickBatch, BatchJoined, RipUp, Load, Store, JobDone, RipUpForMaze, vars, jobs

(* Jobs that meet somewhere else do not exist. *)
LEMMA BoxesStep == IInv /\ IInv' /\ StageInv' /\ BoxesInv /\ [Next]_vars => BoxesInv'
<1> SUFFICES ASSUME IInv, IInv', StageInv', BoxesInv, [Next]_vars, (pc = "stage1" \/ DetoursInBox)',
                    NEW e \in contended'
             PROVE  BetweenBoxes(e)
  BY DEF BoxesInv, BetweenBoxes, Joins
<1>1. pc = "stage1" \/ DetoursInBox
  BY Cases DEF PickBatch, BatchJoined, RunPattern, RipUp, RunDetours, Run, Load, Store, JobDone,
               CheckPatterns, CheckDetours, Recheck, RipUpForMaze, ExtractView, MazeRoute, CheckMaze,
               vars, jobs, DetoursInBox, InItsBox
<1>2. CASE e \in contended
  BY <1>1, <1>2 DEF BoxesInv
<1>3. CASE e \notin contended
  <2>1. PICK n \in Nets : Load(n)
    BY <1>3, Cases
       DEF PickBatch, BatchJoined, RunPattern, RipUp, RunDetours, Run, Store, JobDone,
           CheckPatterns, CheckDetours, Recheck, RipUpForMaze, ExtractView, MazeRoute, CheckMaze,
           vars, jobs
  <2>2. PICK u \in todo[n] :
          /\ updating' = [updating EXCEPT ![n] = {u}]
          /\ contended' = contended \cup
               {c \in {u[2]} : \E m \in Nets \ {n} : \E w \in updating[m] : w[2] = c}
    BY <2>1 DEF Load
  <2>3. PICK m \in Nets \ {n} : \E w \in updating[m] : e = u[2] /\ w[2] = e
    BY <1>3, <2>2
  <2>4. updating'[n] = {u} /\ updating'[m] = updating[m]
    BY <2>2 DEF IInv, ControlTypeOK
  <2>5. pc' \in {"stage1", "stage2"}
    BY <2>1 DEF Load, IInv, ControlTypeOK, JobInv, BatchInv
  <2>6. /\ tree'[m] \in {NoTree} \cup PatternTrees[m] \cup DetourTrees[m]
        /\ tree'[n] \in {NoTree} \cup PatternTrees[n] \cup DetourTrees[n]
        /\ pc' = "stage1" => /\ tree'[m] \in {NoTree} \cup PatternTrees[m]
                             /\ tree'[n] \in {NoTree} \cup PatternTrees[n]
    BY <2>5 DEF StageInv
  <2>7. RacesBetween'
    BY RacesAreBetween, PTL
  <2>8. /\ tree'[m] # NoTree /\ tree'[n] # NoTree
        /\ InItsBox(m, tree'[m]) /\ InItsBox(n, tree'[n]) => BetweenBoxes(e)
    BY <2>3, <2>4, <2>7 DEF RacesBetween, InItsBox, BetweenBoxes, Joins
  <2>9. InItsBox(m, tree'[m]) /\ InItsBox(n, tree'[n])
    BY <2>6, <2>8, PatternInBox DEF InItsBox, DetoursInBox
  <2>10. QED
    BY <2>8, <2>9
<1>4. QED
  BY <1>2, <1>3

(* In stage 1 every demand is exact but for the edges between two boxes,   *)
(* and so it is to the end if the detours stay in the boxes: wrong demands *)
(* come from vias at the boxes' borders and from detours that leave them.  *)
THEOREM ExactInBoxes ==
  Spec => [](pc = "stage1" \/ DetoursInBox =>
               \A e \in Edges : BetweenBoxes(e) \/ demand[e] = TrueDemand(e))
<1>1. Init => StageInv /\ BoxesInv
  BY DEF Init, StageInv, BoxesInv
<1>2. IInv /\ IInv' /\ StageInv /\ BoxesInv /\ [Next]_vars => StageInv' /\ BoxesInv'
  BY StageStep, BoxesStep
<1>3. IInv /\ BoxesInv => (pc = "stage1" \/ DetoursInBox =>
                             \A e \in Edges : BetweenBoxes(e) \/ demand[e] = TrueDemand(e))
  BY DEF IInv, DemandExact, BoxesInv
<1>4. QED
  BY <1>1, <1>2, <1>3, Invariant, PTL DEF Spec

(* Where all boxes meet, batches are single nets, and no demand is ever    *)
(* wrong: the updates need no lock as long as one job runs.                *)
NetsMeet == \A m, n \in Nets : Overlap(boundingBox[m], boundingBox[n])

(* A job is alone in such a batch. *)
LEMMA AloneStep == IInv /\ NetsMeet /\ contended = {} /\ [Next]_vars => contended' = {}
<1> SUFFICES ASSUME IInv, NetsMeet, contended = {}, [Next]_vars
             PROVE  contended' = {}
  OBVIOUS
<1>1. ASSUME NEW n \in Nets, Load(n)
      PROVE  contended' = {}
  <2>1. \A m \in Nets \ {n} : m \notin batch
    BY <1>1 DEF Load, IInv, BatchInv, NetsMeet
  <2>2. \A m \in Nets \ {n} : updating[m] = {}
    BY <2>1, CommittedJob DEF IInv
  <2>3. QED
    BY <1>1, <2>2 DEF Load
<1>2. CASE UNCHANGED contended
  BY <1>2
<1>3. QED
  BY <1>1, <1>2, Cases
     DEF PickBatch, BatchJoined, RunPattern, RipUp, RunDetours, Run, Store, JobDone,
         CheckPatterns, CheckDetours, Recheck, RipUpForMaze, ExtractView, MazeRoute, CheckMaze,
         vars, jobs

(* Routed one by one, nets leave the demands their trees take, to the end. *)
THEOREM ExactAlone ==
  Spec => [](NetsMeet => \A e \in Edges : demand[e] = TrueDemand(e))
<1> DEFINE Alone == NetsMeet => contended = {}
<1>1. Init => Alone
  BY DEF Init
<1>2. IInv /\ Alone /\ [Next]_vars => Alone'
  <2>1. NetsMeet' => NetsMeet
    BY DEF NetsMeet, Overlap
  <2>2. QED
    BY <2>1, AloneStep
<1>3. IInv /\ Alone => (NetsMeet => \A e \in Edges : demand[e] = TrueDemand(e))
  BY DEF IInv, DemandExact
<1>4. QED
  <2> HIDE DEF Alone
  <2>1. QED
    BY <1>1, <1>2, <1>3, Invariant, PTL DEF Spec

=============================================================================
