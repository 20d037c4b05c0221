----------------------------- MODULE GPURouter -----------------------------
(***************************************************************************)
(* GPUMazeRouter (gamer/GPUMazeRouter.cu) as GPUMazeRoute::run drives it:  *)
(* the overflowing nets are ripped up on the device all at once, routed    *)
(* one after the other (a coarse route gives the guides of the fine one),  *)
(* committed there, and at the end applied to the trees and demands of the *)
(* host.  GlobalRouter::write then prints the trees.                       *)
(*                                                                         *)
(* The device has demands and routes of its own.  A route is a pair of     *)
(* points in the order of their indices.  The routes of a net are a        *)
(* function: those of its first tree have numbers, those of Gamer the pin  *)
(* and the turn they lead back from.  Demands and capacities are in halves *)
(* of a track, as in GridGraph.                                            *)
(***************************************************************************)
EXTENDS Gamer, GuideOutput

CONSTANTS Problems,      \* records of capacity and of each net's pins, root and tree
          ScaleX, ScaleY,
          Margin, CoarseTurns, FineTurns

(* A 256th of the grid's sides, at most 10.  None needs to be a multiple.  *)
ASSUME ScaleAssumption ==
  ScaleX \in Nat \ {0} /\ ScaleY \in Nat \ {0} /\ Margin \in Nat

(* GPUMazeRoute::run asks for 4 and 9 turns.                               *)
ASSUME TurnsAssumption == CoarseTurns \in Nat \ {0, 1} /\ FineTurns \in Nat

(* No way of two turns on the coarse grid costs as much as Infinity: with  *)
(* 9 for the dearest edge, a coarse cell is the mean of ScaleX * ScaleY    *)
(* cells and of the layers, and as much again makes the means of the       *)
(* narrower cells at the border comparable (CoarsePosition).               *)
ASSUME InfinityAssumption ==
  /\ Infinity \in Nat
  /\ 9 * nLayers * nLayers * (ScaleX * ScaleY) * (ScaleX * ScaleY) * (xSize + ySize) < Infinity

NetRecord ==
  [pins : Seq(Seq(Points) \ {<<>>}) \ {<<>>},
   tree : [root : Points, pairs : Seq([u : Points, v : Points])]]

ASSUME ProblemsAssumption == \A p \in Problems : p.nets \in Seq(NetRecord)

VARIABLES problem,       \* never changes
          tree, demand,                  \* of the host: each net's root and pairs
          devDemand, routes, rootIdx, isRouted, isOverflow,
          todo,          \* the nets of the list not done yet
          work,          \* the net being routed, its guides and its Gamer record
          guides,        \* what write printed of a net
          phase

vars == <<problem, tree, demand, devDemand, routes, rootIdx, isRouted, isOverflow,
          todo, work, guides, phase>>

Nets == DOMAIN problem.nets
Capacity(e) == IF e \in Edges THEN problem.capacity[e] ELSE 0
-----------------------------------------------------------------------------
(* xyzToIdx.                                                               *)
Index(p) ==
  LET n == High(xSize, ySize)
  IN (p.l * n + Coord(p.c, 1 - layerDirections[p.l])) * n + Coord(p.c, layerDirections[p.l])

Ordered(p, q) == IF Index(p) <= Index(q) THEN [u |-> p, v |-> q] ELSE [u |-> q, v |-> p]

(* commitRoutes: a via takes one track of its end layers, half on each     *)
(* side, and two of the layers inside.                                     *)
DevViaDemand(s, l) == IF l \in {s.u.l, s.v.l} THEN 1 ELSE 2
DevDemand(s, e) ==
  IF IsWire(s) THEN IF e \in WireEdges(s) THEN 2 ELSE 0
  ELSE IF e[1] \in s.u.l .. s.v.l /\ e \in NonStackEdges(e[1], s.u.c)
       THEN DevViaDemand(s, e[1]) * NonStackDemand(e[1], s.u.c) ELSE 0

DevUsage(r, e) == SumFunction([k \in DOMAIN r |-> DevDemand(r[k], e)])
Ripped(d, nets, r) ==
  [e \in Edges |-> d[e] - SumFunction([n \in nets |-> DevUsage(r[n], e)])]
CommittedIfRouted(d, r) ==    \* mutant: a net that could not be routed is not committed
  IF IsRouted(work.fine) THEN [e \in Edges |-> d[e] + DevUsage(r, e)] ELSE d
Committed(d, r) == [e \in Edges |-> d[e] + DevUsage(r, e)]

markOverflowNet(d, r) ==
  {n \in Nets : \E k \in DOMAIN r[n] :
     IsWire(r[n][k]) /\ \E e \in WireEdges(r[n][k]) : d[e] > problem.capacity[e]}

-----------------------------------------------------------------------------
(* selectAccessPoints: as on the host, but the points are points of the 3D *)
(* grid.  Their indices are sorted and equal ones dropped: a set.          *)
NetCenter(pins) ==
  LET cells == {p.c : p \in UNION {ToSet(pins[i]) : i \in DOMAIN pins}}
  IN [k \in {1, 2} |-> LET x == {c[k] : c \in cells} IN (Min(x) + Max(x)) \div 2]

Accessibility(p) ==
  IF p.l >= min_routing_layer
  THEN Cardinality({e \in {Edge(p.l, p.c), Edge(p.l, Shift(p.c, layerDirections[p.l], -1))} :
                      Capacity(e) >= 2})
  ELSE 1

(* The first of the most accessible points nearest to the center.          *)
Selected(pins, points) ==
  LET center == NetCenter(pins)
      Far(p) == Distance(center[1], p.c[1]) + Distance(center[2], p.c[2])
      access == [i \in DOMAIN points |-> Accessibility(points[i])]
      most == {i \in DOMAIN points : \A j \in DOMAIN points : access[j] <= access[i]}
      nearest == {i \in most : \A j \in most : Far(points[i]) <= Far(points[j])}
  IN points[Min(nearest)]

selectAccessPoints(pins) == {Selected(pins, pins[i]) : i \in DOMAIN pins}

(* rootIndices[netId]: the front of the sorted list.                       *)
Foremost(points) == CHOOSE p \in points : \A q \in points : Index(p) <= Index(q)

-----------------------------------------------------------------------------
(* Boxes [lx, ly, hx, hy] exclude hx and hy, getPinIndicesBoundingBox's    *)
(* includes them.                                                          *)
InBox(b, c) == b.lx <= c[1] /\ c[1] < b.hx /\ b.ly <= c[2] /\ c[2] < b.hy

getPinIndicesBoundingBox(points) ==
  LET xs == {p.c[1] : p \in points}
      ys == {p.c[2] : p \in points}
  IN [lx |-> Min(xs), ly |-> Min(ys), hx |-> Max(xs), hy |-> Max(ys)]

coarseX == (xSize + ScaleX - 1) \div ScaleX
coarseY == (ySize + ScaleY - 1) \div ScaleY
Coarse(c) == <<c[1] \div ScaleX, c[2] \div ScaleY>>

CoarseBox(box) ==    \* coarsenBoudingBox with the margin
  [lx |-> High(0, box.lx \div ScaleX - Margin), ly |-> High(0, box.ly \div ScaleY - Margin),
   hx |-> Low(coarseX, Low(coarseX, box.hx \div ScaleX + 1) + Margin),
   hy |-> Low(coarseY, Low(coarseY, box.hy \div ScaleY + 1) + Margin)]

Fine(b) ==           \* finingBoundingBox
  [lx |-> b.lx * ScaleX, ly |-> b.ly * ScaleY,
   hx |-> Low(xSize, b.hx * ScaleX), hy |-> Low(ySize, b.hy * ScaleY)]

(* calculateWireViaCost: the logistic cost has two values here, dear when  *)
(* the edge has no track left.                                             *)
WireCost(e) == IF problem.capacity[e] - devDemand[e] >= 2 THEN 1 ELSE 9
ViaCost == 1

(* The cost from the beginning of the row of layer l to cell c.            *)
Along(l, c) ==
  LET d == layerDirections[l]
  IN SumFunction([x \in 0 .. Coord(c, d) - 1 |-> WireCost(Edge(l, Shift(c, d, x - Coord(c, d))))])

(* extract2DGrid and coarsenCost2D: the cost from a coarse cell to the     *)
(* next is the mean over the layers and over the pairs of cells of the two *)
(* in one row: the difference of the mean positions of their cells.  (Left *)
(* of the box the costs are of earlier rounds, and cancel out.)  The means *)
(* are brought to a common denominator: the last column and row of coarse  *)
(* cells may be narrower, and have fewer cells to take the mean of.        *)
borderX == xSize - (coarseX - 1) * ScaleX
borderY == ySize - (coarseY - 1) * ScaleY
Weight(b) == (IF b[1] = coarseX - 1 THEN ScaleX ELSE borderX) *
               (IF b[2] = coarseY - 1 THEN ScaleY ELSE borderY)

LayersOf(d) == {l \in Layers \ {0} : layerDirections[l] = d}
CoarsePosition(d, b) ==
  Cardinality(LayersOf(1 - d)) * Weight(b) *
    SumFunction([l \in LayersOf(d) |->
                   SumFunction([c \in {c \in Cells : Coarse(c) = b} |-> Along(l, c)])])

(* The row (d = H) or column of coarse cell b in box.                      *)
CoarseLine(box, position, d, b) ==
  LET low == IF d = H THEN box.lx ELSE box.ly
      high == IF d = H THEN box.hx ELSE box.hy
      At(i) == Shift(b, d, low + i - 1 - Coord(b, d))
  IN [cells |-> [i \in 1 .. high - low |-> At(i)],
      at |-> [i \in 1 .. high - low |-> position[d][At(i)]],
      index |-> Coord(b, d) - low + 1, half |-> high - low]

CoarseRank(b) == b[1] + b[2] * coarseX

(* std::sort: those of equal rank come in any order.                       *)
SortedBy(rank, set) ==
  {q \in Bijection(1 .. Cardinality(set), set) :
     \A i, j \in 1 .. Cardinality(set) : i < j => rank[q[i]] <= rank[q[j]]}

(* coarseGamer2D->route for the points of a net, lowest rank first.        *)
coarsePins(points) ==
  LET cells == {Coarse(p.c) : p \in points}
  IN CHOOSE q \in SortedBy([b \in cells |-> CoarseRank(b)], cells) : TRUE

CoarseRoute(points, box) ==
  LET cells == {<<x, y>> : x \in box.lx .. box.hx - 1, y \in box.ly .. box.hy - 1}
      position == [d \in {H, V} |-> [b \in cells |-> CoarsePosition(d, b)]]
      rows == [b \in cells |-> CoarseLine(box, position, H, b)]
      columns == [b \in cells |-> CoarseLine(box, position, V, b)]
  IN Route(coarsePins(points), rows, columns, CoarseTurns)

getGuideFromRoutes2D(r) ==
  {Fine([lx |-> Low(r[k][1][1], r[k][2][1]), ly |-> Low(r[k][1][2], r[k][2][2]),
         hx |-> High(r[k][1][1], r[k][2][1]) + 1, hy |-> High(r[k][1][2], r[k][2][2]) + 1])
     : k \in DOMAIN r}

Guides(points) ==
  LET box == getPinIndicesBoundingBox(points)
      coarseBox == CoarseBox(box)
  IN IF box.hx - box.lx < ScaleX /\ box.hy - box.ly < ScaleY
     THEN {Fine(coarseBox)}
     ELSE UNION {getGuideFromRoutes2D(net.routes) : net \in {CoarseRoute(points, coarseBox)}}
-----------------------------------------------------------------------------
(* setGuide2D: the wires of the boxes in one row are merged while they     *)
(* overlap; layer 0 has no wires; every cell has a via segment.            *)
GuideCells(boxes) == {c \in Cells : \E b \in boxes : InBox(b, c)}

Joined(boxes, c, d) == \E b \in boxes : InBox(b, c) /\ InBox(b, Shift(c, d, 1))

Wire(boxes, p) ==
  LET d == layerDirections[p.l]
      x == Coord(p.c, d)
      At(k) == Shift(p.c, d, k - x)
      low == Min({k \in 0 .. x : \A j \in k .. x - 1 : Joined(boxes, At(j), d)})
      high == Max({k \in x .. getSize(d) - 1 : \A j \in x .. k - 1 : Joined(boxes, At(j), d)})
  IN IF p.l = 0 THEN Alone(p)
     ELSE [cells |-> [i \in 1 .. high - low + 1 |-> [l |-> p.l, c |-> At(low + i - 1)]],
           at |-> [i \in 1 .. high - low + 1 |-> Along(p.l, At(low + i - 1))],
           index |-> x - low + 1, half |-> high - low + 1]

(* Of the VIA_SEG_SIZE entries only those of a layer have a position.      *)
VIA_SEG_SIZE == 10
ViaSegment(p) ==
  [cells |-> [i \in 1 .. nLayers |-> [l |-> i - 1, c |-> p.c]],
   at |-> [i \in 1 .. nLayers |-> i * ViaCost],
   index |-> p.l + 1, half |-> VIA_SEG_SIZE \div 2]

(* pinIndices, in the order of the pins of the coarse route.               *)
SortedByIndex(points) == SortedBy([p \in points |-> Index(p)], points)    \* mutant: not sorted again
SortedByRank(points) == SortedBy([p \in points |-> CoarseRank(Coarse(p.c))], points)
-----------------------------------------------------------------------------
(* extractGRTree: the routes are split where another one ends, and a       *)
(* depth-first walk from the root makes the pieces a tree.                 *)
OnRoute(s, p) ==
  IF IsWire(s)
  THEN LET d == layerDirections[s.u.l]
       IN /\ p.l = s.u.l /\ Coord(p.c, 1 - d) = Coord(s.u.c, 1 - d)
          /\ Coord(p.c, d) \in Coord(s.u.c, d) .. Coord(s.v.c, d)
  ELSE p.c = s.u.c /\ p.l \in s.u.l .. s.v.l

RouteEnds(r) == UNION {{r[k].u, r[k].v} : k \in DOMAIN r}
LinksUnsplit(r) == {{r[k].u, r[k].v} : k \in DOMAIN r}    \* mutant: whole routes

(* Two ends on one route with no other end between them.                   *)
Pieces(on) ==
  {{pq[1], pq[2]} : pq \in {pq \in on \X on :
                     /\ Index(pq[1]) < Index(pq[2])
                     /\ \A x \in on : Index(x) <= Index(pq[1]) \/ Index(pq[2]) <= Index(x)}}

Links(r) == UNION {Pieces({p \in RouteEnds(r) : OnRoute(r[k], p)}) : k \in DOMAIN r}

(* A round of the loop takes the last node from the stack, and each node   *)
(* is put there once.                                                      *)
Walked(links, s) ==
  LET node == Last(s.stack)
      found == SetToSeq({q \in (UNION links) \ s.mark : {node, q} \in links})
  IN IF s.stack = <<>> THEN s
     ELSE [stack |-> Front(s.stack) \o found, mark |-> s.mark \cup ToSet(found),
           pairs |-> s.pairs \o [i \in DOMAIN found |-> [u |-> node, v |-> found[i]]]]

Walk(links, root) ==
  LET rounds == Cardinality(UNION links)
      after[k \in 0 .. rounds] ==
        IF k = 0 THEN [stack |-> <<root>>, mark |-> {root}, pairs |-> <<>>]
        ELSE Only({Walked(links, s) : s \in {after[k - 1]}})
  IN after[rounds].pairs

extractGRTree(r, root) ==
  [root |-> root, pairs |-> IF r = <<>> THEN <<>> ELSE Walk(Links(r), root)]
-----------------------------------------------------------------------------
Idle == [net |-> 0]

(* A tree joins the pins of its net: it is in preorder, commitTree accepts *)
(* its pairs, and all pins are nodes of it.  If it has pairs, it is not    *)
(* all in one point: getGuide has no guide for a pair of equal points.     *)
Joins(n, t) ==
  LET nodes == {t.root} \cup {t.pairs[k].v : k \in DOMAIN t.pairs}
  IN /\ \A k \in DOMAIN t.pairs :
          /\ Legal(t.pairs[k])
          /\ t.pairs[k].u = t.root \/ \E j \in 1 .. k - 1 : t.pairs[j].v = t.pairs[k].u
     /\ t.pairs # <<>> => ~ \A k \in DOMAIN t.pairs : t.pairs[k].u = t.pairs[k].v
     /\ selectAccessPoints(problem.nets[n].pins) \subseteq nodes

(* The constructor.                                                        *)
Init ==
  /\ problem \in Problems
  /\ tree = [n \in Nets |-> problem.nets[n].tree]
  /\ \A n \in Nets : Joins(n, tree[n])    \* the stages before did their work
  /\ demand = [e \in Edges |-> SumFunction([n \in Nets |-> Usage(tree[n].pairs, e)])]
  /\ devDemand = demand
  /\ routes = [n \in Nets |-> [k \in DOMAIN tree[n].pairs |->
                                 Ordered(tree[n].pairs[k].u, tree[n].pairs[k].v)]]
  /\ rootIdx = [n \in Nets |-> tree[n].root]
  /\ isRouted = [n \in Nets |-> TRUE]
  /\ isOverflow = markOverflowNet(devDemand, routes)
  /\ isOverflow # {}    \* stage 3 is skipped otherwise
  /\ todo = isOverflow
  /\ work = Idle
  /\ guides = [n \in Nets |-> {}]
  /\ phase = "ripup"

(* The rip-up of all the nets of the list, in one kernel.                  *)
RipUp ==
  /\ phase = "ripup"
  /\ devDemand' = Ripped(devDemand, isOverflow, routes)
  /\ phase' = "route"
  /\ UNCHANGED <<problem, tree, demand, routes, rootIdx, isRouted, isOverflow, todo, work, guides>>

(* The next net's access points, guides and order of pins.                 *)
Prepare ==
  /\ phase = "route" /\ work = Idle /\ todo # {}
  /\ LET n == Min(todo)
         points == selectAccessPoints(problem.nets[n].pins)
     IN /\ rootIdx' = [rootIdx EXCEPT ![n] = Foremost(points)]
        /\ \E order \in SortedByRank(points) :
             work' = [net |-> n, boxes |-> Guides(points), round |-> 1, fine |-> Unrouted(order)]
  /\ UNCHANGED <<problem, tree, demand, devDemand, routes, isRouted, isOverflow,
                 todo, guides, phase>>

(* One iteration of fineGamer->route.                                      *)
RoutePin ==
  /\ work # Idle /\ work.round < Len(work.fine.pins)
  /\ LET points == {[l |-> l, c |-> c] : l \in Layers, c \in GuideCells(work.boxes)}
         vias == [p \in points |-> ViaSegment(p)]
         wires == [p \in points |-> Wire(work.boxes, p)]
     IN work' = [work EXCEPT !.round = @ + 1, !.fine = Connect(@, vias, wires, FineTurns)]
  /\ UNCHANGED <<problem, tree, demand, devDemand, routes, rootIdx, isRouted, isOverflow,
                 todo, guides, phase>>

(* Its routes, all pins connected or not, are copied and committed.        *)
CommitNet ==
  /\ work # Idle /\ work.round = Len(work.fine.pins)
  /\ LET r == [k \in DOMAIN work.fine.routes |->
                 Ordered(work.fine.routes[k][1], work.fine.routes[k][2])]
     IN /\ routes' = [routes EXCEPT ![work.net] = r]
        /\ devDemand' = Committed(devDemand, r)
  /\ isRouted' = [isRouted EXCEPT ![work.net] = IsRouted(work.fine)]
  /\ work' = Idle
  /\ todo' = todo \ {work.net}
  /\ UNCHANGED <<problem, tree, demand, rootIdx, isOverflow, guides, phase>>

(* markOverflowNet at the end of routeTwoStep.  What is applied after it   *)
(* is the list of nets that were routed, not the new one.                  *)
MarkOverflow ==
  /\ phase = "route" /\ work = Idle /\ todo = {}
  /\ isOverflow' = markOverflowNet(devDemand, routes)
  /\ todo' = isOverflow
  /\ phase' = "apply"
  /\ UNCHANGED <<problem, tree, demand, devDemand, routes, rootIdx, isRouted, work, guides>>

(* One net of applyToCpu: if it could not be routed, the old tree stays.   *)
Apply ==
  /\ phase = "apply" /\ todo # {}
  /\ LET n == Min(todo)
         new == extractGRTree(routes[n], rootIdx[n])
     IN IF isRouted[n]
        THEN /\ tree' = [tree EXCEPT ![n] = new]
             /\ demand' = Commit(RipUpTree(demand, tree[n].pairs), new.pairs)
        ELSE UNCHANGED <<tree, demand>>
  /\ todo' = todo \ {Min(todo)}
  /\ UNCHANGED <<problem, devDemand, routes, rootIdx, isRouted, isOverflow, work, guides, phase>>

(* GlobalRouter::write.                                                    *)
Write ==
  /\ phase = "apply" /\ todo = {}
  /\ guides' = [n \in Nets |-> write(tree[n].root, tree[n].pairs)]
  /\ phase' = "done"
  /\ UNCHANGED <<problem, tree, demand, devDemand, routes, rootIdx, isRouted, isOverflow,
                 todo, work>>

Finished == phase = "done" /\ UNCHANGED vars

Next == RipUp \/ Prepare \/ RoutePin \/ CommitNet \/ MarkOverflow \/ Apply \/ Write \/ Finished

Spec == Init /\ [][Next]_vars
-----------------------------------------------------------------------------
(* The guides a net is routed in hold all of its pins (a pin outside has   *)
(* no position in the packed rows), and the fine route starts in the       *)
(* coarse cell the coarse one started in.                                  *)
PinsOnGuides ==
  work # Idle =>
    /\ \A i \in DOMAIN work.fine.pins : work.fine.pins[i].c \in GuideCells(work.boxes)
    /\ Coarse(work.fine.pins[1].c) = Head(coarsePins(ToSet(work.fine.pins)))

(* When all pins of a net are connected, every one of them is the end of a *)
(* route, none just lies on it: extractGRTree's mark.at(rootIdx) finds the *)
(* root, whichever pin the fine route started from.                        *)
PinsEndRoutes ==
  \A n \in Nets : phase = "route" /\ n \in isOverflow \ todo /\ isRouted[n] =>
    LET pins == selectAccessPoints(problem.nets[n].pins)
    IN Cardinality(pins) > 1 => pins \subseteq RouteEnds(routes[n])

(* The demands of the device change by what is ripped up and committed:    *)
(* without its routes they are at all times what they were at first        *)
(* without the routes of then, with nets that could not be routed as well. *)
placed == IF phase = "route" THEN Nets \ todo ELSE Nets
FirstRoutes(n) ==
  LET p == problem.nets[n].tree.pairs IN [k \in DOMAIN p |-> Ordered(p[k].u, p[k].v)]

DeviceDemandExact ==
  \A e \in Edges :
    devDemand[e] - SumFunction([n \in placed |-> DevUsage(routes[n], e)])
      = SumFunction([n \in Nets |-> Usage(problem.nets[n].tree.pairs, e)])
          - SumFunction([n \in Nets |-> DevUsage(FirstRoutes(n), e)])

(* The host's trees join all pins of their nets, before and after each is  *)
(* replaced, and its demands are the sum of what the trees use.            *)
HostTreesJoinPins ==
  /\ \A n \in Nets : Joins(n, tree[n])
  /\ \A e \in Edges : demand[e] = SumFunction([n \in Nets |-> Usage(tree[n].pairs, e)])

(* The guides of a net, as they are written, touch one another and reach   *)
(* its root: with a via's line per two layers no layer is left out.        *)
Spans(g) ==
  {[l |-> l, c |-> <<x, y>>] :
     l \in g.layers[1] .. g.layers[2], x \in g.low[1] .. g.high[1], y \in g.low[2] .. g.high[2]}
Grown(lines, S) == S \cup UNION {Spans(g) : g \in {h \in lines : Spans(h) \cap S # {}}}
Touching(lines, root) ==
  LET rounds == Cardinality(lines)
      joined[k \in 0 .. rounds] ==
        IF k = 0 THEN {root} ELSE Only({Grown(lines, S) : S \in {joined[k - 1]}})
  IN joined[rounds]
GuidesTouch ==
  phase = "done" => \A n \in Nets :
    LET all == UNION {Spans(g) : g \in guides[n]}
    IN /\ Touching(guides[n], tree[n].root) = all
       /\ selectAccessPoints(problem.nets[n].pins) \subseteq all
=============================================================================
