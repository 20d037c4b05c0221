---------------------------- MODULE SteinerTree ----------------------------
(***************************************************************************)
(* PatternRoute::constructSteinerTree (gr/PatternRoute.cpp) and the        *)
(* selection of access points it starts with (GridGraph::selectAccess-     *)
(* Points): operators only.                                                *)
(*                                                                         *)
(* A net is a record of its pins, each a sequence of access points         *)
(* <<x, y, layer>>, and of the edges <<layer, x, y>> around it that have   *)
(* no capacity.  A branch of FLUTE's result is a record of its point and   *)
(* of the branch it leads to (n; itself at the end).                       *)
(***************************************************************************)
EXTENDS PatternDag

CONSTANT flute(_)    \* the trees FLUTE may return for a set of points

Abs(i) == IF i < 0 THEN -i ELSE i

Cell(p) == <<p[1], p[2]>>
Points(net) == UNION {ToSet(net.pins[i]) : i \in DOMAIN net.pins}

(* GRNet's boundingBox.cx() and cy().                                      *)
NetCenter(net) ==
  [k \in {1, 2} |-> LET c == {p[k] : p \in Points(net)} IN (Min(c) + Max(c)) \div 2]

(* How many of the two edges at an access point a wire could take.         *)
Accessibility(net, p) ==
  LET lower == IF LayerDirection(p[3]) = H THEN <<p[3], p[1] - 1, p[2]>>
               ELSE <<p[3], p[1], p[2] - 1>>
      ends == {<<p[3], p[1], p[2]>>} \cup
              (IF Cell(p)[LayerDirection(p[3]) + 1] > 0 THEN {lower} ELSE {})
  IN IF p[3] >= MinRoutingLayer THEN Cardinality(ends \ net.blocked) ELSE 1

CenterDistance(net, p) == Abs(NetCenter(net)[1] - p[1]) + Abs(NetCenter(net)[2] - p[2])

(* The first of the most accessible points nearest to the center.          *)
SelectedPoint(net, pin) ==
  LET Better(best, p) ==
        LET gain == Accessibility(net, p) - Accessibility(net, best)
        IN IF gain > 0 \/ (gain = 0 /\ CenterDistance(net, p) < CenterDistance(net, best))
           THEN p ELSE best
  IN FoldLeft(Better, Head(pin), Tail(pin))

(* The layers of all the pins for which cell c was selected.               *)
FixedLayers(net, c) ==
  UNION {{p[3] : p \in {q \in ToSet(net.pins[i]) : Cell(q) = c}}
          : i \in {k \in DOMAIN net.pins : Cell(SelectedPoint(net, net.pins[k])) = c}}

(* cell -> fixed layers, extended to 2 layers higher.                      *)
selectAccessPoints(net) ==
  [c \in {Cell(SelectedPoint(net, net.pins[i])) : i \in DOMAIN net.pins} |->
     [low |-> Min(FixedLayers(net, c)),
      high |-> Min({Max(FixedLayers(net, c)) + 2, NumLayers - 1})]]

-----------------------------------------------------------------------------
(* adjacentList[i], in the order the loop over the branches fills it.      *)
Adjacent(branch, i) ==
  FlattenSeq([b \in DOMAIN branch |->
    IF branch[b].n = b THEN <<>>
    ELSE IF b = i THEN <<branch[b].n>>
    ELSE IF branch[b].n = i THEN <<b>> ELSE <<>>])

Onward(branch, prev, i) == SelectSeq(Adjacent(branch, i), LAMBDA j : j # prev)

RECURSIVE hasDegree1(_, _)
hasDegree1(branch, i) ==
  /\ Len(Adjacent(branch, i)) = 1
  /\ LET next == Adjacent(branch, i)[1]
     IN branch[i].at = branch[next].at => hasDegree1(branch, next)

FirstBranch(branch) == 1    \* mutant: any branch will do as the root

(* A root having degree 1; the first branch if there is none.              *)
Root(branch) ==
  LET found == {i \in DOMAIN branch : hasDegree1(branch, i)}
  IN IF found = {} THEN 1 ELSE Min(found)

(* constructTree: the children of a node reached from prev, as the calls   *)
(* <<prevIndex, curIndex>> that make them.  A branch on the same point as  *)
(* its parent leaves its children to the parent.                           *)
RECURSIVE Children(_, _, _)
Children(branch, prev, i) ==
  LET next == Onward(branch, prev, i)
  IN FlattenSeq([k \in DOMAIN next |->
       IF branch[next[k]].at = branch[i].at THEN Children(branch, i, next[k])
       ELSE <<<<i, next[k]>>>>])

RECURSIVE Subtree(_, _, _)
Subtree(branch, prev, i) ==
  LET calls == Children(branch, prev, i)
  IN FoldLeft(LAMBDA tree, c : tree @@ Subtree(branch, c[1], c[2]),
              <<i>> :> [k \in DOMAIN calls |-> <<calls[k][2]>>], calls)

(* A net on one point needs no FLUTE.                                      *)
Branches(cells) ==
  IF Cardinality(cells) = 1 THEN {<<[at |-> c, n |-> 1]>> : c \in cells} ELSE flute(cells)

SteinerTree(net, branch) ==
  LET selected == selectAccessPoints(net)
      children == Subtree(branch, 0, Root(branch))
      At(m) == branch[m[1]].at
  IN [root |-> <<Root(branch)>>,
      nodes |-> DOMAIN children,
      at |-> [m \in DOMAIN children |-> At(m)],
      fixed |-> [m \in DOMAIN children |->
                   IF At(m) \in DOMAIN selected THEN selected[At(m)] ELSE NoLayers],
      children |-> children]
=============================================================================
