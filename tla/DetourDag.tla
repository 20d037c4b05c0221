----------------------------- MODULE DetourDag -----------------------------
(***************************************************************************)
(* PatternRoute (gr/PatternRoute.cpp) as stage 2 of route_multi calls it,  *)
(* up to the search for the cheapest routing: the Steiner tree, the        *)
(* routing DAG, and constructDetours, which looks for congested trunks in  *)
(* it and adds a shifted copy of each for every shift.                     *)
(*                                                                         *)
(* The copy of node <<i>> is <<i, -1 - direction, shift>>, and the pin it  *)
(* leaves behind <<i, -3 - direction, shift>>.  net.congested is what the  *)
(* congestion view holds: edges <<direction, x, y>>; net.size is the size  *)
(* of the grid.                                                            *)
(***************************************************************************)
EXTENDS SteinerTree, DetourShift

CONSTANT Nets

VARIABLES net,
          tree,         \* steinerTree
          dag,          \* routingDag
          scaffolds,    \* scaffolds, in the order they are worked through
          current       \* the scaffold whose detours are built

dagVars == <<net, tree, dag, scaffolds, current>>
vars == <<dagVars, shiftVars>>

Init ==
  /\ net \in Nets
  /\ tree = <<>> /\ dag = <<>> /\ scaffolds = <<>> /\ current = 0
  /\ trunk = <<>> /\ low = 0 /\ high = 0 /\ step = 1 /\ pos = 0 /\ detours = {}
  /\ pc = "tree"

(* constructSteinerTree and constructRoutingDAG.                           *)
ConstructTree ==
  /\ pc = "tree"
  /\ \E branch \in Branches(DOMAIN selectAccessPoints(net)) :
       tree' = SteinerTree(net, branch)
  /\ dag' = RoutingDag(tree')
  /\ pc' = "scaffolds"
  /\ UNCHANGED <<net, scaffolds, current, trunk, low, high, step, pos, detours>>

-----------------------------------------------------------------------------
(* congestionView.check.                                                   *)
Congested(a, b) ==
  \E e \in net.congested :
    IF a[2] = b[2]
    THEN e[1] = H /\ e[3] = a[2] /\ e[2] \in Min({a[1], b[1]}) .. Max({a[1], b[1]}) - 1
    ELSE e[1] = V /\ e[2] = a[1] /\ e[3] \in Min({a[2], b[2]}) .. Max({a[2], b[2]}) - 1

(* A scaffold is the set of tree nodes in it: those that a trunk through   *)
(* its start node joins.  open[d][m] is scaffoldNodes[d][m], {} a null     *)
(* pointer; done lists the scaffolds that are complete.                    *)
Directions == {H, V}

(* The scaffold of m is made if there is none.                             *)
Mark(s, d, m) == IF s.open[d][m] = {} THEN [s EXCEPT !.open[d][m] = {m}] ELSE s

(* A path from m to its child c, which may be bent at a corner.            *)
Path(s, m, c, p) ==
  LET d == Direction(dag.at[m], dag.at[p])
      Bent == IF Congested(dag.at[p], dag.at[c])
              THEN Mark(s, Direction(dag.at[p], dag.at[c]), c) ELSE s
      Joined == Mark(Mark(s, d, m), d, c)
  IN IF p # c THEN IF Congested(dag.at[m], dag.at[p]) THEN Mark(Bent, d, m) ELSE Bent
     ELSE IF Congested(dag.at[m], dag.at[p])
     THEN [Joined EXCEPT !.open[d][m] = @ \cup Joined.open[d][c], !.open[d][c] = {}]
     ELSE s

AdoptKeeping(s, m, c) ==    \* mutant: the scaffold stays with the child, too
  FoldLeft(LAMBDA r, d :
    IF r.open[d][c] = {} THEN r
    ELSE [r EXCEPT !.done[d] = Append(@, [direction |-> d, top |-> {m}, start |-> c,
                                          members |-> r.open[d][c]])],
    s, <<H, V>>)

(* A scaffold that ends in child c hangs on m.                             *)
Adopt(s, m, c) ==
  FoldLeft(LAMBDA r, d :
    IF r.open[d][c] = {} THEN r
    ELSE [r EXCEPT !.done[d] = Append(@, [direction |-> d, top |-> {m}, start |-> c,
                                          members |-> r.open[d][c]]),
                   !.open[d][c] = {}],
    s, <<H, V>>)

RECURSIVE buildScaffolds(_, _)
buildScaffolds(s, m) ==
  LET children == tree.children[m]
      Child(r, i) ==
        FoldLeft(LAMBDA q, c : Adopt(q, m, c),
                 FoldLeft(LAMBDA q, p : Path(q, m, children[i], p),
                          buildScaffolds(r, children[i]), dag.paths[m][i]),
                 children)
  IN FoldLeft(Child, s, [i \in DOMAIN children |-> i])

(* Both loops over the directions: what is left at the root hangs on none. *)
Scaffolds ==
  LET s == buildScaffolds([open |-> [d \in Directions |-> [m \in tree.nodes |-> {}]],
                           done |-> [d \in Directions |-> <<>>]], tree.root)
      All(d) == IF s.open[d][tree.root] = {} THEN s.done[d]
                ELSE Append(s.done[d], [direction |-> d, top |-> {}, start |-> tree.root,
                                        members |-> s.open[d][tree.root]])
  IN All(H) \o All(V)

BuildScaffolds ==
  /\ pc = "scaffolds"
  /\ scaffolds' = Scaffolds
  /\ current' = 1
  /\ pc' = "trunk"
  /\ UNCHANGED <<net, tree, dag, trunk, low, high, step, pos, detours>>

-----------------------------------------------------------------------------
(* getTrunkAndStems: positions along and across the direction.             *)
Along(d, m) == tree.at[m][d + 1]
Across(d, m) == tree.at[m][2 - d]
ChildrenOf(m) == ToSet(tree.children[m])

Trunk(sc) ==
  LET d == sc.direction
      outer == sc.top \cup (UNION {ChildrenOf(m) : m \in sc.members} \ sc.members)
      pinned == {m \in sc.members : tree.fixed[m] # NoLayers}
      along == {Along(d, m) : m \in sc.members \cup outer}
      stems == SetToSeq(outer \cup pinned)
  IN [position |-> Across(d, sc.start),
      range |-> Max(along) - Min(along),
      stems |-> [i \in DOMAIN stems |-> Across(d, stems[i])],
      size |-> net.size[2 - d],
      anchored |-> sc.top # {} \/ Len(tree.children[tree.root]) = 1]

NextTrunk ==
  /\ pc = "trunk" /\ current <= Len(scaffolds)
  /\ Open(Trunk(scaffolds[current]))
  /\ UNCHANGED dagVars

Widen ==
  /\ Lower \/ Raise \/ Coarsen \/ Align
  /\ UNCHANGED dagVars

-----------------------------------------------------------------------------
(* The nodes and alternatives that constructPaths adds for the edges       *)
(* <<p, c>>, with the points at gives the ends.                            *)
WithPaths(g, at, edges) ==
  LET bent == {e \in edges : Len(Alternatives([at |-> at], e[1], e[2])) = 2}
      corner == [q \in {Corner(e[1], e[2], k) : e \in bent, k \in {0, 1}} |->
                   CHOOSE e \in bent : \E k \in {0, 1} : q = Corner(e[1], e[2], k)]
      Point(q) == LET s == at[corner[q][1]]
                      e == at[corner[q][2]]
                  IN IF Last(q) = 0 THEN <<e[1], s[2]>> ELSE <<s[1], e[2]>>
  IN [nodes |-> g.nodes \cup DOMAIN at \cup DOMAIN corner,
      at |-> g.at @@ at @@ [q \in DOMAIN corner |-> Point(q)],
      fixed |-> g.fixed @@ [m \in DOMAIN at \cup DOMAIN corner |-> NoLayers],
      paths |-> g.paths @@ [q \in DOMAIN corner |-> <<<<corner[q][2]>>>>]]

BehindForgotten(sc, m) == {}    \* mutant: the pins of a trunk are shifted with it

(* The pins that stay behind: the shifted root of a trunk without a top    *)
(* leads back to none, since it starts from the root itself.               *)
Behind(sc, m) == IF tree.fixed[m] # NoLayers /\ ~(sc.top = {} /\ m = sc.start) THEN {m} ELSE {}

(* buildDetour: the copy of a scaffold by shift, joined to the DAG as one  *)
(* more alternative for its start node.                                    *)
WithDetour(g, sc, shift) ==
  LET d == sc.direction
      Copy(m) == <<m[1], -1 - d, shift>>
      Pin(m) == <<m[1], -3 - d, shift>>
      pins == UNION {Behind(sc, m) : m \in sc.members}
      at == [q \in {Copy(m) : m \in sc.members} \cup {Pin(m) : m \in pins}
                     \cup UNION {ChildrenOf(m) : m \in sc.members} \cup sc.top \cup {sc.start} |->
               IF Len(q) = 1 \/ q \in {Pin(m) : m \in pins} THEN g.at[<<q[1]>>]
               ELSE [g.at[<<q[1]>>] EXCEPT ![2 - d] = @ + shift]]
      Next(m) == [i \in DOMAIN tree.children[m] |->
                    LET c == tree.children[m][i] IN IF c \in sc.members THEN Copy(c) ELSE c]
      Ends(m) == (IF m \in pins THEN <<Pin(m)>> ELSE <<>>) \o Next(m)
      from == IF sc.top = {} THEN tree.root ELSE CHOOSE m \in sc.top : TRUE
      child == IF sc.top = {} THEN 1
               ELSE CHOOSE i \in DOMAIN tree.children[from] : tree.children[from][i] = sc.start
      grown == WithPaths(g, at, {<<from, Copy(sc.start)>>} \cup
                                UNION {{<<Copy(m), e>> : e \in ToSet(Ends(m))} : m \in sc.members})
      Alt(p, c) == Alternatives([at |-> at], p, c)
  IN [grown EXCEPT
        !.fixed = [q \in {Pin(m) : m \in pins} |-> g.fixed[<<q[1]>>]] @@ @,
        !.paths = [q \in {from} |-> [g.paths[from] EXCEPT ![child] = @ \o Alt(from, Copy(sc.start))]]
                    @@ [q \in {Copy(m) : m \in sc.members} |->
                          LET ends == Ends(<<q[1]>>) IN [i \in DOMAIN ends |-> Alt(q, ends[i])]]
                    @@ [q \in {Pin(m) : m \in pins} |-> <<>>] @@ @]

BuildDetour ==
  /\ Shift
  /\ dag' = IF Shifts THEN WithDetour(dag, scaffolds[current], pos - trunk.position) ELSE dag
  /\ UNCHANGED <<net, tree, scaffolds, current>>

TrunkDone ==
  /\ Close
  /\ current' = current + 1
  /\ UNCHANGED <<net, tree, dag, scaffolds>>

(* constructDetours has returned.                                          *)
Finished == pc = "trunk" /\ current > Len(scaffolds) /\ UNCHANGED vars

Next ==
  \/ ConstructTree \/ BuildScaffolds \/ NextTrunk
  \/ Widen \/ BuildDetour \/ TrunkDone
  \/ Finished

Spec == Init /\ [][Next]_vars
-----------------------------------------------------------------------------
Built == pc # "tree"

(* Whatever tree FLUTE returns and wherever its Steiner points coincide    *)
(* with pins, the rooted tree has one node for every pin's point, which    *)
(* keeps the layer the pin was selected on; it has no edge of length 0;    *)
(* and its root has one child, so that constructDetours never gives up on  *)
(* a trunk ("the root has not exactly one child").                         *)
SteinerTreeKeepsPins ==
  Built =>
    /\ \A i \in DOMAIN net.pins :
         LET p == SelectedPoint(net, net.pins[i])
             on == {m \in tree.nodes : tree.at[m] = Cell(p)}
         IN Cardinality(on) = 1 /\ \A m \in on : p[3] \in tree.fixed[m].low .. tree.fixed[m].high
    /\ \A m \in tree.nodes : \A c \in ChildrenOf(m) : tree.at[c] # tree.at[m]
    /\ Cardinality(tree.nodes) > 1 => Len(tree.children[tree.root]) = 1

(* The pins that every choice of alternatives below m reaches.             *)
RECURSIVE Reached(_)
Reached(m) ==
  LET Common(alternatives) ==
        {p \in Reached(alternatives[1]) : \A i \in DOMAIN alternatives : p \in Reached(alternatives[i])}
  IN (IF dag.fixed[m] = NoLayers THEN {} ELSE {<<dag.at[m], dag.fixed[m]>>})
       \cup UNION {Common(dag.paths[m][i]) : i \in DOMAIN dag.paths[m]}

(* Every routing of the DAG reaches every pin with its layers: a shifted   *)
(* trunk is led back to its pins and to all that hung on it, whatever      *)
(* detours of other trunks it is combined with.                            *)
PinsReached ==
  Built =>
    Reached(tree.root) = {<<tree.at[m], tree.fixed[m]>>
                            : m \in {k \in tree.nodes : tree.fixed[k] # NoLayers}}

(* No congested path goes unnoticed, and none is shifted twice: both nodes *)
(* of a straight one are in one scaffold of its direction, the node at a   *)
(* congested part of a bent one is in one, and no node is in two.          *)
TrunksFound ==
  Built /\ pc # "scaffolds" =>
    LET In(d, m) == {k \in DOMAIN scaffolds :
                       scaffolds[k].direction = d /\ m \in scaffolds[k].members}
        start == RoutingDag(tree)
    IN \A m \in tree.nodes :
         /\ \A d \in Directions : Cardinality(In(d, m)) <= 1
         /\ \A i \in DOMAIN tree.children[m] : \A p \in ToSet(start.paths[m][i]) :
              LET c == tree.children[m][i]
                  d == Direction(start.at[m], start.at[p])
              IN /\ Congested(start.at[m], start.at[p]) =>
                      In(d, m) # {} /\ (p = c => In(d, c) = In(d, m))
                 /\ p # c /\ Congested(start.at[p], start.at[c]) =>
                      In(Direction(start.at[p], start.at[c]), c) # {}
=============================================================================
