----------------------------- MODULE PatternDP -----------------------------
(***************************************************************************)
(* PatternRoute (gr/PatternRoute.cpp) from a Steiner tree on: the routing  *)
(* DAG with both L shapes of every bend, the least cost of each node on    *)
(* each layer, and the routing tree read off from them.                    *)
(*                                                                         *)
(* A net is a record of its Steiner tree and the costs the grid graph has  *)
(* for it: unit[l] for a wire of length 1, doubled on the lines in busy,   *)
(* and via[l] from layer l to l + 1.                                       *)
(***************************************************************************)
EXTENDS PatternDag, FiniteSets

CONSTANTS Nets,
          Infinity    \* std::numeric_limits<CostT>::max()

VARIABLES net,      \* the net with its Steiner tree
          dag,      \* routingDag
          costs,    \* costs and bestPaths of the nodes that have them
          stack,    \* the calls of calculateRoutingCosts, innermost last
          tree      \* the visits of getRoutingTree, once it is called

vars == <<net, dag, costs, stack, tree>>

-----------------------------------------------------------------------------
(* GridGraph::getWireCost and getViaCost, summed up as calculateRouting-   *)
(* Costs does: the cost of a straight wire and of the vias low .. high.    *)
WireCost(n, l, a, b) ==
  LET line == IF Direction(a, b) = V THEN a[1] ELSE a[2]
      Abs(i) == IF i < 0 THEN -i ELSE i
  IN (Abs(a[1] - b[1]) + Abs(a[2] - b[2])) * n.unit[l]
       * (IF <<Direction(a, b), line>> \in n.busy THEN 2 ELSE 1)

ViaCosts(n, low, high) == MapThenSumSet(LAMBDA l : n.via[l], low .. high - 1)

RunsOn(l, a, b) == l >= MinRoutingLayer /\ LayerDirection(l) = Direction(a, b)

(* The first path of the least cost, if one of them is below max().        *)
NoPath == [cost |-> Infinity, path |-> 0, layer |-> 0]

Cheaper(new, old) == IF new.cost < old.cost THEN new ELSE old

(* childCosts[i][l]: the cheapest alternative for child i of m that leaves *)
(* m on layer l.                                                           *)
ChildCost(m, i, l) ==
  LET Try(best, p) ==
        IF RunsOn(l, dag.at[m], dag.at[p])
        THEN Cheaper([cost |-> costs[p][l].cost + WireCost(net, l, dag.at[m], dag.at[p]),
                      path |-> p, layer |-> l], best)
        ELSE best
  IN FoldLeft(Try, NoPath, dag.paths[m][i])

(* The entry of costs and bestPaths a stack of vias at m, low .. high,     *)
(* gives: each child leaves on its cheapest layer, the lowest one on ties. *)
StackEntry(m, low, high) ==
  LET layers == [j \in 1 .. high - low + 1 |-> low + j - 1]
      best == [i \in DOMAIN dag.paths[m] |->
                 FoldLeft(LAMBDA b, l : Cheaper(ChildCost(m, i, l), b), NoPath, layers)]
  IN [cost |-> ViaCosts(net, low, high)
                 + FoldLeft(LAMBDA sum, b : sum + b.cost, 0, best),
      best |-> best]

NoEntry == [cost |-> Infinity, best |-> <<>>]

(* One round of the loop over lowLayerIndex: the stacks that start at low, *)
(* and each layer takes over the entry of the layer above if that is less. *)
Stacks(m, low, entries) ==
  LET high == Max({dag.fixed[m].high, MinRoutingLayer, low})
      Round[l \in Layer] ==
        LET own == IF l >= high THEN Cheaper(StackEntry(m, low, l), entries[l]) ELSE entries[l]
        IN IF l < low THEN entries[l]
           ELSE IF l = NumLayers - 1 THEN own
           ELSE Cheaper(Round[l + 1], own)
  IN Round

NodeCostsFromBottom(m) ==    \* mutant: every stack of vias starts at layer 0
  Stacks(m, 0, [l \in Layer |-> NoEntry])

(* The rest of calculateRoutingCosts, for a node whose paths have costs.   *)
NodeCosts(m) ==
  LET lows == [j \in 1 .. Min({dag.fixed[m].low, NumLayers - 1}) + 1 |-> j - 1]
  IN FoldLeft(LAMBDA entries, low : Stacks(m, low, entries),
              [l \in Layer |-> NoEntry], lows)

-----------------------------------------------------------------------------
Init ==
  /\ net \in Nets
  /\ dag = RoutingDag(net)
  /\ costs = [m \in {} |-> <<>>]
  /\ stack = <<net.root>>
  /\ tree = <<>>

(* The paths of m in the order of the loops, and those not visited yet.    *)
Pending(m) ==
  SelectSeq(FlattenSeq(dag.paths[m]), LAMBDA p : p \notin DOMAIN costs)

(* calculateRoutingCosts(path): return at once if the costs are known.     *)
Descend ==
  /\ stack # <<>>
  /\ Pending(Last(stack)) # <<>>
  /\ stack' = Append(stack, Head(Pending(Last(stack))))
  /\ UNCHANGED <<net, dag, costs, tree>>

Calculate ==
  /\ stack # <<>>
  /\ Pending(Last(stack)) = <<>>
  /\ costs' = costs @@ (Last(stack) :> NodeCosts(Last(stack)))
  /\ stack' = Front(stack)
  /\ UNCHANGED <<net, dag, tree>>

RECURSIVE VisitsBelowPins(_, _)    \* mutant: no via up to the pins
VisitsBelowPins(m, l) ==
  LET best == costs[m][l].best
      layers == {l} \cup {best[i].layer : i \in DOMAIN best}
  IN <<[node |-> m,
        low |-> Min(layers \cup {dag.fixed[m].low}),
        high |-> Max(layers),
        wires |-> {<<best[i].path, best[i].layer>> : i \in DOMAIN best}]>>
       \o FlattenSeq([i \in DOMAIN best |-> VisitsBelowPins(best[i].path, best[i].layer)])

(* getRoutingTree: the visits of the nodes below m, which is entered on    *)
(* layer l; a visit puts vias from low to high at the node.                *)
RECURSIVE Visits(_, _)
Visits(m, l) ==
  LET best == costs[m][l].best
      layers == {l} \cup {best[i].layer : i \in DOMAIN best}
  IN <<[node |-> m,
        low |-> Min(layers \cup {dag.fixed[m].low}),
        high |-> Max(layers \cup {dag.fixed[m].high}),
        wires |-> {<<best[i].path, best[i].layer>> : i \in DOMAIN best}]>>
       \o FlattenSeq([i \in DOMAIN best |-> Visits(best[i].path, best[i].layer)])

RootLayerUntilEnd ==    \* mutant: the last layer with a cost, not the cheapest
  Max({l \in Layer : costs[net.root][l].cost < Infinity})

RootLayer ==
  Min({l \in Layer : \A k \in Layer : costs[net.root][l].cost <= costs[net.root][k].cost})

GetRoutingTree ==
  /\ stack = <<>> /\ tree = <<>>
  /\ tree' = Visits(net.root, RootLayer)
  /\ UNCHANGED <<net, dag, costs, stack>>

(* The net has its routing tree: run() has returned.                       *)
Finished == tree # <<>> /\ UNCHANGED vars

Next == Descend \/ Calculate \/ GetRoutingTree \/ Finished

Spec == Init /\ [][Next]_vars
-----------------------------------------------------------------------------
(* The reference: every way to route the net over the DAG, as the set of   *)
(* its wires <<from, to, layer>>.  The vias of a node reach from the       *)
(* lowest to the highest layer its wires and pins need; a net on a single  *)
(* point has no wire, and pays for vias up to MinRoutingLayer.             *)
Edges == UNION {{<<p, net.children[p][i]>> : i \in DOMAIN net.children[p]} : p \in net.nodes}

WireChoices(a, b) == {<<a, b, l>> : l \in {k \in Layer : RunsOn(k, dag.at[a], dag.at[b])}}

EdgeChoices(e) ==
  UNION {IF q = e[2] THEN {{w} : w \in WireChoices(e[1], q)}
         ELSE {{v, w} : v \in WireChoices(e[1], q), w \in WireChoices(q, e[2])}
         : q \in ToSet(Alternatives(net, e[1], e[2]))}

Routings ==
  FoldSet(LAMBDA e, R : {r \cup c : r \in R, c \in EdgeChoices(e)}, {{}}, Edges)

NodeCost(r, m) ==
  LET layers == {w[3] : w \in {v \in r : m \in {v[1], v[2]}}}
  IN ViaCosts(net, Min(layers \cup {dag.fixed[m].low, NumLayers - 1}),
                   Max(layers \cup {dag.fixed[m].high, MinRoutingLayer}))

RoutingCost(r) ==
  MapThenSumSet(LAMBDA w : WireCost(net, w[3], dag.at[w[1]], dag.at[w[2]]), r)
    + MapThenSumSet(LAMBDA m : NodeCost(r, m), {net.root} \cup UNION {{w[1], w[2]} : w \in r})

LeastCost == Min({RoutingCost(r) : r \in Routings})

(* The cost of the routing tree.                                           *)
TreeCost ==
  LET VisitCost(v) ==
        ViaCosts(net, v.low, v.high)
          + MapThenSumSet(LAMBDA w : WireCost(net, w[2], dag.at[v.node], dag.at[w[1]]), v.wires)
  IN FoldLeft(LAMBDA sum, v : sum + VisitCost(v), 0, tree)

-----------------------------------------------------------------------------
(* Costs, visits and calls are about nodes of the DAG.                     *)
(* The dynamic programming finds the optimum: when calculateRoutingCosts   *)
(* returns to run, the cheapest entry of the root is the cost of the       *)
(* cheapest routing there is, although each node is solved on its own, its *)
(* children are charged to one stack of vias, and the layers between share *)
(* entries.                                                                *)
CostsOptimal ==
  stack = <<>> => LeastCost = Min({costs[net.root][l].cost : l \in Layer})

(* getRoutingTree follows bestPaths to a tree that costs what the root's   *)
(* entry says: no entry was copied from a layer whose stack it misses.     *)
(* (A net on a single point may leave out the vias to MinRoutingLayer.)    *)
TreeMeetsCosts ==
  tree # <<>> =>
    \/ Cardinality(net.nodes) = 1
    \/ TreeCost = Min({costs[net.root][l].cost : l \in Layer})

(* The tree connects the net: it visits each Steiner node once and covers  *)
(* its pins there, and a wire, which runs on a layer of its direction, is  *)
(* met by the vias at both ends.                                           *)
TreeConnects ==
  tree # <<>> =>
    /\ \A m \in net.nodes : Cardinality({i \in DOMAIN tree : tree[i].node = m}) = 1
    /\ \A i \in DOMAIN tree :
         LET v == tree[i] IN
         /\ dag.fixed[v.node] # NoLayers =>
              v.low <= dag.fixed[v.node].low /\ dag.fixed[v.node].high <= v.high
         /\ \A w \in v.wires :
              /\ w[2] \in v.low .. v.high
              /\ RunsOn(w[2], dag.at[v.node], dag.at[w[1]])
              /\ \E j \in i + 1 .. Len(tree) :
                   tree[j].node = w[1] /\ w[2] \in tree[j].low .. tree[j].high
=============================================================================
