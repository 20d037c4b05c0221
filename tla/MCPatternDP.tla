---------------------------- MODULE MCPatternDP ----------------------------
(* Steiner trees on a 3 x 3 grid: a single point, one straight and one     *)
(* bent edge, a chain with a node without pins, and a fork of two bent     *)
(* edges; with every cost of vias and wires in {1, 3} x {1, 2}.            *)
EXTENDS PatternDP

Pins(low, high) == [low |-> low, high |-> high]

Trees ==
  {[root |-> <<1>>, at |-> <<<<0, 0>>>>, fixed |-> <<f>>, children |-> <<<<>>>>]
     : f \in {Pins(0, 0), Pins(1, 2)}}
  \cup
  {[root |-> <<1>>, at |-> <<<<0, 0>>, p>>, fixed |-> <<Pins(0, 0), f>>,
    children |-> <<<<<<2>>>>, <<>>>>]
     : p \in {<<0, 2>>, <<2, 1>>}, f \in {Pins(0, 0), Pins(2, 3)}}
  \cup
  {[root |-> <<1>>, at |-> <<<<0, 0>>, <<1, 0>>, <<2, 2>>>>,
    fixed |-> <<Pins(0, 1), NoLayers, f>>, children |-> <<<<<<2>>>>, <<<<3>>>>, <<>>>>]
     : f \in {Pins(0, 0), Pins(3, 3)}}
  \cup
  {[root |-> <<1>>, at |-> <<<<1, 0>>, <<0, 2>>, <<2, 1>>>>,
    fixed |-> <<f, Pins(1, 1), Pins(0, 0)>>, children |-> <<<<<<2>>, <<3>>>>, <<>>, <<>>>>]
     : f \in {Pins(0, 0), Pins(3, 3)}}

MCNets ==
  {LET nodes == {<<i>> : i \in DOMAIN t.at}
   IN [root |-> t.root, nodes |-> nodes,
       at |-> [m \in nodes |-> t.at[m[1]]],
       fixed |-> [m \in nodes |-> t.fixed[m[1]]],
       children |-> [m \in nodes |-> t.children[m[1]]],
       unit |-> u, via |-> v, busy |-> b]
     : t \in Trees, u \in [1 .. NumLayers - 1 -> {1, 2}],
       v \in [0 .. NumLayers - 2 -> {1, 3}], b \in {{}, {<<H, 0>>}, {<<V, 2>>}}}
=============================================================================
