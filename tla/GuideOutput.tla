---------------------------- MODULE GuideOutput ----------------------------
(***************************************************************************)
(* GlobalRouter::getGuide and write (gr/GlobalRouter.cpp): operators only. *)
(* A routing tree is its root and the sequence of its (node, child) pairs, *)
(* a guide a record of the cells and layers it spans.                      *)
(***************************************************************************)
EXTENDS GridGraph, Sequences

Guide(u, v) ==
  [low |-> <<Low(u.c[1], v.c[1]), Low(u.c[2], v.c[2])>>,
   high |-> <<High(u.c[1], v.c[1]), High(u.c[2], v.c[2])>>,
   layers |-> <<Low(u.l, v.l), High(u.l, v.l)>>]

(* A tree of one node gets a guide up to the next layer, even if that is   *)
(* one past the last.                                                      *)
getGuide(root, tree) ==
  IF tree = <<>>
  THEN {[low |-> root.c, high |-> root.c,
         layers |-> <<Low(root.l, nLayers - 1), Low(root.l + 1, nLayers)>>]}
  ELSE {Guide(tree[k].u, tree[k].v) : k \in {i \in DOMAIN tree : tree[i].u # tree[i].v}}

WrittenInside(g) ==    \* mutant: only the layers a via passes get a line
  {[g EXCEPT !.layers = <<l, l + 1>>] : l \in g.layers[1] + 1 .. g.layers[2] - 1}

(* The lines of a guide: one for every two neighbouring layers.            *)
Written(g) ==
  IF g.layers[1] = g.layers[2] THEN {g}
  ELSE {[g EXCEPT !.layers = <<l, l + 1>>] : l \in g.layers[1] .. g.layers[2] - 1}

write(root, tree) == UNION {Written(g) : g \in getGuide(root, tree)}
=============================================================================
