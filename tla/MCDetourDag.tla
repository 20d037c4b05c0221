---------------------------- MODULE MCDetourDag ----------------------------
(* Nets of one to four points on a 7 x 7 grid, with pins that share a cell *)
(* or have two access points, and every tree of least length FLUTE could   *)
(* return for them: the median of three points, or two Steiner points on   *)
(* the grid of the pins.  Up to three of the twelve stretches between the  *)
(* lines 0, 3 and 6 are congested, or all of one direction, or all.        *)
EXTENDS DetourDag

Length(branch) ==
  FoldLeft(LAMBDA sum, b : sum + Abs(b.at[1] - branch[b.n].at[1])
                               + Abs(b.at[2] - branch[b.n].at[2]), 0, branch)

Shortest(trees) ==
  LET least == Min({Length(t) : t \in trees}) IN {t \in trees : Length(t) = least}

MCFlute(cells) ==
  LET degree == Cardinality(cells)
      hanan == {c[1] : c \in cells} \X {c[2] : c \in cells}
      orders == IF degree = 4 THEN {SetToSeq(cells)} ELSE SetToSeqs(cells)
      Branch(order, ends, points) ==
        [i \in DOMAIN order |-> [at |-> order[i], n |-> ends[i]]] \o points
  IN Shortest(
       UNION {CASE degree = 2 -> {Branch(order, <<2, 2>>, <<>>)}
                [] degree = 3 -> {Branch(order, <<4, 4, 4>>, <<[at |-> s, n |-> 4]>>) : s \in hanan}
                [] degree = 4 ->
                     {Branch(order, ends, <<[at |-> s[1], n |-> 6], [at |-> s[2], n |-> 6]>>)
                        : ends \in {<<5, 5, 6, 6>>, <<5, 6, 5, 6>>, <<5, 6, 6, 5>>},
                          s \in hanan \X hanan}
              : order \in orders})

Pin(x, y) == <<<<x, y, 0>>>>

MCPins ==
  {<<Pin(3, 3), <<<<3, 3, 2>>>>>>,
   <<Pin(0, 3), <<<<6, 3, 1>>, <<6, 6, 1>>, <<6, 3, 2>>>>, Pin(6, 3)>>,
   <<<<<<0, 0, 3>>, <<0, 3, 1>>>>, <<<<6, 6, 1>>>>>>,
   <<Pin(0, 3), Pin(3, 3), Pin(6, 3)>>,
   <<Pin(0, 0), Pin(3, 6), Pin(6, 3)>>,
   <<Pin(3, 0), Pin(0, 3), Pin(6, 3), Pin(3, 6)>>,
   <<Pin(0, 0), Pin(0, 6), Pin(3, 3), Pin(6, 3)>>}

Stretches ==
  {<<H, x, y>> : x \in {1, 4}, y \in {0, 3, 6}} \cup {<<V, x, y>> : x \in {0, 3, 6}, y \in {1, 4}}

MCCongested ==
  UNION {kSubset(k, Stretches) : k \in 0 .. 3}
    \cup {Stretches} \cup {{e \in Stretches : e[1] = d} : d \in {H, V}}

MCNets ==
  {[pins |-> p, blocked |-> b, congested |-> c, size |-> <<7, 7>>]
     : p \in MCPins, b \in {{}, {<<1, 6, 3>>, <<1, 5, 3>>}}, c \in MCCongested}
=============================================================================
