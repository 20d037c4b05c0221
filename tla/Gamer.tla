------------------------------- MODULE Gamer -------------------------------
(***************************************************************************)
(* The maze routers of the GPU: BasicGamer2D on the coarse grid            *)
(* (gamer/BasicGamer2D.cu) and GuidedGamer on the guides in the fine one   *)
(* (gamer/GuidedGamer.cu).  Both sweep the lines of the one kind and of    *)
(* the other in turn and trace a path back from the nearest pin; they      *)
(* differ in their lines only.  Operators only.                            *)
(*                                                                         *)
(* The lines of a kind are a function f: f[c] is the line cell c is on, a  *)
(* record of its cells, their positions (at, the sums of the costs), the   *)
(* index of c and the index up to which the left is looked at first (half).*)
(* One sweep of wires is what SweepScan shows of the kernels.              *)
(***************************************************************************)
EXTENDS Integers, FiniteSetsExt, SequencesExt

CONSTANT Infinity    \* INFINITY_DISTANCE

Distance(a, b) == IF a < b THEN b - a ELSE a - b

(* A cell by itself, with no costs at all.                                 *)
Alone(c) == [cells |-> <<c>>, at |-> <<0>>, index |-> 1, half |-> 1]

(* The cell at the index of line l from the cell at j of it, unless that   *)
(* has not been reached.                                                   *)
Reach(l, dist, j) == dist[l.cells[j]] + Distance(l.at[j], l.at[l.index])

(* Of the cells a shortest way to a cell starts in, prev is the nearest on *)
(* the left of it, or if there is none, the nearest on the right.  A wire  *)
(* is all half; sweepVia goes up and down a segment in one loop, and in    *)
(* the upper half what comes down is there first.                          *)
Swept(l, dist) ==
  LET from == {j \in DOMAIN l.cells : dist[l.cells[j]] < Infinity}
      best == {j \in from : \A k \in from : Reach(l, dist, j) <= Reach(l, dist, k)}
      left == {j \in best : j <= l.index}
      right == {j \in best : l.index <= j}
      j == IF right = {} \/ (left # {} /\ l.index <= l.half) THEN Max(left) ELSE Min(right)
  IN IF from = {} THEN [dist |-> Infinity, prev |-> l.cells[l.index]]
     ELSE [dist |-> Reach(l, dist, j), prev |-> l.cells[j]]

(* cleanDist.                                                              *)
CleanDist(cells, mark) ==
  [c \in cells |-> [dist |-> IF c \in mark THEN 0 ELSE Infinity, prev |-> c]]

(* The element of a set of one: Only({F(x) : x \in {e}}) is F(e), with e   *)
(* evaluated once.                                                         *)
Only(S) == CHOOSE v \in S : TRUE

Sweep(f, state) ==
  LET dist == [c \in DOMAIN f |-> state[c].dist]
  IN [c \in DOMAIN f |-> Swept(f[c], dist)]

(* Turn t sweeps the even lines if t is even, else the odd ones; entry t   *)
(* of the result is the state after t turns.                               *)
Turns(even, odd, mark, numTurns) ==
  LET s[t \in 0 .. numTurns] ==
        IF t = 0 THEN CleanDist(DOMAIN even, mark)
        ELSE Only({Sweep(IF t % 2 = 1 THEN even ELSE odd, state) : state \in {s[t - 1]}})
  IN [t \in 0 .. numTurns |-> s[t]]

NearestFarAway(dist, pins, routed) ==    \* mutant: the farthest pin is next
  LET open == {i \in DOMAIN pins : i \notin routed /\ dist[pins[i]] < Infinity}
  IN {i \in open : \A j \in open : dist[pins[j]] < dist[pins[i]] \/ (dist[pins[j]] = dist[pins[i]] /\ i <= j)}

(* The first pin not connected yet that is nearest, if one was reached.    *)
Nearest(dist, pins, routed) ==
  LET open == {i \in DOMAIN pins : i \notin routed /\ dist[pins[i]] < Infinity}
  IN {i \in open : \A j \in open : dist[pins[i]] < dist[pins[j]] \/ (dist[pins[i]] = dist[pins[j]] /\ i <= j)}

(* The cells of line l from the cell at its index to cell c.               *)
Between(l, c) ==
  LET j == CHOOSE k \in DOMAIN l.cells : l.cells[k] = c
  IN {l.cells[k] : k \in Min({j, l.index}) .. Max({j, l.index})}

(* The way back from cell c through the turns s: where it is after turn t. *)
Way(s, numTurns, c) ==
  LET back[t \in 0 .. numTurns] == IF t = numTurns THEN c ELSE s[t + 1][back[t + 1]].prev
  IN [t \in 0 .. numTurns |-> back[t]]

(* The turns in which it moves.                                            *)
Moved(way, numTurns) == {t \in 0 .. numTurns - 1 : way[t] # way[t + 1]}

(* tracePath: the way of a pin, whose cells are marked.  net is a record   *)
(* of the pins, the connected ones (routed, by index), the marked cells    *)
(* and the routes, by the pin they were made for and the turn.             *)
Traced(net, pin, even, odd, way, numTurns) ==
  LET moved == Moved(way, numTurns)
      Line(t) == IF t % 2 = 0 THEN even[way[t + 1]] ELSE odd[way[t + 1]]
      new == {pin} \X moved
  IN [pins |-> net.pins,
      routed |-> net.routed \cup {pin},
      mark |-> net.mark \cup UNION {Between(Line(t), way[t]) : t \in moved},
      routes |-> [k \in DOMAIN net.routes \cup new |->
                    IF k \in new THEN <<way[k[2] + 1], way[k[2]]>> ELSE net.routes[k]]]

(* One iteration of the loop of route, with the turns s: the nearest pin,  *)
(* or none if no pin was reached.                                          *)
Connected(net, even, odd, s, numTurns) ==
  LET found == Nearest([c \in DOMAIN even |-> s[numTurns][c].dist], net.pins, net.routed)
      pin == CHOOSE i \in found : TRUE
  IN IF found = {} THEN net
     ELSE Traced(net, pin, even, odd, Way(s, numTurns, net.pins[pin]), numTurns)

Connect(net, even, odd, numTurns) ==
  Only({Connected(net, even, odd, s, numTurns) : s \in {Turns(even, odd, net.mark, numTurns)}})

(* setRootPin, and a net's state before the first round.                   *)
Unrouted(pins) == [pins |-> pins, routed |-> {1}, mark |-> {pins[1]}, routes |-> <<>>]

(* getIsRouted.                                                            *)
IsRouted(net) == net.routed = DOMAIN net.pins

(* All iterations.                                                         *)
Route(pins, even, odd, numTurns) ==
  LET after[i \in DOMAIN pins] ==
        IF i = 1 THEN Unrouted(pins)
        ELSE Only({Connect(net, even, odd, numTurns) : net \in {after[i - 1]}})
  IN after[Len(pins)]
=============================================================================
