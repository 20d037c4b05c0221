---------------------------- MODULE NetPartition ----------------------------
(***************************************************************************)
(* Par::parNets: the nets of the chip are split into nets of four areas,   *)
(* which are routed in parallel, and cross nets, routed afterwards.        *)
(*   The cut (cross_cut) gives every pin location an area.  A net whose    *)
(* pins lie in several areas becomes one local net for each area that has  *)
(* two or more of them, and one cross net with a single pin of each area.  *)
(*   Left open: the coordinates of a location in the cut, as the locations *)
(* reach it in the order of a hash table; where the cut goes, as that      *)
(* depends on weights whose sum starts uninitialised; and which pin of an  *)
(* area comes first in its set.                                            *)
(***************************************************************************)
EXTENDS Integers, Sequences, FiniteSets, Functions

CONSTANTS Pin,        \* first access points: [c : location, layer]
          NetLists,   \* the inputs: sequences of nets, sequences of pins
          Coord       \* normalised coordinates

Areas == 0 .. 3
Cross == -1           \* the key of the cross nets
Keys == Areas \cup {Cross}

ASSUME CoordAssumption == Coord \subseteq Int

ASSUME PartitionAssumption ==
  \A ns \in NetLists :
    /\ ns \in Seq(Seq(Pin)) /\ ns # << >>
    /\ \A i \in DOMAIN ns : ns[i] # << >>

VARIABLES
  nets,        \* net_access_points
  clusterOf,   \* the area of each pin location
  pc,          \* cut, split, done
  netIndex,    \* the net to be split next
  par_nets,    \* for each area, and for Cross, its nets
  pin1net      \* the nets left out, with their only pin

vars == <<nets, clusterOf, pc, netIndex, par_nets, pin1net>>

Locations == UNION {{nets[i][j].c : j \in DOMAIN nets[i]} : i \in DOMAIN nets}

(* netPinSet, and its pins by area (parIndexPin). *)
Pins(i) == {nets[i][j] : j \in DOMAIN nets[i]}
PinsIn(i, a) == {p \in Pins(i) : clusterOf[p.c] = a}
AreasOf(i) == {clusterOf[p.c] : p \in Pins(i)}
Single(S) == \E x \in S : S = {x}

Init ==
  /\ nets \in NetLists
  /\ clusterOf = << >>
  /\ pc = "cut"
  /\ netIndex = 1
  /\ par_nets = [a \in Keys |-> {}]
  /\ pin1net = {}

(* Three of the four tests read position.first twice; a location that     *)
(* passes none of them keeps area 0.                                       *)
Quadrant(p, cut) ==
  IF p[1] <= cut[1] /\ p[2] >= cut[2] THEN 0
  ELSE IF p[1] >= cut[1] /\ p[1] >= cut[2] THEN 1
  ELSE IF p[1] <= cut[1] /\ p[1] <= cut[2] THEN 2
  ELSE IF p[1] >= cut[1] /\ p[1] <= cut[2] THEN 3
  ELSE 0

CrossCut ==
  /\ pc = "cut"
  /\ \E position \in Injection(Locations, Coord \X Coord), cut \in Coord \X Coord :
       clusterOf' = [l \in Locations |-> Quadrant(position[l], cut)]
  /\ pc' = "split"
  /\ UNCHANGED <<nets, netIndex, par_nets, pin1net>>

Splitting == pc = "split" /\ netIndex \in DOMAIN nets

SinglePinNetSplitToo ==    \* mutant: the loop does not go on to the next net
  /\ Splitting /\ Single(Pins(netIndex))
  /\ pin1net' = pin1net \cup {[net |-> netIndex, pin |-> p] : p \in Pins(netIndex)}
  /\ par_nets' = [par_nets EXCEPT ![CHOOSE a \in AreasOf(netIndex) : TRUE] =
                    @ \cup {[net |-> netIndex, pins |-> Pins(netIndex)]}]
  /\ netIndex' = netIndex + 1
  /\ UNCHANGED <<nets, clusterOf, pc>>

SinglePinNet ==
  /\ Splitting /\ Single(Pins(netIndex))
  /\ pin1net' = pin1net \cup {[net |-> netIndex, pin |-> p] : p \in Pins(netIndex)}
  /\ netIndex' = netIndex + 1
  /\ UNCHANGED <<nets, clusterOf, pc, par_nets>>

(* The local net of each area with two or more pins. *)
WithLocalNetsOfAllPins(i) ==    \* mutant: a local net takes all pins of the net
  [a \in Keys |->
     par_nets[a] \cup {[net |-> i, pins |-> Pins(i)] :
                         b \in {b \in AreasOf(i) : b = a /\ ~Single(PinsIn(i, b))}}]

WithLocalNets(i) ==
  [a \in Keys |->
     par_nets[a] \cup {[net |-> i, pins |-> PinsIn(i, b)] :
                         b \in {b \in AreasOf(i) : b = a /\ ~Single(PinsIn(i, b))}}]

OneAreaNet ==
  /\ Splitting /\ Single(AreasOf(netIndex)) /\ ~Single(Pins(netIndex))
  /\ par_nets' = WithLocalNets(netIndex)
  /\ netIndex' = netIndex + 1
  /\ UNCHANGED <<nets, clusterOf, pc, pin1net>>

CrossNetOfLocalNets ==    \* mutant: areas with a single pin are left out
  /\ Splitting /\ ~Single(AreasOf(netIndex))
  /\ \E first \in [AreasOf(netIndex) -> Pins(netIndex)] :
       /\ \A a \in AreasOf(netIndex) : first[a] \in PinsIn(netIndex, a)
       /\ LET joined == {a \in AreasOf(netIndex) : ~Single(PinsIn(netIndex, a))}
          IN  par_nets' = [WithLocalNets(netIndex) EXCEPT ![Cross] =
                             @ \cup {[net |-> netIndex, pins |-> {first[a] : a \in joined}]}]
  /\ netIndex' = netIndex + 1
  /\ UNCHANGED <<nets, clusterOf, pc, pin1net>>

CrossNetOfAllPins ==    \* mutant: the cross net takes all pins of the areas
  /\ Splitting /\ ~Single(AreasOf(netIndex))
  /\ par_nets' = [WithLocalNets(netIndex) EXCEPT ![Cross] =
                    @ \cup {[net |-> netIndex, pins |-> Pins(netIndex)]}]
  /\ netIndex' = netIndex + 1
  /\ UNCHANGED <<nets, clusterOf, pc, pin1net>>

CrossNet ==
  /\ Splitting /\ ~Single(AreasOf(netIndex))
  /\ \E first \in [AreasOf(netIndex) -> Pins(netIndex)] :
       /\ \A a \in AreasOf(netIndex) : first[a] \in PinsIn(netIndex, a)
       /\ par_nets' = [WithLocalNets(netIndex) EXCEPT ![Cross] =
                         @ \cup {[net |-> netIndex, pins |-> {first[a] : a \in AreasOf(netIndex)}]}]
  /\ netIndex' = netIndex + 1
  /\ UNCHANGED <<nets, clusterOf, pc, pin1net>>

Done ==
  /\ pc = "split" /\ netIndex \notin DOMAIN nets
  /\ pc' = "done"
  /\ UNCHANGED <<nets, clusterOf, netIndex, par_nets, pin1net>>

Returned == pc = "done" /\ UNCHANGED vars

Next == CrossCut \/ SinglePinNet \/ OneAreaNet \/ CrossNet \/ Done \/ Returned

Spec == Init /\ [][Next]_vars
----------------------------------------------------------------------------
PartType == [net : DOMAIN nets, pins : SUBSET Pin]

TypeOK ==
  /\ nets \in NetLists
  /\ pc \in {"cut", "split", "done"}
  /\ pc # "cut" => clusterOf \in [Locations -> Areas]
  /\ netIndex \in 1 .. Len(nets) + 1
  /\ pc = "done" => netIndex = Len(nets) + 1
  /\ par_nets \in [Keys -> SUBSET PartType]
  /\ pin1net \subseteq [net : DOMAIN nets, pin : Pin]

(* The nets a net of the input was split into. *)
Parts(i) == {part \in UNION {par_nets[a] : a \in Keys} : part.net = i}
Split == 1 .. netIndex - 1

(* Routing the parts of a net connects all of its pins: whichever way they *)
(* are told apart, some part has pins on both sides.                       *)
Connected ==
  \A i \in Split : \A S \in SUBSET Pins(i) : S # {} /\ S # Pins(i) =>
    \E part \in Parts(i) : part.pins \cap S # {} /\ part.pins \ S # {}

(* The parts route no connection twice: as many connections as a tree over *)
(* the pins has.                                                           *)
PartsFormTree ==
  \A i \in Split :
    SumFunction([part \in Parts(i) |-> Cardinality(part.pins) - 1])
      = Cardinality(Pins(i)) - 1

(* A net of an area has all its pins there, so the areas' routers use      *)
(* different pins; a cross net has one pin of each of its areas.           *)
PinsKeepTheirArea ==
  /\ \A a \in Areas : \A part \in par_nets[a] : \A p \in part.pins : clusterOf[p.c] = a
  /\ \A part \in par_nets[Cross] : \A p, q \in part.pins :
       p # q => clusterOf[p.c] # clusterOf[q.c]

(* No router is given a net with a single pin, and the nets left out are   *)
(* the ones that have no other.                                            *)
SinglePinsLeftOut ==
  /\ \A a \in Keys : \A part \in par_nets[a] : ~Single(part.pins)
  /\ \A i \in Split : Single(Pins(i)) <=> \E s \in pin1net : s.net = i
  /\ \A i \in Split : Single(Pins(i)) <=> Parts(i) = {}
=============================================================================
