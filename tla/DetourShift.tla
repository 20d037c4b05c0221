---------------------------- MODULE DetourShift ----------------------------
(***************************************************************************)
(* PatternRoute::constructDetours (gr/PatternRoute.cpp), the part that     *)
(* decides by how much a congested trunk is shifted: how far the window of *)
(* shifts opens on either side, how dense the positions in it are, and     *)
(* which of them get a detour.  A trunk is a record of the position it has *)
(* now, its range along the other axis, the positions of its stems, the    *)
(* size of the grid across it, and whether the tree can be rebuilt around  *)
(* it (a trunk that starts in the root needs a root with one child).       *)
(* DetourDag composes these actions with the trunks and the detours;       *)
(* WindowSpec runs them for trunks of any shape.                           *)
(***************************************************************************)
EXTENDS Integers, FiniteSets, FiniteSetsExt, SequencesExt

CONSTANT Target    \* parameters.target_detour_count, 20 in the code

(* With a target of 0 the loop that makes the step coarser would not end.  *)
ASSUME TargetAssumption == Target \in Nat \ {0}

VARIABLES trunk, pc,
          low, high,    \* shiftInterval
          step, pos,
          detours       \* the positions a detour is built at

shiftVars == <<trunk, pc, low, high, step, pos, detours>>

Distance(a, b) == IF a < b THEN b - a ELSE a - b

getTotalStemLength(p) == SumFunction([k \in DOMAIN trunk.stems |-> Distance(trunk.stems[k], p)])

LengthIncrease(p) == getTotalStemLength(p) - getTotalStemLength(trunk.position)

(* trunk.range() * parameters.max_detour_ratio, cut off to an integer.     *)
maxLengthIncrease == trunk.range \div 4

(* The window of a trunk before the loops.                                 *)
Open(t) ==
  /\ trunk' = t
  /\ low' = t.position /\ high' = t.position
  /\ step' = 1 /\ pos' = 0 /\ detours' = {}
  /\ pc' = "low"

CanLower == low - 1 >= 0 /\ LengthIncrease(low - 1) <= maxLengthIncrease

Lower ==
  /\ pc = "low"
  /\ IF CanLower THEN low' = low - 1 /\ pc' = pc ELSE low' = low /\ pc' = "high"
  /\ UNCHANGED <<trunk, high, step, pos, detours>>

(* The code looks at high - 1 here, not at high + 1.                       *)
CanRaise == high + 1 < trunk.size /\ LengthIncrease(high - 1) <= maxLengthIncrease

Raise ==
  /\ pc = "high"
  /\ IF CanRaise THEN high' = high + 1 /\ pc' = pc ELSE high' = high /\ pc' = "step"
  /\ UNCHANGED <<trunk, low, step, pos, detours>>

StepsEachSide(s) == (trunk.position - low) \div s + (high - trunk.position) \div s

TooDenseNow == StepsEachSide(step) >= Target    \* mutant: the step itself is tested

TooDense == StepsEachSide(step + 1) >= Target

Coarsen ==
  /\ pc = "step" /\ TooDense
  /\ step' = step + 1
  /\ UNCHANGED <<trunk, pc, low, high, pos, detours>>

(* Both ends move inwards to whole steps from the trunk.                   *)
Align ==
  /\ pc = "step" /\ ~TooDense
  /\ low' = trunk.position - ((trunk.position - low) \div step) * step
  /\ high' = trunk.position + ((high - trunk.position) \div step) * step
  /\ pos' = low' /\ pc' = "shift"
  /\ UNCHANGED <<trunk, step, detours>>

(* The round of the last loop at pos gives the trunk a detour.             *)
Shifts == pos # trunk.position /\ trunk.anchored

Shift ==
  /\ pc = "shift" /\ pos <= high
  /\ pos' = pos + step
  /\ detours' = IF Shifts THEN detours \cup {pos} ELSE detours
  /\ UNCHANGED <<trunk, pc, low, high, step>>

Done == pc = "shift" /\ pos > high

(* On to the next trunk.                                                   *)
Close ==
  /\ Done
  /\ pc' = "trunk"
  /\ UNCHANGED <<trunk, low, high, step, pos, detours>>

(* The loops over the trunks, seen by themselves.                          *)
Trunks ==
  [position : Nat, range : Nat, stems : Seq(Int), size : Nat, anchored : BOOLEAN]

WindowInit ==
  /\ trunk = <<>> /\ low = 0 /\ high = 0 /\ step = 1 /\ pos = 0 /\ detours = {}
  /\ pc = "trunk"

WindowNext ==
  \/ pc = "trunk" /\ \E t \in Trunks : t.position < t.size /\ Open(t)
  \/ Lower \/ Raise \/ Coarsen \/ Align \/ Shift
  \/ Close

WindowSpec == WindowInit /\ [][WindowNext]_shiftVars

-----------------------------------------------------------------------------
(* However wide the window opened, the number of detours is of the order   *)
(* of target_detour_count: never more than twice as many, and not less if  *)
(* some positions of the window were left out.  They are evenly spaced     *)
(* around the trunk and in the grid.                                       *)
DetoursOnTarget ==
  Done /\ trunk.anchored =>
    /\ Cardinality(detours) <= 2 * Target
    /\ step > 1 => Cardinality(detours) >= Target
    /\ \A p \in detours : p \in 0 .. trunk.size - 1 /\ Distance(p, trunk.position) % step = 0
    /\ \A p \in low .. high :
         p # trunk.position /\ Distance(p, trunk.position) % step = 0 => p \in detours

(* What max_detour_ratio is said to bound (parameters.h:18, "allowed stem  *)
(* length increase to trunk length ratio"): the stems of a detour are      *)
(* longer by that part of the trunk at most.                               *)
WithinRatio == \A p \in detours : LengthIncrease(p) <= maxLengthIncrease
=============================================================================
