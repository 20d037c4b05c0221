--------------------------- MODULE MCNetPartition ---------------------------
(***************************************************************************)
(* Three locations, one of them with pins on two layers.  One net of one   *)
(* or two pins (repeated ones included) or of three, alone or before or    *)
(* after a net of all four pins.  Four coordinates give every combination  *)
(* of areas of three locations.                                            *)
(***************************************************************************)
EXTENDS NetPartition

MCPin == {[c |-> 1, layer |-> 0], [c |-> 1, layer |-> 1],
          [c |-> 2, layer |-> 0], [c |-> 3, layer |-> 0]}
MCFull == <<[c |-> 1, layer |-> 0], [c |-> 3, layer |-> 0], [c |-> 1, layer |-> 1],
            [c |-> 2, layer |-> 0]>>
MCNets == UNION {[1 .. k -> MCPin] : k \in 1 .. 2}
            \cup {SubSeq(MCFull, 1, 3),  <<MCFull[1], MCFull[2], MCFull[4]>>}
MCNetLists == {<<n>> : n \in MCNets} \cup {<<n, MCFull>> : n \in MCNets}
                \cup {<<MCFull, n>> : n \in MCNets}
MCCoord == 0 .. 3
=============================================================================
