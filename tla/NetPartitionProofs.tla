------------------------- MODULE NetPartitionProofs -------------------------
(***************************************************************************)
(* Proofs about NetPartition for every list of nets and every cut.         *)
(***************************************************************************)
EXTENDS NetPartition, FiniteSums

(* Nets still to be split have no parts. *)
Fresh ==
  /\ \A a \in Keys : \A part \in par_nets[a] : part.net \in Split
  /\ \A s \in pin1net : s.net \in Split

IInv ==
  /\ TypeOK /\ Fresh /\ PinsKeepTheirArea /\ SinglePinsLeftOut
  /\ Connected /\ PartsFormTree
----------------------------------------------------------------------------
(* The input never changes, and the areas only at the cut. *)
LEMMA InputFixed ==
  ASSUME [Next]_vars
  PROVE  nets' = nets /\ (pc # "cut" => clusterOf' = clusterOf)
BY DEF Next, vars, CrossCut, SinglePinNet, OneAreaNet, CrossNet, Done, Returned

(* What the netlist is made of. *)
LEMMA InputType ==
  ASSUME TypeOK
  PROVE  /\ nets \in Seq(Seq(Pin)) /\ Len(nets) \in Nat /\ Len(nets) > 0
         /\ DOMAIN nets = 1 .. Len(nets)
         /\ \A i \in DOMAIN nets : Pins(i) # {} /\ Pins(i) \subseteq Pin
         /\ Split \subseteq DOMAIN nets
<1>1. nets \in Seq(Seq(Pin)) /\ nets # << >> /\ \A i \in DOMAIN nets : nets[i] # << >>
  BY PartitionAssumption DEF TypeOK
<1>2. Len(nets) \in Nat /\ Len(nets) > 0 /\ DOMAIN nets = 1 .. Len(nets)
  BY <1>1
<1>3. ASSUME NEW i \in DOMAIN nets
      PROVE  Pins(i) # {} /\ Pins(i) \subseteq Pin
  <2>1. nets[i] \in Seq(Pin) /\ nets[i] # << >>
    BY <1>1
  <2>2. 1 \in DOMAIN nets[i] /\ \A j \in DOMAIN nets[i] : nets[i][j] \in Pin
    BY <2>1
  <2>3. QED
    BY <2>2 DEF Pins
<1>4. Split \subseteq DOMAIN nets
  BY <1>2 DEF TypeOK, Split
<1>5. QED
  BY <1>1, <1>2, <1>3, <1>4

(* One round of the loop adds parts of its own net only. *)
LEMMA Round ==
  ASSUME IInv, Splitting, netIndex' = netIndex + 1, UNCHANGED <<nets, clusterOf, pc>>,
         NEW i, i = netIndex, NEW added,
         \A a \in Keys : par_nets'[a] = par_nets[a] \cup added[a],
         \A a \in Keys : \A part \in added[a] : part.net = i
  PROVE  /\ Split' = Split \cup {i} /\ i \notin Split
         /\ \A j : Pins(j)' = Pins(j)
         /\ \A j \in Split : Parts(j)' = Parts(j)
         /\ Parts(i)' = UNION {added[a] : a \in Keys}
<1>1. Split' = Split \cup {i} /\ i \notin Split
  BY InputType DEF IInv, TypeOK, Split
<1>2. \A j : Pins(j)' = Pins(j)
  BY DEF Pins
<1>3. ASSUME NEW j \in Split
      PROVE  Parts(j)' = Parts(j)
  BY <1>1 DEF Parts
<1>4. \A a \in Keys : \A part \in par_nets[a] : part.net # i
  BY <1>1 DEF IInv, Fresh
<1>5. Parts(i)' = UNION {added[a] : a \in Keys}
  BY <1>4 DEF Parts
<1>6. QED
  BY <1>1, <1>2, <1>3, <1>5

(* The connections the parts of net i route are as many as its pins need.  *)
FormTree(i, parts) ==
  SumFunction([part \in parts |-> Cardinality(part.pins) - 1]) = Cardinality(Pins(i)) - 1

(* A net has finitely many pins. *)
LEMMA PinsFinite ==
  ASSUME TypeOK, NEW i \in DOMAIN nets
  PROVE  IsFiniteSet(Pins(i))
<1>1. nets[i] \in Seq(Pin)
  BY InputType
<1>2. DOMAIN nets[i] = 1 .. Len(nets[i]) /\ Len(nets[i]) \in Nat
  BY <1>1
<1>3. IsFiniteSet(DOMAIN nets[i])
  BY <1>2, FS_Interval
<1> DEFINE f == [j \in DOMAIN nets[i] |-> nets[i][j]]
<1>4. f \in [DOMAIN nets[i] -> Pins(i)] /\ \A p \in Pins(i) : \E j \in DOMAIN nets[i] : f[j] = p
  BY DEF Pins
<1>5. QED
  <2> HIDE DEF f
  <2>1. f \in Surjection(DOMAIN nets[i], Pins(i))
    BY <1>4, Fun_IsSurj
  <2>2. QED
    BY <1>3, <2>1, FS_Surjection

(* Parts of net i route as many connections as its pins need if taking one *)
(* pin from each leaves disjoint sets that make up all pins but one.       *)
LEMMA TreeOfParts ==
  ASSUME NEW i, IsFiniteSet(Pins(i)), NEW root \in Pins(i),
         NEW parts, parts \subseteq [net : {i}, pins : SUBSET Pins(i)],
         NEW others, DOMAIN others = parts,
         \A part \in parts : \E p \in part.pins : others[part] = part.pins \ {p},
         \A part, q \in parts : part # q => others[part] \cap others[q] = {},
         UNION {others[part] : part \in parts} = Pins(i) \ {root}
  PROVE  FormTree(i, parts)
<1> DEFINE pinsOf == [part \in parts |-> part.pins]
           sizes == [part \in parts |-> Cardinality(others[part])]
<1>1. \A part \in parts : IsFiniteSet(part.pins)
  BY FS_Subset
<1>2. IsFiniteSet(parts)
  <2>1. IsFiniteSet(SUBSET Pins(i))
    BY FS_SUBSET
  <2>2. /\ pinsOf \in [parts -> SUBSET Pins(i)]
        /\ \A part, q \in parts : pinsOf[part] = pinsOf[q] => part = q
    OBVIOUS
  <2>3. QED
    <3> HIDE DEF pinsOf
    <3>1. pinsOf \in Injection(parts, SUBSET Pins(i))
      BY <2>2, Fun_IsInj
    <3>2. QED
      BY <2>1, <3>1, FS_Injection
<1>3. ASSUME NEW part \in parts
      PROVE  /\ IsFiniteSet(others[part])
             /\ Cardinality(part.pins) - 1 = Cardinality(others[part])
  <2>1. PICK p \in part.pins : others[part] = part.pins \ {p}
    OBVIOUS
  <2>2. IsFiniteSet(part.pins)
    BY <1>1
  <2>3. /\ IsFiniteSet(part.pins \ {p})
        /\ Cardinality(part.pins \ {p}) = Cardinality(part.pins) - 1
    BY <2>2, FS_RemoveElement
  <2>4. QED
    BY <2>1, <2>3
<1>4. SumFunction(sizes) = Cardinality(UNION {others[part] : part \in parts})
  <2>1. \A part \in parts : IsFiniteSet(others[part])
    BY <1>3
  <2>2. DOMAIN others = parts /\ \A x, y \in parts : x # y => others[x] \cap others[y] = {}
    OBVIOUS
  <2>3. PICK union : union = UNION {others[part] : part \in parts}
    OBVIOUS
  <2>4. PICK size : size = sizes
    OBVIOUS
  <2>5. size = [part \in parts |-> Cardinality(others[part])]
    BY <2>4
  <2>6. Cardinality(union) = SumFunction(size)
    BY ONLY <1>2, <2>1, <2>2, <2>3, <2>5, DisjointUnion
  <2> HIDE DEF sizes
  <2>7. QED
    BY <2>3, <2>4, <2>6
<1>5. Cardinality(Pins(i) \ {root}) = Cardinality(Pins(i)) - 1
  BY FS_RemoveElement
<1>6. [part \in parts |-> Cardinality(part.pins) - 1] = sizes
  BY <1>3
<1>7. QED
  BY <1>4, <1>5, <1>6 DEF FormTree

(* So the invariant is kept if the round's own net is split correctly:     *)
(* added are its parts for each key, and left its pin if it has only one.  *)
SplitsNet(i, added, left) ==
  /\ Splitting /\ i = netIndex /\ netIndex' = netIndex + 1
  /\ UNCHANGED <<nets, clusterOf, pc>>
  /\ par_nets' \in [Keys -> SUBSET PartType]
  /\ \A a \in Keys : par_nets'[a] = par_nets[a] \cup added[a]
  /\ \A a \in Keys : \A part \in added[a] : part.net = i /\ ~Single(part.pins)
  /\ left \subseteq Pins(i)
  /\ pin1net' = pin1net \cup {[net |-> i, pin |-> p] : p \in left}
  /\ left # {} <=> Single(Pins(i))
  /\ (\A a \in Keys : added[a] = {}) <=> Single(Pins(i))
  /\ \A a \in Areas : \A part \in added[a] : \A p \in part.pins : clusterOf[p.c] = a
  /\ \A part \in added[Cross] : \A p, q \in part.pins :
       p # q => clusterOf[p.c] # clusterOf[q.c]
  /\ \A S \in SUBSET Pins(i) : S # {} /\ S # Pins(i) =>
       \E a \in Keys : \E part \in added[a] : part.pins \cap S # {} /\ part.pins \ S # {}
  /\ FormTree(i, UNION {added[a] : a \in Keys})

(* A round that splits the next net into a tree of parts keeps the invariant. *)
LEMMA RoundKeepsInv ==
  ASSUME IInv, NEW i, NEW added, NEW left, SplitsNet(i, added, left)
  PROVE  IInv'
<1> USE DEF SplitsNet
<1>1. /\ Split' = Split \cup {i} /\ i \notin Split
      /\ \A j : Pins(j)' = Pins(j)
      /\ \A j \in Split : Parts(j)' = Parts(j)
      /\ Parts(i)' = UNION {added[a] : a \in Keys}
  BY Round
<1>2. Pins(i) \subseteq Pin /\ i \in DOMAIN nets /\ DOMAIN nets = 1 .. Len(nets)
  BY InputType DEF IInv, Splitting
<1>3. TypeOK'
  <2>1. Locations' = Locations /\ PartType' = PartType
    BY DEF Locations, PartType
  <2>2. netIndex' \in 1 .. Len(nets) + 1
    BY <1>2, InputType DEF IInv
  <2>3. pin1net' \subseteq [net : DOMAIN nets, pin : Pin]
    BY <1>2 DEF IInv, TypeOK
  <2>4. QED
    BY <2>1, <2>2, <2>3 DEF IInv, TypeOK, Splitting
<1>4. Fresh'
  BY <1>1 DEF IInv, Fresh
<1>5. PinsKeepTheirArea'
  <2>1. ASSUME NEW a \in Areas
        PROVE  \A part \in par_nets'[a] : \A p \in part.pins : clusterOf[p.c] = a
    BY DEF IInv, PinsKeepTheirArea, Keys
  <2>2. \A part \in par_nets'[Cross] : \A p, q \in part.pins :
          p # q => clusterOf[p.c] # clusterOf[q.c]
    BY DEF IInv, PinsKeepTheirArea, Keys
  <2>3. QED
    BY <2>1, <2>2 DEF PinsKeepTheirArea
<1>6. Connected'
  <2> SUFFICES ASSUME NEW j \in Split', NEW S \in SUBSET Pins(j), S # {}, S # Pins(j)
               PROVE  \E part \in Parts(j)' : part.pins \cap S # {} /\ part.pins \ S # {}
    BY <1>1 DEF Connected
  <2>1. CASE j \in Split
    BY <1>1, <2>1 DEF IInv, Connected
  <2>2. CASE j = i
    BY <1>1, <2>2
  <2>3. QED
    BY <1>1, <2>1, <2>2
<1>7. SinglePinsLeftOut'
  <2>1. \A a \in Keys : \A part \in par_nets'[a] : ~Single(part.pins)
    BY DEF IInv, SinglePinsLeftOut
  <2>2. ASSUME NEW j \in Split
        PROVE  /\ Single(Pins(j)) <=> \E s \in pin1net' : s.net = j
               /\ Single(Pins(j)) <=> Parts(j)' = {}
    <3>1. j # i
      BY <1>1
    <3>2. \A s \in {[net |-> i, pin |-> p] : p \in left} : s.net = i
      OBVIOUS
    <3>3. (\E s \in pin1net' : s.net = j) <=> (\E s \in pin1net : s.net = j)
      BY <3>1, <3>2
    <3>4. QED
      BY <1>1, <3>3 DEF IInv, SinglePinsLeftOut
  <2>3. /\ Single(Pins(i)) <=> \E s \in pin1net' : s.net = i
        /\ Single(Pins(i)) <=> Parts(i)' = {}
    <3>1. \A s \in pin1net : s.net # i
      BY <1>1 DEF IInv, Fresh
    <3>2. (\E s \in pin1net' : s.net = i) <=> left # {}
      <4>1. ASSUME NEW s \in pin1net', s.net = i
            PROVE  left # {}
        BY <3>1, <4>1
      <4>2. ASSUME NEW p \in left
            PROVE  \E s \in pin1net' : s.net = i
        <5>1. [net |-> i, pin |-> p] \in pin1net'
          OBVIOUS
        <5>2. QED
          BY <5>1
      <4>3. QED
        BY <4>1, <4>2
    <3>3. Parts(i)' = {} <=> \A a \in Keys : added[a] = {}
      BY <1>1
    <3>4. QED
      BY <3>2, <3>3
  <2>4. QED
    BY <1>1, <2>1, <2>2, <2>3 DEF SinglePinsLeftOut
<1>8. PartsFormTree'
  <2> SUFFICES ASSUME NEW j \in Split'
               PROVE  SumFunction([part \in Parts(j)' |-> Cardinality(part.pins) - 1])
                        = Cardinality(Pins(j)') - 1
    BY DEF PartsFormTree
  <2>1. CASE j \in Split
    BY <1>1, <2>1 DEF IInv, PartsFormTree
  <2>2. CASE j = i
    BY <1>1, <2>2 DEF FormTree
  <2>3. QED
    BY <1>1, <2>1, <2>2
<1>9. QED
  BY <1>3, <1>4, <1>5, <1>6, <1>7, <1>8 DEF IInv
----------------------------------------------------------------------------
(* What WithLocalNets adds. *)
Local(i, a) == {[net |-> i, pins |-> PinsIn(i, b)] :
                  b \in {b \in AreasOf(i) : b = a /\ ~Single(PinsIn(i, b))}}

(* The local nets of one net: the pins of each area that holds two of them. *)
LEMMA LocalNets ==
  ASSUME TypeOK, Splitting, NEW i, i = netIndex
  PROVE  /\ i \in DOMAIN nets /\ Pins(i) # {} /\ Pins(i) \subseteq Pin
         /\ AreasOf(i) \subseteq Areas
         /\ \A p \in Pins(i) : clusterOf[p.c] \in AreasOf(i) /\ p \in PinsIn(i, clusterOf[p.c])
         /\ \A a : \A part \in Local(i, a) :
              /\ part \in PartType /\ part.net = i /\ ~Single(part.pins)
              /\ part.pins = PinsIn(i, a) /\ a \in AreasOf(i)
         /\ \A a \in AreasOf(i) : ~Single(PinsIn(i, a)) =>
              \E part \in Local(i, a) : part.pins = PinsIn(i, a)
         /\ Local(i, Cross) = {}
         /\ WithLocalNets(i) = [a \in Keys |-> par_nets[a] \cup Local(i, a)]
         /\ WithLocalNets(i) \in [Keys -> SUBSET PartType]
<1>1. i \in DOMAIN nets /\ Pins(i) # {} /\ Pins(i) \subseteq Pin
  BY InputType DEF Splitting
<1>2. \A p \in Pins(i) : p.c \in Locations
  BY <1>1 DEF Pins, Locations
<1>3. AreasOf(i) \subseteq Areas
  BY <1>2 DEF AreasOf, TypeOK, Splitting
<1>4. \A p \in Pins(i) : clusterOf[p.c] \in AreasOf(i) /\ p \in PinsIn(i, clusterOf[p.c])
  BY DEF AreasOf, PinsIn
<1>5. ASSUME NEW a, NEW part \in Local(i, a)
      PROVE  /\ part \in PartType /\ part.net = i /\ ~Single(part.pins)
             /\ part.pins = PinsIn(i, a) /\ a \in AreasOf(i)
  <2>1. PinsIn(i, a) \subseteq Pin
    BY <1>1 DEF PinsIn
  <2>2. part = [net |-> i, pins |-> PinsIn(i, a)] /\ a \in AreasOf(i) /\ ~Single(PinsIn(i, a))
    BY DEF Local
  <2>3. QED
    BY <1>1, <2>1, <2>2 DEF PartType
<1>6. ASSUME NEW a \in AreasOf(i), ~Single(PinsIn(i, a))
      PROVE  \E part \in Local(i, a) : part.pins = PinsIn(i, a)
  <2>1. [net |-> i, pins |-> PinsIn(i, a)] \in Local(i, a)
    BY <1>6 DEF Local
  <2>2. QED
    BY <2>1
<1>7. Local(i, Cross) = {}
  BY <1>3, <1>5 DEF Areas, Cross
<1>8. WithLocalNets(i) = [a \in Keys |-> par_nets[a] \cup Local(i, a)]
  BY DEF WithLocalNets, Local
<1>9. WithLocalNets(i) \in [Keys -> SUBSET PartType]
  BY <1>5, <1>8 DEF TypeOK
<1>10. QED
  BY <1>1, <1>3, <1>4, <1>5, <1>6, <1>7, <1>8, <1>9

(* A net of one pin is left out, and keeps the invariant. *)
LEMMA SinglePinNetKeepsInv ==
  ASSUME IInv, SinglePinNet
  PROVE  IInv'
<1>1. PICK i, added, left : i = netIndex /\ added = [a \in Keys |-> {}] /\ left = Pins(i)
  OBVIOUS
<1>2. /\ Splitting /\ Single(Pins(i)) /\ netIndex' = netIndex + 1
      /\ UNCHANGED <<nets, clusterOf, pc, par_nets>>
      /\ pin1net' = pin1net \cup {[net |-> i, pin |-> p] : p \in left}
  BY <1>1 DEF SinglePinNet
<1>3. left # {}
  BY <1>1, <1>2, InputType DEF IInv, Splitting
<1>4. par_nets' \in [Keys -> SUBSET PartType]
  BY <1>2 DEF IInv, TypeOK
<1>5. /\ \A a \in Keys : added[a] = {} /\ par_nets'[a] = par_nets[a] \cup added[a]
      /\ Cross \in Keys /\ Areas \subseteq Keys
  BY <1>1, <1>2 DEF Keys
<1>6. \A S \in SUBSET Pins(i) : S # {} => S = Pins(i)
  BY <1>2 DEF Single
<1>7. FormTree(i, UNION {added[a] : a \in Keys})
  <2>1. UNION {added[a] : a \in Keys} = {}
    BY <1>5
  <2>2. PICK root \in Pins(i) : Pins(i) = {root}
    BY <1>2 DEF Single
  <2>3. DOMAIN [part \in {} |-> Cardinality(part.pins) - 1] = {}
    OBVIOUS
  <2>4. SumFunction([part \in {} |-> Cardinality(part.pins) - 1]) = 0
    BY <2>3, SumOfNone
  <2>5. Cardinality(Pins(i)) = 1
    BY <2>2, FS_Singleton
  <2>6. FormTree(i, {})
    BY <2>4, <2>5 DEF FormTree
  <2>7. QED
    BY <2>1, <2>6
<1>8. SplitsNet(i, added, left)
  BY <1>1, <1>2, <1>3, <1>4, <1>5, <1>6, <1>7 DEF SplitsNet
<1>9. QED
  BY <1>8, RoundKeepsInv

(* A net inside one area is its own part. *)
LEMMA OneAreaNetKeepsInv ==
  ASSUME IInv, OneAreaNet
  PROVE  IInv'
<1>1. PICK i, added, left : i = netIndex /\ added = [a \in Keys |-> Local(i, a)] /\ left = {}
  OBVIOUS
<1>2. /\ Splitting /\ Single(AreasOf(i)) /\ ~Single(Pins(i)) /\ netIndex' = netIndex + 1
      /\ par_nets' = WithLocalNets(i) /\ UNCHANGED <<nets, clusterOf, pc>>
      /\ pin1net' = pin1net \cup {[net |-> i, pin |-> p] : p \in left}
  BY <1>1 DEF OneAreaNet
<1>3. /\ \A a \in Keys : added[a] = Local(i, a)
      /\ Cross \in Keys /\ Areas \subseteq Keys
  BY <1>1 DEF Keys
<1>4. /\ par_nets' \in [Keys -> SUBSET PartType]
      /\ \A a \in Keys : par_nets'[a] = par_nets[a] \cup added[a]
  BY <1>1, <1>2, <1>3, LocalNets DEF IInv
<1>5. \A a \in Keys : \A part \in added[a] :
        part.net = i /\ ~Single(part.pins) /\ part.pins = PinsIn(i, a)
  BY <1>1, <1>2, <1>3, LocalNets DEF IInv
<1>6. added[Cross] = {}
  BY <1>1, <1>2, <1>3, LocalNets DEF IInv
<1>7. PICK a \in Areas : AreasOf(i) = {a}
  BY <1>1, <1>2, LocalNets DEF IInv, Single
<1>8. PinsIn(i, a) = Pins(i)
  BY <1>1, <1>2, <1>7, LocalNets DEF IInv, PinsIn
<1>9. PICK part \in added[a] : part.pins = Pins(i)
  BY <1>1, <1>2, <1>3, <1>7, <1>8, LocalNets DEF IInv
<1>10. \A b \in Areas : \A q \in added[b] : \A p \in q.pins : clusterOf[p.c] = b
  BY <1>3, <1>5 DEF PinsIn
<1>11. ASSUME NEW S \in SUBSET Pins(i), S # {}, S # Pins(i)
       PROVE  \E b \in Keys : \E q \in added[b] : q.pins \cap S # {} /\ q.pins \ S # {}
  <2>1. part.pins \cap S # {} /\ part.pins \ S # {}
    BY <1>9, <1>11
  <2>2. QED
    BY <1>3, <2>1
<1>12. ~(\A b \in Keys : added[b] = {})
  BY <1>3, <1>9
<1>13. FormTree(i, UNION {added[b] : b \in Keys})
  <2> DEFINE parts == UNION {added[b] : b \in Keys}
  <2>1. \A q \in parts : q = part
    <3>1. ASSUME NEW b \in Keys, NEW q \in added[b]
          PROVE  q = part
      <4>1. b \in AreasOf(i)
        BY <1>1, <1>2, <1>3, LocalNets DEF IInv
      <4>2. b = a
        BY <1>7, <4>1
      <4>3. part \in PartType /\ q \in PartType /\ part.net = i /\ q.net = i /\ q.pins = part.pins
        BY <1>1, <1>2, <1>3, <1>5, <1>9, <4>2, LocalNets DEF IInv
      <4>4. QED
        BY <4>3 DEF PartType
    <3>2. QED
      BY <3>1
  <2>2. parts = {part} /\ part \in [net : {i}, pins : SUBSET Pins(i)]
    <3>1. part \in PartType /\ part.net = i
      BY <1>1, <1>2, <1>3, LocalNets DEF IInv
    <3>2. QED
      BY <1>3, <1>9, <2>1, <3>1 DEF PartType
  <2>3. PICK root \in Pins(i) : TRUE
    BY <1>1, <1>2, LocalNets DEF IInv
  <2>4. IsFiniteSet(Pins(i))
    BY <1>1, <1>2, LocalNets, PinsFinite DEF IInv
  <2> DEFINE others == [q \in {part} |-> Pins(i) \ {root}]
  <2>5. /\ DOMAIN others = {part}
        /\ \A q \in {part} : \E p \in q.pins : others[q] = q.pins \ {p}
        /\ UNION {others[q] : q \in {part}} = Pins(i) \ {root}
    BY <1>9
  <2>6. FormTree(i, {part})
    <3> HIDE DEF others
    <3>1. QED
      BY <2>2, <2>4, <2>5, TreeOfParts
  <2>7. QED
    BY <2>2, <2>6
<1>14. SplitsNet(i, added, left)
  <2>1. \A b \in Keys : \A q \in added[b] : q.net = i /\ ~Single(q.pins)
    BY <1>5
  <2>2. left = {} /\ left \subseteq Pins(i) /\ ~Single(Pins(i))
    BY <1>1, <1>2
  <2>3. \A S \in SUBSET Pins(i) : S # {} /\ S # Pins(i) =>
          \E b \in Keys : \E q \in added[b] : q.pins \cap S # {} /\ q.pins \ S # {}
    BY <1>11
  <2>4. QED
    BY <1>1, <1>2, <1>4, <1>6, <1>10, <1>12, <1>13, <2>1, <2>2, <2>3 DEF SplitsNet
<1>15. QED
  BY <1>14, RoundKeepsInv

(* A net over several areas becomes local parts and a cross part. *)
LEMMA CrossNetKeepsInv ==
  ASSUME IInv, CrossNet
  PROVE  IInv'
<1>1. PICK i : i = netIndex
  OBVIOUS
<1>2. /\ Splitting /\ ~Single(AreasOf(i)) /\ netIndex' = netIndex + 1
      /\ UNCHANGED <<nets, clusterOf, pc, pin1net>>
  BY <1>1 DEF CrossNet
<1>3. PICK first :
        /\ \A a \in AreasOf(i) : first[a] \in PinsIn(i, a)
        /\ par_nets' = [WithLocalNets(i) EXCEPT ![Cross] =
                          @ \cup {[net |-> i, pins |-> {first[a] : a \in AreasOf(i)}]}]
  BY <1>1 DEF CrossNet
<1>4. PICK firsts, cross, added, left :
        /\ firsts = {first[a] : a \in AreasOf(i)}
        /\ cross = [net |-> i, pins |-> firsts]
        /\ added = [a \in Keys |-> IF a = Cross THEN {cross} ELSE Local(i, a)]
        /\ left = {}
  OBVIOUS
<1>5. /\ Cross \in Keys /\ Areas \subseteq Keys /\ Cross \notin Areas
      /\ added[Cross] = {cross} /\ \A a \in Areas : added[a] = Local(i, a)
      /\ \A a \in Keys : a = Cross \/ a \in Areas
  BY <1>4 DEF Keys, Areas, Cross
<1>6. \A a \in AreasOf(i) : first[a] \in Pins(i) /\ clusterOf[first[a].c] = a
  BY <1>3 DEF PinsIn
<1>7. cross.net = i /\ cross.pins = firsts /\ cross \in PartType
  <2>1. firsts \subseteq Pin
    BY <1>1, <1>2, <1>4, <1>6, LocalNets DEF IInv
  <2>2. QED
    BY <1>1, <1>2, <1>4, <2>1, LocalNets DEF IInv, PartType
<1>8. /\ par_nets' \in [Keys -> SUBSET PartType]
      /\ \A a \in Keys : par_nets'[a] = par_nets[a] \cup added[a]
  <2>1. /\ WithLocalNets(i) = [a \in Keys |-> par_nets[a] \cup Local(i, a)]
        /\ WithLocalNets(i) \in [Keys -> SUBSET PartType]
        /\ Local(i, Cross) = {}
    BY <1>1, <1>2, LocalNets DEF IInv
  <2>2. par_nets' = [WithLocalNets(i) EXCEPT ![Cross] = @ \cup {cross}]
    BY <1>3, <1>4
  <2>3. QED
    BY <1>4, <1>5, <1>7, <2>1, <2>2
<1>9. ~Single(firsts)
  <2>1. PICK a \in AreasOf(i), b \in AreasOf(i) : a # b
    <3>1. AreasOf(i) # {}
      BY <1>1, <1>2, LocalNets DEF IInv
    <3>2. QED
      BY <1>2, <3>1 DEF Single
  <2>2. first[a] \in firsts /\ first[b] \in firsts /\ first[a] # first[b]
    BY <1>4, <1>6, <2>1
  <2>3. QED
    BY <2>2 DEF Single
<1>10. \A a \in Areas : \A part \in added[a] :
         part.net = i /\ ~Single(part.pins) /\ part.pins = PinsIn(i, a)
  BY <1>1, <1>2, <1>5, LocalNets DEF IInv
<1>11. \A a \in Keys : \A part \in added[a] : part.net = i /\ ~Single(part.pins)
  BY <1>5, <1>7, <1>9, <1>10
<1>12. \A a \in Areas : \A part \in added[a] : \A p \in part.pins : clusterOf[p.c] = a
  BY <1>10 DEF PinsIn
<1>13. \A part \in added[Cross] : \A p, q \in part.pins :
         p # q => clusterOf[p.c] # clusterOf[q.c]
  BY <1>4, <1>5, <1>6, <1>7
<1>14. left = {} /\ left \subseteq Pins(i) /\ ~(\A a \in Keys : added[a] = {})
  BY <1>4, <1>5
<1>15. ~Single(Pins(i))
  <2>1. firsts \subseteq Pins(i) /\ firsts # {}
    BY <1>1, <1>2, <1>4, <1>6, LocalNets DEF IInv
  <2>2. QED
    BY <1>9, <2>1 DEF Single
(* A set that cuts no area's pins apart separates two of the first pins.   *)
<1>16. ASSUME NEW S \in SUBSET Pins(i), S # {}, S # Pins(i)
       PROVE  \E a \in Keys : \E part \in added[a] :
                part.pins \cap S # {} /\ part.pins \ S # {}
  <2>1. CASE \E a \in AreasOf(i) : PinsIn(i, a) \cap S # {} /\ PinsIn(i, a) \ S # {}
    <3>1. PICK a \in AreasOf(i) : PinsIn(i, a) \cap S # {} /\ PinsIn(i, a) \ S # {}
      BY <2>1
    <3>2. ~Single(PinsIn(i, a)) /\ a \in Areas
      BY <1>1, <1>2, <3>1, LocalNets DEF IInv, Single
    <3>3. PICK part \in Local(i, a) : part.pins = PinsIn(i, a)
      BY <1>1, <1>2, <3>2, LocalNets DEF IInv
    <3>4. QED
      BY <1>5, <3>1, <3>2, <3>3
  <2>2. CASE \A a \in AreasOf(i) : PinsIn(i, a) \subseteq S \/ PinsIn(i, a) \cap S = {}
    <3>1. PICK p \in S, q \in Pins(i) : q \notin S
      BY <1>16
    <3>2. /\ clusterOf[p.c] \in AreasOf(i) /\ p \in PinsIn(i, clusterOf[p.c])
          /\ clusterOf[q.c] \in AreasOf(i) /\ q \in PinsIn(i, clusterOf[q.c])
      BY <1>1, <1>2, <3>1, LocalNets DEF IInv
    <3>3. first[clusterOf[p.c]] \in S /\ first[clusterOf[q.c]] \notin S
      BY <1>3, <2>2, <3>1, <3>2
    <3>4. cross.pins \cap S # {} /\ cross.pins \ S # {}
      BY <1>4, <1>7, <3>2, <3>3
    <3>5. QED
      BY <1>5, <3>4
  <2>3. QED
    BY <2>1, <2>2
<1>17. \A S \in SUBSET Pins(i) : S # {} /\ S # Pins(i) =>
         \E a \in Keys : \E part \in added[a] : part.pins \cap S # {} /\ part.pins \ S # {}
  BY <1>16
<1>18. pin1net' = pin1net \cup {[net |-> i, pin |-> p] : p \in left}
  BY <1>2, <1>14
(* Without the first pins in the local nets, and without one of them in the *)
(* cross net, no pin is left twice, and all but one are left.               *)
<1>19. FormTree(i, UNION {added[a] : a \in Keys})
  <2> DEFINE parts == UNION {added[a] : a \in Keys}
  <2>1. PICK b \in AreasOf(i) : TRUE
    BY <1>1, <1>2, LocalNets DEF IInv
  <2> DEFINE root == first[b]
             others == [part \in parts |->
                          IF part = cross THEN firsts \ {root} ELSE part.pins \ firsts]
  <2>2. \A a \in AreasOf(i) : PinsIn(i, a) \cap firsts = {first[a]}
    BY <1>3, <1>4, <1>6 DEF PinsIn
  <2>3. root \in Pins(i) /\ root \in firsts /\ firsts \subseteq Pins(i)
    BY <1>4, <1>6, <2>1
  <2>4. cross \in parts
    BY <1>5
  <2>5. ASSUME NEW part \in parts, part # cross
        PROVE  /\ part \in PartType /\ part.net = i
               /\ \E a \in AreasOf(i) : part.pins = PinsIn(i, a)
    BY <1>1, <1>2, <1>5, <2>5, LocalNets DEF IInv
  <2>6. parts \subseteq [net : {i}, pins : SUBSET Pins(i)]
    <3>1. ASSUME NEW part \in parts
          PROVE  part \in [net : {i}, pins : SUBSET Pins(i)]
      <4>1. part \in PartType /\ part.net = i /\ part.pins \subseteq Pins(i)
        BY <1>7, <2>3, <2>5 DEF PinsIn
      <4>2. QED
        BY <4>1 DEF PartType
    <3>2. QED
      BY <3>1
  <2>7. ASSUME NEW part \in parts
        PROVE  \E p \in part.pins : others[part] = part.pins \ {p}
    <3>1. CASE part = cross
      BY <1>7, <2>3, <3>1
    <3>2. CASE part # cross
      <4>1. PICK a \in AreasOf(i) : part.pins = PinsIn(i, a)
        BY <2>5, <3>2
      <4>2. first[a] \in part.pins /\ part.pins \ firsts = part.pins \ {first[a]}
        BY <1>3, <2>2, <4>1
      <4>3. QED
        BY <3>2, <4>2
    <3>3. QED
      BY <3>1, <3>2
  <2>8. ASSUME NEW part \in parts, NEW q \in parts, part # q
        PROVE  others[part] \cap others[q] = {}
    <3>1. CASE part = cross \/ q = cross
      BY <2>8, <3>1
    <3>2. CASE part # cross /\ q # cross
      <4>1. PICK a \in AreasOf(i) : part.pins = PinsIn(i, a)
        BY <2>5, <3>2
      <4>2. PICK c \in AreasOf(i) : q.pins = PinsIn(i, c)
        BY <2>5, <3>2
      <4>3. part.pins # q.pins
        BY <2>6, <2>8
      <4>4. PinsIn(i, a) \cap PinsIn(i, c) = {}
        BY <4>1, <4>2, <4>3 DEF PinsIn
      <4>5. QED
        BY <3>2, <4>1, <4>2, <4>4
    <3>3. QED
      BY <3>1, <3>2
  <2>9. UNION {others[part] : part \in parts} = Pins(i) \ {root}
    <3>1. ASSUME NEW part \in parts
          PROVE  others[part] \subseteq Pins(i) \ {root}
      BY <2>3, <2>6
    <3>2. ASSUME NEW p \in Pins(i) \ {root}
          PROVE  \E part \in parts : p \in others[part]
      <4>1. CASE p \in firsts
        BY <2>4, <4>1
      <4>2. CASE p \notin firsts
        <5>1. PICK a \in AreasOf(i) : p \in PinsIn(i, a)
          BY <1>1, <1>2, LocalNets DEF IInv
        <5>2. first[a] \in PinsIn(i, a) /\ first[a] # p
          BY <1>3, <1>4, <4>2
        <5>3. ~Single(PinsIn(i, a))
          BY <5>1, <5>2 DEF Single
        <5>4. PICK part \in Local(i, a) : part.pins = PinsIn(i, a)
          BY <1>1, <1>2, <5>3, LocalNets DEF IInv
        <5>5. a \in Areas
          BY <1>1, <1>2, LocalNets DEF IInv
        <5>6. part \in parts
          BY <1>5, <5>4, <5>5
        <5>7. CASE part = cross
          BY <1>7, <4>2, <5>1, <5>4, <5>7
        <5>8. CASE part # cross
          BY <4>2, <5>1, <5>4, <5>6, <5>8
        <5>9. QED
          BY <5>7, <5>8
      <4>3. QED
        BY <4>1, <4>2
    <3>3. QED
      <4> HIDE DEF others, parts
      <4>1. QED
        BY <3>1, <3>2
  <2>10. IsFiniteSet(Pins(i))
    BY <1>1, <1>2, LocalNets, PinsFinite DEF IInv
  <2>11. FormTree(i, parts)
    <3>1. DOMAIN others = parts
      OBVIOUS
    <3>2. \A part, q \in parts : part # q => others[part] \cap others[q] = {}
      BY <2>8
    <3>3. \A part \in parts : \E p \in part.pins : others[part] = part.pins \ {p}
      BY <2>7
    <3> HIDE DEF others, parts, root
    <3>4. QED
      BY <2>3, <2>6, <2>9, <2>10, <3>1, <3>2, <3>3, TreeOfParts
  <2>12. QED
    BY <2>11
<1>20. SplitsNet(i, added, left)
  BY <1>1, <1>2, <1>8, <1>11, <1>12, <1>13, <1>14, <1>15, <1>17, <1>18, <1>19 DEF SplitsNet
<1>21. QED
  BY <1>20, RoundKeepsInv
----------------------------------------------------------------------------
(* The invariant holds at first. *)
LEMMA InitInv ==
  ASSUME Init
  PROVE  IInv
<1>1. Split = {}
  BY DEF Init, Split
<1>2. TypeOK
  <2>1. Len(nets) \in Nat
    BY PartitionAssumption DEF Init
  <2>2. QED
    BY <2>1 DEF Init, TypeOK
<1>3. Fresh /\ PinsKeepTheirArea
  BY DEF Init, Fresh, PinsKeepTheirArea, Keys
<1>4. Connected /\ PartsFormTree /\ SinglePinsLeftOut
  BY <1>1 DEF Init, Connected, PartsFormTree, SinglePinsLeftOut
<1>5. QED
  BY <1>2, <1>3, <1>4 DEF IInv

(* The cut gives every location an area, and no net has been split yet.    *)
LEMMA CrossCutKeepsInv ==
  ASSUME IInv, CrossCut, pc = "cut" => netIndex = 1 /\ par_nets = [a \in Keys |-> {}]
  PROVE  IInv'
<1>1. /\ pc' = "split" /\ netIndex' = 1 /\ par_nets' = [a \in Keys |-> {}]
      /\ UNCHANGED <<nets, netIndex, pin1net>>
  BY DEF CrossCut
<1>2. Split' = {}
  BY <1>1 DEF Split
<1>3. clusterOf' \in [Locations -> Areas]
  <2>1. \A p, cut : Quadrant(p, cut) \in Areas
    BY DEF Quadrant, Areas
  <2>2. QED
    BY <2>1 DEF CrossCut
<1>4. TypeOK'
  <2>1. Locations' = Locations /\ PartType' = PartType
    BY <1>1 DEF Locations, PartType
  <2>2. QED
    BY <1>1, <1>3, <2>1 DEF IInv, TypeOK
<1>5. Fresh' /\ PinsKeepTheirArea'
  <2>1. \A s \in pin1net' : s.net \in Split'
    BY <1>1 DEF CrossCut, IInv, Fresh, Split
  <2>2. QED
    BY <1>1, <2>1 DEF Fresh, PinsKeepTheirArea, Keys
<1>6. Connected' /\ PartsFormTree' /\ SinglePinsLeftOut'
  BY <1>1, <1>2 DEF Connected, PartsFormTree, SinglePinsLeftOut
<1>7. QED
  BY <1>4, <1>5, <1>6 DEF IInv

(* Nothing else touches the nets. *)
LEMMA QuietKeepsInv ==
  ASSUME IInv, Done \/ UNCHANGED vars
  PROVE  IInv'
<1>1. UNCHANGED <<nets, clusterOf, netIndex, par_nets, pin1net>>
  BY DEF Done, vars
<1>2. Split' = Split /\ Locations' = Locations /\ PartType' = PartType
  BY <1>1 DEF Split, Locations, PartType
<1>3. \A i : Pins(i)' = Pins(i) /\ Parts(i)' = Parts(i)
  BY <1>1 DEF Pins, Parts
<1>4. TypeOK'
  <2>1. pc' \in {"cut", "split", "done"} /\ (pc' # "cut" => clusterOf \in [Locations -> Areas])
    BY DEF Done, vars, IInv, TypeOK
  <2>2. pc' = "done" => netIndex = Len(nets) + 1
    BY InputType DEF Done, vars, IInv, TypeOK
  <2>3. QED
    BY <1>1, <1>2, <2>1, <2>2 DEF IInv, TypeOK
<1>5. Fresh' /\ PinsKeepTheirArea'
  BY <1>1, <1>2 DEF IInv, Fresh, PinsKeepTheirArea
<1>6. Connected' /\ PartsFormTree'
  BY <1>2, <1>3 DEF IInv, Connected, PartsFormTree
<1>7. SinglePinsLeftOut'
  BY <1>1, <1>2, <1>3 DEF IInv, SinglePinsLeftOut
<1>8. QED
  BY <1>4, <1>5, <1>6, <1>7 DEF IInv
----------------------------------------------------------------------------
(* The state before the cut. *)
Uncut == pc = "cut" => netIndex = 1 /\ par_nets = [a \in Keys |-> {}]

(* Split or still to be split, the nets of the input are accounted for     *)
(* after every round of the loop.                                          *)
THEOREM Invariant == Spec => [](IInv /\ Uncut)
<1>1. Init => IInv /\ Uncut
  BY InitInv DEF Init, Uncut
<1>2. IInv /\ Uncut /\ [Next]_vars => IInv' /\ Uncut'
  <2> SUFFICES ASSUME IInv, Uncut, [Next]_vars
               PROVE  IInv' /\ Uncut'
    OBVIOUS
  <2>1. Uncut'
    BY DEF Uncut, Next, vars, CrossCut, SinglePinNet, OneAreaNet, CrossNet, Splitting, Done,
           Returned
  <2>2. CASE CrossCut
    BY <2>1, <2>2, CrossCutKeepsInv DEF Uncut
  <2>3. CASE SinglePinNet
    BY <2>1, <2>3, SinglePinNetKeepsInv
  <2>4. CASE OneAreaNet
    BY <2>1, <2>4, OneAreaNetKeepsInv
  <2>5. CASE CrossNet
    BY <2>1, <2>5, CrossNetKeepsInv
  <2>6. CASE Done \/ Returned \/ UNCHANGED vars
    BY <2>1, <2>6, QuietKeepsInv DEF Returned
  <2>7. QED
    BY <2>1, <2>2, <2>3, <2>4, <2>5, <2>6 DEF Next
<1>3. QED
  BY <1>1, <1>2, PTL DEF Spec

(* parNets' tables are well typed for every list of nets. *)
THEOREM TypeCorrect == Spec => []TypeOK
<1>1. IInv => TypeOK
  BY DEF IInv
<1>2. QED
  BY <1>1, Invariant, PTL

(* The local nets and the cross net of a net connect all of its pins,      *)
(* wherever the cut goes.                                                  *)
THEOREM PartsConnect == Spec => []Connected
<1>1. IInv => Connected
  BY DEF IInv
<1>2. QED
  BY <1>1, Invariant, PTL

(* No connection is routed twice: the parts of a net route as many as a    *)
(* tree over its pins has.                                                 *)
THEOREM PartsAreTrees == Spec => []PartsFormTree
<1>1. IInv => PartsFormTree
  BY DEF IInv
<1>2. QED
  BY <1>1, Invariant, PTL

(* Local nets stay within their area, and a cross net has one pin of each. *)
THEOREM AreasKept == Spec => []PinsKeepTheirArea
<1>1. IInv => PinsKeepTheirArea
  BY DEF IInv
<1>2. QED
  BY <1>1, Invariant, PTL

(* No router is given a net with a single pin, and only nets that have no  *)
(* other pin are left out.                                                 *)
THEOREM SinglesLeftOut == Spec => []SinglePinsLeftOut
<1>1. IInv => SinglePinsLeftOut
  BY DEF IInv
<1>2. QED
  BY <1>1, Invariant, PTL
=============================================================================
