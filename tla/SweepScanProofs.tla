-------------------------- MODULE SweepScanProofs --------------------------
(***************************************************************************)
(* Proofs about SweepScan, for rows of any length and blocks of any size:  *)
(* the pairs of a round are independent, and whatever the order the        *)
(* threads run in, a sweep finds the shortest ways and a sum is right; and *)
(* about WirePacking, for any wires: the rows of a packing keep its wires  *)
(* apart.                                                                  *)
(***************************************************************************)
EXTENDS WirePacking, FiniteSums, TLAPS

-----------------------------------------------------------------------------
(* Division and remainder.                                                 *)

(* A number is its quotient and its remainder.                             *)
LEMMA Division ==
  ASSUME NEW i \in Int, NEW P \in Nat \ {0}
  PROVE  /\ i \div P \in Int /\ i % P \in 0 .. P - 1
         /\ i >= 0 => i \div P \in Nat
         /\ i = (i \div P) * P + (i % P)
  BY SMT

(* There is one quotient and one remainder.                                *)
LEMMA DivisionUnique ==
  ASSUME NEW P \in Nat \ {0}, NEW q \in Int, NEW r \in 0 .. P - 1,
         NEW i \in Int, i = q * P + r
  PROVE  i % P = r /\ i \div P = q
  BY SMT

(* The entries of the pair k of a round with spans of length P.            *)
Upper(P, k) == (k \div P) * (2 * P) + P + (k % P)
Lower(P, k) == (k \div P) * (2 * P) + P - 1

(* Where the span of length P that holds entry i starts.                   *)
Start(P, i) == i - (i % P)

(* The entry at offset r of a span, in the lower or the upper half of one  *)
(* of twice the length.                                                    *)
LEMMA SpanOffsets ==
  ASSUME NEW P \in Nat \ {0}, NEW q \in Nat, NEW r \in 0 .. P - 1
  PROVE  /\ (q * (2 * P) + r) % P = r
         /\ (q * (2 * P) + r) % (2 * P) = r
         /\ (q * (2 * P) + P + r) % P = r
         /\ (q * (2 * P) + P + r) % (2 * P) = P + r
<1>1. PICK m \in Nat : m = q * (2 * P)
  BY SMT
<1>2. m = (2 * q) * P /\ m + P = (2 * q + 1) * P
  BY <1>1, SMT
<1>3. 2 * P \in Nat \ {0} /\ 2 * q \in Int /\ 2 * q + 1 \in Int
      /\ r \in 0 .. 2 * P - 1 /\ P + r \in 0 .. 2 * P - 1
  OBVIOUS
<1>4. (m + r) % P = r
  <2> DEFINE a == 2 * q
             i == m + r
  <2>1. a \in Int /\ i \in Int /\ i = a * P + r
    BY <1>2, <1>3
  <2> HIDE DEF a, i
  <2>2. i % P = r
    BY <2>1, DivisionUnique
  <2> QED  BY <2>2 DEF i
<1>5. (m + P + r) % P = r
  <2> DEFINE a == 2 * q + 1
             i == m + P + r
  <2>1. a \in Int /\ i \in Int /\ i = a * P + r
    BY <1>2, <1>3
  <2> HIDE DEF a, i
  <2>2. i % P = r
    BY <2>1, DivisionUnique
  <2> QED  BY <2>2 DEF i
<1>6. (m + r) % (2 * P) = r /\ (m + P + r) % (2 * P) = P + r
  <2> DEFINE D == 2 * P
             i == m + r
             j == m + P + r
             u == P + r
  <2>1. /\ D \in Nat \ {0} /\ i \in Int /\ j \in Int /\ r \in 0 .. D - 1 /\ u \in 0 .. D - 1
        /\ i = q * D + r /\ j = q * D + u
    BY <1>1, <1>3
  <2> HIDE DEF D, i, j, u
  <2>2. i % D = r /\ j % D = u
    BY <2>1, DivisionUnique
  <2> QED  BY <2>2 DEF D, i, j, u
<1> QED  BY <1>1, <1>4, <1>5, <1>6

(* Of a pair, the lower entry is the last of the span before the upper     *)
(* one's, and the two spans make one of twice the length.                  *)
LEMMA PairSpans ==
  ASSUME NEW P \in Nat \ {0}, NEW k \in Nat
  PROVE  /\ Upper(P, k) \in Nat /\ Lower(P, k) \in Nat
         /\ Lower(P, k) < Upper(P, k)
         /\ Start(P, Upper(P, k)) = Lower(P, k) + 1
         /\ Start(P, Lower(P, k)) = Start(2 * P, Upper(P, k))
         /\ Start(P, Lower(P, k)) \in 0 .. Lower(P, k)
<1>1. PICK q \in Nat, r \in 0 .. P - 1 : k \div P = q /\ k % P = r
  BY SMT
<1>2. PICK m \in Nat : m = q * (2 * P)
  BY SMT
<1>3. Upper(P, k) = m + P + r /\ Lower(P, k) = m + (P - 1)
  BY <1>1, <1>2 DEF Upper, Lower
<1>4. (m + P + r) % P = r /\ (m + P + r) % (2 * P) = P + r
  BY <1>2, SpanOffsets
<1>5. (m + (P - 1)) % P = P - 1
  BY <1>2, SpanOffsets
<1> QED  BY <1>3, <1>4, <1>5 DEF Start

(* No two pairs have the same upper entry, and no upper entry is a lower.  *)
LEMMA PairsIndependent ==
  ASSUME NEW P \in Nat \ {0}, NEW j \in Nat, NEW k \in Nat
  PROVE  /\ Upper(P, j) = Upper(P, k) => j = k
         /\ Upper(P, j) # Lower(P, k)
<1>1. /\ j \div P \in Nat /\ j % P \in 0 .. P - 1 /\ j = (j \div P) * P + (j % P)
      /\ k \div P \in Nat /\ k % P \in 0 .. P - 1 /\ k = (k \div P) * P + (k % P)
  BY SMT
<1>2. ASSUME NEW a \in Nat, NEW b \in Nat, a < b
      PROVE  a * (2 * P) + 2 * P <= b * (2 * P)
  BY <1>2, SMT
<1>3. /\ (j \div P) * (2 * P) \in Nat
      /\ (k \div P) * (2 * P) \in Nat
  BY <1>1, SMT
<1>4. CASE j \div P = k \div P
  BY <1>1, <1>3, <1>4 DEF Upper, Lower
<1>5. CASE j \div P < k \div P
  BY <1>1, <1>2, <1>3, <1>5 DEF Upper, Lower
<1>6. CASE k \div P < j \div P
  BY <1>1, <1>2, <1>3, <1>6 DEF Upper, Lower
<1> QED  BY <1>1, <1>4, <1>5, <1>6

(* An entry that starts no pair's upper span is in the lower half of a     *)
(* span of twice the length; the others are upper entries, of a pair that  *)
(* is among the first half of the row's length.                            *)
LEMMA PairOrNot ==
  ASSUME NEW P \in Nat \ {0}, NEW n \in Nat, NEW i \in 0 .. n - 1
  PROVE  \/ Start(2 * P, i) = Start(P, i)
         \/ \E k \in 0 .. (n \div 2) - 1 : Upper(P, k) = i
<1>1. PICK q \in Nat, r \in 0 .. 2 * P - 1 : i = q * (2 * P) + r
  <2>1. PICK D \in Nat \ {0} : D = 2 * P
    OBVIOUS
  <2>2. i \div D \in Nat /\ i % D \in 0 .. D - 1 /\ i = (i \div D) * D + (i % D)
    BY SMT
  <2> QED  BY <2>1, <2>2
<1>2. PICK m \in Nat : m = q * (2 * P)
  BY SMT
<1>3. CASE r < P
  <2>1. (m + r) % P = r /\ (m + r) % (2 * P) = r
    BY <1>2, <1>3, SpanOffsets
  <2> QED  BY <1>1, <1>2, <2>1 DEF Start
<1>4. CASE r >= P
  <2>1. PICK k \in Nat : k = q * P + (r - P) /\ r - P \in 0 .. P - 1 /\ 2 * k = m + 2 * (r - P)
    BY <1>2, <1>4, SMT
  <2>2. k \div P = q /\ k % P = r - P
    <3>1. PICK u \in 0 .. P - 1 : u = r - P /\ k = q * P + u /\ q \in Int /\ k \in Int
      BY <2>1
    <3>2. k % P = u /\ k \div P = q
      BY <3>1, DivisionUnique
    <3> QED  BY <3>1, <3>2
  <2>3. Upper(P, k) = i
    <3>1. Upper(P, k) = m + P + (r - P)
      BY <1>2, <2>2 DEF Upper
    <3> QED  BY <1>1, <1>2, <3>1
  <2>4. 2 * k <= i - 1
    BY <1>1, <1>2, <1>4, <2>1
  <2>5. k <= (n \div 2) - 1
    BY <2>1, <2>4, SMT
  <2> QED  BY <2>1, <2>3, <2>5
<1> QED  BY <1>3, <1>4

(* Of BlockSize consecutive pairs a thread has one.                        *)
LEMMA OnePairEach ==
  ASSUME NEW B \in Nat \ {0}, NEW k \in Nat
  PROVE  /\ (k + B) % B = k % B
         /\ \A j \in Nat : j % B = k % B /\ j >= k /\ j < k + B => j = k
         /\ k % B <= k /\ (k < B => k % B = k)
<1>1. PICK q \in Nat, r \in 0 .. B - 1 : k = q * B + r /\ k % B = r /\ q = k \div B
  BY Division
<1>2. (k + B) % B = k % B
  <2>1. PICK i \in Nat, u \in Nat : i = k + B /\ u = q + 1 /\ i = u * B + r
    BY <1>1, SMT
  <2>2. i \in Int /\ u \in Int
    BY <2>1
  <2>3. i % B = r /\ i \div B = u
    BY <2>1, <2>2, DivisionUnique, ZenonT(30)
  <2> QED  BY <2>1, <2>3, <1>1
<1>3. ASSUME NEW j \in Nat, j % B = k % B, j >= k, j < k + B
      PROVE  j = k
  <2>1. PICK u \in Nat : j = u * B + r
    <3>1. j \div B \in Nat /\ j = (j \div B) * B + (j % B)
      BY SMT
    <3> QED  BY <3>1, <1>1, <1>3
  <2>2. q <= u
    BY <1>1, <1>3, <2>1, SMT
  <2>3. u < q + 1
    BY <1>1, <1>3, <2>1, SMT
  <2> QED  BY <1>1, <2>1, <2>2, <2>3
<1>4. k % B <= k /\ (k < B => k % B = k)
  BY SMT
<1> QED  BY <1>2, <1>3, <1>4

-----------------------------------------------------------------------------
(* The state of a block.                                                   *)
TypeOK ==
  /\ kernel \in {"sweep", "sum"} /\ row \in Rows /\ (kernel = "sweep" => row \in WireRows)
  /\ cost \in [Sides -> [Cells(row) -> Int]]
  /\ dist \in [Sides -> [Cells(row) -> Int]]
  /\ prev \in [Sides -> [Cells(row) -> Cells(row)]]
  /\ span \in Nat \ {0}
  /\ cur \in [Threads -> Nat]

(* A thread takes every BlockSize-th pair.                                 *)
OwnPairs == \A t \in Threads : cur[t] % BlockSize = t

(* Threads, and therefore barriers, are of a block of at least one thread  *)
(* unless a sum has a single cell.                                         *)
LEMMA BlockSizeType ==
  ASSUME TypeOK
  PROVE  /\ BlockSize \in Nat /\ Half \in Nat /\ row.length \in Nat \ {0}
         /\ Threads = 0 .. BlockSize - 1
         /\ Half > 0 => BlockSize > 0
         /\ kernel = "sum" /\ Half <= BlockDim => BlockSize = Half
  BY ThreadsAssumption, RowsAssumption DEF TypeOK, BlockSize, Half, Threads

(* Positions of a row, from either end: they only grow.                    *)
LEMMA Positions ==
  ASSUME NEW r \in Rows, NEW s \in Sides
  PROVE  \A i \in Cells(r) : /\ Seen(r, s, i) \in Cells(r)
                              /\ Position(r, s, i) \in Int
                              /\ r.dist[Seen(r, s, i)] \in Int
<1> SUFFICES ASSUME NEW i \in Cells(r)
             PROVE  /\ Seen(r, s, i) \in Cells(r)
                    /\ Position(r, s, i) \in Int
                    /\ r.dist[Seen(r, s, i)] \in Int
  OBVIOUS
<1>1. /\ r.length \in Nat \ {0} /\ r.at \in [0 .. r.length - 1 -> Int]
      /\ r.dist \in [0 .. r.length - 1 -> Int]
  BY RowsAssumption
<1>2. Seen(r, s, i) \in Cells(r)
  BY <1>1 DEF Seen, Cells
<1>3. r.at[i] \in Int /\ r.at[Seen(r, s, i)] \in Int /\ r.dist[Seen(r, s, i)] \in Int
  BY <1>1, <1>2 DEF Cells
<1> QED  BY <1>2, <1>3 DEF Position

(* Pair k of the round has been done.                                      *)
Done(k) == k < cur[k % BlockSize]

(* Entry i has been updated in this round; it stands for its cell and the  *)
(* ones before it down to Low(i).                                          *)
Updated(i) == \E k \in 0 .. Half - 1 : Done(k) /\ Upper(span, k) = i
Low(i) == IF Updated(i) THEN Start(2 * span, i) ELSE Start(span, i)

(* cost[s][i] is the length of the way from the cell before a to cell i.   *)
Base(s, a) ==
  IF a > 0 THEN Position(row, s, a - 1)
  ELSE IF kernel = "sum" THEN 0 ELSE Position(row, s, 0)
CostFrom(s, i, a) == cost[s][i] = Position(row, s, i) - Base(s, a)

(* d is the length of the shortest of the ways to cell i that start in     *)
(* cells a .. i, and p the last of the cells such a way starts in.         *)
Way(r, s, j, i) == r.dist[Seen(r, s, j)] + Position(r, s, i) - Position(r, s, j)
Shortest(r, s, d, p, i, a) ==
  /\ p \in a .. i /\ d = Way(r, s, p, i)
  /\ \A j \in a .. i : d <= Way(r, s, j, i) /\ (d = Way(r, s, j, i) => j <= p)

ScanInv ==
  /\ kernel = "sweep" =>
       \A s \in Sides : \A i \in Cells(row) :
         CostFrom(s, i, Low(i)) /\ Shortest(row, s, dist[s][i], prev[s][i], i, Low(i))
  /\ kernel = "sum" /\ Half <= BlockDim =>
       \A i \in Cells(row) : CostFrom("L", i, Low(i))

Stored ==
  LET Mirror(i) == row.length - 1 - i
      FromRight(i) == dist["L"][i] > dist["R"][Mirror(i)]
  IN
  [dist |-> [i \in Cells(row) |-> IF FromRight(i) THEN dist["R"][Mirror(i)] ELSE dist["L"][i]],
   prev |-> [i \in Cells(row) |->
               IF FromRight(i) THEN Mirror(prev["R"][Mirror(i)]) ELSE prev["L"][i]]]

OutInv == out # <<>> => span >= row.length /\ out = Stored

Inv == TypeOK /\ OwnPairs /\ ScanInv /\ OutInv

(* DstOf the k-th pair is its upper entry, Src its lower one.              *)
LEMMA PairEntries ==
  ASSUME NEW k
  PROVE  Dst(k) = Upper(span, k) /\ Src(k) = Lower(span, k)
  BY DEF Dst, Src, Upper, Lower

(* Doing a pair changes what its upper entry stands for, and nothing else. *)
LEMMA DoPair ==
  ASSUME TypeOK, OwnPairs, NEW t \in Threads, cur[t] < Half,
         cur' = [cur EXCEPT ![t] = cur[t] + BlockSize],
         UNCHANGED <<kernel, row, span>>,
         NEW CONSTANT k, k = cur[t], NEW CONSTANT d, d = Upper(span, k),
         NEW CONSTANT l, l = Lower(span, k)
  PROVE  /\ cur' \in [Threads -> Nat] /\ OwnPairs'
         /\ Low(d) = Start(span, d) /\ Low(l) = Start(span, l)
         /\ Low(d)' = Start(2 * span, d)
         /\ \A i : i # d => Low(i)' = Low(i)
<1> DEFINE B == BlockSize
<1>1. /\ B \in Nat \ {0} /\ k \in Nat /\ k % B = t /\ Half \in Nat /\ span \in Nat \ {0}
      /\ Threads = 0 .. B - 1
  BY BlockSizeType DEF TypeOK, OwnPairs
<1>2. BlockSize' = BlockSize /\ Threads' = Threads /\ Half' = Half
  BY DEF BlockSize, Threads, Half
<1>3. /\ (k + B) % B = t
      /\ \A j \in Nat : j % B = t /\ j >= k /\ j < k + B => j = k
  <2>1. /\ (k + B) % B = k % B
        /\ \A j \in Nat : j % B = k % B /\ j >= k /\ j < k + B => j = k
    <3> HIDE DEF B
    <3> QED  BY <1>1, OnePairEach
  <2> QED  BY <1>1, <2>1
<1>4. cur' \in [Threads -> Nat]
  BY <1>1 DEF TypeOK
<1>5. OwnPairs'
  <2> SUFFICES ASSUME NEW u \in Threads
               PROVE  cur'[u] % B = u
    BY <1>2 DEF OwnPairs
  <2>1. CASE u = t
    BY <1>1, <1>3, <2>1 DEF TypeOK
  <2>2. CASE u # t
    BY <1>1, <2>2 DEF TypeOK, OwnPairs
  <2> QED  BY <2>1, <2>2
<1>6. ASSUME NEW j \in 0 .. Half - 1
      PROVE  Done(j)' <=> Done(j) \/ j = k
  <2>1. j \in Nat /\ j % B \in Threads
    <3>1. PICK N \in Nat \ {0} : N = B
      BY <1>1
    <3>2. j \in Nat /\ j % N \in 0 .. N - 1
      BY <1>1, SMT
    <3> QED  BY <1>1, <3>1, <3>2
  <2>2. CASE j % B = t
    <3>1. cur'[j % B] = k + B /\ cur[j % B] = k
      BY <1>1, <2>1, <2>2 DEF TypeOK
    <3>2. j >= k /\ j < k + B => j = k
      BY <1>3, <2>1, <2>2
    <3>3. j < k + B <=> j < k \/ j = k
      BY <1>1, <2>1, <3>2
    <3> QED  BY <1>2, <3>1, <3>3 DEF Done
  <2>3. CASE j % B # t
    <3>1. cur'[j % B] = cur[j % B]
      BY <1>1, <2>1, <2>3 DEF TypeOK
    <3>2. j # k
      BY <1>1, <2>3
    <3> QED  BY <1>2, <3>1, <3>2 DEF Done
  <2> QED  BY <2>2, <2>3
<1>7. ~Done(k)
  BY <1>1 DEF Done
<1>8. \A j \in Nat : /\ Upper(span, j) = Upper(span, k) => j = k
                     /\ Upper(span, j) # Lower(span, k)
  BY <1>1, PairsIndependent
<1>9. ~Updated(d) /\ ~Updated(l)
  BY <1>1, <1>7, <1>8 DEF Updated
<1>10. k \in 0 .. Half - 1
  BY <1>1
<1>11. Updated(d)'
  BY <1>2, <1>6, <1>10 DEF Updated, Upper
<1>12. \A i : i # d => (Updated(i)' <=> Updated(i))
  BY <1>2, <1>6 DEF Updated, Upper
<1> QED  BY <1>4, <1>5, <1>9, <1>11, <1>12 DEF Low

(* A round that has not begun has updated nothing.                         *)
LEMMA FreshRound ==
  ASSUME TypeOK, cur = [t \in Threads |-> t], NEW i \in Nat
  PROVE  Low(i) = Start(span, i) /\ (span = 1 => Low(i) = i)
<1>1. ASSUME NEW k \in 0 .. Half - 1
      PROVE  ~Done(k)
  <2>1. PICK B \in Nat \ {0} : B = BlockSize /\ Threads = 0 .. B - 1 /\ k \in Nat
    BY BlockSizeType
  <2>2. k % B \in 0 .. B - 1 /\ k % B <= k
    BY <2>1, SMT
  <2> QED  BY <2>1, <2>2 DEF Done
<1>2. i % 1 = 0
  BY SMT
<1> QED  BY <1>1, <1>2 DEF Updated, Low, Start

(* A round that all threads have done has joined every two spans.          *)
LEMMA FullRound ==
  ASSUME TypeOK, AllArrived, NEW i \in Cells(row)
  PROVE  Low(i) = Start(2 * span, i)
<1>1. ASSUME NEW k \in 0 .. Half - 1
      PROVE  Done(k)
  <2>1. PICK B \in Nat \ {0} : B = BlockSize /\ Threads = 0 .. B - 1 /\ k \in Nat /\ Half \in Nat
    BY BlockSizeType
  <2>2. k % B \in 0 .. B - 1
    BY <2>1, SMT
  <2>3. cur[k % B] \in Nat /\ cur[k % B] >= Half
    BY <2>1, <2>2 DEF AllArrived, TypeOK
  <2> QED  BY <2>1, <2>3 DEF Done
<1>2. \/ Start(2 * span, i) = Start(span, i)
      \/ \E k \in 0 .. Half - 1 : Upper(span, k) = i
  BY PairOrNot, BlockSizeType DEF TypeOK, Cells, Half
<1> QED  BY <1>1, <1>2 DEF Updated, Low

(* The two spans of a pair joined: the costs add up.                       *)
LEMMA JoinCosts ==
  ASSUME TypeOK, NEW s \in Sides, NEW k \in Nat, Dst(k) \in Cells(row),
         CostFrom(s, Dst(k), Start(span, Dst(k))),
         CostFrom(s, Src(k), Start(span, Src(k)))
  PROVE  /\ cost[s][Dst(k)] = Position(row, s, Dst(k)) - Position(row, s, Src(k))
         /\ Src(k) \in Cells(row)
         /\ cost[s][Dst(k)] + cost[s][Src(k)]
              = Position(row, s, Dst(k)) - Base(s, Start(2 * span, Dst(k)))
<1>1. /\ Src(k) \in Nat /\ Src(k) < Dst(k)
      /\ Start(span, Dst(k)) = Src(k) + 1
      /\ Start(span, Src(k)) = Start(2 * span, Dst(k))
      /\ Start(span, Src(k)) \in 0 .. Src(k)
  BY PairEntries, PairSpans DEF TypeOK
<1>2. Src(k) \in Cells(row)
  BY <1>1, RowsAssumption DEF Cells, TypeOK
<1>3. Base(s, Start(span, Dst(k))) = Position(row, s, Src(k))
  BY <1>1 DEF Base
<1>4. 0 \in Cells(row) /\ (Start(span, Src(k)) > 0 => Start(span, Src(k)) - 1 \in Cells(row))
  BY <1>1, <1>2, RowsAssumption, SMTT(30) DEF Cells, TypeOK
<1>5. Base(s, Start(2 * span, Dst(k))) \in Int
  BY <1>1, <1>4, Positions DEF Base, TypeOK
<1>6. Position(row, s, Dst(k)) \in Int /\ Position(row, s, Src(k)) \in Int
  BY <1>2, Positions DEF TypeOK
<1> QED  BY <1>1, <1>2, <1>3, <1>5, <1>6 DEF CostFrom

(* The two spans of a pair joined: the way through the lower entry is      *)
(* taken if it is shorter.                                                 *)
LEMMA Relax ==
  ASSUME NEW r \in Rows, NEW s \in Sides, NEW d \in Cells(r), NEW l \in Cells(r), l < d,
         NEW a \in 0 .. l, NEW c, c = Position(r, s, d) - Position(r, s, l),
         NEW x \in Int, NEW p, Shortest(r, s, x, p, l, a),
         NEW y \in Int, NEW q, Shortest(r, s, y, q, d, l + 1)
  PROVE  IF y > x + c THEN Shortest(r, s, x + c, p, d, a) ELSE Shortest(r, s, y, q, d, a)
<1>1. \A j \in a .. d : j \in Cells(r)
  BY RowsAssumption DEF Cells
<1>2. c \in Int /\ \A j \in a .. d : Way(r, s, j, d) \in Int
  BY <1>1, Positions DEF Way
<1>3. \A j \in a .. l : Way(r, s, j, l) \in Int /\ Way(r, s, j, d) = Way(r, s, j, l) + c
  BY <1>1, Positions DEF Way, Cells
<1>4. \A j \in a .. d : j \in a .. l \/ j \in l + 1 .. d
  BY DEF Cells
<1>5. \A j \in a .. l : x + c <= Way(r, s, j, d) /\ (x + c = Way(r, s, j, d) => j <= p)
  BY <1>2, <1>3 DEF Shortest
<1>6. \A j \in l + 1 .. d : y <= Way(r, s, j, d) /\ (y = Way(r, s, j, d) => j <= q)
  BY DEF Shortest
<1>7. p \in a .. l /\ x + c = Way(r, s, p, d) /\ p \in a .. d
  BY <1>3 DEF Shortest, Cells
<1>8. q \in l + 1 .. d /\ y = Way(r, s, q, d) /\ q \in a .. d
  BY DEF Shortest, Cells
<1>9. CASE y > x + c
  <2>1. \A j \in l + 1 .. d : x + c < Way(r, s, j, d)
    BY <1>2, <1>6, <1>9, <1>4 DEF Cells
  <2>2. \A j \in a .. d : x + c <= Way(r, s, j, d) /\ (x + c = Way(r, s, j, d) => j <= p)
    BY <1>2, <1>4, <1>5, <2>1
  <2> QED  BY <1>7, <1>9, <2>2 DEF Shortest
<1>10. CASE ~(y > x + c)
  <2>1. \A j \in a .. l : y <= Way(r, s, j, d) /\ j <= q
    BY <1>2, <1>5, <1>8, <1>10, <1>1, <1>4 DEF Cells
  <2>2. \A j \in a .. d : y <= Way(r, s, j, d) /\ (y = Way(r, s, j, d) => j <= q)
    BY <1>4, <1>6, <2>1
  <2> QED  BY <1>8, <1>10, <2>2 DEF Shortest
<1> QED  BY <1>9, <1>10

-----------------------------------------------------------------------------
(* At the start every cell stands for itself.                              *)
LEMMA InitInv == Init => Inv
<1> SUFFICES ASSUME Init
             PROVE  Inv
  OBVIOUS
<1>1. row \in Rows /\ kernel \in {"sweep", "sum"} /\ span = 1
      /\ (kernel = "sweep" => row \in WireRows)
      /\ row.length \in Nat \ {0} /\ row.at \in [0 .. row.length - 1 -> Int]
  BY RowsAssumption DEF Init, Rows
<1>2. \A s \in Sides : \A i \in Cells(row) :
        /\ Seen(row, s, i) \in Cells(row) /\ Position(row, s, i) \in Int
        /\ row.dist[Seen(row, s, i)] \in Int
  BY <1>1, Positions
<1>3. cost \in [Sides -> [Cells(row) -> Int]]
  <2>1. \A i \in Cells(row) : i > 0 => i - 1 \in Cells(row)
    BY <1>1 DEF Cells
  <2>2. row.at[0] \in Int
    BY <1>1
  <2>3. \A s \in Sides : \A i \in Cells(row) :
          (IF i > 0 THEN Position(row, s, i) - Position(row, s, i - 1)
           ELSE IF kernel = "sum" THEN row.at[0] ELSE 0) \in Int
    BY <1>2, <2>1, <2>2
  <2> QED  BY <2>3 DEF Init
<1>4. dist \in [Sides -> [Cells(row) -> Int]] /\ prev \in [Sides -> [Cells(row) -> Cells(row)]]
  BY <1>2 DEF Init
<1>5. cur \in [Threads -> Nat]
  BY DEF Init, Threads
<1>6. TypeOK
  BY <1>1, <1>3, <1>4, <1>5 DEF TypeOK
<1>7. OwnPairs
  <2> SUFFICES ASSUME NEW t \in Threads
               PROVE  t % BlockSize = t
    BY DEF OwnPairs, Init
  <2>1. PICK B \in Nat \ {0} : B = BlockSize /\ t \in Nat /\ t < B
    BY <1>6, BlockSizeType
  <2>2. t % B = t
    BY <2>1, SMT
  <2> QED  BY <2>1, <2>2
<1>8. \A i \in Cells(row) : Low(i) = i
  BY <1>1, <1>6, FreshRound DEF Init, Cells
<1>9. \A s \in Sides : \A i \in Cells(row) :
        (kernel = "sweep" \/ s = "L") => CostFrom(s, i, i)
  <2> SUFFICES ASSUME NEW s \in Sides, NEW i \in Cells(row), kernel = "sweep" \/ s = "L"
               PROVE  CostFrom(s, i, i)
    OBVIOUS
  <2>1. CASE i > 0
    BY <1>2, <2>1 DEF CostFrom, Base, Init
  <2>2. CASE ~(i > 0)
    <3>1. i = 0
      BY <1>1, <2>2 DEF Cells
    <3> QED  BY <1>1, <1>2, <3>1 DEF CostFrom, Base, Init, Position
  <2> QED  BY <2>1, <2>2
<1>10. \A s \in Sides : \A i \in Cells(row) : Shortest(row, s, dist[s][i], prev[s][i], i, i)
  <2> SUFFICES ASSUME NEW s \in Sides, NEW i \in Cells(row)
               PROVE  Shortest(row, s, dist[s][i], prev[s][i], i, i)
    OBVIOUS
  <2>1. prev[s][i] = i /\ dist[s][i] = row.dist[Seen(row, s, i)]
    BY DEF Init
  <2>2. Way(row, s, i, i) = row.dist[Seen(row, s, i)]
    BY <1>2 DEF Way
  <2>3. i .. i = {i} /\ row.dist[Seen(row, s, i)] \in Int
    BY <1>1, <1>2 DEF Cells
  <2> QED  BY <2>1, <2>2, <2>3 DEF Shortest, Cells
<1>11. ScanInv
  BY <1>8, <1>9, <1>10 DEF ScanInv, Sides
<1>12. OutInv
  BY DEF OutInv, Init
<1> QED  BY <1>6, <1>7, <1>11, <1>12 DEF Inv

(* A pair of a sweep, done by any thread at any time, joins its spans.     *)
LEMMA SweepStepInv ==
  ASSUME Inv, NEW t \in Threads, SweepStep(t)
  PROVE  Inv'
<1>1. PICK k, d, l : k = cur[t] /\ d = Upper(span, k) /\ l = Lower(span, k)
  OBVIOUS
<1>2. /\ k \in Nat /\ k \in 0 .. Half - 1 /\ TypeOK /\ OwnPairs /\ ScanInv /\ OutInv
      /\ cur[t] < Half /\ cur' = [cur EXCEPT ![t] = cur[t] + BlockSize]
      /\ kernel = "sweep" /\ out = <<>>
      /\ kernel' = kernel /\ row' = row /\ span' = span /\ out' = out
      /\ Dst(cur[t]) = d /\ Src(cur[t]) = l
  <2>1. TypeOK /\ OwnPairs /\ ScanInv /\ OutInv
    BY DEF Inv
  <2>2. /\ cur[t] < Half /\ cur' = [cur EXCEPT ![t] = cur[t] + BlockSize]
        /\ kernel = "sweep" /\ span < row.length
        /\ kernel' = kernel /\ row' = row /\ span' = span /\ out' = out
    BY DEF SweepStep
  <2>3. cur[t] \in Nat /\ Half \in Nat /\ row.length \in Nat /\ span \in Nat
    BY <2>1, BlockSizeType DEF TypeOK
  <2>4. out = <<>>
    BY <2>1, <2>2, <2>3 DEF OutInv
  <2>5. Dst(cur[t]) = d /\ Src(cur[t]) = l
    BY <1>1, PairEntries
  <2> QED  BY <1>1, <2>1, <2>2, <2>3, <2>4, <2>5
<1>3. /\ cur' \in [Threads -> Nat] /\ OwnPairs'
      /\ Low(d) = Start(span, d) /\ Low(l) = Start(span, l)
      /\ Low(d)' = Start(2 * span, d)
      /\ \A i : i # d => Low(i)' = Low(i)
  BY <1>1, <1>2, DoPair
<1>4. BlockSize' = BlockSize /\ Threads' = Threads /\ Half' = Half
  BY <1>2 DEF BlockSize, Threads, Half
<1>5. OutInv'
  BY <1>2 DEF OutInv
<1>6. CASE ~(d < row.length)
  <2>1. UNCHANGED <<dist, prev, cost>>
    BY <1>2, <1>6 DEF SweepStep
  <2>2. \A i \in Cells(row) : i # d
    BY <1>2, <1>6, RowsAssumption DEF Cells, TypeOK
  <2>3. TypeOK'
    BY <1>2, <1>3, <1>4, <2>1 DEF TypeOK
  <2>4. ScanInv'
    BY <1>2, <1>3, <1>4, <2>1, <2>2 DEF ScanInv, CostFrom, Base
  <2> QED  BY <1>3, <1>5, <2>3, <2>4 DEF Inv
<1>7. CASE d < row.length
  <2>1. /\ d \in Cells(row) /\ l \in Nat /\ l < d /\ Start(span, d) = l + 1
        /\ Start(span, l) = Start(2 * span, d) /\ Start(span, l) \in 0 .. l
    <3>1. /\ d \in Nat /\ l \in Nat /\ l < d /\ Start(span, d) = l + 1
          /\ Start(span, l) = Start(2 * span, d) /\ Start(span, l) \in 0 .. l
      BY <1>1, <1>2, PairSpans DEF TypeOK
    <3> QED  BY <1>2, <1>7, <3>1, RowsAssumption DEF Cells, TypeOK
  <2>2. l \in Cells(row)
    BY <1>2, <2>1, RowsAssumption DEF Cells, TypeOK
  <2>3. \A s \in Sides : /\ CostFrom(s, d, Start(span, d)) /\ CostFrom(s, l, Start(span, l))
                         /\ Shortest(row, s, dist[s][d], prev[s][d], d, l + 1)
                         /\ Shortest(row, s, dist[s][l], prev[s][l], l, Start(span, l))
    BY <1>2, <1>3, <2>1, <2>2 DEF ScanInv
  <2>4. \A s \in Sides : /\ cost[s][d] = Position(row, s, d) - Position(row, s, l)
                         /\ cost[s][d] + cost[s][l] = Position(row, s, d) - Base(s, Start(2 * span, d))
    BY <1>1, <1>2, <2>1, <2>3, JoinCosts
  <2>5. /\ dist' = [s \in Sides |-> IF dist[s][d] > dist[s][l] + cost[s][d]
                     THEN [dist[s] EXCEPT ![d] = dist[s][l] + cost[s][d]] ELSE dist[s]]
        /\ prev' = [s \in Sides |-> IF dist[s][d] > dist[s][l] + cost[s][d]
                     THEN [prev[s] EXCEPT ![d] = prev[s][l]] ELSE prev[s]]
        /\ cost' = [s \in Sides |-> [cost[s] EXCEPT ![d] = cost[s][d] + cost[s][l]]]
    BY <1>2, <1>7 DEF SweepStep, Closer
  <2>6. \A s \in Sides : /\ dist[s][d] \in Int /\ dist[s][l] \in Int /\ cost[s][d] \in Int
                         /\ cost[s][l] \in Int /\ prev[s][l] \in Cells(row)
                         /\ dist[s] \in [Cells(row) -> Int] /\ cost[s] \in [Cells(row) -> Int]
                         /\ prev[s] \in [Cells(row) -> Cells(row)]
    BY <1>2, <2>1, <2>2 DEF TypeOK
  <2>7. TypeOK'
    <3>1. dist' \in [Sides -> [Cells(row) -> Int]]
      BY <2>1, <2>5, <2>6
    <3>2. cost' \in [Sides -> [Cells(row) -> Int]]
      BY <2>1, <2>5, <2>6
    <3>3. prev' \in [Sides -> [Cells(row) -> Cells(row)]]
      BY <2>1, <2>5, <2>6
    <3> QED  BY <1>2, <1>3, <1>4, <3>1, <3>2, <3>3 DEF TypeOK
  <2>8. ASSUME NEW s \in Sides, NEW i \in Cells(row), i # d
        PROVE  cost'[s][i] = cost[s][i] /\ dist'[s][i] = dist[s][i] /\ prev'[s][i] = prev[s][i]
    BY <2>5, <2>6, <2>8
  <2>9. ASSUME NEW s \in Sides
        PROVE  /\ cost'[s][d] = Position(row, s, d) - Base(s, Start(2 * span, d))
               /\ Shortest(row, s, dist'[s][d], prev'[s][d], d, Start(2 * span, d))
    <3>1. cost'[s][d] = cost[s][d] + cost[s][l]
      BY <2>1, <2>5, <2>6
    <3>2. IF dist[s][d] > dist[s][l] + cost[s][d]
          THEN dist'[s][d] = dist[s][l] + cost[s][d] /\ prev'[s][d] = prev[s][l]
          ELSE dist'[s][d] = dist[s][d] /\ prev'[s][d] = prev[s][d]
      BY <2>1, <2>5, <2>6
    <3>3. PICK c, x, p, y, q, a :
             /\ c = cost[s][d] /\ x = dist[s][l] /\ p = prev[s][l]
             /\ y = dist[s][d] /\ q = prev[s][d] /\ a = Start(span, l)
      OBVIOUS
    <3>4. IF y > x + c THEN Shortest(row, s, x + c, p, d, a) ELSE Shortest(row, s, y, q, d, a)
      <4>1. /\ row \in Rows /\ d \in Cells(row) /\ l \in Cells(row) /\ l < d /\ a \in 0 .. l
            /\ c = Position(row, s, d) - Position(row, s, l)
            /\ x \in Int /\ y \in Int
            /\ Shortest(row, s, x, p, l, a) /\ Shortest(row, s, y, q, d, l + 1)
        BY <1>2, <2>1, <2>2, <2>3, <2>4, <2>6, <3>3 DEF TypeOK
      <4> QED  BY <4>1, Relax
    <3> QED  BY <2>1, <2>4, <3>1, <3>2, <3>3, <3>4
  <2>10. \A s \in Sides, i \in Cells(row) :
           CostFrom(s, i, Low(i))' /\ Shortest(row, s, dist'[s][i], prev'[s][i], i, Low(i)')
    <3> SUFFICES ASSUME NEW s \in Sides, NEW i \in Cells(row)
                 PROVE  CostFrom(s, i, Low(i))'
                        /\ Shortest(row, s, dist'[s][i], prev'[s][i], i, Low(i)')
      OBVIOUS
    <3>1. CASE i = d
      BY <1>2, <1>3, <2>9, <3>1 DEF CostFrom, Base
    <3>2. CASE i # d
      <4>1. CostFrom(s, i, Low(i)) /\ Shortest(row, s, dist[s][i], prev[s][i], i, Low(i))
        BY <1>2 DEF ScanInv
      <4> QED  BY <1>2, <1>3, <2>8, <3>2, <4>1 DEF CostFrom, Base
    <3> QED  BY <3>1, <3>2
  <2>11. ScanInv'
    BY <1>2, <2>10 DEF ScanInv
  <2> QED  BY <1>3, <1>5, <2>7, <2>11 DEF Inv
<1> QED  BY <1>6, <1>7

(* A pair of a sum.  The entry is chosen by the number of the thread, which *)
(* is its pair in the first pass of a round and the only one if half of the *)
(* row is no longer than a block.                                          *)
LEMMA SumStepInv ==
  ASSUME Inv, NEW t \in Threads, SumStep(t)
  PROVE  Inv'
<1>1. PICK k, d, l : k = cur[t] /\ d = Upper(span, k) /\ l = Lower(span, k)
  OBVIOUS
<1>2. /\ k \in Nat /\ k \in 0 .. Half - 1 /\ TypeOK /\ OwnPairs /\ ScanInv /\ OutInv
      /\ cur[t] < Half /\ cur' = [cur EXCEPT ![t] = cur[t] + BlockSize]
      /\ kernel = "sum" /\ out = <<>>
      /\ kernel' = kernel /\ row' = row /\ span' = span /\ out' = out
      /\ dist' = dist /\ prev' = prev
  BY <1>1, BlockSizeType DEF Inv, SumStep, OutInv, TypeOK
<1>3. /\ cur' \in [Threads -> Nat] /\ OwnPairs'
      /\ Low(d) = Start(span, d) /\ Low(l) = Start(span, l)
      /\ Low(d)' = Start(2 * span, d)
      /\ \A i : i # d => Low(i)' = Low(i)
  BY <1>1, <1>2, DoPair
<1>4. BlockSize' = BlockSize /\ Threads' = Threads /\ Half' = Half
  BY <1>2 DEF BlockSize, Threads, Half
<1>5. OutInv'
  BY <1>2 DEF OutInv
<1>6. t \in Nat
  BY <1>2, BlockSizeType
<1>7. cost' \in [Sides -> [Cells(row) -> Int]]
  <2>1. CASE ~(Dst(t) < row.length)
    BY <1>2, <2>1 DEF SumStep, TypeOK
  <2>2. CASE Dst(t) < row.length
    <3>1. Dst(t) \in Nat /\ Src(t) \in Nat /\ Src(t) < Dst(t)
      BY <1>2, <1>6, PairEntries, PairSpans DEF TypeOK
    <3>2. Dst(t) \in Cells(row) /\ Src(t) \in Cells(row)
      BY <1>2, <2>2, <3>1, RowsAssumption DEF Cells, TypeOK
    <3>3. cost["L"][Dst(t)] + cost["L"][Src(t)] \in Int
      BY <1>2, <3>2 DEF TypeOK, Sides
    <3> QED  BY <1>2, <2>2, <3>2, <3>3 DEF SumStep, TypeOK, Sides
  <2> QED  BY <2>1, <2>2
<1>8. TypeOK'
  BY <1>2, <1>3, <1>4, <1>7 DEF TypeOK
<1>9. ScanInv'
  <2> SUFFICES ASSUME Half <= BlockDim, NEW i \in Cells(row)
               PROVE  CostFrom("L", i, Low(i))'
    BY <1>2, <1>4 DEF ScanInv
  <2>1. t = k
    <3>1. PICK B \in Nat \ {0} : B = BlockSize /\ k < B /\ k % B = t
      BY <1>1, <1>2, BlockSizeType DEF OwnPairs
    <3>2. k % B = k
      BY <1>2, <3>1, SMT
    <3> QED  BY <3>1, <3>2
  <2>2. Dst(t) = d /\ Src(t) = l
    BY <1>1, <2>1, PairEntries
  <2>3. \A j \in Cells(row) : CostFrom("L", j, Low(j))
    BY <1>2 DEF ScanInv
  <2>4. CASE i # d
    <3>1. cost'["L"][i] = cost["L"][i]
      BY <1>2, <2>2, <2>4 DEF SumStep, TypeOK, Sides
    <3> QED  BY <1>2, <1>3, <2>3, <2>4, <3>1 DEF CostFrom, Base
  <2>5. CASE i = d
    <3>1. /\ l \in Nat /\ l < d /\ Start(span, d) = l + 1
          /\ Start(span, l) = Start(2 * span, d)
      BY <1>1, <1>2, PairSpans DEF TypeOK
    <3>2. d \in Cells(row) /\ l \in Cells(row) /\ d < row.length
      BY <1>2, <2>5, <3>1, RowsAssumption DEF Cells, TypeOK
    <3>3. CostFrom("L", d, Start(span, d)) /\ CostFrom("L", l, Start(span, l))
      BY <1>3, <2>3, <3>2
    <3>4. cost["L"][d] + cost["L"][l] = Position(row, "L", d) - Base("L", Start(2 * span, d))
      BY <1>2, <2>2, <1>6, <3>2, <3>3, JoinCosts DEF Sides
    <3>5. cost'["L"][d] = cost["L"][d] + cost["L"][l]
      BY <1>2, <2>2, <3>2 DEF SumStep, TypeOK, Sides
    <3> QED  BY <1>2, <1>3, <2>5, <3>4, <3>5 DEF CostFrom, Base
  <2> QED  BY <2>4, <2>5
<1> QED  BY <1>3, <1>5, <1>8, <1>9 DEF Inv

(* The barrier: all spans have been joined, and the next round begins.     *)
LEMMA SyncInv ==
  ASSUME Inv, Sync
  PROVE  Inv'
<1>1. /\ TypeOK /\ ScanInv /\ OutInv /\ AllArrived
      /\ span' = 2 * span /\ cur' = [t \in Threads |-> t]
      /\ UNCHANGED <<kernel, row, cost, dist, prev, out>>
      /\ out = <<>>
  <2>1. TypeOK /\ ScanInv /\ OutInv
    BY DEF Inv
  <2>2. span < row.length /\ row.length \in Nat /\ span \in Nat
    BY <2>1, BlockSizeType DEF Sync, TypeOK
  <2> QED  BY <2>1, <2>2 DEF Sync, OutInv
<1>2. BlockSize' = BlockSize /\ Threads' = Threads /\ Half' = Half
  BY <1>1 DEF BlockSize, Threads, Half
<1>3. TypeOK'
  <2>1. cur' \in [Threads -> Nat]
    BY <1>1 DEF Threads
  <2> QED  BY <1>1, <1>2, <2>1 DEF TypeOK
<1>4. OwnPairs'
  <2> SUFFICES ASSUME NEW t \in Threads
               PROVE  t % BlockSize = t
    BY <1>1, <1>2 DEF OwnPairs
  <2>1. PICK B \in Nat \ {0} : B = BlockSize /\ t \in Nat /\ t < B
    BY <1>1, BlockSizeType
  <2>2. t % B = t
    BY <2>1, SMT
  <2> QED  BY <2>1, <2>2
<1>5. ASSUME NEW i \in Cells(row)
      PROVE  Low(i)' = Low(i)
  <2>1. Low(i) = Start(2 * span, i)
    BY <1>1, FullRound
  <2>2. i \in Nat
    BY <1>1, RowsAssumption DEF Cells, TypeOK
  <2>3. ASSUME NEW k \in 0 .. Half - 1
        PROVE  ~(k < cur'[k % BlockSize])
    <3>1. PICK B \in Nat \ {0} : B = BlockSize /\ Threads = 0 .. B - 1 /\ k \in Nat
      BY <1>1, BlockSizeType
    <3>2. k % B \in 0 .. B - 1 /\ k % B <= k
      BY <3>1, SMT
    <3> QED  BY <1>1, <3>1, <3>2
  <2>4. Low(i)' = Start(2 * span, i)
    BY <1>1, <1>2, <2>3 DEF Low, Updated, Done, Start
  <2> QED  BY <2>1, <2>4
<1>6. ScanInv'
  BY <1>1, <1>2, <1>5 DEF ScanInv, CostFrom, Base
<1>7. OutInv'
  BY <1>1 DEF OutInv
<1> QED  BY <1>3, <1>4, <1>6, <1>7 DEF Inv

(* Storing the rows is the last step.                                      *)
LEMMA StoreInv ==
  ASSUME Inv, Store
  PROVE  Inv'
<1>1. /\ TypeOK /\ OwnPairs /\ ScanInv /\ span >= row.length
      /\ UNCHANGED <<kernel, row, cost, dist, prev, span, cur>>
  BY DEF Inv, Store
<1>2. BlockSize' = BlockSize /\ Threads' = Threads /\ Half' = Half
  BY <1>1 DEF BlockSize, Threads, Half
<1>3. TypeOK' /\ OwnPairs'
  BY <1>1, <1>2 DEF TypeOK, OwnPairs
<1>4. \A i : Low(i)' = Low(i)
  BY <1>1, <1>2 DEF Low, Updated, Done
<1>5. ScanInv'
  BY <1>1, <1>2, <1>4 DEF ScanInv, CostFrom, Base
<1>6. Stored' = Stored
  BY <1>1 DEF Stored
<1>7. OutInv'
  BY <1>1, <1>6 DEF OutInv, Store, Stored
<1> QED  BY <1>3, <1>5, <1>7 DEF Inv

(* A step that changes nothing keeps the invariant. *)
LEMMA StutterInv ==
  ASSUME Inv, UNCHANGED vars
  PROVE  Inv'
<1>1. BlockSize' = BlockSize /\ Threads' = Threads /\ Half' = Half
  BY DEF vars, BlockSize, Threads, Half
<1>2. TypeOK' /\ OwnPairs'
  BY <1>1 DEF Inv, TypeOK, OwnPairs, vars
<1>3. \A i : Low(i)' = Low(i)
  BY <1>1 DEF Low, Updated, Done, vars
<1>4. ScanInv'
  BY <1>1, <1>3 DEF Inv, ScanInv, CostFrom, Base, vars
<1>5. Stored' = Stored
  BY DEF Stored, vars
<1>6. OutInv'
  BY <1>5 DEF Inv, OutInv, vars
<1> QED  BY <1>2, <1>4, <1>6 DEF Inv

(* What holds in every state of a block: its entries have their types, a   *)
(* thread has done the pairs it should have, and every entry stands for    *)
(* the cells of its span: the cost to cross them and the shortest way that *)
(* starts in one of them.                                                  *)
THEOREM Invariant == Spec => []Inv
<1>1. Inv /\ [Next]_vars => Inv'
  BY SweepStepInv, SumStepInv, SyncInv, StoreInv, StutterInv DEF Next, Finished
<1> QED  BY <1>1, InitInv, PTL DEF Spec

-----------------------------------------------------------------------------
(* In a round no two threads write one entry, and none writes an entry     *)
(* another one reads: a round has the same outcome in every order.         *)
THEOREM RoundsRaceFree == Spec => []RaceFree
<1>1. Inv => RaceFree
  <2> SUFFICES ASSUME Inv, NEW j \in 0 .. Half - 1, NEW k \in 0 .. Half - 1
               PROVE  (j # k => Dst(j) # Dst(k)) /\ Dst(j) # Src(k)
    BY DEF RaceFree
  <2>1. j \in Nat /\ k \in Nat /\ span \in Nat \ {0}
    BY BlockSizeType DEF Inv, TypeOK
  <2>2. (Upper(span, j) = Upper(span, k) => j = k) /\ Upper(span, j) # Lower(span, k)
    BY <2>1, PairsIndependent
  <2> QED  BY <2>2, PairEntries
<1> QED  BY <1>1, Invariant, PTL

(* When the span has reached the length, all cells stand for the row.      *)
LEMMA WholeRow ==
  ASSUME TypeOK, span >= row.length, NEW i \in Cells(row)
  PROVE  Low(i) = 0
<1>1. i \in Nat /\ i < span /\ span \in Nat \ {0}
  BY RowsAssumption DEF Cells, TypeOK
<1>2. i % span = i
  BY <1>1, SMT
<1>3. PICK D \in Nat \ {0} : D = 2 * span /\ i < D
  BY <1>1
<1>4. i % D = i
  BY <1>1, <1>3, SMT
<1> QED  BY <1>1, <1>2, <1>3, <1>4 DEF Low, Start

(* The sums of a row of at most 2 * BlockDim + 1 cells are its positions.  *)
THEOREM SumsAreExact == Spec => []SumsExact
<1>1. Inv => SumsExact
  <2> SUFFICES ASSUME Inv, kernel = "sum", out # <<>>, Half <= BlockDim
               PROVE  cost["L"] = row.at
    BY DEF SumsExact
  <2>1. TypeOK /\ span >= row.length /\ "L" \in Sides
    BY DEF Inv, OutInv, Sides
  <2>2. row.at \in [Cells(row) -> Int] /\ cost["L"] \in [Cells(row) -> Int]
    BY <2>1, RowsAssumption DEF TypeOK, Cells
  <2>3. ASSUME NEW i \in Cells(row)
        PROVE  cost["L"][i] = row.at[i]
    <3>1. CostFrom("L", i, 0)
      BY <2>1, WholeRow DEF Inv, ScanInv
    <3> QED  BY <2>2, <3>1 DEF CostFrom, Base, Position
  <2> QED  BY <2>2, <2>3
<1> QED  BY <1>1, Invariant, PTL

(* From the left the ways to a cell are those from the cells before it,    *)
(* from the right those from the cells behind it.                          *)
LEMMA WaysAreThrough ==
  ASSUME TypeOK, NEW i \in Cells(row), NEW j \in Cells(row), NEW m, m = row.length - 1 - i
  PROVE  /\ j <= i => Way(row, "L", j, i) = Through(j, i)
         /\ j >= i => Way(row, "R", row.length - 1 - j, m) = Through(j, i)
<1>1. /\ row.length \in Nat /\ row.at[i] \in Int /\ row.at[j] \in Int /\ row.dist[j] \in Int
      /\ j <= i => row.at[j] <= row.at[i]
      /\ j >= i => row.at[j] >= row.at[i]
  BY RowsAssumption DEF TypeOK, Cells
<1>2. i \in Int /\ j \in Int
  BY <1>1 DEF Cells
<1>3. row.length - 1 - m = i /\ row.length - 1 - (row.length - 1 - j) = j
  BY <1>1, <1>2
<1>4. /\ Way(row, "L", j, i) = row.dist[j] + row.at[i] - row.at[j]
      /\ Way(row, "R", row.length - 1 - j, m) = row.dist[j] + -row.at[i] - (-row.at[j])
  BY <1>3 DEF Way, Seen, Position
<1> QED  BY <1>1, <1>4 DEF Through, Distance

(* However the threads of a sweep are scheduled, every cell gets the       *)
(* length of the shortest path along the row and the cell it starts in.    *)
THEOREM SweepsAreShortest == Spec => []SweepIsShortest
<1>1. Inv => SweepIsShortest
  <2> SUFFICES ASSUME Inv, kernel = "sweep", out # <<>>, NEW i \in Cells(row)
               PROVE  /\ out.prev[i] \in Cells(row)
                      /\ Through(out.prev[i], i) = out.dist[i]
                      /\ \A j \in Cells(row) :
                           /\ out.dist[i] <= Through(j, i)
                           /\ Through(j, i) = out.dist[i] =>
                                IF out.prev[i] <= i THEN j <= out.prev[i] \/ j > i
                                ELSE j >= out.prev[i]
    BY DEF SweepIsShortest
  <2>1. PICK n, m, dl, dr, pl, pr :
          /\ n = row.length /\ m = n - 1 - i
          /\ dl = dist["L"][i] /\ pl = prev["L"][i]
          /\ dr = dist["R"][m] /\ pr = prev["R"][m]
    OBVIOUS
  <2>2. TypeOK /\ ScanInv /\ span >= row.length /\ out = Stored /\ "L" \in Sides /\ "R" \in Sides
    BY DEF Inv, OutInv, Sides
  <2>3. n \in Nat \ {0} /\ i \in 0 .. n - 1 /\ m \in Cells(row) /\ Cells(row) = 0 .. n - 1
    BY <2>1, <2>2, RowsAssumption DEF TypeOK, Cells
  <2>4. /\ out.dist[i] = IF dl > dr THEN dr ELSE dl
        /\ out.prev[i] = IF dl > dr THEN n - 1 - pr ELSE pl
    BY <2>1, <2>2 DEF Stored
  <2>5. Shortest(row, "L", dl, pl, i, 0) /\ Shortest(row, "R", dr, pr, m, 0)
    BY <2>1, <2>2, <2>3, WholeRow DEF ScanInv
  <2>6. dl \in Int /\ dr \in Int /\ pl \in 0 .. i /\ pr \in 0 .. m
    <3>1. dl \in Int /\ dr \in Int
      BY <2>1, <2>2, <2>3 DEF TypeOK
    <3>2. pl \in 0 .. i /\ pr \in 0 .. m
      BY <2>5 DEF Shortest
    <3> QED  BY <3>1, <3>2
  <2>7. ASSUME NEW j \in Cells(row), j <= i
        PROVE  dl <= Through(j, i) /\ (dl = Through(j, i) => j <= pl)
    BY <2>2, <2>3, <2>5, <2>7, WaysAreThrough DEF Shortest
  <2>8. ASSUME NEW j \in Cells(row), j >= i
        PROVE  dr <= Through(j, i) /\ (dr = Through(j, i) => n - 1 - j <= pr)
    <3>1. n - 1 - j \in 0 .. m
      BY <2>1, <2>3, <2>8
    <3>2. Way(row, "R", n - 1 - j, m) = Through(j, i)
      BY <2>1, <2>2, <2>8, WaysAreThrough
    <3> QED  BY <2>5, <3>1, <3>2 DEF Shortest
  <2>9. pl \in Cells(row) /\ Through(pl, i) = dl
    <3>1. pl \in Cells(row) /\ pl <= i
      BY <2>3, <2>6
    <3> QED  BY <2>2, <2>5, <3>1, WaysAreThrough DEF Shortest
  <2>10. n - 1 - pr \in Cells(row) /\ n - 1 - pr >= i /\ Through(n - 1 - pr, i) = dr
    <3>1. PICK j : j = n - 1 - pr
      OBVIOUS
    <3>2. m \in Int /\ j \in Cells(row) /\ j >= i /\ n - 1 - j = pr
      <4>1. m = n - 1 - i /\ n \in Int /\ i \in Int
        BY <2>1, <2>3
      <4>2. m \in Int /\ pr \in Int /\ 0 <= pr /\ pr <= m /\ n - 1 - m = i
        BY <2>6, <4>1
      <4>3. j \in 0 .. n - 1 /\ j >= i /\ n - 1 - j = pr
        BY <2>3, <3>1, <4>1, <4>2
      <4> QED  BY <2>3, <4>2, <4>3
    <3>3. Way(row, "R", pr, m) = Through(j, i)
      BY <2>1, <2>2, <3>2, WaysAreThrough
    <3> QED  BY <2>5, <3>1, <3>2, <3>3 DEF Shortest
  <2>11. \A j \in Cells(row) : j \in Int /\ Through(j, i) \in Int
    <3> SUFFICES ASSUME NEW j \in Cells(row)
                 PROVE  j \in Int /\ Through(j, i) \in Int
      OBVIOUS
    <3>1. row.at[i] \in Int /\ row.at[j] \in Int /\ row.dist[j] \in Int
      BY <2>2, RowsAssumption DEF TypeOK, Cells
    <3> QED  BY <2>3, <3>1, SMTT(30) DEF Through, Distance
  <2>12. CASE dl > dr
    <3>1. out.dist[i] = dr /\ out.prev[i] = n - 1 - pr
      BY <2>4, <2>12
    <3>2. \A j \in Cells(row) : j < i => dr < Through(j, i)
      BY <2>3, <2>6, <2>7, <2>11, <2>12
    <3>3. \A j \in Cells(row) : j >= i => dr <= Through(j, i)
                                 /\ (dr = Through(j, i) => j >= n - 1 - pr)
      BY <2>3, <2>6, <2>8, <2>11
    <3> QED  BY <2>3, <2>6, <2>10, <2>11, <3>1, <3>2, <3>3
  <2>13. CASE ~(dl > dr)
    <3>1. out.dist[i] = dl /\ out.prev[i] = pl
      BY <2>4, <2>13
    <3>2. \A j \in Cells(row) : j > i => dl <= Through(j, i)
      BY <2>3, <2>6, <2>8, <2>11, <2>13
    <3> QED  BY <2>3, <2>6, <2>7, <2>9, <2>11, <3>1, <3>2
  <2> QED  BY <2>12, <2>13
<1> QED  BY <1>1, Invariant, PTL
-----------------------------------------------------------------------------
(* A wire as setGuide2D finds them, and what a plan of them looks like: it *)
(* places one wire behind the other, a long one at the begin of a row, a   *)
(* short one inside a row.                                                 *)
IsWire(w) == w.length \in Nat \ {0} /\ w.cost \in [1 .. w.length - 1 -> Nat]
WireSeq(q) == \E n \in Nat : DOMAIN q = 1 .. n /\ \A i \in 1 .. n : IsWire(q[i])

End(p) == p.offset + p.wire.length

InRow(p) == \E r \in Nat : r * PackRowSize <= p.offset /\ End(p) <= r * PackRowSize + PackRowSize

IsPlaced(p) == IsWire(p.wire) /\ p.offset \in Nat
InOrder(q) == \A j, k \in DOMAIN q : j < k => End(q[j]) <= q[k].offset

(* A plan of n wires.                                                      *)
IsPlan(plan, n) ==
  /\ plan.rowsOffset \in Nat /\ n \in Nat /\ DOMAIN plan.wires = 1 .. n
  /\ \A k \in 1 .. n : IsPlaced(plan.wires[k]) /\ End(plan.wires[k]) <= plan.rowsOffset
  /\ InOrder(plan.wires)

LongOnly(plan, n) ==
  /\ IsPlan(plan, n)
  /\ \E r \in Nat : plan.rowsOffset = r * PackRowSize
  /\ \A k \in 1 .. n : IsLong(plan.wires[k].wire)

Extends(plan, n, long, m) ==
  /\ IsPlan(plan, n) /\ m <= n /\ long.rowsOffset <= plan.rowsOffset
  /\ \A k \in 1 .. m : plan.wires[k] = long.wires[k]
  /\ \A k \in m + 1 .. n : /\ long.rowsOffset <= plan.wires[k].offset
                           /\ InRow(plan.wires[k])

(* The begin of the next row.                                              *)
LEMMA RowUpIs ==
  ASSUME NEW n \in Nat
  PROVE  \E r \in Nat : /\ RowUp(n) = r * PackRowSize /\ n <= RowUp(n) /\ RowUp(n) \in Nat
                        /\ n % PackRowSize # 0 => r = (n \div PackRowSize) + 1
<1> DEFINE P == PackRowSize
<1>1. P \in Nat \ {0}
  BY PackAssumption
<1>2. PICK r : r = (n + P - 1) \div P
  OBVIOUS
<1>3. RowUp(n) = r * P
  BY <1>2 DEF RowUp
<1> HIDE DEF P
<1>4. r \in Nat /\ \E m \in 0 .. P - 1 : n + P - 1 = r * P + m
  <2>1. PICK i \in Nat : i = n + P - 1
    BY <1>1
  <2>2. i \div P \in Nat /\ i % P \in 0 .. P - 1 /\ i = (i \div P) * P + (i % P)
    BY <1>1, SMT
  <2>3. r = i \div P
    BY <1>2, <2>1
  <2>4. QED
    BY <2>1, <2>2, <2>3
<1>5. r * P \in Nat
  BY <1>1, <1>4, SMT
<1>6. n <= r * P
  BY <1>1, <1>4, <1>5
<1>7. ASSUME n % P # 0
      PROVE  r = (n \div P) + 1
  <2>1. PICK q \in Nat, m \in 0 .. P - 1 : n = q * P + m /\ q = n \div P /\ m = n % P
    BY <1>1, Division
  <2>2. n + P - 1 = (q + 1) * P + (m - 1) /\ m - 1 \in 0 .. P - 1
    BY <1>1, <1>7, <2>1, SMT
  <2>3. (n + P - 1) \div P = q + 1
    BY <1>1, <2>2, DivisionUnique
  <2>4. QED
    BY <1>2, <2>1, <2>3
<1>8. QED
  BY <1>3, <1>4, <1>5, <1>6, <1>7 DEF P

(* A wire more in a plan.                                                  *)
LEMMA OneMore ==
  ASSUME NEW plan, NEW n, IsPlan(plan, n), NEW C, plan.wires \in Seq(C),
         NEW w, IsWire(w), NEW offset \in Nat, NEW next \in Nat,
         plan.rowsOffset <= offset, offset + w.length <= next,
         NEW new, new = PlacedAt(plan, w, offset, next)
  PROVE  /\ IsPlan(new, n + 1) /\ new.rowsOffset = next
         /\ \A k \in 1 .. n : new.wires[k] = plan.wires[k]
         /\ new.wires[n + 1] = [wire |-> w, offset |-> offset]
         /\ \E D : new.wires \in Seq(D)
<1> DEFINE p == [wire |-> w, offset |-> offset]
<1>1. /\ n \in Nat /\ DOMAIN plan.wires = 1 .. n /\ plan.rowsOffset \in Nat
      /\ \A k \in 1 .. n : IsPlaced(plan.wires[k]) /\ End(plan.wires[k]) <= plan.rowsOffset
      /\ InOrder(plan.wires)
  BY DEF IsPlan
<1>2. new.rowsOffset = next /\ new.wires = Append(plan.wires, p)
  BY DEF PlacedAt
<1>3. p.wire = w /\ p.offset = offset /\ IsPlaced(p) /\ End(p) = offset + w.length /\ w.length \in Nat
  BY DEF IsPlaced, End, IsWire
<1> HIDE DEF p
<1>4. Len(plan.wires) = n
  BY <1>1
<1>5. /\ DOMAIN new.wires = 1 .. n + 1 /\ new.wires[n + 1] = p
      /\ \A k \in 1 .. n : new.wires[k] = plan.wires[k]
  BY <1>1, <1>2, <1>4
<1>6. \A k \in 1 .. n : IsPlaced(new.wires[k]) /\ End(new.wires[k]) <= next /\ End(new.wires[k]) <= offset
  <2> SUFFICES ASSUME NEW k \in 1 .. n
               PROVE  IsPlaced(new.wires[k]) /\ End(new.wires[k]) <= next /\ End(new.wires[k]) <= offset
    OBVIOUS
  <2>1. IsPlaced(plan.wires[k]) /\ End(plan.wires[k]) <= plan.rowsOffset /\ new.wires[k] = plan.wires[k]
    BY <1>1, <1>5
  <2>2. End(plan.wires[k]) \in Nat
    <3>1. plan.wires[k].offset \in Nat /\ plan.wires[k].wire.length \in Nat
      BY ONLY <2>1 DEF IsPlaced, IsWire
    <3>2. QED
      BY ONLY <3>1 DEF End
  <2>3. QED
    BY <1>1, <1>3, <2>1, <2>2
<1>7. InOrder(new.wires)
  <2> SUFFICES ASSUME NEW j \in 1 .. n + 1, NEW k \in 1 .. n + 1, j < k
               PROVE  End(new.wires[j]) <= new.wires[k].offset
    BY <1>5 DEF InOrder
  <2>1. j \in 1 .. n
    BY <1>1
  <2>2. CASE k = n + 1
    BY <1>3, <1>5, <1>6, <2>1, <2>2
  <2>3. CASE k # n + 1
    <3>1. k \in 1 .. n
      BY <1>1, <2>3
    <3>2. QED
      BY <1>1, <1>5, <2>1, <3>1 DEF InOrder
  <2>4. QED
    BY <2>2, <2>3
<1>8. IsPlan(new, n + 1)
  <2>1. \A k \in 1 .. n + 1 : k \in 1 .. n \/ k = n + 1
    BY <1>1
  <2>2. IsPlaced(new.wires[n + 1]) /\ End(new.wires[n + 1]) <= next
    BY <1>3, <1>5
  <2>3. QED
    BY <1>1, <1>2, <1>5, <1>6, <1>7, <2>1, <2>2 DEF IsPlan
<1>9. \E D : new.wires \in Seq(D)
  <2>1. Append(plan.wires, p) \in Seq(C \cup {p})
    <3>1. plan.wires \in Seq(C \cup {p}) /\ p \in C \cup {p}
      OBVIOUS
    <3>2. QED
      BY <3>1
  <2>2. QED
    BY <1>2, <2>1
<1>10. QED
  BY <1>2, <1>5, <1>8, <1>9 DEF p

(* Each of the two loops adds a wire to its plan, or passes over it.       *)
(* A long wire gets rows of its own.                                       *)
LEMMA LongPlaced ==
  ASSUME NEW plan, NEW n, LongOnly(plan, n), NEW C, plan.wires \in Seq(C), NEW w, IsWire(w)
  PROVE  /\ \E m : LongOnly(PlaceLong(plan, w), m)
         /\ \E D : PlaceLong(plan, w).wires \in Seq(D)
<1> DEFINE offset == RowUp(plan.rowsOffset)
           next == offset + RowUp(w.length)
<1>1. SUFFICES ASSUME IsLong(w)
               PROVE  /\ \E m : LongOnly(PlaceLong(plan, w), m)
                      /\ \E D : PlaceLong(plan, w).wires \in Seq(D)
  BY DEF PlaceLong
<1>2. IsPlan(plan, n) /\ n \in Nat /\ plan.rowsOffset \in Nat /\ w.length \in Nat
      /\ PackRowSize \in Nat \ {0}
  BY PackAssumption DEF LongOnly, IsPlan, IsWire
<1>3. PICK r \in Nat : offset = r * PackRowSize /\ plan.rowsOffset <= offset /\ offset \in Nat
  BY <1>2, RowUpIs
<1>4. PICK l \in Nat : /\ RowUp(w.length) = l * PackRowSize
                       /\ w.length <= RowUp(w.length) /\ RowUp(w.length) \in Nat
  BY <1>2, RowUpIs
<1>5. next \in Nat /\ offset + w.length <= next /\ next = (r + l) * PackRowSize /\ r + l \in Nat
  <2>1. r * PackRowSize + l * PackRowSize = (r + l) * PackRowSize
    BY <1>2, <1>3, <1>4, SMT
  <2>2. QED
    BY <1>2, <1>3, <1>4, <2>1
<1>6. PICK new : new = PlacedAt(plan, w, offset, next)
  OBVIOUS
<1>7. PlaceLong(plan, w) = new
  BY <1>1, <1>6 DEF PlaceLong
<1>8. plan.rowsOffset <= offset /\ offset \in Nat
  BY <1>3
<1> HIDE DEF offset, next
<1>9. /\ IsPlan(new, n + 1) /\ new.rowsOffset = next
      /\ \A k \in 1 .. n : new.wires[k] = plan.wires[k]
      /\ new.wires[n + 1] = [wire |-> w, offset |-> offset]
      /\ \E D : new.wires \in Seq(D)
  BY <1>2, <1>5, <1>6, <1>8, OneMore, SMTT(30)
<1>10. \A k \in 1 .. n + 1 : IsLong(new.wires[k].wire)
  <2>1. \A k \in 1 .. n + 1 : k \in 1 .. n \/ k = n + 1
    BY <1>2
  <2>2. QED
    BY <1>1, <1>9, <2>1 DEF LongOnly
<1>11. LongOnly(new, n + 1)
  BY <1>5, <1>9, <1>10 DEF LongOnly
<1>12. QED
  BY <1>7, <1>9, <1>11

(* A short wire lies behind the long ones, in what is left of a row or in  *)
(* the next one.                                                           *)
LEMMA ShortPlaced ==
  ASSUME NEW long, NEW m, LongOnly(long, m), NEW plan, NEW n, Extends(plan, n, long, m),
         NEW C, plan.wires \in Seq(C), NEW w, IsWire(w)
  PROVE  /\ \E l : Extends(PlaceShort(plan, w), l, long, m)
         /\ \E D : PlaceShort(plan, w).wires \in Seq(D)
<1> DEFINE P == PackRowSize
           o == plan.rowsOffset
           offset == IF P - (o % P) < w.length THEN RowUp(o) ELSE o
           next == offset + w.length
<1>1. SUFFICES ASSUME ~IsLong(w)
               PROVE  /\ \E l : Extends(PlaceShort(plan, w), l, long, m)
                      /\ \E D : PlaceShort(plan, w).wires \in Seq(D)
  BY DEF PlaceShort
<1>2. /\ IsPlan(plan, n) /\ n \in Nat /\ m \in Nat /\ m <= n /\ o \in Nat /\ w.length \in Nat
      /\ P \in Nat \ {0} /\ w.length <= P /\ long.rowsOffset \in Nat /\ long.rowsOffset <= o
  BY <1>1, PackAssumption DEF Extends, LongOnly, IsPlan, IsWire, IsLong
<1>3. \E r \in Nat : r * P <= offset /\ offset + w.length <= r * P + P
                     /\ offset \in Nat /\ o <= offset
  <2>1. PICK q \in Nat, i \in 0 .. P - 1 : o = q * P + i /\ i = o % P
    <3>1. PICK a \in Nat, b \in Nat \ {0} : a = o /\ b = P
      BY <1>2
    <3>2. PICK q, i : q = a \div b /\ i = a % b
      OBVIOUS
    <3>3. q \in Nat /\ i \in 0 .. b - 1 /\ a = q * b + i
      BY <3>2, SMT
    <3>4. QED
      BY <3>1, <3>2, <3>3
  <2>2. q * P \in Nat
    <3> HIDE DEF P
    <3>1. QED
      BY <1>2, <2>1, SMT
  <2>3. CASE P - i < w.length
    <3>1. offset = RowUp(o)
      BY <2>1, <2>3
    <3>2. PICK r \in Nat : RowUp(o) = r * P /\ o <= RowUp(o) /\ RowUp(o) \in Nat
      BY <1>2, RowUpIs
    <3> HIDE DEF offset, o
    <3>3. w.length <= P /\ w.length \in Nat /\ P \in Nat
      BY <1>2
    <3>4. r * P <= offset /\ offset + w.length <= r * P + P /\ offset \in Nat /\ o <= offset
      <4> HIDE DEF P
      <4>1. QED
        BY ONLY <3>1, <3>2, <3>3
    <3>5. QED
      BY <3>4
  <2>4. CASE ~(P - i < w.length)
    <3>1. offset = o
      BY <2>1, <2>4
    <3> HIDE DEF offset, o
    <3>2. w.length \in Nat /\ P \in Nat /\ o \in Nat
      BY <1>2
    <3>3. q * P <= offset /\ offset + w.length <= q * P + P /\ offset \in Nat /\ o <= offset
      <4> HIDE DEF P
      <4>1. PICK x \in Nat : x = q * P
        BY <2>2
      <4>2. o = x + i
        BY <2>1, <4>1
      <4>3. QED
        BY ONLY <2>4, <3>1, <3>2, <4>1, <4>2, i \in 0 .. P - 1
    <3>4. QED
      BY <3>3
  <2>5. QED
    BY <2>3, <2>4
<1>4. PICK new : new = PlacedAt(plan, w, offset, next)
  OBVIOUS
<1>5. PlaceShort(plan, w) = new
  BY <1>1, <1>4 DEF PlaceShort
<1> HIDE DEF offset
<1>6. offset \in Nat /\ o <= offset /\ next \in Nat /\ offset + w.length <= next
  BY <1>2, <1>3
<1> HIDE DEF next
<1>7. /\ IsPlan(new, n + 1) /\ new.rowsOffset = next
      /\ \A k \in 1 .. n : new.wires[k] = plan.wires[k]
      /\ new.wires[n + 1] = [wire |-> w, offset |-> offset]
      /\ \E D : new.wires \in Seq(D)
  <2>1. plan.rowsOffset <= offset /\ IsPlan(plan, n)
    BY <1>2, <1>6
  <2> HIDE DEF o, P
  <2>2. QED
    BY ONLY <1>4, <1>6, <2>1, plan.wires \in Seq(C), IsWire(w), OneMore
<1>8. InRow(new.wires[n + 1]) /\ new.wires[n + 1].offset = offset
  BY <1>3, <1>7 DEF InRow, End
<1>9. ASSUME NEW k \in m + 1 .. n + 1
      PROVE  long.rowsOffset <= new.wires[k].offset /\ InRow(new.wires[k])
  <2>1. CASE k = n + 1
    BY <1>2, <1>6, <1>8, <2>1
  <2>2. CASE k # n + 1
    <3>1. k \in m + 1 .. n /\ k \in 1 .. n
      BY <1>2, <2>2
    <3>2. QED
      BY <1>7, <3>1 DEF Extends
  <2>3. QED
    BY <2>1, <2>2
<1>10. \A k \in 1 .. m : new.wires[k] = long.wires[k]
  <2>1. \A k \in 1 .. m : k \in 1 .. n
    BY <1>2
  <2>2. QED
    BY <1>7, <2>1 DEF Extends
<1>11. m <= n + 1 /\ long.rowsOffset <= new.rowsOffset
  <2> HIDE DEF o
  <2>1. QED
    BY <1>2, <1>6, <1>7 DEF next
<1>12. Extends(new, n + 1, long, m)
  BY <1>7, <1>9, <1>10, <1>11 DEF Extends
<1>13. QED
  BY <1>5, <1>7, <1>12

-----------------------------------------------------------------------------
(* The recursion of the two loops: one of them, over the wires q.          *)
Place(loop, plan, w) == IF loop = "long" THEN PlaceLong(plan, w) ELSE PlaceShort(plan, w)

PlansOf(loop, base, q, g, n) ==
  g = [t \in SUBSET (1 .. n) |->
         IF t = {} THEN base ELSE Place(loop, g[t \ {Max(t)}], q[Max(t)])]

(* The last of the first n wires.                                          *)
LEMMA MaxIs ==
  ASSUME NEW n \in Nat, NEW t \in SUBSET (1 .. n), n \in t
  PROVE  Max(t) = n
<1>1. \A y \in t : n >= y
  OBVIOUS
<1>2. Max(t) \in t /\ \A y \in t : Max(t) >= y
  BY <1>1 DEF Max
<1>3. PICK k \in t : k = Max(t) /\ k >= n
  BY <1>2
<1>4. QED
  BY <1>3

(* The recursion has a solution for any number of wires.                   *)
LEMMA PlansExist ==
  ASSUME NEW loop, NEW base, NEW q, NEW n \in Nat
  PROVE  \E g : PlansOf(loop, base, q, g, n)
<1> DEFINE F == {m \in Nat : \E g : PlansOf(loop, base, q, g, m)}
<1>1. 0 \in F
  <2> DEFINE g == [t \in SUBSET (1 .. 0) |-> base]
  <2>1. \A t \in SUBSET (1 .. 0) : t = {}
    OBVIOUS
  <2>2. PlansOf(loop, base, q, g, 0)
    BY <2>1 DEF PlansOf
  <2>3. QED
    BY <2>2
<1>2. ASSUME NEW m \in Nat, m \in F
      PROVE  m + 1 \in F
  <2>1. PICK g : PlansOf(loop, base, q, g, m)
    BY <1>2
  <2> DEFINE h == [t \in SUBSET (1 .. m + 1) |->
                     IF m + 1 \in t THEN Place(loop, g[t \ {m + 1}], q[m + 1]) ELSE g[t]]
             H(t) == IF t = {} THEN base ELSE Place(loop, h[t \ {Max(t)}], q[Max(t)])
  <2>2. ASSUME NEW t \in SUBSET (1 .. m + 1), m + 1 \in t
        PROVE  h[t] = H(t)
    <3>1. Max(t) = m + 1 /\ t # {}
      BY <2>2, MaxIs
    <3>2. t \ {m + 1} \in SUBSET (1 .. m + 1) /\ m + 1 \notin t \ {m + 1}
      OBVIOUS
    <3>3. h[t \ {m + 1}] = g[t \ {m + 1}]
      BY <3>2
    <3>4. h[t] = Place(loop, g[t \ {m + 1}], q[m + 1])
      BY <2>2
    <3> HIDE DEF h
    <3>5. QED
      BY <3>1, <3>3, <3>4
  <2>3. ASSUME NEW t \in SUBSET (1 .. m + 1), m + 1 \notin t
        PROVE  h[t] = H(t)
    <3>1. t \in SUBSET (1 .. m)
      <4>1. \A i \in 1 .. m + 1 : i # m + 1 => i \in 1 .. m
        OBVIOUS
      <4>2. QED
        BY <2>3, <4>1
    <3>2. t \ {Max(t)} \in SUBSET (1 .. m + 1) /\ m + 1 \notin t \ {Max(t)}
      BY <2>3
    <3>3. h[t] = g[t] /\ h[t \ {Max(t)}] = g[t \ {Max(t)}]
      BY <2>3, <3>2
    <3>4. g[t] = IF t = {} THEN base ELSE Place(loop, g[t \ {Max(t)}], q[Max(t)])
      BY <2>1, <3>1 DEF PlansOf
    <3> HIDE DEF h
    <3>5. QED
      BY <3>3, <3>4
  <2>4. h = [t \in SUBSET (1 .. m + 1) |-> H(t)]
    <3> DEFINE T == SUBSET (1 .. m + 1)
    <3>1. DOMAIN h = T /\ h = [t \in T |-> h[t]]
      OBVIOUS
    <3>2. \A t \in T : h[t] = H(t)
      BY <2>2, <2>3
    <3> HIDE DEF h, T
    <3>3. QED
      BY <3>1, <3>2 DEF T
  <2>5. PlansOf(loop, base, q, h, m + 1)
    <3> HIDE DEF h
    <3>1. QED
      BY <2>4 DEF PlansOf
  <2>6. QED
    BY <2>5
<1>3. Nat \subseteq F
  <2> HIDE DEF F
  <2>1. QED
    BY <1>1, <1>2, GrowingNumbers
<1>4. QED
  BY <1>3

(* The loop of the long wires is such a recursion.                         *)
LEMMA LongFold ==
  ASSUME NEW base, NEW q, NEW n \in Nat, DOMAIN q = 1 .. n
  PROVE  \E g : PlansOf("long", base, q, g, n) /\ FoldLeft(PlaceLong, base, q) = g[1 .. n]
<1> DEFINE iter == CHOOSE g : PlansOf("long", base, q, g, n)
<1>1. PlansOf("long", base, q, iter, n)
  BY PlansExist
<1>2. FoldLeft(PlaceLong, base, q) = iter[1 .. n]
  BY DEF FoldLeft, MapThenFoldSet, PlansOf, Place
<1>3. QED
  BY <1>1, <1>2

(* So is the loop of the short ones.                                       *)
LEMMA ShortFold ==
  ASSUME NEW base, NEW q, NEW n \in Nat, DOMAIN q = 1 .. n
  PROVE  \E g : PlansOf("short", base, q, g, n) /\ FoldLeft(PlaceShort, base, q) = g[1 .. n]
<1> DEFINE iter == CHOOSE g : PlansOf("short", base, q, g, n)
<1>1. PlansOf("short", base, q, iter, n)
  BY PlansExist
<1>2. FoldLeft(PlaceShort, base, q) = iter[1 .. n]
  BY DEF FoldLeft, MapThenFoldSet, PlansOf, Place
<1>3. QED
  BY <1>1, <1>2

(* It adds the wires one by one.                                           *)
LEMMA PlanSteps ==
  ASSUME NEW loop, NEW base, NEW q, NEW n \in Nat, NEW g, PlansOf(loop, base, q, g, n)
  PROVE  /\ g[1 .. 0] = base
         /\ \A k \in Nat : k + 1 <= n => g[1 .. k + 1] = Place(loop, g[1 .. k], q[k + 1])
<1>1. g[1 .. 0] = base
  <2>1. 1 .. 0 = {} /\ {} \in SUBSET (1 .. n)
    OBVIOUS
  <2>2. QED
    BY <2>1 DEF PlansOf
<1>2. ASSUME NEW k \in Nat, k + 1 <= n
      PROVE  g[1 .. k + 1] = Place(loop, g[1 .. k], q[k + 1])
  <2> DEFINE t == 1 .. k + 1
  <2>1. t \in SUBSET (1 .. n) /\ t # {} /\ t \ {k + 1} = 1 .. k
    BY <1>2
  <2>2. Max(t) = k + 1
    BY MaxIs
  <2> HIDE DEF t
  <2>3. g[t] = Place(loop, g[t \ {Max(t)}], q[Max(t)])
    BY <2>1 DEF PlansOf
  <2>4. QED
    BY <2>1, <2>2, <2>3 DEF t
<1>3. QED
  BY <1>1, <1>2

(* The long wires get rows of their own.                                   *)
LEMMA LongPlanned ==
  ASSUME NEW q, WireSeq(q)
  PROVE  /\ \E m : LongOnly(LongPlan(q), m)
         /\ \E C : LongPlan(q).wires \in Seq(C)
<1> DEFINE base == [rowsOffset |-> 0, wires |-> <<>>]
<1>1. PICK n \in Nat : DOMAIN q = 1 .. n /\ \A i \in 1 .. n : IsWire(q[i])
  BY DEF WireSeq
<1>2. PICK g : PlansOf("long", base, q, g, n) /\ LongPlan(q) = g[1 .. n]
  <2> HIDE DEF base
  <2>1. \E g : PlansOf("long", base, q, g, n) /\ FoldLeft(PlaceLong, base, q) = g[1 .. n]
    BY <1>1, LongFold
  <2>2. QED
    BY <2>1 DEF LongPlan, base
<1> DEFINE Good(plan) == (\E m : LongOnly(plan, m)) /\ \E C : plan.wires \in Seq(C)
           F == {k \in Nat : k <= n => Good(g[1 .. k])}
<1>3. 0 \in F
  <2>1. LongOnly(base, 0)
    <3>1. base.rowsOffset = 0 /\ base.wires = <<>> /\ DOMAIN <<>> = 1 .. 0
      OBVIOUS
    <3>2. IsPlan(base, 0)
      BY <3>1 DEF IsPlan, InOrder
    <3>3. base.rowsOffset = 0 * PackRowSize
      BY <3>1, PackAssumption
    <3>4. QED
      BY <3>2, <3>3 DEF LongOnly
  <2>2. base.wires \in Seq({})
    OBVIOUS
  <2> HIDE DEF base
  <2>3. g[1 .. 0] = base
    BY <1>2, PlanSteps
  <2>4. QED
    BY <2>1, <2>2, <2>3
<1>4. ASSUME NEW k \in Nat, k \in F
      PROVE  k + 1 \in F
  <2> HIDE DEF base
  <2>1. SUFFICES ASSUME k + 1 <= n
                 PROVE  Good(g[1 .. k + 1])
    OBVIOUS
  <2>2. PICK plan : plan = g[1 .. k] /\ Good(plan)
    BY <1>4, <2>1
  <2>3. g[1 .. k + 1] = PlaceLong(plan, q[k + 1])
    <3>1. g[1 .. k + 1] = Place("long", plan, q[k + 1])
      BY <1>1, <1>2, <2>1, <2>2, PlanSteps
    <3>2. QED
      BY <3>1 DEF Place
  <2>4. IsWire(q[k + 1])
    BY <1>1, <2>1
  <2>5. PICK m : LongOnly(plan, m)
    BY <2>2
  <2>6. PICK C : plan.wires \in Seq(C)
    BY <2>2
  <2>7. Good(PlaceLong(plan, q[k + 1]))
    BY <2>4, <2>5, <2>6, LongPlaced
  <2>8. QED
    BY <2>3, <2>7
<1>5. n \in F
  <2>1. Nat \subseteq F
    <3> HIDE DEF F
    <3>1. QED
      BY <1>3, <1>4, GrowingNumbers
  <2>2. QED
    BY <2>1
<1>6. QED
  BY <1>2, <1>5

(* Behind them lie the short ones, each inside a row.                      *)
LEMMA Planned ==
  ASSUME NEW q, WireSeq(q)
  PROVE  \E m, n : LongOnly(LongPlan(q), m) /\ Extends(PackPlan(q), n, LongPlan(q), m)
<1>1. PICK n \in Nat : DOMAIN q = 1 .. n /\ \A i \in 1 .. n : IsWire(q[i])
  BY DEF WireSeq
<1>2. PICK long : long = LongPlan(q)
  OBVIOUS
<1>3. PICK m : LongOnly(long, m)
  BY <1>2, LongPlanned
<1>4. \E C : long.wires \in Seq(C)
  BY <1>2, LongPlanned
<1>5. PICK g : PlansOf("short", long, q, g, n) /\ PackPlan(q) = g[1 .. n]
  <2>1. \E g : PlansOf("short", long, q, g, n) /\ FoldLeft(PlaceShort, long, q) = g[1 .. n]
    BY <1>1, ShortFold
  <2>2. QED
    BY <1>2, <2>1 DEF PackPlan
<1> DEFINE Good(plan) == (\E l : Extends(plan, l, long, m)) /\ \E C : plan.wires \in Seq(C)
           F == {k \in Nat : k <= n => Good(g[1 .. k])}
<1>6. 0 \in F
  <2>1. Extends(long, m, long, m)
    <3>1. IsPlan(long, m) /\ m \in Nat /\ long.rowsOffset \in Nat
      BY <1>3 DEF LongOnly, IsPlan
    <3>2. \A k \in m + 1 .. m : FALSE
      BY <3>1
    <3>3. QED
      BY <3>1, <3>2 DEF Extends
  <2>2. g[1 .. 0] = long
    BY <1>5, PlanSteps
  <2>3. QED
    BY <1>4, <2>1, <2>2
<1>7. ASSUME NEW k \in Nat, k \in F
      PROVE  k + 1 \in F
  <2>1. SUFFICES ASSUME k + 1 <= n
                 PROVE  Good(g[1 .. k + 1])
    OBVIOUS
  <2>2. PICK plan : plan = g[1 .. k] /\ Good(plan)
    BY <1>7, <2>1
  <2>3. g[1 .. k + 1] = PlaceShort(plan, q[k + 1])
    BY <1>5, <2>1, <2>2, PlanSteps DEF Place
  <2>4. IsWire(q[k + 1])
    BY <1>1, <2>1
  <2>5. PICK l : Extends(plan, l, long, m)
    BY <2>2
  <2>6. PICK C : plan.wires \in Seq(C)
    BY <2>2
  <2>7. Good(PlaceShort(plan, q[k + 1]))
    BY <1>3, <2>4, <2>5, <2>6, ShortPlaced
  <2>8. QED
    BY <2>3, <2>7
<1>8. n \in F
  <2>1. Nat \subseteq F
    <3> HIDE DEF F
    <3>1. QED
      BY <1>6, <1>7, GrowingNumbers
  <2>2. QED
    BY <2>1
<1>9. QED
  BY <1>2, <1>3, <1>5, <1>8

-----------------------------------------------------------------------------
(* What keeps the wires of a row apart: its wires are whole, the edge       *)
(* between two of them costs Infinity, and no cell beside them is reached.  *)
Apart(r) ==
  /\ r.length \in Nat \ {0}
  /\ \A i \in Cells(r) : /\ r.cell[i] \in Nat \X Nat
                         /\ r.cell[i] = Nothing => r.dist[i] >= Infinity
                         /\ r.dist[i] >= 0
                         /\ r.cell[i] # Nothing =>
                              {r.cell[j] : j \in {m \in Cells(r) : r.cell[m][1] = r.cell[i][1]}}
                                = {<<r.cell[i][1], n>> : n \in 0 .. r.sizes[r.cell[i][1]] - 1}
  /\ \A i \in 1 .. r.length - 1 :
       r.at[i] - r.at[i - 1] < Infinity =>
         /\ r.cell[i - 1] # Nothing /\ r.cell[i] # Nothing
         /\ r.cell[i] = <<r.cell[i - 1][1], r.cell[i - 1][2] + 1>>

(* The rows that the kernel gets: the blocks of a packing, with distances   *)
(* cleared to Infinity where no wire is.                                    *)
PackedFrom(wires, b, d, r) ==
  /\ WireSeq(wires) /\ b \in Blocks(wires)
  /\ r = RowAt(PackPlan(wires), b[1], b[2], d)
  /\ \A i \in 0 .. b[2] - 1 : /\ d[i] \in Nat
                              /\ CellAt(PackPlan(wires), b[1] + i) = Nothing => d[i] = Infinity
Packed(r) == \E wires, b, d : PackedFrom(wires, b, d, r)

(* No edge of the wires costs more than dear, but on layer 0.              *)
PricedUpTo(plan, dear) ==
  \A k \in DOMAIN plan.wires :
    LET w == plan.wires[k].wire IN w.z # 0 => \A i \in 1 .. w.length - 1 : w.cost[i] <= dear

(* The rows in which no way along a wire is as long as Infinity, which the *)
(* code takes for a distance that no way has.                              *)
Affordable(r) ==
  \E wires, b, d : \E dear \in Nat :
    /\ PackedFrom(wires, b, d, r)
    /\ PricedUpTo(PackPlan(wires), dear)
    /\ \A i \in 0 .. b[2] - 1 : d[i] < Infinity => d[i] + dear * b[2] < Infinity

(* What that comes to in a row: between two cells of one wire no edge      *)
(* costs more.                                                             *)
WirePriced(r, dear) ==
  \A a, b, i \in Cells(r) :
    /\ a < i /\ i <= b
    /\ r.cell[a] # Nothing \/ r.cell[b] # Nothing
    /\ r.cell[b][1] = r.cell[a][1] /\ r.layers[r.cell[a][1]] # 0
    => r.at[i] - r.at[i - 1] <= dear

Inside(p, pos) == p.offset <= pos /\ pos < End(p)

(* The cell at a position is one of the wire there, or there is none.      *)
CellOf(plan, n, pos, c) ==
  \/ c = Nothing /\ \A k \in 1 .. n : ~Inside(plan.wires[k], pos)
  \/ \E k \in 1 .. n : Inside(plan.wires[k], pos) /\ c = <<k, pos - plan.wires[k].offset>>

(* The wires of a plan share no position.                                  *)
LEMMA OneWire ==
  ASSUME NEW plan, NEW n, IsPlan(plan, n), NEW pos \in Int,
         NEW j \in 1 .. n, Inside(plan.wires[j], pos), NEW k \in 1 .. n, Inside(plan.wires[k], pos)
  PROVE  j = k
<1>1. /\ n \in Nat /\ DOMAIN plan.wires = 1 .. n /\ InOrder(plan.wires)
      /\ \A i \in 1 .. n : IsPlaced(plan.wires[i])
  BY DEF IsPlan
<1>2. \A i \in 1 .. n : plan.wires[i].offset \in Nat /\ End(plan.wires[i]) \in Nat
  <2> SUFFICES ASSUME NEW i \in 1 .. n
               PROVE  plan.wires[i].offset \in Nat /\ End(plan.wires[i]) \in Nat
    OBVIOUS
  <2>1. PICK p : p = plan.wires[i]
    OBVIOUS
  <2>2. p.offset \in Nat /\ p.wire.length \in Nat
    BY <1>1, <2>1 DEF IsPlaced, IsWire
  <2>3. QED
    BY <2>1, <2>2 DEF End
<1>3. SUFFICES ASSUME j # k
               PROVE  FALSE
  OBVIOUS
<1>4. j < k \/ k < j
  BY <1>1, <1>3
<1>5. End(plan.wires[j]) <= plan.wires[k].offset \/ End(plan.wires[k]) <= plan.wires[j].offset
  BY <1>1, <1>4 DEF InOrder
<1>6. QED
  BY <1>2, <1>5 DEF Inside

(* So a position holds the cell of the wire that lies there.               *)
LEMMA CellIs ==
  ASSUME NEW plan, NEW n, IsPlan(plan, n), NEW pos \in Int
  PROVE  CellOf(plan, n, pos, CellAt(plan, pos))
<1> DEFINE on == {k \in DOMAIN plan.wires :
                    LET w == plan.wires[k] IN pos \in w.offset .. w.offset + w.wire.length - 1}
<1>1. /\ n \in Nat /\ DOMAIN plan.wires = 1 .. n
      /\ \A k \in 1 .. n : IsPlaced(plan.wires[k])
  BY DEF IsPlan
<1>2. \A k \in 1 .. n : plan.wires[k].offset \in Nat /\ plan.wires[k].wire.length \in Nat
  BY <1>1 DEF IsPlaced, IsWire
<1>3. \A k : k \in on <=> k \in 1 .. n /\ Inside(plan.wires[k], pos)
  BY <1>1, <1>2, SMTT(30) DEF Inside, End
<1>4. CellAt(plan, pos) = IF on = {} THEN Nothing ELSE <<Max(on), pos - plan.wires[Max(on)].offset>>
  BY DEF CellAt
<1> HIDE DEF on
<1>5. CASE on = {}
  BY <1>3, <1>4, <1>5 DEF CellOf
<1>6. CASE on # {}
  <2>1. PICK k \in 1 .. n : Inside(plan.wires[k], pos)
    BY <1>3, <1>6
  <2>2. on = {k}
    BY <1>3, <2>1, OneWire
  <2>3. Max(on) = k
    <3>1. k \in Int
      OBVIOUS
    <3>2. \A y \in {k} : k >= y
      BY <3>1
    <3>3. Max({k}) \in {k}
      BY <3>2 DEF Max
    <3>4. QED
      BY <2>2, <3>3
  <2>4. CellAt(plan, pos) = <<k, pos - plan.wires[k].offset>>
    BY <1>4, <2>2, <2>3
  <2>5. QED
    BY <2>1, <2>4 DEF CellOf
<1>7. QED
  BY <1>5, <1>6

(* A block holds the wires it meets whole.                                 *)
LEMMA WholeWires ==
  ASSUME NEW q, WireSeq(q), NEW b \in Blocks(q),
         NEW m, NEW n, LongOnly(LongPlan(q), m), Extends(PackPlan(q), n, LongPlan(q), m)
  PROVE  /\ b[1] \in Nat /\ b[2] \in Nat \ {0}
         /\ \A k \in 1 .. n : \A i \in 0 .. b[2] - 1 :
              Inside(PackPlan(q).wires[k], b[1] + i) =>
                b[1] <= PackPlan(q).wires[k].offset /\ End(PackPlan(q).wires[k]) <= b[1] + b[2]
<1>1. PICK long, plan : long = LongPlan(q) /\ plan = PackPlan(q)
  OBVIOUS
<1> DEFINE w(k) == plan.wires[k]
           P == PackRowSize
<1>2. LongOnly(long, m) /\ Extends(plan, n, long, m) /\ P \in Nat \ {0}
  BY <1>1, PackAssumption
<1>3. /\ n \in Nat /\ m \in Nat /\ m <= n
      /\ DOMAIN plan.wires = 1 .. n /\ DOMAIN long.wires = 1 .. m /\ InOrder(plan.wires)
      /\ \A k \in 1 .. m : w(k) = long.wires[k] /\ IsLong(long.wires[k].wire)
      /\ long.rowsOffset \in Nat
  BY <1>2 DEF Extends, LongOnly, IsPlan
<1>4. ASSUME NEW k \in 1 .. n
      PROVE  /\ w(k).offset \in Nat /\ w(k).wire.length \in Nat \ {0} /\ End(w(k)) \in Nat
             /\ End(w(k)) = w(k).offset + w(k).wire.length
  <2>1. IsPlaced(w(k))
    BY <1>2 DEF Extends, IsPlan
  <2>2. QED
    BY <2>1 DEF IsPlaced, IsWire, End
<1>5. \/ \E k \in 1 .. m : b = <<long.wires[k].offset, long.wires[k].wire.length>>
      \/ \E r \in long.rowsOffset \div P .. RowUp(plan.rowsOffset) \div P - 1 : b = <<r * P, P>>
  BY <1>1, <1>3 DEF Blocks
<1>6. CASE \E k \in 1 .. m : b = <<long.wires[k].offset, long.wires[k].wire.length>>
  <2>1. PICK l \in 1 .. m : b = <<long.wires[l].offset, long.wires[l].wire.length>>
    BY <1>6
  <2>2. l \in 1 .. n /\ b[1] = w(l).offset /\ b[2] = w(l).wire.length
    BY <1>3, <2>1
  <2>3. /\ b[1] \in Nat /\ b[2] \in Nat \ {0}
        /\ w(l).offset \in Nat /\ End(w(l)) \in Nat /\ End(w(l)) = b[1] + b[2]
    BY <1>4, <2>2
  <2>4. ASSUME NEW k \in 1 .. n, NEW i \in 0 .. b[2] - 1, Inside(w(k), b[1] + i)
        PROVE  b[1] <= w(k).offset /\ End(w(k)) <= b[1] + b[2]
    <3>1. CASE k = l
      BY <2>2, <2>3, <3>1
    <3>2. CASE k # l
      <4>1. k < l \/ l < k
        BY <1>3, <2>2, <3>2
      <4>2. End(w(k)) <= w(l).offset \/ End(w(l)) <= w(k).offset
        BY <1>3, <2>2, <4>1 DEF InOrder
      <4>3. w(k).offset <= b[1] + i /\ b[1] + i < End(w(k)) /\ w(k).offset \in Nat /\ End(w(k)) \in Nat
        BY <1>4, <2>4 DEF Inside
      <4> HIDE DEF w
      <4>4. QED
        BY <2>2, <2>3, <4>2, <4>3
    <3>3. QED
      BY <3>1, <3>2
  <2>5. QED
    BY <1>1, <2>3, <2>4
<1>7. CASE \E r \in long.rowsOffset \div P .. RowUp(plan.rowsOffset) \div P - 1 : b = <<r * P, P>>
  <2>1. PICK r : r \in long.rowsOffset \div P .. RowUp(plan.rowsOffset) \div P - 1 /\ b = <<r * P, P>>
    BY <1>7
  <2>2. PICK l \in Nat : long.rowsOffset = l * P
    BY <1>2 DEF LongOnly
  <2> HIDE DEF P
  <2>3. long.rowsOffset \div P = l
    <3>1. PICK i \in Int : i = long.rowsOffset
      BY <1>3
    <3>2. i = l * P + 0 /\ 0 \in 0 .. P - 1
      BY <1>2, <2>2, <3>1, SMT
    <3>3. i \div P = l
      BY <1>2, <3>2, DivisionUnique
    <3>4. QED
      BY <3>1, <3>3
  <2>4. r \in Int /\ l <= r /\ r \in Nat
    BY <2>1, <2>3
  <2>5. long.rowsOffset <= r * P /\ r * P \in Nat
    BY <1>2, <2>2, <2>4, SMT
  <2>6. b[1] = r * P /\ b[2] = P /\ b[1] \in Nat /\ b[2] \in Nat \ {0}
    BY <1>2, <2>1, <2>5
  <2>7. ASSUME NEW k \in 1 .. n, NEW i \in 0 .. b[2] - 1, Inside(w(k), b[1] + i)
        PROVE  b[1] <= w(k).offset /\ End(w(k)) <= b[1] + b[2]
    <3>1. w(k).offset <= b[1] + i /\ b[1] + i < End(w(k)) /\ w(k).offset \in Nat /\ End(w(k)) \in Nat
      BY <1>4, <2>7 DEF Inside
    <3>2. CASE k \in 1 .. m
      <4>1. End(w(k)) <= long.rowsOffset
        BY <1>2, <1>3, <3>2 DEF LongOnly, IsPlan
      <4> HIDE DEF w
      <4>2. QED
        BY <1>3, <2>5, <2>6, <3>1, <4>1
    <3>3. CASE k \in m + 1 .. n
      <4>1. PICK o \in Nat : o * P <= w(k).offset /\ End(w(k)) <= o * P + P
        BY <1>2, <3>3 DEF Extends, InRow, P
      <4> HIDE DEF w
      <4>2. r = o
        <5>1. o * P <= r * P + i /\ r * P + i < o * P + P /\ i \in 0 .. P - 1 /\ o * P \in Nat
          <6>1. o * P \in Nat
            BY <1>2, <4>1, SMT
          <6>2. QED
            BY <1>2, <2>5, <2>6, <3>1, <4>1, <6>1
        <5>2. PICK j \in 0 .. P - 1 : r * P + i = o * P + j
          <6>1. (r * P + i) - o * P \in 0 .. P - 1
            BY <1>2, <2>5, <5>1
          <6>2. QED
            BY <2>5, <5>1, <6>1
        <5>3. PICK x \in Int : x = r * P + i /\ x = o * P + j
          BY <2>5, <5>1, <5>2
        <5>4. x \div P = r /\ x \div P = o
          <6>1. P \in Nat \ {0} /\ r \in Int /\ o \in Int /\ i \in 0 .. P - 1 /\ x = r * P + i
            BY <1>2, <2>4, <5>1, <5>3
          <6>2. x \div P = r
            BY ONLY <6>1, x \in Int, DivisionUnique
          <6>3. x = o * P + j
            BY <5>3
          <6>4. x \div P = o
            BY ONLY <6>1, <6>3, x \in Int, j \in 0 .. P - 1, DivisionUnique
          <6>5. QED
            BY <6>2, <6>4
        <5>5. QED
          BY <5>4
      <4>3. QED
        BY <2>6, <4>1, <4>2
    <3>4. k \in 1 .. m \/ k \in m + 1 .. n
      BY <1>3
    <3>5. QED
      BY <3>2, <3>3, <3>4
  <2>8. QED
    BY <1>1, <2>6, <2>7
<1>8. QED
  BY <1>5, <1>6, <1>7

(* The recursion that gives a row its positions has a solution. *)
PositionsOf(plan, offset, length, at) ==
  at = [i \in 0 .. length - 1 |-> IF i = 0 THEN 0 ELSE at[i - 1] + CostAt(plan, offset + i)]

(* The positions of a row's wires can be added up. *)
LEMMA PositionsExist ==
  ASSUME NEW plan, NEW offset, NEW length \in Nat \ {0}
  PROVE  \E at : PositionsOf(plan, offset, length, at)
<1> DEFINE S(at, m) ==
             at = [i \in 0 .. m |-> IF i = 0 THEN 0 ELSE at[i - 1] + CostAt(plan, offset + i)]
           F == {m \in Nat : \E at : S(at, m)}
<1>1. 0 \in F
  <2> DEFINE at == [i \in 0 .. 0 |-> 0]
  <2>1. \A i \in 0 .. 0 : i = 0
    OBVIOUS
  <2>2. S(at, 0)
    BY <2>1
  <2>3. QED
    BY <2>2
<1>2. ASSUME NEW m \in Nat, m \in F
      PROVE  m + 1 \in F
  <2>1. PICK at : S(at, m)
    BY <1>2
  <2> DEFINE last == at[m] + CostAt(plan, offset + (m + 1))
             h == [i \in 0 .. m + 1 |-> IF i = m + 1 THEN last ELSE at[i]]
             H(i) == IF i = 0 THEN 0 ELSE h[i - 1] + CostAt(plan, offset + i)
  <2>2. ASSUME NEW i \in 0 .. m + 1
        PROVE  h[i] = H(i)
    <3>1. CASE i = m + 1
      <4>1. h[i] = last /\ i - 1 = m /\ h[m] = at[m] /\ i # 0
        BY <3>1
      <4> HIDE DEF h
      <4>2. QED
        BY <3>1, <4>1
    <3>2. CASE i # m + 1
      <4>1. i \in 0 .. m /\ h[i] = at[i]
        BY <3>2
      <4>2. i # 0 => h[i - 1] = at[i - 1]
        BY <4>1
      <4>3. at[i] = IF i = 0 THEN 0 ELSE at[i - 1] + CostAt(plan, offset + i)
        BY <2>1, <4>1
      <4> HIDE DEF h
      <4>4. QED
        BY <4>1, <4>2, <4>3
    <3>3. QED
      BY <3>1, <3>2
  <2>3. h = [i \in 0 .. m + 1 |-> H(i)]
    <3>1. h = [i \in 0 .. m + 1 |-> h[i]]
      OBVIOUS
    <3> HIDE DEF h
    <3>2. QED
      BY <2>2, <3>1
  <2>4. S(h, m + 1)
    <3> HIDE DEF h
    <3>1. QED
      BY <2>3
  <2> HIDE DEF h
  <2>5. QED
    BY <2>4
<1>3. Nat \subseteq F
  <2> HIDE DEF F
  <2>1. QED
    BY <1>1, <1>2, GrowingNumbers
<1>4. PICK n \in Nat : n = length - 1
  OBVIOUS
<1>5. \E at : S(at, n)
  <2> HIDE DEF S
  <2>1. QED
    BY <1>3
<1>6. QED
  BY <1>4, <1>5 DEF PositionsOf

(* What a row of a plan consists of.                                       *)
IsRowOf(r, plan, offset, length, d) ==
  /\ r.length = length /\ r.dist = d
  /\ \A i \in 0 .. length - 1 : r.cell[i] = CellAt(plan, offset + i)
  /\ \A k \in DOMAIN plan.wires : /\ r.sizes[k] = plan.wires[k].wire.length
                                  /\ r.layers[k] = plan.wires[k].wire.z
  /\ \A i \in 0 .. length - 1 :
       r.at[i] = IF i = 0 THEN 0 ELSE r.at[i - 1] + CostAt(plan, offset + i)

(* RowAt takes it from the plan.                                           *)
LEMMA RowAtIs ==
  ASSUME NEW plan, NEW offset, NEW length \in Nat \ {0}, NEW d
  PROVE  IsRowOf(RowAt(plan, offset, length, d), plan, offset, length, d)
<1>1. PICK r : r = RowAt(plan, offset, length, d)
  OBVIOUS
<1>2. PICK at : at = CHOOSE a : PositionsOf(plan, offset, length, a)
  OBVIOUS
<1>3. PositionsOf(plan, offset, length, at)
  BY <1>2, PositionsExist
<1>4. /\ r.length = length /\ r.dist = d
      /\ r.cell = [i \in 0 .. length - 1 |-> CellAt(plan, offset + i)]
      /\ r.sizes = [k \in DOMAIN plan.wires |-> plan.wires[k].wire.length]
      /\ r.layers = [k \in DOMAIN plan.wires |-> plan.wires[k].wire.z]
      /\ r.at = at
  BY <1>2, <1>1 DEF RowAt, PositionsOf
<1>5. \A i \in 0 .. length - 1 : at[i] = IF i = 0 THEN 0 ELSE at[i - 1] + CostAt(plan, offset + i)
  BY <1>3 DEF PositionsOf
<1>6. QED
  BY <1>4, <1>5, <1>1 DEF IsRowOf

(* The rows of a packing keep their wires apart and cost what they cost.   *)
LEMMA PackedRow ==
  ASSUME NEW wires, NEW b, NEW d, NEW r, PackedFrom(wires, b, d, r)
  PROVE  /\ Apart(r) /\ r.length = b[2] /\ r.dist = d
         /\ \A dear \in Nat : PricedUpTo(PackPlan(wires), dear) => WirePriced(r, dear)
<1>2. /\ b \in Blocks(wires) /\ WireSeq(wires)
      /\ r = RowAt(PackPlan(wires), b[1], b[2], d)
      /\ \A i \in 0 .. b[2] - 1 : /\ d[i] \in Nat
                                  /\ CellAt(PackPlan(wires), b[1] + i) = Nothing => d[i] = Infinity
  BY DEF PackedFrom
<1>3. PICK m, n : LongOnly(LongPlan(wires), m) /\ Extends(PackPlan(wires), n, LongPlan(wires), m)
  BY <1>2, Planned
<1>4. PICK plan, o, length : plan = PackPlan(wires) /\ o = b[1] /\ length = b[2]
  OBVIOUS
<1>5. /\ o \in Nat /\ length \in Nat \ {0}
      /\ \A k \in 1 .. n : \A i \in 0 .. length - 1 :
           Inside(plan.wires[k], o + i) => o <= plan.wires[k].offset /\ End(plan.wires[k]) <= o + length
  BY <1>2, <1>3, <1>4, WholeWires
<1>6. /\ r.length = length /\ r.dist = d
      /\ \A i \in 0 .. length - 1 : r.cell[i] = CellAt(plan, o + i)
      /\ \A k \in DOMAIN plan.wires : /\ r.sizes[k] = plan.wires[k].wire.length
                                      /\ r.layers[k] = plan.wires[k].wire.z
      /\ \A i \in 0 .. length - 1 :
           r.at[i] = IF i = 0 THEN 0 ELSE r.at[i - 1] + CostAt(plan, o + i)
  <2>1. r = RowAt(plan, o, length, d)
    BY <1>2, <1>4
  <2>2. IsRowOf(r, plan, o, length, d)
    BY <1>5, <2>1, RowAtIs
  <2>3. QED
    BY <2>2 DEF IsRowOf
<1>7. IsPlan(plan, n) /\ n \in Nat /\ DOMAIN plan.wires = 1 .. n
  BY <1>3, <1>4 DEF Extends, IsPlan
<1>8. ASSUME NEW k \in 1 .. n
      PROVE  /\ plan.wires[k].offset \in Nat /\ plan.wires[k].wire.length \in Nat \ {0}
             /\ End(plan.wires[k]) = plan.wires[k].offset + plan.wires[k].wire.length
             /\ plan.wires[k].wire.cost \in [1 .. plan.wires[k].wire.length - 1 -> Nat]
  BY <1>7 DEF IsPlan, IsPlaced, IsWire, End
<1>9. Cells(r) = 0 .. length - 1
  BY <1>6 DEF Cells
<1>10. ASSUME NEW i \in Cells(r)
       PROVE  \/ r.cell[i] = Nothing /\ \A k \in 1 .. n : ~Inside(plan.wires[k], o + i)
              \/ \E k \in 1 .. n : /\ Inside(plan.wires[k], o + i)
                                   /\ r.cell[i] = <<k, (o + i) - plan.wires[k].offset>>
  <2>1. o + i \in Int /\ r.cell[i] = CellAt(plan, o + i)
    BY <1>5, <1>6, <1>9
  <2>2. CellOf(plan, n, o + i, CellAt(plan, o + i))
    BY <1>7, <2>1, CellIs
  <2>3. CellOf(plan, n, o + i, r.cell[i])
    BY <2>1, <2>2
  <2>4. QED
    BY <2>3 DEF CellOf
<1>11. ASSUME NEW i \in Cells(r), NEW k \in 1 .. n, Inside(plan.wires[k], o + i)
       PROVE  r.cell[i] = <<k, (o + i) - plan.wires[k].offset>>
  <2>1. PICK j \in 1 .. n : /\ Inside(plan.wires[j], o + i)
                            /\ r.cell[i] = <<j, (o + i) - plan.wires[j].offset>>
    BY <1>10, <1>11
  <2>2. o + i \in Int
    BY <1>5, <1>9
  <2>3. j = k
    BY <1>7, <1>11, <2>1, <2>2, OneWire
  <2>4. QED
    BY <2>1, <2>3
<1>12. ASSUME NEW i \in Cells(r)
       PROVE  /\ r.cell[i] \in Nat \X Nat
              /\ r.cell[i] = Nothing => r.dist[i] >= Infinity
              /\ r.dist[i] >= 0
  <2>1. d[i] \in Nat /\ (r.cell[i] = Nothing => d[i] = Infinity)
    BY <1>2, <1>4, <1>6, <1>9
  <2>2. r.cell[i] \in Nat \X Nat
    <3>1. CASE r.cell[i] = Nothing
      BY <3>1 DEF Nothing
    <3>2. CASE \E k \in 1 .. n : /\ Inside(plan.wires[k], o + i)
                                 /\ r.cell[i] = <<k, (o + i) - plan.wires[k].offset>>
      <4>1. PICK k \in 1 .. n : /\ Inside(plan.wires[k], o + i)
                                /\ r.cell[i] = <<k, (o + i) - plan.wires[k].offset>>
        BY <3>2
      <4>2. (o + i) - plan.wires[k].offset \in Nat
        BY <1>5, <1>8, <1>9, <4>1 DEF Inside
      <4>3. QED
        BY <4>1, <4>2
    <3>3. QED
      BY <1>10, <3>1, <3>2
  <2>3. QED
    BY <1>6, <2>1, <2>2, ThreadsAssumption
<1>13. ASSUME NEW i \in Cells(r), r.cell[i] # Nothing
       PROVE  {r.cell[j] : j \in {l \in Cells(r) : r.cell[l][1] = r.cell[i][1]}}
                = {<<r.cell[i][1], c>> : c \in 0 .. r.sizes[r.cell[i][1]] - 1}
  <2>1. PICK k \in 1 .. n : /\ Inside(plan.wires[k], o + i)
                            /\ r.cell[i] = <<k, (o + i) - plan.wires[k].offset>>
    BY <1>10, <1>13
  <2>2. PICK at, size : at = plan.wires[k].offset /\ size = plan.wires[k].wire.length
    OBVIOUS
  <2>3. /\ at \in Nat /\ size \in Nat \ {0} /\ End(plan.wires[k]) = at + size
        /\ r.cell[i][1] = k /\ r.sizes[k] = size
    <3>1. at \in Nat /\ size \in Nat \ {0} /\ End(plan.wires[k]) = at + size
      BY <1>8, <2>2
    <3>2. r.sizes[k] = size
      BY <1>6, <1>7, <2>2
    <3>3. QED
      BY <2>1, <3>1, <3>2
  <2>4. o <= at /\ at + size <= o + length
    BY <1>5, <1>9, <2>1, <2>2, <2>3
  <2>5. ASSUME NEW l \in Cells(r), r.cell[l][1] = k
        PROVE  \E c \in 0 .. size - 1 : r.cell[l] = <<k, c>>
    <3>1. r.cell[l] # Nothing
      BY <1>7, <2>5 DEF Nothing
    <3>2. PICK h \in 1 .. n : /\ Inside(plan.wires[h], o + l)
                              /\ r.cell[l] = <<h, (o + l) - plan.wires[h].offset>>
      BY <1>10, <3>1
    <3>3. h = k
      BY <2>5, <3>2
    <3>4. (o + l) - at \in 0 .. size - 1
      <4>1. at <= o + l /\ o + l < at + size
        BY <2>2, <2>3, <3>2, <3>3 DEF Inside
      <4>2. at \in Nat /\ o \in Nat /\ l \in Int /\ size \in Nat
        BY <1>5, <1>9, <2>3
      <4>3. QED
        BY ONLY <4>1, <4>2
    <3>5. QED
      BY <2>2, <3>2, <3>3, <3>4
  <2>6. ASSUME NEW c \in 0 .. size - 1
        PROVE  \E l \in Cells(r) : r.cell[l] = <<k, c>>
    <3>1. PICK l : l = at + c - o
      OBVIOUS
    <3>2. l \in Cells(r) /\ o + l = at + c
      BY <1>5, <1>9, <2>3, <2>4, <3>1
    <3>3. Inside(plan.wires[k], o + l)
      BY <2>2, <2>3, <3>2 DEF Inside
    <3>4. (o + l) - at = c
      <4>1. at \in Nat /\ c \in Int /\ o + l = at + c /\ o \in Nat /\ l \in Int
        BY <1>5, <1>9, <2>3, <3>2
      <4>2. QED
        BY ONLY <4>1
    <3>5. QED
      BY <1>11, <2>2, <3>2, <3>3, <3>4
  <2>7. {r.cell[j] : j \in {l \in Cells(r) : r.cell[l][1] = k}} = {<<k, c>> : c \in 0 .. size - 1}
    <3>1. ASSUME NEW c \in 0 .. size - 1
          PROVE  \E l \in {h \in Cells(r) : r.cell[h][1] = k} : r.cell[l] = <<k, c>>
      <4>1. PICK l \in Cells(r) : r.cell[l] = <<k, c>>
        BY <2>6
      <4>2. QED
        BY <4>1
    <3>2. ASSUME NEW j \in {l \in Cells(r) : r.cell[l][1] = k}
          PROVE  \E c \in 0 .. size - 1 : r.cell[j] = <<k, c>>
      BY <2>5, Zenon
    <3> DEFINE S == {l \in Cells(r) : r.cell[l][1] = k}
               N == 0 .. size - 1
    <3> HIDE DEF S, N
    <3>3. \A c \in N : \E l \in S : r.cell[l] = <<k, c>>
      BY <3>1 DEF S, N
    <3>4. \A j \in S : \E c \in N : r.cell[j] = <<k, c>>
      BY <3>2 DEF S, N
    <3>5. {r.cell[j] : j \in S} = {<<k, c>> : c \in N}
      BY <3>3, <3>4
    <3>6. QED
      BY <3>5 DEF S, N
  <2>8. QED
    BY <2>3, <2>7
<1>14. \A i \in Cells(r) : r.at[i] \in Int
  <2> DEFINE F == {i \in Nat : i \in Cells(r) => r.at[i] \in Int}
  <2>1. 0 \in F
    BY <1>6, <1>9
  <2>2. ASSUME NEW i \in Nat, i \in F
        PROVE  i + 1 \in F
    <3>1. SUFFICES ASSUME i + 1 \in Cells(r)
                   PROVE  r.at[i + 1] \in Int
      OBVIOUS
    <3>2. PICK j \in Nat : j = i + 1
      OBVIOUS
    <3>3. j \in Cells(r) /\ j # 0 /\ j - 1 = i /\ i \in Cells(r)
      BY <1>5, <1>9, <2>2, <3>1, <3>2
    <3>4. r.at[i] \in Int /\ r.at[j] = r.at[i] + CostAt(plan, o + j)
      BY <1>6, <1>9, <2>2, <3>3
    <3>5. r.cell[j] = CellAt(plan, o + j)
      BY <1>6, <1>9, <3>3
    <3>6. CASE CostAt(plan, o + j) = Infinity
      BY <3>2, <3>4, <3>6, ThreadsAssumption
    <3>7. CASE CostAt(plan, o + j) # Infinity
      <4>1. /\ r.cell[j] # Nothing /\ r.cell[j][2] # 0
            /\ CostAt(plan, o + j) = plan.wires[r.cell[j][1]].wire.cost[r.cell[j][2]]
        BY <3>5, <3>7 DEF CostAt
      <4>2. PICK k \in 1 .. n : /\ Inside(plan.wires[k], o + j)
                                /\ r.cell[j] = <<k, (o + j) - plan.wires[k].offset>>
        BY <1>10, <3>3, <4>1
      <4>3. (o + j) - plan.wires[k].offset \in 1 .. plan.wires[k].wire.length - 1
        <5>1. (o + j) - plan.wires[k].offset # 0
          BY <4>1, <4>2
        <5>2. PICK at, size : at = plan.wires[k].offset /\ size = plan.wires[k].wire.length
          OBVIOUS
        <5>3. at \in Nat /\ size \in Nat /\ at <= o + j /\ o + j < at + size
          BY <1>8, <4>2, <5>2 DEF Inside
        <5>4. QED
          BY <1>5, <5>1, <5>2, <5>3
      <4>4. CostAt(plan, o + j) \in Nat
        <5>1. PICK place : place = (o + j) - plan.wires[k].offset
          OBVIOUS
        <5>2. r.cell[j][1] = k /\ r.cell[j][2] = place
          BY <4>2, <5>1
        <5>3. plan.wires[k].wire.cost[place] \in Nat
          BY <1>8, <4>3, <5>1
        <5>4. QED
          BY <4>1, <5>2, <5>3
      <4>5. QED
        BY <3>2, <3>4, <4>4
    <3>8. QED
      BY <3>6, <3>7
  <2>3. Nat \subseteq F
    <3> HIDE DEF F
    <3>1. QED
      BY <2>1, <2>2, GrowingNumbers
  <2>4. QED
    BY <1>9, <2>3
<1>15. ASSUME NEW i \in 1 .. length - 1, r.at[i] - r.at[i - 1] < Infinity
       PROVE  /\ r.cell[i - 1] # Nothing /\ r.cell[i] # Nothing
              /\ r.cell[i] = <<r.cell[i - 1][1], r.cell[i - 1][2] + 1>>
  <2>1. i \in Cells(r) /\ i - 1 \in Cells(r) /\ i # 0 /\ i \in Int
    BY <1>5, <1>9
  <2>2. r.at[i] = r.at[i - 1] + CostAt(plan, o + i)
    BY <1>6, <1>9, <2>1
  <2>3. r.cell[i] = CellAt(plan, o + i)
    BY <1>6, <1>9, <2>1
  <2>4. r.at[i - 1] \in Int
    BY <1>14, <2>1
  <2>5. CostAt(plan, o + i) # Infinity
    <3>1. SUFFICES ASSUME CostAt(plan, o + i) = Infinity
                   PROVE  FALSE
      OBVIOUS
    <3>2. r.at[i] = r.at[i - 1] + Infinity
      BY <2>2, <3>1
    <3>3. QED
      BY <1>15, <2>4, <3>2, ThreadsAssumption
  <2>6. r.cell[i] # Nothing /\ r.cell[i][2] # 0
    BY <2>3, <2>5 DEF CostAt
  <2>7. PICK k \in 1 .. n : /\ Inside(plan.wires[k], o + i)
                            /\ r.cell[i] = <<k, (o + i) - plan.wires[k].offset>>
    BY <1>10, <2>1, <2>6
  <2>8. PICK at \in Nat : at = plan.wires[k].offset
    BY <1>8
  <2>9. /\ at <= o + i /\ o + i < End(plan.wires[k]) /\ (o + i) - at # 0
        /\ End(plan.wires[k]) \in Nat /\ o \in Nat
    <3>1. at <= o + i /\ o + i < End(plan.wires[k])
      BY <2>7, <2>8 DEF Inside
    <3>2. r.cell[i][2] = (o + i) - at
      BY <2>7, <2>8
    <3>3. End(plan.wires[k]) \in Nat
      BY <1>8
    <3>4. QED
      BY <1>5, <2>6, <3>1, <3>2, <3>3
  <2>10. at <= o + (i - 1) /\ o + (i - 1) < End(plan.wires[k]) /\ (o + i) - at = ((o + (i - 1)) - at) + 1
    BY ONLY <2>1, <2>9, at \in Nat
  <2>11. r.cell[i - 1] = <<k, (o + (i - 1)) - at>>
    <3>1. Inside(plan.wires[k], o + (i - 1))
      BY <2>8, <2>10 DEF Inside
    <3>2. QED
      BY <1>11, <2>1, <2>8, <3>1
  <2>12. r.cell[i] = <<k, ((o + (i - 1)) - at) + 1>>
    BY <2>7, <2>8, <2>10
  <2>13. k # 0
    BY <1>7
  <2>14. QED
    BY <2>6, <2>11, <2>12, <2>13 DEF Nothing
<1>16. Apart(r)
  BY <1>5, <1>6, <1>12, <1>13, <1>15 DEF Apart
<1>17. ASSUME NEW dear \in Nat, PricedUpTo(plan, dear), NEW a \in Cells(r), NEW e \in Cells(r),
              NEW i \in Cells(r), a < i, i <= e,
              r.cell[a] # Nothing \/ r.cell[e] # Nothing,
              r.cell[e][1] = r.cell[a][1], r.layers[r.cell[a][1]] # 0
       PROVE  r.at[i] - r.at[i - 1] <= dear
  <2>1. PICK k \in 1 .. n : /\ Inside(plan.wires[k], o + a)
                            /\ r.cell[a] = <<k, (o + a) - plan.wires[k].offset>>
    <3>1. r.cell[a] # Nothing
      <4>1. CASE r.cell[a] # Nothing
        BY <4>1
      <4>2. CASE r.cell[e] # Nothing
        <5>1. PICK h \in 1 .. n : r.cell[e] = <<h, (o + e) - plan.wires[h].offset>>
          BY <1>10, <1>17, <4>2
        <5>2. r.cell[a][1] = h /\ h # 0
          BY <1>7, <1>17, <5>1
        <5>3. QED
          BY <5>2 DEF Nothing
      <4>3. QED
        BY <1>17, <4>1, <4>2
    <3>2. QED
      BY <1>10, <1>17, <3>1
  <2>2. PICK at, size : at = plan.wires[k].offset /\ size = plan.wires[k].wire.length
    OBVIOUS
  <2>3. at \in Nat /\ size \in Nat \ {0} /\ End(plan.wires[k]) = at + size
        /\ plan.wires[k].wire.cost \in [1 .. size - 1 -> Nat]
    BY <1>8, <2>2
  <2>4. r.cell[a][1] = k /\ k # 0
    BY <1>7, <2>1
  <2>5. Inside(plan.wires[k], o + e)
    <3>1. r.cell[e] # Nothing
      BY <1>17, <2>4 DEF Nothing
    <3>2. PICK h \in 1 .. n : /\ Inside(plan.wires[h], o + e)
                              /\ r.cell[e] = <<h, (o + e) - plan.wires[h].offset>>
      BY <1>10, <3>1
    <3>3. h = k
      BY <1>17, <2>4, <3>2
    <3>4. QED
      BY <3>2, <3>3
  <2>6. o \in Nat /\ a \in Nat /\ i \in Nat /\ e \in Nat
    BY <1>5, <1>9
  <2>7. at <= o + a /\ o + e < at + size
    BY <2>1, <2>2, <2>3, <2>5 DEF Inside
  <2>8. at <= o + i /\ o + i < at + size /\ (o + i) - at \in 1 .. size - 1
    <3>1. a < i /\ i <= e
      BY <1>17
    <3>2. at \in Nat /\ size \in Nat
      BY <2>3
    <3>3. QED
      BY <2>6, <2>7, <3>1, <3>2
  <2>9. r.cell[i] = <<k, (o + i) - at>>
    <3>1. Inside(plan.wires[k], o + i)
      BY <2>2, <2>3, <2>8 DEF Inside
    <3>2. QED
      BY <1>11, <2>2, <3>1
  <2>10. r.cell[i] = CellAt(plan, o + i) /\ r.at[i] = r.at[i - 1] + CostAt(plan, o + i)
    <3>1. i # 0
      BY <1>17, <2>6
    <3>2. QED
      BY <1>6, <1>9, <3>1
  <2>11. plan.wires[k].wire.z # 0
    BY <1>6, <1>7, <1>17, <2>4
  <2>12. CostAt(plan, o + i) = plan.wires[k].wire.cost[(o + i) - at]
    <3>1. CellAt(plan, o + i) = <<k, (o + i) - at>> /\ (o + i) - at # 0
      BY <2>8, <2>9, <2>10
    <3>2. CellAt(plan, o + i) # Nothing
      BY <2>4, <3>1 DEF Nothing
    <3>3. QED
      BY <2>11, <3>1, <3>2 DEF CostAt
  <2>13. CostAt(plan, o + i) \in Nat /\ CostAt(plan, o + i) <= dear
    BY <1>7, <1>17, <2>2, <2>3, <2>8, <2>11, <2>12 DEF PricedUpTo
  <2>14. r.at[i - 1] \in Int
    <3>1. i - 1 \in Cells(r)
      BY <1>5, <1>9, <1>17, <2>6
    <3>2. QED
      BY <1>14, <3>1
  <2>15. QED
    BY <2>10, <2>13, <2>14
<1>18. QED
  BY <1>4, <1>6, <1>16, <1>17 DEF WirePriced

(* The rows of every packing keep their wires apart: whatever the lengths  *)
(* and the costs of the wires, setGuide2D and packWireToRows lay each out  *)
(* whole in the row of one block, with Infinity between two of them.       *)
THEOREM PackedRowsApart ==
  ASSUME NEW r, Packed(r)
  PROVE  Apart(r)
BY PackedRow DEF Packed

(* Along edges below Infinity the cells are those of one wire.             *)
LEMMA WireGoesOn ==
  ASSUME NEW r, Apart(r), NEW a \in Cells(r), NEW b \in Cells(r), a <= b,
         \A i \in a + 1 .. b : r.at[i] - r.at[i - 1] < Infinity
  PROVE  \A i \in a .. b : r.cell[i] = <<r.cell[a][1], r.cell[a][2] + (i - a)>>
<1>1. r.length \in Nat \ {0} /\ a \in Nat /\ b \in Nat /\ b <= r.length - 1
  BY DEF Apart, Cells
<1>2. r.cell[a] \in Nat \X Nat
  BY DEF Apart
<1> DEFINE F == {k \in Nat : a + k <= b => r.cell[a + k] = <<r.cell[a][1], r.cell[a][2] + k>>}
<1>3. 0 \in F
  <2>1. a + 0 = a /\ r.cell[a] = <<r.cell[a][1], r.cell[a][2]>> /\ r.cell[a][2] + 0 = r.cell[a][2]
    BY <1>1, <1>2
  <2>2. QED
    BY <2>1
<1>4. ASSUME NEW k \in Nat, k \in F
      PROVE  k + 1 \in F
  <2>1. SUFFICES ASSUME a + (k + 1) <= b
                 PROVE  r.cell[a + (k + 1)] = <<r.cell[a][1], r.cell[a][2] + (k + 1)>>
    OBVIOUS
  <2>2. PICK i \in Nat : i = a + (k + 1)
    BY <1>1
  <2>3. i \in a + 1 .. b /\ i \in 1 .. r.length - 1 /\ i - 1 = a + k /\ a + k <= b
    BY <1>1, <2>1, <2>2
  <2>4. r.cell[i] = <<r.cell[i - 1][1], r.cell[i - 1][2] + 1>>
    <3>1. r.at[i] - r.at[i - 1] < Infinity
      BY <2>3
    <3>2. QED
      BY <2>3, <3>1 DEF Apart
  <2>5. r.cell[i - 1] = <<r.cell[a][1], r.cell[a][2] + k>>
    BY <1>4, <2>3
  <2>6. QED
    BY <1>2, <2>2, <2>4, <2>5
<1>5. ASSUME NEW i \in a .. b
      PROVE  r.cell[i] = <<r.cell[a][1], r.cell[a][2] + (i - a)>>
  <2>1. Nat \subseteq F
    <3> HIDE DEF F
    <3>1. QED
      BY <1>3, <1>4, GrowingNumbers
  <2>2. PICK k \in Nat : k = i - a
    BY <1>1
  <2>3. a + k = i /\ a + k <= b
    BY <1>1, <2>2
  <2>4. QED
    BY <2>1, <2>2, <2>3
<1>6. QED
  BY <1>5

(* A way shorter than Infinity has no edge of Infinity.                    *)
LEMMA ShortWays ==
  ASSUME NEW r \in WireRows, Apart(r), NEW a \in Cells(r), NEW b \in Cells(r), a <= b,
         r.at[b] - r.at[a] < Infinity
  PROVE  \A i \in a + 1 .. b : r.at[i] - r.at[i - 1] < Infinity
<1>1. /\ r.length \in Nat \ {0} /\ a \in Nat /\ b \in Nat /\ b <= r.length - 1 /\ Infinity \in Nat
      /\ \A i \in 0 .. r.length - 1 : r.at[i] \in Int
      /\ \A i, j \in 0 .. r.length - 1 : i <= j => r.at[i] <= r.at[j]
  <2>1. r \in Rows
    BY DEF Rows
  <2>2. Infinity \in Nat
    BY ThreadsAssumption
  <2>3. QED
    BY <2>1, <2>2, RowsAssumption DEF Cells
<1>2. ASSUME NEW i \in a + 1 .. b
      PROVE  r.at[i] - r.at[i - 1] < Infinity
  <2>1. i \in 0 .. r.length - 1 /\ i - 1 \in 0 .. r.length - 1 /\ a <= i - 1 /\ i <= b
        /\ a \in 0 .. r.length - 1 /\ b \in 0 .. r.length - 1
    BY <1>1
  <2>2. r.at[a] <= r.at[i - 1] /\ r.at[i] <= r.at[b]
    BY <1>1, <2>1
  <2>3. r.at[a] \in Int /\ r.at[i - 1] \in Int /\ r.at[i] \in Int /\ r.at[b] \in Int
    BY <1>1, <2>1
  <2>4. QED
    BY <1>1, <2>2, <2>3
<1>3. QED
  BY <1>2

(* The way along a wire costs no more than the dearest edge for each step. *)
LEMMA WireCosts ==
  ASSUME NEW r \in WireRows, NEW dear \in Nat, WirePriced(r, dear),
         NEW a \in Cells(r), NEW b \in Cells(r), a <= b,
         r.cell[a] # Nothing \/ r.cell[b] # Nothing,
         r.cell[b][1] = r.cell[a][1], r.layers[r.cell[a][1]] # 0
  PROVE  r.at[b] - r.at[a] <= dear * r.length
<1>1. /\ r.length \in Nat \ {0} /\ a \in Nat /\ b \in Nat /\ b <= r.length - 1
      /\ Cells(r) = 0 .. r.length - 1 /\ \A i \in Cells(r) : r.at[i] \in Int
  <2>1. r \in Rows
    BY DEF Rows
  <2>2. QED
    BY <2>1, RowsAssumption, SMTT(30) DEF Cells
<1> DEFINE F == {k \in Nat : a + k <= b => r.at[a + k] - r.at[a] <= dear * k}
<1>2. 0 \in F
  <2>1. a + 0 = a /\ dear * 0 = 0 /\ r.at[a] \in Int
    BY <1>1
  <2>2. QED
    BY <2>1
<1>3. ASSUME NEW k \in Nat, k \in F
      PROVE  k + 1 \in F
  <2>1. SUFFICES ASSUME a + (k + 1) <= b
                 PROVE  r.at[a + (k + 1)] - r.at[a] <= dear * (k + 1)
    OBVIOUS
  <2>2. PICK i \in Nat : i = a + (k + 1)
    BY <1>1
  <2>3. i \in Cells(r) /\ i - 1 \in Cells(r) /\ a < i /\ i <= b /\ i - 1 = a + k /\ a + k <= b
    BY <1>1, <2>1, <2>2
  <2>4. r.at[i] - r.at[i - 1] <= dear
    BY <2>3 DEF WirePriced
  <2>5. r.at[i - 1] - r.at[a] <= dear * k
    BY <1>3, <2>3
  <2>6. r.at[i] \in Int /\ r.at[i - 1] \in Int /\ r.at[a] \in Int
    BY <1>1, <2>3
  <2>7. dear * (k + 1) = dear * k + dear /\ dear * k \in Nat
    OBVIOUS
  <2>8. QED
    BY <2>2, <2>4, <2>5, <2>6, <2>7
<1>4. Nat \subseteq F
  <2> HIDE DEF F
  <2>1. QED
    BY <1>2, <1>3, GrowingNumbers
<1>5. PICK k \in Nat : k = b - a
  BY <1>1
<1>6. r.at[b] - r.at[a] <= dear * k
  <2>1. k \in F
    BY <1>4, <1>5
  <2>2. a + k = b /\ a + k <= b
    BY <1>1, <1>5
  <2>3. r.at[a + k] - r.at[a] <= dear * k
    BY <2>1, <2>2
  <2>4. QED
    BY <2>2, <2>3
<1>7. dear * k <= dear * r.length /\ dear * k \in Nat /\ dear * r.length \in Nat
  <2>1. dear * (r.length - k) \in Nat /\ dear * k \in Nat
    BY <1>1, <1>5
  <2>2. dear * r.length = dear * k + dear * (r.length - k)
    BY <1>1, <1>5
  <2>3. QED
    BY <1>1, <2>1, <2>2
<1>8. QED
  <2>1. PICK way \in Int : way = r.at[b] - r.at[a]
    BY <1>1
  <2>2. PICK less, most \in Nat : less = dear * k /\ most = dear * r.length
    BY <1>7
  <2>3. way <= less /\ less <= most
    BY <1>6, <1>7, <2>1, <2>2
  <2>4. QED
    BY <2>1, <2>2, <2>3

(* Whatever wires a guide has, and however the threads of a block run: a   *)
(* row of sweepWireGlobal holds its wires whole, a sweep gives no cell a   *)
(* distance that comes from another wire, and if it reaches a cell of a    *)
(* wire it reaches all of them.                                            *)
THEOREM WiresKeptApart ==
  (\A r \in WireRows : Affordable(r)) => (Spec => []WiresStayApart)
<1> SUFFICES ASSUME \A r \in WireRows : Affordable(r)
             PROVE  Spec => []WiresStayApart
  OBVIOUS
<1>1. Inv /\ SweepIsShortest => WiresStayApart
  <2> SUFFICES ASSUME Inv, SweepIsShortest, kernel = "sweep", out # <<>>, NEW i \in Cells(row)
               PROVE  /\ row.cell[i] # Nothing =>
                           {row.cell[j] : j \in {m \in Cells(row) : row.cell[m][1] = row.cell[i][1]}}
                             = {<<row.cell[i][1], n>> : n \in 0 .. row.sizes[row.cell[i][1]] - 1}
                      /\ out.dist[i] < Infinity =>
                           /\ row.cell[i] # Nothing
                           /\ \A j \in Cells(row) :
                                (out.prev[i] <= j /\ j <= i) \/ (i <= j /\ j <= out.prev[i]) =>
                                  row.cell[j] = <<row.cell[i][1], row.cell[i][2] + (j - i)>>
                           /\ row.layers[row.cell[i][1]] # 0 =>
                                \A j \in Cells(row) :
                                  row.cell[j][1] = row.cell[i][1] => out.dist[j] < Infinity
    BY DEF WiresStayApart
  <2>1. row \in WireRows /\ row \in Rows /\ Apart(row)
    <3>1. row \in WireRows /\ row \in Rows
      BY DEF Inv, TypeOK
    <3>2. QED
      BY <3>1, PackedRow DEF Affordable
  <2>2. SUFFICES ASSUME out.dist[i] < Infinity
                 PROVE  /\ row.cell[i] # Nothing
                        /\ \A j \in Cells(row) :
                             (out.prev[i] <= j /\ j <= i) \/ (i <= j /\ j <= out.prev[i]) =>
                               row.cell[j] = <<row.cell[i][1], row.cell[i][2] + (j - i)>>
                        /\ row.layers[row.cell[i][1]] # 0 =>
                             \A j \in Cells(row) :
                               row.cell[j][1] = row.cell[i][1] => out.dist[j] < Infinity
    BY <2>1 DEF Apart
  <2>3. PICK p : p = out.prev[i]
    OBVIOUS
  <2>4. p \in Cells(row) /\ Through(p, i) = out.dist[i]
    BY <2>3 DEF SweepIsShortest
  <2>5. /\ row.length \in Nat \ {0} /\ Infinity \in Nat /\ Cells(row) = 0 .. row.length - 1
        /\ row.at[i] \in Int /\ row.at[p] \in Int /\ row.dist[p] \in Int
        /\ p <= i => row.at[p] <= row.at[i]
        /\ i <= p => row.at[i] <= row.at[p]
    BY <2>1, <2>4, RowsAssumption, ThreadsAssumption DEF Cells
  <2>6. row.dist[p] >= 0 /\ (row.cell[p] = Nothing => row.dist[p] >= Infinity)
    BY <2>1, <2>4 DEF Apart
  <2>7. Distance(row.at[p], row.at[i]) \in Nat
        /\ row.dist[p] + Distance(row.at[p], row.at[i]) < Infinity
    BY <2>2, <2>4, <2>5 DEF Through, Distance
  <2>8. row.cell[p] # Nothing /\ row.cell[p] \in Nat \X Nat /\ row.cell[i] \in Nat \X Nat
    <3>1. row.dist[p] < Infinity
      BY <2>5, <2>6, <2>7
    <3>2. row.cell[p] # Nothing
      BY <2>5, <2>6, <3>1
    <3>3. QED
      BY <2>1, <2>4, <3>2 DEF Apart
  <2>12. SUFFICES /\ row.cell[i] # Nothing
                  /\ \A j \in Cells(row) : (p <= j /\ j <= i) \/ (i <= j /\ j <= p) =>
                       row.cell[j] = <<row.cell[i][1], row.cell[i][2] + (j - i)>>
    <3> SUFFICES ASSUME row.cell[i] # Nothing,
                        \A j \in Cells(row) : (p <= j /\ j <= i) \/ (i <= j /\ j <= p) =>
                          row.cell[j] = <<row.cell[i][1], row.cell[i][2] + (j - i)>>,
                        row.layers[row.cell[i][1]] # 0,
                        NEW j \in Cells(row), row.cell[j][1] = row.cell[i][1]
                 PROVE  out.dist[j] < Infinity
      BY <2>3, <2>12
    <3>1. row.cell[p][1] = row.cell[i][1]
      <4>1. (p <= p /\ p <= i) \/ (i <= p /\ p <= p)
        BY <2>4, <2>5
      <4>2. QED
        BY <2>4, <4>1
    <3>2. PICK dear \in Nat : /\ WirePriced(row, dear)
                              /\ row.dist[p] < Infinity => row.dist[p] + dear * row.length < Infinity
      <4>1. PICK wires, b, d : \E dear \in Nat :
              /\ PackedFrom(wires, b, d, row)
              /\ PricedUpTo(PackPlan(wires), dear)
              /\ \A m \in 0 .. b[2] - 1 : d[m] < Infinity => d[m] + dear * b[2] < Infinity
        BY <2>1 DEF Affordable
      <4>2. PICK dear \in Nat :
              /\ PackedFrom(wires, b, d, row)
              /\ PricedUpTo(PackPlan(wires), dear)
              /\ \A m \in 0 .. b[2] - 1 : d[m] < Infinity => d[m] + dear * b[2] < Infinity
        BY <4>1
      <4>3. row.length = b[2] /\ row.dist = d /\ WirePriced(row, dear)
        BY <4>2, PackedRow
      <4>4. QED
        BY <2>4, <2>5, <4>2, <4>3
    <3>3. row.dist[p] + dear * row.length < Infinity
      BY <2>5, <2>6, <2>7, <3>2
    <3>4. dear * row.length \in Nat /\ row.at[j] \in Int /\ j \in Int /\ p \in Int
      <4>1. row.length \in Nat /\ row.at[j] \in Int /\ j \in Int /\ p \in Int
        BY <2>1, <2>4, <2>5, RowsAssumption
      <4>2. QED
        BY <4>1
    <3>5. Distance(row.at[p], row.at[j]) <= dear * row.length
      <4>1. CASE p <= j
        <5>1. row.at[j] - row.at[p] <= dear * row.length
          BY <2>1, <2>4, <2>8, <3>1, <3>2, <4>1, WireCosts
        <5>2. row.at[p] <= row.at[j]
          BY <2>1, <2>4, <2>5, <4>1, RowsAssumption
        <5>3. QED
          BY <2>5, <3>4, <5>1, <5>2, SMTT(30) DEF Distance
      <4>2. CASE j <= p
        <5>1. row.at[p] - row.at[j] <= dear * row.length
          BY <2>1, <2>4, <2>8, <3>1, <3>2, <4>2, WireCosts
        <5>2. row.at[j] <= row.at[p]
          BY <2>1, <2>4, <2>5, <4>2, RowsAssumption
        <5>3. QED
          BY <2>5, <3>4, <5>1, <5>2 DEF Distance
      <4>3. QED
        BY <3>4, <4>1, <4>2
    <3>6. out.dist[j] <= Through(p, j) /\ out.dist[j] \in Int
      <4>1. out.prev[j] \in Cells(row) /\ Through(out.prev[j], j) = out.dist[j]
            /\ out.dist[j] <= Through(p, j)
        BY <2>4 DEF SweepIsShortest
      <4>2. row.at[out.prev[j]] \in Int /\ row.dist[out.prev[j]] \in Int
        BY <2>1, <4>1, RowsAssumption DEF Cells
      <4>3. QED
        BY <3>4, <4>1, <4>2 DEF Through, Distance
    <3>7. Through(p, j) = row.dist[p] + Distance(row.at[p], row.at[j])
          /\ Distance(row.at[p], row.at[j]) \in Int
      BY <2>5, <3>4 DEF Through, Distance
    <3>8. PICK most \in Nat : most = dear * row.length
      BY <3>4
    <3>9. QED
      BY <2>5, <3>3, <3>5, <3>6, <3>7, <3>8, SMTT(30)
  <2>9. CASE p <= i
    <3>1. row.at[i] - row.at[p] < Infinity
      BY <2>5, <2>6, <2>7, <2>9 DEF Distance
    <3>2. \A j \in p + 1 .. i : row.at[j] - row.at[j - 1] < Infinity
      BY <2>1, <2>4, <2>9, <3>1, ShortWays
    <3>3. \A j \in p .. i : row.cell[j] = <<row.cell[p][1], row.cell[p][2] + (j - p)>>
      BY <2>1, <2>4, <2>9, <3>2, WireGoesOn
    <3>4. row.cell[p][1] \in Nat /\ row.cell[p][2] \in Nat /\ i \in Int /\ p \in Int
      BY <2>4, <2>5, <2>8
    <3>5. row.cell[i] = <<row.cell[p][1], row.cell[p][2] + (i - p)>>
      BY <2>9, <3>3, <3>4
    <3>6. row.cell[i] # Nothing
      <4>1. CASE p = i
        BY <2>8, <4>1
      <4>2. CASE p < i
        <5>1. i \in 1 .. row.length - 1 /\ i \in p + 1 .. i
          BY <2>4, <2>5, <3>4, <4>2
        <5>2. row.at[i] - row.at[i - 1] < Infinity
          BY <3>2, <5>1
        <5>3. QED
          BY <2>1, <5>1, <5>2 DEF Apart
      <4>3. QED
        BY <2>9, <3>4, <4>1, <4>2
    <3>7. ASSUME NEW j \in Cells(row), (p <= j /\ j <= i) \/ (i <= j /\ j <= p)
          PROVE  row.cell[j] = <<row.cell[i][1], row.cell[i][2] + (j - i)>>
      <4>1. j \in Int /\ j \in p .. i
        BY <2>5, <2>9, <3>4, <3>7
      <4>2. row.cell[j] = <<row.cell[p][1], row.cell[p][2] + (j - p)>>
        BY <3>3, <4>1
      <4>3. row.cell[p][2] + (j - p) = (row.cell[p][2] + (i - p)) + (j - i)
        BY <3>4, <4>1
      <4>4. QED
        BY <3>5, <4>2, <4>3
    <3>8. QED
      BY <2>3, <3>6, <3>7
  <2>10. CASE i < p
    <3>1. row.at[p] - row.at[i] < Infinity
      BY <2>5, <2>6, <2>7, <2>10, SMTT(30) DEF Distance
    <3>2. i <= p /\ i \in Int /\ p \in Int
      BY <2>4, <2>5, <2>10
    <3>3. \A j \in i + 1 .. p : row.at[j] - row.at[j - 1] < Infinity
      BY <2>1, <2>4, <3>1, <3>2, ShortWays
    <3>4. \A j \in i .. p : row.cell[j] = <<row.cell[i][1], row.cell[i][2] + (j - i)>>
      BY <2>1, <2>4, <3>2, <3>3, WireGoesOn
    <3>5. row.cell[i] # Nothing
      <4>1. PICK k : k = i + 1
        OBVIOUS
      <4>2. k \in 1 .. row.length - 1 /\ k \in i + 1 .. p /\ k - 1 = i
        BY <2>4, <2>5, <2>10, <3>2, <4>1
      <4>3. row.at[k] - row.at[k - 1] < Infinity
        BY <3>3, <4>2
      <4>4. row.cell[k - 1] # Nothing
        BY <2>1, <4>2, <4>3 DEF Apart
      <4>5. QED
        BY <4>2, <4>4
    <3>6. \A j \in Cells(row) : (p <= j /\ j <= i) \/ (i <= j /\ j <= p) => j \in i .. p
      BY <2>5, <2>10, <3>2
    <3>7. QED
      BY <2>3, <3>4, <3>5, <3>6
  <2>11. QED
    BY <2>4, <2>5, <2>9, <2>10
<1>2. QED
  BY <1>1, Invariant, SweepsAreShortest, PTL
=============================================================================
