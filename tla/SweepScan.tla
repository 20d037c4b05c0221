----------------------------- MODULE SweepScan -----------------------------
(***************************************************************************)
(* One block of a sweep kernel of the GPU maze router: sweepWireGlobal     *)
(* (gamer/GuidedGamer.cu) relaxes the distances of a packed row in both    *)
(* directions with a parallel scan, and calculateWireCostSumHorizontal     *)
(* (gamer/BasicGamer2D.cu) sums up the costs of a row with the same scan.  *)
(* The threads of a block run in any order between two __syncthreads().    *)
(*                                                                         *)
(* A row is given by its length, the position at[i] of cell i (the cost of *)
(* the edge to cell i is at[i] - at[i - 1]) and the distances dist[i].     *)
(* Wires packed into one row are Infinity apart; no edge costs less than 0. *)
(***************************************************************************)
EXTENDS Integers

CONSTANTS WireRows,   \* the packed rows that are swept
          GridRows,   \* the rows of the grid that are summed up
          BlockDim,   \* the largest number of threads of a block
          Infinity    \* INFINITY_DISTANCE

ASSUME ThreadsAssumption == BlockDim \in Nat \ {0} /\ Infinity \in Nat

Rows == WireRows \cup GridRows

ASSUME RowsAssumption ==
  \A r \in Rows :
    /\ r.length \in Nat \ {0}
    /\ r.at \in [0 .. r.length - 1 -> Int]
    /\ \A i, j \in 0 .. r.length - 1 : i <= j => r.at[i] <= r.at[j]
    /\ r.dist \in [0 .. r.length - 1 -> Int]

VARIABLES kernel,    \* "sweep" or "sum"
          row,
          cost,      \* cL and cR; sum
          dist,      \* dL and dR
          prev,      \* pL and pR
          span,      \* 1 << d
          cur,       \* cur of each thread
          out        \* what Store wrote to distAtRow and prevAtRow

vars == <<kernel, row, cost, dist, prev, span, cur, out>>

Sides == {"L", "R"}
Cells(r) == 0 .. r.length - 1

(* The right scan sees the row from its other end.                         *)
Seen(r, s, i) == IF s = "L" THEN i ELSE r.length - 1 - i
Position(r, s, i) == IF s = "L" THEN r.at[i] ELSE -r.at[Seen(r, s, i)]

(* blockDim.x: a sum has min(1024, length / 2) threads, a sweep always as  *)
(* many as a packed row needs.                                             *)
BlockSize ==
  IF kernel = "sweep" \/ row.length \div 2 > BlockDim THEN BlockDim ELSE row.length \div 2
Threads == 0 .. BlockSize - 1

Init ==
  /\ kernel \in {"sweep", "sum"}
  /\ row \in IF kernel = "sweep" THEN WireRows ELSE GridRows
  /\ cost = [s \in Sides |-> [i \in Cells(row) |->
               IF i > 0 THEN Position(row, s, i) - Position(row, s, i - 1)
               ELSE IF kernel = "sum" THEN row.at[0] ELSE 0]]
  /\ dist = [s \in Sides |-> [i \in Cells(row) |-> row.dist[Seen(row, s, i)]]]
  /\ prev = [s \in Sides |-> [i \in Cells(row) |-> i]]
  /\ span = 1
  /\ cur = [t \in Threads |-> t]
  /\ out = <<>>

-----------------------------------------------------------------------------
(* The k-th pair of a round: the entry that is updated, which has bit d in *)
(* its index, and the last entry of the span before it.                    *)
DstOfSpan(k) == (k \div span) * span + span + (k % span)    \* mutant: << d, not << (d + 1)
Dst(k) == (k \div span) * (2 * span) + span + (k % span)
Src(k) == (k \div span) * (2 * span) + span - 1

Half == row.length \div 2

(* sweepWireGlobal, the body of the inner loop.                            *)
Closer(s, k) == dist[s][Dst(k)] > dist[s][Src(k)] + cost[s][Dst(k)]

SweepStep(t) ==
  LET k == cur[t] IN
  /\ kernel = "sweep" /\ span < row.length
  /\ k < Half
  /\ IF Dst(k) < row.length
     THEN /\ dist' = [s \in Sides |-> IF Closer(s, k)
                        THEN [dist[s] EXCEPT ![Dst(k)] = dist[s][Src(k)] + cost[s][Dst(k)]]
                        ELSE dist[s]]
          /\ prev' = [s \in Sides |-> IF Closer(s, k)
                        THEN [prev[s] EXCEPT ![Dst(k)] = prev[s][Src(k)]]
                        ELSE prev[s]]
          /\ cost' = [s \in Sides |->
                        [cost[s] EXCEPT ![Dst(k)] = cost[s][Dst(k)] + cost[s][Src(k)]]]
     ELSE UNCHANGED <<dist, prev, cost>>
  /\ cur' = [cur EXCEPT ![t] = k + BlockSize]
  /\ UNCHANGED <<kernel, row, span, out>>

(* calculateWireCostSum: the pair is chosen by threadIdx.x, not by cur.    *)
SumStep(t) ==
  /\ kernel = "sum" /\ span < row.length
  /\ cur[t] < Half
  /\ cost' = IF Dst(t) < row.length
             THEN [cost EXCEPT !["L"][Dst(t)] = cost["L"][Dst(t)] + cost["L"][Src(t)]]
             ELSE cost
  /\ cur' = [cur EXCEPT ![t] = cur[t] + BlockSize]
  /\ UNCHANGED <<kernel, row, dist, prev, span, out>>

SomeArrived == \E t \in Threads : cur[t] >= Half    \* mutant: no barrier
AllArrived == \A t \in Threads : cur[t] >= Half

(* __syncthreads(), and the next round of the loop over d.                 *)
Sync ==
  /\ span < row.length
  /\ AllArrived
  /\ span' = 2 * span
  /\ cur' = [t \in Threads |-> t]
  /\ UNCHANGED <<kernel, row, cost, dist, prev, out>>

(* The last loop of the kernel; every thread writes cells of its own.      *)
Store ==
  LET Mirror(i) == row.length - 1 - i
      FromRight(i) == dist["L"][i] > dist["R"][Mirror(i)]
  IN
  /\ span >= row.length /\ out = <<>>
  /\ out' = [dist |-> [i \in Cells(row) |->
                         IF FromRight(i) THEN dist["R"][Mirror(i)] ELSE dist["L"][i]],
             prev |-> [i \in Cells(row) |->
                         IF FromRight(i) THEN Mirror(prev["R"][Mirror(i)]) ELSE prev["L"][i]]]
  /\ UNCHANGED <<kernel, row, cost, dist, prev, span, cur>>

(* The kernel has returned.                                                *)
Finished == out # <<>> /\ UNCHANGED vars

Next ==
  \/ \E t \in Threads : SweepStep(t) \/ SumStep(t)
  \/ Sync \/ Store
  \/ Finished

Spec == Init /\ [][Next]_vars
-----------------------------------------------------------------------------
Distance(a, b) == IF a < b THEN b - a ELSE a - b

(* The length of the path to cell i that starts in cell j.                 *)
Through(j, i) == row.dist[j] + Distance(row.at[j], row.at[i])

(* A sweep leaves every cell the length of the shortest path to it along   *)
(* the row, and as prev the cell that path starts in: of several, the      *)
(* nearest on its left (the cell itself if it got no closer), or the       *)
(* nearest on its right if none is on its left, however the threads are    *)
(* scheduled.                                                              *)
SweepIsShortest ==
  kernel = "sweep" /\ out # <<>> =>
    \A i \in Cells(row) :
      LET p == out.prev[i]
          Best(j) == Through(j, i) = out.dist[i]
      IN /\ p \in Cells(row) /\ Best(p)
         /\ \A j \in Cells(row) :
              /\ out.dist[i] <= Through(j, i)
              /\ Best(j) => IF p <= i THEN j <= p \/ j > i ELSE j >= p

(* Between two barriers no thread writes what another one reads or writes: *)
(* the pairs of a round share no entry, except the one they only read.     *)
RaceFree ==
  kernel = "sweep" =>
    \A j, k \in 0 .. Half - 1 : /\ j # k => Dst(j) # Dst(k)
                                /\ Dst(j) # Src(k)

(* The sums of a row are right if half of the row gets a thread per entry  *)
(* (1024 at most): the kernel never looks past its first BlockDim pairs.   *)
SumsExact ==
  kernel = "sum" /\ out # <<>> /\ Half <= BlockDim =>
    cost["L"] = row.at
=============================================================================
