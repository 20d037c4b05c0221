---------------------------- MODULE ParallelFor ----------------------------
(***************************************************************************)
(* What a caller of runJobsMT may rely on: handle(j) runs once for every   *)
(* job index j, the call returns only when all of them have finished, and  *)
(* nothing is promised about their order or overlap, except that a call    *)
(* that was not given at least two threads and two jobs never overlaps     *)
(* two of them.                                                            *)
(***************************************************************************)
EXTENDS Integers

CONSTANT JobSets    \* the sets of job indices a call can be made with

VARIABLES status,   \* status[j]: "todo", "running" or "done"
          parallel, \* may two jobs of this call overlap?
          returned  \* has the call returned?

vars == <<status, parallel, returned>>

Init ==
  /\ \E J \in JobSets : status = [j \in J |-> "todo"]
  /\ parallel \in BOOLEAN
  /\ returned = FALSE

Start(j) ==
  /\ status[j] = "todo"
  /\ parallel \/ \A k \in DOMAIN status : status[k] # "running"
  /\ status' = [status EXCEPT ![j] = "running"]
  /\ UNCHANGED <<parallel, returned>>

Finish(j) ==
  /\ status[j] = "running"
  /\ status' = [status EXCEPT ![j] = "done"]
  /\ UNCHANGED <<parallel, returned>>

Return ==
  /\ ~returned
  /\ \A j \in DOMAIN status : status[j] = "done"
  /\ returned' = TRUE
  /\ UNCHANGED <<status, parallel>>

Next ==
  \/ \E j \in DOMAIN status : Start(j) \/ Finish(j)
  \/ Return

SafeSpec == Init /\ [][Next]_vars

(* Every job's handler terminates, so a call that can make progress does. *)
Spec == SafeSpec /\ WF_vars(Next)
=============================================================================
