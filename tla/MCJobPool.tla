----------------------------- MODULE MCJobPool -----------------------------
(* runJobsMT with every combination of up to 4 jobs and 3 threads: no job, *)
(* one job, fewer jobs than threads, and threads that draw again.          *)
EXTENDS JobPool

MCJobCounts == 0 .. 4
MCThreadCounts == 0 .. 3
=============================================================================
