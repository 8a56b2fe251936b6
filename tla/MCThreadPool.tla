---------------------------- MODULE MCThreadPool ----------------------------
(***************************************************************************)
(* An instance of ThreadPool for TLC: a pool of one or two threads, whose  *)
(* queue starts with room for one task.  A requested limit of 0 is clamped *)
(* to the number of threads.                                               *)
(***************************************************************************)
EXTENDS ThreadPool

TwoSizes == {1, 2}
LowestLimit == {0}
=============================================================================
