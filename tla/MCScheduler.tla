---------------------------- MODULE MCScheduler -----------------------------
(* Scheduler for TLC: the kernel process and a few others.                  *)
EXTENDS Scheduler, TLC

CONSTANTS k, p1, p2, p3

\* User processes are interchangeable; the kernel process is not.
UserSymmetry == Permutations({p1, p2, p3})
=============================================================================
