----------------------------- MODULE MCThreads -----------------------------
(***************************************************************************)
(* The scheduler for TLC, used by a Linux program with threads or by any   *)
(* other client; a behaviour is of one kind or the other.                  *)
(***************************************************************************)
EXTENDS Threads

VARIABLE threads
mcVars == <<rq, sleepq, tick, main, tid, word, waiters, cookie, threads>>

MCInit == ThreadInit /\ threads \in BOOLEAN

MCNext ==
  \/ threads /\ ThreadNext /\ UNCHANGED threads
  \/ ~threads /\ Next /\ UNCHANGED <<threadVars, threads>>

(* Fairness as in FairSpec. *)
MCSpec == MCInit /\ [][MCNext]_mcVars /\ WF_tick(TickAdvances)
=============================================================================
