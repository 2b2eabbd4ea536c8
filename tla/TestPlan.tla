------------------------------ MODULE TestPlan ------------------------------
(***************************************************************************)
(* What tinatest promises of the order in which it runs the test cases of a *)
(* list (doc/Config.txt): they are started from the first to the last, at    *)
(* most run_cnt_up_to run at the same time, and one that wants to run alone  *)
(* waits for those before it and makes those after it wait.                  *)
(***************************************************************************)
EXTENDS Naturals, FiniteSets

CONSTANTS
  N,       \* the number of test cases
  UpTo,    \* run_cnt_up_to
  Alone    \* the test cases that run alone

VARIABLE phase   \* of every test case: "wait", "run" or "end"

Cases == 1..N

InPhase(p) == {t \in Cases : phase[t] = p}

PlanInit == phase = [t \in Cases |-> "wait"]

\* The test case is the next of the list.
Turn(t) == phase[t] = "wait" /\ \A s \in Cases : s < t => phase[s] # "wait"

Begin(t) ==
  /\ Turn(t)
  /\ Cardinality(InPhase("run")) < UpTo
  /\ t \in Alone => InPhase("run") = {}
  /\ InPhase("run") \cap Alone = {}
  /\ phase' = [phase EXCEPT ![t] = "run"]

Finish(t) ==
  /\ phase[t] = "run"
  /\ phase' = [phase EXCEPT ![t] = "end"]

PlanNext == \E t \in Cases : Begin(t) \/ Finish(t)

PlanSpec == PlanInit /\ [][PlanNext]_phase
=============================================================================
