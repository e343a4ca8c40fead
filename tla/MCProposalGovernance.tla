------------------------ MODULE MCProposalGovernance ------------------------
(* Small instances of ProposalGovernance for TLC. *)
EXTENDS ProposalGovernance

(* The ranks of the profile execution_cost_minimizer, the default of         *)
(* trader_research_profile, for sources without artifacts of their own.      *)
CostMinimizerFit ==
  [k \in Kinds |-> IF k = "label_program" THEN 1 ELSE IF k = "strategy_eval" THEN 2 ELSE 3]

Research(k, signal) ==
  [kind |-> k, source |-> "experiment_run", bounded |-> TRUE, signal |-> signal,
   aligned |-> FALSE, regime |-> "none"]
Patch(source, signal, r) ==
  [kind |-> "profile_adjustment", source |-> source, bounded |-> TRUE, signal |-> signal,
   aligned |-> FALSE, regime |-> r]

(* A patch that just clears the bar, the best strategy research offers, and  *)
(* a proposal of a batch, which no review supports.                         *)
RoundDrafts ==
  {Patch("paper_session", 70, "up"), Research("strategy_eval", 100),
   [Research("label_program", 100) EXCEPT !.bounded = FALSE]}

AllFilters == {AnyCandidate}
=============================================================================
