SPECIFICATION Spec
CONSTANTS
  Reviewers = {cli}
  Comparators = {loop}
  Regimes = {"up"}
  Drafts <- RoundDrafts
  ProfileFit <- CostMinimizerFit
  Filters <- AllFilters
  MaxProposals = 2
  MaxReviews = 2
  MaxComparisons = 2
INVARIANTS TypeOK StatusIsBacked SelectionClearsTheBar ChosenOnNewReview
\* Every bound is used up in the end: no proposal, review or comparison is left.
CHECK_DEADLOCK FALSE
