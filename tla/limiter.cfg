\* Two actions, two callers with three spellings, policies of 2 per 4 ticks with a
\* burst of 2, and of 3 per 6 ticks.
SPECIFICATION Spec
CONSTANTS
  Actions = {"create_account", "other"}
  Emails <- MCEmails
  Lower <- MCLower
  RateLimitDefaults <- MCDefaults
  DefaultRate = 3
  Minute = 3
  Horizon = 6
  Faults = {"redis"}
INVARIANTS
  BudgetInv
  WithinPolicy
  RefusedForOwnCalls
  RetryAfterSuffices
