--------------------------- MODULE AuthorityTypes ---------------------------
(***************************************************************************)
(* Authority states and evaluation outcomes (authority.hpp, authority.cpp),*)
(* shared by every module of the project.  The codes a hard violation can  *)
(* have whose state is REJECTED (STRUCTURALLY_INVALID, LINK_DOWN, ...) are *)
(* one outcome here, HARD_FAILURE; which subjects failed is kept apart.    *)
(***************************************************************************)

AuthorityState == {"UNKNOWN", "AUTHORIZED", "CONDITIONALLY_AUTHORIZED",
                   "REVALIDATION_REQUIRED", "REJECTED", "REVOKED", "STALE",
                   "RETIRED"}

EvaluationOutcome == {"AUTHORIZED", "IDEMPOTENT", "CONDITIONALLY_AUTHORIZED",
                      "HARD_FAILURE", "STALE_EPOCH", "STALE_AUTHORITY",
                      "REVALIDATION_REQUIRED", "PATH_RETIRED", "REVOKED"}

\* IDEMPOTENT is not a decision of its own: nothing is ever stored with it, and
\* the state it maps to says so.
state_for_outcome(outcome) ==
    CASE outcome = "AUTHORIZED"               -> "AUTHORIZED"
      [] outcome = "CONDITIONALLY_AUTHORIZED" -> "CONDITIONALLY_AUTHORIZED"
      [] outcome = "REVALIDATION_REQUIRED"    -> "REVALIDATION_REQUIRED"
      [] outcome = "PATH_RETIRED"             -> "RETIRED"
      [] outcome = "REVOKED"                  -> "REVOKED"
      [] outcome \in {"STALE_EPOCH", "STALE_AUTHORITY"} -> "STALE"
      [] outcome = "IDEMPOTENT"               -> "UNKNOWN"
      [] OTHER                                -> "REJECTED"

is_authorizing_outcome(outcome) ==
    outcome \in {"AUTHORIZED", "CONDITIONALLY_AUTHORIZED", "IDEMPOTENT"}

\* The two states of live authority.
AuthorizingState == {"AUTHORIZED", "CONDITIONALLY_AUTHORIZED"}
=============================================================================
