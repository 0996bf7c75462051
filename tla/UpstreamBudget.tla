--------------------------- MODULE UpstreamBudget ---------------------------
(***************************************************************************)
(* What CachedProxy promises its upstream (core/upstream/proxy.go:66-68):  *)
(* for a key there is at most one call at a time, and none at all while    *)
(* there is a fresh copy of the answer.                                    *)
(***************************************************************************)
CONSTANTS Keys

VARIABLES calling, fresh   \* sets of keys

budgetVars == <<calling, fresh>>

BudgetInit ==
  /\ calling = {}
  /\ fresh = {}

Call(k) ==
  /\ k \notin calling
  /\ k \notin fresh
  /\ calling' = calling \cup {k}
  /\ UNCHANGED fresh

Answer(k) ==
  /\ k \in calling
  /\ calling' = calling \ {k}
  /\ fresh' \in {fresh, fresh \cup {k}}

Expire ==
  /\ fresh' \subseteq fresh
  /\ UNCHANGED calling

BudgetNext == Expire \/ \E k \in Keys : Call(k) \/ Answer(k)

Budget == BudgetInit /\ [][BudgetNext]_budgetVars
=============================================================================
