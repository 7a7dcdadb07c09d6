----------------------------- MODULE TimeLimits -----------------------------
(***************************************************************************)
(* TimeLimitPropertiesMixin and the arithmetic of TimeClaimingMixin, of    *)
(* utils/celery.py: the time limit an execution of a task has, and the     *)
(* limits that a claim for more restarts it with.                          *)
(*                                                                         *)
(* The limits a message carries are a record of a soft and a hard one,     *)
(* each None if it was sent without.                                       *)
(***************************************************************************)
EXTENDS Integers

CONSTANTS
  None,
  SoftClass,  \* soft_time_limit of the task's class
  HardClass,  \* its time_limit
  SoftConf,   \* task_soft_time_limit of the configuration
  HardConf,   \* its task_time_limit
  Cleanup     \* task_cleanup_timeout

Limit == Nat \cup {None}

\* utils/django/settings.py sets SoftConf; without it claims raise TypeError.
ASSUME LimitAssumption ==
  /\ None \notin Int
  /\ SoftClass \in Limit /\ HardClass \in Limit /\ HardConf \in Limit
  /\ SoftConf \in Nat \ {0}
  /\ Cleanup \in Nat

\* Python's `or': 0 is no limit either.
Or(a, b) == IF a = None \/ a = 0 THEN b ELSE a

\* effective_soft_time_limit and effective_hard_time_limit
Soft(limits) == Or(limits.soft, Or(SoftClass, SoftConf))
Hard(limits) == Or(limits.hard, Or(HardClass, HardConf))

\* effective_time_limit: what is left for the task's own work.
Effective(limits) ==
  LET soft == Soft(limits)
      hard == Hard(limits)
  IN  IF hard = None \/ (soft # None /\ soft <= hard - Cleanup) THEN soft
      ELSE hard - Cleanup

\* claim_time_limit(t) has to restart the task.
Exceeds(t, limits) == Effective(limits) # None /\ t > Effective(limits)

\* Faulty variant: the hard limit leaves no time to clean up.
RestartLimitsTight(t) ==
  LET soft == IF t > SoftConf THEN t ELSE SoftConf
  IN  [soft |-> soft, hard |-> soft]

\* soft = max(time_limit, task_soft_time_limit), hard = soft + cleanup
RestartLimits(t) ==
  LET soft == IF t > SoftConf THEN t ELSE SoftConf
  IN  [soft |-> soft, hard |-> soft + Cleanup]
=============================================================================
