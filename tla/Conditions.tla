----------------------------- MODULE Conditions -----------------------------
(***************************************************************************)
(* Status conditions shared by every controller of the operator            *)
(* (api/v1/status_types.go).  A condition keeps its status and the         *)
(* generation it was computed for; a reason is kept only where the code    *)
(* branches on it, which is ProgressDeadlineExceeded: a condition that is  *)
(* False for that reason has the status "DeadlineExceeded" here.           *)
(***************************************************************************)
EXTENDS Integers

CondStatus == {"Absent", "True", "False", "DeadlineExceeded"}

Cond == [st : CondStatus, gen : Nat]

NoCond == [st |-> "Absent", gen |-> 0]

\* Insert or overwrite the condition of one type, stamped with the generation
\* it was computed for.
SetCondition(conds, type, st, gen) == [conds EXCEPT ![type] = [st |-> st, gen |-> gen]]

\* A condition that says False, for whatever reason.
IsFalse(cond) == cond.st \in {"False", "DeadlineExceeded"}

\* The phase shown to users: a missed progress deadline is Failed, any other
\* False condition Pending, and nothing is Ready without a ready replica.
DerivePhase(conds, readyReplicas) ==
    IF \E t \in DOMAIN conds : conds[t].st = "DeadlineExceeded" THEN "Failed"
    ELSE IF (\E t \in DOMAIN conds : IsFalse(conds[t])) \/ readyReplicas = 0
         THEN "Pending" ELSE "Ready"

=============================================================================
