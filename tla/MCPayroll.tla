----------------------------- MODULE MCPayroll -----------------------------
(* Instances of Payroll for TLC: a long batch and a short one. *)
EXTENDS Payroll, TLC

CONSTANTS Long, Short, MCSize, q1, q2, s1, s2

MCBatches == {Long, Short}
MCRecipients == ({Long} \X (1 .. MCSize)) \cup {<<Short, 1>>}
(* The long batch is executed on both servers, the short one on one.       *)
MCRoutes == {<<q1, s1, Long>>, <<q2, s2, Long>>, <<q2, s2, Short>>}
MCBatchOf == [r \in MCRecipients |-> r[1]]
=============================================================================
