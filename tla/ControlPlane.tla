---------------------------- MODULE ControlPlane ----------------------------
(***************************************************************************)
(* What the control plane promises, with no transactions, locks or         *)
(* handlers: an append-only record of requests, approvals and attempts,    *)
(* each operation one step, and a request's status a FUNCTION of what is   *)
(* recorded about it.  The code stores that status in a column of its own, *)
(* requests.state, and has to keep it right; RequestStore shows that it    *)
(* does.                                                                   *)
(***************************************************************************)
EXTENDS Vocabulary

CONSTANTS Tenants, References, Keys, Bodies, Approvers, Nonces

VARIABLES requests,    \* requests[row]: the immutable content of a request, or None
          approvals,   \* approvals[row]: the approvals recorded, <<stage, approver>>
          executions   \* executions[row][nonce]: the report recorded, or None

vars == <<requests, approvals, executions>>

\* The primary key of the requests table.
Rows == Tenants \X References

\* What an operator submits: the idempotency key and the rest (statement,
\* target, role, reason), which nothing here tells apart.
Contents == [key : Keys, body : Bodies]

Approvals == {1} \X Approvers

-----------------------------------------------------------------------------
Recorded(row, outcome) ==
  \E n \in Nonces : executions[row][n] # None /\ executions[row][n].outcome = outcome

Status(row) ==
  IF requests[row] = None THEN None
  ELSE IF Recorded(row, "committed") THEN "executed"
  ELSE IF Recorded(row, "indeterminate") THEN "indeterminate"
  ELSE IF approvals[row] # {} THEN "approved"
  ELSE "pending"

\* No other request of the tenant was submitted under the key.
KeyIsFree(tenant, key) ==
  \A ref \in References :
    requests[<<tenant, ref>>] # None => requests[<<tenant, ref>>].key # key

-----------------------------------------------------------------------------
Init == /\ requests = [row \in Rows |-> None]
        /\ approvals = [row \in Rows |-> {}]
        /\ executions = [row \in Rows |-> [n \in Nonces |-> None]]

Submit(row, content) ==
  /\ requests[row] = None
  /\ KeyIsFree(row[1], content.key)
  /\ requests' = [requests EXCEPT ![row] = content]
  /\ UNCHANGED <<approvals, executions>>

Approve(row, approval) ==
  /\ Status(row) \in {"pending", "approved"}
  /\ approvals' = [approvals EXCEPT ![row] = @ \cup {approval}]
  /\ UNCHANGED <<requests, executions>>

\* A repeat of a recorded nonce records nothing: it is a stuttering step.
RecordExecution(row, nonce, report) ==
  /\ Status(row) = "approved"
  /\ executions[row][nonce] = None
  /\ executions' = [executions EXCEPT ![row][nonce] = report]
  /\ UNCHANGED <<requests, approvals>>

Next == \E row \in Rows :
          \/ \E c \in Contents : Submit(row, c)
          \/ \E a \in Approvals : Approve(row, a)
          \/ \E n \in Nonces, r \in Reports : RecordExecution(row, n, r)

Spec == Init /\ [][Next]_vars
=============================================================================
