------------------------------- MODULE IamGrant -------------------------------
(***************************************************************************)
(* What create_bq_connection promises about the IAM role of the           *)
(* connection's service account: "try to add the IAM role to the          *)
(* connection to ensure required permissions", and _ensure_iam_binding's  *)
(* "Ensure necessary IAM role is configured on a service account".        *)
(*                                                                         *)
(* The state is the set of roles the service account holds on the project *)
(* and how each call ended.  A role, once held, is never taken away; a    *)
(* call returns normally with a role only while the role is held; every   *)
(* call ends once, normally or by raising.                                *)
(***************************************************************************)
CONSTANTS Procs, Roles, NoRole, None

VARIABLES
  granted,  \* roles the service account holds
  role,     \* each call's iam_role
  ended     \* None, "ok" or "raised"
vars == <<granted, role, ended>>

Init ==
  /\ granted = {}
  /\ role \in [Procs -> Roles \cup {NoRole}]
  /\ ended = [p \in Procs |-> None]

\* Some call's write binds role r to the service account.
Grant(r) ==
  /\ granted' = granted \cup {r}
  /\ UNCHANGED <<role, ended>>

\* A call returns normally: without a role, or with its role held, which
\* its own write, the last step before it returns, may have just granted.
Return(p) ==
  /\ ended[p] = None
  /\ \/ granted' = granted
     \/ role[p] # NoRole /\ granted' = granted \cup {role[p]}
  /\ role[p] # NoRole => role[p] \in granted'
  /\ ended' = [ended EXCEPT ![p] = "ok"]
  /\ UNCHANGED role

\* A call raises, whatever is held.
Raise(p) ==
  /\ ended[p] = None
  /\ ended' = [ended EXCEPT ![p] = "raised"]
  /\ UNCHANGED <<granted, role>>

Next == (\E r \in Roles : Grant(r)) \/ \E p \in Procs : Return(p) \/ Raise(p)

Spec == Init /\ [][Next]_vars
================================================================================
