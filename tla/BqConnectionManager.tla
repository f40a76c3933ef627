------------------------- MODULE BqConnectionManager -------------------------
(***************************************************************************)
(* BqConnectionManager.create_bq_connection of bigframes/clients.py, run   *)
(* by several callers at once against one connection id of one project:    *)
(* each looks the connection up, creates it if it was not found, and, if   *)
(* it was given an IAM role, makes sure the connection's service account  *)
(* holds the role on the project by a read-modify-write of the project's  *)
(* IAM policy, retried on Aborted (etag mismatch) and InvalidArgument     *)
(* (service account not yet visible to IAM).                              *)
(*                                                                         *)
(* Remote state: whether the connection exists, whether its service       *)
(* account has propagated to IAM, and the project policy as a bag of      *)
(* bindings (a role and its members, as many times as it was appended)    *)
(* with its etag.                                                          *)
(***************************************************************************)
EXTENDS Naturals, FiniteSets, Bags, BagsExt

CONSTANTS
  Procs,        \* concurrent callers of create_bq_connection
  Roles,        \* iam_role values a caller may pass
  UnknownRoles, \* those of them IAM does not know (a mistyped role name)
  NoRole,       \* iam_role=None
  SA,           \* the service account id the connection is created with
  OtherMember,  \* a member already granted something on the project
  NoEtag,       \* a policy written without an etag
  MaxAttempts,  \* bound on the attempts one _ensure_iam_binding call makes
  MaxReruns     \* bound on the calls cut off and re-run in one behaviour

ASSUME MaxAttempts \in Nat \ {0} /\ MaxReruns \in Nat /\ UnknownRoles \subseteq Roles

\* policy_pb2.Binding(role=role, members=[member]).
Binding(r, m) == [role |-> r, members |-> {m}]
Bindings == {Binding(r, m) : r \in Roles, m \in {SA, OtherMember}}

VARIABLES
  conn,        \* the connection exists
  propagated,  \* its service account is known to IAM
  policy,      \* the project's IAM policy: a bag of bindings
  etag,        \* the policy's etag, bumped by every accepted write
  pc,          \* where each caller is
  role,        \* each caller's iam_role argument
  sa,          \* each caller's service_account_id
  snap,        \* each caller's copy of the policy from get_iam_policy
  attempts,    \* attempts of the current _ensure_iam_binding call
  outcome,     \* how a finished call returned
  reruns       \* how many calls were cut off and started again
vars == <<conn, propagated, policy, etag, pc, role, sa, snap, attempts, outcome, reruns>>

None == "none"
Outcomes == {"ok", "AlreadyExists", "PermissionDenied", "RetryError"}
Pcs == {"get", "create", "read", "write", "backoff", "done"}

Init ==
  /\ conn \in BOOLEAN
  /\ propagated = conn
  \* A project's policy is never empty: it binds the owners, here another
  \* member, to every role IAM knows.
  /\ policy = SetToBag({Binding(r, OtherMember) : r \in Roles \ UnknownRoles})
  /\ etag = 0
  /\ pc = [p \in Procs |-> "get"]
  /\ role \in [Procs -> Roles \cup {NoRole}]
  /\ sa = [p \in Procs |-> None]
  /\ snap = [p \in Procs |-> [bindings |-> EmptyBag, etag |-> NoEtag]]
  /\ attempts = [p \in Procs |-> 0]
  /\ outcome = [p \in Procs |-> None]
  /\ reruns = 0

Finish(p, how) ==
  /\ pc' = [pc EXCEPT ![p] = "done"]
  /\ outcome' = [outcome EXCEPT ![p] = how]

\* The service account is known; "if iam_role:" goes on to the binding,
\* else the call returns it.
AfterConnection(p) ==
  /\ sa' = [sa EXCEPT ![p] = SA]
  /\ IF role[p] # NoRole THEN /\ pc' = [pc EXCEPT ![p] = "read"]
                              /\ UNCHANGED outcome
                         ELSE Finish(p, "ok")

\* _get_service_account_if_connection_exists: NotFound gives None, and
\* create_bq_connection then creates the connection.
GetConnection(p) ==
  /\ pc[p] = "get"
  /\ IF conn
       THEN AfterConnection(p)
       ELSE /\ pc' = [pc EXCEPT ![p] = "create"]
            /\ UNCHANGED <<sa, outcome>>
  /\ UNCHANGED <<reruns, conn, propagated, policy, etag, role, snap, attempts>>

\* _create_bq_connection: create_connection raises AlreadyExists if a
\* concurrent caller created the connection since the lookup; nothing in
\* create_bq_connection catches it.  A new connection's service account is
\* not yet known to IAM.
CreateConnection(p) ==
  /\ pc[p] = "create"
  /\ IF ~conn
       THEN /\ conn' = TRUE
            /\ propagated' = FALSE
            /\ AfterConnection(p)
       ELSE /\ Finish(p, "AlreadyExists")
            /\ UNCHANGED <<conn, propagated, sa>>
  /\ UNCHANGED <<reruns, policy, etag, role, snap, attempts>>

\* The service account of a new connection reaches IAM some time later.
Propagate ==
  /\ conn /\ ~propagated
  /\ propagated' = TRUE
  /\ UNCHANGED <<reruns, conn, policy, etag, pc, role, sa, snap, attempts, outcome>>

\* Fault variants of the check: it tests only the role, not the member; it
\* compares binding.role with iam_role, missing the "roles/" prefix.
HasRoleOnly(bs, r, m) == \E b \in BagToSet(bs) : b.role = r
HasGrantUnprefixed(bs, r, m) == FALSE

\* "for binding in policy.bindings: if binding.role == role: if
\* service_account in binding.members: return"
HasGrant(bs, r, m) == \E b \in BagToSet(bs) : b.role = r /\ m \in b.members

\* _ensure_iam_binding, first half: get_iam_policy, then return at once if
\* the service account already holds the role.
ReadPolicy(p) ==
  /\ pc[p] = "read"
  /\ snap' = [snap EXCEPT ![p] = [bindings |-> policy, etag |-> etag]]
  /\ IF HasGrant(policy, role[p], sa[p])
       THEN Finish(p, "ok")
       ELSE /\ pc' = [pc EXCEPT ![p] = "write"]
            /\ UNCHANGED outcome
  /\ UNCHANGED <<reruns, conn, propagated, policy, etag, role, sa, attempts>>

\* Fault variant: the policy is sent without the etag it was read with.
SetIamRequestNoEtag(p) ==
  [bindings |-> BagAdd(snap[p].bindings, Binding(role[p], sa[p])), etag |-> NoEtag]

\* The request of set_iam_policy: the policy as read, with a new binding
\* of the role to the service account appended, and the etag it was read
\* with.
SetIamRequest(p) ==
  [bindings |-> BagAdd(snap[p].bindings, Binding(role[p], sa[p])),
   etag |-> snap[p].etag]

\* set_iam_policy on the server: Aborted if the etag no longer matches,
\* InvalidArgument while the service account is unknown to IAM or for a
\* binding of a role IAM does not know; a policy without an etag
\* overwrites unconditionally.
Rejected(req) ==
  \/ req.etag \notin {NoEtag, etag}
  \/ ~propagated
  \/ \E b \in BagToSet(req.bindings) : b.role \in UnknownRoles

\* Fault variant: Aborted and InvalidArgument caught around set_iam_policy
\* alone, which is sent again with the policy and etag read before.
OnRetryableInPlace(p) == pc

\* The retry decorator's predicate: Aborted and InvalidArgument go to its
\* backoff.
OnRetryable(p) == [pc EXCEPT ![p] = "backoff"]

\* _ensure_iam_binding, second half: set_iam_policy, then sleep
\* _IAM_WAIT_SECONDS and return.  Aborted and InvalidArgument go to the
\* retry decorator.
SetPolicy(p) ==
  /\ pc[p] = "write"
  /\ LET req == SetIamRequest(p) IN
     \/ /\ ~Rejected(req)
        /\ policy' = req.bindings
        /\ etag' = etag + 1
        /\ Finish(p, "ok")
     \/ /\ Rejected(req)
        /\ pc' = OnRetryable(p)
        /\ UNCHANGED <<policy, etag, outcome>>
  /\ UNCHANGED <<reruns, conn, propagated, role, sa, snap, attempts>>

\* get_iam_policy or set_iam_policy raises PermissionDenied, which the
\* retry decorator does not retry and create_bq_connection re-raises with
\* the role and service account prefixed.  Whether it is raised depends on
\* the caller's permissions, not on scheduling, so no fairness forces it.
IamPermissionDenied(p) ==
  /\ pc[p] \in {"read", "write"}
  /\ Finish(p, "PermissionDenied")
  /\ UNCHANGED <<reruns, conn, propagated, policy, etag, role, sa, snap, attempts>>

\* Another attempt starts before the deadline.
CanRetry(p) == attempts[p] + 1 < MaxAttempts

\* google.api_core.retry.Retry(initial=10, maximum=20, multiplier=2,
\* timeout=60): after a retryable error, sleep and run the whole
\* read-modify-write again, unless the next sleep would pass the deadline,
\* which raises RetryError.  The jittered sleeps and the calls' latency
\* decide which attempt that is; the model lets it be any, up to
\* MaxAttempts.
Retry(p) ==
  /\ pc[p] = "backoff"
  /\ CanRetry(p)
  /\ attempts' = [attempts EXCEPT ![p] = @ + 1]
  /\ pc' = [pc EXCEPT ![p] = "read"]
  /\ UNCHANGED <<reruns, conn, propagated, policy, etag, role, sa, snap, outcome>>

DeadlineExceeded(p) ==
  /\ pc[p] = "backoff"
  /\ Finish(p, "RetryError")
  /\ UNCHANGED <<reruns, conn, propagated, policy, etag, role, sa, snap, attempts>>

\* The call is cut off while it waits on the service or sleeps (an
\* interrupted kernel, a killed job) and the caller runs it again from the
\* start; what it did to the connection and the policy stays.
Restart(p) ==
  /\ reruns < MaxReruns
  /\ reruns' = reruns + 1
  /\ pc' = [pc EXCEPT ![p] = "get"]
  /\ sa' = [sa EXCEPT ![p] = None]
  /\ snap' = [snap EXCEPT ![p] = [bindings |-> EmptyBag, etag |-> NoEtag]]
  /\ attempts' = [attempts EXCEPT ![p] = 0]

Interrupt(p) ==
  /\ pc[p] \in {"create", "read", "write", "backoff"}
  /\ Restart(p)
  /\ UNCHANGED <<conn, propagated, policy, etag, role, outcome>>

\* The write lands and the call is cut off in the 120 s sleep after it.
\* The sleep touches nothing another caller reads, so the cut-off is
\* taken at once.
InterruptInSleep(p) ==
  /\ pc[p] = "write"
  /\ ~Rejected(SetIamRequest(p))
  /\ policy' = SetIamRequest(p).bindings
  /\ etag' = etag + 1
  /\ Restart(p)
  /\ UNCHANGED <<conn, propagated, role, outcome>>

Next ==
  \/ Propagate
  \/ \E p \in Procs : Interrupt(p) \/ InterruptInSleep(p)
  \/ \E p \in Procs :
       \/ GetConnection(p) \/ CreateConnection(p) \/ ReadPolicy(p)
       \/ SetPolicy(p) \/ Retry(p) \/ DeadlineExceeded(p)
       \/ IamPermissionDenied(p)

\* Each call runs on its own thread to completion; IAM learns of a new
\* service account eventually.  IamPermissionDenied and the interrupts are the
\* environment's and are not forced.
Spec == /\ Init /\ [][Next]_vars
        /\ WF_vars(Propagate)
        /\ \A p \in Procs : WF_vars(GetConnection(p) \/ CreateConnection(p)
                                    \/ ReadPolicy(p) \/ SetPolicy(p)
                                    \/ Retry(p) \/ DeadlineExceeded(p))

----------------------------------------------------------------------------
(* Properties.                                                            *)

\* Type invariant.
TypeOK ==
  /\ conn \in BOOLEAN /\ propagated \in BOOLEAN
  /\ IsABag(policy) /\ BagToSet(policy) \subseteq Bindings
  /\ etag \in 0..Cardinality(Procs)
  /\ pc \in [Procs -> Pcs]
  /\ role \in [Procs -> Roles \cup {NoRole}]
  /\ sa \in [Procs -> {SA, None}]
  /\ attempts \in [Procs -> 0..(MaxAttempts - 1)]
  /\ outcome \in [Procs -> Outcomes \cup {None}]
  /\ reruns \in 0..MaxReruns

\* A caller whose create_bq_connection returned normally with an iam_role
\* leaves the connection's service account holding that role, whatever the
\* other callers' read-modify-writes did meanwhile.
BindingHeldOnReturn ==
  \A p \in Procs :
    outcome[p] = "ok" /\ role[p] # NoRole => BagIn(Binding(role[p], SA), policy)

\* No set_iam_policy issued by _ensure_iam_binding drops a binding from the
\* project policy (no lost update between concurrent read-modify-writes).
PolicyOnlyGrows == [][policy \sqsubseteq policy']_policy

\* The append of a binding is guarded by the scan for one: however the
\* callers' reads, writes, retries and re-runs interleave, the policy never
\* holds two bindings of one role for the service account.
NoDuplicateGrant == \A r \in Roles : CopiesIn(Binding(r, SA), policy) <= 1

\* Every create_bq_connection call returns, normally or by raising: the
\* retries of _ensure_iam_binding end, whatever the other callers write.
EveryCallReturns == \A p \in Procs : <>(pc[p] = "done")

\* The refinement mapping onto IamGrant: the roles bound to the service
\* account in the policy, and how each call ended.
Granted == {r \in Roles : BagIn(Binding(r, SA), policy)}
Ended == [p \in Procs |-> IF outcome[p] \in {None, "ok"} THEN outcome[p] ELSE "raised"]
Iam == INSTANCE IamGrant WITH granted <- Granted, ended <- Ended

NoAlreadyExists == \A p \in Procs : outcome[p] # "AlreadyExists"
================================================================================
