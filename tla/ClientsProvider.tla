--------------------------- MODULE ClientsProvider ---------------------------
(***************************************************************************)
(* bigframes/session/clients.py: ClientsProvider resolves the project in   *)
(* __init__ and creates each cloud client lazily on first access of its    *)
(* property ("if not self._x: self._x = <new client>; return self._x"),    *)
(* with no lock, so threads that access a property at once interleave      *)
(* between the check, the construction and the return.                    *)
(*                                                                         *)
(* A client is a record of what it was constructed with: its kind, a      *)
(* serial number, its endpoint (how it was chosen and for which location), *)
(* its user-agent tokens and whether it carries the KMS key.              *)
(***************************************************************************)
EXTENDS Naturals, FiniteSets

CONSTANTS
  Threads,        \* threads using one provider
  Configs,        \* constructor arguments and environment the provider may see
  REPLocations,   \* bigframes.constants.REP_ENABLED_BIGQUERY_LOCATIONS
  MaxAccesses,    \* bound on property accesses per thread
  None,           \* Python's None
  Lower(_)        \* str.lower on the locations the provider may see

Kinds == {"bqclient", "bqconnectionclient", "bqstoragereadclient",
          "cloudfunctionsclient", "resourcemanagerclient"}

\* Keys of client_endpoints_override a property reads.
OverrideKeys == {"bqclient", "bqconnectionclient", "bqstoragereadclient"}

VARIABLES
  args,      \* the constructor's arguments and os.environ
  phase,     \* "new", "ready" after __init__, "failed" if it raised
  project,   \* self._project
  warned,    \* the FutureWarning for a non-REP regional location was issued
  stored,    \* self._<kind>: a client or None
  built,     \* clients constructed so far (serial numbers)
  pc,        \* each thread: "idle", "check", "build" or "return"
  want,      \* the property each thread is reading
  accesses,  \* accesses each thread has completed
  returned   \* <<thread, client>> pairs handed to callers
vars == <<args, phase, project, warned, stored, built, pc, want, accesses, returned>>

Init ==
  /\ args \in Configs
  /\ phase = "new"
  /\ project = None
  /\ warned = FALSE
  /\ stored = [k \in Kinds |-> None]
  /\ built = 0
  /\ pc = [t \in Threads |-> "idle"]
  /\ want = [t \in Threads |-> None]
  /\ accesses = [t \in Threads |-> 0]
  /\ returned = {}

\* "project or os.getenv(...) or credentials_project": the first truthy one;
\* the credentials' project is only known when no credentials were passed.
Truthy(v) == v \notin {None, ""}
ResolveProject(a) ==
  CASE Truthy(a.project)                              -> a.project
    [] Truthy(a.env_project)                          -> a.env_project
    [] a.credentials = None /\ Truthy(a.default_project) -> a.default_project
    [] OTHER                                          -> None

\* "location is not None and location.lower() not in
\* REP_ENABLED_BIGQUERY_LOCATIONS".
NonREP(loc) == loc # None /\ Lower(loc) \notin REPLocations

\* ClientsProvider.__init__.
Construct ==
  /\ phase = "new"
  /\ LET p == ResolveProject(args) IN
       IF p = None
         THEN /\ phase' = "failed"
              /\ UNCHANGED <<project, warned>>
         ELSE /\ phase' = "ready"
              /\ project' = p
              /\ warned' = (args.regional /\ NonREP(args.location))
  /\ UNCHANGED <<args, stored, built, pc, want, accesses, returned>>

\* _application_name, as the tokens of the user agent.
UserAgent == {"bigframes"} \cup (IF args.application_name # None
                                   THEN {args.application_name} ELSE {})

Endpoint(via) == [via |-> via, location |-> args.location]

\* _create_bigquery_client's template: "_BIGQUERY_REGIONAL_ENDPOINT, or
\* _BIGQUERY_LOCATIONAL_ENDPOINT if self._location is not None and
\* self._location.lower() not in REP_ENABLED_BIGQUERY_LOCATIONS".
BqTemplate(loc) == IF NonREP(loc) THEN "locational" ELSE "regional"

\* Fault variant: the storage getter keeps the REP template for every
\* location.
StorageTemplateREPOnly(loc) == "regional"
\* bqstoragereadclient's template, the same test written out again.
StorageTemplate(loc) == IF NonREP(loc) THEN "locational" ELSE "regional"

\* The client_options each property builds: an override of its key first,
\* else with use_regional_endpoints its template (bqconnectionclient only
\* has the locational one); the functions and resource manager clients
\* take neither.
EndpointOf(k) ==
  CASE k \in OverrideKeys /\ k \in args.override -> Endpoint("override")
    [] k = "bqclient" /\ args.regional -> Endpoint(BqTemplate(args.location))
    [] k = "bqconnectionclient" /\ args.regional -> Endpoint("locational")
    [] k = "bqstoragereadclient" /\ args.regional ->
         Endpoint(StorageTemplate(args.location))
    [] OTHER -> [via |-> "default", location |-> None]

\* Fault variant: the storage getter constructs a connection client.
NewClientCopyPaste(k) ==
  [kind     |-> IF k = "bqstoragereadclient" THEN "bqconnectionclient" ELSE k,
   serial   |-> built + 1,
   endpoint |-> EndpointOf(k),
   agent    |-> UserAgent,
   cmek     |-> (k = "bqclient" /\ args.kms # None)]

\* The constructor call of a property (_create_bigquery_client for
\* bqclient, which alone takes the project and the KMS key).
NewClient(k) ==
  [kind     |-> k,
   serial   |-> built + 1,
   endpoint |-> EndpointOf(k),
   agent    |-> UserAgent,
   cmek     |-> (k = "bqclient" /\ args.kms # None)]

\* Fault variant: the getter constructs whether or not a client is set.
MissingAlways(k) == TRUE
\* A property getter's "if not self._<kind>:".
Missing(k) == stored[k] = None

Read(t, k) ==
  /\ phase = "ready"
  /\ pc[t] = "idle"
  /\ accesses[t] < MaxAccesses
  /\ want' = [want EXCEPT ![t] = k]
  /\ pc' = [pc EXCEPT ![t] = IF Missing(k) THEN "build" ELSE "return"]
  /\ UNCHANGED <<args, phase, project, warned, stored, built, accesses, returned>>

\* "self._<kind> = <constructor>(...)": the constructor runs outside any
\* lock, and the assignment overwrites whatever another thread stored.
Build(t) ==
  /\ pc[t] = "build"
  /\ stored' = [stored EXCEPT ![want[t]] = NewClient(want[t])]
  /\ built' = built + 1
  /\ pc' = [pc EXCEPT ![t] = "return"]
  /\ UNCHANGED <<args, phase, project, warned, want, accesses, returned>>

\* "return self._<kind>": read again, after the check and the build.
Return(t) ==
  /\ pc[t] = "return"
  /\ returned' = returned \cup {<<t, stored[want[t]]>>}
  /\ accesses' = [accesses EXCEPT ![t] = @ + 1]
  /\ pc' = [pc EXCEPT ![t] = "idle"]
  /\ want' = [want EXCEPT ![t] = None]
  /\ UNCHANGED <<args, phase, project, warned, stored, built>>

Next ==
  \/ Construct
  \/ \E t \in Threads : (\E k \in Kinds : Read(t, k)) \/ Build(t) \/ Return(t)

Spec == Init /\ [][Next]_vars

MaxBuilds == Cardinality(Threads) * MaxAccesses

----------------------------------------------------------------------------
(* Properties.                                                            *)

Clients == {r[2] : r \in returned}

\* Type invariant.
TypeOK ==
  /\ phase \in {"new", "ready", "failed"}
  /\ built \in 0..MaxBuilds
  /\ pc \in [Threads -> {"idle", "build", "return"}]
  /\ want \in [Threads -> Kinds \cup {None}]
  /\ accesses \in [Threads -> 0..MaxAccesses]
  /\ \A k \in Kinds : stored[k] = None \/ stored[k].kind = k
  /\ \A r \in returned : r[1] \in Threads /\ r[2] # None

\* The lazy getters check and assign without a lock, so overlapping first
\* accesses each construct a client.  The waste is bounded: however the
\* threads' checks, constructions and returns interleave, a kind is
\* handed out as at most one distinct client per thread, as a thread that
\* once stored a client finds it set on every later access.
ClientsPerKindBounded ==
  \A k \in Kinds : Cardinality({c \in Clients : c.kind = k}) <= Cardinality(Threads)

\* bqclient and bqstoragereadclient, when neither is overridden, talk to
\* endpoints of the same kind (both REP or both locational) for the
\* session's location, since the storage client reads the query results.
EndpointsAgree ==
  \A c, d \in Clients :
    /\ c.kind = "bqclient" /\ d.kind = "bqstoragereadclient"
    /\ {c.endpoint.via, d.endpoint.via} \cap {"override"} = {}
    => c.endpoint = d.endpoint

\* test_user_agent_in_vscode / test_user_agent_in_jupyter
\* (tests/unit/session/test_clients.py): with VSCODE_PID or JPY_PARENT_PID
\* in the environment, every client's user agent names the IDE.
UserAgentNamesIDE ==
  \A c \in Clients :
    /\ "VSCODE_PID" \in args.ide_env => "vscode" \in c.agent
    /\ "JPY_PARENT_PID" \in args.ide_env => "jupyter" \in c.agent
================================================================================
