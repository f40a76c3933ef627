-------------------------- MODULE MCClientsProvider --------------------------
(* Constructor arguments, environments and threads for model checking      *)
(* ClientsProvider.                                                        *)
EXTENDS ClientsProvider

CONSTANTS t1, t2

MCThreads == {t1, t2}

\* One location in REP, written in either case, one outside it, and none.
MCREPLocations == {"us"}
MCLocations == {None, "us", "US", "asia-south2"}
MCLower(loc) == IF loc = "US" THEN "us" ELSE loc

Base == [project |-> "p-user", env_project |-> None, credentials |-> "creds",
         default_project |-> None, location |-> "us", regional |-> FALSE,
         override |-> {}, application_name |-> None, kms |-> None, ide_env |-> {}]

\* Every way the project can be found, or not found.
ProjectConfigs ==
  {[Base EXCEPT !.project = p, !.env_project = e, !.credentials = c, !.default_project = d] :
     p \in {None, "", "p-user"}, e \in {None, "", "p-env"},
     c \in {None, "creds"}, d \in {None, "p-default"}}

\* Every endpoint choice: location, use_regional_endpoints (None is falsy
\* like False, the only way the code reads it) and overrides; the
\* application name and the KMS key, which no endpoint choice reads, are
\* set together or not at all.
EndpointConfigs ==
  {[Base EXCEPT !.location = l, !.regional = r, !.override = o,
                !.application_name = ak[1], !.kms = ak[2]] :
     l \in MCLocations, r \in BOOLEAN, o \in SUBSET OverrideKeys,
     ak \in {<<None, None>>, <<"partner", "key">>}}

\* The environments of the user-agent tests.
IDEConfigs == {[Base EXCEPT !.ide_env = v] : v \in SUBSET {"VSCODE_PID", "JPY_PARENT_PID"}}

MCConfigs == ProjectConfigs \cup EndpointConfigs

================================================================================
