---------------------------- MODULE MCConnectionId ----------------------------
(* Requests for TLC: every documented format over small fields and        *)
(* defaults, and every string of up to five atoms over "a", "." and "/"  *)
(* (the error paths and the undocumented inputs the code still accepts).  *)
EXTENDS ConnectionId

CONSTANT NotWritten

\* Fields free of separators, distinct so a swap or a wrong default shows.
PlainFields == {<<"a">>, <<"b">>, <<"c">>}
\* A domain-scoped project id, "example.com:p".
DomainProject == <<"example", ".", "com:p">>

DocumentedOver(projects, fields, defaults) ==
  { DocumentedRequest(form, <<p, l, c>>, dp, dl) :
      form \in Formats, p \in projects, l \in fields, c \in fields,
      dp \in defaults, dl \in fields }

Arbitrary ==
  { [id |-> s, project |-> <<"a">>, location |-> <<"b">>, intended |-> NotWritten] :
      s \in BoundedSeq({"a", ".", "/"}, 5) }

MCPlainRequests == DocumentedOver(PlainFields, PlainFields, PlainFields) \cup Arbitrary

MCDomainRequests ==
  DocumentedOver({DomainProject}, {<<"b">>}, {DomainProject, <<"a">>})
================================================================================
