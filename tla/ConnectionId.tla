----------------------------- MODULE ConnectionId -----------------------------
(***************************************************************************)
(* get_canonical_bq_connection_id of bigframes/clients.py.  A string is a *)
(* sequence of atoms: the separators "." and "/" are atoms of their own,  *)
(* and every other atom stands for a run of characters with neither, so  *)
(* str.split, str.count and str.join act on atoms as on characters.       *)
(*                                                                         *)
(* The model is one call: a request (connection_id, default_project,     *)
(* default_location) is chosen, and Canonicalize returns the canonical id *)
(* or raises ValueError.  Requests written from a (project, location,     *)
(* connection) triple in one of the four formats the error message lists *)
(* carry that triple as a ghost, the reference the result is judged by.  *)
(***************************************************************************)
EXTENDS Naturals, Sequences, SequencesExt

CONSTANTS
  Requests,   \* set of [id, project, location, intended] the caller may pass
  NoTriple    \* intended of a request not written in a documented format

VARIABLES
  request,    \* the arguments of the call
  called,     \* the call has returned or raised
  result      \* [raised |-> BOOLEAN, id |-> the string returned]
vars == <<request, called, result>>

Dots(s) == Len(SelectSeq(s, LAMBDA a : a = "."))

\* str.split(sep): the fields between separators, empty ones included.
RECURSIVE Split(_, _)
Split(s, sep) ==
  IF ~Contains(s, sep) THEN <<s>>
  ELSE LET i == SelectInSeq(s, LAMBDA a : a = sep) IN
       <<SubSeq(s, 1, i - 1)>> \o Split(SubSeq(s, i + 1, Len(s)), sep)

\* sep.join(fields).
Join(fields, sep) ==
  FlattenSeq([i \in DOMAIN fields |->
                IF i = 1 THEN fields[i] ELSE <<sep>> \o fields[i]])

Raised == [raised |-> TRUE, id |-> <<>>]
Return(s) == [raised |-> FALSE, id |-> s]

\* Fault variant: the path form's location and connection fields swapped.
FromPathSwapped(f) == Join(<<f[2], f[6], f[4]>>, ".")

\* ".".join((fields[1], fields[3], fields[5])).
FromPath(f) == Join(<<f[2], f[4], f[6]>>, ".")

\* The body of get_canonical_bq_connection_id: the path form when the id
\* holds a "/", else by the number of dots, defaults prepended; anything
\* else falls through to raise ValueError.
GetCanonical(id, project, location) ==
  IF Contains(id, "/")
    THEN LET f == Split(id, "/") IN
         IF /\ Len(f) = 6
            /\ f[1] = <<"projects">> /\ f[3] = <<"locations">>
            /\ f[5] = <<"connections">>
           THEN Return(FromPath(f))
           ELSE Raised
    ELSE CASE Dots(id) = 2 -> Return(id)
           [] Dots(id) = 1 -> Return(Join(<<project, id>>, "."))
           [] Dots(id) = 0 -> Return(Join(<<project, location, id>>, "."))
           [] OTHER        -> Raised

Init ==
  /\ request \in Requests
  /\ called = FALSE
  /\ result = Raised

Canonicalize ==
  /\ ~called
  /\ called' = TRUE
  /\ result' = GetCanonical(request.id, request.project, request.location)
  /\ UNCHANGED request

Spec == Init /\ [][Canonicalize]_vars

----------------------------------------------------------------------------
(* The four documented formats, as the reference.                          *)

\* The id a caller writes for triple t = <<project, location, connection>>.
Formats == {"project.location.connection", "location.connection",
            "connection", "path"}
Written(form, t) ==
  CASE form = "project.location.connection" -> Join(t, ".")
    [] form = "location.connection"          -> Join(<<t[2], t[3]>>, ".")
    [] form = "connection"                   -> t[3]
    [] form = "path" ->
         Join(<<<<"projects">>, t[1], <<"locations">>, t[2],
                <<"connections">>, t[3]>>, "/")

\* The triple the id names once the defaults fill the omitted fields.
Intended(form, t, project, location) ==
  CASE form = "connection"          -> <<project, location, t[3]>>
    [] form = "location.connection" -> <<project, t[2], t[3]>>
    [] OTHER                        -> t

\* The request of a caller writing triple t in a documented format.
DocumentedRequest(form, t, project, location) ==
  [id |-> Written(form, t), project |-> project, location |-> location,
   intended |-> Intended(form, t, project, location)]

----------------------------------------------------------------------------
(* Properties.                                                            *)

\* A connection id written in any of the four documented formats, with
\* fields free of separators, canonicalises to
\* <project>.<location>.<connection> naming exactly the fields it was
\* written with, the defaults standing in for the omitted ones.
RoundTrip ==
  called /\ request.intended # NoTriple =>
    /\ ~result.raised
    /\ Split(result.id, ".") = request.intended

\* The ValueError message: "Only the following formats are supported:
\* <project-id>.<location>.<connection-id>, <location>.<connection-id>,
\* <connection-id>, projects/<project-id>/locations/<location>/connections/
\* <connection-id>": an id written in one of them, for any project id, is
\* accepted.
DocumentedFormsAccepted ==
  called /\ request.intended # NoTriple => ~result.raised
================================================================================
