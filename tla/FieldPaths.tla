----------------------------- MODULE FieldPaths -----------------------------
(***************************************************************************)
(* API types as sets of field paths.  A path is the sequence of the JSON   *)
(* names that lead to a field.  An object is a function from the paths of  *)
(* the fields that are set to their values; a field that is set belongs to *)
(* structs that are set.  Lists have the fields of their one element.      *)
(***************************************************************************)
EXTENDS Sequences

\* A field of an object, and a field of the struct in a field.
Field(name)     == <<name>>
Inside(name, p) == <<name>> \o p

\* Fields with a value of their own.
Fields(names) == {Field(n) : n \in names}

\* A field that holds a struct with the paths S; an inlined struct is just
\* the union of its paths with those around it.
Struct(name, S) == {Field(name)} \union {Inside(name, p) : p \in S}

\* The object of a schema with every field set, each to a value of its own.
Full(S) == [p \in S |-> p]

\* The zero value: no field is set.
Empty == [p \in {} |-> p]
=============================================================================
