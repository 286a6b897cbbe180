------------------------------ MODULE Revisions ------------------------------
(***************************************************************************)
(* What the migrations promise: the schema of the database is a function   *)
(* of its revision, whoever migrates it and whatever fails, and at the     *)
(* head it is the schema the models declare.  An upgrade goes to the head  *)
(* in one step and a downgrade one revision back.                          *)
(***************************************************************************)
EXTENDS Integers, Functions

CONSTANTS HeadRevision, Creates, Declared

VARIABLES revision, tables

SchemaAt(v) ==
    IF v = HeadRevision THEN Declared ELSE UNION {Range(Creates[w]) : w \in 1 .. v}

Init == revision \in 0 .. HeadRevision /\ tables = SchemaAt(revision)

MoveTo(v) == revision' = v /\ tables' = SchemaAt(v)

Upgrade == revision < HeadRevision /\ MoveTo(HeadRevision)
Downgrade == revision > 0 /\ MoveTo(revision - 1)

Next == Upgrade \/ Downgrade

Spec == Init /\ [][Next]_<<revision, tables>>
=============================================================================
