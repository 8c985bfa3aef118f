---------------------------- MODULE MCArchiveParser ----------------------------
(* Instance of ArchiveParser: five entries in two solid streams, with an     *)
(* entry outside every stream between two runs of the same stream, so that   *)
(* runs begin, continue, end and begin again.                                *)
EXTENDS ArchiveParser

CONSTANTS a, b

MCSolid == <<a, a, NoObject, a, b>>
=============================================================================
