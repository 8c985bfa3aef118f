---------------------------- MODULE MCInputBuffer ---------------------------
(***************************************************************************)
(* A file of eleven bytes, and handles whose borders fall inside the       *)
(* buffer: the chain runs 2, 0, 1 through four blocks of two bytes, the    *)
(* limit cuts its last block; there are three gaps, so four regions; and   *)
(* four segments, one of them empty.                                       *)
(***************************************************************************)
EXTENDS InputBuffer

MCBlockTable == <<1, 4, 0, 4>>
MCSkips      == << <<2, 3>>, <<5, 6>>, <<7, 9>> >>
MCSegmentSizes == <<4, 0, 1, 5>>
=============================================================================
