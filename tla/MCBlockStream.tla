---------------------------- MODULE MCBlockStream ----------------------------
(* Instance of BlockStream: three blocks of different sizes, one of them a  *)
(* single byte, so that a lookahead byte can be a whole block.              *)
EXTENDS BlockStream

MCStart == [k \in 0..3 |-> CASE k = 0 -> 0 [] k = 1 -> 2 [] k = 2 -> 3 [] k = 3 -> 5]
=============================================================================
