---------------------------- MODULE MCSinkStream ----------------------------
(* SinkStream for TLC *)
EXTENDS SinkStream, TLC

Symmetry == Permutations(Ids)
=============================================================================
