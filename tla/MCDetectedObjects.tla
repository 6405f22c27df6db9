-------------------------- MODULE MCDetectedObjects --------------------------
(* DetectedObjects with interchangeable ids.                               *)
EXTENDS DetectedObjects, TLC

IdSymmetry == Permutations(Ids)

=============================================================================
