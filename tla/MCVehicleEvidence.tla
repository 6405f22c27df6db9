------------------------- MODULE MCVehicleEvidence -------------------------
(* VehicleEvidence with two polygons: boxes near and far lie in polygon 1, *)
(* other in polygon 2, road in none.                                       *)
EXTENDS VehicleEvidence, TLC

CONSTANTS near, far, other, road

MCRoiOf == [p \in Places |->
              IF p \in {near, far} THEN 1 ELSE IF p = other THEN 2 ELSE None]

SamePlace == {<<p, p>> : p \in Places}

ClassSymmetry == Permutations(Classes)

AllNear == Places \X Places

=============================================================================
