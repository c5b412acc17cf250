----------------------------- MODULE MCCapsuleSync -----------------------------
EXTENDS CapsuleSync

MCPoints == [f \in Formats |-> IF f = "plain" THEN 2 ELSE IF f = "ultra_dense" THEN 4 ELSE 3]
================================================================================
