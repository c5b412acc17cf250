------------------------------ MODULE MCScanSharing ------------------------------
EXTENDS ScanSharing

(* The obstacle is in every scan: alone, and as the first of one point more *)
(* than the array holds.                                                     *)
MCReadings == {<< "near" >>, << "near", "far", "far" >>}
================================================================================
