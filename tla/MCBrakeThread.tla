------------------------------ MODULE MCBrakeThread ------------------------------
EXTENDS BrakeThread

(* SAADC of the board: gain 1/6, 600 mV reference, 12 bits. *)
MCMillivolts(raw) == (raw * 600 * 6) \div 4096
================================================================================
