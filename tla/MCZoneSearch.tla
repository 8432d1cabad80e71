----------------------------- MODULE MCZoneSearch -----------------------------
(* The zone search on the range of a puzzle of 5 bits, on two GPUs.          *)
EXTENDS GpuSearch

Bits == 5

MCLow  == 2 ^ (Bits - 1)
MCHigh == 2 ^ Bits - 1
=============================================================================
