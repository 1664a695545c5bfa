------------------------------ MODULE MCSerialLink -----------------------------
(* The serial line for TLC: two joints, the second of them the wrist.            *)
EXTENDS SerialLink
================================================================================
