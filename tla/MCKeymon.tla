------------------------------- MODULE MCKeymon -------------------------------
(* A volume scale with both ends in reach; POWER may be down from the charging *)
(* screen, which ends when it is pressed.                                      *)
EXTENDS Keymon
==============================================================================
