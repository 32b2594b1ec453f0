---------------------------- MODULE MCSharedSettings ----------------------------
(* Scales with both ends in reach of one key.                                    *)
EXTENDS SharedSettings
==============================================================================
