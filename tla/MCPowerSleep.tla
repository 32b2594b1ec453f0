----------------------------- MODULE MCPowerSleep -----------------------------
(* An instance of PowerSleep for TLC.  The timing of a button and the race for the  *)
(* mute meet in no property, so they are explored apart: no volume keys where time  *)
(* passes; no time, and so no timer, where volume keys are pressed.                 *)
EXTENDS PowerSleep

VARIABLE explores

MCInit == Init /\ explores \in {"time", "sound"} /\ (explores = "sound" => ~timer)
MCNext ==
  /\ Next /\ UNCHANGED explores
  /\ explores = "time" => keys' = 0
  /\ explores = "sound" => late' + slept' = 0 /\ ~timer' /\ UNCHANGED charging

MCSpec ==
  /\ MCInit /\ [][MCNext]_<<vars, explores>>
  /\ WF_vars(Launcher) /\ (explores = "time" => WF_vars(Tick))
===============================================================================
