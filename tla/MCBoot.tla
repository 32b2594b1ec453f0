------------------------------- MODULE MCBoot -------------------------------
(* The programs that are alone on the device while they run: the installer before the launcher
   is there, batmon before launch.sh starts anything else, the clock tool instead of the
   launcher.  A behaviour is one of one of them (part). *)
EXTENDS Clock

CONSTANTS Parts, Launcher, Versions, Missing, Torn, MaxCuts, Timeout

\* The archive has a launcher.
ASSUME LauncherAssumption == Launcher \in Parts

VARIABLES part,
          pc, package, newest, system, old, updater, todo, cuts, hurt,
          main, elapsed, input, key, charging, answer, plugged, pending,
          launch, is_charging, screen_on, lit, age, gone

I == INSTANCE Install
B == INSTANCE Batmon

install == <<pc, package, newest, system, old, updater, todo, cuts, hurt>>
batmon == <<main, elapsed, input, key, charging, answer, plugged, pending,
            launch, is_charging, screen_on, lit, age, gone>>
all == <<part, vars, install, batmon>>

MCInit ==
  /\ Init /\ I!Init /\ B!Init
  /\ part \in {"installer", "batmon", "clock"}
  /\ part # "clock" => fields = <<MIN_YEAR + 1, 1, 1, 0, 0, 0>>
  /\ part # "installer" => newest = CHOOSE v \in Versions : TRUE
  /\ part # "batmon" => plugged

\* Only the chosen program steps.
Installer == part = "installer" /\ UNCHANGED <<part, vars, batmon>>
Charging == part = "batmon" /\ UNCHANGED <<part, vars, install>>
ClockTool == part = "clock" /\ UNCHANGED <<part, install, batmon>>

MCNext == \/ I!Next /\ Installer
          \/ B!Next /\ Charging
          \/ Next /\ ClockTool

MCSpec == /\ MCInit /\ [][MCNext]_all
          /\ WF_all(I!Boot /\ Installer) /\ WF_all(I!SwitchOn /\ Installer)
          /\ WF_all(B!Main /\ Charging) /\ WF_all(B!InputThread /\ Charging)
          /\ WF_all(B!ChargingThread /\ Charging) /\ WF_all(B!Tick /\ Charging)

\* Install!LaunchesNewest.
LaunchesNewest == I!LaunchesNewest

\* Install!UpdateFinishes.
UpdateFinishes == I!UpdateFinishes

\* Install!StockKeptOut.
StockKeptOut == I!StockKeptOut

\* Batmon!LeavesForCause.
LeavesForCause == B!LeavesForCause

\* Batmon!Leaves.
Leaves == B!Leaves

\* Batmon!DarkWhenIdle.
DarkWhenIdle == part = "batmon" => B!DarkWhenIdle
=============================================================================
