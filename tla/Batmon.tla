------------------------------- MODULE Batmon -------------------------------
(***************************************************************************)
(* batmon: what the device runs when it is switched on by a charger.  The  *)
(* main loop dims the screen after a while and leaves when the charger is  *)
(* gone or POWER was pressed; one thread asks for the charger every        *)
(* second, another reads the keys.  They share launch, is_charging,        *)
(* screen_on and screen_start without a lock, and the program is built     *)
(* without optimisation, so every access is a load or a store of its own.  *)
(***************************************************************************)
EXTENDS Integers

CONSTANT Timeout   \* the 10 seconds after which the screen goes dark, in ticks

VARIABLES main,           \* where the main loop is
          input,          \* where inputThread is
          key,            \* the key of the event it handles
          charging,       \* where chargingThread is
          answer,         \* what axp_test told it
          plugged,        \* is the charger there
          pending,        \* key events the kernel holds for batmon
          launch, is_charging, screen_on,
          lit,            \* the panel
          age,            \* SDL_GetTicks() - screen_start, now
          elapsed,        \* the same for the time the main loop last read, -1 if that was earlier
          gone            \* history: the charger was seen to be gone

mainVars == <<main, elapsed>>
inputVars == <<input, key>>
chargingVars == <<charging, answer>>
env == <<plugged, pending>>
vars == <<main, elapsed, input, key, charging, answer, plugged, pending,
          launch, is_charging, screen_on, lit, age, gone>>

Keys == {"POWER", "other"}

TypeOK ==
  /\ main \in {"launch?", "charging?", "screen?", "ticks", "compare", "dim", "flag",
               "left", "joining", "joined", "shutdown", "returned"}
  /\ input \in {"read", "start", "screen?", "light", "flag", "launch", "cancelled"}
  /\ key \in Keys
  /\ charging \in {"ask", "store", "cancelled"}
  /\ answer \in BOOLEAN
  /\ plugged \in BOOLEAN
  /\ pending \subseteq Keys
  /\ launch \in BOOLEAN
  /\ is_charging \in BOOLEAN
  /\ screen_on \in BOOLEAN
  /\ lit \in BOOLEAN
  /\ age \in 0..Timeout + 1
  /\ elapsed \in -1..Timeout + 1
  /\ gone \in BOOLEAN

\* main has lit the screen and started the threads.  launch.sh starts batmon when the charger
\* was there a moment ago.
Init ==
  /\ main = "launch?"
  /\ input = "read"
  /\ key = "other"
  /\ charging = "ask"
  /\ answer = TRUE
  /\ plugged \in BOOLEAN
  /\ pending = {}
  /\ launch = FALSE
  /\ is_charging = TRUE
  /\ screen_on = TRUE
  /\ lit = TRUE
  /\ age = 0
  /\ elapsed = 0
  /\ gone = FALSE

-----------------------------------------------------------------------------
(* The world: time, the charger, and keys pressed or released.             *)

\* age stops one tick past Timeout: from there on nothing tells the times apart.
Tick ==
  /\ age <= Timeout
  /\ age' = age + 1
  /\ UNCHANGED <<mainVars, inputVars, chargingVars, env, launch, is_charging, screen_on, lit, gone>>

Charger ==
  /\ plugged' = ~plugged
  /\ UNCHANGED <<mainVars, inputVars, chargingVars, pending, launch, is_charging, screen_on, lit,
                 age, gone>>

Press(k) ==
  /\ k \notin pending
  /\ pending' = pending \cup {k}
  /\ UNCHANGED <<mainVars, inputVars, chargingVars, plugged, launch, is_charging, screen_on, lit,
                 age, gone>>

-----------------------------------------------------------------------------
(* inputThread: screenOn() for every key, then launch for POWER.           *)

InputStep(from, to) == input = from /\ input' = to

Read ==
  /\ InputStep("read", "start")
  /\ main # "joining"
  /\ key' \in pending
  /\ pending' = pending \ {key'}
  /\ UNCHANGED <<mainVars, chargingVars, plugged, launch, is_charging, screen_on, lit, age, gone>>

\* screen_start = SDL_GetTicks(): a time the main loop read before is now in the past.
StartScreen ==
  /\ InputStep("start", "screen?")
  /\ age' = 0
  /\ elapsed' = IF main # "compare" THEN elapsed ELSE IF elapsed < age THEN -1 ELSE elapsed - age
  /\ UNCHANGED <<main, key, chargingVars, env, launch, is_charging, screen_on, lit, gone>>

TestScreen ==
  /\ InputStep("screen?", IF screen_on THEN "flag" ELSE "light")
  /\ UNCHANGED <<mainVars, key, chargingVars, env, launch, is_charging, screen_on, lit, age, gone>>

Light ==
  /\ InputStep("light", "flag")
  /\ main # "joining"
  /\ lit' = TRUE
  /\ UNCHANGED <<mainVars, key, chargingVars, env, launch, is_charging, screen_on, age, gone>>

\* Mutant of FlagOn: the lit screen is not remembered.
FlagOnNot ==
  /\ InputStep("flag", IF key = "POWER" THEN "launch" ELSE "read")
  /\ UNCHANGED <<mainVars, key, chargingVars, env, launch, is_charging, screen_on, lit, age, gone>>

FlagOn ==
  /\ InputStep("flag", IF key = "POWER" THEN "launch" ELSE "read")
  /\ screen_on' = TRUE
  /\ UNCHANGED <<mainVars, key, chargingVars, env, launch, is_charging, lit, age, gone>>

\* Mutant of Launch: the flag is kept in a register of the thread.
LaunchLocal ==
  /\ InputStep("launch", "read")
  /\ UNCHANGED <<mainVars, key, chargingVars, env, launch, is_charging, screen_on, lit, age, gone>>

Launch ==
  /\ InputStep("launch", "read")
  /\ launch' = TRUE
  /\ UNCHANGED <<mainVars, key, chargingVars, env, is_charging, screen_on, lit, age, gone>>

InputThread == Read \/ StartScreen \/ TestScreen \/ Light \/ FlagOn \/ Launch

-----------------------------------------------------------------------------
(* chargingThread.                                                         *)

Ask ==
  /\ charging = "ask"
  /\ main # "joining"
  /\ charging' = "store"
  /\ answer' = plugged
  /\ gone' = (gone \/ ~plugged)
  /\ UNCHANGED <<mainVars, inputVars, env, launch, is_charging, screen_on, lit, age>>

Store ==
  /\ charging = "store"
  /\ charging' = "ask"
  /\ is_charging' = answer
  /\ UNCHANGED <<mainVars, inputVars, answer, env, launch, screen_on, lit, age, gone>>

ChargingThread == Ask \/ Store

-----------------------------------------------------------------------------
(* main: while (!launch && is_charging) if (screen_on && ...) screenOff(); *)

MainStep(from, to) == main = from /\ main' = to

TestLaunch ==
  /\ MainStep("launch?", IF launch THEN "left" ELSE "charging?")
  /\ UNCHANGED <<elapsed, inputVars, chargingVars, env, launch, is_charging, screen_on, lit, age,
                 gone>>

TestCharging ==
  /\ MainStep("charging?", IF is_charging THEN "screen?" ELSE "left")
  /\ UNCHANGED <<elapsed, inputVars, chargingVars, env, launch, is_charging, screen_on, lit, age,
                 gone>>

TestScreenOn ==
  /\ MainStep("screen?", IF screen_on THEN "ticks" ELSE "launch?")
  /\ UNCHANGED <<elapsed, inputVars, chargingVars, env, launch, is_charging, screen_on, lit, age,
                 gone>>

Ticks ==
  /\ MainStep("ticks", "compare")
  /\ elapsed' = age
  /\ UNCHANGED <<inputVars, chargingVars, env, launch, is_charging, screen_on, lit, age, gone>>

\* The difference is unsigned: a screen_start later than the time read makes it huge.
Compare ==
  /\ MainStep("compare", IF elapsed \in 0..Timeout - 1 THEN "launch?" ELSE "dim")
  /\ elapsed' = 0
  /\ UNCHANGED <<inputVars, chargingVars, env, launch, is_charging, screen_on, lit, age, gone>>

Dim ==
  /\ MainStep("dim", "flag")
  /\ lit' = FALSE
  /\ UNCHANGED <<elapsed, inputVars, chargingVars, env, launch, is_charging, screen_on, age, gone>>

FlagOff ==
  /\ MainStep("flag", "launch?")
  /\ screen_on' = FALSE
  /\ UNCHANGED <<elapsed, inputVars, chargingVars, env, launch, is_charging, lit, age, gone>>

\* Mutant of Cancel: the threads are left running.
CancelNot ==
  /\ MainStep("left", "joined")
  /\ UNCHANGED <<elapsed, inputVars, chargingVars, env, launch, is_charging, screen_on, lit, age,
                 gone>>

\* Both threads are asked to end; they do at the next read, system, sleep or popen.
Cancel ==
  /\ MainStep("left", "joining")
  /\ UNCHANGED <<elapsed, inputVars, chargingVars, env, launch, is_charging, screen_on, lit, age,
                 gone>>

Join ==
  /\ MainStep("joining", "joined")
  /\ input \in {"read", "light"}
  /\ input' = "cancelled"
  /\ charging = "ask"
  /\ charging' = "cancelled"
  /\ UNCHANGED <<elapsed, key, answer, env, launch, is_charging, screen_on, lit, age, gone>>

Leave ==
  /\ MainStep("joined", IF launch THEN "returned" ELSE "shutdown")
  /\ UNCHANGED <<elapsed, inputVars, chargingVars, env, launch, is_charging, screen_on, lit, age,
                 gone>>

Main == \/ TestLaunch \/ TestCharging \/ TestScreenOn \/ Ticks \/ Compare
        \/ Dim \/ FlagOff \/ Cancel \/ Join \/ Leave

-----------------------------------------------------------------------------

Done == main \in {"shutdown", "returned"}

Next == Main \/ InputThread \/ ChargingThread \/ Tick \/ Charger \/ \E k \in Keys : Press(k)

Spec == Init /\ [][Next]_vars

\* Every thread runs and time passes.
Fairness == WF_vars(Main) /\ WF_vars(InputThread) /\ WF_vars(ChargingThread) /\ WF_vars(Tick)
FairSpec == Spec /\ Fairness

-----------------------------------------------------------------------------

\* The device is switched off only because the charger was seen to be gone and no POWER press
\* was handled, and goes on to the launcher only for POWER (batmon.c:111, 128).
LeavesForCause ==
  /\ main = "shutdown" => gone /\ ~launch
  /\ main = "returned" => launch

\* POWER, and a charger that stays away, end batmon.
Leaves == /\ (key = "POWER" /\ input = "start") ~> Done
          /\ <>[]~plugged => <>Done

\* When nobody presses a key any more the screen goes dark and stays so, whatever the two threads
\* made of screen_on before.
DarkWhenIdle == <>[](input = "read" /\ pending = {}) => <>[](Done \/ ~lit)
=============================================================================
