------------------------------ MODULE PowerSleep ------------------------------
(***************************************************************************)
(* Sleep and power off: the passes of the launcher's loop that look after  *)
(* POWER, the sleep timer and the charger, and the sleep of powerops.c with*)
(* its wake button, its power-off timer, the mute and the stopped keymon.  *)
(* clock.c runs the same code.                                             *)
(*                                                                         *)
(* Time is in ticks.  A pass reads the clock once, at its top, polls the   *)
(* events later and decides with the old reading: late is the age of it.   *)
(***************************************************************************)
EXTENDS Integers, Sequences

CONSTANTS
  Hold,       \* POWER held for so long powers the device off: 1000 ms
  Delay,      \* getSleepDelay() when the timer is set
  Minute,     \* how long a charging device puts its power-off timer back
  Stall,      \* bound: a pass of the loop, or a round of the sleep, takes no longer
  MaxQueue,   \* bound: the player's events that wait in SDL's queue
  MaxVolume   \* MAX_VOLUME

ASSUME PowerAssumption ==
  /\ {Hold, Delay, Minute, Stall, MaxQueue, MaxVolume} \subseteq Nat \ {0}
  /\ Hold > 2 * Stall /\ Minute <= Delay

Off  == "off"
None == -1

Keys   == {"POWER", "OTHER"}   \* OTHER is any button but POWER
Events == Keys \X BOOLEAN      \* SDL_KEYDOWN is TRUE, SDL_KEYUP is FALSE

VARIABLES
  phase,       \* where the launcher is
  after,       \* where the pass goes on after a sleep
  is_pressed,  \* controls.c: the buttons it believes held
  idle,        \* time since deviceSleepTime
  since,       \* time since powerStartTime, or None for 0
  late,        \* time since the pass read the clock
  slept,       \* time since sleep_ticks
  timer,       \* getSleepTime() # 0
  charging,    \* isCharging()
  button,      \* POWER as the player holds it: up, down, or down since before this launcher
  other,       \* OTHER is held
  queue,       \* SDL's event queue
  longest,     \* history: the longest POWER was held without a break since the last sleep
  cause,       \* history: why the device went off
  keymon,      \* keymon runs: not stopped by a signal
  keys,        \* volume keys that wait for keymon
  step,        \* where keymon is in handling one: idle, store or mute
  up,          \* it is the key that turns the volume up
  val,         \* its local variable val
  level,       \* what exitSleep read from GetVolume
  volume, muted,
  overlapped   \* history: keymon was handling a key during exitSleep

clock  == <<idle, since, late, slept>>
player == <<button, other, longest>>
heard  == <<volume, muted, overlapped>>
sound  == <<keys, step, up, val, level, heard>>
vars   == <<phase, after, is_pressed, clock, timer, charging, player, queue, cause, keymon, sound>>

Awake   == {"frame", "poll"}
Waiting == {"wait", "delay", "woken"}
Leaving == {"unmute", "volume", "store"}
Asleep  == {"enter", "muted", "cont"} \cup Waiting \cup Leaving

TypeOK ==
  /\ phase \in Awake \cup Asleep \cup {"logic", "quit", Off}
  /\ after \in {"frame", "logic", "quit"}
  /\ cause \in {"none", "button", "row", "timer"}
  /\ is_pressed \subseteq Keys
  /\ idle \in 0 .. Delay + Stall /\ since \in None .. Hold + Stall
  /\ late \in 0 .. Stall /\ slept \in 0 .. Delay + Stall
  /\ longest \in 0 .. Hold + 3 * Stall
  /\ timer \in BOOLEAN /\ charging \in BOOLEAN /\ other \in BOOLEAN /\ keymon \in BOOLEAN
  /\ button \in {"up", "down", "before"}
  /\ queue \in Seq(Events) /\ Len(queue) <= MaxQueue
  /\ keys \in 0 .. 1 /\ step \in {"idle", "store", "mute"} /\ up \in BOOLEAN
  /\ val \in 0 .. MaxVolume /\ level \in 0 .. MaxVolume /\ volume \in 0 .. MaxVolume
  /\ muted \in BOOLEAN /\ overlapped \in BOOLEAN

AtMost(n, max) == IF n > max THEN max ELSE n
AtLeast(n, min) == IF n < min THEN min ELSE n
------------------------------------------------------------------------------
(* The player, the charger and time.                                        *)

Press(k) ==
  /\ phase # Off /\ Len(queue) < MaxQueue
  /\ IF k = "POWER" THEN button = "up" /\ button' = "down" /\ UNCHANGED other
                    ELSE ~other /\ other' = TRUE /\ UNCHANGED button
  /\ queue' = Append(queue, <<k, TRUE>>)
  /\ UNCHANGED <<phase, after, is_pressed, clock, timer, charging, longest, cause, keymon, sound>>

\* SDL reports no release of a button whose press it has not seen.
Release(k) ==
  /\ phase # Off /\ Len(queue) < MaxQueue
  /\ IF k = "POWER" THEN button # "up" /\ button' = "up" /\ UNCHANGED other
                    ELSE other /\ other' = FALSE /\ UNCHANGED button
  /\ queue' = IF k = "POWER" /\ button = "before" THEN queue ELSE Append(queue, <<k, FALSE>>)
  /\ UNCHANGED <<phase, after, is_pressed, clock, timer, charging, longest, cause, keymon, sound>>

\* A volume key; one pressed outside a sleep is SharedSettings' subject.
VolumeKey ==
  /\ phase \in Asleep /\ keys = 0 /\ keys' = 1
  /\ UNCHANGED <<phase, after, is_pressed, clock, timer, charging, player, queue, cause, keymon,
                 step, up, val, level, heard>>

Plug ==
  /\ phase # Off /\ charging' = ~charging
  /\ UNCHANGED <<phase, after, is_pressed, clock, timer, player, queue, cause, keymon, sound>>

Held == IF button = "down" /\ phase \in Awake THEN longest + 1 ELSE longest

\* What the pass compares stands still while the program sleeps: it reads no clock then,
\* and it sets both times anew, or quits, when it wakes.
Tick ==
  /\ \/ /\ phase \in Awake /\ late < Stall
        /\ late' = late + 1
        /\ idle' = AtMost(idle + 1, Delay + Stall)
        /\ since' = IF since = None THEN None ELSE AtMost(since + 1, Hold + Stall)
        /\ UNCHANGED slept
     \/ /\ phase \in Waiting /\ timer /\ slept < Delay + Stall
        /\ slept' = slept + 1
        /\ UNCHANGED <<late, idle, since>>
  /\ longest' = AtMost(Held, Hold + 3 * Stall)
  /\ UNCHANGED <<phase, after, is_pressed, timer, charging, button, other, queue, cause, keymon,
                 sound>>
------------------------------------------------------------------------------
(* One pass of the launcher's loop.                                         *)

\* currentTime is read.
BeginPass ==
  /\ phase = "frame" /\ phase' = "poll"
  /\ late' = 0
  /\ UNCHANGED <<after, is_pressed, idle, since, slept, timer, charging, player, queue, cause,
                 keymon, sound>>

\* Input_poll over the whole queue.  An event moves is_pressed; a press counts as just
\* pressed when the button was not down, every release as just released.
JustPressed(k) ==
  \E i \in DOMAIN queue :
    /\ queue[i] = <<k, TRUE>>
    /\ k \in is_pressed => \E j \in 1 .. i - 1 : queue[j] = <<k, FALSE>>

JustReleased(k) == \E i \in DOMAIN queue : queue[i] = <<k, FALSE>>

Final(k) ==
  \/ k \in is_pressed /\ ~JustReleased(k)
  \/ \E i \in DOMAIN queue :
       queue[i] = <<k, TRUE>> /\ \A j \in DOMAIN queue : j > i => queue[j] # <<k, FALSE>>

PowerOff(why) ==
  /\ phase' = Off /\ cause' = why
  /\ UNCHANGED <<after, clock, player, keymon, sound>>

\* sleep(1) comes first; only then Input_reset and enterSleep.
FauxSleep(to) ==
  /\ phase' = "enter" /\ after' = to
  /\ UNCHANGED <<button, other, cause, keymon, sound>>

\* Mutant of SleepInPass: powerStartTime is not cleared after the sleep.
SleepInPassArmed(next) ==
  /\ FauxSleep(next)
  /\ idle' = 0 /\ UNCHANGED since /\ late' = 0 /\ longest' = 0

\* deviceSleepTime and powerStartTime are set anew after the sleep; nothing reads them before.
SleepInPass(next) ==
  /\ FauxSleep(next)
  /\ idle' = 0 /\ since' = None /\ late' = 0 /\ longest' = 0

Start(pressed) == IF pressed THEN late ELSE since

\* The power logic at the end of a pass, from what the poll found: a press and a release of
\* POWER, any button held.  powerOff comes before a release is looked at.
PowerLogic(pressed, released, any, next) ==
  LET expired(i) == timer' /\ i - late >= Delay
      rested     == IF any THEN late ELSE idle
      rest       == IF expired(rested) /\ charging THEN late ELSE rested
  IN  IF since # None /\ since - late >= Hold
        THEN PowerOff("button")
        ELSE /\ UNCHANGED slept
             /\ IF expired(rest) \/ released
                  THEN SleepInPass(next)
                  ELSE /\ phase' = next /\ idle' = rest
                       /\ since' = Start(pressed)
                       /\ UNCHANGED <<after, late, player, cause, keymon, sound>>

\* What the other branches of the pass do with a button: it may choose a row of the settings
\* (sleep, power off, the timer), leave the launcher for a game, or nothing of this module.
Poll ==
  /\ phase = "poll"
  /\ is_pressed' = {k \in Keys : Final(k)}
  /\ queue' = <<>> /\ UNCHANGED charging
  /\ \/ /\ JustPressed("OTHER") /\ UNCHANGED timer
        /\ \/ PowerOff("row")
           \/ FauxSleep("logic") /\ UNCHANGED <<clock, longest>>
     \/ /\ timer' \in (IF JustPressed("OTHER") THEN BOOLEAN ELSE {timer})
        /\ \E next \in {"frame"} \cup (IF JustPressed("OTHER") THEN {"quit"} ELSE {}) :
             PowerLogic(JustPressed("POWER"), JustReleased("POWER"), is_pressed' # {}, next)

\* A sleep chosen in the settings happens in the middle of a pass; the rest of the pass has
\* the old reading of the clock and buttons that were reset.
RestOfPass ==
  /\ phase = "logic"
  /\ UNCHANGED <<is_pressed, queue, timer, charging>>
  /\ PowerLogic(FALSE, FALSE, is_pressed # {}, "quit")

\* launch.sh starts the launcher again, or a game and then the launcher; SDL starts with an
\* empty queue, and InitSettings sets the mute by the volume.
Restart ==
  /\ phase = "quit" /\ phase' = "frame"
  /\ is_pressed' = {} /\ queue' = <<>>
  /\ idle' = 0 /\ since' = None /\ late' = 0 /\ UNCHANGED slept
  /\ button' = (IF button = "up" THEN "up" ELSE "before") /\ longest' = 0 /\ other' = FALSE
  /\ muted' = (volume = 0) /\ UNCHANGED <<keys, step, up, val, level, volume, overlapped>>
  /\ UNCHANGED <<after, timer, charging, cause, keymon>>
------------------------------------------------------------------------------
(* fauxSleep.                                                               *)

Sleeping == <<timer, charging, player, cause>>

\* Input_reset and enterSleep: the mute, then the governor.
EnterSleep ==
  /\ phase = "enter" /\ phase' = "muted"
  /\ is_pressed' = {} /\ muted' = TRUE /\ overlapped' = (overlapped /\ step # "idle")
  /\ UNCHANGED <<after, clock, queue, keymon, keys, step, up, val, level, volume, Sleeping>>

\* killall -s STOP keymon; sleep_ticks is set.
StopKeymon ==
  /\ phase = "muted" /\ phase' = "wait"
  /\ keymon' = FALSE /\ slept' = 0
  /\ UNCHANGED <<after, is_pressed, idle, since, late, queue, sound, Sleeping>>

\* Mutant of WakesAt: the press wakes.
WakesAtPress(i) == queue[i] = <<"POWER", TRUE>> /\ \A j \in 1 .. i - 1 : queue[j] # <<"POWER", TRUE>>

WakesAt(i) == queue[i] = <<"POWER", FALSE>> /\ \A j \in 1 .. i - 1 : queue[j] # <<"POWER", FALSE>>
Rest(i)    == SubSeq(queue, i + 1, Len(queue))

\* The queue is emptied up to a release of POWER; 200 ms pass.
Drain ==
  /\ phase = "wait"
  /\ \/ /\ ~ \E i \in DOMAIN queue : WakesAt(i)
        /\ queue' = <<>> /\ phase' = "delay"
     \/ \E i \in DOMAIN queue : WakesAt(i) /\ queue' = Rest(i) /\ phase' = "woken"
  /\ UNCHANGED <<after, is_pressed, clock, keymon, sound, Sleeping>>

Overdue == timer /\ slept >= Delay

\* Mutant of GivesUp: the charger is asked the wrong way round.
GivesUpCharging == Overdue /\ charging

GivesUp == Overdue /\ ~charging

\* The power-off timer is looked at in every round, the one that wakes included.
Check ==
  /\ phase \in {"delay", "woken"}
  /\ IF GivesUp
       THEN PowerOff("timer")
       ELSE /\ phase' = IF phase = "woken" THEN "cont" ELSE "wait"
            /\ slept' = IF Overdue THEN slept - Minute ELSE slept
            /\ UNCHANGED <<after, idle, since, late, player, cause, keymon, sound>>
  /\ UNCHANGED <<is_pressed, queue, timer, charging>>

Continue ==
  /\ phase = "cont" /\ phase' = "unmute"
  /\ keymon' = TRUE
  /\ UNCHANGED <<after, is_pressed, clock, queue, sound, Sleeping>>

\* Mutant of Unmute: the mute stays.
UnmuteNot ==
  /\ phase = "unmute" /\ phase' = "volume"
  /\ UNCHANGED <<after, is_pressed, clock, queue, keymon, sound, Sleeping>>

\* exitSleep: SetMute(0), SetVolume(GetVolume()), the governor.
Unmute ==
  /\ phase = "unmute" /\ phase' = "volume"
  /\ muted' = FALSE
  /\ UNCHANGED <<after, is_pressed, clock, queue, keymon, keys, step, up, val, level, volume,
                 overlapped, Sleeping>>

GetVolume ==
  /\ phase = "volume" /\ phase' = "store"
  /\ level' = volume
  /\ UNCHANGED <<after, is_pressed, clock, queue, keymon, keys, step, up, val, heard, Sleeping>>

\* Back in the pass.
ExitSleep ==
  /\ phase = "store" /\ phase' = after /\ after' = "frame"
  /\ volume' = level
  /\ level' = 0 /\ slept' = 0
  /\ UNCHANGED <<is_pressed, idle, since, late, queue, keymon, keys, step, up, val, muted,
                 overlapped, Sleeping>>
------------------------------------------------------------------------------
(* keymon, in the middle of a sleep.                                        *)

KeymonRuns == keymon /\ phase # Off
KeymonOnly == <<phase, after, is_pressed, clock, timer, charging, player, queue, cause, keymon>>
Overlaps   == overlapped' = (overlapped \/ phase \in Leaving)

\* GetVolume, and the next value; at the end of the scale nothing is set.
KeymonRead ==
  /\ KeymonRuns /\ step = "idle" /\ keys = 1
  /\ keys' = 0 /\ up' \in BOOLEAN /\ Overlaps
  /\ val' = IF up' THEN AtMost(volume + 1, MaxVolume) ELSE AtLeast(volume - 1, 0)
  /\ step' = IF val' # volume THEN "store" ELSE "mute"
  /\ UNCHANGED <<KeymonOnly, level, volume, muted>>

KeymonStore ==
  /\ KeymonRuns /\ step = "store" /\ step' = "mute"
  /\ volume' = val /\ Overlaps
  /\ UNCHANGED <<KeymonOnly, keys, up, val, level, muted>>

\* Unmuted after a key up; muted when a key down ended at 0.
KeymonMute ==
  /\ KeymonRuns /\ step = "mute" /\ step' = "idle"
  /\ muted' = IF up THEN FALSE ELSE IF val = 0 THEN TRUE ELSE muted
  /\ up' = FALSE /\ val' = 0 /\ Overlaps
  /\ UNCHANGED <<KeymonOnly, keys, level, volume>>
------------------------------------------------------------------------------
Init ==
  /\ phase = "frame" /\ after = "frame" /\ is_pressed = {}
  /\ idle = 0 /\ since = None /\ late = 0 /\ slept = 0
  /\ timer \in BOOLEAN /\ charging \in BOOLEAN
  /\ button \in {"up", "before"} /\ other = FALSE /\ queue = <<>> /\ longest = 0
  /\ cause = "none" /\ keymon = TRUE /\ keys = 0 /\ step = "idle" /\ up = FALSE /\ val = 0 /\ level = 0
  /\ volume \in 0 .. MaxVolume /\ muted = (volume = 0) /\ overlapped = FALSE

Launcher ==
  \/ BeginPass \/ Poll \/ RestOfPass \/ Restart
  \/ EnterSleep \/ StopKeymon \/ Drain \/ Check
  \/ Continue \/ Unmute \/ GetVolume \/ ExitSleep

KeymonStep == KeymonRead \/ KeymonStore \/ KeymonMute

Next ==
  \/ \E k \in Keys : Press(k) \/ Release(k)
  \/ VolumeKey \/ Plug \/ Tick
  \/ Launcher \/ KeymonStep

Spec == Init /\ [][Next]_vars

\* The launcher runs and time passes; the player, the charger and keymon owe nothing.
FairSpec == Spec /\ WF_vars(Launcher) /\ WF_vars(Tick)
------------------------------------------------------------------------------
(* Properties.                                                              *)

\* POWER powers the device off when it is held for Hold and at no other time: no sequence
\* of taps does, whatever the passes' delays, less the age of the two readings of the clock;
\* and a hold is never overlooked, save for the passes that take notice of it.
PowersOffOnHold ==
  /\ cause = "button" => longest >= Hold - 2 * Stall
  /\ phase \in Awake => longest < Hold + 3 * Stall

\* After a sleep a volume above 0 is heard, also when the sleep stopped keymon in the middle of a
\* key; what keymon handles during exitSleep is left out: it may leave the two apart.
AudibleAfterSleep ==
  phase \in Awake /\ step = "idle" /\ ~overlapped /\ volume > 0 => ~muted

\* A release of POWER that the launcher gets to see ends a sleep, or begins one.
Released == <<"POWER", FALSE>> \in {queue[i] : i \in DOMAIN queue}

PowerKeyAnswered ==
  /\ (phase \in Waiting /\ Released) ~> (phase = Off \/ (phase \notin Asleep /\ keymon))
  /\ (phase \in Awake /\ Released) ~> (phase \notin Awake)

\* A sleeping device with a timer does not stay on for ever: it is powered off, woken or charged.
PowersOffAlone == (phase \in Waiting /\ timer) ~> (phase \notin Waiting \/ charging)
===============================================================================
