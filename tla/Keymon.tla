-------------------------------- MODULE Keymon --------------------------------
(***************************************************************************)
(* keymon, the daemon that watches the buttons of the device beside every  *)
(* other program: the volume, the screenshot chord and the chord that      *)
(* forces the power off.  One action per kernel key event; the fallthrough *)
(* of the event switch is kept.  The volume is a number here: how it is    *)
(* shared with the program in front, saved and muted is SharedSettings.    *)
(***************************************************************************)
EXTENDS Integers, FiniteSets

CONSTANTS
  MaxVolume,    \* MAX_VOLUME
  HeldAtStart   \* buttons that may be down before keymon opens the event device

Buttons == {"MENU", "POWER", "START", "SELECT", "VOLUP", "VOLDOWN", "L2", "R2"}

Released == 0
Pressed  == 1
Repeat   == 2

ASSUME KeymonAssumption == MaxVolume \in Nat \ {0} /\ HeldAtStart \subseteq Buttons

VARIABLES
  held,           \* the buttons that are down
  repeating,      \* the button the kernel repeats: the one pressed last, while down
  seen,           \* history: the buttons down whose press keymon has handled
  menu_pressed, power_pressed, l2_pressed, r2_pressed,   \* what keymon remembers
  repeat_vol,     \* every second repeat counts
  volume,         \* GetVolume()
  shots,          \* history: parity of the screenshots taken
  event,          \* history: the event handled last, and whether it moved the volume
  down            \* shutdown was called; keymon waits for the end

memory == <<menu_pressed, power_pressed, l2_pressed, r2_pressed, repeat_vol>>
vars   == <<held, repeating, seen, memory, volume, shots, event, down>>
------------------------------------------------------------------------------
\* The cases of the switch that an event runs through: its own, and those it falls
\* into because the case above ends in a break for a press only.
Falls(code) == code \in {"MENU", "POWER", "START", "SELECT"}

\* Mutant of RunsPower: a press of MENU falls into the case of POWER as well.
RunsPowerAlways(code, val) == code \in {"MENU", "POWER"}

RunsPower(code, val) == code = "POWER" \/ (code = "MENU" /\ val # Pressed)
RunsVolup(code, val) == code = "VOLUP" \/ (Falls(code) /\ val # Pressed)

\* Mutant of StepVal: every repeat counts.
StepValFull(val) == IF val = Repeat THEN Pressed ELSE val

\* The value the volume cases act on: a repeat counts every second time.
StepVal(val) == IF val = Repeat THEN repeat_vol ELSE val

Moves(code, val) ==
  (RunsVolup(code, val) \/ code = "VOLDOWN") /\ StepVal(val) = Pressed

NextRepeat(code, val) ==
  IF RunsVolup(code, val) \/ code = "VOLDOWN"
    THEN IF val = Repeat THEN 1 - repeat_vol ELSE 0
    ELSE repeat_vol

VolumeUp   == volume' = IF volume < MaxVolume THEN volume + 1 ELSE volume
VolumeDown == volume' = IF volume > 0 THEN volume - 1 ELSE volume

\* Mutant of Both: either button takes the screenshot.
Either(l2, r2) == l2 # Released \/ r2 # Released

\* l2_pressed & r2_pressed: bitwise, so a press (1) and a repeat (2) do not meet.
Both(l2, r2) == l2 = r2 /\ l2 # Released

Shoulder(code, val) ==
  LET l2 == IF code = "L2" THEN val ELSE l2_pressed
      r2 == IF code = "R2" THEN val ELSE r2_pressed
  IN  IF code \in {"L2", "R2"} /\ Both(l2, r2)
        THEN l2_pressed' = 0 /\ r2_pressed' = 0 /\ shots' = 1 - shots
        ELSE l2_pressed' = l2 /\ r2_pressed' = r2 /\ UNCHANGED shots

\* One turn of the event loop.
Handle(code, val) ==
  LET menu  == IF code = "MENU" /\ val # Repeat THEN val ELSE menu_pressed
      power == IF RunsPower(code, val) /\ val # Repeat THEN val ELSE power_pressed
      chord == menu # 0 /\ power # 0
  IN  /\ ~down
      /\ repeat_vol' = NextRepeat(code, val)
      /\ IF ~Moves(code, val) THEN UNCHANGED volume
         ELSE IF code = "VOLDOWN" THEN VolumeDown
         ELSE VolumeUp
      /\ Shoulder(code, val)
      /\ menu_pressed' = IF chord THEN 0 ELSE menu
      /\ power_pressed' = IF chord THEN 0 ELSE power
      /\ down' = chord
      /\ event' = [code |-> code, val |-> val, moved |-> Moves(code, val)]

\* What the user's fingers do, and the repeats the kernel makes of it.
Press(code) ==
  /\ code \notin held
  /\ held' = held \cup {code} /\ repeating' = code /\ seen' = seen \cup {code}
  /\ Handle(code, Pressed)

Release(code) ==
  /\ code \in held
  /\ held' = held \ {code} /\ seen' = seen \ {code}
  /\ repeating' = IF repeating = code THEN "none" ELSE repeating
  /\ Handle(code, Released)

Repeats(code) ==
  /\ repeating = code
  /\ UNCHANGED <<held, seen, repeating>>
  /\ Handle(code, Repeat)
------------------------------------------------------------------------------
Init ==
  /\ held \in SUBSET HeldAtStart
  /\ repeating \in held \cup {"none"}
  /\ seen = {}
  /\ menu_pressed = 0 /\ power_pressed = 0 /\ l2_pressed = 0 /\ r2_pressed = 0
  /\ repeat_vol = 0
  /\ volume \in 0 .. MaxVolume
  /\ shots = 0 /\ event = [code |-> "none", val |-> Released, moved |-> FALSE] /\ down = FALSE

Next == \E code \in Buttons : Press(code) \/ Release(code) \/ Repeats(code)

Spec == Init /\ [][Next]_vars
------------------------------------------------------------------------------
(* Properties.                                                              *)

\* The types; the volume stays on its scale.
TypeOK ==
  /\ held \subseteq Buttons /\ seen \subseteq held
  /\ repeating \in held \cup {"none"}
  /\ menu_pressed \in {0, 1} /\ power_pressed \in {0, 1}
  /\ l2_pressed \in 0 .. 2 /\ r2_pressed \in 0 .. 2 /\ repeat_vol \in {0, 1}
  /\ volume \in 0 .. MaxVolume /\ down \in BOOLEAN

\* "Force power off: MENU + POWER" - whenever keymon has seen both go down, in either
\* order and with any other buttons in between, and never otherwise.
ForcePowerOff == down <=> {"MENU", "POWER"} \subseteq seen

\* "Adjust repeat speed to 1/2": of two repeats handled one after the other, whichever
\* buttons they come from, at most one moves the volume.
RepeatAtHalfSpeed ==
  [][(event.val = Repeat /\ event'.val = Repeat /\ event.moved) => ~event'.moved]_vars

\* A screenshot is taken only while both shoulder buttons are down.
ScreenshotNeedsBoth == [][shots' # shots => {"L2", "R2"} \subseteq held']_vars

\* README.txt: "Reduce/increase volume: Volume Buttons": keymon changes it for no other.
VolumeButtonsOnly ==
  [][volume' # volume => event'.code \in {"VOLUP", "VOLDOWN"}]_vars
==============================================================================
