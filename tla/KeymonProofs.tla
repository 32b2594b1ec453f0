----------------------------- MODULE KeymonProofs -----------------------------
(* The power-off chord, the screenshot chord and the repeat of the volume      *)
(* keys, for a volume scale of any length and whatever else is held down when  *)
(* keymon starts.                                                              *)
EXTENDS Keymon, TLAPS

\* What keymon remembers of the chord is what it has seen, until it shuts down.  The
\* release of MENU runs the case of POWER too, which is harmless only because keymon has
\* seen every press of MENU: it must not be down when keymon starts.
ChordOK ==
  /\ "MENU" \in held => "MENU" \in seen
  /\ ~down => /\ menu_pressed = (IF "MENU" \in seen THEN 1 ELSE 0)
              /\ power_pressed = (IF "POWER" \in seen THEN 1 ELSE 0)
  /\ down \in BOOLEAN
  /\ ForcePowerOff

LEMMA ChordInit == ASSUME "MENU" \notin HeldAtStart, Init PROVE ChordOK
BY DEF Init, ChordOK, ForcePowerOff

\* The chord as an event leaves it, before keymon acts on it, and how it acts.
MenuNow(code, val)  == IF code = "MENU" /\ val # 2 THEN val ELSE menu_pressed
PowerNow(code, val) ==
  IF (code = "POWER" /\ val # 2) \/ (code = "MENU" /\ val = 0) THEN val ELSE power_pressed
Acted(m, p) ==
  /\ down' \in BOOLEAN
  /\ (m = 1 /\ p = 1) => down'
  /\ ~(m = 1 /\ p = 1) => (~down' /\ menu_pressed' = m /\ power_pressed' = p)

LEMMA ChordMemory ==
  ASSUME NEW code \in Buttons, NEW val \in {0, 1, 2}, Handle(code, val),
         menu_pressed \in {0, 1}, power_pressed \in {0, 1}
  PROVE  Acted(MenuNow(code, val), PowerNow(code, val))
<1> DEFINE m == MenuNow(code, val)
           p == PowerNow(code, val)
<1>1. m \in {0, 1} /\ p \in {0, 1}
  BY DEF MenuNow, PowerNow
<1>2. m = IF code = "MENU" /\ val # Repeat THEN val ELSE menu_pressed
  BY DEF Repeat, MenuNow
<1>3. p = IF RunsPower(code, val) /\ val # Repeat THEN val ELSE power_pressed
  <2>1. (RunsPower(code, val) /\ val # Repeat)
          <=> (code = "POWER" /\ val # 2) \/ (code = "MENU" /\ val = 0)
    BY DEF RunsPower, Repeat, Pressed
  <2> QED BY <2>1 DEF PowerNow
<1>4. /\ menu_pressed' = IF m # 0 /\ p # 0 THEN 0 ELSE m
      /\ power_pressed' = IF m # 0 /\ p # 0 THEN 0 ELSE p
      /\ down' = (m # 0 /\ p # 0)
  <2> HIDE DEF m, p
  <2> QED BY <1>2, <1>3, Zenon DEF Handle
<1> HIDE DEF m, p
<1>5. CASE m = 1 /\ p = 1
  <2>1. (m # 0 /\ p # 0) = TRUE BY <1>5
  <2> QED BY <1>4, <1>5, <2>1 DEF Acted, m, p
<1>6. CASE ~(m = 1 /\ p = 1)
  <2>1. (m # 0 /\ p # 0) = FALSE BY <1>1, <1>6
  <2>2. ~down' /\ down' \in BOOLEAN /\ menu_pressed' = m /\ power_pressed' = p
    BY <1>4, <2>1
  <2> QED BY <1>6, <2>2 DEF Acted, m, p
<1> QED BY <1>5, <1>6

\* A press joins what was seen, a release leaves it, a repeat changes nothing.
LEMMA ChordEvent ==
  ASSUME ChordOK, NEW code \in Buttons, Press(code) \/ Release(code) \/ Repeats(code)
  PROVE  ChordOK'
<1>1. /\ menu_pressed = (IF "MENU" \in seen THEN 1 ELSE 0)
      /\ power_pressed = (IF "POWER" \in seen THEN 1 ELSE 0)
      /\ ~({"MENU", "POWER"} \subseteq seen) /\ ("MENU" \in held => "MENU" \in seen)
  <2>1. ~down BY DEF Press, Release, Repeats, Handle
  <2> QED BY <2>1 DEF ChordOK, ForcePowerOff
<1>2. menu_pressed \in {0, 1} /\ power_pressed \in {0, 1} BY <1>1
<1>3. CASE Press(code)
  <2>1. Handle(code, 1) /\ seen' = seen \cup {code} /\ held' = held \cup {code}
    BY <1>3 DEF Press, Pressed
  <2>2. CASE code = "MENU"
    <3>1. MenuNow(code, 1) = 1 /\ PowerNow(code, 1) = power_pressed
      BY <2>2 DEF MenuNow, PowerNow
    <3>2. Acted(1, power_pressed) BY <1>2, <2>1, <3>1, ChordMemory
    <3>3. "MENU" \in seen' /\ ("POWER" \in seen' <=> "POWER" \in seen)
      BY <1>1, <2>1, <2>2
    <3> QED BY <1>1, <3>2, <3>3 DEF Acted, ChordOK, ForcePowerOff
  <2>3. CASE code = "POWER"
    <3>1. MenuNow(code, 1) = menu_pressed /\ PowerNow(code, 1) = 1
      BY <2>3 DEF MenuNow, PowerNow
    <3>2. Acted(menu_pressed, 1) BY <1>2, <2>1, <3>1, ChordMemory
    <3>3. "POWER" \in seen' /\ ("MENU" \in seen' <=> "MENU" \in seen)
          /\ ("MENU" \in held' <=> "MENU" \in held)
      BY <1>1, <2>1, <2>3
    <3> QED BY <1>1, <3>2, <3>3 DEF Acted, ChordOK, ForcePowerOff
  <2>4. CASE code # "MENU" /\ code # "POWER"
    <3>1. MenuNow(code, 1) = menu_pressed /\ PowerNow(code, 1) = power_pressed
      BY <2>4 DEF MenuNow, PowerNow
    <3>2. Acted(menu_pressed, power_pressed) BY <1>2, <2>1, <3>1, ChordMemory
    <3>3. ("POWER" \in seen' <=> "POWER" \in seen) /\ ("MENU" \in seen' <=> "MENU" \in seen)
          /\ ("MENU" \in held' <=> "MENU" \in held)
      BY <1>1, <2>1, <2>4
    <3> QED BY <1>1, <3>2, <3>3 DEF Acted, ChordOK, ForcePowerOff
  <2> QED BY <2>2, <2>3, <2>4
<1>4. CASE Release(code)
  <2>1. Handle(code, 0) /\ seen' = seen \ {code} /\ held' = held \ {code} /\ code \in held
    BY <1>4 DEF Release, Released
  <2>2. CASE code = "MENU"
    <3>1. MenuNow(code, 0) = 0 /\ PowerNow(code, 0) = 0
      BY <2>2 DEF MenuNow, PowerNow
    <3>2. Acted(0, 0) BY <1>2, <2>1, <3>1, ChordMemory
    <3>3. "MENU" \notin seen' /\ "POWER" \notin seen' /\ "MENU" \notin held'
      BY <1>1, <2>1, <2>2
    <3> QED BY <1>1, <3>2, <3>3 DEF Acted, ChordOK, ForcePowerOff
  <2>3. CASE code = "POWER"
    <3>1. MenuNow(code, 0) = menu_pressed /\ PowerNow(code, 0) = 0
      BY <2>3 DEF MenuNow, PowerNow
    <3>2. Acted(menu_pressed, 0) BY <1>2, <2>1, <3>1, ChordMemory
    <3>3. "POWER" \notin seen' /\ ("MENU" \in seen' <=> "MENU" \in seen)
          /\ ("MENU" \in held' <=> "MENU" \in held)
      BY <1>1, <2>1, <2>3
    <3> QED BY <1>1, <3>2, <3>3 DEF Acted, ChordOK, ForcePowerOff
  <2>4. CASE code # "MENU" /\ code # "POWER"
    <3>1. MenuNow(code, 0) = menu_pressed /\ PowerNow(code, 0) = power_pressed
      BY <2>4 DEF MenuNow, PowerNow
    <3>2. Acted(menu_pressed, power_pressed) BY <1>2, <2>1, <3>1, ChordMemory
    <3>3. ("POWER" \in seen' <=> "POWER" \in seen) /\ ("MENU" \in seen' <=> "MENU" \in seen)
          /\ ("MENU" \in held' <=> "MENU" \in held)
      BY <1>1, <2>1, <2>4
    <3> QED BY <1>1, <3>2, <3>3 DEF Acted, ChordOK, ForcePowerOff
  <2> QED BY <2>2, <2>3, <2>4
<1>5. CASE Repeats(code)
  <2>1. Handle(code, 2) /\ seen' = seen /\ held' = held BY <1>5 DEF Repeats, Repeat
  <2>2. MenuNow(code, 2) = menu_pressed /\ PowerNow(code, 2) = power_pressed
    BY DEF MenuNow, PowerNow
  <2>3. Acted(menu_pressed, power_pressed) BY <1>2, <2>1, <2>2, ChordMemory
  <2> QED BY <1>1, <2>1, <2>3 DEF Acted, ChordOK, ForcePowerOff
<1> QED BY <1>3, <1>4, <1>5

LEMMA ChordStep == ChordOK /\ [Next]_vars => ChordOK'
<1> SUFFICES ASSUME ChordOK, [Next]_vars PROVE ChordOK'
  OBVIOUS
<1>1. CASE \E code \in Buttons : Press(code) \/ Release(code) \/ Repeats(code)
  BY <1>1, ChordEvent
<1>2. CASE UNCHANGED <<held, seen, memory, down>>
  <2>1. /\ held' = held /\ seen' = seen /\ down' = down
        /\ menu_pressed' = menu_pressed /\ power_pressed' = power_pressed
    BY <1>2 DEF memory
  <2> QED BY <2>1 DEF ChordOK, ForcePowerOff
<1>3. CASE UNCHANGED vars
  BY <1>2, <1>3 DEF vars
<1> QED BY <1>1, <1>2, <1>3 DEF Next

\* keymon shuts the device down when it has seen both buttons of the chord go down, and
\* only then, in spite of the cases of its switch falling into each other, provided that
\* MENU is not down when it starts.
THEOREM KeymonForcePowerOff ==
  ASSUME "MENU" \notin HeldAtStart PROVE Spec => []ForcePowerOff
<1>1. ChordOK => ForcePowerOff BY DEF ChordOK
<1>2. Init => ChordOK BY ChordInit
<1> QED BY <1>1, <1>2, ChordStep, PTL DEF Spec
-----------------------------------------------------------------------------
(* The other chord and the speed of repeats, whatever is held at the start.  *)

\* A shoulder button that keymon believes down is down; the kernel only repeats one that is.
\* A repeat that moved the volume has left the counter where the next one will not.
HandsOK ==
  /\ held \subseteq Buttons /\ repeating \in held \cup {"none"}
  /\ l2_pressed # 0 => "L2" \in held
  /\ r2_pressed # 0 => "R2" \in held
  /\ repeat_vol \in {0, 1}
  /\ event.val = Repeat /\ event.moved => repeat_vol = 0

LEMMA HandsInit == Init => HandsOK
BY KeymonAssumption DEF Init, HandsOK, Released, Repeat

\* An event of a button that is down, before or after it, and what keymon makes of it.
Acts(code, val) ==
  /\ Handle(code, val) /\ val \in {0, 1, 2}
  /\ val # 0 => code \in held'
  /\ \A b \in held : b \in held' \/ (b = code /\ val = 0)
  /\ held' \subseteq Buttons /\ repeating' \in held' \cup {"none"}

LEMMA EventActs ==
  ASSUME HandsOK, NEW code \in Buttons, Press(code) \/ Release(code) \/ Repeats(code)
  PROVE  \E val \in {0, 1, 2} : Acts(code, val)
<1>0. code # "none" BY DEF Buttons
<1>1. CASE Press(code)
  <2>1. Acts(code, 1) BY <1>1 DEF Press, Acts, Pressed, HandsOK
  <2> QED BY <2>1
<1>2. CASE Release(code)
  <2>1. Acts(code, 0) BY <1>2 DEF Release, Acts, Released, HandsOK
  <2> QED BY <2>1
<1>3. CASE Repeats(code)
  <2>1. Acts(code, 2) BY <1>0, <1>3 DEF Repeats, Acts, Repeat, HandsOK
  <2> QED BY <2>1
<1> QED BY <1>1, <1>2, <1>3

LEMMA ActsShoulder ==
  ASSUME HandsOK, NEW code \in Buttons, NEW val, Acts(code, val)
  PROVE  /\ l2_pressed' # 0 => "L2" \in held'
         /\ r2_pressed' # 0 => "R2" \in held'
         /\ shots' # shots => {"L2", "R2"} \subseteq held'
<1> DEFINE l2 == IF code = "L2" THEN val ELSE l2_pressed
           r2 == IF code = "R2" THEN val ELSE r2_pressed
<1>1. /\ l2 # 0 => "L2" \in held'
      /\ r2 # 0 => "R2" \in held'
  BY DEF HandsOK, Acts
<1>2. \/ l2 = r2 /\ l2 # 0 /\ l2_pressed' = 0 /\ r2_pressed' = 0
      \/ l2_pressed' = l2 /\ r2_pressed' = r2 /\ shots' = shots
  <2>1. Shoulder(code, val) BY DEF Acts, Handle
  <2> QED BY <2>1, Zenon DEF Shoulder, Both, Released
<1> HIDE DEF l2, r2
<1> QED BY <1>1, <1>2

LEMMA ActsRepeat ==
  ASSUME HandsOK, NEW code \in Buttons, NEW val, Acts(code, val)
  PROVE  /\ repeat_vol' \in {0, 1}
         /\ event'.val = Repeat /\ event'.moved => repeat_vol = 1 /\ repeat_vol' = 0
<1>1. repeat_vol' \in {0, 1}
  BY DEF HandsOK, Acts, Handle, NextRepeat
<1>2. event' = [code |-> code, val |-> val, moved |-> Moves(code, val)]
  BY DEF Acts, Handle
<1>3. event'.val = val /\ (event'.moved <=> Moves(code, val))
  BY <1>2, Zenon
<1>4. ASSUME val = Repeat, Moves(code, val) PROVE repeat_vol = 1 /\ repeat_vol' = 0
  <2>1. repeat_vol' = NextRepeat(code, val) BY DEF Acts, Handle
  <2> QED BY <1>4, <2>1 DEF Moves, StepVal, Pressed, NextRepeat
<1> QED BY <1>1, <1>3, <1>4

LEMMA HandsStep ==
  HandsOK /\ [Next]_vars
    => /\ HandsOK'
       /\ [shots' # shots => {"L2", "R2"} \subseteq held']_vars
       /\ [event.val = Repeat /\ event'.val = Repeat /\ event.moved => ~event'.moved]_vars
<1> SUFFICES ASSUME HandsOK, [Next]_vars
             PROVE  /\ HandsOK'
                    /\ [shots' # shots => {"L2", "R2"} \subseteq held']_vars
                    /\ [event.val = Repeat /\ event'.val = Repeat /\ event.moved
                          => ~event'.moved]_vars
  OBVIOUS
<1>1. CASE Next
  <2>1. PICK code \in Buttons : Press(code) \/ Release(code) \/ Repeats(code)
    BY <1>1 DEF Next
  <2>2. PICK val \in {0, 1, 2} : Acts(code, val)
    BY <2>1, EventActs
  <2>3. /\ l2_pressed' # 0 => "L2" \in held'
        /\ r2_pressed' # 0 => "R2" \in held'
        /\ shots' # shots => {"L2", "R2"} \subseteq held'
    BY <2>2, ActsShoulder
  <2>4. /\ repeat_vol' \in {0, 1}
        /\ event'.val = Repeat /\ event'.moved => repeat_vol = 1 /\ repeat_vol' = 0
    BY <2>2, ActsRepeat
  <2>5. HandsOK' BY <2>2, <2>3, <2>4 DEF HandsOK, Acts
  <2>6. event.val = Repeat /\ event'.val = Repeat /\ event.moved => ~event'.moved
    <3>1. event.val = Repeat /\ event.moved => repeat_vol = 0 BY DEF HandsOK
    <3> QED BY <2>4, <3>1
  <2> QED BY <2>3, <2>5, <2>6
<1>2. CASE UNCHANGED vars
  BY <1>2 DEF vars, memory, HandsOK
<1> QED BY <1>1, <1>2

\* Of two repeats in a row one at most moves the volume, whichever buttons they come from and
\* whichever cases they fall through.
THEOREM KeymonHalfSpeed == Spec => RepeatAtHalfSpeed
<1> USE HandsInit, HandsStep
<1> QED BY PTL DEF Spec, RepeatAtHalfSpeed

\* keymon takes a screenshot only while both shoulder buttons are down, also when one of them
\* was down before it started.
THEOREM KeymonScreenshot == Spec => ScreenshotNeedsBoth
<1> USE HandsInit, HandsStep
<1> QED BY PTL DEF Spec, ScreenshotNeedsBoth
==============================================================================
