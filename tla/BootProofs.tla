----------------------------- MODULE BootProofs -----------------------------
(***************************************************************************)
(* The programs that are alone on the device: whatever is cut and whenever,*)
(* updater only runs a complete system of the version copied last; batmon  *)
(* leaves for a cause, in whatever order its three threads run; the clock  *)
(* tool applies only times that exist, for every range of years that       *)
(* satisfies YearsAssumption.                                              *)
(***************************************************************************)
EXTENDS MCBoot, TLAPS

\* Whichever program was chosen, it behaves as its own module says.
THEOREM BootImplements == MCSpec => I!Spec /\ B!Spec /\ Spec
<1>1. MCInit => I!Init /\ B!Init /\ Init BY DEF MCInit
<1>2. [MCNext]_all => [I!Next]_I!vars /\ [B!Next]_B!vars /\ [Next]_vars
  <2> SUFFICES ASSUME [MCNext]_all PROVE [I!Next]_I!vars /\ [B!Next]_B!vars /\ [Next]_vars
    OBVIOUS
  <2> USE DEF install, batmon, I!vars, B!vars
  <2>1. CASE I!Next /\ Installer BY <2>1 DEF Installer
  <2>2. CASE B!Next /\ Charging BY <2>2 DEF Charging
  <2>3. CASE Next /\ ClockTool BY <2>3 DEF ClockTool
  <2>4. CASE UNCHANGED all BY <2>4 DEF all
  <2> QED BY <2>1, <2>2, <2>3, <2>4 DEF MCNext
<1> QED BY <1>1, <1>2, PTL DEF MCSpec, I!Spec, B!Spec, Spec

-----------------------------------------------------------------------------
(* The installer.                                                          *)


\* Once a part of the package is missing, .system is complete or not there.
SystemOK == package # I!Full => I!Whole \/ I!Gone

\* The directory is what remains of the package to the end; MainUI only runs where it is.
PackageOK ==
  /\ package \subseteq I!Full
  /\ package # {} => "dir" \in package
  /\ pc \in {"MainUI", "remove updater", "move", "unzip"} => "MainUI" \in package

\* What has been extracted stays so; the old system and the package go when all is there.
ProgressOK ==
  /\ DOMAIN system = Parts
  /\ pc \in {"remove updater", "move"} => todo = Parts
  /\ pc = "unzip" /\ "zip" \in package => \A p \in Parts \ todo : system[p] = newest
  /\ pc \in {"remove old", "remove package"} => I!Whole \/ I!Gone

\* updater goes on only without a package, and only to a launcher that is there.
LaunchOK ==
  /\ pc \in {"loop", "launch"} => package = {}
  /\ pc = "launch" => system[Launcher] # Missing

InstallInv == SystemOK /\ PackageOK /\ ProgressOK /\ LaunchOK

-----------------------------------------------------------------------------

LEMMA InstallInitOK == ASSUME I!Init PROVE InstallInv
  BY DEF I!Init, InstallInv, SystemOK, PackageOK, ProgressOK, LaunchOK, I!Full

\* A step that touches neither the package nor the system, and does not end up in a place of
\* which the invariant asks more than of the place it came from.
LEMMA MovesOn ==
  ASSUME InstallInv, UNCHANGED <<package, newest, system>>,
         pc' \in {"off", "firmware", "stock"}
  PROVE  InstallInv'
  BY DEF InstallInv, SystemOK, PackageOK, ProgressOK, LaunchOK, I!Whole, I!Gone

LEMMA OwnerOK == ASSUME InstallInv, I!Copy \/ I!SwitchOn \/ I!SwitchOff PROVE InstallInv'
<1>1. CASE I!Copy
  BY <1>1 DEF I!Copy, InstallInv, SystemOK, PackageOK, ProgressOK, LaunchOK, I!Full
<1>2. CASE I!SwitchOn \/ I!SwitchOff
  BY <1>2, MovesOn DEF I!SwitchOn, I!SwitchOff, I!Goto
<1> QED BY <1>1, <1>2

\* A cut leaves half an entry only while the package is complete.
LEMMA CutOK == ASSUME InstallInv, I!Cut PROVE InstallInv'
<1>1. pc' = "off" /\ UNCHANGED <<package, newest>>
  BY DEF I!Cut
<1>2. CASE pc = "unzip" /\ "zip" \in package
  <2>1. package = I!Full
    BY <1>2 DEF InstallInv, PackageOK, I!Full
  <2>2. DOMAIN system' = Parts
    BY <1>2 DEF I!Cut, InstallInv, ProgressOK
  <2> QED BY <1>1, <2>1, <2>2 DEF InstallInv, SystemOK, PackageOK, ProgressOK, LaunchOK, I!Full
<1>3. CASE ~(pc = "unzip" /\ "zip" \in package)
  BY <1>1, <1>3, MovesOn DEF I!Cut
<1> QED BY <1>2, <1>3

LEMMA UpdaterOK == ASSUME InstallInv, I!Firmware \/ I!Updater \/ I!Loop PROVE InstallInv'
<1>1. UNCHANGED <<package, newest, system, todo>>
  BY DEF I!Firmware, I!Updater, I!Loop
<1>2. SystemOK'
  BY <1>1 DEF InstallInv, SystemOK, I!Whole, I!Gone
<1>3. CASE I!Firmware
  BY <1>1, <1>2, <1>3 DEF I!Firmware, InstallInv, PackageOK, ProgressOK, LaunchOK
<1>4. CASE I!Updater
  BY <1>1, <1>2, <1>4 DEF I!Updater, I!Goto, InstallInv, PackageOK, ProgressOK, LaunchOK
<1>5. CASE I!Loop
  BY <1>1, <1>2, <1>5 DEF I!Loop, I!Goto, InstallInv, PackageOK, ProgressOK, LaunchOK
<1> QED BY <1>3, <1>4, <1>5

\* Before the extraction the system may go, but only as a whole.
LEMMA BeforeOK == ASSUME InstallInv, I!Decide \/ I!RemoveUpdater \/ I!MoveSystem PROVE InstallInv'
<1>1. UNCHANGED <<package, newest>>
  BY DEF I!Decide, I!RemoveUpdater, I!MoveSystem
<1>2. pc' \in {"unzip", "remove updater", "move"} /\ "MainUI" \in package /\ PackageOK'
  BY <1>1 DEF I!Decide, I!RemoveUpdater, I!MoveSystem, I!Goto, InstallInv, PackageOK
<1>3. I!Gone' \/ UNCHANGED system
  BY DEF I!Decide, I!RemoveUpdater, I!MoveSystem, I!Gone
<1>4. SystemOK'
  BY <1>1, <1>3 DEF InstallInv, SystemOK, I!Whole, I!Gone
<1>5. todo' = Parts /\ DOMAIN system' = Parts
  BY DEF I!Decide, I!RemoveUpdater, I!MoveSystem, I!Goto, InstallInv, ProgressOK
<1>6. ProgressOK' /\ LaunchOK'
  BY <1>2, <1>5 DEF ProgressOK, LaunchOK
<1> QED BY <1>2, <1>4, <1>6 DEF InstallInv

LEMMA ExtractOK == ASSUME InstallInv, I!Extract PROVE InstallInv'
<1>1. package = I!Full
  BY DEF I!Extract, InstallInv, PackageOK, I!Full
<1>2. DOMAIN system' = Parts /\ \A p \in Parts \ todo' : system'[p] = newest'
  BY DEF I!Extract, InstallInv, ProgressOK
<1> QED BY <1>1, <1>2 DEF I!Extract, InstallInv, SystemOK, PackageOK, ProgressOK, LaunchOK

\* All is extracted, or there was nothing to extract from and so the package is not complete.
LEMMA EndUnzipOK == ASSUME InstallInv, I!EndUnzip PROVE InstallInv'
<1>1. UNCHANGED <<package, newest, system>> /\ pc' = "remove old"
  BY DEF I!EndUnzip, I!Goto
<1>2. I!Whole \/ I!Gone
  <2>1. CASE "zip" \in package
    BY <2>1 DEF I!EndUnzip, I!Goto, InstallInv, ProgressOK, I!Whole
  <2>2. CASE "zip" \notin package
    BY <2>2 DEF InstallInv, SystemOK, I!Full
  <2> QED BY <2>1, <2>2
<1> QED BY <1>1, <1>2 DEF InstallInv, SystemOK, PackageOK, ProgressOK, LaunchOK, I!Whole, I!Gone

LEMMA RemovalOK == ASSUME InstallInv, I!RemoveOld \/ I!RemovePackage PROVE InstallInv'
<1>1. /\ UNCHANGED <<newest, system>>
      /\ pc' \in {"remove old", "remove package", "updater", "stock"}
      /\ I!Whole \/ I!Gone
  BY DEF I!RemoveOld, I!RemovePackage, InstallInv, ProgressOK
<1>2. I!Whole' \/ I!Gone'
  BY <1>1 DEF I!Whole, I!Gone
<1>3. package' \subseteq I!Full /\ (package' # {} => "dir" \in package')
  BY DEF I!RemoveOld, I!RemovePackage, InstallInv, PackageOK
<1> QED BY <1>1, <1>2, <1>3 DEF InstallInv, SystemOK, PackageOK, ProgressOK, LaunchOK

LEMMA InstallNextOK == ASSUME InstallInv, I!Next PROVE InstallInv'
  BY OwnerOK, CutOK, UpdaterOK, BeforeOK, ExtractOK, EndUnzipOK, RemovalOK DEF I!Next, I!Boot

LEMMA InstallStutterOK == ASSUME InstallInv, UNCHANGED I!vars PROVE InstallInv'
  BY DEF I!vars, InstallInv, SystemOK, PackageOK, ProgressOK, LaunchOK, I!Whole, I!Gone

\* updater only ever runs a launcher that belongs to a complete system of the version copied
\* last, wherever the power was cut, for any contents of the archive.
THEOREM BootLaunchesNewest == MCSpec => []LaunchesNewest
<1>1. I!Init => InstallInv BY InstallInitOK
<1>2. InstallInv /\ [I!Next]_I!vars => InstallInv' BY InstallNextOK, InstallStutterOK
<1>3. InstallInv => LaunchesNewest
  BY LauncherAssumption DEF InstallInv, SystemOK, LaunchOK, LaunchesNewest, I!LaunchesNewest,
                            I!Gone, I!Full
<1> QED BY <1>1, <1>2, <1>3, BootImplements, PTL DEF I!Spec

-----------------------------------------------------------------------------
(* batmon.                                                                 *)


\* Whoever takes the charger for gone has it from a look at the charger.
GoneOK ==
  /\ answer \in BOOLEAN /\ is_charging \in BOOLEAN /\ launch \in BOOLEAN
  /\ ~answer => gone
  /\ ~is_charging => gone

\* The loop is left for one of the two reasons, and from the join on nobody sets launch.
LeftOK ==
  /\ main \in {"left", "joining", "joined"} => launch \/ gone
  /\ main \in {"joined", "shutdown", "returned"} => input = "cancelled"

BatmonInv == GoneOK /\ LeftOK /\ B!LeavesForCause

LEMMA BatmonInitOK == ASSUME B!Init PROVE BatmonInv
  BY DEF B!Init, BatmonInv, GoneOK, LeftOK, B!LeavesForCause

\* The world does not touch what the invariant speaks of.
LEMMA WorldOK == ASSUME BatmonInv,
     B!Tick \/ B!Charger \/ \E k \in B!Keys : B!Press(k) PROVE BatmonInv'
<1>1. UNCHANGED <<main, input, answer, launch, is_charging, gone>>
  BY DEF B!Tick, B!Charger, B!Press, B!mainVars, B!inputVars, B!chargingVars
<1> QED BY <1>1 DEF BatmonInv, GoneOK, LeftOK, B!LeavesForCause

\* inputThread sets launch, but not after it was joined.
LEMMA InputOK == ASSUME BatmonInv, B!InputThread PROVE BatmonInv'
<1>1. UNCHANGED <<main, answer, is_charging, gone>>
  BY DEF B!InputThread, B!Read, B!StartScreen, B!TestScreen, B!Light, B!FlagOn, B!Launch,
         B!mainVars, B!chargingVars
<1>2. input # "cancelled"
  BY DEF B!InputThread, B!Read, B!StartScreen, B!TestScreen, B!Light, B!FlagOn, B!Launch,
         B!InputStep
<1>3. main \notin {"joined", "shutdown", "returned"}
  BY <1>2 DEF BatmonInv, LeftOK
<1>4. launch' = TRUE \/ launch' = launch
  BY DEF B!InputThread, B!Read, B!StartScreen, B!TestScreen, B!Light, B!FlagOn, B!Launch
<1>5. GoneOK'
  BY <1>1, <1>4 DEF BatmonInv, GoneOK
<1>6. LeftOK' /\ B!LeavesForCause'
  BY <1>1, <1>3, <1>4 DEF BatmonInv, GoneOK, LeftOK, B!LeavesForCause
<1> QED BY <1>5, <1>6 DEF BatmonInv

\* An answer that the charger is gone is remembered in gone before it is stored.
LEMMA ChargingOK == ASSUME BatmonInv, plugged \in BOOLEAN, B!ChargingThread PROVE BatmonInv'
<1>1. UNCHANGED <<main, input, launch>>
  BY DEF B!ChargingThread, B!Ask, B!Store, B!mainVars, B!inputVars
<1>2. CASE B!Ask
  <2>1. answer' = plugged /\ gone' = (gone \/ ~plugged) /\ is_charging' = is_charging
    BY <1>2 DEF B!Ask
  <2>2. GoneOK'
    BY <2>1, <1>1 DEF BatmonInv, GoneOK
  <2>3. LeftOK' /\ B!LeavesForCause'
    BY <2>1, <1>1, Zenon DEF BatmonInv, LeftOK, B!LeavesForCause
  <2> QED BY <2>2, <2>3 DEF BatmonInv
<1>3. CASE B!Store
  BY <1>1, <1>3 DEF B!Store, BatmonInv, GoneOK, LeftOK, B!LeavesForCause
<1> QED BY <1>2, <1>3 DEF B!ChargingThread

LEMMA MainOK == ASSUME BatmonInv, B!Main PROVE BatmonInv'
<1>1. UNCHANGED <<answer, launch, is_charging, gone>>
  BY DEF B!Main, B!TestLaunch, B!TestCharging, B!TestScreenOn, B!Ticks, B!Compare, B!Dim, B!FlagOff,
         B!Cancel, B!Join, B!Leave, B!chargingVars
<1>2. GoneOK'
  BY <1>1 DEF BatmonInv, GoneOK
<1>3. CASE B!TestLaunch
  BY <1>1, <1>2, <1>3 DEF B!TestLaunch, B!MainStep, BatmonInv, LeftOK, B!LeavesForCause
<1>4. CASE B!TestCharging
  BY <1>1, <1>2, <1>4 DEF B!TestCharging, B!MainStep, BatmonInv, GoneOK, LeftOK, B!LeavesForCause
<1>5. CASE B!TestScreenOn \/ B!Ticks \/ B!Compare \/ B!Dim \/ B!FlagOff
  BY <1>1, <1>2, <1>5 DEF B!TestScreenOn, B!Ticks, B!Compare, B!Dim, B!FlagOff, B!MainStep,
                          BatmonInv, LeftOK, B!LeavesForCause
<1>6. CASE B!Cancel \/ B!Join
  BY <1>1, <1>2, <1>6 DEF B!Cancel, B!Join, B!MainStep, BatmonInv, LeftOK, B!LeavesForCause
<1>7. CASE B!Leave
  BY <1>1, <1>2, <1>7 DEF B!Leave, B!MainStep, B!inputVars, BatmonInv, LeftOK, B!LeavesForCause
<1> QED BY <1>3, <1>4, <1>5, <1>6, <1>7 DEF B!Main

LEMMA BatmonStutterOK == ASSUME BatmonInv, UNCHANGED B!vars PROVE BatmonInv'
  BY DEF B!vars, BatmonInv, GoneOK, LeftOK, B!LeavesForCause

\* The device is switched off only after the charger was seen to be gone and with no POWER press
\* handled, and goes on to the launcher only for POWER: the two threads are joined before the
\* flag that decides is read for the last time (batmon.c:119-131).
THEOREM BootLeavesForCause == MCSpec => []LeavesForCause
<1> DEFINE Inv == BatmonInv /\ plugged \in BOOLEAN
<1>1. B!Init => Inv
  BY BatmonInitOK DEF B!Init
<1>2. Inv /\ [B!Next]_B!vars => Inv'
  <2> SUFFICES ASSUME Inv, [B!Next]_B!vars PROVE Inv'
    OBVIOUS
  <2>1. BatmonInv'
    BY WorldOK, InputOK, ChargingOK, MainOK, BatmonStutterOK DEF B!Next
  <2>2. plugged' \in BOOLEAN
    <3>1. CASE B!Charger
      BY <3>1 DEF B!Charger
    <3>2. CASE ~B!Charger
      <4>1. plugged' = plugged
        BY <3>2 DEF B!Next, B!Main, B!TestLaunch, B!TestCharging, B!TestScreenOn, B!Ticks,
                    B!Compare, B!Dim, B!FlagOff, B!Cancel, B!Join, B!Leave, B!InputThread,
                    B!Read, B!StartScreen, B!TestScreen, B!Light, B!FlagOn, B!Launch,
                    B!ChargingThread, B!Ask, B!Store, B!Tick, B!Press, B!env, B!vars
      <4> QED BY <4>1
    <3> QED BY <3>1, <3>2
  <2> QED BY <2>1, <2>2
<1>3. Inv => LeavesForCause
  BY DEF BatmonInv, LeavesForCause
<1> QED BY <1>1, <1>2, <1>3, BootImplements, PTL DEF B!Spec

-----------------------------------------------------------------------------
(* The clock tool.                                                         *)

\* The time shown is one, its year is not the one that stands for an unset clock, and
\* february_days, once worked out, is that of the year shown.
Shown == /\ IsTime(fields)
         /\ year # MIN_YEAR
         /\ february_days \in {28, 29}
         /\ dirty \in BOOLEAN
         /\ ~dirty => february_days = DaysIn(2, year)

ClockInv == Shown /\ AppliesADate

-----------------------------------------------------------------------------

\* A redraw makes a time of whatever one key can have left in the fields.
LEMMA NormalisedOK ==
  ASSUME NEW y \in MIN_YEAR..MAX_YEAR + 1, NEW m \in 1..13, NEW d \in Nat, d >= 1,
         NEW h \in Nat, NEW mi \in Nat, NEW s \in Nat,
         Normalised(y, m, d, h, mi, s), dirty' = FALSE
  PROVE  Shown'
<1> DEFINE feb1 == IF Leap(y) THEN 29 ELSE 28
           month1 == IF m > 12 THEN 1 ELSE m
<1>1. /\ february_days' = feb1
      /\ year' = Fallback(IF y > MAX_YEAR \/ y < MIN_YEAR THEN MIN_YEAR ELSE y)
      /\ month' = month1
      /\ date' = IF d > LengthOf(month1, feb1) THEN 1 ELSE d
      /\ hour' = IF h > MAX_HOUR THEN 0 ELSE h
      /\ minute' = IF mi > MAX_MINUTE THEN 0 ELSE mi
      /\ second' = IF s > MAX_SECOND THEN 0 ELSE s
  BY DEF Normalised
<1>2. year' \in MIN_YEAR + 1..MAX_YEAR
  BY <1>1, YearsAssumption DEF Fallback
<1>3. feb1 = IF Leap(year') THEN 29 ELSE 28
  <2>1. CASE y \in MIN_YEAR + 1..MAX_YEAR
    <3>1. year' = y
      BY <2>1, <1>1, YearsAssumption DEF Fallback
    <3> QED BY <3>1
  <2>2. CASE y \in {MIN_YEAR, MAX_YEAR + 1}
    <3>1. year' = DEFAULT_YEAR
      BY <2>2, <1>1, YearsAssumption DEF Fallback
    <3>2. ~Leap(y) /\ ~Leap(year')
      BY <2>2, <3>1, YearsAssumption
    <3> QED BY <3>2
  <2> QED BY <2>1, <2>2, YearsAssumption
<1>4. month' \in 1..12
  BY <1>1
<1>5. LengthOf(month', feb1) = DaysIn(month', year') /\ LengthOf(month', feb1) \in 28..31
  BY <1>3, <1>4 DEF LengthOf, DaysIn
<1>6. date' \in 1..DaysIn(month', year')
  <2> HIDE DEF feb1, month1
  <2>1. date' = IF d > LengthOf(month', feb1) THEN 1 ELSE d
    BY <1>1
  <2>2. DaysIn(month', year') \in 28..31 /\ DaysIn(month', year') = LengthOf(month', feb1)
    BY <1>5
  <2> HIDE DEF DaysIn
  <2> QED BY <2>1, <2>2
<1>7. /\ hour' \in 0..MAX_HOUR
      /\ minute' \in 0..MAX_MINUTE
      /\ second' \in 0..MAX_SECOND
  BY <1>1, TimesAssumption
<1>8. february_days' = DaysIn(2, year') /\ february_days' \in {28, 29}
  BY <1>1, <1>3 DEF DaysIn
<1>9. IsTime(fields)'
  BY <1>2, <1>4, <1>6, <1>7, YearsAssumption DEF IsTime, fields
<1>10. year' # MIN_YEAR
  BY <1>2, YearsAssumption
<1> QED BY <1>8, <1>9, <1>10 DEF Shown

\* The fields of a time are what NormalisedOK asks of them.
LEMMA ShownFields ==
  ASSUME Shown
  PROVE  /\ year \in MIN_YEAR + 1..MAX_YEAR
         /\ month \in 1..12
         /\ date \in Nat /\ date >= 1
         /\ hour \in Nat /\ minute \in Nat /\ second \in Nat
<1>1. year \in MIN_YEAR..MAX_YEAR /\ year # MIN_YEAR
  BY DEF Shown, IsTime, fields
<1>2. DaysIn(month, year) \in 28..31 /\ date \in 1..DaysIn(month, year)
  BY DEF Shown, IsTime, fields, DaysIn
<1>3. date \in Nat /\ date >= 1
  <2> HIDE DEF DaysIn
  <2> QED BY <1>2
<1>4. month \in 1..12 /\ hour \in Nat /\ minute \in Nat /\ second \in Nat
  BY TimesAssumption DEF Shown, IsTime, fields
<1> QED BY <1>1, <1>3, <1>4, YearsAssumption

-----------------------------------------------------------------------------

LEMMA InitShown == ASSUME Init PROVE ClockInv
<1>1. IsTime(fields)
  BY YearsAssumption DEF Init, IsTime, fields
<1>2. year # MIN_YEAR /\ february_days \in {28, 29} /\ dirty = TRUE
  BY YearsAssumption DEF Init
<1>3. AppliesADate
  BY DEF Init, AppliesADate
<1> QED BY <1>1, <1>2, <1>3 DEF ClockInv, Shown

\* Every key leaves a time on the screen, and A applies the one it leaves.
LEMMA NextShown == ASSUME ClockInv, Next PROVE ClockInv'
<1> USE ShownFields DEF ClockInv
<1>1. ASSUME PressUp PROVE Shown' /\ UNCHANGED applied
  <2> DEFINE up(c, v) == IF cursor = c THEN v + 1 ELSE v
  <2>1. Normalised(up(0, year), up(1, month), up(2, date), up(3, hour), up(4, minute), up(5, second))
        /\ dirty' = FALSE /\ UNCHANGED applied
    BY <1>1 DEF PressUp
  <2>2. up(0, year) \in MIN_YEAR..MAX_YEAR + 1 /\ up(1, month) \in 1..13
    BY YearsAssumption
  <2>3. up(2, date) \in Nat /\ up(2, date) >= 1
    OBVIOUS
  <2>4. up(3, hour) \in Nat /\ up(4, minute) \in Nat /\ up(5, second) \in Nat
    OBVIOUS
  <2> HIDE DEF up
  <2> QED BY <2>1, <2>2, <2>3, <2>4, NormalisedOK
<1>2. ASSUME PressDown PROVE Shown' /\ UNCHANGED applied
  <2> DEFINE down(c, v, first, last) == IF cursor = c THEN Down(v, first, last) ELSE v
             y == down(0, year, 0, MAX_YEAR)
             m == down(1, month, 1, 12)
             d == down(2, date, 1, LengthOf(month, february_days))
             h == down(3, hour, 0, MAX_HOUR)
             mi == down(4, minute, 0, MAX_MINUTE)
             s == down(5, second, 0, MAX_SECOND)
  <2>1. Normalised(y, m, d, h, mi, s) /\ dirty' = FALSE /\ UNCHANGED applied
    BY <1>2 DEF PressDown
  <2>2. y \in MIN_YEAR..MAX_YEAR + 1
    BY YearsAssumption DEF Down
  <2>3. m \in 1..13
    BY DEF Down
  <2>4. d \in Nat /\ d >= 1
    <3>1. LengthOf(month, february_days) \in 28..31
      BY DEF LengthOf, Shown
    <3> HIDE DEF LengthOf
    <3> QED BY <3>1 DEF Down
  <2>5. h \in Nat /\ mi \in Nat /\ s \in Nat
    BY TimesAssumption DEF Down
  <2> HIDE DEF y, m, d, h, mi, s
  <2> QED BY <2>1, <2>2, <2>3, <2>4, <2>5, NormalisedOK
<1>3. ASSUME Normalised(year, month, date, hour, minute, second), dirty' = FALSE PROVE Shown'
  <2>1. year \in MIN_YEAR..MAX_YEAR + 1 /\ month \in 1..13
    BY YearsAssumption
  <2> QED BY <1>3, <2>1, NormalisedOK
<1>4. ASSUME PressA PROVE Shown' /\ applied' = fields'
  <2>1. CASE Normalised(year, month, date, hour, minute, second)
    BY <1>4, <1>3, <2>1 DEF PressA, fields
  <2>2. CASE ~dirty /\ UNCHANGED <<year, month, date, hour, minute, second, february_days>>
    <3>1. applied' = fields' /\ dirty' = FALSE /\ dirty = FALSE
      BY <1>4, <2>2 DEF PressA, fields, Shown
    <3>2. IsTime(fields)' /\ (year # MIN_YEAR)' /\ february_days' \in {28, 29}
          /\ february_days' = DaysIn(2, year')
      BY <2>2 DEF Shown, IsTime, fields, DaysIn
    <3> QED BY <3>1, <3>2 DEF Shown
  <2> QED BY <1>4, <2>1, <2>2 DEF PressA
<1>5. ASSUME Shown', UNCHANGED applied PROVE ClockInv'
  BY <1>5 DEF AppliesADate, IsTime
<1>6. ASSUME Shown', applied' = fields' PROVE ClockInv'
  <2>1. IsTime(fields)'
    BY <1>6 DEF Shown
  <2>2. IsTime(applied)'
    BY <2>1, <1>6 DEF IsTime
  <2> QED BY <2>2, <1>6 DEF AppliesADate
<1>7. CASE PressLeftRight
  BY <1>7, <1>3, <1>5 DEF PressLeftRight
<1>8. CASE Redraw
  BY <1>8, <1>3, <1>5 DEF Redraw
<1> QED BY <1>1, <1>2, <1>4, <1>5, <1>6, <1>7, <1>8 DEF Next

LEMMA StutterShown == ASSUME ClockInv, UNCHANGED vars PROVE ClockInv'
<1>1. UNCHANGED <<year, month, date, hour, minute, second, february_days, dirty, applied>>
  BY DEF vars
<1>2. IsTime(fields)'
  BY <1>1 DEF ClockInv, Shown, IsTime, fields, DaysIn
<1>3. Shown'
  BY <1>1, <1>2 DEF ClockInv, Shown, DaysIn
<1>4. AppliesADate'
  BY <1>1 DEF ClockInv, AppliesADate, IsTime, DaysIn
<1> QED BY <1>3, <1>4 DEF ClockInv

\* Whatever is pressed in whatever order, the time the clock tool gives to date -s exists: the
\* passes of the main loop of clock.c leave no 30th of February behind.
THEOREM BootAppliesADate == MCSpec => []AppliesADate
<1>1. Init => ClockInv
  BY InitShown
<1>2. ClockInv /\ [Next]_vars => ClockInv'
  BY NextShown, StutterShown
<1>3. ClockInv => AppliesADate
  BY DEF ClockInv
<1> QED BY <1>1, <1>2, <1>3, BootImplements, PTL DEF Spec
=============================================================================
