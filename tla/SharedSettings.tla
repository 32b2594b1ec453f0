----------------------------- MODULE SharedSettings -----------------------------
(***************************************************************************)
(* libmsettings: the volume and the brightness that keymon and the program *)
(* in front (launcher, clock, screenshots or a game with libmmenu, one at  *)
(* a time) share in a POSIX shared memory object, the file they are saved  *)
(* to, and the sound output they drive.  Nothing locks any of it: every    *)
(* read, store, save and device call of the two is a step of its own.      *)
(***************************************************************************)
EXTENDS Integers, FiniteSets

CONSTANTS
  MaxVolume,      \* MAX_VOLUME
  MaxBrightness,  \* MAX_BRIGHTNESS
  MaxObjects,     \* bound: shared memory objects made
  None

Procs   == {"keymon", "app"}
Objects == 1 .. MaxObjects
Volumes == 0 .. MaxVolume
Levels  == 0 .. MaxBrightness

Values == [volume : Volumes, brightness : Levels]
Zeros  == [volume |-> 0, brightness |-> 0]
\* DefaultSettings: full volume, a low brightness.
Default == [volume |-> MaxVolume, brightness |-> IF MaxBrightness < 2 THEN MaxBrightness ELSE 2]

ASSUME SettingsAssumption ==
  /\ MaxVolume \in Nat \ {0} /\ MaxBrightness \in Nat \ {0} /\ MaxObjects \in Nat \ {0}
  /\ None \notin Objects /\ None \notin Values

VARIABLES
  keymon_first,   \* at this boot keymon's InitSettings returns before the launcher's begins
  link,       \* the object SHM_KEY names, or None
  made,       \* objects made so far
  memory,     \* what each object holds: None until its ftruncate
  filled,     \* history: the objects whose host has populated them
  file,       \* msettings.bin, or None
  raw, muted, \* the sound output
  pc,         \* where each process is
  object,     \* the object each process has mapped, or None
  is_host,
  game,       \* the program in front is a game: its libmmenu called InitSettings
  stopped,    \* keymon has a STOP and no CONT
  kind,       \* what each is doing: "init", "up", "down", "level" or "sleep"
  val,        \* the local value of that
  solo,       \* history: nothing else drove the sound beside what it is doing
  heard,      \* history: no overlap since the output was last set from the start
  woken,      \* history: the last to set the mute was the end of a sleep
  unsaved     \* history: a process ended between a store and its save

shared == <<link, made, memory, filled>>
output == <<raw, muted>>
local  == <<object, is_host, game, stopped, kind, val>>
vars   == <<keymon_first, shared, file, output, pc, local, solo, heard, woken, unsaved>>

\* Not there, or a game whose menu has closed: nothing mapped.
Away     == {"off", "dead", "closed"}
Busy(p)  == pc[p] \notin Away \cup {"idle"}
\* p's InitSettings has returned.
Started(p) == pc[p] \notin Away /\ (Busy(p) => kind[p] # "init")
Quiet    == \A p \in Procs : ~Busy(p)
Mine(p)  == memory[object[p]]
Go(p, l) == pc' = [pc EXCEPT ![p] = l]

\* p begins something: with the other process in the middle of something, they overlap.
Begins(p, k) ==
  /\ kind' = [kind EXCEPT ![p] = k]
  /\ solo' = [q \in Procs |->
                IF q = p THEN \A o \in Procs \ {p} : Busy(o) => kind[o] = "level"
                         ELSE solo[q] /\ k = "level"]

\* p has done what it began; InitSettings sets the whole of the output.
Ends(p) ==
  /\ Go(p, "idle")
  /\ heard' = IF kind[p] = "level" THEN heard ELSE solo[p] /\ (heard \/ kind[p] = "init")
  /\ woken' = IF kind[p] = "level" THEN woken ELSE kind[p] = "sleep"
------------------------------------------------------------------------------
(* InitSettings and QuitSettings.                                           *)

\* shm_open with O_EXCL decides who is the host.
Open(p) ==
  /\ pc[p] = "off"
  /\ keymon_first /\ p = "app" => Started("keymon")
  /\ Begins(p, "init")
  /\ IF link = None
       THEN /\ made < MaxObjects
            /\ made' = made + 1 /\ link' = made'
            /\ object' = [object EXCEPT ![p] = made']
            /\ is_host' = [is_host EXCEPT ![p] = TRUE]
            /\ Go(p, "truncate")
       ELSE /\ object' = [object EXCEPT ![p] = link]
            /\ is_host' = [is_host EXCEPT ![p] = FALSE]
            /\ Go(p, "get")
            /\ UNCHANGED <<made, link>>
  /\ game' \in IF p = "app" THEN BOOLEAN ELSE {game}
  /\ UNCHANGED <<memory, filled, file, output, stopped, val, heard, woken, unsaved>>

Truncate(p) ==
  /\ pc[p] = "truncate" /\ Go(p, "fill")
  /\ memory' = [memory EXCEPT ![object[p]] = Zeros]
  /\ UNCHANGED <<link, made, filled, file, output, local, solo, heard, woken, unsaved>>

Fill(p) ==
  /\ pc[p] = "fill" /\ Go(p, "get")
  /\ memory' = [memory EXCEPT ![object[p]] = IF file = None THEN Default ELSE file]
  /\ filled' = filled \cup {object[p]}
  /\ UNCHANGED <<link, made, file, output, local, solo, heard, woken, unsaved>>

\* A process that touches an object of size 0 is killed.  launch.sh starts the program
\* in front again; nobody starts keymon again.
Killed(p) ==
  /\ pc[p] = "get" /\ Mine(p) = None
  /\ Go(p, IF p = "app" THEN "off" ELSE "dead")
  /\ object' = [object EXCEPT ![p] = None]
  /\ heard' = FALSE
  /\ UNCHANGED <<shared, file, output, is_host, game, stopped, kind, val, solo, woken, unsaved>>

\* SetVolume(GetVolume()).
Get(p) ==
  /\ pc[p] = "get" /\ Mine(p) # None /\ Go(p, "raw")
  /\ val' = [val EXCEPT ![p] = Mine(p).volume]
  /\ UNCHANGED <<shared, file, output, object, is_host, game, stopped, kind, solo, heard, woken, unsaved>>

\* Mutant of Quit: every process unlinks the name.
QuitUnlinks ==
  /\ pc["app"] \in {"idle", "closed"} /\ Go("app", IF game THEN "closed" ELSE "off")
  /\ link' = None
  /\ object' = [object EXCEPT !["app"] = None]
  /\ UNCHANGED <<made, memory, filled, file, output, is_host, game, stopped, kind, val, solo,
                 heard, woken, unsaved>>

\* QuitSettings: a host unlinks the name, whatever it names by now.  A program ends with it;
\* a game calls it each time its menu closes and goes on, still the host if it was.
Quit ==
  /\ pc["app"] \in {"idle", "closed"} /\ Go("app", IF game THEN "closed" ELSE "off")
  /\ link' = IF is_host["app"] THEN None ELSE link
  /\ object' = [object EXCEPT !["app"] = None]
  /\ UNCHANGED <<made, memory, filled, file, output, is_host, game, stopped, kind, val, solo,
                 heard, woken, unsaved>>

\* The program in front crashes, or a game ends, which calls nothing.
Crash ==
  /\ pc["app"] # "off" /\ Go("app", "off")
  /\ object' = [object EXCEPT !["app"] = None]
  /\ unsaved' = (unsaved \/ pc["app"] \in {"save", "savelevel"})
  /\ heard' = (heard /\ (Busy("app") => kind["app"] = "level"))
  /\ UNCHANGED <<shared, file, output, is_host, game, stopped, kind, val, solo, woken>>
------------------------------------------------------------------------------
(* Volume keys of keymon, volume and brightness rows of the settings screen. *)

\* GetVolume, and the next value; at the end of the scale nothing is set.
Volume(p, up) ==
  /\ pc[p] = "idle" /\ (p = "app" => ~game)
  /\ Begins(p, IF up THEN "up" ELSE "down")
  /\ LET v == Mine(p).volume
         w == IF up THEN (IF v < MaxVolume THEN v + 1 ELSE v) ELSE (IF v > 0 THEN v - 1 ELSE v)
     IN  /\ val' = [val EXCEPT ![p] = w]
         /\ Go(p, IF w # v THEN "raw" ELSE "mute")
  /\ UNCHANGED <<shared, file, output, object, is_host, game, stopped, heard, woken, unsaved>>

Raw(p) ==
  /\ pc[p] = "raw" /\ Go(p, "store")
  /\ raw' = val[p]
  /\ UNCHANGED <<shared, file, muted, local, solo, heard, woken, unsaved>>

Store(p) ==
  /\ pc[p] = "store" /\ Go(p, "save")
  /\ memory' = [memory EXCEPT ![object[p]].volume = val[p]]
  /\ UNCHANGED <<link, made, filled, file, output, local, solo, heard, woken, unsaved>>

\* What SetVolume is followed by.
Saved(p) ==
  \/ kind[p] = "sleep" /\ Ends(p)
  \/ /\ kind[p] # "sleep"
     /\ Go(p, IF kind[p] = "init" THEN "check" ELSE "mute")
     /\ UNCHANGED <<heard, woken>>

\* Mutant of Save: only a change of the volume is saved, not what InitSettings stored.
SaveOwn(p) ==
  /\ pc[p] = "save" /\ Saved(p)
  /\ file' = [volume |-> val[p], brightness |-> IF file = None THEN Default.brightness
                                                                ELSE file.brightness]
  /\ unsaved' = FALSE
  /\ UNCHANGED <<shared, output, local, solo>>

\* SaveSettings writes all that is shared.
Save(p) ==
  /\ pc[p] = "save" /\ Saved(p)
  /\ file' = Mine(p) /\ unsaved' = FALSE
  /\ UNCHANGED <<shared, output, local, solo>>

\* InitSettings reads the volume again to decide on the mute.
Check(p) ==
  /\ pc[p] = "check" /\ Go(p, "mute")
  /\ val' = [val EXCEPT ![p] = Mine(p).volume]
  /\ UNCHANGED <<shared, file, output, object, is_host, game, stopped, kind, solo, heard, woken, unsaved>>

\* Mutant of Mute: turning the volume up does not end the mute.
MuteKept(p) ==
  /\ pc[p] = "mute"
  /\ muted' = IF kind[p] # "up" /\ val[p] = 0 THEN TRUE
              ELSE IF kind[p] = "init" /\ val[p] > 0 THEN FALSE
              ELSE muted
  /\ IF kind[p] = "init" THEN Go(p, "getlevel") /\ UNCHANGED <<heard, woken>> ELSE Ends(p)
  /\ UNCHANGED <<shared, file, raw, local, solo, unsaved>>

\* SetMute: up ends it, down begins it at 0, InitSettings does either.
Mute(p) ==
  /\ pc[p] = "mute"
  /\ muted' = IF kind[p] # "up" /\ val[p] = 0 THEN TRUE
              ELSE IF kind[p] # "down" /\ val[p] > 0 THEN FALSE
              ELSE muted
  /\ IF kind[p] = "init" THEN Go(p, "getlevel") /\ UNCHANGED <<heard, woken>> ELSE Ends(p)
  /\ UNCHANGED <<shared, file, raw, local, solo, unsaved>>

\* SetBrightness, of InitSettings, which it ends, or of the settings screen.
GetLevel(p) ==
  /\ pc[p] = "getlevel" /\ Go(p, "storelevel")
  /\ val' = [val EXCEPT ![p] = Mine(p).brightness]
  /\ UNCHANGED <<shared, file, output, object, is_host, game, stopped, kind, solo, heard, woken, unsaved>>

Brightness(up) ==
  /\ pc["app"] = "idle" /\ ~game
  /\ Begins("app", "level")
  /\ LET b == Mine("app").brightness
         c == IF up THEN b + 1 ELSE b - 1
     IN  c \in Levels /\ val' = [val EXCEPT !["app"] = c]
  /\ Go("app", "storelevel")
  /\ UNCHANGED <<shared, file, output, object, is_host, game, stopped, heard, woken, unsaved>>

StoreLevel(p) ==
  /\ pc[p] = "storelevel" /\ Go(p, "savelevel")
  /\ memory' = [memory EXCEPT ![object[p]].brightness = val[p]]
  /\ UNCHANGED <<link, made, filled, file, output, local, solo, heard, woken, unsaved>>

SaveLevel(p) ==
  /\ pc[p] = "savelevel"
  /\ file' = Mine(p) /\ unsaved' = FALSE
  /\ Ends(p)
  /\ UNCHANGED <<shared, output, local, solo>>
------------------------------------------------------------------------------
(* fauxSleep of the launcher and the clock.                                 *)

\* enterSleep's SetMute(1).
Sleep ==
  /\ pc["app"] = "idle" /\ ~game
  /\ Begins("app", "sleep") /\ Go("app", "enter")
  /\ muted' = TRUE
  /\ UNCHANGED <<shared, file, raw, object, is_host, game, stopped, val, heard, woken, unsaved>>

\* killall -s STOP keymon, wherever keymon is; one that is about to start may be missed.
Stop ==
  /\ pc["app"] = "enter" /\ Go("app", "asleep")
  /\ stopped' \in IF pc["keymon"] = "off" THEN BOOLEAN ELSE {TRUE}
  /\ UNCHANGED <<shared, file, output, object, is_host, game, kind, val, solo, heard, woken, unsaved>>

\* killall -s CONT keymon.
Continue ==
  /\ pc["app"] = "asleep" /\ Go("app", "wake")
  /\ stopped' = FALSE
  /\ UNCHANGED <<shared, file, output, object, is_host, game, kind, val, solo, heard, woken, unsaved>>

\* exitSleep's SetMute(0), whatever the volume; SetVolume(GetVolume()) follows.
Unmute ==
  /\ pc["app"] = "wake" /\ Go("app", "get")
  /\ muted' = FALSE
  /\ UNCHANGED <<shared, file, raw, local, solo, heard, woken, unsaved>>
------------------------------------------------------------------------------
Init ==
  /\ keymon_first \in BOOLEAN
  /\ link = None /\ made = 0 /\ memory = [o \in Objects |-> None] /\ filled = {}
  /\ file \in Values \cup {None}
  /\ raw = MaxVolume /\ muted = FALSE
  /\ pc = [p \in Procs |-> "off"] /\ object = [p \in Procs |-> None]
  /\ is_host = [p \in Procs |-> FALSE] /\ kind = [p \in Procs |-> "init"]
  /\ game = FALSE /\ stopped = FALSE
  /\ val = [p \in Procs |-> 0] /\ solo = [p \in Procs |-> TRUE]
  /\ heard = FALSE /\ woken = FALSE /\ unsaved = FALSE

Step(p) ==
  \/ Open(p) \/ Truncate(p) \/ Fill(p) \/ Killed(p) \/ Get(p) \/ Raw(p) \/ Store(p)
  \/ Save(p) \/ Check(p) \/ Mute(p) \/ GetLevel(p) \/ StoreLevel(p) \/ SaveLevel(p)
  \/ \E up \in BOOLEAN : Volume(p, up)

Next ==
  /\ \/ ~stopped /\ Step("keymon")
     \/ Step("app")
     \/ \E up \in BOOLEAN : Brightness(up)
     \/ Sleep \/ Stop \/ Continue \/ Unmute
     \/ Quit \/ Crash
  /\ UNCHANGED keymon_first

Spec == Init /\ [][Next]_vars
------------------------------------------------------------------------------
(* Properties.                                                              *)

\* The types; no interleaving takes the volume or the brightness off its scale.
TypeOK ==
  /\ link \in Objects \cup {None} /\ made \in 0 .. MaxObjects /\ filled \subseteq Objects
  /\ \A o \in Objects : memory[o] = None \/ memory[o] \in Values
  /\ file = None \/ file \in Values
  /\ raw \in Volumes /\ muted \in BOOLEAN
  /\ \A p \in Procs :
       /\ object[p] \in Objects \cup {None}
       /\ pc[p] \in {"raw", "store"} => val[p] \in Volumes
       /\ pc[p] = "storelevel" => val[p] \in Levels

\* msettings.c:50: "we created it so set initial size and populate": with keymon first,
\* nobody reads settings that are not there yet.
ReadsPopulated == keymon_first => \A p \in Procs : pc[p] = "get" => object[p] \in filled

\* msettings.c:38-40: all the processes see one set of settings, whoever made it.
OneObject == \A p, q \in Procs : object[p] # None /\ object[q] # None => object[p] = object[q]

\* With keymon first they do: keymon's object keeps its name through every quit, crash and
\* closed menu, and whatever starts maps that one.
OneObjectWithKeymonFirst == keymon_first => \A p \in Procs : object[p] # None => object[p] = link

\* With keymon first, however the two processes interleave, when both are at rest what was
\* saved last is what they share, the volume and the brightness; unless one crashed just
\* before it saved.
SavedWhenQuiet ==
  keymon_first /\ Quiet /\ link # None /\ ~unsaved => file = memory[link]

\* With keymon first, the sound output follows the volume, from any InitSettings that ran
\* alone until two changes overlap, and is muted exactly at 0, except that a sleep leaves it
\* unmuted at 0 too until the volume is next set (exitSleep's SetMute(0), powerops.c:102):
\* restarting the launcher repairs both.
HeardAsSet ==
  keymon_first /\ Quiet /\ heard =>
    \A p \in Procs : object[p] # None =>
       raw = Mine(p).volume /\ (muted <=> Mine(p).volume = 0 /\ ~woken)
==============================================================================
