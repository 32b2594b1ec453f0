------------------------------- MODULE Session -------------------------------
(***************************************************************************)
(* From power on to power off: the loop of launch.sh that alternates the   *)
(* launcher and the program it queues, the slot file by which the launcher *)
(* tells a game what to resume, and the saves a game (picoarch) leaves on  *)
(* the card, across crashes of either program, forced power-offs and power *)
(* cuts.  The launcher's menu itself is module Menu.                       *)
(*                                                                         *)
(* A save is a place in the game: how far it got and what its              *)
(* battery-backed memory held.  A .sav file holds the battery only, which  *)
(* is where a game that starts from it gets to.                            *)
(***************************************************************************)
EXTENDS Integers, FiniteSets

CONSTANTS
  Games,
  Stateful,      \* the games whose core can serialize its state
  Slots,         \* the state slots in use, DefaultSlot and AutoSlot among them
  SlotOf,        \* function on the games with a slot text file: the slot it names
  OldSaves,      \* function: [game, kind] -> the save that is on the card at first, or None
  OldAuto,       \* what auto_resume.txt may name at first: a game or None
  MenuSlots,     \* the slots picoarch's own menu is set to
  MaxProgress,   \* bound: how far a player gets
  None

DefaultSlot == 8   \* the hidden default state of openRom
AutoSlot    == 9   \* AUTO_RESUME_SLOT
Battery     == -1  \* the kind of save that is no state: <game>.sav, beside <game>.st<slot>
Kinds       == Slots \cup {Battery}

Saves == [pos : Nat, battery : Nat]

ASSUME SessionAssumption ==
  /\ Stateful \subseteq Games /\ DOMAIN SlotOf \subseteq Stateful
  /\ \A g \in DOMAIN SlotOf : SlotOf[g] \in Slots
  /\ {DefaultSlot, AutoSlot} \cup MenuSlots \subseteq Slots
  /\ Battery \notin Slots /\ MaxProgress \in Nat
  /\ OldSaves \in [Games \X Kinds -> Saves \cup {None}]
  /\ OldAuto \subseteq Games \cup {None} /\ None \notin Games \cup Kinds

VARIABLES
  mmenu,        \* libmmenu.so is there
  phase,        \* where launch.sh is: "off", "loop", "menu", "queued", "load", "game", "after"
  next,         \* /tmp/next: the queued game, or None
  slot_file,    \* /tmp/mmenu_slot.txt
  files, disk,  \* the card as programs see it, and as it is after the last sync:
                \*   a save or None for each game and kind, and auto_resume.txt
  writing,      \* the kind of save picoarch is in the middle of writing, or None
  should_quit,
  pos,          \* how far the running game has got
  battery,      \* what its battery-backed memory holds
  queued,       \* history: the slot meant for the queued game
  resumed,      \* history: the slot the running game asked for
  kept,         \* history: what the last complete save of each game and kind held
  torn          \* history: the saves whose last writing was interrupted

card    == <<files, disk>>
game    == <<writing, should_quit, pos, battery>>
saved   == <<kept, torn>>
vars    == <<mmenu, phase, next, slot_file, card, game, queued, resumed, saved>>

Running == phase = "game"
Playing == Running /\ writing = None /\ ~should_quit

\* An empty or short file, which neither sram_read nor state_read takes anything from.
Torn        == [pos |-> -1, battery |-> -1]
Loadable(s) == s \notin {None, Torn}
------------------------------------------------------------------------------
(* launch.sh and the launcher.                                              *)

\* A boot touches EXEC_PATH, syncs, and enters the loop; /tmp is empty.
Boot ==
  /\ phase = "off" /\ phase' = "loop"
  /\ disk' = files
  /\ UNCHANGED <<next, slot_file, files, game, queued, resumed, saved>>

\* The launcher starts: autoResume takes the request away before it follows it.
\* Otherwise the menu opens.
StartLauncher ==
  /\ phase = "loop"
  /\ IF files.auto # None
       THEN /\ files' = [files EXCEPT !.auto = None] /\ disk' = files'
            /\ slot_file' = AutoSlot /\ queued' = AutoSlot
            /\ next' = files.auto /\ phase' = "queued"
       ELSE /\ phase' = "menu"
            /\ UNCHANGED <<slot_file, queued, next, card>>
  /\ UNCHANGED <<game, resumed, saved>>

\* Mutant of OpenRom: the slot file is written for X only.
OpenRomNoSlot(g) ==
  /\ phase = "menu" /\ phase' = "queued"
  /\ next' = g /\ queued' = DefaultSlot
  /\ UNCHANGED <<slot_file, card, game, resumed, saved>>

\* openRom: A starts a game from its default slot, X from the slot its text file names.
OpenRom(g) ==
  /\ phase = "menu" /\ phase' = "queued"
  /\ next' = g
  /\ slot_file' = DefaultSlot /\ queued' = DefaultSlot
  /\ UNCHANGED <<card, game, resumed, saved>>

ResumeRom(g) ==
  /\ phase = "menu" /\ phase' = "queued"
  /\ g \in DOMAIN SlotOf
  /\ next' = g
  /\ slot_file' = SlotOf[g] /\ queued' = SlotOf[g]
  /\ UNCHANGED <<card, game, resumed, saved>>

\* A launcher that ends without a command is started again.
LauncherEnds ==
  /\ phase = "menu" /\ phase' = "loop"
  /\ disk' = files
  /\ UNCHANGED <<next, slot_file, files, game, queued, resumed, saved>>

\* launch.sh syncs and evaluates /tmp/next.
RunNext ==
  /\ phase = "queued" /\ phase' = "load"
  /\ disk' = files
  /\ UNCHANGED <<next, slot_file, files, game, queued, resumed, saved>>

\* Back in launch.sh: the command is removed and the card synced.
AfterNext ==
  /\ phase = "after" /\ phase' = "loop"
  /\ next' = None /\ queued' = None
  /\ disk' = files
  /\ UNCHANGED <<slot_file, files, game, resumed, saved>>
------------------------------------------------------------------------------
(* picoarch.                                                                *)

\* core_load_content reads the battery save; ResumeSlot takes the slot file away and
\* state_resume loads that state, if there is a whole one.
Load ==
  LET sram  == files.saves[<<next, Battery>>]
      asks  == mmenu /\ next \in Stateful /\ slot_file # None
      state == IF asks THEN files.saves[<<next, slot_file>>] ELSE None
  IN  /\ phase = "load" /\ phase' = "game"
      /\ writing' = None /\ should_quit' = FALSE
      /\ IF Loadable(state)
           THEN pos' = state.pos /\ battery' = state.battery
           ELSE IF Loadable(sram)
             THEN pos' = sram.pos /\ battery' = sram.battery
             ELSE pos' = 0 /\ battery' = 0
      /\ slot_file' = IF mmenu /\ next \in Stateful THEN None ELSE slot_file
      /\ resumed' = IF asks THEN slot_file ELSE None
      /\ UNCHANGED <<next, card, queued, saved>>

\* core_load_content fails: main quits, which unloads the game all the same, and writes the
\* battery of a core that has one without a game.  Nothing has read it, nor the slot file.
LoadFails ==
  /\ phase = "load" /\ phase' = "game"
  /\ writing' = None /\ should_quit' = TRUE /\ pos' = 0 /\ battery' = 0 /\ resumed' = None
  /\ UNCHANGED <<next, slot_file, card, queued, saved>>

\* The player gets on, and saves inside the game.
Play ==
  /\ Playing /\ pos < MaxProgress
  /\ pos' = pos + 1
  /\ battery' \in {battery, pos'}
  /\ UNCHANGED <<phase, next, slot_file, card, writing, should_quit, queued, resumed, saved>>

\* sram_write and state_write open the file, which empties it, then fill and close it,
\* and then sync.
Begin(kind) ==
  /\ writing' = kind
  /\ files' = [files EXCEPT !.saves[<<next, kind>>] = Torn]

Content == IF writing = Battery THEN [pos |-> battery, battery |-> battery]
                                ELSE [pos |-> pos, battery |-> battery]

Fill ==
  /\ Running /\ writing # None /\ files.saves[<<next, writing>>] = Torn
  /\ files' = [files EXCEPT !.saves[<<next, writing>>] = Content]
  /\ UNCHANGED <<phase, next, slot_file, disk, game, queued, resumed, saved>>

Filled == Running /\ writing # None /\ files.saves[<<next, writing>>] # Torn

\* Mutant of Synced: no sync.
SyncedNot ==
  /\ writing' = None
  /\ kept' = [kept EXCEPT ![<<next, writing>>] = Content]
  /\ torn' = torn \ {<<next, writing>>}
  /\ UNCHANGED card

Synced ==
  /\ writing' = None
  /\ disk' = files /\ UNCHANGED files
  /\ kept' = [kept EXCEPT ![<<next, writing>>] = Content]
  /\ torn' = torn \ {<<next, writing>>}

\* What a game that ends leaves of its memory.
Gone == writing' = None /\ should_quit' = FALSE /\ pos' = 0 /\ battery' = 0 /\ resumed' = None

\* picoarch's own menu saves and loads states, when libmmenu is not there: it takes the
\* items away otherwise, and those of libmmenu's menu do nothing.
SaveGame(slot) ==
  /\ Playing /\ next \in Stateful /\ ~mmenu
  /\ Begin(slot)
  /\ UNCHANGED <<phase, next, slot_file, disk, should_quit, pos, battery, queued, resumed,
                 saved>>

EndState ==
  /\ Filled /\ writing \in Slots
  /\ Synced
  /\ UNCHANGED <<phase, next, slot_file, should_quit, pos, battery, queued, resumed>>

LoadGame(slot) ==
  /\ Playing /\ next \in Stateful /\ ~mmenu
  /\ LET state == files.saves[<<next, slot>>] IN
       /\ Loadable(state)
       /\ pos' = state.pos /\ battery' = state.battery
  /\ UNCHANGED <<phase, next, slot_file, card, writing, should_quit, queued, resumed, saved>>

QuitGame ==
  /\ Playing
  /\ should_quit' = TRUE
  /\ UNCHANGED <<phase, next, slot_file, card, writing, pos, battery, queued, resumed, saved>>

\* POWER held for a second, for a core that has states: EACTION_POWER_OFF.
HoldPower ==
  /\ Playing /\ next \in Stateful
  /\ Begin(Battery)
  /\ UNCHANGED <<phase, next, slot_file, disk, should_quit, pos, battery, queued, resumed,
                 saved>>

\* Mutant of EndPower: the save is made and the game goes on.
EndPowerStays ==
  /\ Filled /\ writing = Battery /\ ~should_quit
  /\ Synced
  /\ UNCHANGED <<phase, next, slot_file, should_quit, pos, battery, queued, resumed>>

EndPower ==
  /\ Filled /\ writing = Battery /\ ~should_quit
  /\ Synced
  /\ should_quit' = TRUE
  /\ UNCHANGED <<phase, next, slot_file, pos, battery, queued, resumed>>

\* quit: core_unload_content saves the battery once more.
Unload ==
  /\ Running /\ writing = None /\ should_quit
  /\ Begin(Battery)
  /\ UNCHANGED <<phase, next, slot_file, disk, should_quit, pos, battery, queued, resumed,
                 saved>>

Exit ==
  /\ Filled /\ writing = Battery /\ should_quit
  /\ Synced
  /\ phase' = "after" /\ Gone
  /\ UNCHANGED <<next, slot_file, queued>>
------------------------------------------------------------------------------
(* What goes wrong.                                                         *)

Interrupted == IF Running /\ writing # None THEN {<<next, writing>>} ELSE {}

\* The game dies, before or after it has taken the slot file away; or its core is not there.
GameCrash ==
  /\ phase \in {"load", "game"} /\ phase' = "after"
  /\ Gone /\ torn' = torn \cup Interrupted
  /\ UNCHANGED <<next, slot_file, card, queued, kept>>

Down ==
  /\ phase # "off" /\ phase' = "off"
  /\ next' = None /\ slot_file' = None /\ queued' = None
  /\ Gone /\ torn' = torn \cup Interrupted
  /\ UNCHANGED <<kept>>

\* MENU + POWER at any time, or the launcher powers off: shutdown syncs first.
Shutdown == Down /\ disk' = files /\ UNCHANGED files

\* The battery runs out: what was not synced may or may not have reached the card.
PowerCut ==
  /\ Down
  /\ \E lost \in SUBSET {f \in Games \X Kinds : files.saves[f] # disk.saves[f]},
        auto \in {files.auto, disk.auto} :
       files' = [saves |-> [f \in Games \X Kinds |->
                              IF f \in lost THEN disk.saves[f] ELSE files.saves[f]],
                 auto  |-> auto]
  /\ disk' = files'
------------------------------------------------------------------------------
Init ==
  /\ mmenu \in BOOLEAN
  /\ phase = "off" /\ next = None /\ slot_file = None
  /\ \E auto \in OldAuto : files = [saves |-> OldSaves, auto |-> auto]
  /\ disk = files
  /\ writing = None /\ should_quit = FALSE /\ pos = 0 /\ battery = 0
  /\ queued = None /\ resumed = None
  /\ kept = OldSaves /\ torn = {}

\* The steps programs take by themselves.
Proceeds ==
  StartLauncher \/ RunNext \/ AfterNext \/ Load \/ Fill \/ EndState \/ EndPower \/ Unload \/ Exit

Next ==
  /\ \/ Boot \/ Proceeds \/ LauncherEnds
     \/ \E g \in Games : OpenRom(g) \/ ResumeRom(g)
     \/ Play \/ QuitGame \/ HoldPower
     \/ \E slot \in MenuSlots : SaveGame(slot) \/ LoadGame(slot)
     \/ LoadFails \/ GameCrash \/ Shutdown \/ PowerCut
  /\ UNCHANGED mmenu

Spec == Init /\ [][Next]_vars

\* A program that can take a step takes it in the end.
FairSpec == Spec /\ WF_vars(Proceeds /\ UNCHANGED mmenu)
------------------------------------------------------------------------------
(* Properties.                                                              *)

\* The types; whatever runs or is about to run has a command (launch.sh:95 tests for
\* /tmp/next), and only a running game is in the middle of a save.
TypeOK ==
  /\ mmenu \in BOOLEAN
  /\ phase \in {"off", "loop", "menu", "queued", "load", "game", "after"}
  /\ next \in Games \cup {None} /\ slot_file \in Slots \cup {None}
  /\ phase \in {"queued", "load", "game", "after"} => next \in Games
  /\ {files.auto, disk.auto} \subseteq Games \cup {None}
  /\ DOMAIN files.saves = Games \X Kinds /\ DOMAIN disk.saves = Games \X Kinds
  /\ writing \in Kinds \cup {None} /\ (writing # None => Running)
  /\ should_quit \in BOOLEAN /\ pos \in Nat /\ battery \in Nat
  /\ torn \subseteq Games \X Kinds

\* core.c:60 and core.c:172: a battery save or a state whose writing was finished stays
\* on the card as it was, whatever crashes, cuts and forced power-offs follow, until picoarch
\* writes the same file again for the same game.
SavesSurvive ==
  \A f \in (Games \X Kinds) \ (torn \cup Interrupted) :
    disk.saves[f] = kept[f] /\ files.saves[f] = kept[f]

\* A game resumes the slot that was queued for this start of it, and never one left over
\* in /tmp by a game that crashed or that has no states (openRom, ResumeSlot).
ResumesQueuedSlot == Running /\ resumed # None => resumed = queued

\* A game that was told to quit, from its menu or by a held POWER (main.c:368), ends; the
\* launcher (or the automatic resume it starts with) follows, or the power goes off first.
QuitReturns ==
  (Running /\ (should_quit \/ writing = Battery)) ~> phase \in {"menu", "queued", "off"}

==============================================================================
