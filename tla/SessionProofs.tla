---------------------------- MODULE SessionProofs ----------------------------
(* From power on to power off, for any games, slots and saves on the card: a    *)
(* finished save stays as it was, and a game resumes the slot queued for it.    *)
EXTENDS Session, TLAPS

Files    == Games \X Kinds
Contents == Saves \cup {None, Torn}
Cards    == [saves : [Files -> Contents], auto : Games \cup {None}]

\* The types, with the contents of the card.
Types ==
  /\ TypeOK
  /\ files \in Cards /\ disk \in Cards
  /\ kept \in [Files -> Saves \cup {None}]

\* What the file being written holds: nothing yet, or all of it.
WritingOK ==
  Running /\ writing # None => files.saves[<<next, writing>>] \in {Torn, Content}

\* The slot file is the queued game's until that game takes it away.
QueuedOK ==
  /\ phase \in {"queued", "load"} => slot_file = queued
  /\ Running /\ resumed # None => resumed = queued

IInv == Types /\ WritingOK /\ SavesSurvive /\ QueuedOK
------------------------------------------------------------------------------
(* The card.                                                                 *)

\* Opening or filling a file changes that file.
LEMMA OneFile ==
  ASSUME NEW c \in Cards, NEW f \in Files, NEW s \in Contents
  PROVE  LET d == [c EXCEPT !.saves[f] = s]
         IN  /\ d \in Cards /\ d.auto = c.auto /\ d.saves[f] = s
             /\ \A g \in Files \ {f} : d.saves[g] = c.saves[g]
BY DEF Cards

LEMMA ContentIsSave ==
  ASSUME Types, writing \in Kinds PROVE Content \in Saves /\ Content # Torn
BY DEF Types, TypeOK, Content, Saves, Torn

LEMMA InitInv == Init => IInv
<1> SUFFICES ASSUME Init PROVE IInv OBVIOUS
<1>1. OldSaves \in [Files -> Saves \cup {None}] /\ OldAuto \subseteq Games \cup {None}
  BY SessionAssumption DEF SessionAssumption, Files
<1>2. PICK auto \in OldAuto : files = [saves |-> OldSaves, auto |-> auto]
  BY DEF Init
<1>3. files \in Cards /\ disk = files /\ kept = OldSaves
  BY <1>1, <1>2 DEF Cards, Contents, Init
<1>4. Types
  BY <1>1, <1>3 DEF Init, Types, TypeOK, Cards, Files, Running
<1>5. WritingOK /\ SavesSurvive /\ QueuedOK
  BY <1>1, <1>2, <1>3 DEF Init, WritingOK, SavesSurvive, QueuedOK, Running
<1> QED BY <1>4, <1>5 DEF IInv
------------------------------------------------------------------------------
(* What no step of a save touches.                                           *)

\* Nothing is written to the card: a sync at most, and whatever was being written is torn.
LEMMA CardKept ==
  ASSUME SavesSurvive, kept' = kept, files' = files, disk' \in {disk, files},
         torn \cup Interrupted \subseteq torn' \cup Interrupted'
  PROVE  SavesSurvive'
BY DEF SavesSurvive

\* The same, when the record of auto_resume.txt changes and the saves do not.
LEMMA LauncherInv ==
  ASSUME IInv, UNCHANGED mmenu, Boot \/ StartLauncher \/ RunNext \/ AfterNext \/ LauncherEnds
                                \/ \E g \in Games : OpenRom(g) \/ ResumeRom(g)
  PROVE  IInv'
<1> USE DEF IInv, Types, TypeOK, WritingOK, QueuedOK, Running, card, game, saved
<1>1. DefaultSlot \in Slots /\ AutoSlot \in Slots /\ \A g \in DOMAIN SlotOf : SlotOf[g] \in Slots
  BY SessionAssumption DEF SessionAssumption
<1>2. CASE StartLauncher /\ files.auto # None
  <2>1. /\ files' = [files EXCEPT !.auto = None] /\ disk' = files'
        /\ slot_file' = AutoSlot /\ queued' = AutoSlot /\ next' = files.auto /\ phase' = "queued"
        /\ phase = "loop" /\ UNCHANGED <<mmenu, game, resumed, saved>>
    BY <1>2 DEF StartLauncher
  <2>2. files' \in Cards /\ files'.saves = files.saves /\ files'.auto = None /\ files.auto \in Games
    BY <1>2, <2>1 DEF Cards
  <2>3. SavesSurvive'
    BY <2>1, <2>2 DEF SavesSurvive, Interrupted
  <2> QED BY <1>1, <2>1, <2>2, <2>3 DEF Cards
<1>3. CASE Boot \/ (StartLauncher /\ files.auto = None) \/ RunNext \/ AfterNext \/ LauncherEnds
  <2>1. /\ UNCHANGED <<mmenu, files, game, resumed, saved>> /\ disk' \in {disk, files}
        /\ phase \in {"off", "loop", "queued", "after", "menu"}
        /\ phase' \in {"loop", "menu", "load"} /\ (phase' = "load" <=> phase = "queued")
        /\ slot_file' = slot_file
        /\ (phase # "after" => queued' = queued /\ next' = next) /\ next' \in Games \cup {None}
    BY <1>3 DEF Boot, StartLauncher, RunNext, AfterNext, LauncherEnds
  <2>2. SavesSurvive'
    BY <2>1, CardKept DEF Interrupted
  <2> QED BY <2>1, <2>2
<1>4. ASSUME NEW g \in Games, OpenRom(g) \/ ResumeRom(g) PROVE IInv'
  <2>1. /\ UNCHANGED <<mmenu, card, game, resumed, saved>>
        /\ phase = "menu" /\ phase' = "queued" /\ next' = g
        /\ slot_file' = queued' /\ slot_file' \in Slots
    BY <1>1, <1>4 DEF OpenRom, ResumeRom
  <2>2. SavesSurvive'
    BY <2>1, CardKept DEF Interrupted
  <2> QED BY <2>1, <2>2
<1> QED BY <1>2, <1>3, <1>4

\* Whoever ends a game or the power leaves what was being written torn.
LEMMA EndsInv ==
  ASSUME IInv, UNCHANGED mmenu, GameCrash \/ Shutdown
  PROVE  IInv'
<1>1. /\ UNCHANGED <<files, kept>> /\ disk' \in {disk, files}
      /\ torn' = torn \cup Interrupted /\ phase' \in {"off", "after"} /\ Gone
      /\ phase' = "after" => phase \in {"load", "game"} /\ UNCHANGED next
      /\ next' \in {next, None} /\ slot_file' \in {slot_file, None}
  BY DEF GameCrash, Shutdown, Down, card
<1>2. SavesSurvive'
  BY <1>1, CardKept DEF IInv
<1>3. Interrupted \subseteq Files
  BY DEF IInv, Types, TypeOK, Interrupted, Files, Running
<1> QED
  BY <1>1, <1>2, <1>3 DEF IInv, Types, TypeOK, WritingOK, QueuedOK, Running, Gone, Files

\* A power cut mixes the two states of the card, which agree about every finished save.
LEMMA CutInv ==
  ASSUME IInv, UNCHANGED mmenu, PowerCut
  PROVE  IInv'
<1>1. PICK lost \in SUBSET {f \in Files : files.saves[f] # disk.saves[f]},
           auto \in {files.auto, disk.auto} :
        files' = [saves |-> [f \in Files |-> IF f \in lost THEN disk.saves[f] ELSE files.saves[f]],
                  auto  |-> auto]
  BY DEF PowerCut, Files
<1>2. /\ disk' = files' /\ kept' = kept /\ torn' = torn \cup Interrupted
      /\ phase' = "off" /\ next' = None /\ slot_file' = None /\ Gone
  BY DEF PowerCut, Down
<1>3. files' \in Cards
  BY <1>1 DEF IInv, Types, Cards
<1>4. \A f \in Files : files'.saves[f] \in {files.saves[f], disk.saves[f]}
  BY <1>1
<1>5. SavesSurvive'
  BY <1>2, <1>4 DEF IInv, SavesSurvive, Interrupted, Gone, Files, Running
<1>6. Interrupted \subseteq Files
  BY DEF IInv, Types, TypeOK, Interrupted, Files, Running
<1> QED
  BY <1>2, <1>3, <1>5, <1>6 DEF IInv, Types, TypeOK, WritingOK, QueuedOK, Running, Gone, Files,
                        Cards
------------------------------------------------------------------------------
(* picoarch.                                                                 *)

\* A game starts from what the card holds, and takes the slot file away.
LEMMA LoadInv ==
  ASSUME IInv, UNCHANGED mmenu, Load \/ LoadFails
  PROVE  IInv'
<1> USE DEF IInv, Types, TypeOK, Running
<1>1. /\ phase = "load" /\ phase' = "game" /\ writing' = None /\ should_quit' \in BOOLEAN
      /\ UNCHANGED <<next, card, queued, saved>>
      /\ slot_file' \in {slot_file, None} /\ resumed' \in {slot_file, None}
  BY DEF Load, LoadFails
<1>2. pos' \in Nat /\ battery' \in Nat
  <2>1. \A s \in Contents : Loadable(s) => s.pos \in Nat /\ s.battery \in Nat
    BY DEF Contents, Loadable, Saves
  <2>2. files.saves[<<next, Battery>>] \in Contents
    BY <1>1 DEF Cards, Files, Kinds
  <2>3. slot_file # None => files.saves[<<next, slot_file>>] \in Contents
    BY <1>1 DEF Cards, Files, Kinds
  <2>4. CASE LoadFails BY <2>4 DEF LoadFails
  <2>5. CASE Load BY <2>1, <2>2, <2>3, <2>5 DEF Load, Loadable
  <2> QED BY <2>4, <2>5
<1>3. SavesSurvive'
  BY <1>1, CardKept DEF Interrupted, card, saved
<1> QED BY <1>1, <1>2, <1>3 DEF WritingOK, QueuedOK, card, saved

\* The player plays, loads a state or quits.
LEMMA PlayInv ==
  ASSUME IInv, UNCHANGED mmenu, Play \/ QuitGame \/ \E slot \in MenuSlots : LoadGame(slot)
  PROVE  IInv'
<1> USE DEF IInv, Types, TypeOK, Running
<1>1. /\ Playing /\ writing' = None /\ should_quit' \in BOOLEAN
      /\ UNCHANGED <<phase, next, slot_file, card, queued, resumed, saved>>
  BY DEF Play, QuitGame, LoadGame, Playing
<1>2. pos' \in Nat /\ battery' \in Nat
  <2>1. CASE Play \/ QuitGame BY <2>1 DEF Play, QuitGame
  <2>2. ASSUME NEW slot \in MenuSlots, LoadGame(slot) PROVE pos' \in Nat /\ battery' \in Nat
    <3>1. <<next, slot>> \in Files
      BY <1>1, SessionAssumption DEF SessionAssumption, Playing, Files, Kinds
    <3>2. files.saves[<<next, slot>>] \in Contents
      BY <3>1 DEF Cards
    <3> QED BY <2>2, <3>2 DEF LoadGame, Loadable, Contents, Saves
  <2> QED BY <2>1, <2>2
<1>3. SavesSurvive'
  BY <1>1, CardKept DEF Interrupted, card, saved, Playing
<1> QED BY <1>1, <1>2, <1>3 DEF WritingOK, QueuedOK, card, saved

\* A file that is opened is the one that is interrupted from now on.
LEMMA BeginInv ==
  ASSUME IInv, UNCHANGED mmenu, NEW kind \in Kinds, Running, writing = None, Begin(kind),
         UNCHANGED <<phase, next, slot_file, disk, should_quit, pos, battery, queued, resumed,
                     saved>>
  PROVE  IInv'
<1>0. Battery \in Kinds /\ None \notin Kinds /\ <<next, kind>> \in Files
  BY SessionAssumption DEF SessionAssumption, Kinds, IInv, Types, TypeOK, Running, Files
<1>1. /\ files' \in Cards /\ files'.auto = files.auto /\ files'.saves[<<next, kind>>] = Torn
      /\ \A g \in Files \ {<<next, kind>>} : files'.saves[g] = files.saves[g]
  BY <1>0, OneFile DEF IInv, Types, Begin, Contents
<1>2. Interrupted = {} /\ Interrupted' = {<<next, kind>>} /\ writing' = kind
  BY <1>0 DEF Begin, Interrupted, Running
<1>3. SavesSurvive'
  BY <1>1, <1>2 DEF IInv, SavesSurvive, Files, saved
<1> QED
  BY <1>0, <1>1, <1>2, <1>3
     DEF IInv, Types, TypeOK, WritingOK, QueuedOK, Running, saved, Cards

LEMMA OpensInv ==
  ASSUME IInv, UNCHANGED mmenu, HoldPower \/ Unload \/ \E slot \in MenuSlots : SaveGame(slot)
  PROVE  IInv'
<1>1. PICK kind \in Kinds : Begin(kind)
  BY SessionAssumption DEF SessionAssumption, Kinds, HoldPower, Unload, SaveGame
<1>2. /\ Running /\ writing = None
      /\ UNCHANGED <<phase, next, slot_file, disk, should_quit, pos, battery, queued, resumed,
                     saved>>
  BY DEF HoldPower, Unload, SaveGame, Playing
<1> QED BY <1>1, <1>2, BeginInv

LEMMA FillInv == ASSUME IInv, UNCHANGED mmenu, Fill PROVE IInv'
<1>0. /\ Running /\ writing \in Kinds /\ next \in Games /\ <<next, writing>> \in Files
      /\ UNCHANGED <<phase, next, slot_file, disk, game, queued, resumed, saved>>
  BY DEF IInv, Types, TypeOK, Running, Files, Fill
<1>1. Content \in Contents
  BY <1>0, ContentIsSave DEF IInv, Contents
<1>2. /\ files' \in Cards /\ files'.auto = files.auto /\ files'.saves[<<next, writing>>] = Content
      /\ \A g \in Files \ {<<next, writing>>} : files'.saves[g] = files.saves[g]
  BY <1>0, <1>1, OneFile DEF IInv, Types, Fill
<1>3. Interrupted = {<<next, writing>>} /\ Interrupted' = Interrupted /\ Content' = Content
  BY <1>0 DEF Fill, Interrupted, Running, game, Content
<1>4. SavesSurvive'
  BY <1>0, <1>2, <1>3 DEF IInv, SavesSurvive, Files, saved
<1> QED
  BY <1>0, <1>2, <1>3, <1>4
     DEF IInv, Types, TypeOK, WritingOK, QueuedOK, Running, saved, game, Cards

\* A file that was filled is synced before the game goes on or ends.
LEMMA SyncedInv == ASSUME IInv, UNCHANGED mmenu, EndState \/ EndPower \/ Exit PROVE IInv'
<1>0. /\ Filled /\ Synced /\ UNCHANGED <<next, slot_file, queued>>
      /\ \/ UNCHANGED <<phase, pos, battery, resumed>> /\ should_quit' \in BOOLEAN
         \/ phase' = "after" /\ Gone
  BY DEF EndState, EndPower, Exit, IInv, Types, TypeOK
<1>1. /\ writing \in Kinds /\ next \in Games /\ <<next, writing>> \in Files /\ Running
      /\ writing # None
  BY <1>0 DEF IInv, Types, TypeOK, Running, Files, Filled
<1>2. files.saves[<<next, writing>>] = Content /\ Content \in Saves
  BY <1>0, <1>1, ContentIsSave DEF IInv, WritingOK, Filled
<1>3. /\ disk' = files /\ files' = files /\ writing' = None
      /\ kept' = [kept EXCEPT ![<<next, writing>>] = Content]
      /\ torn' = torn \ {<<next, writing>>}
  BY <1>0 DEF Synced
<1>4. Interrupted = {<<next, writing>>} /\ Interrupted' = {}
  BY <1>1, <1>3 DEF Interrupted
<1>5. SavesSurvive'
  <2> SUFFICES ASSUME NEW f \in Files, f \notin torn' PROVE files.saves[f] = kept'[f]
    BY <1>3 DEF SavesSurvive, Files
  <2>1. CASE f = <<next, writing>>
    BY <1>2, <1>3, <2>1 DEF IInv, Types
  <2>2. CASE f # <<next, writing>>
    BY <1>3, <1>4, <2>2 DEF IInv, Types, SavesSurvive, Files
  <2> QED BY <2>1, <2>2
<1>6. kept' \in [Files -> Saves \cup {None}]
  BY <1>2, <1>3 DEF IInv, Types
<1>7. /\ phase' \in {"game", "after"} /\ should_quit' \in BOOLEAN /\ next' = next
      /\ pos' \in Nat /\ battery' \in Nat
  <2>1. pos \in Nat /\ battery \in Nat /\ phase = "game"
    BY <1>1 DEF IInv, Types, TypeOK, Running
  <2>2. phase' \in {"game", "after"} /\ pos' \in Nat /\ battery' \in Nat
    BY <1>0, <2>1 DEF Gone
  <2>3. should_quit' \in BOOLEAN /\ next' = next
    BY <1>0 DEF Gone
  <2> QED BY <2>2, <2>3
<1>8. Types' /\ WritingOK'
  BY <1>0, <1>1, <1>3, <1>6, <1>7 DEF IInv, Types, TypeOK, WritingOK, Running
<1>9. QueuedOK'
  BY <1>0, <1>1 DEF IInv, QueuedOK, Running, Gone
<1> QED BY <1>5, <1>8, <1>9 DEF IInv
------------------------------------------------------------------------------
LEMMA StepInv == IInv /\ [Next]_vars => IInv'
<1>1. ASSUME IInv, UNCHANGED vars PROVE IInv'
  BY <1>1 DEF vars, card, game, saved, IInv, Types, TypeOK, WritingOK, Content, SavesSurvive,
              Interrupted, QueuedOK, Running
<1>2. ASSUME IInv, Next PROVE IInv'
  BY <1>2, LauncherInv, EndsInv, CutInv, LoadInv, PlayInv, OpensInv, FillInv, SyncedInv
     DEF Next, Proceeds
<1> QED BY <1>1, <1>2

LEMMA Invariance == Spec => []IInv
BY InitInv, StepInv, PTL DEF Spec

\* The commands, files and flags keep their types; whatever runs has a command, and only a
\* running game is in the middle of a save.
THEOREM SessionTypeCorrect == Spec => []TypeOK
<1>1. IInv => TypeOK BY DEF IInv, Types
<1> QED BY <1>1, Invariance, PTL

\* A save that was finished stays on the card as it was, whatever crashes, power cuts and forced
\* power-offs follow, until picoarch writes the same file again.
THEOREM SessionSavesSurvive == Spec => []SavesSurvive
<1>1. IInv => SavesSurvive BY DEF IInv
<1> QED BY <1>1, Invariance, PTL

\* A game resumes the slot that was queued for this start of it, or none.
THEOREM SessionResumesQueuedSlot == Spec => []ResumesQueuedSlot
<1>1. IInv => ResumesQueuedSlot BY DEF IInv, QueuedOK, ResumesQueuedSlot
<1> QED BY <1>1, Invariance, PTL
=============================================================================
