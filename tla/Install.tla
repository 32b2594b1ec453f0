------------------------------ MODULE Install ------------------------------
(***************************************************************************)
(* Installing and updating: from switching on to the launcher, with the    *)
(* power cut between any two commands.  The firmware runs                  *)
(* .tmp_update/updater if the card has one, and miyoo354/app/MainUI after  *)
(* that if the card has one; otherwise its own ("stock") menu.  What is    *)
(* written is taken to reach the card in the order it was written.         *)
(***************************************************************************)
EXTENDS Naturals

CONSTANTS Parts,      \* the entries of .system, the directory itself included
          Launcher,   \* the one of them that is paks/retroplay.pak/launch.sh
          Versions,   \* of the system
          Missing,    \* no such entry
          Torn,       \* an entry whose extraction was cut
          MaxCuts     \* power cuts considered

VARIABLES pc,        \* what the device executes next
          package,   \* what the card has of miyoo354
          newest,    \* the version last copied to the card
          system,    \* .system: the version of each entry
          old,       \* trees in .system_old: none, one, one with another inside
          updater,   \* is there a .tmp_update/updater
          todo,      \* entries of the archive not yet extracted
          cuts,      \* power cuts so far
          hurt       \* history: a cut fell into the removal of miyoo354

vars == <<pc, package, newest, system, old, updater, todo, cuts, hurt>>

Full == {"dir", "MainUI", "zip"}
Gone == \A p \in Parts : system[p] = Missing
Whole == \A p \in Parts : system[p] = newest

TypeOK ==
  /\ pc \in {"off", "firmware", "updater", "handed back", "MainUI", "remove updater", "move",
             "unzip", "remove old", "remove package", "loop", "launch", "stock"}
  /\ package \subseteq Full
  /\ newest \in Versions
  /\ system \in [Parts -> Versions \cup {Missing, Torn}]
  /\ old \in 0..2
  /\ updater \in BOOLEAN
  /\ todo \subseteq Parts
  /\ cuts \in 0..MaxCuts
  /\ hurt \in BOOLEAN

\* A new card with a copy of the release.
Init ==
  /\ pc = "off"
  /\ package = Full
  /\ newest \in Versions
  /\ system = [p \in Parts |-> Missing]
  /\ old = 0
  /\ updater = FALSE
  /\ todo = {}
  /\ cuts = 0
  /\ hurt = FALSE

Goto(from, to) == pc = from /\ pc' = to

-----------------------------------------------------------------------------
(* The owner and the power.                                                *)

\* miyoo354 is copied to the card, in another machine.
Copy ==
  /\ pc = "off"
  /\ package' = Full
  /\ newest' \in Versions
  /\ hurt' = FALSE
  /\ UNCHANGED <<pc, system, old, updater, todo, cuts>>

SwitchOn ==
  /\ Goto("off", "firmware")
  /\ UNCHANGED <<package, newest, system, old, updater, todo, cuts, hurt>>

\* The session is over, or the owner has seen enough of the stock menu.
SwitchOff ==
  /\ pc \in {"launch", "stock"}
  /\ pc' = "off"
  /\ UNCHANGED <<package, newest, system, old, updater, todo, cuts, hurt>>

\* What a cut in the middle of the extraction leaves: one entry half written.
Cut ==
  /\ pc \notin {"off", "launch", "stock"}
  /\ cuts < MaxCuts
  /\ cuts' = cuts + 1
  /\ pc' = "off"
  /\ todo' = {}
  /\ IF pc = "unzip" /\ "zip" \in package
       THEN \/ \E p \in todo : system' = [system EXCEPT ![p] = Torn]
            \/ system' = system
       ELSE system' = system
  /\ hurt' = (hurt \/ package \notin {{}, Full})
  /\ UNCHANGED <<package, newest, old, updater>>

-----------------------------------------------------------------------------
(* The firmware, the updater and the launcher it keeps running.            *)

Firmware ==
  /\ pc \in {"firmware", "handed back"}
  /\ pc' = IF pc = "firmware" /\ updater THEN "updater"
           ELSE IF "MainUI" \in package THEN "MainUI"
           ELSE "stock"
  /\ UNCHANGED <<package, newest, system, old, updater, todo, cuts, hurt>>

\* [ -d miyoo354 ] && exit 0
Updater ==
  /\ Goto("updater", IF package # {} THEN "handed back" ELSE "loop")
  /\ UNCHANGED <<package, newest, system, old, updater, todo, cuts, hurt>>

\* while launch.sh exists, run it; then reboot.
Loop ==
  /\ Goto("loop", IF system[Launcher] # Missing THEN "launch" ELSE "firmware")
  /\ UNCHANGED <<package, newest, system, old, updater, todo, cuts, hurt>>

-----------------------------------------------------------------------------
(* MainUI, one command at a time.                                          *)

\* Install or update?
Decide ==
  /\ Goto("MainUI", IF Gone THEN "unzip" ELSE "remove updater")
  /\ todo' = Parts
  /\ UNCHANGED <<package, newest, system, old, updater, cuts, hurt>>

RemoveUpdater ==
  /\ Goto("remove updater", "move")
  /\ updater' = FALSE
  /\ UNCHANGED <<package, newest, system, old, todo, cuts, hurt>>

\* mv .system .system_old: into it when an interrupted update left one, and not at all when
\* it holds a .system already.
MoveSystem ==
  /\ Goto("move", "unzip")
  /\ IF old < 2
       THEN /\ system' = [p \in Parts |-> Missing]
            /\ old' = old + 1
       ELSE UNCHANGED <<system, old>>
  /\ UNCHANGED <<package, newest, updater, todo, cuts, hurt>>

\* unzip -o: .system first, an entry at a time.
Extract ==
  /\ pc = "unzip"
  /\ "zip" \in package
  /\ \E p \in todo :
       /\ todo' = todo \ {p}
       /\ system' = [system EXCEPT ![p] = newest]
  /\ UNCHANGED <<pc, package, newest, old, updater, cuts, hurt>>

\* Mutant of EndUnzip: .system is taken for complete when its launcher is there.
EndUnzipEarly ==
  /\ Goto("unzip", "remove old")
  /\ "zip" \in package => Launcher \notin todo
  /\ updater' = (updater \/ "zip" \in package)
  /\ todo' = {}
  /\ UNCHANGED <<package, newest, system, old, cuts, hurt>>

\* .tmp_update comes last.  Without the archive unzip fails and the script goes on.
EndUnzip ==
  /\ Goto("unzip", "remove old")
  /\ "zip" \in package => todo = {}
  /\ updater' = (updater \/ "zip" \in package)
  /\ todo' = {}
  /\ UNCHANGED <<package, newest, system, old, cuts, hurt>>

RemoveOld ==
  /\ pc = "remove old"
  /\ IF old > 0
       THEN old' = old - 1 /\ pc' = pc
       ELSE old' = old /\ pc' = "remove package"
  /\ UNCHANGED <<package, newest, system, updater, todo, cuts, hurt>>

\* Mutant of RemovePackage: the removal of miyoo354 is forgotten.
RemovePackageNot ==
  /\ Goto("remove package", IF updater THEN "updater" ELSE "stock")
  /\ UNCHANGED <<package, newest, system, old, updater, todo, cuts, hurt>>

\* rm -rf miyoo354, in whatever order the card lists its files; then updater, if there is one.
RemovePackage ==
  /\ pc = "remove package"
  /\ IF package # {}
       THEN /\ \E f \in package : /\ f = "dir" => package = {"dir"}
                                  /\ package' = package \ {f}
            /\ pc' = pc
       ELSE /\ package' = package
            /\ pc' = IF updater THEN "updater" ELSE "stock"
  /\ UNCHANGED <<newest, system, old, updater, todo, cuts, hurt>>

-----------------------------------------------------------------------------

Boot == \/ Firmware \/ Updater \/ Loop
        \/ Decide \/ RemoveUpdater \/ MoveSystem \/ Extract \/ EndUnzip
        \/ RemoveOld \/ RemovePackage

Next == Boot \/ Copy \/ SwitchOn \/ SwitchOff \/ Cut

Spec == Init /\ [][Next]_vars

\* A running device executes its next command, and somebody switches it on.
Fairness == WF_vars(Boot) /\ WF_vars(SwitchOn)
FairSpec == Spec /\ Fairness

-----------------------------------------------------------------------------

\* updater only ever runs a launcher that belongs to a complete system, of the version that
\* was copied last, whatever was cut before (src/static/.tmp_update/updater:8-10).
LaunchesNewest == pc = "launch" => Whole

\* A device that starts with a complete package gets to the launcher, unless the power is cut
\* while the package is being removed (README.txt: "update automatically").
UpdateFinishes == (pc = "firmware" /\ package = Full) ~> (pc = "launch" \/ hurt)

\* The firmware's own menu never gets at a card with RetroPlay on it
\* (src/static/.tmp_update/updater:11).  The code does not keep this.
StockKeptOut == pc # "stock"
=============================================================================
