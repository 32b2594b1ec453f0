------------------------------- MODULE Recents -------------------------------
(***************************************************************************)
(* The recently played games: the list the launcher reads when it starts   *)
(* (hasRecents), changes when a game is started (addRecent) and rewrites    *)
(* both times (saveRecents), across launcher processes, disc changes made   *)
(* by the running game, power cuts and changes to the card made elsewhere.  *)
(***************************************************************************)
EXTENDS Integers, Sequences, FiniteSets

CONSTANTS
  MaxRecents,   \* MAX_RECENTS
  Paths,        \* everything that can be played or remembered
  Game,         \* function: path -> the game it belongs to (one folder, or one file)
  M3u,          \* function: the games kept as a folder with a .m3u -> that .m3u
  Removable,    \* paths that may be deleted from the card and put back
  None

\* What is assumed of the constants.
RecentsAssumption ==
  /\ MaxRecents \in Nat \ {0}
  /\ Removable \subseteq Paths
  /\ \A g \in DOMAIN M3u : M3u[g] \in Paths /\ Game[M3u[g]] = g
  /\ None \notin Paths
  \* A game that is not a folder with a .m3u is one file.
  /\ \A p, q \in Paths : Game[p] = Game[q] /\ Game[p] \notin DOMAIN M3u => p = q

VARIABLES
  phase,        \* "down" (no power), "boot", "load", "menu", "exit", "game"
  recents,      \* the launcher's list, the newest first
  lines,        \* the lines of recent.txt that hasRecents has still to read
  file,         \* recent.txt as the next reader sees it
  synced,       \* recent.txt, and the history, at the last sync
  card,         \* the files that exist
  change_disc,  \* /tmp/change_disc.txt, or None
  running,      \* the game being played, or None
  played        \* history: <<g, h>> when h was not played after g, for games played

vars == <<phase, recents, lines, file, synced, card, change_disc, running, played>>
------------------------------------------------------------------------------
HasM3u(path) == Game[path] \in DOMAIN M3u /\ M3u[Game[path]] \in card

\* Mutant of Keeps: the discs of one game are kept apart.
KeepsEveryDisc(list, line) == line \in card /\ Len(list) < MaxRecents

\* Whether a line of the file joins the list: while there is room, if the file exists
\* and no other disc of the same game is there already.
Keeps(list, line) ==
  /\ line \in card /\ Len(list) < MaxRecents
  /\ ~(HasM3u(line) /\ \E i \in 1 .. Len(list) : Game[list[i]] = Game[line])

\* addRecent: path comes first, and what was before it moves down one place, up to where
\* it was, or to the end of the list when it is new.
ToTop(path, from, length) ==
  [i \in 1 .. length |-> IF i = 1 THEN path
                         ELSE IF i <= from THEN recents[i - 1] ELSE recents[i]]

Listing(path) == {i \in 1 .. Len(recents) : recents[i] = path}

Room == IF Len(recents) < MaxRecents THEN Len(recents) + 1 ELSE MaxRecents

\* Mutants of Added: a game already listed stays where it is; moving a game to the top
\* drops the oldest.
AddedInPlace(path) ==
  IF Listing(path) # {} THEN recents ELSE ToTop(path, Room, Room)

AddedDropsOldest(path) ==
  IF Listing(path) # {}
    THEN ToTop(path, CHOOSE i \in Listing(path) : TRUE, Len(recents) - 1)
    ELSE ToTop(path, Room, Room)

Added(path) ==
  IF Listing(path) # {}
    THEN ToTop(path, CHOOSE i \in Listing(path) : TRUE, Len(recents))
    ELSE ToTop(path, Room, Room)

\* saveRecents: the file is truncated and written again, and not yet on the card.
Save(list) == recents' = list /\ file' = list

\* openRom remembers a multi-disc game by its .m3u.
RecentPath(path) == IF HasM3u(path) THEN M3u[Game[path]] ELSE path

PlayedGames == {g \in {Game[p] : p \in Paths} : <<g, g>> \in played}

\* The history once game has been played.
ToFront(game) ==
  {p \in played : p[2] # game} \cup ({game} \X (PlayedGames \cup {game}))

\* The part of a history that the lines of a file still stand for.
Listed(history, list, files) ==
  LET games == {Game[list[i]] : i \in {i \in 1 .. Len(list) : list[i] \in files}}
  IN  history \cap (games \X games)
------------------------------------------------------------------------------
PowerOn ==
  /\ phase = "down" /\ phase' = "boot"
  /\ UNCHANGED <<recents, lines, file, synced, card, change_disc, running, played>>

\* The launcher starts: Directory_new of the root calls hasRecents.  A disc changed to in
\* the game comes first, then the file's lines.
Load ==
  /\ phase = "boot" /\ phase' = "load"
  /\ recents' = IF change_disc \in card THEN <<change_disc>> ELSE <<>>
  /\ lines' = file
  /\ change_disc' = None
  /\ UNCHANGED <<file, synced, card, running, played>>

ReadLine ==
  /\ phase = "load" /\ lines # <<>>
  /\ recents' = IF Keeps(recents, Head(lines)) THEN Append(recents, Head(lines)) ELSE recents
  /\ lines' = Tail(lines)
  /\ UNCHANGED <<phase, file, synced, card, change_disc, running, played>>

\* The end of the file.  Games whose file is gone have left the list for good.
Loaded ==
  /\ phase = "load" /\ lines = <<>>
  /\ phase' = "menu"
  /\ Save(recents)
  /\ played' = Listed(played, file, card)
  /\ UNCHANGED <<lines, synced, card, change_disc, running>>

\* openRom: the game is queued and the launcher exits.
Play(path) ==
  /\ phase = "menu" /\ phase' = "exit"
  /\ path \in card
  /\ Save(Added(RecentPath(path)))
  /\ running' = path
  /\ played' = ToFront(Game[path])
  /\ UNCHANGED <<lines, synced, card, change_disc>>

\* launch.sh syncs and runs what was queued.
Run ==
  /\ phase = "exit" /\ phase' = "game"
  /\ synced' = [file |-> file, played |-> played]
  /\ UNCHANGED <<recents, lines, file, card, change_disc, running, played>>

\* The in-game menu leaves the path of the disc it changed to.
ChangeDisc(path) ==
  /\ phase = "game"
  /\ Game[path] = Game[running] /\ HasM3u(path) /\ path \in card \ {M3u[Game[path]]}
  /\ change_disc' = path
  /\ UNCHANGED <<phase, recents, lines, file, synced, card, running, played>>

\* The game ends; launch.sh syncs again and starts the launcher.
EndGame ==
  /\ phase = "game" /\ phase' = "boot"
  /\ synced' = [file |-> file, played |-> played] /\ running' = None
  /\ UNCHANGED <<recents, lines, file, card, change_disc, played>>

\* The launcher shuts the system down.
PowerOff ==
  /\ phase = "menu" /\ phase' = "down"
  /\ synced' = [file |-> file, played |-> played] /\ change_disc' = None
  /\ UNCHANGED <<recents, lines, file, card, running, played>>

\* Power is cut: the card holds the file as it was at the last sync, or as far as it
\* was written; /tmp is gone.
PowerCut ==
  /\ phase # "down" /\ phase' = "down"
  /\ \E now \in {synced} \cup {[file |-> SubSeq(file, 1, n), played |-> played]
                                : n \in 0 .. Len(file)} :
       /\ file' = now.file
       /\ played' = Listed(now.played, now.file, Paths)
  /\ synced' = [file |-> file', played |-> played']
  /\ change_disc' = None /\ running' = None
  /\ UNCHANGED <<recents, lines, card>>

\* The owner deletes a file or puts it back while the device is off.
EditCard ==
  /\ phase = "down"
  /\ \E path \in Removable :
       card' = IF path \in card THEN card \ {path} ELSE card \cup {path}
  /\ UNCHANGED <<phase, recents, lines, file, synced, change_disc, running, played>>
------------------------------------------------------------------------------
Init ==
  /\ phase = "boot" /\ recents = <<>> /\ lines = <<>> /\ file = <<>>
  /\ synced = [file |-> <<>>, played |-> {}]
  /\ card = Paths /\ change_disc = None /\ running = None /\ played = {}

Next ==
  \/ PowerOn \/ Load \/ ReadLine \/ Loaded \/ Run \/ EndGame \/ PowerOff \/ PowerCut \/ EditCard
  \/ \E path \in Paths : Play(path) \/ ChangeDisc(path)

Spec == Init /\ [][Next]_vars
------------------------------------------------------------------------------
(* Properties.                                                              *)

\* The types, and the limit on the list in memory and in the file.
TypeOK ==
  /\ phase \in {"down", "boot", "load", "menu", "exit", "game"}
  /\ recents \in Seq(Paths) /\ Len(recents) <= MaxRecents
  /\ lines \in Seq(Paths)
  /\ file \in Seq(Paths) /\ Len(file) <= MaxRecents
  /\ synced.file \in Seq(Paths) /\ Len(synced.file) <= MaxRecents
  /\ card \subseteq Paths
  /\ change_disc \in Paths \cup {None} /\ running \in Paths \cup {None}

\* The menu never lists a file that is gone, nor a game twice - a multi-disc game
\* appears once, whichever of its discs were played, and after any power cut.
OnePerGame ==
  phase = "menu" =>
    /\ \A i \in 1 .. Len(recents) : recents[i] \in card
    /\ \A i, j \in 1 .. Len(recents) :
         Game[recents[i]] = Game[recents[j]] /\ Game[recents[i]] \in DOMAIN M3u
           /\ M3u[Game[recents[i]]] \in card => i = j
    /\ \A i, j \in 1 .. Len(recents) : recents[i] = recents[j] => i = j

\* "newest at top": the games are listed in the order they were last played, so that the one
\* to come back to is the default selection (saveLast, api.c:1117).
NewestAtTop ==
  phase = "menu" =>
    \A i, j \in 1 .. Len(recents) :
      i <= j => <<Game[recents[i]], Game[recents[j]]>> \in played

\* Places that a game takes twice: openRom adds the .m3u of a game listed by the disc that
\* was changed to, until the next start of the launcher merges the two (api.c:226, 731).
TwoPlaces == \E i, j \in 1 .. Len(recents) : i # j /\ Game[recents[i]] = Game[recents[j]]

\* No game is forgotten while the list has room for it: what is not listed is older than as
\* many other games as the list has places, or, when the game just started takes two of them,
\* one fewer (that one is lost before its time).
NothingForgotten ==
  phase \in {"menu", "exit"} =>
    \A g \in PlayedGames :
      \/ \E i \in 1 .. Len(recents) : Game[recents[i]] = g
      \/ Cardinality({h \in PlayedGames \ {g} : <<h, g>> \in played})
           >= MaxRecents - (IF phase = "exit" /\ TwoPlaces THEN 1 ELSE 0)
==============================================================================
