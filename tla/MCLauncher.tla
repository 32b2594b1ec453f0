----------------------------- MODULE MCLauncher -----------------------------
(* Two parts of the launcher that meet in no property: one process of its menu, and the list  *)
(* of recent games from process to process.  A behaviour is one of the two (part).             *)
(*                                                                                            *)
(* The menu's card has two consoles (one of them split over two collated folders), a          *)
(* collection, a tool, and games kept as a file, as a .cue folder and as a multi-disc .m3u    *)
(* folder, with two recent games or none.  The list is of three games kept as one file each   *)
(* and a game of two discs with its .m3u, with room for three of them.                        *)
EXTENDS Menu, TLC

CONSTANTS MaxRecents, Paths, Game, M3u, Removable

VARIABLES part, phase, recents, lines, file, synced, card, change_disc, running, played

R == INSTANCE Recents

\* What Recents assumes of its constants.
ASSUME RecentGames == R!RecentsAssumption

recentVars == <<phase, recents, lines, file, synced, card, change_disc, running, played>>

all == <<part, vars, recentVars>>

E(path, type, letter) == [path |-> path, type |-> type, letter |-> letter]

GB   == <<"Roms", "GB">>
GB2  == <<"Roms", "GB2">>
PS   == <<"Roms", "PS">>
Sub  == <<"Roms", "GB", "sub">>
Disc == <<"Roms", "PS", "discs">>
Solo == <<"Roms", "PS", "solo">>
Bare == <<"Roms", "PS", "bare">>
Fav  == <<"Collections", "fav">>
Tool == <<"Apps", "clock">>

MCDirs == {Root, RecentDir, Collections, GB, PS, Sub, Disc, Solo, Bare, Fav}

RootEntries ==
  <<E(Collections, "dir", 3), E(GB, "dir", 7), E(PS, "dir", 16), E(Tool, "pak", 3)>>

RecentEntries == <<E(<<"Roms", "GB2", "c">>, "rom", 3), E(M3uOf(Disc), "rom", 4)>>

Library(list) ==
  (Root        :> (IF list = <<>> THEN <<>> ELSE <<E(RecentDir, "dir", 18)>>)
                    \o RootEntries) @@
  (RecentDir   :> list) @@
  (Collections :> <<E(Fav, "dir", 6)>>) @@
  (Fav         :> <<E(<<"Roms", "PS", "x">>, "rom", 24), E(<<"Roms", "GB", "a">>, "rom", 1)>>) @@
  (GB          :> <<E(<<"Roms", "GB", "a">>, "rom", 1), E(<<"Roms", "GB", "b">>, "rom", 2),
                    E(<<"Roms", "GB2", "c">>, "rom", 3), E(Sub, "dir", 19)>>) @@
  (PS          :> <<E(Bare, "dir", 2), E(Disc, "dir", 4), E(Solo, "dir", 19),
                    E(<<"Roms", "PS", "x">>, "rom", 24)>>) @@
  (Sub         :> <<E(<<"Roms", "GB", "sub", "k">>, "rom", 11),
                    E(<<"Roms", "GB", "sub", "l">>, "rom", 12),
                    E(<<"Roms", "GB", "sub", "m">>, "rom", 13)>>) @@
  (Disc        :> <<E(<<"Roms", "PS", "discs", IF Disc \in BadM3u THEN "2" ELSE "1">>, "rom", 0),
                    E(M3uOf(Disc), "rom", 4)>>) @@
  (Solo        :> <<E(CueOf(Solo), "rom", 19)>>) @@
  (Bare        :> <<>>)

MCLibraries == {Library(<<>>), Library(RecentEntries)}

MCLastPaths ==
  {None, RecentDir, <<"Roms", "GB", "sub", "m">>, <<"Roms", "GB2", "c">>, Disc, Tool,
   <<"Collections", "fav", "a">>, <<"Roms", "PS", "gone">>}

MCSaved     == {<<"Roms", "GB", "b">>, M3uOf(Disc), CueOf(Solo)}
MCFirstDisc == Disc :> <<"Roms", "PS", "discs", "1">>
MCSavedDisc == M3uOf(Disc) :> <<"Roms", "PS", "discs", "2">>
MCCollation == "GB" :> "GB" @@ "GB2" :> "GB" @@ "PS" :> "PS"
MCCueDirs   == {Solo}
MCM3uDirs   == {Disc}

MCPaths == {"one", "two", "three", "discs.m3u", "disc1", "disc2"}
MCGame  ==
  [path \in MCPaths |-> IF path \in {"disc1", "disc2", "discs.m3u"} THEN "discs" ELSE path]
MCM3u   == [discs |-> "discs.m3u"]

MCInit ==
  /\ Init /\ R!Init
  /\ part \in {"menu", "recents"}
  /\ part = "recents" => last = None /\ listing = Library(<<>>)

MenuPart    == part = "menu" /\ Next /\ UNCHANGED <<part, recentVars>>
RecentsPart == part = "recents" /\ R!Next /\ UNCHANGED <<part, vars>>

MCNext == MenuPart \/ RecentsPart
MCSpec == MCInit /\ [][MCNext]_all

\* Recents!OnePerGame: the menu lists no file that is gone and no game twice.
OnePerGame == R!OnePerGame

\* Recents!NewestAtTop: the games are listed in the order of play.
NewestAtTop == R!NewestAtTop

\* Recents!NothingForgotten: a game leaves the list only for want of room.
NothingForgotten == R!NothingForgotten
=============================================================================
