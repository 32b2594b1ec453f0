-------------------------------- MODULE Menu --------------------------------
(***************************************************************************)
(* One process of the launcher (`retroplay`): the stack of open            *)
(* directories, the window of rows drawn on screen, the cursor, the saved  *)
(* cursor that makes "back, then open again" return to the same place, the *)
(* restoration of the last visited place at start-up, and the two ways a   *)
(* game leaves the menu (A plays it, X resumes it).                        *)
(*                                                                         *)
(* A path is the sequence of its components below the SD card root.  What  *)
(* is on the card does not change while the launcher runs, so the listing  *)
(* of every directory is fixed when the process starts.                    *)
(***************************************************************************)
EXTENDS Integers, Sequences, FiniteSets

CONSTANTS
  RowCount,   \* rows drawn on screen (ROW_COUNT)
  Dirs,       \* the paths that can be opened as a directory, the root included
  Libraries,  \* the possible contents: functions from Dirs to sequences of entries
  LastPaths,  \* what /tmp/last.txt may hold when the process starts
  CueDirs,    \* directories holding a .cue named after them
  M3uDirs,    \* directories holding a .m3u named after them
  FirstDisc,  \* function on M3uDirs: the disc the first line of the .m3u names
  BadM3u,     \* those of M3uDirs whose first line names no existing file
  Saved,      \* games with a slot file: those the X button can resume
  SavedDisc,  \* function on Saved (partial): the disc a multi-disc state was made with
  Collation,  \* function: name of a console folder -> its name up to the "("
  None        \* no path

Root        == <<>>
RomsDir     == <<"Roms">>
RecentDir   == <<"Recently Played">>
Collections == <<"Collections">>

ASSUME RowCountAssumption == RowCount \in Nat \ {0}
EntryRecord == [path : Seq(STRING), type : {"dir", "pak", "rom"}, letter : Nat]

ASSUME LibraryAssumption ==
  /\ Root \in Dirs
  /\ Libraries \subseteq [Dirs -> Seq(EntryRecord)]
  /\ \A lib \in Libraries : \A d \in Dirs : \A i \in 1 .. Len(lib[d]) :
       /\ lib[d][i].type = "dir" => lib[d][i].path \in Dirs
       /\ \A j \in 1 .. Len(lib[d]) :      \* a folder is listed once
            lib[d][i].type = "dir" /\ lib[d][j].path = lib[d][i].path => i = j

VARIABLES
  listing,        \* the directories' entries, as Directory_new reads them
  stack,          \* the open directories, the visible one last
  restore,        \* restore_depth, _relative, _selected, _start, _end
  pending,        \* components of the last path loadLast has still to visit
  component,      \* the component loadLast is looking for, or None
  scan,           \* loadLast's index into the visible directory
  can_resume,     \* the highlighted game has a resumable state
  slot_path,      \* whose slot file readyResume looked at last
  should_resume,  \* the next openRom resumes instead of starting
  dirty,          \* the screen must be drawn again
  showSettings,   \* the settings menu is open and takes the keys
  quit,           \* a command was queued in /tmp/next: the main loop ends
  launch,         \* what was queued
  last,           \* /tmp/last.txt
  closed          \* history: the directory closed last and what lay below it

place  == <<stack, restore, closed>>
loader == <<pending, component, scan>>
resume == <<can_resume, slot_path, should_resume>>
vars   == <<listing, place, loader, resume, dirty, showSettings, quit, launch, last>>
-----------------------------------------------------------------------------
(* Directories and the window of rows.  Indices are the code's: from 0, the
   last row drawn is end - 1.                                              *)

Top(s)      == s[Len(s)]
Count(d)    == Len(listing[d.path])
Entry(d, i) == listing[d.path][i + 1]
Chosen(d)   == Entry(d, d.selected)

AtMost(a, b)  == IF a < b THEN a ELSE b
Parent(p)     == SubSeq(p, 1, Len(p) - 1)
NameOf(p)     == p[Len(p)]
Within(p, q)  == Len(p) <= Len(q) /\ SubSeq(q, 1, Len(p)) = p

\* Rows that open a directory shows when nothing is restored.
Rows(path) == AtMost(RowCount, Len(listing[path]))

At(d, selected, start, end) ==
  [path |-> d.path, selected |-> selected, start |-> start, end |-> end]

\* Mutants of MoveUp: a short directory wraps to a negative row; the window does not
\* follow the cursor.
MoveUpUnclamped(d) ==
  LET s == d.selected - 1
  IN  IF s < 0 THEN At(d, Count(d) - 1, Count(d) - RowCount, Count(d))
      ELSE IF s < d.start THEN At(d, s, d.start - 1, d.end - 1)
      ELSE At(d, s, d.start, d.end)

MoveUpUnscrolled(d) ==
  LET n == Count(d)
      s == d.selected - 1
  IN  IF s < 0 THEN At(d, n - 1, IF n < RowCount THEN 0 ELSE n - RowCount, n)
      ELSE At(d, s, d.start, d.end)

\* The UP key: wrap to the end, or scroll one row when the cursor leaves the window.
MoveUp(d) ==
  LET n == Count(d)
      s == d.selected - 1
  IN  IF s < 0 THEN At(d, n - 1, IF n < RowCount THEN 0 ELSE n - RowCount, n)
      ELSE IF s < d.start THEN At(d, s, d.start - 1, d.end - 1)
      ELSE At(d, s, d.start, d.end)

MoveDown(d) ==
  LET n == Count(d)
      s == d.selected + 1
  IN  IF s >= n THEN At(d, 0, 0, AtMost(RowCount, n))
      ELSE IF s >= d.end THEN At(d, s, d.start + 1, d.end + 1)
      ELSE At(d, s, d.start, d.end)

\* Directory_index: the entries where the initial letter changes.  The list of
\* recent games and the collections are not alphabetised.
Alphas(d) ==
  IF d.path = RecentDir \/ Within(Collections, d.path)
    THEN {}
    ELSE {i \in 0 .. Count(d) - 1 :
            i = 0 \/ Entry(d, i).letter # Entry(d, i - 1).letter}

\* LEFT goes to the group before the cursor's group, RIGHT to the next one.
PreviousGroups(d) ==
  {i \in Alphas(d) : \E g \in Alphas(d) :
     /\ i < g /\ g <= d.selected
     /\ \A h \in Alphas(d) : h <= d.selected => h <= g
     /\ \A h \in Alphas(d) : h < g => h <= i}

NextGroups(d) ==
  {i \in Alphas(d) : i > d.selected /\ \A h \in Alphas(d) : h > d.selected => i <= h}

JumpTo(d, i) ==
  IF Count(d) > RowCount
    THEN LET e == AtMost(i + RowCount, Count(d)) IN At(d, i, e - RowCount, e)
    ELSE At(d, i, d.start, d.end)

Jumps(d, targets) == IF targets = {} THEN {d} ELSE {JumpTo(d, i) : i \in targets}

\* Every cursor one frame can produce from d: UP or DOWN first, then LEFT or RIGHT.
Step(d) == {d, MoveUp(d), MoveDown(d)}
Cursors(d) ==
  IF Count(d) = 0
    THEN {d}
    ELSE UNION {{s} \cup Jumps(s, PreviousGroups(s)) \cup Jumps(s, NextGroups(s))
                : s \in Step(d)}
-----------------------------------------------------------------------------
(* Games: the name a game is remembered by, and its slot file.             *)

CueOf(d)    == Append(d, "cue")
M3uOf(d)    == Append(d, "m3u")
HasM3u(rom) == Parent(rom) \in M3uDirs

\* openRom's recent_path: all the discs of a game are known by its .m3u.
GameKey(rom) == IF HasM3u(rom) THEN M3uOf(Parent(rom)) ELSE rom

\* readyResumePath: the game whose slot file decides whether X is offered, None
\* when the function returns before it looks for one.
SlotKey(e) ==
  IF ~Within(RomsDir, e.path) THEN None
  ELSE IF e.type # "dir" THEN GameKey(e.path)
  ELSE IF e.path \in CueDirs THEN GameKey(CueOf(e.path))
  ELSE IF e.path \in M3uDirs THEN M3uOf(e.path)
  ELSE None

\* readyResume(d's highlighted entry), only called when d has entries; "before" is
\* slot_path as it stands, which the function leaves alone when it returns early.
ReadyResume(d, before) ==
  LET key == SlotKey(Chosen(d)) IN
    /\ can_resume' = (key \in Saved)
    /\ slot_path' = IF key = None THEN before ELSE key

\* openDirectory's auto-launch: a folder that is one game starts that game.
AutoRom(path) ==
  IF path \in CueDirs THEN CueOf(path)
  ELSE IF path \in M3uDirs \ BadM3u THEN FirstDisc[path]
  ELSE None

\* No path is a path; the line of an .m3u names a file beside it.
ASSUME GamesAssumption ==
  /\ None \notin Saved
  /\ \A d \in CueDirs : CueOf(d) # None
  /\ \A d \in M3uDirs : FirstDisc[d] # None /\ Parent(FirstDisc[d]) = d
-----------------------------------------------------------------------------
(* Opening and closing.  s is the stack with this frame's cursor movement. *)

\* Mutant of Push: the cursor is restored, the window is not.
PushNoWindow(s, path) ==
  LET again == /\ s # <<>> /\ Count(Top(s)) > 0
               /\ restore.depth = Len(s)
               /\ restore.relative = Top(s).selected
  IN  Append(s, [path     |-> path,
                 selected |-> IF again THEN restore.selected ELSE 0,
                 start    |-> 0,
                 end      |-> Rows(path)])

\* openDirectory without auto-launch: push path, at the saved place when the entry
\* that was left last is the one being opened again.
Push(s, path) ==
  LET again == /\ s # <<>> /\ Count(Top(s)) > 0
               /\ restore.depth = Len(s)
               /\ restore.relative = Top(s).selected
      e == IF again THEN restore.end ELSE 0
  IN  Append(s, [path     |-> path,
                 selected |-> IF again THEN restore.selected ELSE 0,
                 start    |-> IF again THEN restore.start ELSE 0,
                 end      |-> IF e # 0 THEN e ELSE Rows(path)])

\* saveLast: leaving from the recent games is remembered as that list.
SaveLast(s, path) ==
  last' = IF Top(s).path = RecentDir THEN RecentDir ELSE path

\* openRom.  "armed" is should_resume; the slot written to /tmp/mmenu_slot.txt is
\* the content of the slot file when there is one, and whatever was in the buffer
\* ("junk") when there is none.
OpenRom(s, path, lastArg, armed, slotFile) ==
  LET key  == GameKey(path)
      disc == IF HasM3u(path) /\ path = key THEN FirstDisc[Parent(path)] ELSE path
      rom  == IF armed /\ HasM3u(path) /\ key \in DOMAIN SavedDisc
                THEN SavedDisc[key] ELSE disc
  IN  /\ launch' = [rom  |-> rom, key |-> key,
                    slot |-> IF ~armed THEN "hidden default"
                             ELSE IF slotFile \in Saved THEN "saved" ELSE "junk",
                    file |-> IF armed THEN slotFile ELSE None]
      /\ SaveLast(s, IF lastArg = None THEN rom ELSE lastArg)
      /\ quit' = TRUE

\* openPak: a tool is started the same way, with no slot.
OpenPak(s, path) ==
  /\ launch' = [rom |-> path, key |-> path, slot |-> "none", file |-> None]
  /\ SaveLast(s, path)
  /\ quit' = TRUE

\* Entry_open of the highlighted entry; afterwards the stack is "opened".
EntryOpen(s, opened, armed, slotFile) ==
  LET d == Top(s)
      e == Chosen(d)
      auto == AutoRom(e.path)
  IN  \/ /\ e.type = "pak"
         /\ OpenPak(s, e.path)
         /\ opened = s
      \/ /\ e.type = "rom"
         /\ OpenRom(s, e.path,
                    IF Within(Collections, d.path) THEN Append(d.path, NameOf(e.path))
                                                   ELSE None,
                    armed, slotFile)
         /\ opened = s
      \/ /\ e.type = "dir" /\ auto # None
         /\ OpenRom(s, auto, e.path, armed, slotFile)
         /\ opened = s
      \/ /\ e.type = "dir" /\ auto = None
         /\ opened = Push(s, e.path)
         /\ UNCHANGED <<launch, last, quit>>
-----------------------------------------------------------------------------
(* loadLast: walk down from the root along the components of last.txt, one
   step of the code's two nested loops at a time.                          *)

Loading == pending # <<>> \/ component # None

\* romsDir is effectively the root: nothing to look for.
NextComponent ==
  /\ component = None /\ pending # <<>>
  /\ pending' = Tail(pending)
  /\ component' = IF Head(pending) = RomsDir THEN None ELSE Head(pending)
  /\ scan' = 0
  /\ UNCHANGED <<listing, place, resume, dirty, showSettings, quit, launch, last>>

IsConsoleDir(p) == Len(p) = 2 /\ p[1] = "Roms"

Collates(p, q) ==
  /\ IsConsoleDir(p) /\ p[2] \in DOMAIN Collation
  /\ Len(q) >= 2 /\ q[1] = "Roms" /\ q[2] \in DOMAIN Collation
  /\ Collation[q[2]] = Collation[p[2]]

Matches(e) ==
  \/ e.path = component
  \/ Collates(component, e.path)
  \/ Within(Collections, last) /\ e.path # <<>> /\ NameOf(e.path) = NameOf(last)

\* Mutant of Reveal: a row that is in the window is opened without moving the cursor.
RevealUnmoved(d, i) ==
  IF i < d.end THEN d
  ELSE IF i + RowCount > Count(d) THEN At(d, i, Count(d) - RowCount, Count(d))
  ELSE At(d, i, i, i + RowCount)

\* The cursor moves to row i; the window follows only when i is below it.
Reveal(d, i) ==
  IF i < d.end THEN At(d, i, d.start, d.end)
  ELSE IF i + RowCount > Count(d) THEN At(d, i, Count(d) - RowCount, Count(d))
  ELSE At(d, i, i, i + RowCount)

IsRecentOrCollection(p) ==
  p = RecentDir \/ (p # Collections /\ Within(Collections, p))

SkipEntry ==
  /\ component # None /\ scan < Count(Top(stack))
  /\ ~Matches(Entry(Top(stack), scan))
  /\ scan' = scan + 1
  /\ UNCHANGED <<listing, place, pending, component, resume, dirty, showSettings,
                 quit, launch, last>>

\* A match stops the search when it is the last component (a folder that is a
\* game is highlighted, not opened) or a folder; otherwise the search goes on.
TakeEntry ==
  LET e == Entry(Top(stack), scan)
      s == [stack EXCEPT ![Len(stack)] = Reveal(@, scan)]
      final == pending = <<>> /\ ~IsRecentOrCollection(e.path)
  IN  /\ component # None /\ scan < Count(Top(stack))
      /\ Matches(e)
      /\ stack' = IF ~final /\ e.type = "dir" THEN Push(s, e.path) ELSE s
      /\ IF final \/ e.type = "dir"
           THEN component' = None /\ UNCHANGED scan
           ELSE scan' = scan + 1 /\ UNCHANGED component
      /\ UNCHANGED <<listing, restore, closed, pending, resume, dirty, showSettings,
                     quit, launch, last>>

NotFound ==
  /\ component # None /\ scan >= Count(Top(stack))
  /\ component' = None
  /\ UNCHANGED <<listing, place, pending, scan, resume, dirty, showSettings, quit,
                 launch, last>>
-----------------------------------------------------------------------------
(* One frame of the main loop of main(), by the button that decides it.    *)

Browsing == ~Loading /\ ~quit /\ ~showSettings

\* What every browsing frame does before it looks at X, A and B: move the cursor
\* and, when the screen is to be drawn, look up the highlighted game's slot file.
Stacks == {[stack EXCEPT ![Len(stack)] = d] : d \in Cursors(Top(stack))}

Fresh(s) == (dirty \/ Top(s).selected # Top(stack).selected) /\ Count(Top(s)) > 0

\* Mutant of CanResume: the resume state is not refreshed when the cursor has moved.
CanResumeStale(s) == can_resume

CanResume(s) == IF Fresh(s) THEN SlotKey(Chosen(Top(s))) \in Saved ELSE can_resume
SlotPath(s)  == IF Fresh(s) /\ SlotKey(Chosen(Top(s))) # None
                  THEN SlotKey(Chosen(Top(s))) ELSE slot_path

\* No button, or one that does nothing here: only the cursor moves.
MoveCursor ==
  /\ Browsing
  /\ \E s \in Stacks :
       /\ stack' = s
       /\ can_resume' = CanResume(s) /\ slot_path' = SlotPath(s)
  /\ dirty' = FALSE
  /\ UNCHANGED <<listing, restore, closed, loader, should_resume, showSettings, quit,
                 launch, last>>

\* X, with a resumable state: readyResume is not called again afterwards.
PressX ==
  /\ Browsing
  /\ \E s \in Stacks :
       /\ Count(Top(s)) > 0 /\ CanResume(s)
       /\ EntryOpen(s, stack', TRUE, SlotPath(s))
       /\ can_resume' = CanResume(s) /\ slot_path' = SlotPath(s)
       /\ should_resume' = ~quit'
  /\ dirty' = FALSE
  /\ UNCHANGED <<listing, restore, closed, loader, showSettings>>

\* A opens the highlighted entry; readyResume then follows the new highlight.
PressA ==
  /\ Browsing
  /\ \E s \in Stacks :
       /\ Count(Top(s)) > 0
       /\ EntryOpen(s, stack', should_resume, SlotPath(s))
       /\ should_resume' = (should_resume /\ ~quit')
       /\ IF Count(Top(stack')) > 0
            THEN ReadyResume(Top(stack'), SlotPath(s))
            ELSE can_resume' = CanResume(s) /\ slot_path' = SlotPath(s)
  /\ dirty' = FALSE
  /\ UNCHANGED <<listing, restore, closed, loader, showSettings>>

\* B: closeDirectory remembers the place, so that opening again comes back to it.
PressB ==
  /\ Browsing /\ Len(stack) > 1
  /\ \E s \in Stacks :
       LET below == SubSeq(s, 1, Len(s) - 1) IN
         /\ stack' = below
         /\ restore' = [depth |-> Len(below), relative |-> Top(below).selected,
                        selected |-> Top(s).selected, start |-> Top(s).start,
                        end |-> Top(s).end]
         /\ closed' = [frame |-> Top(s), below |-> below]
         /\ IF Count(Top(below)) > 0
              THEN ReadyResume(Top(below), SlotPath(s))
              ELSE can_resume' = CanResume(s) /\ slot_path' = SlotPath(s)
  /\ dirty' = FALSE
  /\ UNCHANGED <<listing, loader, should_resume, showSettings, quit, launch, last>>

\* The menu button opens and closes the settings menu; meanwhile the directory and
\* the resume state are left alone, and a frame's redraw still clears dirty.
ToggleSettings ==
  /\ ~Loading /\ ~quit
  /\ showSettings' = ~showSettings
  /\ dirty' = FALSE
  /\ UNCHANGED <<listing, place, loader, resume, quit, launch, last>>
-----------------------------------------------------------------------------
NothingClosed == [frame |-> None, below |-> <<>>]

Init ==
  /\ listing \in Libraries
  /\ last \in LastPaths
  /\ restore = [depth |-> -1, relative |-> -1, selected |-> 0, start |-> 0, end |-> 0]
  /\ stack = <<[path |-> Root, selected |-> 0, start |-> 0, end |-> Rows(Root)]>>
  /\ pending = IF last = None THEN <<>>
               ELSE [i \in 1 .. Len(last) |-> SubSeq(last, 1, i)]
  /\ component = None /\ scan = 0
  /\ can_resume = FALSE /\ slot_path = None /\ should_resume = FALSE
  /\ dirty = TRUE /\ showSettings = FALSE
  /\ quit = FALSE /\ launch = None
  /\ closed = NothingClosed

Next ==
  \/ NextComponent \/ SkipEntry \/ TakeEntry \/ NotFound
  \/ MoveCursor \/ PressX \/ PressA \/ PressB \/ ToggleSettings

Spec == Init /\ [][Next]_vars
-----------------------------------------------------------------------------
(* Properties.                                                             *)

Frame == [path : Dirs, selected : Nat, start : Nat, end : Nat]

\* The types of the cursors and of the flags the main loop keeps.
TypeOK ==
  /\ listing \in Libraries
  /\ stack \in Seq(Frame) /\ stack # <<>>
  /\ restore \in [depth : Int, relative : Int, selected : Nat, start : Nat, end : Nat]
  /\ scan \in Nat
  /\ can_resume \in BOOLEAN /\ should_resume \in BOOLEAN
  /\ dirty \in BOOLEAN /\ showSettings \in BOOLEAN /\ quit \in BOOLEAN

\* The rows the render loop reads, items[start .. end - 1], and the highlighted entry
\* all exist, and the window is as full as the directory allows - in every open
\* directory, after any sequence of moves, jumps, opens, returns and restorations.
RowsExist(d) ==
  LET n == Count(d) IN
    /\ d.end <= n /\ d.end - d.start = AtMost(RowCount, n)
    /\ d.selected < n \/ (n = 0 /\ d.selected = 0)

WindowsOK == \A k \in 1 .. Len(stack) : RowsExist(stack[k])

\* The highlighted row is one of the rows drawn.
CursorVisible ==
  \A k \in 1 .. Len(stack) :
    Count(stack[k]) > 0 =>
      stack[k].start <= stack[k].selected /\ stack[k].selected < stack[k].end

\* Each open directory is the entry its parent highlights: B always comes back to the
\* entry that was opened, however the stack was built (by hand or by loadLast).
StackFollowsCursor ==
  \A k \in 1 .. Len(stack) - 1 :
    /\ Count(stack[k]) > 0
    /\ Chosen(stack[k]).path = stack[k + 1].path

\* The saved cursor is only ever applied to the directory it was saved from: a
\* restored window never belongs to another listing.
RestoreIsCurrent ==
  restore.depth = Len(stack) =>
    /\ restore.relative < Count(Top(stack))
    /\ Entry(Top(stack), restore.relative).path = closed.frame.path
    /\ closed.frame.selected = restore.selected
    /\ closed.frame.start = restore.start /\ closed.frame.end = restore.end

\* Leaving a directory and opening it again, with only cursor movement in between,
\* shows it exactly as it was left.
ReopenRestores ==
  [][( /\ Browsing /\ closed.frame # None
       /\ Len(stack') = Len(stack) + 1
       /\ Len(stack) = Len(closed.below)
       /\ Top(stack').path = closed.frame.path )
       => Top(stack') = closed.frame]_vars

\* A resumed game gets its own state: the slot queued for the game is the slot file of
\* the game being started (main() refreshes can_resume before it looks at X).  And api.c:24:
\* should_resume is "set to 1 ... but only if can_resume==1" - it is never left set for
\* an entry that cannot be resumed.
ResumesOwnGame ==
  /\ quit /\ launch.file # None => launch.slot = "saved" /\ launch.file = launch.key
  /\ should_resume => can_resume
=============================================================================
