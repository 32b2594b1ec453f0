# RetroPlay OS: a TLA+ model

RetroPlay OS is the user interface of a handheld console (Miyoo Mini): a boot script, a
launcher, a fork of the libretro frontend picoarch, and a few daemons and tools that talk to
each other through files, a shared memory object, signals and exit codes. This directory
models the parts in which *order* matters: who reads what another wrote, when, and what is left
when one of them dies.

Sources are named relative to the repository. All modules are plain TLA+; every action names
in a comment the code it stands for, and `PROJECT.json` maps each definition to its lines.

## 1. Inventory

| Component | State it keeps | Operations | Talks to |
|---|---|---|---|
| Boot script `launch.sh` | `EXEC_PATH`, `/tmp/next` | loop: launcher, then the queued command | runs everything |
| Launcher (`app/retroplay.c`, `common/api.c`) | stack of directories with cursor and window, saved cursor, recents, resume flags | move, jump, open, close, play, resume, settings, restore the last place | `/tmp/next`, `/tmp/last.txt`, `/tmp/mmenu_slot.txt`, `recent.txt` |
| Recent games (`common/api.c`) | list of at most 24 paths, `recent.txt` | read, add, rewrite | `/tmp/change_disc.txt` of the game |
| keymon (`keymon/keymon.c`) | which buttons are down, repeat counter | volume keys, screenshot chord, forced power-off; a thread that watches the charger | shared settings, `shutdown` |
| libmsettings | shared memory object, `msettings.bin`, sound output, mute | init, quit, set volume, brightness, mute | keymon and the program in front |
| picoarch: sound (`plat_sdl.c`) | ring buffer, resampler, rates | write, callback, resize, select resampler | SDL's sound thread |
| picoarch: core (`core.c`, `main.c`) | the game, battery save, states, `should_quit` | load, run, save, quit | the card, libmmenu |
| In-game menu (`libmmenu/mmenu.c`) | cursor | continue, save, load, settings, quit, change disc | picoarch |
| Sleep and power off (`common/powerops.c`, `common/controls.c`, the end of each pass of `retroplay.c` and `clock.c`) | timers, buttons believed held | fake sleep, wake, power off | keymon (STOP/CONT), mute |
| batmon (`batmon/batmon.c`) | charger and screen flags, three threads | dim, light, leave, power off | the boot script |
| Clock (`clock/clock.c`) | six fields and a cursor | edit, normalise, apply | `date` |
| picoarch: input (`core.c`, `main.c`, `in_sdl.c`) | SDL's queue, key state, MENU's combination | poll, translate, open the menu | libmmenu, the core |
| picoarch: options (`options.c`, `config.c`, `main.c`, `menu.c`) | the core's options, fast forward, config files | announce, read, change, write, remove, toggle | the core, the card |
| picoarch: content (`content.c`, `patch.c`) | the game's bytes, its patches | find, apply IPS and BPS, give to the core | the card, the core |
| Installer scripts (`MainUI`, `.tmp_update/updater`) | the card's folders | delete, unzip, move | the firmware, the next boot |
| screenshots, sys-img, sys-msg, lumon, confirm | their own screens | draw | files |
| picoarch: menu, button maps, cheats, overrides, archives | pages, lists | parse, draw, apply | the card |

What is hard here:

- **two processes without a lock**: keymon and the program in front share volume, brightness
  and the file they are saved to (libmsettings);
- **two threads with a lock that is given up**: the sound callback and the emulator;
- **hand-over through files** that a crash leaves behind: `/tmp/next`, `/tmp/mmenu_slot.txt`,
  `/tmp/change_disc.txt`, `auto_resume.txt`, `recent.txt`;
- **writes that empty a file first** and may be interrupted: saves, states, recents;
- **long sequences of legal keys**: the cursor and window of the launcher are changed by five
  pieces of code, and the keymon switch falls through between its cases;
- **flags that outlive what they describe**: `can_resume`, `should_resume`, `restore_*`;
- **a clock read before the events it is compared with**, and buttons pressed in one pass of a
  loop, or one program, and released in another;
- **three threads without a lock** in batmon;
- **scripts that replace the system they boot from**, and may be cut anywhere;
- **a queue that every stage of picoarch's input takes apart and puts together again**;
- **options kept in five places**: core, frontend, fast forward's memory and two config files;
- **two passes over one patch** that must agree on every length.

What makes each component correct:

- launcher: rows drawn exist and show the cursor; coming back is coming back to the same place;
  X resumes the game under the cursor and no other;
- recents: the order of play, no game twice, nothing dropped for fewer games than the list holds;
- keymon: the forced power-off runs exactly when both its buttons are down, a screenshot only when
  both triggers are; only volume buttons move the volume;
- libmsettings: one object, populated before it is read, saved as shared, heard as set;
- sound: frames come out in order and once, at the right rate, and the emulator never blocks
  for ever;
- session: finished saves survive, a game resumes what was queued for it, quitting returns;
- sleep: POWER powers off when held and at no other time, a tap sleeps or wakes, the device is
  audible again afterwards, and asleep it does not run its battery down;
- input: the game sees the buttons that are held, MENU opens the menu once per tap and never before
  it is known to be one;
- options: a game starts with its own config or else the global one, the core knows of every
  change, fast forward gives back what it replaced;
- content: the core gets what the authors of the patches meant, or the game as it is;
- batmon: leaves for POWER or a missing charger and for nothing else, and darkens the screen;
- clock: what it sets is a date;
- installer: what is started is complete and the newest, an update finishes, the firmware's own
  menu stays away.

`PROJECT.json` lists the hazards with the line where each bites and the property that covers it.

## 2. Modules

| Module | Models | Composes with |
|---|---|---|
| `Menu` | one launcher process: directory stack, window, cursor, `loadLast`, auto-launch, resume | `MCLauncher` gives it a card |
| `Recents` | recent games across launchers, games, power cuts, changes of the card | `MCLauncher` |
| `LauncherProofs` | proofs about the two | |
| `Keymon` | the event loop of keymon, one action per kernel key event | `MCKeymon` |
| `KeymonProofs` | proofs about it | |
| `SharedSettings` | libmsettings used by keymon and the program in front, one step per read, store, save and device call | `MCSharedSettings` |
| `SharedSettingsProofs` | proofs about it | |
| `AudioFifo` | what the sound buffer promises: a bounded queue of frames | |
| `AudioRing` | the ring buffer, its writer and the callback; refines `AudioFifo` | `MCAudioRing` |
| `AudioRingProofs` | proofs about it | |
| `Session` | power on to power off: boot script, launcher, game, saves, crashes, power cuts | `MCSession` |
| `SessionProofs` | proofs about it | |
| `PowerSleep` | sleep, wake, power off: the launcher's passes and its sleep loop, keymon around its stop | `MCPowerSleep` |
| `PowerSleepProofs` | proofs about it | |
| `InputPoll` | picoarch's polling of buttons, from SDL's queue to the game and the emulator's actions | `MCPicoarch` |
| `Options` | a core's options: config files, menu, fast forward, and what the core was told | `MCPicoarch` |
| `Patch` | IPS and BPS patches, applied one after the other | `MCPicoarch` |
| `MCMenuRepeat` | the polling of buttons by a player who waits, with key repeats | |
| `PicoarchProofs` | proofs about options, buttons and patches | |
| `Install` | the update scripts and the boots between which they are cut | `MCBoot` |
| `Batmon` | the charging screen: main loop and two threads, one step per shared access | `MCBoot` |
| `Clock` | the date editor | `MCBoot` |
| `BootProofs` | proofs about the three | |

### Menu

`stack` is the array of open `Directory`s with `selected`, `start`, `end`; `restore` stands for
the five `restore_*` globals. `MoveCursor`, `PressX`, `PressA`, `PressB` and `ToggleSettings`
are the branches of one pass of `main`'s loop; each ends with what that pass does last, the
refresh of `can_resume` included. `loadLast` runs before the loop, one entry at a time
(`NextComponent`, `SkipEntry`, `TakeEntry`, `NotFound`). Listings are given (`Libraries`), a
path is the sequence of its components, and a file's contents are reduced to what the launcher
asks: is there a `.cue`, an `.m3u`, does its first disc exist, is there a slot file.

### Recents

`phase` follows launch.sh. `hasRecents` is `Load` (the disc changed to), `ReadLine` for each line
of the file (`lines` is what is still to be read) and `Loaded`; `Play` is `openRom` with its
`addRecent`; `ChangeDisc` is what a game leaves in `/tmp/change_disc.txt`; `PowerCut` leaves
`recent.txt` as it was at the last sync, as written since, or cut off in the middle of a rewrite.
Between two boots files may leave the card and return. The history `played` is the order of play
as a relation: `<<g, h>>` when `h` was not played after `g`. It keeps what the file still stands
for. `NothingForgotten` counts the other games that were played since: a game leaves the list for
as many of them as the list has places, and for one fewer only in the one case the code loses it
early (`TwoPlaces`, section 5). Deleting an `.m3u` while its discs stay is not in the instance: it
makes every disc a game of its own, and then the discs that were one entry are entries whose order
nobody remembers.

`MCLauncher` explores menu and recent games side by side, choosing one at the start: they are two
parts of one program that meet in no property.

### Keymon

An event runs through its own case and those it falls into (`RunsPower`, `RunsVolup`); `seen`
is a history of the buttons whose press keymon has handled. The volume is a number; the muting
and saving is `SharedSettings`. The charger thread is not modelled.

### SharedSettings

`pc[p]` is where each of the two processes is inside a library call. `keymon_first` says whether
at this boot keymon's `InitSettings` returned before the launcher's began; both cases are
explored. The program in front is the launcher, the clock or the screenshots, which call
`QuitSettings` when they end, or a game: there libmmenu calls `InitSettings` once, when it is loaded
(`src/src/libmmenu/mmenu.c:32`), and `QuitSettings` at the end of every `ShowMenu` (166). So `Quit`
leaves a game in `closed`, from which it may quit again, still the host if it was one. The launcher
also sleeps: `Sleep` (`SetMute(1)`), `Stop`, `Continue`, `Unmute` (`SetMute(0)`), then
`SetVolume(GetVolume())` in the steps that every change of the volume takes. A stopped keymon takes
no step, wherever it is.

`solo`, `heard`, `woken` and `unsaved` are histories that say when a property may be asked for: the
code promises nothing about two changes that overlap, and a sleep leaves the output unmuted at
volume 0 until the volume is next set (`woken`). `SetJack` has no caller and is left out. The second
`munmap` of an address that is not mapped any more fails without effect; and a game that quits its
settings reads nothing shared afterwards.

### AudioRing

One action per stretch of code between two points where the lock changes hands or the loop
turns: `Write`, `Lock`, `Batch`, `Wait`, `Relock`, `EndWait`, `Put`, `EndPut`, `Return`; the
device is `Callback`. Between two calls the main thread may resize (`Resize`), come back from
the options (`LeaveOptions`), restore the defaults or toggle fast forward. A frame is its
number, so order and loss are visible. `plat_sound_occupancy` reads the indices without the
lock; the model reads them once, together.

### Session

`files` is the card as programs see it and `disk` as it was at the last sync. A save is written
in three steps as the code does: opened and thereby emptied (`Begin`), written and closed
(`Fill`), synced (`Synced`); a crash or a power cut may come between any two. `mmenu` says
whether libmmenu.so was found; without it picoarch's own menu saves states. A core without
battery memory or a file that cannot be opened skips the write; that is the same as a game
whose save never changes and has no step of its own. A game that the core refuses (`LoadFails`)
ends as one that was played does, with the writing of the battery save.

### PowerSleep

A pass of the launcher is `BeginPass` (the clock is read) and `Poll` (events are taken, the branch
chosen in the settings runs, and the power logic decides with the old reading); `RestOfPass` is
the second half of a pass in which the player chose "sleep" from the settings. The sleep is
`EnterSleep`, `StopKeymon`, rounds of `Drain` and `Check`, `Continue`, `Unmute`, `GetVolume`,
`ExitSleep`. keymon handles one volume key in three steps (`KeymonRead`, `KeymonStore`,
`KeymonMute`) and may be stopped between any two. Times are kept as ages, which makes the state
finite without cutting behaviours: `late` is the age of the reading of the clock, at most `Stall`.
`longest`, `cause` and `overlapped` are histories. `button = "before"` is POWER held
since before this program: SDL reports neither its press nor, after it, its release.

### InputPoll

`PollPower` is the first stage of `pa_input_poll`: up to ten events are pulled, POWER is taken
out, the others are pushed back to the end of the queue. `InUpdate` is the second: in_sdl.c pulls
up to ten again, translates MENU with another button into a third key, and collects four at a
time until a key bound to the emulator ends it. New events may arrive between the two (each
pumps SDL's queue). The menu is the player's until `LeaveMenu`. The first menu turns SDL's key
repeats on and nobody turns them off (`src/src/libmmenu/mmenu.c:100`): from then on `Repeat` reports
the press of the button pressed last again while it is held, in the menu and in the game, except for
buttons whose keys are modifiers (`Modifiers`), which SDL does not repeat. The history `clean`
says that since everything was last in step no event was dropped, overtaken by a later one that it
matters to (of the same key; of any key, for MENU), or collected untranslated, and that MENU was
not repeated in the game: the code does all of this in a few corners (section 5), and the two
properties about keys ask for nothing then. Repeats of the other buttons leave it alone.
`MCMenuRepeat` is the same module with a player who waits until everything is handled, so that
nothing is lost or overtaken, and shows what a repeat of MENU does.

### Options

`phase` follows `main`: the core is opened, where it may announce its options (`Announce`, which
reads a config at once), the game becomes known (`Configure`), the core loads it and reads its
options (`LoadContent`), frames run (`Run`, which ends with the core asking whether anything
changed), with the menu and its page of options between them. `limit_frames` stands for the
emulator's own settings: it is in the same files and fast forward replaces it too. `chosen` is a
history of what the player chose or loaded. `set_defaults` and `config_read` call
`options_update_changed` for each option; the model calls it once for all, which leaves the same
values and the same `changed`, because `prev_value` of an option only moves when that option
differs. The text of the files, how a key is found in it, and the bindings of buttons are left out.

### Patch

A patch is a sequence of cells, one for each byte of the game and one for each number. Its author
is external and knows what each record is meant to do (`Overlay`, `Repeat`); the code's two passes
over it (`size`, `write`) then have to find that again from the cells alone. Files may be cut, have
a wrong checksum, or be for another dump. A checksum stands for what it is the checksum of. `marks`
is a history: where each record of a patch ends, and what the records up to there make of the
source. No action of the code reads it.

`MCPicoarch` explores input, options and patches side by side, choosing one at the start: they
are parts of one program that meet in no property.

### Install, Batmon, Clock

They run alone on the device and share no state; `MCBoot` explores them side by side, choosing
one at the start, because they are small.

`Install` has one action per command of MainUI and updater, `Extract` and `RemovePackage` being
cut into entries; `Cut` may fall anywhere and leaves a half-written entry (`Torn`) in an
extraction. What was written is taken to reach the card in the order it was written: MainUI never
syncs, so a card that reorders writes can do worse. The firmware is external, as updater and
MainUI use it.

`Batmon` has one action per access to a shared variable, because the program is built without
optimisation (`src/src/batmon/makefile`) and has no lock. `Clock` does what a key and the redraw
of the same pass do; the calendar (`DaysIn`, `IsTime`) is the reference it is compared with.

## 3. Runs

Counts are distinct states. `MC*.cfg` hold all bounds.

| Run | Configuration | States | Shows |
|---|---|---|---|
| `launcher` | `MCLauncher.cfg` | 122,033 | window, cursor, stack, saved cursor and resume are right from every restored place and in every order of keys; order, uniqueness and completeness of the recent games |
| `audio_ring` | `MCAudioRing.cfg` | 484,207 | the ring is a queue, frames stay in order, the nearest resampler does not drift, every call returns |
| `keymon` | `MCKeymon.cfg` | 234,731 | the forced power-off runs when, and only when, its buttons are down, a screenshot only then; repeat speed; in every order of key events |
| `settings` | `MCSharedSettings.cfg` | 10.8 million | with keymon first there is one object through every quit, crash and closed menu, and it is saved and audible as set, with sleeps that stop keymon anywhere |
| `session` | `MCSession.cfg` | 210,641 | saves survive, the queued slot is resumed, quitting returns |
| `power` | `MCPowerSleep.cfg` | 503,646 | a hold powers off and nothing else does, a tap sleeps or wakes, a sleep ends, and a volume above 0 is heard after it |
| `picoarch` | `MCPicoarch.cfg` | 4.67 million | the game sees what is held, the menu opens once per tap; a game starts with its own config, its core knows of every change, fast forward gives back what it replaced; patches give what was meant or nothing |
| `boot` | `MCBoot.cfg` | 143,078 | only complete and newest systems start and updates finish; batmon leaves for cause, leaves, and goes dark; the date set exists |
| `keymon_volume` | `MCKeymonVolume.cfg` | violation | other buttons move the volume |
| `settings_split` | `MCSharedSettingsSplit.cfg` | violation | two settings objects: the launcher made the first one, quits and starts again |
| `menu_repeat` | `MCMenuRepeat.cfg` | violation | a repeated press of MENU opens the menu before MENU is released |
| `install_cut` | `MCInstallCut.cfg` | violation | a cut in the removal of the package hands the card to the firmware's menu |

The type invariants are theorems where section 4 names them; in the modules without one `TypeOK`
documents the state and was checked while the module was written.

Bounds and why they are enough:

- `launcher`, the menu: 2 rows on screen, directories of 0 to 5 entries, 3 levels deep: shorter
  than, equal to and longer than the screen, with wraps, scrolls and letter jumps; each kind of
  entry (file, `.cue` folder, `.m3u` folder, collated consoles, collection, tool, vanished last
  path) is there. Every `.m3u` names a disc that exists (`BadM3u = {}`): with one missing
  `ResumesOwnGame` fails, see section 5. The recent games: 3 single games and a two-disc game,
  room for 3: the list overflows.
- `audio_ring`: buffers of 3 and 4 slots and "no sound", calls of up to 3 frames in batches of
  2, callbacks of up to 2 frames, 2 rounds of waiting instead of 10, 6 frames in all: every index
  wraps at least once, a call needs several batches, and the ring is full and empty in turn. The
  core's rate is 2, the device's 2 or 3 (`same_rate`): passed through, or stored twice every
  other frame; judder reduction moves either by 1.
  `MaxFrames` is the only bound that stops the system, so deadlock is not checked.
- `keymon`: 8 buttons, a volume of 0 to 3. After `shutdown` keymon takes no more events, so
  deadlock is not checked.
- `settings`: volumes 0 to 2, brightness 0 to 1, at most 2 objects: both ends of each scale and
  a change in between are in reach of one key; a second object is what a wrong unlink would make.
  Quits, menus and sleeps are not bounded.
  Deadlock is not checked because a killed keymon and the object bound may stop everything.
- `session`: one game with states and one without, one step of progress: an old save, a new
  save and no save are told apart. An automatic resume is possible once, from an older
  installation's `auto_resume.txt`.

- `power`: `Hold` 3 ticks, a sleep timer of 2, a charger that puts it back by 1, a pass late by
  up to 1, two events in the queue, volume 0 to 2. `Hold > 2 * Stall` is what makes a hold and a
  tap differ. Time and the mute meet in no property, so `MCPowerSleep` explores passing time
  without volume keys and volume keys without passing time.
- `picoarch`, input: B and L besides MENU and POWER, L being bound, with MENU, to fast forward and
  repeated by SDL, B being a modifier; pulls of two events instead of 10 and 4; two events of
  the player in the queue besides those put back. A game told to quit takes no more input, so
  deadlock is not checked. Options: the two that fast forward replaces and one that overrides.c
  hides, two values, two games; a card without configs, with a global one of an older version, or
  with a global one and one for the game that each lack something. Patches: dumps of one and two
  bytes, results of up to `MaxEnd` bytes and one record more, two patches of two records and one:
  a result can be longer, shorter and cut, and the second patch starts from a longer result than
  the first.
- `boot`: years 1899 to 1904 hold a century that is no leap year and a leap year; hours to 1 and no
  minutes, three fields that only wrap. A system of three entries, two versions, four cuts: one
  in each stage of an update and another in its repetition. A screen timeout of one tick. Each
  program ends, so deadlock is not checked.

Fairness: `AudioRing!FairSpec` asks that the main thread finishes the call it is in
(`WF(Writing)`): it is one thread of a running program and nothing but the lock stops it.
`WriteReturns` assumes of the device, only in the case where the limiter is on, that its clocked
thread gets the lock again and again in the moments the writer gives it up (`SF(Playing)`).
`Session!FairSpec` asks that a program that can take a step takes it; the player, crashes and
the power are not fair. In `power` the launcher takes its next step and time passes (`Tick`, where
time is explored); nothing is asked of the player, the charger or keymon. In `boot` a running
device executes its next command and somebody switches it on again (`Install!Fairness`), and
batmon's three threads run and time passes (`Batmon!Fairness`): they are threads of one process
with nothing to wait for but keys.

Deliberate slips in the modules (definitions commented as "Mutant of ...") show for every
property of a passing run that it can fail: a dropped guard, a wrong wrap, a missing sync.
Nothing else refers to them.

## 4. Proofs

All theorems hold for every value of the constants that satisfies the named assumptions.

- **Menu** (`LauncherProofs`): `MenuTypeCorrect`, `MenuWindowsOK`, `MenuStackFollowsCursor`,
  `MenuRestoreIsCurrent`, for any screen height above 0 and any listings in which no folder is
  listed twice. Lemmas bound each operation on one window; the inductive invariant `IInv` joins
  the types, `StackOK` (windows on existing rows, each directory the highlighted entry of its
  parent) and `SavedOK`: a cursor is saved at this depth or a lower one, and at this depth its
  window fits the directory behind the row it was saved for, without which a reopened directory
  could restore a window longer than its listing. `MenuReopenRestores` adds `ClosedOK`: the depth
  for which a place is saved is that of the directory left last. `MenuResumesOwnGame` holds when
  every `.m3u` names a disc that is there (`BadM3u = {}`, section 5), for any set of slot files;
  its invariant `ResumeInv` says that outside a frame `should_resume` is clear, that what is queued
  carries its own slot, and that once a frame was drawn `can_resume` and `slot_path` are those of
  the highlighted entry (`DrawnOK`). `GamesAssumption` only says that paths are not `None` and that
  the first disc of a folder is in that folder.
- **Recents** (`LauncherProofs`): `RecentsOnePerGame`, for any games, files and limit: `ListInv`
  says that neither the file nor the list has a path twice, that a disc is only changed to in a
  game with an `.m3u`, and that what is left to read meets what is listed only in such games.
  `RecentsNewestAtTop` and `RecentsNothingForgotten` hold when no `.m3u` is deleted (`M3uStays`;
  adding one to `Removable` in `MCLauncher.cfg` shows why). Their invariant `OrderInv` says that
  the list is sorted by the order of play at every line that is read, that each line left is of a
  game already listed or played no later than all that are, that the file is in order except for a
  disc of the game at its top (which `addRecent` leaves behind when the top is the `.m3u`), and
  that the disc changed to belongs to the game at the top of the file, whatever was cut off below
  it. `RecentsNothingForgotten` is about the other games: one that falls off a full list has as many
  others before it as the list has places, by counting the list, whose games are all different
  unless the game just started is in it twice.
- `LauncherImplements`, `BootImplements` and `PicoarchImplements` say that a behaviour of the composed module is one of
  each of its parts, so what is proved of the parts holds where the runs check it.
- **AudioRing** (`AudioRingProofs`): `AudioTypeCorrect`, `AudioRingOK`, `AudioKeepsRate`, for any
  lengths, batch sizes and rates. Inductive invariant: types, `RingOK`, `CallOK` (the lock is
  held exactly inside the loops, and a call is only under way when there is a buffer) and
  `RateOK` (the carried difference is less than one frame of either rate). The rate itself is a
  balance, `stored * InRate = consumed * adj + (diff - carried)`, kept by each of the three
  outcomes of one resampler call. `AudioImplementsFifo` proves the refinement: storing a frame is
  `Put` of `AudioFifo`, the callback `Take`, a new buffer `Resize`, all else a stutter; the lemmas
  read the slots from `buf_r` to `buf_w` as a sequence and say that a store appends to it and a
  callback drops its head. `DataOK` bounds the numbers of the frames of a call. `AudioInOrder` then
  follows from the queue: what waits stays in the order of the core, because a store only appends
  the frame at hand, and frames are passed over only by a resampler or when the writer drops them.
- **Keymon** (`KeymonProofs`): `KeymonForcePowerOff`, under the assumption that MENU is not held
  when keymon starts. The invariant `ChordOK` relates the two remembered flags to the buttons
  seen; the assumption is what makes the fallthrough of MENU's release into POWER's case
  harmless. `KeymonHalfSpeed` and `KeymonScreenshot` need no such assumption: in
  `HandsOK` a trigger's flag is set only while it is down, and a repeat that moved the volume has
  left the counter at 0.
- **SharedSettings** (`SharedSettingsProofs`): `SettingsTypeCorrect`; and with keymon first
  `SettingsReadsPopulated`, `SettingsOneObject`, `SettingsSavedWhenQuiet` (invariant `FirstInv`:
  keymon is the host of the one object, which it populates before the program in front starts, the
  program in front is never host, so none of its quits takes the name away, and whenever what is
  shared differs from the file somebody has a save still to do). `SettingsHeardAsSet` adds
  `HeardOK`: a change, or a sleep, that nothing overlaps has brought the output as far as its stage
  says, and with nothing under way the output is right, the mute after a sleep included.

- **Session** (`SessionProofs`): `SessionTypeCorrect`, `SessionSavesSurvive`,
  `SessionResumesQueuedSlot`, for any games, kinds of save, slots and any card at first. The file
  that is being written is empty or whole (`WritingOK`), which is what its sync then makes
  lasting, and `SavesSurvive` itself says of all others that the card has them as they were kept;
  the slot file is the queued game's until that game takes it (`QueuedOK`), which is what a crash
  between the launcher and the game could break.
- **PowerSleep** (`PowerSleepProofs`): `PowerTypeCorrect`, `PowerOffOnHold`, `AudibleAgain`,
  for any times with `Hold > 2 * Stall` and `Minute <= Delay`, any queue and any
  scale of the volume. `QueueOK` says that the last event of POWER in the queue tells how it is
  held; `TimesOK` relates the age of the hold to the launcher's own count of it: a press not yet
  seen is no older than the pass (`UnseenOK`), one that was seen is counted with the lag of a
  reading of the clock (`SeenOK`), through the sleep and out of it. `SoundInv` follows keymon's
  unfinished key through the stop: what it is about to do to the mute agrees with the volume, unless
  it was handled while the sleep ended (`overlapped`). Nothing is claimed about the sound during the
  sleep (section 5).
- **Install** (`BootProofs`): `BootLaunchesNewest`, for any entries, versions and number of
  cuts, given only that the launcher is one of the entries (`LauncherAssumption`). Inductive
  invariant: `SystemOK` (once a part of the package is gone the system is whole or not there),
  `PackageOK` (what the card has of the package at each command), `ProgressOK` (what was extracted
  so far is newest) and `LaunchOK` (updater goes on only without a package). The last is what a
  cut in the wrong place could break.
- **Batmon** (`BootProofs`): `BootLeavesForCause`, for any timeout. `GoneOK` follows the answer
  of axp_test from the question through `answer` to `is_charging`; `LeftOK` says why the loop was
  left, and that after the join nobody can change `launch` any more.
- **Clock** (`BootProofs`): `BootAppliesADate`, for all years allowed by `YearsAssumption`: the
  year after the last, the first and its replacement must not be leap years, which 2101, 1970 and
  2022 are not. February is measured before the year wraps; without the assumption the theorem is
  false. Invariant: what is shown is a date, unless the first redraw is still to come.
- **Options** (`PicoarchProofs`): `OptionsTypeCorrect`, `OptionsStartsAsStored`, `OptionsCoreKnows`,
  `OptionsFastForwardRestores`, for any options, values, games and files. The assumption that
  matters is that the core has the value an override asks for as frame skipping type; it is not
  assumed of the interval, and `CoreKnows` says so. The inductive invariant adds to the types and
  to `FastForwardRestores` that what fast forward remembers is what the player chose (`Kept`), that
  a difference between an option and its `prev_value` is always behind `changed`, except on the
  page that is still open (`Noticed`), that the core has read what it was not told of again
  (`Told`), and that between `Configure` and the first frame the options are those of the file
  (`Configured`).
- **InputPoll** (`PicoarchProofs`): `InputTypeCorrect`, `InputSeesHeldKeys`,
  `InputMenuOncePerTap`, for any set of buttons, any keymap in which no two buttons give the same
  key, and any size of SDL's queue and of the arrays that take from it. The difficulty is that
  what the player did is spread over the queue, that `translate_combo_event` writes events into it
  that stand for others, and that `collect_events` pushes events back behind later ones. `Following`
  says what all of this keeps: a run of states (`Path`), one event of the queue at a time, leads from
  what in_sdl.c knows (`StateOf`: keys down, keys down in combination, MENU) to what the player
  holds (`Final`), and a tap of MENU lies in it just when the menu is owed. `InputInv` asks for it
  in the game while `clean` holds (`InGame`); in the menu, whose keys are its own, only that no menu
  was opened too many and that no key of a combination is down (`MenuShown`). `Always` is what holds
  however much was lost: types, and that the buttons are those of `keystate`. A repeated press
  leads from each state to itself (`RepeatFollows`), which is why repeats of any button but MENU
  change nothing; to carry that, an event leads along a run also when it presses what is already
  down (`MovesPlain`, `MovesOut`). The lemmas follow a run through the two stages:
  `TranslatedPath` through the translation, whose events are another run between the same states,
  `RunSwap` and `PathSwap` through events put back behind others of which none is of the same key
  or MENU (`Overtaken`, the reason for `clean`), and `StopPath` through the end of a poll at an
  emulator's key. They are inductions over the queue, done with `WFMin`, which takes a set where
  the library's induction theorems take an operator: `Least` and `Reaches` say that a set of
  positions that holds 0 and with each position the next holds all, and `FoldExists` that a
  recursion over the queue has a function.
- **Patch** (`PicoarchProofs`): `PatchedAsMeantHolds`, for any games, bytes, number of patches and
  of records, and lengths. What a patch means is a fold over its records; the marks give its value after
  each, so that the authors' actions are the induction over it: each record lies between two marks, and is one that makes the target of the second
  from that of the first (`IpsStep`, `BpsStep`; `MadeIps` and `MadeBps` say so of a whole patch).
  The reader's invariant (`ReaderInv`) is that at the start of each record it stands at a mark:
  what it has written is that mark's target, padded to the size the first pass found or cut to it,
  and its relative offsets are the mark's. Only the last patch may be no good (`PatchesInv`); then
  it is an IPS patch without `EOF`, which the reader runs out of, or a BPS patch with a wrong
  checksum or of another dump, and the game is given as it is. `IpsStepRead`
  and `BpsStepRead` hold one record against what it was meant to do.

Only model-checked: `CursorVisible` (false for arbitrary listings: when a component of the last
path matched a row that is no folder, `loadLast` looks for the next one in the same listing from
its top, and the window only follows downwards), and liveness (`WriteReturns`, `QuitReturns`,
`PowerKeyAnswered`, `PowersOffAlone`, `UpdateFinishes`, `Leaves`, `DarkWhenIdle`), which the prover
does not reach.

## 5. Disagreements between code and documentation

With a run each (see `findings` in `PROJECT.json`): `keymon_volume`, `settings_split`,
`install_cut`, `menu_repeat`.

Further ones met while modelling, without a run:

- X on a folder with an `.m3u` whose first disc is missing sets `should_resume`
  (`src/src/common/api.c:1053`), opens the folder instead of a game, and nothing clears the flag:
  the next game opened with A is resumed. `api.c:24` says "only if can_resume==1". Setting
  `BadM3u <- MCM3uDirs` in `MCLauncher.cfg` shows it.
- A recent game can be lost one game early. With a full list whose top game had its disc changed,
  `hasRecents` lists the disc changed to and not the `.m3u` (`src/src/common/api.c:225-228`); when
  that same game is started again, `addRecent` looks for its `.m3u`, does not find it, takes the
  last game off the list and puts the `.m3u` at the top (731-736), so one game has two places. The
  next `hasRecents` shows it once and the list has a place free, but the game at its end is gone.
  `NothingForgotten` allows one game fewer in exactly this case (`TwoPlaces`).
- `exitSleep` unmutes whatever the volume is (`src/src/common/powerops.c:102`), so a device put to
  sleep at volume 0 wakes up unmuted, with no overlap of anything; `HeardAsSet` names the case
  (`woken`). A key that keymon handles while `exitSleep` runs, among them those pressed during the
  sleep, is undone or leaves mute and volume apart (`overlapped`, `heard`).
- `enterSleep` mutes and `fauxSleep` stops keymon later (`powerops.c:55-56`, 74-92); a volume key
  that keymon handles in between, with a `sync` in this window, unmutes the device before it sleeps.
  The models have both steps; no property says that a sleeping device is silent, because it need
  not be.
- libmmenu calls `QuitSettings` at the end of every `ShowMenu` and `InitSettings` once
  (`src/src/libmmenu/mmenu.c:32`, 166), and `is_host` is never reset
  (`src/src/libmsettings/msettings.c:33`, 80). A game that was the host unlinks the name each time
  its menu closes, by then perhaps the name of an object that another process made. With keymon
  first no game is ever host (`OneObjectWithKeymonFirst`). The repeated `munmap` is taken to have
  no effect: what the process may have mapped at the old address since is not modelled.
- Key repeats stay on after the first in-game menu (`mmenu.c:100`); `menu_repeat` shows the menu
  opened by one. Two more things follow. After such a menu MENU may stay among the keys that are
  down and in `prev_action`, and the next tap opens nothing; `clean` is false then. And each repeat
  of POWER, every 100 ms, sets `power_start` anew (`src/picoarch/source/core.c:567-568`), so that a
  hold begun after the first menu is not noticed while the polls keep up; in the model a second may
  pass at any time (`Elapse`), with or without a repeat.
- `l2_pressed & r2_pressed` in keymon is bitwise on 1 (pressed) and 2 (repeated)
  (`src/src/keymon/keymon.c:156`): a trigger pressed while the other is repeating takes a screenshot
  only once it repeats as well. `ScreenshotNeedsBoth` says that there is none without both.
- Leaving judder reduction keeps the rate it had adjusted (`src/picoarch/source/plat_sdl.c:814`):
  `adj_out_sample_rate` is only written by the writer that is left, and the log line at 823
  prints the device's rate. `KeepsRate` therefore speaks of the adjusted rate.
- `src/static/README.txt:23-25` promises that a game resumes after a power-off. `autoResume`
  (`src/src/common/api.c:931`) reads `auto_resume.txt`, and nothing in the repository writes it;
  `OldAuto` in `MCSession.cfg` stands for one left by an older installation.
- `src/static/README.txt:18-22` gives 30 seconds to sleep and 2 minutes to power-off; the code has
  one timer for both, off by default, of 15, 25 or 30 minutes (`src/src/common/powerops.c:27-37`).
- picoarch's input: a release of POWER drops the events pulled with it (`core.c:573`); events that
  `collect_events` puts back are translated a second time, and with MENU down that loses or
  mistranslates them (`in_sdl.c:541`, 362-374); the release of MENU that is pushed after the menu
  (`main.c:417-420`) opens a second menu when MENU went down again in the poll that opened the
  first; POWER arriving between the two pumps of one poll is taken for an unbound key and no hold
  is noticed; and when more than ten events wait, those that did not fit into the array are
  collected untranslated and before the ten that came first (`in_sdl.c:395`, 511). `clean` is false
  after each.
- A game that fails to load has its `.sav` overwritten with what the core's battery memory holds
  without a game, if the core has any then: `main` quits (`src/picoarch/source/main.c:647`), and
  quitting unloads and writes (`src/picoarch/source/core.c:755`). `LoadFails` is in the model; what
  is written is a save like any other to `SavesSurvive`.
- picoarch's options: `options_set_value` with a value the option does not have puts it to its
  default and does not tell the core (`options.c:344-357`), which fast forward meets with a core
  that lacks the interval; `config_find_value` also finds a key that is the end of another
  (`config.c:85-99`); the text it searches is `length` bytes without a terminator (`main.c:295`);
  options announced while the core is opened are read from the global config in the place of the
  game's (`core.c:49`), which `main` puts right afterwards.
- Patches: an IPS record that runs past the declared size is written as far as it fits, and its
  other bytes are read as the next record (`patch.c:208`); an empty or unreadable patch after
  another frees the other's bytes twice (`content.c:163-166`, 16-48).
- batmon: a key between the two halves of `screenOff` leaves `screen_on` set with a dark panel, and
  further keys do not light it before the timeout has come again; a key between `SDL_GetTicks()`
  and the read of `screen_start` makes the unsigned difference huge and darkens the screen at once
  (`src/src/batmon/batmon.c:29-32`, 112).
- A power cut in `rm -rf miyoo354` that has taken the archive and not MainUI is worse than
  `install_cut`: the next boot moves the finished system away, finds nothing to unzip and deletes
  it (`src/static/miyoo354/app/MainUI:31-71`). `UpdateFinishes` excludes it by `hurt`.
- An update interrupted twice leaves `.system_old` with a `.system` inside; the third `mv` fails
  and the archive is unpacked over the old system (`MainUI:33`). It is complete all the same.
- MENU held down while keymon starts defeats the forced power-off: its release falls through
  and clears `power_pressed` (`src/src/keymon/keymon.c:98-107`, `src/static/README.txt:54-55`).
  It is the assumption of `KeymonForcePowerOff`.
- A process that opens the settings object between its creation and its population reads zeros
  or is killed (`src/src/libmsettings/msettings.c:39-55`). `launch.sh` starts keymon in the
  background and does not wait; `keymon_first` is the case in which this cannot happen.
- "Restore defaults" clears `enable_drc` and leaves the judder-reducing writer in use until the
  options are left (`src/picoarch/source/menu.c:120-125`, against `menu.c:486`).
- POWER held in a game ends the game and returns to the launcher
  (`src/picoarch/source/main.c:368-371`); `src/static/README.txt:20-22` says it powers off.
- With libmmenu, "Save game" and "Load game" do nothing (`src/src/libmmenu/mmenu.c:121-124`), and
  picoarch's own items are taken away (`src/picoarch/source/menu.c:729-734`);
  `src/static/README.txt:15-17` lists quick access to save states.

## 6. Not modelled, and the plan

Left out for good: vendored code (libpicofe, libretro-common, the cores), drawing, scalers and
other pixel arithmetic, device registers, build files.

Left for later, in this order:

1. `Directories`: reading, sorting and collating listings; `Cheats`; button maps and the text of
   picoarch's config files.
2. keymon's thread that watches the charging chip; the index of the screenshots viewer.
