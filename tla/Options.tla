-------------------------------- MODULE Options --------------------------------
(***************************************************************************)
(* The options of a core in picoarch: announced by the core while it is    *)
(* opened or loaded, read from the config file of the game or else from    *)
(* the global one, changed in the menu, replaced while fast forward is on, *)
(* written back to either file, and read again by the core when it is told *)
(* that they changed.                                                      *)
(*                                                                         *)
(* Of the emulator's own settings limit_frames stands for all: it is in    *)
(* the same files and fast forward replaces it too.                        *)
(***************************************************************************)
EXTENDS Integers

CONSTANTS
  Keys,           \* the options of the core
  Values,         \* what an option may be set to
  Default,        \* their default values
  Blocked,        \* the options hidden by overrides.c
  Type, Interval, \* override->fast_forward: the options that fast forward replaces
  TypeValue, IntervalValue,   \* and the values it asks for; the core may not have the interval
  Games,
  OldFiles        \* the config files that may be on the card at first

Global       == "picoarch.cfg"
Limit        == "limit_frames"

ASSUME OptionsAssumption ==
  /\ Default \in [Keys -> Values] /\ Blocked \subseteq Keys
  /\ {Type, Interval} \subseteq Keys \ Blocked /\ Type # Interval
  /\ {"0", "1"} \subseteq Values
  /\ TypeValue \in Values    \* of the type an override only asks for what its core has
  /\ Limit \notin Keys /\ Global \notin Games
  /\ \A files \in OldFiles :
       /\ DOMAIN files \subseteq Games \cup {Global}
       /\ \A f \in DOMAIN files : Limit \in DOMAIN files[f] => files[f][Limit] \in {"0", "1"}

VARIABLES
  phase,           \* off, open, init, loaded, play, menu, page (the core's options in the menu)
  game,            \* the game being played
  core_options,    \* value, prev_value of each option; changed
  limit_frames,
  config_override, \* "Loaded: game config"
  files,           \* the config files: function from those that exist to what they hold
  fast_forward,
  was,             \* frameskip_style_was, max_frameskip_was, limit_frames_was
  seen,            \* what the core last read
  chosen           \* history: options and limiter as the player chose or loaded them

speed == <<fast_forward, was>>
vars  == <<phase, game, core_options, limit_frames, config_override, files, speed, seen, chosen>>

OptionSet == [value : [Keys -> Values], prev_value : [Keys -> Values], changed : BOOLEAN]

TypeOK ==
  /\ phase \in {"off", "open", "init", "loaded", "play", "menu", "page"}
  /\ game \in Games
  /\ core_options \in OptionSet
  /\ limit_frames \in {"0", "1"}
  /\ config_override \in BOOLEAN /\ fast_forward \in BOOLEAN
  /\ was \in [type : Values, interval : Values, limit : {"0", "1"}]
  /\ seen \in [Keys -> Values]
  /\ chosen \in [value : [Keys -> Values], limit : {"0", "1"}]
  /\ DOMAIN files \subseteq Games \cup {Global}
  /\ \A f \in DOMAIN files : Limit \in DOMAIN files[f] => files[f][Limit] \in {"0", "1"}
------------------------------------------------------------------------------
(* options.c and config.c, on a record like core_options.                   *)

\* Mutant of options_update_changed: what is noticed for the second time replaces the first.
UpdateForgets(s) ==
  [s EXCEPT !.prev_value = s.value, !.changed = s.value # s.prev_value]

options_update_changed(s) ==
  [s EXCEPT !.prev_value = s.value, !.changed = s.changed \/ s.value # s.prev_value]

\* A value the option does not have leaves its default, which nobody is told of.
options_set_value(s, key, v) ==
  IF v \in Values THEN options_update_changed([s EXCEPT !.value[key] = v])
                  ELSE [s EXCEPT !.value[key] = Default[key]]

options_set_value_index(s, key, v) == options_update_changed([s EXCEPT !.value[key] = v])

\* options_free, then options_init: nothing is pending for the core any more.
options_init == [value |-> Default, prev_value |-> Default, changed |-> FALSE]

\* The part of set_defaults that is about options.
Defaults(s) == options_update_changed([s EXCEPT !.value = Default])

\* config_read over the options: one that the file lacks, or that is blocked, stays as it is,
\* one with a value that is not in its list gets its default.
config_read(s, file) ==
  options_update_changed([s EXCEPT !.value = [k \in Keys |->
    CASE k \notin DOMAIN file \ Blocked -> s.value[k]
      [] k \in DOMAIN file \ Blocked /\ file[k] \in Values -> file[k]
      [] OTHER -> Default[k]]])

\* The file alloc_config_buffer opens: the first name, or else the global one.
NoFile == [k \in {} |-> "0"]
ConfigFile(name) ==
  IF name \in DOMAIN files THEN files[name]
  ELSE IF Global \in DOMAIN files THEN files[Global]
  ELSE NoFile

load_config(s, limit, name) ==
  LET file == ConfigFile(name)
  IN  /\ core_options' = config_read(s, file)
      /\ limit_frames' = IF Limit \in DOMAIN file THEN file[Limit] ELSE limit
      /\ config_override' = (name \in DOMAIN files)

\* config_write: every option that is not blocked.
Written ==
  [k \in (Keys \ Blocked) \cup {Limit} |-> IF k = Limit THEN limit_frames ELSE core_options.value[k]]

save_config(name) ==
  files' = [f \in DOMAIN files \cup {name} |-> IF f = name THEN Written ELSE files[f]]
------------------------------------------------------------------------------
(* main, until the game runs.                                               *)

Start(g) ==
  /\ phase = "off" /\ phase' = "open" /\ game' = g
  /\ UNCHANGED <<core_options, limit_frames, config_override, files, speed, seen, chosen>>

\* The core announces its options when it is opened, initialised or loaded, and pa_environment
\* reads them from the file at once.  There is no content yet while the core is opened:
\* config_file_name then has the global file for the game's.
Announce ==
  /\ phase \in {"open", "init"}
  /\ load_config(options_init, limit_frames, IF phase = "open" THEN Global ELSE game)
  /\ UNCHANGED <<phase, game, files, speed, seen, chosen>>

\* Mutant of Configure: load_config alone.
ConfigureOver ==
  /\ phase = "open" /\ phase' = "init"
  /\ load_config(core_options, "1", game)
  /\ UNCHANGED <<game, files, speed, seen, chosen>>

\* set_defaults and load_config, now for the game.
Configure ==
  /\ phase = "open" /\ phase' = "init"
  /\ load_config(Defaults(core_options), "1", game)
  /\ UNCHANGED <<game, files, speed, seen, chosen>>

\* core_load and core_load_content: the core reads its options.
LoadContent ==
  /\ phase = "init" /\ phase' = "loaded"
  /\ seen' = core_options.value
  /\ chosen' = [value |-> core_options.value, limit |-> limit_frames]
  /\ UNCHANGED <<game, core_options, limit_frames, config_override, files, speed>>

\* A frame: the core asks whether its options changed (options_changed), and if so reads them.
Run ==
  /\ phase \in {"loaded", "play"} /\ phase' = "play"
  /\ core_options' = [core_options EXCEPT !.changed = FALSE]
  /\ seen' = IF core_options.changed THEN core_options.value ELSE seen
  /\ UNCHANGED <<game, limit_frames, config_override, files, speed, chosen>>

\* The game ends, by the menu, a held POWER or a crash; the next one is a new process.
Fresh ==
  /\ core_options' = options_init /\ limit_frames' = "0" /\ config_override' = FALSE
  /\ fast_forward' = FALSE
  /\ was' = [type |-> Default[Type], interval |-> Default[Interval], limit |-> "0"]
  /\ seen' = Default /\ chosen' = [value |-> Default, limit |-> "0"]

Quit ==
  /\ phase # "off" /\ phase' = "off"
  /\ Fresh /\ UNCHANGED <<game, files>>
------------------------------------------------------------------------------
(* toggle_fast_forward.                                                     *)

FastForwardOn ==
  /\ fast_forward' = TRUE
  /\ was' = [type |-> core_options.value[Type], interval |-> core_options.value[Interval],
             limit |-> limit_frames]
  /\ core_options' = options_set_value(options_set_value(core_options, Type, TypeValue),
                                       Interval, IntervalValue)
  /\ limit_frames' = "0"

\* Mutant of FastForwardOff: only the limiter comes back.
FastForwardOffLimit ==
  /\ fast_forward' = FALSE /\ UNCHANGED <<was, core_options>>
  /\ limit_frames' = was.limit

FastForwardOff ==
  /\ fast_forward' = FALSE /\ UNCHANGED was
  /\ core_options' = options_set_value_index(
                       options_set_value_index(core_options, Type, was.type),
                       Interval, was.interval)
  /\ limit_frames' = was.limit

Toggle ==
  /\ phase = "play"
  /\ IF fast_forward THEN FastForwardOff ELSE FastForwardOn
  /\ UNCHANGED <<phase, game, config_override, files, seen, chosen>>
------------------------------------------------------------------------------
(* The menu.  Fast forward is forced off before it opens.                   *)

OpenMenu ==
  /\ phase = "play" /\ phase' = "menu"
  /\ IF fast_forward THEN FastForwardOff ELSE UNCHANGED <<core_options, limit_frames, speed>>
  /\ UNCHANGED <<game, config_override, files, seen, chosen>>

OpenPage ==
  /\ phase = "menu" /\ phase' = "page"
  /\ UNCHANGED <<game, core_options, limit_frames, config_override, files, speed, seen, chosen>>

\* The menu writes through a pointer to the option's value.
ChangeOption(k, v) ==
  /\ phase = "page" /\ k \notin Blocked
  /\ core_options' = [core_options EXCEPT !.value[k] = v]
  /\ chosen' = [chosen EXCEPT !.value[k] = v]
  /\ UNCHANGED <<phase, game, limit_frames, config_override, files, speed, seen>>

LeavePage ==
  /\ phase = "page" /\ phase' = "menu"
  /\ core_options' = options_update_changed(core_options)
  /\ UNCHANGED <<game, limit_frames, config_override, files, speed, seen, chosen>>

RestoreDefaults ==
  /\ phase = "menu"
  /\ core_options' = Defaults(core_options) /\ limit_frames' = "1"
  /\ chosen' = [value |-> Default, limit |-> "1"]
  /\ UNCHANGED <<phase, game, config_override, files, speed, seen>>

SaveGlobal ==
  /\ phase = "menu" /\ save_config(Global)
  /\ UNCHANGED <<phase, game, core_options, limit_frames, config_override, speed, seen, chosen>>

SaveGame ==
  /\ phase = "menu" /\ save_config(game) /\ config_override' = TRUE
  /\ UNCHANGED <<phase, game, core_options, limit_frames, speed, seen, chosen>>

\* The item is there while config_override is set; the options stay as they are.
RemoveGame ==
  /\ phase = "menu" /\ config_override /\ config_override' = FALSE
  /\ files' = [f \in DOMAIN files \ {game} |-> files[f]]
  /\ UNCHANGED <<phase, game, core_options, limit_frames, speed, seen, chosen>>

LeaveMenu ==
  /\ phase = "menu" /\ phase' = "play"
  /\ UNCHANGED <<game, core_options, limit_frames, config_override, files, speed, seen, chosen>>
------------------------------------------------------------------------------
Init ==
  /\ phase = "off" /\ game \in Games
  /\ core_options = options_init /\ limit_frames = "0" /\ config_override = FALSE
  /\ files \in OldFiles
  /\ fast_forward = FALSE /\ was = [type |-> Default[Type], interval |-> Default[Interval], limit |-> "0"]
  /\ seen = Default /\ chosen = [value |-> Default, limit |-> "0"]

InMenu ==
  \/ OpenPage \/ LeavePage \/ LeaveMenu
  \/ \E k \in Keys, v \in Values : ChangeOption(k, v)
  \/ RestoreDefaults \/ SaveGlobal \/ SaveGame \/ RemoveGame

Next ==
  \/ \E g \in Games : Start(g)
  \/ Announce \/ Configure \/ LoadContent \/ Run \/ Quit
  \/ Toggle \/ OpenMenu \/ InMenu

Spec == Init /\ [][Next]_vars
------------------------------------------------------------------------------
(* Properties.                                                              *)

\* A game starts with what its own config file holds, or the global one when it has none: no
\* option is left over from the other file, or from a core that announced its options before
\* the game was known; what no file gives, and what overrides.c blocks, is at its default.
Stored(k) ==
  LET file == ConfigFile(game)
  IN  IF k \in DOMAIN file \ Blocked /\ file[k] \in Values THEN file[k] ELSE Default[k]

StartsAsStored ==
  phase = "loaded" => \A k \in Keys : core_options.value[k] = Stored(k)

\* A core that is not told of a change has the options as they are - fast forward included,
\* unless the core does not have the interval it asks for.
CoreKnows ==
  phase \in {"loaded", "play"} /\ ~core_options.changed
    /\ (fast_forward => IntervalValue \in Values)
      => seen = core_options.value

\* Outside fast forward options and limiter are as the player chose them; the menu, where they
\* are shown and saved, is always outside.
FastForwardRestores ==
  /\ phase \in {"loaded", "play", "menu", "page"} /\ ~fast_forward
       => core_options.value = chosen.value /\ limit_frames = chosen.limit
  /\ phase \in {"menu", "page"} => ~fast_forward
===============================================================================
