---------------------------- MODULE PicoarchProofs ----------------------------
(* The options of a core: where they come from, what the core knows of them, and what fast   *)
(* forward leaves behind, for every core, every set of config files and every order of       *)
(* menus, fast forward and frames.  The buttons: the game sees those that are held, and a    *)
(* tap of MENU opens the menu once, for every keymap, every queue of events and every order  *)
(* of presses, releases and polls.  The patches beside a game: the core gets what they were  *)
(* made to give or the game as it is, for every game and every sequence of patches.          *)
EXTENDS MCPicoarch, Sequences, WellFoundedInduction, TLAPS

\* Each of the three parts of the composed module behaves as its own module says.
THEOREM PicoarchImplements == MCSpec => I!Spec /\ Spec /\ P!Spec
<1>1. MCInit => I!Init /\ Init /\ P!Init
  BY DEF MCInit
<1>2. [MCNext]_all => [I!Next]_I!vars /\ [Next]_vars /\ [P!Next]_P!vars
  <2> SUFFICES ASSUME [MCNext]_all PROVE [I!Next]_I!vars /\ [Next]_vars /\ [P!Next]_P!vars
    OBVIOUS
  <2>1. UNCHANGED input => UNCHANGED I!vars
    BY DEF input, I!vars, I!history
  <2>2. UNCHANGED patch => UNCHANGED P!vars
    BY DEF patch, P!vars, P!author, P!bps
  <2>3. CASE I!Next /\ UNCHANGED <<vars, patch>>
    BY <2>2, <2>3
  <2>4. CASE Next /\ UNCHANGED <<input, patch>>
    BY <2>1, <2>2, <2>4
  <2>5. CASE P!Next /\ UNCHANGED <<vars, input>>
    BY <2>1, <2>5
  <2>6. CASE UNCHANGED all
    BY <2>1, <2>2, <2>6 DEF all
  <2> QED BY <2>3, <2>4, <2>5, <2>6 DEF MCNext
<1> QED BY <1>1, <1>2, PTL DEF MCSpec, I!Spec, Spec, P!Spec

------------------------------------------------------------------------------
(* The options. *)

\* Outside the page of options every change is noticed (prev_value), but for an interval that
\* the core does not have.
Noticed ==
  phase # "page" =>
    /\ \A key \in Keys \ {Interval} : core_options.value[key] = core_options.prev_value[key]
    /\ (fast_forward => IntervalValue \in Values) => core_options.value = core_options.prev_value

\* What was noticed and not announced is what the core has.
Told ==
  phase \in {"loaded", "play", "menu", "page"} /\ ~core_options.changed =>
    \/ seen = core_options.prev_value
    \/ fast_forward /\ seen = core_options.value

\* While it is on, fast forward holds what it replaced.
Kept ==
  fast_forward =>
    /\ phase = "play"
    /\ was = [type |-> chosen.value[Type], interval |-> chosen.value[Interval],
              limit |-> chosen.limit]
    /\ \A key \in Keys \ {Type, Interval} : core_options.value[key] = chosen.value[key]

\* From set_defaults and load_config on, the options are the stored ones.
Configured ==
  phase \in {"init", "loaded"} => \A key \in Keys : core_options.value[key] = Stored(key)

IInv == TypeOK /\ Noticed /\ Told /\ Kept /\ FastForwardRestores /\ Configured
------------------------------------------------------------------------------
(* The functions of options.c and config.c.                                 *)

\* options_update_changed notices every change, and forgets none that is not announced.
LEMMA UpdateNotices ==
  ASSUME NEW s \in OptionSet
  PROVE  LET u == options_update_changed(s) IN
         /\ u \in OptionSet /\ u.value = s.value /\ u.prev_value = s.value
         /\ u.changed <=> s.changed \/ s.value # s.prev_value
<1> DEFINE c == (s.changed \/ s.value # s.prev_value)
<1>1. /\ s.value \in [Keys -> Values] /\ s.prev_value \in [Keys -> Values]
      /\ s = [value |-> s.value, prev_value |-> s.prev_value, changed |-> s.changed]
  BY DEF OptionSet
<1>2. c \in BOOLEAN
  OBVIOUS
<1>3. options_update_changed(s) = [s EXCEPT !.prev_value = s.value, !.changed = c]
  BY Zenon DEF options_update_changed
<1> HIDE DEF c
<1>4. options_update_changed(s) = [value |-> s.value, prev_value |-> s.value, changed |-> c]
  BY <1>1, <1>2, <1>3
<1>5. options_update_changed(s) \in OptionSet
  BY <1>1, <1>2, <1>4 DEF OptionSet
<1>6. options_update_changed(s).changed = c
  BY <1>4
<1>7. options_update_changed(s).value = s.value /\ options_update_changed(s).prev_value = s.value
  BY <1>4
<1> QED BY <1>5, <1>6, <1>7, Zenon DEF c

\* An option set to a value it has is noticed.
LEMMA SetNotices ==
  ASSUME NEW s \in OptionSet, NEW key \in Keys, NEW v \in Values
  PROVE  LET u == options_set_value_index(s, key, v) IN
         /\ u \in OptionSet /\ u.value = [s.value EXCEPT ![key] = v] /\ u.prev_value = u.value
         /\ u.changed <=> s.changed \/ u.value # s.prev_value
<1> DEFINE t == [s EXCEPT !.value[key] = v]
<1>1. t \in OptionSet /\ t.value = [s.value EXCEPT ![key] = v] /\ t.prev_value = s.prev_value
  BY DEF OptionSet
<1>2. t.changed = s.changed
  BY DEF OptionSet
<1>3. options_set_value_index(s, key, v) = options_update_changed(t)
  BY DEF options_set_value_index
<1> HIDE DEF t
<1>4. LET u == options_update_changed(t) IN
      /\ u \in OptionSet /\ u.value = t.value /\ u.prev_value = t.value
      /\ u.changed <=> t.changed \/ t.value # t.prev_value
  BY <1>1, UpdateNotices
<1> QED BY <1>1, <1>2, <1>3, <1>4, Zenon

\* An option set to a value it does not have gets its default, unnoticed.
LEMMA SetInvalid ==
  ASSUME NEW s \in OptionSet, NEW key \in Keys, NEW v, v \notin Values
  PROVE  LET u == options_set_value(s, key, v) IN
         /\ u \in OptionSet /\ u.value = [s.value EXCEPT ![key] = Default[key]]
         /\ u.prev_value = s.prev_value /\ u.changed = s.changed
<1>1. options_set_value(s, key, v) = [s EXCEPT !.value[key] = Default[key]]
  BY DEF options_set_value
<1>2. Default[key] \in Values
  BY OptionsAssumption
<1> QED BY <1>1, <1>2 DEF OptionSet

\* config_read gives every option the value of the file, or leaves or resets it.
LEMMA ReadsFile ==
  ASSUME NEW s \in OptionSet, NEW file
  PROVE  LET u == config_read(s, file) IN
         /\ u \in OptionSet /\ u.prev_value = u.value
         /\ \A key \in Keys : u.value[key] =
              IF key \in DOMAIN file \ Blocked
                THEN (IF file[key] \in Values THEN file[key] ELSE Default[key])
                ELSE s.value[key]
<1> DEFINE g == [key \in Keys |->
                   IF key \in DOMAIN file \ Blocked
                     THEN (IF file[key] \in Values THEN file[key] ELSE Default[key])
                     ELSE s.value[key]]
           t == [s EXCEPT !.value = g]
<1>1. g \in [Keys -> Values]
  BY OptionsAssumption DEF OptionSet
<1>2. config_read(s, file) = options_update_changed(t)
  BY DEF config_read
<1> HIDE DEF g
<1>3. t \in OptionSet /\ t.value = g
  BY <1>1 DEF OptionSet
<1> HIDE DEF t
<1>4. LET u == options_update_changed(t) IN
      u \in OptionSet /\ u.value = g /\ u.prev_value = g
  BY <1>3, UpdateNotices
<1> QED BY <1>2, <1>4 DEF g
------------------------------------------------------------------------------
(* toggle_fast_forward.                                                     *)

\* Fast forward replaces two options; what it does not announce it does not change.
LEMMA OnReplaces ==
  ASSUME IInv, FastForwardOn
  PROVE  /\ core_options' \in OptionSet
         /\ \A key \in Keys \ {Type, Interval} : core_options'.value[key] = core_options.value[key]
         /\ \A key \in Keys \ {Interval} : core_options'.value[key] = core_options'.prev_value[key]
         /\ IntervalValue \in Values => core_options'.value = core_options'.prev_value
         /\ ~core_options'.changed =>
              ~core_options.changed /\ core_options'.prev_value = core_options.prev_value
<1> DEFINE s == core_options
           t == options_set_value(s, Type, TypeValue)
           u == options_set_value(t, Interval, IntervalValue)
<1>1. s \in OptionSet /\ Type \in Keys /\ Interval \in Keys /\ TypeValue \in Values /\ Type # Interval
  BY OptionsAssumption DEF IInv, TypeOK
<1>2. t = options_set_value_index(s, Type, TypeValue)
  BY <1>1 DEF options_set_value, options_set_value_index
<1> HIDE DEF t
<1>3. /\ t \in OptionSet /\ t.value = [s.value EXCEPT ![Type] = TypeValue] /\ t.prev_value = t.value
      /\ t.changed <=> s.changed \/ t.value # s.prev_value
  BY <1>1, <1>2, SetNotices
<1>4. core_options' = u
  BY DEF FastForwardOn, t
<1> HIDE DEF u
<1>5. s.value \in [Keys -> Values] /\ t.value \in [Keys -> Values]
  BY <1>1, <1>3 DEF OptionSet
<1>6. CASE IntervalValue \in Values
  <2>1. u = options_set_value_index(t, Interval, IntervalValue)
    BY <1>6 DEF u, options_set_value, options_set_value_index
  <2>2. /\ u \in OptionSet /\ u.value = [t.value EXCEPT ![Interval] = IntervalValue]
        /\ u.prev_value = u.value
        /\ u.changed <=> t.changed \/ u.value # t.prev_value
    BY <1>1, <1>3, <1>6, <2>1, SetNotices
  <2>3. ~u.changed => ~s.changed /\ u.prev_value = s.prev_value
    BY <1>3, <2>2, Zenon
  <2>4. \A key \in Keys \ {Type, Interval} : u.value[key] = s.value[key]
    BY <1>1, <1>3, <1>5, <2>2
  <2> QED BY <1>4, <2>2, <2>3, <2>4
<1>7. CASE IntervalValue \notin Values
  <2>1. /\ u \in OptionSet /\ u.value = [t.value EXCEPT ![Interval] = Default[Interval]]
        /\ u.prev_value = t.prev_value /\ u.changed = t.changed
    BY <1>1, <1>3, <1>7, SetInvalid DEF u
  <2>2. ~u.changed => ~s.changed /\ u.prev_value = s.prev_value
    BY <1>3, <2>1, Zenon
  <2>3. /\ \A key \in Keys \ {Type, Interval} : u.value[key] = s.value[key]
        /\ \A key \in Keys \ {Interval} : u.value[key] = u.prev_value[key]
    BY <1>1, <1>3, <1>5, <2>1
  <2> QED BY <1>4, <1>7, <2>1, <2>2, <2>3
<1> QED BY <1>6, <1>7

\* Switching it off brings back what the player chose, and the core will know.
LEMMA OffRestores ==
  ASSUME IInv, fast_forward, FastForwardOff
  PROVE  /\ core_options' \in OptionSet
         /\ core_options'.value = chosen.value /\ core_options'.prev_value = chosen.value
         /\ limit_frames' = chosen.limit
         /\ ~core_options'.changed => seen = chosen.value
<1> DEFINE s == core_options
           t == options_set_value_index(s, Type, was.type)
           u == options_set_value_index(t, Interval, was.interval)
<1>1. /\ s \in OptionSet /\ Type \in Keys /\ Interval \in Keys /\ Type # Interval
      /\ chosen.value \in [Keys -> Values] /\ was.type \in Values /\ was.interval \in Values
  BY OptionsAssumption DEF IInv, TypeOK
<1>2. /\ t \in OptionSet /\ t.value = [s.value EXCEPT ![Type] = was.type] /\ t.prev_value = t.value
      /\ t.changed <=> s.changed \/ t.value # s.prev_value
  BY <1>1, SetNotices
<1> HIDE DEF t
<1>3. t \in OptionSet /\ Interval \in Keys /\ was.interval \in Values
  BY <1>1, <1>2
<1>4. /\ u \in OptionSet /\ u.value = [t.value EXCEPT ![Interval] = was.interval]
      /\ u.prev_value = u.value
      /\ u.changed <=> t.changed \/ u.value # t.prev_value
  BY <1>3, SetNotices
<1>5. core_options' = u
  BY DEF FastForwardOff, t
<1> HIDE DEF u
<1>6. /\ s.value \in [Keys -> Values] /\ s.prev_value \in [Keys -> Values]
      /\ t.value \in [Keys -> Values] /\ u.value \in [Keys -> Values]
  BY <1>1, <1>2, <1>4 DEF OptionSet
<1>7. /\ was.type = chosen.value[Type] /\ was.interval = chosen.value[Interval]
      /\ was.limit = chosen.limit
      /\ \A key \in Keys \ {Type, Interval} : s.value[key] = chosen.value[key]
  BY DEF IInv, Kept
<1>8. u.value = chosen.value
  <2>1. u.value[Interval] = chosen.value[Interval]
    BY <1>1, <1>4, <1>6, <1>7
  <2>2. \A key \in Keys \ {Interval} : u.value[key] = t.value[key]
    BY <1>1, <1>4, <1>6
  <2>3. t.value[Type] = chosen.value[Type]
    BY <1>1, <1>2, <1>6, <1>7
  <2>4. \A key \in Keys \ {Type, Interval} : t.value[key] = chosen.value[key]
    BY <1>1, <1>2, <1>6, <1>7
  <2>5. \A key \in Keys : u.value[key] = chosen.value[key]
    BY <2>1, <2>2, <2>3, <2>4
  <2> QED BY <1>1, <1>6, <2>5
<1>9. ASSUME ~u.changed PROVE seen = u.value
  <2>1. t.value = u.value /\ t.value = s.prev_value /\ ~s.changed
    BY <1>2, <1>4, <1>9, Zenon
  <2>2. seen = s.prev_value \/ seen = s.value
    BY <2>1 DEF IInv, Told, Kept
  <2>3. \A key \in Keys \ {Interval} : s.value[key] = s.prev_value[key]
    BY DEF IInv, Noticed, Kept
  <2>4. s.value[Type] = t.value[Type]
    BY <1>1, <2>1, <2>3
  <2>5. s.value = t.value
    BY <1>1, <1>2, <1>6, <2>4
  <2> QED BY <2>1, <2>2, <2>5
<1>10. limit_frames' = chosen.limit
  BY <1>7 DEF FastForwardOff
<1> QED BY <1>4, <1>5, <1>8, <1>9, <1>10
------------------------------------------------------------------------------
(* The steps of picoarch.                                                   *)

LEMMA InitialOptions == options_init \in OptionSet /\ options_init.value = Default
                        /\ options_init.prev_value = Default
  BY OptionsAssumption DEF options_init, OptionSet

\* load_config over defaults: the file first, then the defaults.
LEMMA LoadsFile ==
  ASSUME TypeOK, NEW s \in OptionSet, s.value = Default, NEW limit \in {"0", "1"},
         NEW name, load_config(s, limit, name)
  PROVE  /\ core_options' \in OptionSet /\ core_options'.prev_value = core_options'.value
         /\ \A key \in Keys : core_options'.value[key] =
              IF key \in DOMAIN ConfigFile(name) \ Blocked /\ ConfigFile(name)[key] \in Values
                THEN ConfigFile(name)[key] ELSE Default[key]
         /\ limit_frames' \in {"0", "1"} /\ config_override' \in BOOLEAN
<1> DEFINE file == ConfigFile(name)
<1>1. core_options' = config_read(s, file)
  BY DEF load_config
<1>2. limit_frames' = IF Limit \in DOMAIN file THEN file[Limit] ELSE limit
  BY DEF load_config
<1>3. config_override' \in BOOLEAN
  BY DEF load_config
<1>4. Limit \in DOMAIN file => file[Limit] \in {"0", "1"}
  <2>1. CASE name \in DOMAIN files
    BY <2>1 DEF ConfigFile, TypeOK
  <2>2. CASE name \notin DOMAIN files /\ Global \in DOMAIN files
    BY <2>2 DEF ConfigFile, TypeOK
  <2>3. CASE name \notin DOMAIN files /\ Global \notin DOMAIN files
    BY <2>3 DEF ConfigFile, NoFile
  <2> QED BY <2>1, <2>2, <2>3
<1> HIDE DEF file
<1>5. LET u == config_read(s, file) IN
      /\ u \in OptionSet /\ u.prev_value = u.value
      /\ \A key \in Keys : u.value[key] =
           IF key \in DOMAIN file \ Blocked
             THEN (IF file[key] \in Values THEN file[key] ELSE Default[key])
             ELSE s.value[key]
  BY ReadsFile
<1>6. \A key \in Keys : core_options'.value[key] =
        IF key \in DOMAIN file \ Blocked /\ file[key] \in Values THEN file[key] ELSE Default[key]
  BY <1>1, <1>5
<1>7. limit_frames' \in {"0", "1"}
  BY <1>2, <1>4
<1> QED BY <1>1, <1>3, <1>5, <1>6, <1>7 DEF file

LEMMA InitOK == Init => IInv
<1> SUFFICES ASSUME Init PROVE IInv
  OBVIOUS
<1>1. core_options \in OptionSet /\ core_options.value = Default /\ core_options.prev_value = Default
  BY InitialOptions DEF Init
<1>2. /\ phase = "off" /\ game \in Games /\ files \in OldFiles /\ fast_forward = FALSE
      /\ seen = Default /\ chosen = [value |-> Default, limit |-> "0"]
      /\ was = [type |-> Default[Type], interval |-> Default[Interval], limit |-> "0"]
  BY DEF Init
<1>3. TypeOK
  <2>1. config_override \in BOOLEAN /\ limit_frames \in {"0", "1"}
    BY DEF Init
  <2> QED BY <1>1, <1>2, <2>1, OptionsAssumption DEF TypeOK
<1>4. Noticed /\ Told /\ Kept /\ FastForwardRestores /\ Configured
  BY <1>1, <1>2 DEF Noticed, Told, Kept, FastForwardRestores, Configured
<1> QED BY <1>3, <1>4 DEF IInv

\* Before the game runs.
LEMMA LoadingOK ==
  ASSUME IInv, \/ Announce \/ Configure \/ LoadContent \/ Quit \/ \E g \in Games : Start(g)
  PROVE  IInv'
<1>1. TypeOK /\ (phase # "play" => ~fast_forward)
  BY DEF IInv, Kept
<1>2. CASE \E g \in Games : Start(g)
  <2>1. /\ phase' = "open" /\ game' \in Games
        /\ UNCHANGED <<core_options, limit_frames, config_override, files, fast_forward, was, seen,
                       chosen>>
        /\ ~fast_forward /\ phase = "off"
    BY <1>1, <1>2 DEF Start, speed
  <2>2. TypeOK'
    BY <2>1 DEF IInv, TypeOK
  <2>3. Noticed' /\ Told' /\ Kept' /\ FastForwardRestores' /\ Configured'
    BY <2>1 DEF IInv, Noticed, Told, Kept, FastForwardRestores, Configured
  <2> QED BY <2>2, <2>3 DEF IInv
<1>3. CASE Announce
  <2> DEFINE name == IF phase = "open" THEN Global ELSE game
  <2>1. /\ load_config(options_init, limit_frames, name) /\ phase \in {"open", "init"}
        /\ UNCHANGED <<phase, game, files, fast_forward, was, seen, chosen>> /\ ~fast_forward
    BY <1>1, <1>3 DEF Announce, speed
  <2>2. /\ core_options' \in OptionSet /\ core_options'.prev_value = core_options'.value
        /\ \A key \in Keys : core_options'.value[key] =
             IF key \in DOMAIN ConfigFile(name) \ Blocked /\ ConfigFile(name)[key] \in Values
               THEN ConfigFile(name)[key] ELSE Default[key]
        /\ limit_frames' \in {"0", "1"} /\ config_override' \in BOOLEAN
    BY <2>1, InitialOptions, LoadsFile DEF IInv, TypeOK
  <2>3. TypeOK'
    BY <2>1, <2>2 DEF IInv, TypeOK
  <2>4. Noticed' /\ Told' /\ Kept' /\ FastForwardRestores'
    BY <2>1, <2>2 DEF Noticed, Told, Kept, FastForwardRestores
  <2>5. Configured'
    <3>1. ConfigFile(game)' = ConfigFile(game)
      BY <2>1 DEF ConfigFile
    <3>2. phase' = "init" => name = game
      BY <2>1
    <3> QED BY <2>1, <2>2, <3>1, <3>2 DEF Configured, Stored
  <2> QED BY <2>3, <2>4, <2>5 DEF IInv
<1>4. CASE Configure
  <2> DEFINE s == Defaults(core_options)
  <2>1. /\ load_config(s, "1", game) /\ phase' = "init"
        /\ UNCHANGED <<game, files, fast_forward, was, seen, chosen>> /\ ~fast_forward
    BY <1>1, <1>4 DEF Configure, speed
  <2>2. s \in OptionSet /\ s.value = Default
    <3> DEFINE t == [core_options EXCEPT !.value = Default]
    <3>1. t \in OptionSet /\ t.value = Default
      BY OptionsAssumption DEF IInv, TypeOK, OptionSet
    <3>2. s = options_update_changed(t)
      BY DEF Defaults
    <3> HIDE DEF t, s
    <3> QED BY <3>1, <3>2, UpdateNotices
  <2> HIDE DEF s
  <2>3. /\ core_options' \in OptionSet /\ core_options'.prev_value = core_options'.value
        /\ \A key \in Keys : core_options'.value[key] =
             IF key \in DOMAIN ConfigFile(game) \ Blocked /\ ConfigFile(game)[key] \in Values
               THEN ConfigFile(game)[key] ELSE Default[key]
        /\ limit_frames' \in {"0", "1"} /\ config_override' \in BOOLEAN
    BY <1>1, <2>1, <2>2, LoadsFile
  <2>4. TypeOK'
    BY <2>1, <2>3 DEF IInv, TypeOK
  <2>5. Noticed' /\ Told' /\ Kept' /\ FastForwardRestores'
    BY <2>1, <2>3 DEF Noticed, Told, Kept, FastForwardRestores
  <2>6. Configured'
    <3>1. ConfigFile(game)' = ConfigFile(game)
      BY <2>1 DEF ConfigFile
    <3> QED BY <2>1, <2>3, <3>1 DEF Configured, Stored
  <2> QED BY <2>4, <2>5, <2>6 DEF IInv
<1>5. CASE LoadContent
  <2>1. /\ phase = "init" /\ phase' = "loaded" /\ ~fast_forward
        /\ seen' = core_options.value
        /\ chosen' = [value |-> core_options.value, limit |-> limit_frames]
        /\ UNCHANGED <<game, core_options, limit_frames, config_override, files, fast_forward, was>>
    BY <1>1, <1>5 DEF LoadContent, speed
  <2>2. core_options.value = core_options.prev_value
    BY <2>1 DEF IInv, Noticed
  <2>3. TypeOK'
    BY <2>1 DEF IInv, TypeOK, OptionSet
  <2>4. Noticed' /\ Told' /\ Kept' /\ FastForwardRestores'
    BY <2>1, <2>2 DEF Noticed, Told, Kept, FastForwardRestores
  <2>5. Configured'
    <3>1. ConfigFile(game)' = ConfigFile(game)
      BY <2>1 DEF ConfigFile
    <3> QED BY <2>1, <3>1 DEF IInv, Configured, Stored
  <2> QED BY <2>3, <2>4, <2>5 DEF IInv
<1>6. CASE Quit
  <2>1. /\ phase' = "off" /\ fast_forward' = FALSE /\ UNCHANGED <<game, files>>
        /\ core_options' = options_init /\ limit_frames' = "0" /\ config_override' = FALSE
        /\ was' = [type |-> Default[Type], interval |-> Default[Interval], limit |-> "0"]
        /\ seen' = Default /\ chosen' = [value |-> Default, limit |-> "0"]
    BY <1>6 DEF Quit, Fresh
  <2>2. core_options' \in OptionSet /\ core_options'.value = core_options'.prev_value
    BY <2>1, InitialOptions
  <2>3. TypeOK'
    BY <2>1, <2>2, OptionsAssumption DEF IInv, TypeOK
  <2>4. Noticed' /\ Told' /\ Kept' /\ FastForwardRestores' /\ Configured'
    BY <2>1, <2>2 DEF Noticed, Told, Kept, FastForwardRestores, Configured
  <2> QED BY <2>3, <2>4 DEF IInv
<1> QED BY <1>2, <1>3, <1>4, <1>5, <1>6

\* A frame: whatever was announced, the core has it now.
LEMMA RunOK == ASSUME IInv, Run PROVE IInv'
<1>1. /\ phase \in {"loaded", "play"} /\ phase' = "play"
      /\ core_options' = [core_options EXCEPT !.changed = FALSE]
      /\ seen' = IF core_options.changed THEN core_options.value ELSE seen
      /\ UNCHANGED <<game, limit_frames, config_override, files, fast_forward, was, chosen>>
  BY DEF Run, speed
<1>2. /\ core_options \in OptionSet /\ core_options' \in OptionSet
      /\ core_options'.value = core_options.value
      /\ core_options'.prev_value = core_options.prev_value
  BY <1>1 DEF IInv, TypeOK, OptionSet
<1>3. core_options.value \in [Keys -> Values] /\ seen \in [Keys -> Values]
  BY <1>2 DEF IInv, TypeOK, OptionSet
<1>4. TypeOK'
  BY <1>1, <1>2, <1>3 DEF IInv, TypeOK
<1>5. Noticed' /\ Kept' /\ FastForwardRestores' /\ Configured'
  BY <1>1, <1>2 DEF IInv, Noticed, Kept, FastForwardRestores, Configured
<1>6. Told'
  <2>1. CASE core_options.changed
    <3>1. seen' = core_options.value
      BY <1>1, <2>1
    <3>2. ~fast_forward => core_options.value = core_options.prev_value
      BY <1>1 DEF IInv, Noticed
    <3> QED BY <1>1, <1>2, <3>1, <3>2 DEF Told
  <2>2. CASE ~core_options.changed
    <3>1. seen' = seen
      BY <1>1, <2>2
    <3>2. seen = core_options.prev_value \/ (fast_forward /\ seen = core_options.value)
      BY <1>1, <2>2 DEF IInv, Told
    <3> QED BY <1>1, <1>2, <3>1, <3>2 DEF Told
  <2> QED BY <2>1, <2>2
<1> QED BY <1>4, <1>5, <1>6 DEF IInv

\* Switching fast forward off, by its key or by the menu.
LEMMA OffOK ==
  ASSUME IInv, fast_forward, FastForwardOff, phase' \in {"play", "menu"},
         UNCHANGED <<game, config_override, files, seen, chosen>>
  PROVE  IInv'
<1>1. /\ core_options' \in OptionSet
      /\ core_options'.value = chosen.value /\ core_options'.prev_value = chosen.value
      /\ limit_frames' = chosen.limit
      /\ ~core_options'.changed => seen = chosen.value
  BY OffRestores
<1>2. fast_forward' = FALSE /\ was' = was
  BY DEF FastForwardOff
<1>3. TypeOK'
  BY <1>1, <1>2 DEF IInv, TypeOK
<1>4. Noticed' /\ Told' /\ Kept' /\ FastForwardRestores' /\ Configured'
  BY <1>1, <1>2 DEF Noticed, Told, Kept, FastForwardRestores, Configured
<1> QED BY <1>3, <1>4 DEF IInv

LEMMA ToggleOK == ASSUME IInv, Toggle PROVE IInv'
<1>1. phase = "play" /\ phase' = "play" /\ UNCHANGED <<game, config_override, files, seen, chosen>>
  BY DEF Toggle
<1>2. CASE fast_forward
  <2>1. FastForwardOff
    BY <1>2 DEF Toggle
  <2> QED BY <1>1, <1>2, <2>1, OffOK
<1>3. CASE ~fast_forward
  <2>1. FastForwardOn
    BY <1>3 DEF Toggle
  <2>2. /\ core_options' \in OptionSet
        /\ \A key \in Keys \ {Type, Interval} : core_options'.value[key] = core_options.value[key]
        /\ \A key \in Keys \ {Interval} : core_options'.value[key] = core_options'.prev_value[key]
        /\ IntervalValue \in Values => core_options'.value = core_options'.prev_value
        /\ ~core_options'.changed =>
             ~core_options.changed /\ core_options'.prev_value = core_options.prev_value
    BY <2>1, OnReplaces
  <2>3. /\ fast_forward' = TRUE /\ limit_frames' = "0"
        /\ was' = [type |-> core_options.value[Type], interval |-> core_options.value[Interval],
                   limit |-> limit_frames]
    BY <2>1 DEF FastForwardOn
  <2>4. core_options.value = chosen.value /\ limit_frames = chosen.limit
    BY <1>1, <1>3 DEF IInv, FastForwardRestores
  <2>5. core_options.value[Type] \in Values /\ core_options.value[Interval] \in Values
    BY OptionsAssumption DEF IInv, TypeOK, OptionSet
  <2>6. TypeOK'
    BY <1>1, <2>2, <2>3, <2>5 DEF IInv, TypeOK
  <2>7. Noticed' /\ Kept' /\ FastForwardRestores' /\ Configured'
    BY <1>1, <2>2, <2>3, <2>4 DEF Noticed, Kept, FastForwardRestores, Configured
  <2>8. Told'
    <3> SUFFICES ASSUME ~core_options'.changed PROVE seen' = core_options'.prev_value
      BY DEF Told
    <3>1. ~core_options.changed /\ core_options'.prev_value = core_options.prev_value
      BY <2>2
    <3>2. seen = core_options.prev_value
      BY <1>1, <1>3, <3>1 DEF IInv, Told
    <3> QED BY <1>1, <3>1, <3>2
  <2> QED BY <2>6, <2>7, <2>8 DEF IInv
<1> QED BY <1>2, <1>3

\* What stays as it is while only the page shown, the files or the messages change.
LEMMA ShownOK ==
  ASSUME IInv, phase \in {"play", "menu"}, phase' \in {"play", "menu", "page"}, ~fast_forward,
         DOMAIN files' \subseteq Games \cup {Global},
         \A f \in DOMAIN files' : Limit \in DOMAIN files'[f] => files'[f][Limit] \in {"0", "1"},
         config_override' \in BOOLEAN,
         UNCHANGED <<game, core_options, limit_frames, fast_forward, was, seen, chosen>>
  PROVE  IInv'
<1>1. TypeOK'
  BY DEF IInv, TypeOK
<1>2. core_options.value = core_options.prev_value
  BY DEF IInv, Noticed
<1>3. Noticed' /\ Told' /\ Kept' /\ FastForwardRestores' /\ Configured'
  BY <1>2 DEF IInv, Noticed, Told, Kept, FastForwardRestores, Configured
<1> QED BY <1>1, <1>3 DEF IInv

\* Writing the options to a file leaves the files in order.
LEMMA SavesFile ==
  ASSUME TypeOK, NEW name \in Games \cup {Global}, save_config(name)
  PROVE  /\ DOMAIN files' \subseteq Games \cup {Global}
         /\ \A f \in DOMAIN files' : Limit \in DOMAIN files'[f] => files'[f][Limit] \in {"0", "1"}
<1>1. files' = [f \in DOMAIN files \cup {name} |-> IF f = name THEN Written ELSE files[f]]
  BY DEF save_config
<1>2. Written[Limit] \in {"0", "1"}
  BY DEF Written, TypeOK
<1> HIDE DEF Written
<1> QED BY <1>1, <1>2 DEF TypeOK

LEMMA MenuOK == ASSUME IInv, OpenMenu \/ InMenu PROVE IInv'
<1>1. TypeOK /\ (phase # "play" => ~fast_forward)
  BY DEF IInv, Kept
<1>2. CASE OpenMenu
  <2>1. CASE fast_forward
    <3>1. FastForwardOff /\ phase' = "menu" /\ UNCHANGED <<game, config_override, files, seen, chosen>>
      BY <1>2, <2>1 DEF OpenMenu
    <3> QED BY <2>1, <3>1, OffOK
  <2>2. CASE ~fast_forward
    <3>1. /\ phase = "play" /\ phase' = "menu"
          /\ UNCHANGED <<game, core_options, limit_frames, config_override, files, fast_forward, was,
                         seen, chosen>>
      BY <1>2, <2>2 DEF OpenMenu, speed
    <3> QED BY <1>1, <2>2, <3>1, ShownOK DEF TypeOK
  <2> QED BY <2>1, <2>2
<1>3. CASE OpenPage \/ LeaveMenu
  <2>1. /\ phase = "menu" /\ phase' \in {"play", "page"}
        /\ UNCHANGED <<game, core_options, limit_frames, config_override, files, fast_forward, was,
                       seen, chosen>>
    BY <1>3 DEF OpenPage, LeaveMenu, speed
  <2> QED BY <1>1, <2>1, ShownOK DEF TypeOK
<1>4. CASE SaveGlobal \/ SaveGame
  <2>1. PICK name \in Games \cup {Global} : save_config(name)
    BY <1>1, <1>4 DEF SaveGlobal, SaveGame, TypeOK
  <2>2. /\ phase = "menu" /\ phase' = "menu" /\ config_override' \in BOOLEAN
        /\ UNCHANGED <<game, core_options, limit_frames, fast_forward, was, seen, chosen>>
    BY <1>1, <1>4 DEF SaveGlobal, SaveGame, TypeOK, speed
  <2> QED BY <1>1, <2>1, <2>2, SavesFile, ShownOK
<1>5. CASE RemoveGame
  <2>1. /\ phase = "menu" /\ phase' = "menu" /\ config_override' \in BOOLEAN
        /\ UNCHANGED <<game, core_options, limit_frames, fast_forward, was, seen, chosen>>
        /\ files' = [f \in DOMAIN files \ {game} |-> files[f]]
    BY <1>5 DEF RemoveGame, speed
  <2>2. /\ DOMAIN files' \subseteq Games \cup {Global}
        /\ \A f \in DOMAIN files' : Limit \in DOMAIN files'[f] => files'[f][Limit] \in {"0", "1"}
    BY <1>1, <2>1 DEF TypeOK
  <2> QED BY <1>1, <2>1, <2>2, ShownOK
<1>6. CASE \E key \in Keys, v \in Values : ChangeOption(key, v)
  <2>1. PICK key \in Keys, v \in Values : ChangeOption(key, v)
    BY <1>6
  <2>2. /\ phase = "page" /\ phase' = "page" /\ ~fast_forward
        /\ core_options' = [core_options EXCEPT !.value[key] = v]
        /\ chosen' = [chosen EXCEPT !.value[key] = v]
        /\ UNCHANGED <<game, limit_frames, config_override, files, fast_forward, was, seen>>
    BY <1>1, <2>1 DEF ChangeOption, speed
  <2>3. /\ core_options' \in OptionSet
        /\ core_options'.value = [core_options.value EXCEPT ![key] = v]
        /\ core_options'.prev_value = core_options.prev_value
        /\ core_options'.changed = core_options.changed
    BY <1>1, <2>2 DEF TypeOK, OptionSet
  <2>4. /\ chosen' \in [value : [Keys -> Values], limit : {"0", "1"}]
        /\ chosen'.value = [chosen.value EXCEPT ![key] = v] /\ chosen'.limit = chosen.limit
    BY <1>1, <2>2 DEF TypeOK
  <2>5. TypeOK'
    BY <1>1, <2>2, <2>3, <2>4 DEF TypeOK
  <2>6. core_options.value = chosen.value /\ limit_frames = chosen.limit
    BY <2>2 DEF IInv, FastForwardRestores
  <2>7. Noticed' /\ Kept' /\ FastForwardRestores' /\ Configured'
    BY <2>2, <2>3, <2>4, <2>6 DEF Noticed, Kept, FastForwardRestores, Configured
  <2>8. Told'
    BY <2>2, <2>3 DEF IInv, Told
  <2> QED BY <2>5, <2>7, <2>8 DEF IInv
<1>7. CASE LeavePage
  <2>1. /\ phase = "page" /\ phase' = "menu" /\ ~fast_forward
        /\ core_options' = options_update_changed(core_options)
        /\ UNCHANGED <<game, limit_frames, config_override, files, fast_forward, was, seen, chosen>>
    BY <1>1, <1>7 DEF LeavePage, speed
  <2>2. /\ core_options' \in OptionSet /\ core_options'.value = core_options.value
        /\ core_options'.prev_value = core_options.value
        /\ core_options'.changed <=>
             core_options.changed \/ core_options.value # core_options.prev_value
    BY <1>1, <2>1, UpdateNotices DEF TypeOK
  <2>3. TypeOK'
    BY <1>1, <2>1, <2>2 DEF TypeOK
  <2>4. Noticed' /\ Kept' /\ FastForwardRestores' /\ Configured'
    BY <2>1, <2>2 DEF IInv, Noticed, Kept, FastForwardRestores, Configured
  <2>5. Told'
    BY <2>1, <2>2 DEF IInv, Told
  <2> QED BY <2>3, <2>4, <2>5 DEF IInv
<1>8. CASE RestoreDefaults
  <2> DEFINE t == [core_options EXCEPT !.value = Default]
  <2>1. /\ phase = "menu" /\ phase' = "menu" /\ ~fast_forward
        /\ core_options' = options_update_changed(t) /\ limit_frames' = "1"
        /\ chosen' = [value |-> Default, limit |-> "1"]
        /\ UNCHANGED <<game, config_override, files, fast_forward, was, seen>>
    BY <1>1, <1>8 DEF RestoreDefaults, Defaults, speed
  <2>2. /\ t \in OptionSet /\ t.value = Default /\ t.prev_value = core_options.prev_value
        /\ t.changed = core_options.changed
    BY <1>1, OptionsAssumption DEF TypeOK, OptionSet
  <2> HIDE DEF t
  <2>3. /\ core_options' \in OptionSet /\ core_options'.value = Default
        /\ core_options'.prev_value = Default
        /\ core_options'.changed <=> t.changed \/ Default # t.prev_value
    BY <2>1, <2>2, UpdateNotices
  <2>4. TypeOK'
    BY <1>1, <2>1, <2>3, OptionsAssumption DEF TypeOK
  <2>5. Noticed' /\ Kept' /\ FastForwardRestores' /\ Configured'
    BY <2>1, <2>3 DEF Noticed, Kept, FastForwardRestores, Configured
  <2>6. Told'
    BY <2>1, <2>2, <2>3 DEF IInv, Told
  <2> QED BY <2>4, <2>5, <2>6 DEF IInv
<1> QED BY <1>2, <1>3, <1>4, <1>5, <1>6, <1>7, <1>8 DEF InMenu

LEMMA StutterOK == ASSUME IInv, UNCHANGED vars PROVE IInv'
<1>1. UNCHANGED <<phase, game, core_options, limit_frames, config_override, files, fast_forward, was,
                  seen, chosen>>
  BY DEF vars, speed
<1>2. TypeOK'
  BY <1>1 DEF IInv, TypeOK
<1>3. Noticed' /\ Told' /\ Kept' /\ FastForwardRestores'
  BY <1>1 DEF IInv, Noticed, Told, Kept, FastForwardRestores
<1>4. Configured'
  <2>1. ConfigFile(game)' = ConfigFile(game)
    BY <1>1 DEF ConfigFile
  <2> QED BY <1>1, <2>1 DEF IInv, Configured, Stored
<1> QED BY <1>2, <1>3, <1>4 DEF IInv

LEMMA Inductive == Spec => []IInv
<1>1. IInv /\ [Next]_vars => IInv'
  BY LoadingOK, RunOK, ToggleOK, MenuOK, StutterOK DEF Next
<1> QED BY <1>1, InitOK, PTL DEF Spec
------------------------------------------------------------------------------
\* The options keep to the values of the core, and the files to what was in them.
THEOREM OptionsTypeCorrect == Spec => []TypeOK
<1>1. IInv => TypeOK
  BY DEF IInv
<1> QED BY <1>1, Inductive, PTL

\* A game starts with the options its config holds, or the global one, and defaults elsewhere
\* (load_config and set_defaults of main.c, pa_environment), however often the core announced them.
THEOREM OptionsStartsAsStored == Spec => []StartsAsStored
<1>1. IInv => StartsAsStored
  BY DEF IInv, Configured, StartsAsStored
<1> QED BY <1>1, Inductive, PTL

\* Without a pending notice (options_changed) the core has the options as they are.
THEOREM OptionsCoreKnows == Spec => []CoreKnows
<1>1. IInv => CoreKnows
  <2> SUFFICES ASSUME IInv, phase \in {"loaded", "play"}, ~core_options.changed,
                      fast_forward => IntervalValue \in Values
               PROVE  seen = core_options.value
    BY DEF CoreKnows
  <2>1. core_options.value = core_options.prev_value
    BY DEF IInv, Noticed
  <2>2. seen = core_options.prev_value \/ seen = core_options.value
    BY DEF IInv, Told
  <2> QED BY <2>1, <2>2
<1> QED BY <1>1, Inductive, PTL

\* Fast forward, toggled by its key or forced off by the menu (toggle_fast_forward), leaves
\* options and limiter as the player chose them.
THEOREM OptionsFastForwardRestores == Spec => []FastForwardRestores
<1>1. IInv => FastForwardRestores
  BY DEF IInv
<1> QED BY <1>1, Inductive, PTL
------------------------------------------------------------------------------
(* The buttons.  What the events of the queue do is followed by a run of     *)
(* states from the keys that in_sdl.c knows to those the player holds.       *)

LEMMA InputFacts == I!InputAssumption
BY PicoarchAssumption

AllKeys == I!PlainKeys \cup I!Outs \cup {I!Menu, I!Power}
Events  == AllKeys \X BOOLEAN
Mods    == {"NO", "MAYBE", "YES"}

\* What the buttons in order have come to after some events.
States == {s \in [held : SUBSET I!PlainKeys, out : SUBSET I!PlainKeys, mod : Mods] :
             (s.mod # "NO" => s.out = {}) /\ (s.mod = "MAYBE" => s.held = {})}

Others(ks) == {b \in I!PlainKeys : Out[b] \in ks}

\* The same of the keys as in_sdl.c has them, with mod_state m.
StateOf(ks, m) ==
  IF m = "NO" THEN [held |-> ks \cap I!PlainKeys, out |-> Others(ks), mod |-> m]
              ELSE [held |-> Others(ks), out |-> {}, mod |-> m]

\* An event that may come next: a button goes up only when it is down, a press of one that is
\* down is a repeat; MENU is not repeated.
MovesPlain(a, e, b) ==
  /\ ~ e[2] => e[1] \in a.held
  /\ b.held = I!Moved(a.held, e[1], e[2]) /\ b.out = a.out
  /\ b.mod = IF a.mod = "NO" THEN "NO" ELSE "YES"
MovesOut(a, e, b) ==
  /\ a.mod = "NO" /\ (~ e[2] => I!Base(e[1]) \in a.out)
  /\ b.held = a.held /\ b.out = I!Moved(a.out, I!Base(e[1]), e[2]) /\ b.mod = "NO"
MovesMenu(a, e, b) ==
  /\ e[2] => a.mod = "NO" /\ a.out = {}
  /\ b.held = a.held /\ b.out = a.out
  /\ b.mod = IF ~e[2] THEN "NO" ELSE IF a.held = {} THEN "MAYBE" ELSE "YES"

Moves(a, e, b) ==
  \/ e[1] \in I!PlainKeys /\ MovesPlain(a, e, b)
  \/ e[1] \in I!Outs /\ MovesOut(a, e, b)
  \/ e[1] = I!Menu /\ MovesMenu(a, e, b)

\* The states before, between and after the events of q.
IsRun(r, q) ==
  r \in [0 .. Len(q) -> States] /\ \A j \in 1 .. Len(q) : Moves(r[j - 1], q[j], r[j])

\* A tap of MENU is among the events of q, or ends there.
Pending(r, q) == \E j \in 1 .. Len(q) : q[j][1] = I!Menu /\ ~q[j][2] /\ r[j - 1].mod = "MAYBE"
------------------------------------------------------------------------------
(* Induction over a sequence.                                               *)

LEMMA Least ==
  ASSUME NEW T, T \subseteq Nat, T # {}
  PROVE  \E m \in T : \A n \in T : m <= n
<1>1. \E x \in T : \A y \in T : ~ (<<y, x>> \in OpToRel(<, Nat))
  BY NatLessThanWellFounded, WFMin
<1>2. PICK x \in T : \A y \in T : ~ (<<y, x>> \in OpToRel(<, Nat))
  BY <1>1
<1>3. ASSUME NEW y \in T PROVE x <= y
  <2>1. x \in Nat /\ y \in Nat
    OBVIOUS
  <2>2. <<y, x>> \notin OpToRel(<, Nat)
    BY <1>2
  <2>3. ~ (y < x)
    BY <2>1, <2>2 DEF OpToRel
  <2> QED BY <2>1, <2>3
<1> QED BY <1>3

\* What holds at 0 and goes on from each n to the next holds up to l.
LEMMA Reaches ==
  ASSUME NEW l \in Nat, NEW T, 0 \in T, \A n \in 0 .. l : n \in T /\ n < l => n + 1 \in T
  PROVE  \A n \in 0 .. l : n \in T
<1> DEFINE M == {n \in 0 .. l : n \notin T}
<1> SUFFICES ASSUME M # {} PROVE FALSE
  OBVIOUS
<1>1. M \subseteq Nat
  OBVIOUS
<1>2. PICK m \in M : \A n \in M : m <= n
  BY <1>1, Least
<1>3. m \in Nat /\ m <= l /\ m # 0 /\ m \notin T
  BY <1>2
<1>4. m - 1 \in 0 .. l /\ ~ (m <= m - 1) /\ m - 1 < l /\ (m - 1) + 1 = m
  BY <1>3
<1>5. m - 1 \in T
  BY <1>2, <1>4
<1> QED BY <1>3, <1>4, <1>5

Folded(f, l, base, G) == f[0] = base /\ \A n \in 1 .. l : f[n] = G[<<f[n - 1], n>>]

\* A value for each place, each made of the one before it.
LEMMA FoldExists ==
  ASSUME NEW l \in Nat, NEW S, NEW base \in S, NEW G \in [S \X (1 .. l) -> S]
  PROVE  \E f \in [0 .. l -> S] : Folded(f, l, base, G)
<1> DEFINE Upto(m, f) == f[0] = base /\ \A n \in 1 .. m : f[n] = G[<<f[n - 1], n>>]
           T == {m \in Nat : \E f \in [0 .. m -> S] : Upto(m, f)}
<1>1. 0 \in T
  <2>1. [n \in 0 .. 0 |-> base] \in [0 .. 0 -> S] /\ Upto(0, [n \in 0 .. 0 |-> base])
    OBVIOUS
  <2> QED BY <2>1
<1>2. ASSUME NEW m \in 0 .. l, m \in T, m < l
      PROVE  m + 1 \in T
  <2>1. PICK f \in [0 .. m -> S] : Upto(m, f)
    BY <1>2
  <2> DEFINE g == [n \in 0 .. m + 1 |-> IF n = m + 1 THEN G[<<f[m], m + 1>>] ELSE f[n]]
  <2>2. f[m] \in S /\ m + 1 \in 1 .. l
    BY <1>2, <2>1
  <2>3. G[<<f[m], m + 1>>] \in S
    BY <2>2
  <2>4. g \in [0 .. m + 1 -> S]
    BY <2>1, <2>3
  <2>5. g[0] = base
    BY <2>1
  <2>6. ASSUME NEW n \in 1 .. m + 1 PROVE g[n] = G[<<g[n - 1], n>>]
    <3>1. n - 1 \in 0 .. m + 1 /\ n - 1 # m + 1 /\ n \in 0 .. m + 1
      OBVIOUS
    <3>2. g[n - 1] = f[n - 1]
      BY <3>1
    <3>3. CASE n = m + 1
      <4>1. n - 1 = m /\ g[n] = G[<<f[m], m + 1>>]
        BY <3>3
      <4> QED BY <3>2, <3>3, <4>1
    <3>4. CASE n # m + 1
      <4>1. n \in 1 .. m /\ g[n] = f[n]
        BY <3>4
      <4> QED BY <2>1, <3>2, <4>1
    <3> QED BY <3>3, <3>4
  <2>7. Upto(m + 1, g)
    BY <2>5, <2>6
  <2>8. m + 1 \in Nat
    OBVIOUS
  <2> HIDE DEF g, Upto
  <2> QED BY <2>4, <2>7, <2>8
<1>3. \A n \in 0 .. l : n \in T
  <2> HIDE DEF T
  <2> QED BY <1>1, <1>2, Reaches
<1>4. l \in T
  <2> HIDE DEF T
  <2>1. l \in 0 .. l
    OBVIOUS
  <2> QED BY <1>3, <2>1
<1> QED BY <1>4 DEF Folded
------------------------------------------------------------------------------
(* The keys.                                                                *)

LEMMA KeyFacts ==
  /\ I!Menu # I!Power /\ I!Menu \notin I!PlainKeys \cup I!Outs /\ I!Power \notin I!PlainKeys \cup I!Outs
  /\ \A b \in I!PlainKeys : b \notin I!Outs /\ Out[b] \in I!Outs /\ I!Base(b) = b /\ I!Base(Out[b]) = b
  /\ \A x \in I!Outs : x \notin I!PlainKeys /\ I!Base(x) \in I!PlainKeys /\ Out[I!Base(x)] = x
  /\ \A b, c \in I!PlainKeys : Out[b] = Out[c] => b = c
  /\ I!Base(I!Menu) = I!Menu /\ I!Base(I!Power) = I!Power
  /\ Modifiers \subseteq I!PlainKeys /\ "off" \notin I!PlainKeys /\ "none" \notin I!PlainKeys
<1>1. /\ I!Menu # I!Power /\ I!Menu \notin I!PlainKeys \cup I!Outs /\ I!Power \notin I!PlainKeys \cup I!Outs
      /\ I!PlainKeys \cap I!Outs = {}
      /\ Modifiers \subseteq I!PlainKeys /\ "off" \notin I!PlainKeys /\ "none" \notin I!PlainKeys
  BY InputFacts DEF I!InputAssumption, I!Menu, I!Power
<1>2. \A b, c \in I!PlainKeys : Out[b] = Out[c] => b = c
  BY InputFacts DEF I!InputAssumption, I!IsInjective, I!PlainKeys
<1>3. \A b \in I!PlainKeys : Out[b] \in I!Outs
  BY DEF I!PlainKeys, I!Outs, I!Range
<1>4. ASSUME NEW x \in I!Outs PROVE I!Base(x) \in I!PlainKeys /\ Out[I!Base(x)] = x
  <2>1. \E b \in I!PlainKeys : Out[b] = x
    BY DEF I!PlainKeys, I!Outs, I!Range
  <2> QED BY <2>1 DEF I!Base
<1>5. ASSUME NEW b \in I!PlainKeys PROVE I!Base(b) = b /\ I!Base(Out[b]) = b
  <2>1. I!Base(b) = b
    BY <1>1 DEF I!Base
  <2>2. I!Base(Out[b]) = b
    BY <1>2, <1>3, <1>4
  <2> QED BY <2>1, <2>2
<1>6. I!Base(I!Menu) = I!Menu /\ I!Base(I!Power) = I!Power
  BY <1>1 DEF I!Base
<1> QED BY <1>1, <1>2, <1>3, <1>4, <1>5, <1>6
------------------------------------------------------------------------------
(* Sequences of events.                                                      *)

LEMMA FirstAfter ==
  ASSUME NEW S, NEW q \in Seq(S), NEW n \in Nat
  PROVE  LET l == IF n < Len(q) THEN n ELSE Len(q)
         IN  /\ l \in Nat /\ l <= Len(q) /\ l <= n /\ (l = n \/ l = Len(q))
             /\ I!First(q, n) \in Seq(S) /\ Len(I!First(q, n)) = l
             /\ I!After(q, n) \in Seq(S) /\ Len(I!After(q, n)) = Len(q) - l
             /\ \A j \in 1 .. l : I!First(q, n)[j] = q[j]
             /\ \A j \in 1 .. Len(q) - l : I!After(q, n)[j] = q[l + j]
<1> DEFINE l == IF n < Len(q) THEN n ELSE Len(q)
<1>1. l \in Nat /\ l <= Len(q) /\ l <= n /\ (l = n \/ l = Len(q)) /\ Len(q) \in Nat
  OBVIOUS
<1>2. /\ I!First(q, n) \in Seq(S) /\ Len(I!First(q, n)) = l
      /\ \A j \in 1 .. l : I!First(q, n)[j] = q[j]
  BY <1>1 DEF I!First
<1>3. /\ I!After(q, n) \in Seq(S) /\ Len(I!After(q, n)) = Len(q) - l
      /\ \A j \in 1 .. Len(q) - l : I!After(q, n)[j] = q[l + j]
  <2>1. CASE n < Len(q)
    BY <2>1 DEF I!After
  <2>2. CASE ~ (n < Len(q))
    <3>1. I!After(q, n) \in Seq(S) /\ Len(I!After(q, n)) = 0 /\ Len(q) - l = 0
      BY <2>2 DEF I!After
    <3> QED BY <3>1
  <2> QED BY <2>1, <2>2
<1> QED BY <1>1, <1>2, <1>3

\* The same when there are as many.
LEMMA AfterPart ==
  ASSUME NEW S, NEW q \in Seq(S), NEW n \in Nat, n <= Len(q)
  PROVE  /\ I!First(q, n) \in Seq(S) /\ Len(I!First(q, n)) = n
         /\ I!After(q, n) \in Seq(S) /\ Len(I!After(q, n)) = Len(q) - n
         /\ \A j \in 1 .. n : I!First(q, n)[j] = q[j]
         /\ \A j \in 1 .. Len(q) - n : I!After(q, n)[j] = q[n + j]
<1>1. Len(q) \in Nat
  OBVIOUS
<1>2. I!First(q, n) = SubSeq(q, 1, n)
  BY <1>1 DEF I!First
<1> QED BY <1>1, <1>2 DEF I!After

LEMMA Concat ==
  ASSUME NEW S, NEW s \in Seq(S), NEW t \in Seq(S)
  PROVE  /\ s \o t \in Seq(S) /\ Len(s) \in Nat /\ Len(t) \in Nat /\ Len(s \o t) = Len(s) + Len(t)
         /\ \A j \in 1 .. Len(s) : (s \o t)[j] = s[j]
         /\ \A j \in 1 .. Len(t) : (s \o t)[Len(s) + j] = t[j]
OBVIOUS

LEMMA SameSeq ==
  ASSUME NEW S, NEW s \in Seq(S), NEW t \in Seq(S), Len(s) = Len(t),
         \A j \in 1 .. Len(s) : s[j] = t[j]
  PROVE  s = t
OBVIOUS

LEMMA EmptyConcat ==
  ASSUME NEW S, NEW s \in Seq(S)
  PROVE  s \o <<>> = s /\ <<>> \o s = s
OBVIOUS

LEMMA Parted ==
  ASSUME NEW S, NEW q \in Seq(S), NEW n \in Nat
  PROVE  q = I!First(q, n) \o I!After(q, n)
<1> DEFINE l == IF n < Len(q) THEN n ELSE Len(q)
           a == I!First(q, n)
           z == I!After(q, n)
<1>1. /\ l \in Nat /\ l <= Len(q) /\ a \in Seq(S) /\ Len(a) = l
      /\ z \in Seq(S) /\ Len(z) = Len(q) - l
      /\ \A j \in 1 .. l : a[j] = q[j]
      /\ \A j \in 1 .. Len(q) - l : z[j] = q[l + j]
  BY FirstAfter
<1>2. Len(q) \in Nat
  OBVIOUS
<1> HIDE DEF a, z, l
<1>0. a \in Seq(S) /\ z \in Seq(S)
  BY <1>1
<1>3. /\ a \o z \in Seq(S) /\ Len(a \o z) = Len(a) + Len(z)
      /\ \A j \in 1 .. Len(a) : (a \o z)[j] = a[j]
      /\ \A j \in 1 .. Len(z) : (a \o z)[Len(a) + j] = z[j]
  BY <1>0, Concat
<1>4. Len(a \o z) = Len(q)
  BY <1>1, <1>2, <1>3
<1>5. ASSUME NEW j \in 1 .. Len(q) PROVE q[j] = (a \o z)[j]
  <2>1. CASE j <= l
    <3>1. j \in 1 .. l
      BY <1>1, <2>1
    <3> QED BY <1>1, <1>3, <3>1
  <2>2. CASE ~ (j <= l)
    <3>1. j - l \in 1 .. Len(q) - l /\ l + (j - l) = j
      BY <1>1, <1>2, <2>2
    <3>2. PICK x \in 1 .. Len(q) - l : l + x = j
      BY <3>1
    <3>3. z[x] = q[j] /\ (a \o z)[j] = z[x]
      BY <1>1, <1>3, <3>2
    <3> QED BY <3>3
  <2> QED BY <2>1, <2>2
<1> QED BY <1>3, <1>4, <1>5, SameSeq DEF a, z

Keyed(e) == I!Base(e[1])

LEMMA KeysOfMember ==
  ASSUME NEW q \in Seq(Events), NEW x
  PROVE  x \in I!KeysOf(q) <=> \E j \in 1 .. Len(q) : I!Base(q[j][1]) = x
<1>1. DOMAIN q = 1 .. Len(q)
  OBVIOUS
<1> QED BY <1>1 DEF I!KeysOf

LEMMA KeysOfConcat ==
  ASSUME NEW s \in Seq(Events), NEW t \in Seq(Events)
  PROVE  I!KeysOf(s \o t) = I!KeysOf(s) \cup I!KeysOf(t)
<1>1. /\ s \o t \in Seq(Events) /\ Len(s) \in Nat /\ Len(t) \in Nat /\ Len(s \o t) = Len(s) + Len(t)
      /\ \A j \in 1 .. Len(s) : (s \o t)[j] = s[j]
      /\ \A j \in 1 .. Len(t) : (s \o t)[Len(s) + j] = t[j]
  BY Concat
<1>2. ASSUME NEW x \in I!KeysOf(s \o t) PROVE x \in I!KeysOf(s) \cup I!KeysOf(t)
  <2>1. PICK j \in 1 .. Len(s \o t) : I!Base((s \o t)[j][1]) = x
    BY <1>1, <1>2, KeysOfMember
  <2>2. CASE j <= Len(s)
    <3>1. j \in 1 .. Len(s)
      BY <1>1, <2>2
    <3>2. I!Base(s[j][1]) = x
      BY <1>1, <2>1, <3>1
    <3> QED BY <3>1, <3>2, KeysOfMember
  <2>3. CASE ~ (j <= Len(s))
    <3>1. \E n \in 1 .. Len(t) : Len(s) + n = j
      <4>1. j - Len(s) \in 1 .. Len(t) /\ Len(s) + (j - Len(s)) = j
        BY <1>1, <2>3
      <4> QED BY <4>1
    <3>2. PICK n \in 1 .. Len(t) : Len(s) + n = j
      BY <3>1
    <3>3. I!Base(t[n][1]) = x
      BY <1>1, <2>1, <3>2
    <3> QED BY <3>3, KeysOfMember
  <2> QED BY <2>2, <2>3
<1>3. ASSUME NEW x \in I!KeysOf(s) PROVE x \in I!KeysOf(s \o t)
  <2>1. PICK j \in 1 .. Len(s) : I!Base(s[j][1]) = x
    BY <1>3, KeysOfMember
  <2>2. j \in 1 .. Len(s \o t) /\ I!Base((s \o t)[j][1]) = x
    BY <1>1, <2>1
  <2> QED BY <1>1, <2>2, KeysOfMember
<1>4. ASSUME NEW x \in I!KeysOf(t) PROVE x \in I!KeysOf(s \o t)
  <2>1. PICK j \in 1 .. Len(t) : I!Base(t[j][1]) = x
    BY <1>4, KeysOfMember
  <2>2. Len(s) + j \in 1 .. Len(s \o t) /\ I!Base((s \o t)[Len(s) + j][1]) = x
    BY <1>1, <2>1
  <2> QED BY <1>1, <2>2, KeysOfMember
<1> QED BY <1>2, <1>3, <1>4

LEMMA NoKeys ==
  ASSUME NEW q \in Seq(Events), I!KeysOf(q) = {}
  PROVE  q = <<>>
<1>1. \A j \in 1 .. Len(q) : I!Base(q[j][1]) \in I!KeysOf(q)
  BY KeysOfMember
<1>2. Len(q) \in Nat /\ ~ (1 \in 1 .. Len(q))
  BY <1>1
<1>3. Len(q) = 0
  BY <1>2
<1> QED BY <1>3

LEMMA EmptyKeys == I!KeysOf(<<>>) = {}
<1>1. <<>> \in Seq(Events) /\ 1 .. Len(<<>>) = {}
  OBVIOUS
<1> QED BY <1>1, KeysOfMember
------------------------------------------------------------------------------
(* The events of q that are not of POWER.                                    *)

LEMMA NotPowerDef ==
  ASSUME NEW q \in Seq(Events)
  PROVE  \E f \in [0 .. Len(q) -> Seq(Events)] :
           /\ f[0] = <<>> /\ I!NotPower(q) = f[Len(q)]
           /\ \A n \in 1 .. Len(q) : f[n] = IF I!IsPower(q[n]) THEN f[n - 1] ELSE Append(f[n - 1], q[n])
<1> DEFINE l == Len(q)
           Step(n, s) == IF I!IsPower(q[n]) THEN s ELSE Append(s, q[n])
           G == [p \in Seq(Events) \X (1 .. l) |-> Step(p[2], p[1])]
           IsKept(f) == f = [n \in 0 .. l |-> IF n = 0 THEN <<>> ELSE Step(n, f[n - 1])]
           kept == CHOOSE f : IsKept(f)
<1>1. l \in Nat /\ <<>> \in Seq(Events)
  OBVIOUS
<1>2. G \in [Seq(Events) \X (1 .. l) -> Seq(Events)]
  OBVIOUS
<1>3. PICK f \in [0 .. l -> Seq(Events)] : Folded(f, l, <<>>, G)
  <2> HIDE DEF G, l
  <2> QED BY <1>1, <1>2, FoldExists, Zenon
<1>4. ASSUME NEW n \in 1 .. l PROVE f[n] = Step(n, f[n - 1])
  <2>1. f[n - 1] \in Seq(Events)
    BY <1>1, <1>3
  <2> QED BY <1>3, <2>1 DEF Folded
<1>5. IsKept(f)
  <2> HIDE DEF Step, l
  <2>1. \A n \in 0 .. l : n # 0 => n \in 1 .. l
    BY <1>1
  <2> QED BY <1>3, <1>4, <2>1 DEF Folded
<1>6. IsKept(kept)
  <2> HIDE DEF IsKept
  <2> QED BY <1>5
<1>7. I!NotPower(q) = kept[l]
  BY DEF I!NotPower
<1> HIDE DEF kept
<1>8. /\ kept[0] = <<>>
      /\ \A n \in 1 .. l : kept[n] = Step(n, kept[n - 1])
  <2> HIDE DEF Step
  <2>1. 0 \in 0 .. l /\ \A n \in 1 .. l : n \in 0 .. l /\ n # 0
    BY <1>1
  <2> HIDE DEF l
  <2> QED BY <1>6, <2>1
<1>9. \A n \in 0 .. l : kept[n] \in Seq(Events)
  <2> DEFINE T == {n \in 0 .. l : kept[n] \in Seq(Events)}
  <2>1. 0 \in T
    <3>1. 0 \in 0 .. l /\ kept[0] \in Seq(Events)
      <4> HIDE DEF Step
      <4> QED BY <1>1, <1>8
    <3> QED BY <3>1
  <2>2. ASSUME NEW n \in 0 .. l, n \in T, n < l PROVE n + 1 \in T
    <3>1. n + 1 \in 1 .. l /\ (n + 1) - 1 = n /\ n + 1 \in 0 .. l
      BY <1>1, <2>2
    <3>2. kept[n + 1] = Step(n + 1, kept[n])
      BY <1>8, <3>1
    <3>3. kept[n] \in Seq(Events) /\ q[n + 1] \in Events
      BY <2>2, <3>1
    <3>4. kept[n + 1] \in Seq(Events)
      BY <3>2, <3>3
    <3> QED BY <3>1, <3>4
  <2>3. \A n \in 0 .. l : n \in T
    <3> HIDE DEF T, l
    <3> QED BY <1>1, <2>1, <2>2, Reaches
  <2> QED BY <2>3
<1>10. kept \in [0 .. l -> Seq(Events)]
  <2>1. kept = [n \in 0 .. l |-> kept[n]]
    <3> HIDE DEF Step, l
    <3> QED BY <1>6
  <2> QED BY <1>9, <2>1
<1> QED BY <1>7, <1>8, <1>10

\* The runs of NotPower's loop.
KeptRun(f, q) ==
  /\ f \in [0 .. Len(q) -> Seq(Events)] /\ f[0] = <<>> /\ I!NotPower(q) = f[Len(q)]
  /\ \A n \in 1 .. Len(q) : f[n] = IF I!IsPower(q[n]) THEN f[n - 1] ELSE Append(f[n - 1], q[n])

LEMMA KeptRuns ==
  ASSUME NEW q \in Seq(Events)
  PROVE  \E f : KeptRun(f, q)
BY NotPowerDef DEF KeptRun

LEMMA EventKey ==
  ASSUME NEW e \in Events
  PROVE  /\ e[1] \in AllKeys /\ e[2] \in BOOLEAN /\ e = <<e[1], e[2]>>
         /\ (I!Base(e[1]) = I!Power <=> I!IsPower(e)) /\ (I!Base(e[1]) = I!Menu <=> e[1] = I!Menu)
<1>1. e[1] \in AllKeys /\ e[2] \in BOOLEAN /\ e = <<e[1], e[2]>>
  BY DEF Events
<1>2. I!Base(e[1]) = I!Power <=> e[1] = I!Power
  <2> HIDE DEF I!Base, I!Power, I!Menu
  <2> QED BY <1>1, KeyFacts DEF AllKeys
<1>3. I!Base(e[1]) = I!Menu <=> e[1] = I!Menu
  <2> HIDE DEF I!Base, I!Power, I!Menu
  <2> QED BY <1>1, KeyFacts DEF AllKeys
<1> QED BY <1>1, <1>2, <1>3 DEF I!IsPower

LEMMA NotPowerKeeps ==
  ASSUME NEW q \in Seq(Events)
  PROVE  I!NotPower(q) \in Seq(Events) /\ I!KeysOf(I!NotPower(q)) \subseteq I!KeysOf(q) \ {I!Power}
<1>1. PICK f : KeptRun(f, q)
  BY KeptRuns
<1>2. Len(q) \in Nat /\ Len(q) \in 0 .. Len(q)
  OBVIOUS
<1>3. I!NotPower(q) \in Seq(Events)
  BY <1>1, <1>2 DEF KeptRun
<1> DEFINE From(s) == \A j \in 1 .. Len(s) : \E m \in 1 .. Len(q) : s[j] = q[m] /\ ~ I!IsPower(q[m])
           T == {n \in 0 .. Len(q) : From(f[n])}
<1>4. 0 \in T
  <2>1. From(<<>>)
    OBVIOUS
  <2> QED BY <1>1, <1>2, <2>1 DEF KeptRun
<1>5. ASSUME NEW n \in 0 .. Len(q), n \in T, n < Len(q) PROVE n + 1 \in T
  <2>1. n + 1 \in 1 .. Len(q) /\ (n + 1) - 1 = n /\ n + 1 \in 0 .. Len(q)
    BY <1>2, <1>5
  <2>2. f[n] \in Seq(Events) /\ From(f[n])
    BY <1>1, <1>5 DEF KeptRun
  <2>3. f[n + 1] = IF I!IsPower(q[n + 1]) THEN f[n] ELSE Append(f[n], q[n + 1])
    BY <1>1, <2>1 DEF KeptRun
  <2>4. CASE I!IsPower(q[n + 1])
    BY <2>1, <2>2, <2>3, <2>4
  <2>5. CASE ~ I!IsPower(q[n + 1])
    <3> DEFINE s == f[n]
               e == q[n + 1]
    <3>1. s \in Seq(Events) /\ From(s) /\ e = q[n + 1] /\ ~ I!IsPower(e) /\ f[n + 1] = Append(s, e)
      BY <2>2, <2>3, <2>5
    <3> HIDE DEF s, e, From
    <3>2. ASSUME NEW j \in 1 .. Len(Append(s, e))
          PROVE  \E m \in 1 .. Len(q) : Append(s, e)[j] = q[m] /\ ~ I!IsPower(q[m])
      <4>1. CASE j = Len(s) + 1
        BY <2>1, <3>1, <4>1
      <4>2. CASE j # Len(s) + 1
        <5>1. j \in 1 .. Len(s) /\ Append(s, e)[j] = s[j]
          BY <3>1, <4>2
        <5> QED BY <3>1, <5>1 DEF From
      <4> QED BY <4>1, <4>2
    <3>3. From(Append(s, e))
      BY <3>2 DEF From
    <3>4. From(f[n + 1])
      BY <3>1, <3>3
    <3> QED BY <2>1, <3>4
  <2> QED BY <2>4, <2>5
<1>6. \A n \in 0 .. Len(q) : n \in T
  <2> HIDE DEF T
  <2> QED BY <1>2, <1>4, <1>5, Reaches
<1>7. From(I!NotPower(q))
  BY <1>1, <1>2, <1>6 DEF KeptRun
<1>8. ASSUME NEW x \in I!KeysOf(I!NotPower(q)) PROVE x \in I!KeysOf(q) \ {I!Power}
  <2>1. PICK j \in 1 .. Len(I!NotPower(q)) : I!Base(I!NotPower(q)[j][1]) = x
    BY <1>3, KeysOfMember
  <2>2. PICK m \in 1 .. Len(q) : I!NotPower(q)[j] = q[m] /\ ~ I!IsPower(q[m])
    BY <1>7, <2>1
  <2>3. q[m] \in Events
    OBVIOUS
  <2>4. x # I!Power
    BY <2>1, <2>2, <2>3, EventKey
  <2> QED BY <2>1, <2>2, <2>4, KeysOfMember
<1> QED BY <1>3, <1>8

LEMMA NotPowerSame ==
  ASSUME NEW q \in Seq(Events), I!Power \notin I!KeysOf(q)
  PROVE  I!NotPower(q) = q
<1>1. PICK f : KeptRun(f, q)
  BY KeptRuns
<1>2. Len(q) \in Nat /\ Len(q) \in 0 .. Len(q)
  OBVIOUS
<1>3. \A j \in 1 .. Len(q) : ~ I!IsPower(q[j])
  <2> SUFFICES ASSUME NEW j \in 1 .. Len(q) PROVE ~ I!IsPower(q[j])
    OBVIOUS
  <2>1. q[j] \in Events
    OBVIOUS
  <2> QED BY <2>1, EventKey, KeysOfMember
<1> DEFINE Like(s, n) == Len(s) = n /\ \A j \in 1 .. n : s[j] = q[j]
           T == {n \in 0 .. Len(q) : Like(f[n], n)}
<1>4. 0 \in T
  <2>1. Like(<<>>, 0)
    OBVIOUS
  <2> QED BY <1>1, <1>2, <2>1 DEF KeptRun
<1>5. ASSUME NEW n \in 0 .. Len(q), n \in T, n < Len(q) PROVE n + 1 \in T
  <2>1. n + 1 \in 1 .. Len(q) /\ (n + 1) - 1 = n /\ n + 1 \in 0 .. Len(q)
    BY <1>2, <1>5
  <2>2. f[n] \in Seq(Events) /\ Like(f[n], n)
    BY <1>1, <1>5 DEF KeptRun
  <2>3. f[n + 1] = Append(f[n], q[n + 1])
    BY <1>1, <1>3, <2>1 DEF KeptRun
  <2> DEFINE s == f[n]
             e == q[n + 1]
  <2>4. s \in Seq(Events) /\ Like(s, n) /\ e = q[n + 1] /\ f[n + 1] = Append(s, e)
    BY <2>2, <2>3
  <2> HIDE DEF s, e
  <2>5. Like(Append(s, e), n + 1)
    BY <2>4
  <2> QED BY <2>1, <2>4, <2>5
<1>6. \A n \in 0 .. Len(q) : n \in T
  <2> HIDE DEF T
  <2> QED BY <1>2, <1>4, <1>5, Reaches
<1>7. Like(I!NotPower(q), Len(q))
  BY <1>1, <1>2, <1>6 DEF KeptRun
<1> QED BY <1>7, NotPowerKeeps, SameSeq

LEMMA NotPowerConcat ==
  ASSUME NEW a \in Seq(Events), NEW z \in Seq(Events)
  PROVE  I!NotPower(a \o z) = I!NotPower(a) \o I!NotPower(z)
<1> DEFINE q == a \o z
           l == Len(a)
           m == Len(z)
<1>1. /\ q \in Seq(Events) /\ l \in Nat /\ m \in Nat /\ Len(q) = l + m
      /\ \A j \in 1 .. l : q[j] = a[j]
      /\ \A j \in 1 .. m : q[l + j] = z[j]
  BY Concat
<1>2. PICK f : KeptRun(f, a)
  BY KeptRuns
<1>3. PICK g : KeptRun(g, z)
  BY KeptRuns
<1>4. PICK h : KeptRun(h, q)
  BY <1>1, KeptRuns
<1> HIDE DEF q, l, m
<1> DEFINE T == {n \in 0 .. l : h[n] = f[n]}
           U == {n \in 0 .. m : h[l + n] = f[l] \o g[n]}
<1>5. 0 \in T
  BY <1>1, <1>2, <1>4 DEF KeptRun
<1>6. ASSUME NEW n \in 0 .. l, n \in T, n < l PROVE n + 1 \in T
  <2>1. n + 1 \in 1 .. l /\ (n + 1) - 1 = n /\ n + 1 \in 0 .. l /\ n + 1 \in 1 .. Len(q)
    BY <1>1, <1>6
  <2>2. h[n + 1] = IF I!IsPower(q[n + 1]) THEN h[n] ELSE Append(h[n], q[n + 1])
    BY <1>4, <2>1 DEF KeptRun
  <2>3. f[n + 1] = IF I!IsPower(a[n + 1]) THEN f[n] ELSE Append(f[n], a[n + 1])
    BY <1>2, <2>1 DEF KeptRun, l
  <2> QED BY <1>1, <1>6, <2>1, <2>2, <2>3
<1>7. \A n \in 0 .. l : h[n] = f[n]
  <2>1. \A n \in 0 .. l : n \in T
    <3> HIDE DEF T
    <3> QED BY <1>1, <1>5, <1>6, Reaches
  <2> QED BY <2>1
<1>8. f[l] \in Seq(Events)
  <2>1. f \in [0 .. l -> Seq(Events)]
    BY <1>2 DEF KeptRun, l
  <2>2. l \in 0 .. l
    BY <1>1
  <2> QED BY <2>1, <2>2
<1>9. 0 \in U
  <2>1. h[l + 0] = f[l] /\ g[0] = <<>> /\ 0 \in 0 .. m
    BY <1>1, <1>3, <1>7 DEF KeptRun
  <2>2. f[l] \o <<>> = f[l]
    BY <1>8, EmptyConcat
  <2> QED BY <2>1, <2>2
<1>10. ASSUME NEW n \in 0 .. m, n \in U, n < m PROVE n + 1 \in U
  <2>1. /\ n + 1 \in 1 .. m /\ (n + 1) - 1 = n /\ n + 1 \in 0 .. m
        /\ l + (n + 1) \in 1 .. Len(q) /\ (l + (n + 1)) - 1 = l + n
    BY <1>1, <1>10
  <2>2. h[l + (n + 1)] = IF I!IsPower(q[l + (n + 1)]) THEN h[l + n] ELSE Append(h[l + n], q[l + (n + 1)])
    BY <1>4, <2>1 DEF KeptRun
  <2>3. g[n + 1] = IF I!IsPower(z[n + 1]) THEN g[n] ELSE Append(g[n], z[n + 1])
    BY <1>3, <2>1 DEF KeptRun, m
  <2>4. q[l + (n + 1)] = z[n + 1] /\ h[l + n] = f[l] \o g[n] /\ z[n + 1] \in Events
    <3>1. q[l + (n + 1)] = z[n + 1]
      BY <1>1, <2>1
    <3>2. n + 1 \in 1 .. Len(z)
      BY <2>1 DEF m
    <3>3. z[n + 1] \in Events
      BY <3>2
    <3>4. h[l + n] = f[l] \o g[n]
      BY <1>10
    <3> QED BY <3>1, <3>3, <3>4
  <2>5. g[n] \in Seq(Events)
    BY <1>3, <1>10 DEF KeptRun, m
  <2>6. f[l] \o Append(g[n], z[n + 1]) = Append(f[l] \o g[n], z[n + 1])
    <3> DEFINE s == f[l]
               t == g[n]
               e == z[n + 1]
    <3>1. s \in Seq(Events) /\ t \in Seq(Events) /\ e \in Events
      BY <1>8, <2>4, <2>5
    <3> HIDE DEF s, t, e
    <3>2. s \o Append(t, e) = Append(s \o t, e)
      BY <3>1
    <3> QED BY <3>2 DEF s, t, e
  <2> QED BY <2>1, <2>2, <2>3, <2>4, <2>6
<1>11. \A n \in 0 .. m : n \in U
  <2> HIDE DEF U
  <2> QED BY <1>1, <1>9, <1>10, Reaches
<1>12. h[l + m] = f[l] \o g[m]
  <2>1. m \in 0 .. m
    BY <1>1
  <2> QED BY <1>11, <2>1
<1> QED BY <1>1, <1>2, <1>3, <1>4, <1>12 DEF KeptRun, q, l, m

LEMMA NotPowerOne ==
  ASSUME NEW q \in Seq(Events), NEW e \in Events
  PROVE  I!NotPower(Append(q, e)) = IF I!IsPower(e) THEN I!NotPower(q) ELSE Append(I!NotPower(q), e)
<1>1. Append(q, e) = q \o <<e>> /\ <<e>> \in Seq(Events) /\ Len(<<e>>) = 1 /\ <<e>>[1] = e
  OBVIOUS
<1>2. I!NotPower(Append(q, e)) = I!NotPower(q) \o I!NotPower(<<e>>)
  BY <1>1, NotPowerConcat
<1>3. PICK f : KeptRun(f, <<e>>)
  BY <1>1, KeptRuns
<1>4. I!NotPower(<<e>>) = IF I!IsPower(e) THEN <<>> ELSE <<e>>
  <2>1. I!NotPower(<<e>>) = f[1] /\ f[0] = <<>> /\ 1 \in 1 .. 1
    BY <1>1, <1>3 DEF KeptRun
  <2>2. f[1] = IF I!IsPower(e) THEN f[1 - 1] ELSE Append(f[1 - 1], e)
    BY <1>1, <1>3, <2>1 DEF KeptRun
  <2> QED BY <2>1, <2>2
<1>5. I!NotPower(q) \in Seq(Events)
  BY NotPowerKeeps
<1>6. I!NotPower(q) \o <<>> = I!NotPower(q) /\ I!NotPower(q) \o <<e>> = Append(I!NotPower(q), e)
  BY <1>5
<1> QED BY <1>2, <1>4, <1>6
------------------------------------------------------------------------------
(* Runs.                                                                     *)

\* With the run of q as it is, that of its events from n on.
LEMMA RunAfter ==
  ASSUME NEW q \in Seq(Events), NEW r, IsRun(r, q), NEW n \in 0 .. Len(q)
  PROVE  IsRun([j \in 0 .. Len(q) - n |-> r[n + j]], I!After(q, n))
<1> DEFINE l == Len(q)
           z == I!After(q, n)
           t == [j \in 0 .. l - n |-> r[n + j]]
<1>1. l \in Nat /\ n \in Nat /\ n <= l
  OBVIOUS
<1>2. Len(z) = l - n /\ \A j \in 1 .. l - n : z[j] = q[n + j]
  <2>1. (IF n < l THEN n ELSE l) = n
    BY <1>1
  <2> QED BY <1>1, <2>1, FirstAfter
<1>3. r \in [0 .. l -> States] /\ \A j \in 1 .. l : Moves(r[j - 1], q[j], r[j])
  BY DEF IsRun
<1> HIDE DEF l, z
<1>4. t \in [0 .. l - n -> States]
  <2>1. \A j \in 0 .. l - n : n + j \in 0 .. l
    BY <1>1
  <2> QED BY <1>3, <2>1
<1>5. ASSUME NEW j \in 1 .. l - n PROVE Moves(t[j - 1], z[j], t[j])
  <2>1. /\ n + j \in 1 .. l /\ (n + j) - 1 = n + (j - 1)
        /\ j - 1 \in 0 .. l - n /\ j \in 0 .. l - n
    BY <1>1
  <2>2. t[j - 1] = r[(n + j) - 1] /\ t[j] = r[n + j] /\ z[j] = q[n + j]
    BY <1>2, <2>1
  <2> QED BY <1>3, <2>1, <2>2
<1> HIDE DEF t
<1>6. IsRun(t, z)
  BY <1>2, <1>4, <1>5 DEF IsRun
<1> QED BY <1>6 DEF t, z, l

\* Two runs of which one begins where the other ends.
Joined(r, q, u, z) == [j \in 0 .. Len(q) + Len(z) |-> IF j <= Len(q) THEN r[j] ELSE u[j - Len(q)]]

LEMMA RunJoin ==
  ASSUME NEW q \in Seq(Events), NEW z \in Seq(Events), NEW r, NEW u,
         IsRun(r, q), IsRun(u, z), r[Len(q)] = u[0]
  PROVE  /\ IsRun(Joined(r, q, u, z), q \o z)
         /\ \A j \in 0 .. Len(q) : Joined(r, q, u, z)[j] = r[j]
         /\ \A j \in 0 .. Len(z) : Joined(r, q, u, z)[Len(q) + j] = u[j]
<1> DEFINE l == Len(q)
           m == Len(z)
           s == q \o z
           t == Joined(r, q, u, z)
<1>1. /\ l \in Nat /\ m \in Nat /\ Len(s) = l + m
      /\ \A j \in 1 .. l : s[j] = q[j]
      /\ \A j \in 1 .. m : s[l + j] = z[j]
  BY Concat
<1>2. /\ r \in [0 .. l -> States] /\ \A j \in 1 .. l : Moves(r[j - 1], q[j], r[j])
      /\ u \in [0 .. m -> States] /\ \A j \in 1 .. m : Moves(u[j - 1], z[j], u[j])
      /\ r[l] = u[0]
  BY DEF IsRun
<1>3. t = [j \in 0 .. l + m |-> IF j <= l THEN r[j] ELSE u[j - l]]
  BY DEF Joined
<1> HIDE DEF l, m, s, t
<1>4. \A j \in 0 .. l : t[j] = r[j]
  BY <1>1, <1>3
<1>5. ASSUME NEW j \in 0 .. m PROVE t[l + j] = u[j]
  <2>1. l + j \in 0 .. l + m /\ (l + j) - l = j /\ (l + j <= l <=> j = 0) /\ l + 0 = l
    BY <1>1
  <2> QED BY <1>2, <1>3, <2>1
<1>6. t \in [0 .. l + m -> States]
  <2>1. \A j \in 0 .. l + m : (j <= l => j \in 0 .. l) /\ (~ (j <= l) => j - l \in 0 .. m)
    BY <1>1
  <2> QED BY <1>2, <1>3, <2>1
<1>7. ASSUME NEW j \in 1 .. l + m PROVE Moves(t[j - 1], s[j], t[j])
  <2>1. CASE j <= l
    <3>1. j \in 1 .. l /\ j \in 0 .. l /\ j - 1 \in 0 .. l
      BY <1>1, <2>1
    <3> QED BY <1>1, <1>2, <1>4, <3>1
  <2>2. CASE ~ (j <= l)
    <3>1. j - l \in 1 .. m /\ l + (j - l) = j
      BY <1>1, <2>2
    <3>2. PICK n \in 1 .. m : l + n = j
      BY <3>1
    <3>3. n \in 0 .. m /\ n - 1 \in 0 .. m /\ l + (n - 1) = j - 1
      BY <1>1, <3>2
    <3>4. t[j] = u[n] /\ t[j - 1] = u[n - 1] /\ s[j] = z[n]
      BY <1>1, <1>5, <3>2, <3>3
    <3> QED BY <1>2, <3>2, <3>4
  <2> QED BY <2>1, <2>2
<1>8. IsRun(t, s)
  BY <1>1, <1>6, <1>7 DEF IsRun
<1> QED BY <1>4, <1>5, <1>8 DEF t, s, l, m

LEMMA RunEmpty ==
  ASSUME NEW a \in States
  PROVE  IsRun([j \in 0 .. 0 |-> a], <<>>)
<1>1. Len(<<>>) = 0 /\ 1 .. 0 = {}
  OBVIOUS
<1> QED BY <1>1 DEF IsRun

LEMMA RunOne ==
  ASSUME NEW a \in States, NEW b \in States, NEW e \in Events, Moves(a, e, b)
  PROVE  IsRun([j \in 0 .. 1 |-> IF j = 0 THEN a ELSE b], <<e>>)
<1> DEFINE t == [j \in 0 .. 1 |-> IF j = 0 THEN a ELSE b]
<1>1. Len(<<e>>) = 1 /\ <<e>>[1] = e
  OBVIOUS
<1>2. t \in [0 .. 1 -> States] /\ t[0] = a /\ t[1] = b
  OBVIOUS
<1> HIDE DEF t
<1>3. ASSUME NEW j \in 1 .. Len(<<e>>) PROVE Moves(t[j - 1], <<e>>[j], t[j])
  <2>1. j = 1 /\ j - 1 = 0
    BY <1>1
  <2> QED BY <1>1, <1>2, <2>1
<1> QED BY <1>1, <1>2, <1>3 DEF IsRun, t

LEMMA MoveCases ==
  ASSUME NEW a, NEW e, NEW c, Moves(a, e, c)
  PROVE  /\ e[1] \in I!PlainKeys => MovesPlain(a, e, c)
         /\ e[1] \in I!Outs => MovesOut(a, e, c)
         /\ e[1] = I!Menu => MovesMenu(a, e, c)
         /\ e[1] \in I!PlainKeys \cup I!Outs \cup {I!Menu}
<1> HIDE DEF I!Menu, MovesPlain, MovesOut, MovesMenu, I!PlainKeys, I!Outs
<1> QED BY KeyFacts DEF Moves

\* An event of another key leaves a button and its other key alone.
LEMMA MoveOther ==
  ASSUME NEW a, NEW e, NEW c, Moves(a, e, c), NEW b \in I!PlainKeys, I!Base(e[1]) # b
  PROVE  (b \in c.held <=> b \in a.held) /\ (b \in c.out <=> b \in a.out)
<1>1. CASE e[1] \in I!PlainKeys
  <2>1. I!Base(e[1]) = e[1]
    BY <1>1, KeyFacts
  <2>2. c.held = I!Moved(a.held, e[1], e[2]) /\ c.out = a.out
    BY <1>1, MoveCases DEF MovesPlain
  <2> QED BY <2>1, <2>2 DEF I!Moved
<1>2. CASE e[1] \in I!Outs
  <2>1. c.held = a.held /\ c.out = I!Moved(a.out, I!Base(e[1]), e[2])
    BY <1>2, MoveCases DEF MovesOut
  <2> QED BY <2>1 DEF I!Moved
<1>3. CASE e[1] = I!Menu
  BY <1>3, MoveCases DEF MovesMenu
<1> QED BY <1>1, <1>2, <1>3, MoveCases

LEMMA MoveMod ==
  ASSUME NEW a, NEW e, NEW c, Moves(a, e, c), e[1] # I!Menu
  PROVE  c.mod = IF a.mod = "NO" THEN "NO" ELSE "YES"
BY DEF Moves, MovesPlain, MovesOut

LEMMA RunOther ==
  ASSUME NEW q \in Seq(Events), NEW r, IsRun(r, q), NEW b \in I!PlainKeys, b \notin I!KeysOf(q)
  PROVE  \A j \in 0 .. Len(q) : /\ b \in r[j].held <=> b \in r[0].held
                                /\ b \in r[j].out <=> b \in r[0].out
<1> DEFINE l == Len(q)
           Same(j) == (b \in r[j].held <=> b \in r[0].held) /\ (b \in r[j].out <=> b \in r[0].out)
           T == {j \in 0 .. l : Same(j)}
<1>1. l \in Nat
  OBVIOUS
<1>2. 0 \in T
  BY <1>1
<1>3. ASSUME NEW j \in 0 .. l, j \in T, j < l PROVE j + 1 \in T
  <2>1. j + 1 \in 1 .. l /\ (j + 1) - 1 = j /\ j + 1 \in 0 .. l
    BY <1>1, <1>3
  <2>2. Moves(r[j], q[j + 1], r[j + 1]) /\ r[j] \in States /\ r[j + 1] \in States
    BY <2>1 DEF IsRun
  <2>3. q[j + 1] \in Events /\ I!Base(q[j + 1][1]) # b
    BY <2>1, KeysOfMember
  <2>4. /\ b \in r[j + 1].held <=> b \in r[j].held
        /\ b \in r[j + 1].out <=> b \in r[j].out
    BY <2>2, <2>3, MoveOther
  <2>5. Same(j + 1)
    BY <1>3, <2>4
  <2> QED BY <2>1, <2>5
<1>4. \A j \in 0 .. l : j \in T
  <2> HIDE DEF T
  <2> QED BY <1>1, <1>2, <1>3, Reaches
<1> QED BY <1>4

LEMMA RunMod ==
  ASSUME NEW q \in Seq(Events), NEW r, IsRun(r, q), I!Menu \notin I!KeysOf(q)
  PROVE  \A j \in 0 .. Len(q) :
           r[j].mod = IF r[0].mod = "NO" THEN "NO" ELSE IF j = 0 THEN r[0].mod ELSE "YES"
<1> DEFINE l == Len(q)
           As(j) == r[j].mod = IF r[0].mod = "NO" THEN "NO" ELSE IF j = 0 THEN r[0].mod ELSE "YES"
           T == {j \in 0 .. l : As(j)}
<1>1. l \in Nat
  OBVIOUS
<1>2. 0 \in T
  BY <1>1
<1>3. ASSUME NEW j \in 0 .. l, j \in T, j < l PROVE j + 1 \in T
  <2>1. j + 1 \in 1 .. l /\ (j + 1) - 1 = j /\ j + 1 \in 0 .. l /\ j + 1 # 0
    BY <1>1, <1>3
  <2>2. Moves(r[j], q[j + 1], r[j + 1]) /\ r[j] \in States /\ r[j + 1] \in States
    BY <2>1 DEF IsRun
  <2>3. q[j + 1] \in Events /\ q[j + 1][1] # I!Menu
    BY <2>1, KeysOfMember, KeyFacts
  <2>4. r[j + 1].mod = IF r[j].mod = "NO" THEN "NO" ELSE "YES"
    BY <2>2, <2>3, MoveMod
  <2>5. r[0].mod \in Mods
    BY <1>1 DEF IsRun, States
  <2>6. As(j + 1)
    BY <1>3, <2>1, <2>4, <2>5 DEF Mods
  <2> QED BY <2>1, <2>6
<1>4. \A j \in 0 .. l : j \in T
  <2> HIDE DEF T
  <2> QED BY <1>1, <1>2, <1>3, Reaches
<1> QED BY <1>4

LEMMA NotPending ==
  ASSUME NEW q \in Seq(Events), NEW r, I!Menu \notin I!KeysOf(q)
  PROVE  ~ Pending(r, q)
<1> SUFFICES ASSUME NEW j \in 1 .. Len(q), q[j][1] = I!Menu PROVE FALSE
  BY DEF Pending
<1> QED BY KeysOfMember, KeyFacts

\* The buttons of S as x says, the others as y.
Mix(S, x, y) == {b \in I!PlainKeys : IF b \in S THEN b \in x ELSE b \in y}

LEMMA MoveMix ==
  ASSUME NEW a, NEW e, NEW c, Moves(a, e, c), e[1] # I!Menu,
         NEW S, I!Base(e[1]) \in S, NEW x, NEW y, NEW a2, NEW c2,
         a2.held = Mix(S, a.held, x), c2.held = Mix(S, c.held, x),
         a2.out = Mix(S, a.out, y), c2.out = Mix(S, c.out, y),
         a.mod = "NO" => a2.mod = "NO", c2.mod = IF a2.mod = "NO" THEN "NO" ELSE "YES"
  PROVE  Moves(a2, e, c2)
<1>1. CASE e[1] \in I!PlainKeys
  <2> DEFINE b == e[1]
  <2>1. I!Base(b) = b
    BY <1>1, KeyFacts
  <2>2. c.held = I!Moved(a.held, b, e[2]) /\ c.out = a.out /\ (~ e[2] => b \in a.held)
    BY <1>1, MoveCases DEF MovesPlain
  <2> HIDE DEF b
  <2>3. b \in I!PlainKeys /\ b \in S
    BY <1>1, <2>1 DEF b
  <2>4. c2.held = I!Moved(a2.held, b, e[2])
    BY <2>2, <2>3 DEF Mix, I!Moved
  <2>5. b \in a2.held <=> b \in a.held
    BY <2>3 DEF Mix
  <2>6. c2.out = a2.out
    BY <2>2
  <2>7. MovesPlain(a2, e, c2)
    BY <2>2, <2>4, <2>5, <2>6 DEF MovesPlain, b
  <2> QED BY <1>1, <2>7 DEF Moves
<1>2. CASE e[1] \in I!Outs
  <2> DEFINE b == I!Base(e[1])
  <2>1. b \in I!PlainKeys
    BY <1>2, KeyFacts
  <2>2. c.held = a.held /\ c.out = I!Moved(a.out, b, e[2]) /\ (~ e[2] => b \in a.out) /\ a.mod = "NO"
    BY <1>2, MoveCases DEF MovesOut
  <2>3. b \in S
    OBVIOUS
  <2> HIDE DEF b
  <2>4. c2.out = I!Moved(a2.out, b, e[2])
    BY <2>1, <2>2, <2>3 DEF Mix, I!Moved
  <2>5. b \in a2.out <=> b \in a.out
    BY <2>1, <2>3 DEF Mix
  <2>6. c2.held = a2.held /\ a2.mod = "NO" /\ c2.mod = "NO"
    BY <2>2
  <2>7. MovesOut(a2, e, c2)
    BY <2>2, <2>4, <2>5, <2>6 DEF MovesOut, b
  <2> QED BY <1>2, <2>7 DEF Moves
<1> QED BY <1>1, <1>2, MoveCases

\* mod_state after j events of buttons.
ModAt(g, j) == IF g = "NO" THEN "NO" ELSE IF j = 0 THEN g ELSE "YES"
MixState(S, s, d, g) == [held |-> Mix(S, s.held, d.held), out |-> Mix(S, s.out, d.out), mod |-> g]
MixRun(q, u, d, g) == [j \in 0 .. Len(q) |-> MixState(I!KeysOf(q), u[j], d, ModAt(g, j))]

\* The same events of buttons with other buttons as they are in d.
LEMMA RunMix ==
  ASSUME NEW q \in Seq(Events), NEW u, IsRun(u, q), I!Menu \notin I!KeysOf(q), NEW d \in States,
         NEW g \in Mods, u[0].mod = "NO" => g = "NO", g # "NO" => d.out = {},
         g = "MAYBE" => Mix(I!KeysOf(q), u[0].held, d.held) = {}
  PROVE  IsRun(MixRun(q, u, d, g), q)
<1> DEFINE l == Len(q)
           S == I!KeysOf(q)
           t == MixRun(q, u, d, g)
<1>1. l \in Nat
  OBVIOUS
<1>2. u \in [0 .. l -> States] /\ \A j \in 1 .. l : Moves(u[j - 1], q[j], u[j])
  BY DEF IsRun
<1>3. \A j \in 0 .. l : u[j].mod = "NO" => g = "NO"
  <2>1. u[0].mod \in Mods
    BY <1>1, <1>2 DEF States
  <2> QED BY <2>1, RunMod
<1>4. \A j \in 0 .. l : t[j] = MixState(S, u[j], d, ModAt(g, j))
  BY DEF MixRun
<1>5. ASSUME NEW j \in 0 .. l PROVE t[j] \in States
  <2>1. u[j] \in States
    BY <1>2
  <2> DEFINE n == ModAt(g, j)
             h == Mix(S, u[j].held, d.held)
             o == Mix(S, u[j].out, d.out)
  <2>2. n \in Mods /\ (n # "NO" => g # "NO") /\ (n = "MAYBE" => g = "MAYBE" /\ j = 0)
    BY DEF ModAt, Mods
  <2>3. h \in SUBSET I!PlainKeys /\ o \in SUBSET I!PlainKeys
    BY DEF Mix
  <2>4. n # "NO" => o = {}
    <3> SUFFICES ASSUME g # "NO" PROVE o = {}
      BY <2>2
    <3>1. u[j].mod # "NO"
      BY <1>3
    <3>2. u[j].out = {}
      BY <2>1, <3>1 DEF States
    <3> QED BY <3>2 DEF Mix
  <2>5. n = "MAYBE" => h = {}
    BY <2>2
  <2> HIDE DEF n, h, o
  <2>6. [held |-> h, out |-> o, mod |-> n] \in States
    BY <2>2, <2>3, <2>4, <2>5 DEF States
  <2> QED BY <1>4, <2>6 DEF MixState, n, h, o
<1>6. ASSUME NEW j \in 1 .. l PROVE Moves(t[j - 1], q[j], t[j])
  <2>1. j \in 0 .. l /\ j - 1 \in 0 .. l /\ j # 0
    BY <1>1
  <2>2. q[j] \in Events /\ I!Base(q[j][1]) \in S /\ q[j][1] # I!Menu
    BY KeysOfMember, KeyFacts
  <2>3. Moves(u[j - 1], q[j], u[j])
    BY <1>2
  <2> DEFINE a2 == t[j - 1]
             c2 == t[j]
  <2>4. /\ a2.held = Mix(S, u[j - 1].held, d.held) /\ a2.out = Mix(S, u[j - 1].out, d.out)
        /\ a2.mod = ModAt(g, j - 1)
        /\ c2.held = Mix(S, u[j].held, d.held) /\ c2.out = Mix(S, u[j].out, d.out)
        /\ c2.mod = ModAt(g, j)
    <3>1. a2 = MixState(S, u[j - 1], d, ModAt(g, j - 1)) /\ c2 = MixState(S, u[j], d, ModAt(g, j))
      BY <1>4, <2>1
    <3> HIDE DEF a2, c2
    <3> QED BY <3>1 DEF MixState
  <2> HIDE DEF a2, c2, S
  <2>5. c2.mod = IF a2.mod = "NO" THEN "NO" ELSE "YES"
    BY <2>1, <2>4 DEF ModAt
  <2>6. u[j - 1].mod = "NO" => a2.mod = "NO"
    BY <1>3, <2>1, <2>4 DEF ModAt
  <2>7. Moves(a2, q[j], c2)
    <3> DEFINE e == q[j]
               a == u[j - 1]
               c == u[j]
               x == d.held
               y == d.out
    <3>1. /\ Moves(a, e, c) /\ e[1] # I!Menu /\ I!Base(e[1]) \in S
          /\ a2.held = Mix(S, a.held, x) /\ c2.held = Mix(S, c.held, x)
          /\ a2.out = Mix(S, a.out, y) /\ c2.out = Mix(S, c.out, y)
          /\ (a.mod = "NO" => a2.mod = "NO")
      BY <2>2, <2>3, <2>4, <2>6
    <3> HIDE DEF e, a, c, x, y
    <3>2. Moves(a2, e, c2)
      BY <3>1, <2>5, MoveMix
    <3> QED BY <3>2 DEF e
  <2> QED BY <2>7 DEF a2, c2
<1>7. t \in [0 .. l -> States]
  <2>1. t = [j \in 0 .. l |-> MixState(S, u[j], d, ModAt(g, j))]
    BY DEF MixRun
  <2> HIDE DEF t, S
  <2> QED BY <1>5, <2>1
<1> HIDE DEF t
<1>8. IsRun(t, q)
  BY <1>6, <1>7 DEF IsRun
<1> QED BY <1>8 DEF t

\* The run of a sequence of two parts is one of each.
LEMMA RunParts ==
  ASSUME NEW a \in Seq(Events), NEW z \in Seq(Events), NEW r, IsRun(r, a \o z)
  PROVE  /\ IsRun([j \in 0 .. Len(a) |-> r[j]], a)
         /\ IsRun([j \in 0 .. Len(z) |-> r[Len(a) + j]], z)
<1> DEFINE l == Len(a)
           m == Len(z)
           s == a \o z
           t == [j \in 0 .. l |-> r[j]]
           u == [j \in 0 .. m |-> r[l + j]]
<1>1. /\ l \in Nat /\ m \in Nat /\ Len(s) = l + m
      /\ \A j \in 1 .. l : s[j] = a[j]
      /\ \A j \in 1 .. m : s[l + j] = z[j]
  BY Concat
<1>2. r \in [0 .. l + m -> States] /\ \A j \in 1 .. l + m : Moves(r[j - 1], s[j], r[j])
  BY <1>1 DEF IsRun
<1> HIDE DEF l, m, s
<1>3. t \in [0 .. l -> States] /\ u \in [0 .. m -> States]
  BY <1>1, <1>2
<1>4. ASSUME NEW j \in 1 .. l PROVE Moves(t[j - 1], a[j], t[j])
  <2>1. j \in 1 .. l + m /\ j \in 0 .. l /\ j - 1 \in 0 .. l
    BY <1>1
  <2>2. t[j - 1] = r[j - 1] /\ t[j] = r[j]
    BY <2>1
  <2> QED BY <1>1, <1>2, <2>1, <2>2
<1>5. ASSUME NEW j \in 1 .. m PROVE Moves(u[j - 1], z[j], u[j])
  <2>1. l + j \in 1 .. l + m /\ j \in 0 .. m /\ j - 1 \in 0 .. m /\ l + (j - 1) = (l + j) - 1
    BY <1>1
  <2>2. u[j - 1] = r[(l + j) - 1] /\ u[j] = r[l + j]
    BY <2>1
  <2> QED BY <1>1, <1>2, <2>1, <2>2
<1> HIDE DEF t, u
<1>6. IsRun(t, a) /\ IsRun(u, z)
  BY <1>3, <1>4, <1>5 DEF IsRun, l, m
<1> QED BY <1>6 DEF t, u, l, m

LEMMA StateEq ==
  ASSUME NEW a \in States, NEW b \in States, a.held = b.held, a.out = b.out, a.mod = b.mod
  PROVE  a = b
BY DEF States

\* t is what r becomes when the events of z are taken before those of a.
Swapped(t, r, a, z) ==
  /\ IsRun(t, z \o a) /\ t[0] = r[0] /\ t[Len(z \o a)] = r[Len(a \o z)]
  /\ Pending(t, z \o a) <=> Pending(r, a \o z)

LEMMA SwapButtons ==
  ASSUME NEW a \in Seq(Events), NEW z \in Seq(Events), NEW r, IsRun(r, a \o z),
         a # <<>>, z # <<>>, I!Menu \notin I!KeysOf(a) \cup I!KeysOf(z), I!KeysOf(a) \cap I!KeysOf(z) = {}
  PROVE  \E t : Swapped(t, r, a, z)
<1> DEFINE l == Len(a)
           m == Len(z)
           A == I!KeysOf(a)
           Z == I!KeysOf(z)
           ra == [j \in 0 .. l |-> r[j]]
           rz == [j \in 0 .. m |-> r[l + j]]
           g == r[0].mod
           h == ModAt(g, 1)
           tz == MixRun(z, rz, r[0], g)
           ta == MixRun(a, ra, r[l + m], h)
<1>1. l \in Nat /\ m \in Nat /\ l > 0 /\ m > 0
  OBVIOUS
<1>2. /\ a \o z \in Seq(Events) /\ Len(a \o z) = l + m
      /\ z \o a \in Seq(Events) /\ Len(z \o a) = m + l
      /\ I!Menu \notin I!KeysOf(a \o z) /\ I!Menu \notin I!KeysOf(z \o a) /\ I!KeysOf(a \o z) = A \cup Z
  BY Concat, KeysOfConcat
<1>3. r \in [0 .. l + m -> States]
  BY <1>2 DEF IsRun
<1>4. IsRun(ra, a) /\ IsRun(rz, z)
  BY RunParts
<1> HIDE DEF l, m, A, Z
<1>5. /\ r[0] \in States /\ r[l] \in States /\ r[l + m] \in States
      /\ ra[0] = r[0] /\ ra[l] = r[l] /\ rz[0] = r[l] /\ rz[m] = r[l + m]
  BY <1>1, <1>3
<1> HIDE DEF ra, rz
<1>6. ASSUME NEW b \in I!PlainKeys
      PROVE  /\ b \notin A => (b \in r[l].held <=> b \in r[0].held) /\ (b \in r[l].out <=> b \in r[0].out)
             /\ b \notin Z => /\ b \in r[l + m].held <=> b \in r[l].held
                              /\ b \in r[l + m].out <=> b \in r[l].out
  <2>1. b \notin A => (b \in r[l].held <=> b \in r[0].held) /\ (b \in r[l].out <=> b \in r[0].out)
    <3> SUFFICES ASSUME b \notin A
                 PROVE  (b \in r[l].held <=> b \in r[0].held) /\ (b \in r[l].out <=> b \in r[0].out)
      OBVIOUS
    <3>1. l \in 0 .. Len(a)
      BY <1>1 DEF l
    <3>2. (b \in ra[l].held <=> b \in ra[0].held) /\ (b \in ra[l].out <=> b \in ra[0].out)
      BY <1>4, <3>1, RunOther DEF A
    <3> QED BY <1>5, <3>2
  <2>2. b \notin Z => /\ b \in r[l + m].held <=> b \in r[l].held
                      /\ b \in r[l + m].out <=> b \in r[l].out
    <3> SUFFICES ASSUME b \notin Z
                 PROVE  /\ b \in r[l + m].held <=> b \in r[l].held
                        /\ b \in r[l + m].out <=> b \in r[l].out
      OBVIOUS
    <3>1. m \in 0 .. Len(z)
      BY <1>1 DEF m
    <3>2. (b \in rz[m].held <=> b \in rz[0].held) /\ (b \in rz[m].out <=> b \in rz[0].out)
      BY <1>4, <3>1, RunOther DEF Z
    <3> QED BY <1>5, <3>2
  <2> QED BY <2>1, <2>2
<1>7. g \in Mods /\ r[l].mod = h /\ r[l + m].mod = h /\ h \in Mods
  <2>1. g \in Mods
    BY <1>5 DEF States
  <2>2. l \in 0 .. Len(a \o z) /\ l + m \in 0 .. Len(a \o z) /\ l # 0 /\ l + m # 0
    BY <1>1, <1>2
  <2>3. r[l].mod = h /\ r[l + m].mod = h
    <3>1. \A j \in 0 .. Len(a \o z) :
            r[j].mod = IF r[0].mod = "NO" THEN "NO" ELSE IF j = 0 THEN r[0].mod ELSE "YES"
      BY <1>2, RunMod
    <3> QED BY <2>2, <3>1 DEF ModAt
  <2> QED BY <2>1, <2>3 DEF ModAt, Mods
<1>8. A \cap Z = {}
  BY DEF A, Z
<1>9. /\ Mix(Z, r[l].held, r[0].held) = r[0].held /\ Mix(Z, r[l].out, r[0].out) = r[0].out
      /\ Mix(Z, r[l + m].held, r[0].held) = Mix(A, r[0].held, r[l + m].held)
      /\ Mix(Z, r[l + m].out, r[0].out) = Mix(A, r[0].out, r[l + m].out)
      /\ Mix(A, r[l].held, r[l + m].held) = r[l + m].held
      /\ Mix(A, r[l].out, r[l + m].out) = r[l + m].out
  <2>1. /\ r[0].held \subseteq I!PlainKeys /\ r[0].out \subseteq I!PlainKeys
        /\ r[l + m].held \subseteq I!PlainKeys /\ r[l + m].out \subseteq I!PlainKeys
    BY <1>5 DEF States
  <2> QED BY <1>6, <1>8, <2>1 DEF Mix
<1>10. IsRun(tz, z)
  <2>1. rz[0].mod = "NO" => g = "NO"
    BY <1>5, <1>7 DEF ModAt
  <2>2. g # "NO" => r[0].out = {}
    BY <1>5 DEF States
  <2>3. g = "MAYBE" => Mix(I!KeysOf(z), rz[0].held, r[0].held) = {}
    BY <1>5, <1>9 DEF States, Z
  <2> HIDE DEF g
  <2> QED BY <1>4, <1>5, <1>7, <2>1, <2>2, <2>3, RunMix
<1>11. IsRun(ta, a)
  <2>1. ra[0].mod = "NO" => h = "NO"
    BY <1>5 DEF ModAt
  <2>2. h # "NO" => r[l + m].out = {}
    BY <1>5, <1>7 DEF States
  <2>3. h # "MAYBE"
    BY DEF ModAt
  <2> HIDE DEF g, h
  <2> QED BY <1>4, <1>5, <1>7, <2>1, <2>2, <2>3, RunMix
<1>12. tz[0] = r[0] /\ tz[m] = ta[0] /\ ta[l] = r[l + m]
  <2>1. /\ tz[0] = MixState(Z, rz[0], r[0], ModAt(g, 0))
        /\ tz[m] = MixState(Z, rz[m], r[0], ModAt(g, m))
        /\ ta[0] = MixState(A, ra[0], r[l + m], ModAt(h, 0))
        /\ ta[l] = MixState(A, ra[l], r[l + m], ModAt(h, l))
    BY <1>1 DEF MixRun, l, m, A, Z
  <2>2. ModAt(g, 0) = g /\ ModAt(g, m) = h /\ ModAt(h, 0) = h /\ ModAt(h, l) = h
    BY <1>1 DEF ModAt
  <2> HIDE DEF tz, ta, g, h
  <2>3. tz[m] = ta[0]
    BY <1>5, <1>9, <2>1, <2>2 DEF MixState
  <2>4. tz[0] = r[0]
    <3>1. tz[0] = [held |-> r[0].held, out |-> r[0].out, mod |-> r[0].mod]
      BY <1>5, <1>9, <2>1, <2>2 DEF MixState, g
    <3> QED BY <1>5, <3>1 DEF States
  <2>5. ta[l] = r[l + m]
    <3>1. ta[l] = [held |-> r[l + m].held, out |-> r[l + m].out, mod |-> r[l + m].mod]
      BY <1>5, <1>7, <1>9, <2>1, <2>2 DEF MixState
    <3> QED BY <1>5, <3>1 DEF States
  <2> QED BY <2>3, <2>4, <2>5
<1> HIDE DEF tz, ta
<1> DEFINE t == Joined(tz, z, ta, a)
<1>13. /\ IsRun(t, z \o a)
       /\ \A j \in 0 .. m : t[j] = tz[j]
       /\ \A j \in 0 .. l : t[m + j] = ta[j]
  BY <1>10, <1>11, <1>12, RunJoin DEF l, m
<1> HIDE DEF t
<1>14. t[0] = r[0] /\ t[m + l] = r[l + m]
  <2>1. 0 \in 0 .. m /\ l \in 0 .. l
    BY <1>1
  <2> QED BY <1>12, <1>13, <2>1
<1>15. ~ Pending(t, z \o a) /\ ~ Pending(r, a \o z)
  BY <1>2, NotPending
<1> QED BY <1>2, <1>13, <1>14, <1>15 DEF Swapped

LEMMA RunSwap ==
  ASSUME NEW a \in Seq(Events), NEW z \in Seq(Events), NEW r, IsRun(r, a \o z),
         I!Overtaken(z, a) = {}
  PROVE  \E t : Swapped(t, r, a, z)
<1>1. CASE a = <<>> \/ z = <<>>
  <2>1. a \o z = z \o a
    BY <1>1, EmptyConcat
  <2> QED BY <2>1 DEF Swapped
<1>2. CASE a # <<>> /\ z # <<>>
  <2>1. I!Menu \notin I!KeysOf(a) \cup I!KeysOf(z) /\ I!KeysOf(a) \cap I!KeysOf(z) = {}
    BY <1>2 DEF I!Overtaken
  <2> QED BY <1>2, <2>1, SwapButtons
<1> QED BY <1>1, <1>2

LEMMA StateOfType ==
  ASSUME NEW ks \in SUBSET AllKeys
  PROVE  StateOf(ks, "NO") \in States
BY DEF StateOf, States, Others, Mods

LEMMA KeyMoves ==
  ASSUME NEW ks \in SUBSET AllKeys, NEW x \in I!PlainKeys \cup I!Outs, NEW down \in BOOLEAN,
         ~ down => x \in ks
  PROVE  /\ <<x, down>> \in Events /\ I!Moved(ks, x, down) \in SUBSET AllKeys
         /\ Moves(StateOf(ks, "NO"), <<x, down>>, StateOf(I!Moved(ks, x, down), "NO"))
<1> DEFINE e == <<x, down>>
           new == I!Moved(ks, x, down)
           a == StateOf(ks, "NO")
           c == StateOf(new, "NO")
<1>1. e[1] = x /\ e[2] = down
  OBVIOUS
<1>2. e \in Events /\ new \in SUBSET AllKeys
  BY DEF Events, AllKeys, I!Moved
<1>3. /\ a.held = ks \cap I!PlainKeys /\ a.out = Others(ks) /\ a.mod = "NO"
      /\ c.held = new \cap I!PlainKeys /\ c.out = Others(new) /\ c.mod = "NO"
  BY DEF StateOf
<1>4. new = IF down THEN ks \cup {x} ELSE ks \ {x}
  BY DEF I!Moved
<1> HIDE DEF e, new, a, c
<1>5. CASE x \in I!PlainKeys
  <2>1. x \notin I!Outs
    BY <1>5, KeyFacts
  <2>2. c.held = I!Moved(a.held, x, down) /\ c.out = a.out /\ (~ down => x \in a.held)
    BY <1>3, <1>4, <1>5, <2>1, KeyFacts DEF I!Moved, Others
  <2> QED BY <1>1, <1>3, <1>5, <2>2, <1>2 DEF Moves, MovesPlain, e, new, a, c
<1>6. CASE x \in I!Outs
  <2> DEFINE b == I!Base(x)
  <2>1. x \notin I!PlainKeys /\ b \in I!PlainKeys /\ Out[b] = x /\ \A y \in I!PlainKeys : Out[y] = x => y = b
    BY <1>6, KeyFacts
  <2> HIDE DEF b
  <2>2. c.held = a.held
    BY <1>3, <1>4, <2>1
  <2>3. (~ down => b \in a.out) /\ c.out = I!Moved(a.out, b, down)
    BY <1>3, <1>4, <2>1 DEF I!Moved, Others
  <2> QED BY <1>1, <1>3, <1>6, <2>2, <2>3, <1>2 DEF Moves, MovesOut, e, new, a, c, b
<1> QED BY <1>5, <1>6

\* A run of one event more.
Extended(r, q, b) == [j \in 0 .. Len(q) + 1 |-> IF j <= Len(q) THEN r[j] ELSE b]

LEMMA RunExtend ==
  ASSUME NEW q \in Seq(Events), NEW r, IsRun(r, q), NEW e \in Events, NEW b \in States,
         Moves(r[Len(q)], e, b)
  PROVE  /\ IsRun(Extended(r, q, b), Append(q, e)) /\ Len(Append(q, e)) = Len(q) + 1
         /\ \A j \in 0 .. Len(q) : Extended(r, q, b)[j] = r[j]
         /\ Extended(r, q, b)[Len(q) + 1] = b
<1> DEFINE l == Len(q)
           s == Append(q, e)
           t == Extended(r, q, b)
<1>1. /\ l \in Nat /\ Len(s) = l + 1 /\ s[l + 1] = e /\ \A j \in 1 .. l : s[j] = q[j]
      /\ Moves(r[l], e, b)
  OBVIOUS
<1>2. r \in [0 .. l -> States] /\ \A j \in 1 .. l : Moves(r[j - 1], q[j], r[j])
  BY DEF IsRun
<1>3. t = [j \in 0 .. l + 1 |-> IF j <= l THEN r[j] ELSE b]
  BY DEF Extended
<1> HIDE DEF l, s, t
<1>4. (\A j \in 0 .. l : t[j] = r[j]) /\ t[l + 1] = b
  BY <1>1, <1>3
<1>5. t \in [0 .. l + 1 -> States]
  BY <1>1, <1>2, <1>3
<1>6. ASSUME NEW j \in 1 .. l + 1 PROVE Moves(t[j - 1], s[j], t[j])
  <2>1. CASE j = l + 1
    <3>1. j - 1 = l /\ l \in 0 .. l
      BY <1>1, <2>1
    <3> QED BY <1>1, <1>4, <2>1, <3>1
  <2>2. CASE j # l + 1
    <3>1. j \in 1 .. l /\ j \in 0 .. l /\ j - 1 \in 0 .. l
      BY <1>1, <2>2
    <3> QED BY <1>1, <1>2, <1>4, <3>1
  <2> QED BY <2>1, <2>2
<1>7. IsRun(t, s)
  BY <1>1, <1>5, <1>6 DEF IsRun
<1> QED BY <1>1, <1>4, <1>7 DEF t, s, l

\* Events that take x to y.
Leads(x, q, y) == \E r : IsRun(r, q) /\ r[0] = x /\ r[Len(q)] = y

LEMMA LeadsOn ==
  ASSUME NEW q \in Seq(Events), NEW x, NEW y, Leads(x, q, y), NEW e \in Events, NEW b \in States,
         Moves(y, e, b)
  PROVE  Leads(x, Append(q, e), b)
<1>1. PICK r : IsRun(r, q) /\ r[0] = x /\ r[Len(q)] = y
  BY DEF Leads
<1> DEFINE t == Extended(r, q, b)
<1>2. /\ IsRun(t, Append(q, e)) /\ Len(Append(q, e)) = Len(q) + 1
      /\ \A j \in 0 .. Len(q) : t[j] = r[j]
      /\ t[Len(q) + 1] = b
  BY <1>1, RunExtend
<1>3. 0 \in 0 .. Len(q)
  OBVIOUS
<1> HIDE DEF t
<1> QED BY <1>1, <1>2, <1>3 DEF Leads
------------------------------------------------------------------------------
(* The buttons switched to their other keys and back.                        *)

Recs == [mod : Mods, keys : SUBSET AllKeys, put : Seq(Events), dropped : SUBSET AllKeys]

\* What SwitchAll is called with.
Switches(from, to) ==
  /\ \A b \in I!PlainKeys : {from[b], to[b]} \subseteq I!PlainKeys \cup I!Outs
  /\ \A b, c \in I!PlainKeys : from[b] # to[c] /\ (from[b] = from[c] => b = c) /\ (to[b] = to[c] => b = c)

LEMMA BothSwitch == Switches(I!Self, Out) /\ Switches(Out, I!Self)
BY KeyFacts DEF Switches, I!Self

KeySwitched(s, up, down, u) ==
  /\ u \in Recs /\ u.mod = s.mod /\ u.dropped = s.dropped
  /\ u.keys = (s.keys \ {up}) \cup {down}
  /\ u.put = Append(Append(s.put, <<up, FALSE>>), <<down, TRUE>>)

LEMMA SwitchKey ==
  ASSUME NEW s \in Recs, NEW up \in AllKeys, NEW down \in AllKeys
  PROVE  KeySwitched(s, up, down, I!switch_key(s, up, down))
<1> DEFINE ks == (s.keys \ {up}) \cup {down}
           q == s.put \o <<<<up, FALSE>>, <<down, TRUE>>>>
           z == Append(Append(s.put, <<up, FALSE>>), <<down, TRUE>>)
<1>1. I!switch_key(s, up, down) = [s EXCEPT !.keys = ks, !.put = q]
  BY DEF I!switch_key
<1>2. s = [mod |-> s.mod, keys |-> s.keys, put |-> s.put, dropped |-> s.dropped]
      /\ s.mod \in Mods /\ s.keys \in SUBSET AllKeys /\ s.put \in Seq(Events) /\ s.dropped \in SUBSET AllKeys
  BY DEF Recs
<1>3. <<up, FALSE>> \in Events /\ <<down, TRUE>> \in Events
  BY DEF Events
<1>4. q = z /\ z \in Seq(Events)
  <2> DEFINE p == s.put
             x == <<up, FALSE>>
             y == <<down, TRUE>>
  <2>1. p \in Seq(Events) /\ x \in Events /\ y \in Events
    BY <1>2, <1>3
  <2> HIDE DEF p, x, y
  <2>2. p \o <<x, y>> = Append(Append(p, x), y) /\ Append(Append(p, x), y) \in Seq(Events)
    BY <2>1
  <2> QED BY <2>2 DEF p, x, y
<1>5. ks \in SUBSET AllKeys
  BY <1>2
<1> HIDE DEF ks, q, z
<1>6. I!switch_key(s, up, down) = [mod |-> s.mod, keys |-> ks, put |-> q, dropped |-> s.dropped]
  BY <1>1, <1>2
<1> DEFINE u == I!switch_key(s, up, down)
<1>7. u = [mod |-> s.mod, keys |-> ks, put |-> z, dropped |-> s.dropped]
  BY <1>4, <1>6
<1> HIDE DEF u
<1>8. u \in Recs /\ u.mod = s.mod /\ u.dropped = s.dropped /\ u.keys = ks /\ u.put = z
  BY <1>2, <1>4, <1>5, <1>7 DEF Recs
<1> QED BY <1>8 DEF KeySwitched, u, ks, z

\* The runs of SwitchAll's loop.
SwitchRun(f, s, from, to) ==
  /\ f \in [0 .. Len(Keymap) -> Recs] /\ f[0] = s /\ I!SwitchAll(s, from, to) = f[Len(Keymap)]
  /\ \A n \in 1 .. Len(Keymap) :
       f[n] = IF from[Keymap[n]] \in f[n - 1].keys
                THEN I!switch_key(f[n - 1], from[Keymap[n]], to[Keymap[n]]) ELSE f[n - 1]

LEMMA KeymapFacts ==
  /\ Keymap \in Seq(I!PlainKeys) /\ Len(Keymap) \in Nat
  /\ \A b \in I!PlainKeys : \E n \in 1 .. Len(Keymap) : Keymap[n] = b
  /\ \A m, n \in 1 .. Len(Keymap) : Keymap[m] = Keymap[n] => m = n
<1>1. Keymap \in Seq(I!PlainKeys) /\ I!Range(Keymap) = I!PlainKeys /\ I!IsInjective(Keymap)
  BY InputFacts DEF I!InputAssumption
<1>2. DOMAIN Keymap = 1 .. Len(Keymap) /\ Len(Keymap) \in Nat
  BY <1>1
<1>3. \A b \in I!PlainKeys : \E n \in 1 .. Len(Keymap) : Keymap[n] = b
  BY <1>1, <1>2 DEF I!Range
<1>4. \A m, n \in 1 .. Len(Keymap) : Keymap[m] = Keymap[n] => m = n
  BY <1>1, <1>2 DEF I!IsInjective
<1> QED BY <1>1, <1>2, <1>3, <1>4

LEMMA SwitchRuns ==
  ASSUME NEW s \in Recs, NEW from, NEW to, Switches(from, to)
  PROVE  \E f : SwitchRun(f, s, from, to)
<1> DEFINE l == Len(Keymap)
           Step(n, u) == IF from[Keymap[n]] \in u.keys THEN I!switch_key(u, from[Keymap[n]], to[Keymap[n]]) ELSE u
           G == [p \in Recs \X (1 .. l) |-> Step(p[2], p[1])]
           IsLoop(f) == f = [n \in 0 .. l |-> IF n = 0 THEN s ELSE Step(n, f[n - 1])]
           t == CHOOSE f : IsLoop(f)
<1>1. l \in Nat
  BY KeymapFacts
<1>2. ASSUME NEW n \in 1 .. l, NEW u \in Recs PROVE Step(n, u) \in Recs
  <2>1. Keymap[n] \in I!PlainKeys
    BY KeymapFacts
  <2>2. from[Keymap[n]] \in AllKeys /\ to[Keymap[n]] \in AllKeys
    BY <2>1 DEF Switches, AllKeys
  <2>3. I!switch_key(u, from[Keymap[n]], to[Keymap[n]]) \in Recs
    BY <2>2, SwitchKey DEF KeySwitched
  <2> QED BY <2>3
<1>3. G \in [Recs \X (1 .. l) -> Recs]
  <2> HIDE DEF Step, l
  <2> QED BY <1>2
<1>4. PICK f \in [0 .. l -> Recs] : Folded(f, l, s, G)
  <2> HIDE DEF G, l
  <2> QED BY <1>1, <1>3, FoldExists, Zenon
<1>5. ASSUME NEW n \in 1 .. l PROVE f[n] = Step(n, f[n - 1])
  <2>1. f[n - 1] \in Recs
    BY <1>1, <1>4
  <2> HIDE DEF Step, l
  <2>2. f[n] = G[<<f[n - 1], n>>]
    BY <1>4 DEF Folded
  <2> QED BY <2>1, <2>2
<1>6. IsLoop(f)
  <2> HIDE DEF Step, l
  <2>1. \A n \in 0 .. l : n # 0 => n \in 1 .. l
    BY <1>1
  <2> QED BY <1>4, <1>5, <2>1 DEF Folded
<1>7. IsLoop(t)
  <2> HIDE DEF IsLoop
  <2> QED BY <1>6
<1>8. I!SwitchAll(s, from, to) = t[l]
  BY DEF I!SwitchAll
<1> HIDE DEF t
<1>9. t[0] = s /\ \A n \in 1 .. l : t[n] = Step(n, t[n - 1])
  <2> HIDE DEF Step
  <2>1. 0 \in 0 .. l /\ \A n \in 1 .. l : n \in 0 .. l /\ n # 0
    BY <1>1
  <2> HIDE DEF l
  <2> QED BY <1>7, <2>1
<1>10. \A n \in 0 .. l : t[n] \in Recs
  <2> DEFINE T == {n \in 0 .. l : t[n] \in Recs}
  <2> HIDE DEF Step, l
  <2>1. 0 \in T
    BY <1>1, <1>9
  <2>2. ASSUME NEW n \in 0 .. l, n \in T, n < l PROVE n + 1 \in T
    <3>1. n + 1 \in 1 .. l /\ (n + 1) - 1 = n /\ n + 1 \in 0 .. l
      BY <1>1, <2>2
    <3>2. t[n + 1] = Step(n + 1, t[n]) /\ t[n] \in Recs
      BY <1>9, <2>2, <3>1
    <3> QED BY <1>2, <3>1, <3>2
  <2>3. \A n \in 0 .. l : n \in T
    <3> HIDE DEF T
    <3> QED BY <1>1, <2>1, <2>2, Reaches
  <2> QED BY <2>3
<1>11. t \in [0 .. l -> Recs]
  <2> HIDE DEF Step, l
  <2>1. t = [n \in 0 .. l |-> t[n]]
    BY <1>7
  <2> QED BY <1>10, <2>1
<1>12. SwitchRun(t, s, from, to)
  BY <1>8, <1>9, <1>11 DEF SwitchRun
<1> QED BY <1>12

LEMMA KeysOfAppend ==
  ASSUME NEW q \in Seq(Events), NEW e \in Events
  PROVE  Append(q, e) \in Seq(Events) /\ I!KeysOf(Append(q, e)) = I!KeysOf(q) \cup {I!Base(e[1])}
<1>1. Append(q, e) = q \o <<e>> /\ <<e>> \in Seq(Events) /\ 1 .. Len(<<e>>) = {1} /\ <<e>>[1] = e
      /\ Append(q, e) \in Seq(Events)
  OBVIOUS
<1>2. I!KeysOf(<<e>>) = {I!Base(e[1])}
  <2> DEFINE q1 == <<e>>
  <2>1. DOMAIN q1 = {1} /\ q1[1] = e
    OBVIOUS
  <2> HIDE DEF q1
  <2>2. I!KeysOf(q1) = {I!Base(e[1])}
    BY <2>1 DEF I!KeysOf
  <2> QED BY <2>2 DEF q1
<1> QED BY <1>1, <1>2, KeysOfConcat

LEMMA ConcatAppend ==
  ASSUME NEW q \in Seq(Events), NEW z \in Seq(Events), NEW e \in Events
  PROVE  q \o Append(z, e) = Append(q \o z, e)
OBVIOUS

\* The events put since s, of buttons only, bring about the keys of u.
Trail(s, u) ==
  \E p \in Seq(Events) : /\ u.put = s.put \o p /\ I!KeysOf(p) \cap {I!Menu, I!Power} = {}
                         /\ Leads(StateOf(s.keys, "NO"), p, StateOf(u.keys, "NO"))

\* The first n buttons of Keymap are switched.
SwitchedUpto(n, s, u, from, to) ==
  /\ u \in Recs /\ u.mod = s.mod /\ u.dropped = s.dropped
  /\ \A x \in {I!Menu, I!Power} : x \in u.keys <=> x \in s.keys
  /\ \A m \in 1 .. Len(Keymap) :
       LET b == Keymap[m]
       IN  IF m <= n THEN from[b] \notin u.keys /\ (to[b] \in u.keys <=> from[b] \in s.keys)
                     ELSE to[b] \notin u.keys /\ (from[b] \in u.keys <=> from[b] \in s.keys)
  /\ Trail(s, u)

SwitchedTo(s, u, from, to) ==
  /\ u \in Recs /\ u.mod = s.mod /\ u.dropped = s.dropped
  /\ \A x \in {I!Menu, I!Power} : x \in u.keys <=> x \in s.keys
  /\ \A b \in I!PlainKeys : from[b] \notin u.keys /\ (to[b] \in u.keys <=> from[b] \in s.keys)
  /\ Trail(s, u)

LEMMA TrailNone ==
  ASSUME NEW s \in Recs
  PROVE  Trail(s, s)
<1>1. StateOf(s.keys, "NO") \in States /\ s.put \in Seq(Events)
  BY StateOfType DEF Recs
<1>2. IsRun([j \in 0 .. 0 |-> StateOf(s.keys, "NO")], <<>>)
  BY <1>1, RunEmpty
<1>3. Leads(StateOf(s.keys, "NO"), <<>>, StateOf(s.keys, "NO"))
  BY <1>2 DEF Leads
<1>4. <<>> \in Seq(Events) /\ s.put = s.put \o <<>> /\ I!KeysOf(<<>>) = {}
  BY <1>1, EmptyConcat, EmptyKeys
<1> QED BY <1>3, <1>4 DEF Trail

LEMMA TrailKey ==
  ASSUME NEW s \in Recs, NEW u \in Recs, Trail(s, u), NEW up \in I!PlainKeys \cup I!Outs,
         NEW down \in I!PlainKeys \cup I!Outs, up # down, up \in u.keys, down \notin u.keys
  PROVE  Trail(s, I!switch_key(u, up, down))
<1>1. PICK p \in Seq(Events) : /\ u.put = s.put \o p /\ I!KeysOf(p) \cap {I!Menu, I!Power} = {}
                               /\ Leads(StateOf(s.keys, "NO"), p, StateOf(u.keys, "NO"))
  BY DEF Trail
<1> DEFINE x == <<up, FALSE>>
           y == <<down, TRUE>>
           mid == I!Moved(u.keys, up, FALSE)
           end == I!Moved(mid, down, TRUE)
           v == I!switch_key(u, up, down)
<1>2. u.keys \in SUBSET AllKeys /\ s.put \in Seq(Events) /\ u.put \in Seq(Events)
  BY DEF Recs
<1>3. /\ x \in Events /\ mid \in SUBSET AllKeys
      /\ Moves(StateOf(u.keys, "NO"), x, StateOf(mid, "NO"))
  BY <1>2, KeyMoves
<1>4. down \notin mid
  BY DEF I!Moved
<1>5. /\ y \in Events /\ end \in SUBSET AllKeys
      /\ Moves(StateOf(mid, "NO"), y, StateOf(end, "NO"))
  <2> HIDE DEF mid
  <2> QED BY <1>3, <1>4, KeyMoves
<1>6. end = (u.keys \ {up}) \cup {down}
  BY DEF I!Moved
<1>7. v.keys = end /\ v.put = Append(Append(u.put, x), y)
  <2>1. up \in AllKeys /\ down \in AllKeys
    BY DEF AllKeys
  <2>2. KeySwitched(u, up, down, I!switch_key(u, up, down))
    BY <2>1, SwitchKey, Zenon
  <2> HIDE DEF mid, end
  <2> QED BY <1>6, <2>2 DEF KeySwitched
<1>8. x[1] = up /\ y[1] = down
  OBVIOUS
<1> HIDE DEF x, y, mid, end, v
<1>9. Leads(StateOf(s.keys, "NO"), Append(p, x), StateOf(mid, "NO"))
  BY <1>1, <1>3, StateOfType, LeadsOn
<1> DEFINE px == Append(p, x)
           py == Append(px, y)
<1>10. px \in Seq(Events) /\ I!KeysOf(px) = I!KeysOf(p) \cup {I!Base(up)}
  BY <1>3, <1>8, KeysOfAppend
<1>11. s.put \o px = Append(u.put, x)
  <2> DEFINE q == s.put
  <2>1. q \in Seq(Events) /\ u.put = q \o p
    BY <1>1, <1>2
  <2> HIDE DEF q
  <2>2. q \o Append(p, x) = Append(q \o p, x)
    BY <1>3, <2>1, ConcatAppend
  <2> QED BY <2>1, <2>2 DEF q
<1>12. Leads(StateOf(s.keys, "NO"), px, StateOf(mid, "NO"))
  BY <1>9
<1> HIDE DEF px
<1>13. Leads(StateOf(s.keys, "NO"), py, StateOf(end, "NO"))
  BY <1>5, <1>10, <1>12, StateOfType, LeadsOn
<1>14. py \in Seq(Events) /\ I!KeysOf(py) = I!KeysOf(px) \cup {I!Base(down)}
  BY <1>5, <1>8, <1>10, KeysOfAppend
<1>15. s.put \o py = v.put
  <2> DEFINE q == s.put
  <2>1. q \in Seq(Events)
    BY <1>2
  <2> HIDE DEF q
  <2>2. q \o Append(px, y) = Append(q \o px, y)
    BY <1>5, <1>10, <2>1, ConcatAppend
  <2> QED BY <1>7, <1>11, <2>2 DEF q
<1>16. {I!Base(up), I!Base(down)} \cap {I!Menu, I!Power} = {}
  BY KeyFacts
<1> HIDE DEF py
<1>17. I!KeysOf(py) \cap {I!Menu, I!Power} = {}
  BY <1>1, <1>10, <1>14, <1>16
<1> QED BY <1>7, <1>13, <1>14, <1>15, <1>17 DEF Trail, v

LEMMA SwitchStep ==
  ASSUME NEW s \in Recs, NEW from, NEW to, Switches(from, to),
         NEW n \in Nat, n < Len(Keymap), NEW u \in Recs, SwitchedUpto(n, s, u, from, to)
  PROVE  SwitchedUpto(n + 1, s, IF from[Keymap[n + 1]] \in u.keys
                                  THEN I!switch_key(u, from[Keymap[n + 1]], to[Keymap[n + 1]]) ELSE u,
                      from, to)
<1> DEFINE b == Keymap[n + 1]
           v == I!switch_key(u, from[b], to[b])
<1>1. n + 1 \in 1 .. Len(Keymap) /\ ~ (n + 1 <= n)
  BY KeymapFacts
<1>2. b \in I!PlainKeys /\ \A m \in 1 .. Len(Keymap) : Keymap[m] \in I!PlainKeys /\ (Keymap[m] = b => m = n + 1)
  <2>1. Keymap \in Seq(I!PlainKeys)
    BY KeymapFacts
  <2>2. \A m \in 1 .. Len(Keymap) : Keymap[m] \in I!PlainKeys
    BY <2>1
  <2>3. \A m \in 1 .. Len(Keymap) : Keymap[m] = Keymap[n + 1] => m = n + 1
    BY <1>1, KeymapFacts
  <2>4. b \in I!PlainKeys
    BY <1>1, <2>2
  <2> QED BY <2>2, <2>3, <2>4
<1>3. /\ from[b] \in I!PlainKeys \cup I!Outs /\ to[b] \in I!PlainKeys \cup I!Outs /\ from[b] # to[b]
      /\ from[b] \in AllKeys /\ to[b] \in AllKeys
  BY <1>2 DEF Switches, AllKeys
<1>4. to[b] \notin u.keys /\ (from[b] \in u.keys <=> from[b] \in s.keys)
  BY <1>1 DEF SwitchedUpto
<1>5. ASSUME NEW m \in 1 .. Len(Keymap), m # n + 1
      PROVE  /\ from[Keymap[m]] \notin {from[b], to[b]} /\ to[Keymap[m]] \notin {from[b], to[b]}
             /\ (m <= n + 1 <=> m <= n)
  BY <1>2, <1>5 DEF Switches
<1> HIDE DEF b
<1>6. CASE from[b] \in u.keys
  <2>1. /\ v \in Recs /\ v.mod = s.mod /\ v.dropped = s.dropped
        /\ v.keys = (u.keys \ {from[b]}) \cup {to[b]}
    BY <1>3, SwitchKey DEF SwitchedUpto, KeySwitched
  <2>2. Trail(s, v)
    BY <1>3, <1>4, <1>6, TrailKey DEF SwitchedUpto
  <2>3. from[b] # I!Menu /\ from[b] # I!Power /\ to[b] # I!Menu /\ to[b] # I!Power
    BY <1>3, KeyFacts
  <2> HIDE DEF v
  <2>4. \A x \in {I!Menu, I!Power} : x \in v.keys <=> x \in s.keys
    BY <2>1, <2>3 DEF SwitchedUpto
  <2>5. ASSUME NEW m \in 1 .. Len(Keymap)
        PROVE  LET c == Keymap[m]
               IN  IF m <= n + 1 THEN from[c] \notin v.keys /\ (to[c] \in v.keys <=> from[c] \in s.keys)
                                 ELSE to[c] \notin v.keys /\ (from[c] \in v.keys <=> from[c] \in s.keys)
    <3> DEFINE c == Keymap[m]
    <3>1. CASE m = n + 1
      <4>1. c = b /\ m <= n + 1
        BY <3>1 DEF b
      <4> HIDE DEF c
      <4> QED BY <1>3, <1>4, <1>6, <2>1, <4>1 DEF c
    <3>2. CASE m # n + 1
      <4>1. /\ from[c] \notin {from[b], to[b]} /\ to[c] \notin {from[b], to[b]}
            /\ (m <= n + 1 <=> m <= n)
        BY <1>5, <3>2
      <4>2. IF m <= n THEN from[c] \notin u.keys /\ (to[c] \in u.keys <=> from[c] \in s.keys)
                      ELSE to[c] \notin u.keys /\ (from[c] \in u.keys <=> from[c] \in s.keys)
        BY DEF SwitchedUpto
      <4> HIDE DEF c
      <4> QED BY <2>1, <4>1, <4>2 DEF c
    <3> QED BY <3>1, <3>2
  <2>6. SwitchedUpto(n + 1, s, v, from, to)
    BY <2>1, <2>2, <2>4, <2>5 DEF SwitchedUpto
  <2> QED BY <1>6, <2>6 DEF v, b
<1>7. CASE from[b] \notin u.keys
  <2>1. ASSUME NEW m \in 1 .. Len(Keymap)
        PROVE  LET c == Keymap[m]
               IN  IF m <= n + 1 THEN from[c] \notin u.keys /\ (to[c] \in u.keys <=> from[c] \in s.keys)
                                 ELSE to[c] \notin u.keys /\ (from[c] \in u.keys <=> from[c] \in s.keys)
    <3> DEFINE c == Keymap[m]
    <3>1. CASE m = n + 1
      <4>1. c = b /\ m <= n + 1
        BY <3>1 DEF b
      <4> HIDE DEF c
      <4> QED BY <1>4, <1>7, <4>1 DEF c
    <3>2. CASE m # n + 1
      <4>1. m <= n + 1 <=> m <= n
        BY <1>5, <3>2
      <4>2. IF m <= n THEN from[c] \notin u.keys /\ (to[c] \in u.keys <=> from[c] \in s.keys)
                      ELSE to[c] \notin u.keys /\ (from[c] \in u.keys <=> from[c] \in s.keys)
        BY DEF SwitchedUpto
      <4> HIDE DEF c
      <4> QED BY <4>1, <4>2 DEF c
    <3> QED BY <3>1, <3>2
  <2>2. SwitchedUpto(n + 1, s, u, from, to)
    BY <2>1 DEF SwitchedUpto
  <2> QED BY <1>7, <2>2 DEF b
<1> QED BY <1>6, <1>7

LEMMA SwitchAllDoes ==
  ASSUME NEW s \in Recs, NEW from, NEW to, Switches(from, to), \A b \in I!PlainKeys : to[b] \notin s.keys
  PROVE  SwitchedTo(s, I!SwitchAll(s, from, to), from, to)
<1> DEFINE l == Len(Keymap)
<1>1. PICK f : SwitchRun(f, s, from, to)
  BY SwitchRuns
<1>2. l \in Nat /\ \A m \in 1 .. l : Keymap[m] \in I!PlainKeys
  BY KeymapFacts
<1> DEFINE T == {n \in 0 .. l : SwitchedUpto(n, s, f[n], from, to)}
<1>3. 0 \in T
  <2>1. f[0] = s /\ 0 \in 0 .. l
    BY <1>1, <1>2 DEF SwitchRun
  <2>2. \A m \in 1 .. l : ~ (m <= 0)
    OBVIOUS
  <2>3. SwitchedUpto(0, s, s, from, to)
    BY <1>2, <2>2, TrailNone DEF SwitchedUpto
  <2> QED BY <2>1, <2>3
<1>4. ASSUME NEW n \in 0 .. l, n \in T, n < l PROVE n + 1 \in T
  <2>1. n + 1 \in 1 .. l /\ (n + 1) - 1 = n /\ n + 1 \in 0 .. l /\ n \in Nat /\ n \in 0 .. l
    BY <1>2, <1>4
  <2>2. f[n] \in Recs /\ SwitchedUpto(n, s, f[n], from, to)
    BY <1>1, <1>4 DEF SwitchRun
  <2>3. f[n + 1] = IF from[Keymap[n + 1]] \in f[n].keys
                     THEN I!switch_key(f[n], from[Keymap[n + 1]], to[Keymap[n + 1]]) ELSE f[n]
    BY <1>1, <2>1 DEF SwitchRun
  <2> DEFINE u == f[n]
             v == f[n + 1]
  <2>4. u \in Recs /\ SwitchedUpto(n, s, u, from, to)
        /\ v = IF from[Keymap[n + 1]] \in u.keys
                     THEN I!switch_key(u, from[Keymap[n + 1]], to[Keymap[n + 1]]) ELSE u
    BY <2>2, <2>3
  <2> HIDE DEF u, v
  <2>5. SwitchedUpto(n + 1, s, v, from, to)
    BY <1>4, <2>1, <2>4, SwitchStep
  <2> QED BY <2>1, <2>5 DEF v
<1>5. \A n \in 0 .. l : n \in T
  <2> HIDE DEF T, l
  <2> QED BY <1>2, <1>3, <1>4, Reaches
<1>6. l \in 0 .. l /\ I!SwitchAll(s, from, to) = f[l]
  BY <1>1, <1>2 DEF SwitchRun
<1> DEFINE u == I!SwitchAll(s, from, to)
<1>7. SwitchedUpto(l, s, u, from, to)
  BY <1>5, <1>6
<1> HIDE DEF u
<1>8. \A b \in I!PlainKeys : from[b] \notin u.keys /\ (to[b] \in u.keys <=> from[b] \in s.keys)
  <2> SUFFICES ASSUME NEW b \in I!PlainKeys
               PROVE  from[b] \notin u.keys /\ (to[b] \in u.keys <=> from[b] \in s.keys)
    OBVIOUS
  <2>1. PICK m \in 1 .. l : Keymap[m] = b
    BY KeymapFacts
  <2>2. m <= l
    BY <1>2
  <2> QED BY <1>7, <2>1, <2>2 DEF SwitchedUpto
<1>9. SwitchedTo(s, u, from, to)
  BY <1>7, <1>8 DEF SwitchedUpto, SwitchedTo
<1> QED BY <1>9 DEF u
\* A tap among the events of two parts is one in either.
LEMMA PendingParts ==
  ASSUME NEW p \in Seq(Events), NEW q \in Seq(Events), NEW r, NEW u, NEW t,
         \A j \in 0 .. Len(p) : t[j] = r[j], \A j \in 0 .. Len(q) : t[Len(p) + j] = u[j]
  PROVE  Pending(t, p \o q) <=> Pending(r, p) \/ Pending(u, q)
<1> DEFINE l == Len(p)
           m == Len(q)
           s == p \o q
<1>1. /\ l \in Nat /\ m \in Nat /\ Len(s) = l + m
      /\ \A j \in 1 .. l : s[j] = p[j]
      /\ \A j \in 1 .. m : s[l + j] = q[j]
  BY Concat
<1>3. /\ \A j \in 0 .. l : t[j] = r[j]
      /\ \A j \in 0 .. m : t[l + j] = u[j]
  OBVIOUS
<1> DEFINE Tapped(v, w, n) == \E j \in 1 .. n : v[j][1] = I!Menu /\ ~v[j][2] /\ w[j - 1].mod = "MAYBE"
<1>d. /\ Pending(r, p) <=> Tapped(p, r, l)
      /\ Pending(u, q) <=> Tapped(q, u, m)
      /\ Pending(t, s) <=> Tapped(s, t, l + m)
  BY <1>1 DEF Pending
<1> HIDE DEF l, m, s
<1>6. Tapped(s, t, l + m) => Tapped(p, r, l) \/ Tapped(q, u, m)
  <2> SUFFICES ASSUME NEW j \in 1 .. l + m, s[j][1] = I!Menu, ~s[j][2], t[j - 1].mod = "MAYBE"
               PROVE  Tapped(p, r, l) \/ Tapped(q, u, m)
    OBVIOUS
  <2>1. CASE j <= l
    <3>1. j \in 1 .. l /\ j - 1 \in 0 .. l
      BY <1>1, <2>1
    <3> QED BY <1>1, <1>3, <3>1
  <2>2. CASE ~ (j <= l)
    <3>1. j - l \in 1 .. m /\ l + (j - l) = j
      BY <1>1, <2>2
    <3>2. PICK n \in 1 .. m : l + n = j
      BY <3>1
    <3>3. n - 1 \in 0 .. m /\ l + (n - 1) = j - 1
      BY <1>1, <3>2
    <3>4. q[n] = s[j] /\ u[n - 1] = t[j - 1]
      BY <1>1, <1>3, <3>2, <3>3
    <3> QED BY <3>4
  <2> QED BY <2>1, <2>2
<1>7. Tapped(p, r, l) => Tapped(s, t, l + m)
  <2> SUFFICES ASSUME NEW j \in 1 .. l, p[j][1] = I!Menu, ~p[j][2], r[j - 1].mod = "MAYBE"
               PROVE  Tapped(s, t, l + m)
    OBVIOUS
  <2>1. j \in 1 .. l + m /\ j - 1 \in 0 .. l
    BY <1>1
  <2> QED BY <1>1, <1>3, <2>1
<1>8. Tapped(q, u, m) => Tapped(s, t, l + m)
  <2> SUFFICES ASSUME NEW j \in 1 .. m, q[j][1] = I!Menu, ~q[j][2], u[j - 1].mod = "MAYBE"
               PROVE  Tapped(s, t, l + m)
    OBVIOUS
  <2>1. l + j \in 1 .. l + m /\ j - 1 \in 0 .. m /\ l + (j - 1) = (l + j) - 1
    BY <1>1
  <2>2. s[l + j] = q[j] /\ t[(l + j) - 1] = u[j - 1]
    BY <1>1, <1>3, <2>1
  <2> QED BY <2>1, <2>2
<1>10. Pending(t, s) <=> Pending(r, p) \/ Pending(u, q)
  <2> HIDE DEF Tapped
  <2> QED BY <1>6, <1>7, <1>8, <1>d
<1> QED BY <1>10 DEF s

------------------------------------------------------------------------------
(* The events that in_sdl.c puts into the queue.                             *)

\* Events that take x to y; a press of MENU is the beginning of a tap, and there is one if tapped.
PutRun(r, p, x, y, tapped) ==
  /\ IsRun(r, p) /\ r[0] = x /\ r[Len(p)] = y
  /\ Pending(r, p) <=> tapped
  /\ I!Power \notin I!KeysOf(p)
  /\ \A j \in 1 .. Len(p) :
       p[j][1] = I!Menu /\ p[j][2] =>
         j < Len(p) /\ p[j + 1][1] = I!Menu /\ ~p[j + 1][2] /\ r[j].mod = "MAYBE"

LEMMA PutJoin ==
  ASSUME NEW p \in Seq(Events), NEW q \in Seq(Events), NEW x, NEW y, NEW z, NEW f, NEW g, NEW r, NEW u,
         PutRun(r, p, x, y, f), PutRun(u, q, y, z, g)
  PROVE  PutRun(Joined(r, p, u, q), p \o q, x, z, f \/ g)
<1> DEFINE l == Len(p)
           m == Len(q)
           s == p \o q
           t == Joined(r, p, u, q)
<1>1. /\ l \in Nat /\ m \in Nat /\ Len(s) = l + m /\ s \in Seq(Events)
      /\ \A j \in 1 .. l : s[j] = p[j]
      /\ \A j \in 1 .. m : s[l + j] = q[j]
  BY Concat
<1>2. IsRun(r, p) /\ IsRun(u, q) /\ r[0] = x /\ r[l] = y /\ u[0] = y /\ u[m] = z
  BY DEF PutRun
<1>3. /\ IsRun(t, s)
      /\ \A j \in 0 .. l : t[j] = r[j]
      /\ \A j \in 0 .. m : t[l + j] = u[j]
  BY <1>2, RunJoin
<1>4. I!Power \notin I!KeysOf(s)
  BY KeysOfConcat DEF PutRun
<1>k. (Pending(r, p) <=> f) /\ (Pending(u, q) <=> g)
  BY DEF PutRun
<1>h. /\ \A j \in 1 .. l : p[j][1] = I!Menu /\ p[j][2] =>
           j < l /\ p[j + 1][1] = I!Menu /\ ~p[j + 1][2] /\ r[j].mod = "MAYBE"
      /\ \A j \in 1 .. m : q[j][1] = I!Menu /\ q[j][2] =>
           j < m /\ q[j + 1][1] = I!Menu /\ ~q[j + 1][2] /\ u[j].mod = "MAYBE"
  BY DEF PutRun
<1>6. Pending(t, s) <=> Pending(r, p) \/ Pending(u, q)
  BY <1>3, PendingParts DEF l, m, s
<1> HIDE DEF l, m, s, t
<1>5. t[0] = x /\ t[l + m] = z
  <2>1. 0 \in 0 .. l /\ m \in 0 .. m
    BY <1>1
  <2> QED BY <1>2, <1>3, <2>1
<1>9. ASSUME NEW j \in 1 .. l + m, s[j][1] = I!Menu, s[j][2]
      PROVE  j < l + m /\ s[j + 1][1] = I!Menu /\ ~s[j + 1][2] /\ t[j].mod = "MAYBE"
  <2>1. CASE j <= l
    <3>1. j \in 1 .. l /\ s[j] = p[j]
      BY <1>1, <2>1
    <3>2. j < l /\ p[j + 1][1] = I!Menu /\ ~p[j + 1][2] /\ r[j].mod = "MAYBE"
      BY <1>9, <1>h, <3>1
    <3>3. j + 1 \in 1 .. l /\ j \in 0 .. l
      BY <1>1, <3>1, <3>2
    <3> QED BY <1>1, <1>3, <3>2, <3>3
  <2>2. CASE ~ (j <= l)
    <3>1. j - l \in 1 .. m /\ l + (j - l) = j
      BY <1>1, <2>2
    <3>2. PICK n \in 1 .. m : l + n = j
      BY <3>1
    <3>3. s[j] = q[n]
      BY <1>1, <3>2
    <3>4. n < m /\ q[n + 1][1] = I!Menu /\ ~q[n + 1][2] /\ u[n].mod = "MAYBE"
      BY <1>9, <1>h, <3>3
    <3>5. n + 1 \in 1 .. m /\ n \in 0 .. m /\ l + (n + 1) = j + 1
      BY <1>1, <3>2, <3>4
    <3>6. s[j + 1] = q[n + 1] /\ t[j] = u[n]
      BY <1>1, <1>3, <3>2, <3>5
    <3> QED BY <1>1, <3>2, <3>4, <3>6
  <2> QED BY <2>1, <2>2
<1>10. Pending(t, s) <=> f \/ g
  BY <1>6, <1>k
<1>11. PutRun(t, s, x, z, f \/ g)
  BY <1>1, <1>3, <1>4, <1>5, <1>9, <1>10 DEF PutRun
<1> QED BY <1>11 DEF t, s

\* What was put since s makes the keys of it those of t.
Puts(s, t, tapped) ==
  \E p \in Seq(Events) : /\ t.put = s.put \o p
                         /\ \E r : PutRun(r, p, StateOf(s.keys, "NO"), StateOf(t.keys, "NO"), tapped)

LEMMA PutsJoin ==
  ASSUME NEW s \in Recs, NEW t \in Recs, NEW u \in Recs, NEW f, NEW g, Puts(s, t, f), Puts(t, u, g)
  PROVE  Puts(s, u, f \/ g)
<1>1. PICK p \in Seq(Events) :
        t.put = s.put \o p /\ \E r : PutRun(r, p, StateOf(s.keys, "NO"), StateOf(t.keys, "NO"), f)
  BY DEF Puts
<1>2. PICK q \in Seq(Events) :
        u.put = t.put \o q /\ \E v : PutRun(v, q, StateOf(t.keys, "NO"), StateOf(u.keys, "NO"), g)
  BY DEF Puts
<1>r. PICK r : PutRun(r, p, StateOf(s.keys, "NO"), StateOf(t.keys, "NO"), f)
  BY <1>1
<1>v. PICK v : PutRun(v, q, StateOf(t.keys, "NO"), StateOf(u.keys, "NO"), g)
  BY <1>2
<1> DEFINE x == StateOf(s.keys, "NO")
           y == StateOf(t.keys, "NO")
           z == StateOf(u.keys, "NO")
<1>3. PutRun(r, p, x, y, f) /\ PutRun(v, q, y, z, g)
  BY <1>r, <1>v
<1> HIDE DEF x, y, z
<1>4. PutRun(Joined(r, p, v, q), p \o q, x, z, f \/ g)
  BY <1>3, PutJoin
<1>5. p \o q \in Seq(Events) /\ u.put = s.put \o (p \o q)
  <2>1. s.put \in Seq(Events)
    BY DEF Recs
  <2> DEFINE w == s.put
  <2>2. w \in Seq(Events) /\ u.put = (w \o p) \o q
    BY <1>1, <1>2, <2>1
  <2> HIDE DEF w
  <2>3. (w \o p) \o q = w \o (p \o q)
    BY <2>2
  <2> QED BY <2>2, <2>3 DEF w
<1> QED BY <1>4, <1>5 DEF Puts, x, z

LEMMA PutsRun ==
  ASSUME NEW s \in Recs, NEW t \in Recs, NEW p \in Seq(Events), t.put = s.put \o p, NEW r, IsRun(r, p),
         r[0] = StateOf(s.keys, "NO"), r[Len(p)] = StateOf(t.keys, "NO"), I!KeysOf(p) \cap {I!Menu, I!Power} = {}
  PROVE  Puts(s, t, FALSE)
<1>1. ~ Pending(r, p)
  BY NotPending
<1>2. \A j \in 1 .. Len(p) : p[j][1] # I!Menu
  BY KeysOfMember, KeyFacts
<1>3. PutRun(r, p, StateOf(s.keys, "NO"), StateOf(t.keys, "NO"), FALSE)
  BY <1>1, <1>2 DEF PutRun
<1> QED BY <1>3 DEF Puts

LEMMA PutsTrail ==
  ASSUME NEW s \in Recs, NEW t \in Recs, Trail(s, t)
  PROVE  Puts(s, t, FALSE)
<1>1. PICK p \in Seq(Events) : /\ t.put = s.put \o p /\ I!KeysOf(p) \cap {I!Menu, I!Power} = {}
                               /\ Leads(StateOf(s.keys, "NO"), p, StateOf(t.keys, "NO"))
  BY DEF Trail
<1>2. PICK r : IsRun(r, p) /\ r[0] = StateOf(s.keys, "NO") /\ r[Len(p)] = StateOf(t.keys, "NO")
  BY <1>1 DEF Leads
<1> QED BY <1>1, <1>2, PutsRun

LEMMA PutsKey ==
  ASSUME NEW s \in Recs, NEW t \in Recs, NEW x \in I!PlainKeys \cup I!Outs, NEW down \in BOOLEAN,
         ~ down => x \in s.keys, t.keys = I!Moved(s.keys, x, down), t.put = Append(s.put, <<x, down>>)
  PROVE  Puts(s, t, FALSE)
<1> DEFINE e == <<x, down>>
           a == StateOf(s.keys, "NO")
           b == StateOf(t.keys, "NO")
<1>1. s.keys \in SUBSET AllKeys /\ t.keys \in SUBSET AllKeys /\ s.put \in Seq(Events)
  BY DEF Recs
<1>2. e \in Events /\ Moves(a, e, b)
  BY <1>1, KeyMoves
<1>3. a \in States /\ b \in States
  BY <1>1, StateOfType
<1>4. e[1] = x
  OBVIOUS
<1>5. t.put = Append(s.put, e)
  OBVIOUS
<1> HIDE DEF e, a, b
<1> DEFINE p == <<e>>
           r == [j \in 0 .. 1 |-> IF j = 0 THEN a ELSE b]
<1>6. IsRun(r, p)
  BY <1>2, <1>3, RunOne
<1>7. r[0] = a /\ r[1] = b /\ Len(p) = 1 /\ p \in Seq(Events) /\ p = Append(<<>>, e) /\ <<>> \in Seq(Events)
  BY <1>2
<1>8. I!KeysOf(p) = {I!Base(x)}
  <2>1. I!KeysOf(Append(<<>>, e)) = I!KeysOf(<<>>) \cup {I!Base(e[1])}
    BY <1>2, <1>7, KeysOfAppend
  <2> QED BY <1>4, <1>7, <2>1, EmptyKeys
<1>9. I!Base(x) \notin {I!Menu, I!Power}
  BY KeyFacts
<1>10. t.put = s.put \o p
  <2> DEFINE q == s.put
  <2>1. q \in Seq(Events) /\ t.put = Append(q, e)
    BY <1>1, <1>5
  <2> HIDE DEF q
  <2>2. Append(q, e) = q \o p
    BY <1>2, <2>1
  <2> QED BY <2>1, <2>2 DEF q
<1> HIDE DEF p, r
<1> QED BY <1>6, <1>7, <1>8, <1>9, <1>10, PutsRun DEF a, b

LEMMA MenuEvents ==
  ASSUME NEW down \in BOOLEAN
  PROVE  <<I!Menu, down>> \in Events /\ <<I!Menu, down>>[1] = I!Menu /\ <<I!Menu, down>>[2] = down
BY DEF Events, AllKeys

LEMMA PutsRelease ==
  ASSUME NEW s \in Recs, NEW t \in Recs, t.keys = s.keys, t.put = Append(s.put, <<I!Menu, FALSE>>)
  PROVE  Puts(s, t, FALSE)
<1> DEFINE e == <<I!Menu, FALSE>>
           a == StateOf(s.keys, "NO")
<1>1. s.keys \in SUBSET AllKeys /\ s.put \in Seq(Events)
  BY DEF Recs
<1>2. e \in Events /\ e[1] = I!Menu /\ e[2] = FALSE
  BY MenuEvents
<1>3. a \in States /\ a.mod = "NO" /\ StateOf(t.keys, "NO") = a
  BY <1>1, StateOfType DEF StateOf
<1>4. t.put = Append(s.put, e)
  OBVIOUS
<1> HIDE DEF e, a
<1>5. Moves(a, e, a)
  BY <1>2, <1>3 DEF Moves, MovesMenu
<1> DEFINE p == <<e>>
           r == [j \in 0 .. 1 |-> IF j = 0 THEN a ELSE a]
<1>6. IsRun(r, p)
  BY <1>2, <1>3, <1>5, RunOne
<1>7. /\ r[0] = a /\ r[1] = a /\ Len(p) = 1 /\ p \in Seq(Events) /\ p[1] = e
      /\ p = Append(<<>>, e) /\ <<>> \in Seq(Events) /\ 1 .. 1 = {1}
  BY <1>2
<1>8. I!Power \notin I!KeysOf(p)
  <2>1. I!KeysOf(Append(<<>>, e)) = I!KeysOf(<<>>) \cup {I!Base(e[1])}
    BY <1>2, <1>7, KeysOfAppend
  <2> QED BY <1>2, <1>7, <2>1, EmptyKeys, KeyFacts
<1>9. t.put = s.put \o p
  <2> DEFINE q == s.put
  <2>1. q \in Seq(Events) /\ t.put = Append(q, e)
    BY <1>1, <1>4
  <2> HIDE DEF q
  <2>2. Append(q, e) = q \o p
    BY <1>2, <2>1
  <2> QED BY <2>1, <2>2 DEF q
<1> HIDE DEF p, r
<1>10. ~ Pending(r, p)
  <2>1. \A j \in 1 .. Len(p) : r[j - 1].mod = "NO"
    BY <1>3, <1>7
  <2> QED BY <2>1 DEF Pending
<1>11. PutRun(r, p, a, a, FALSE)
  BY <1>2, <1>6, <1>7, <1>8, <1>10 DEF PutRun
<1> QED BY <1>3, <1>7, <1>9, <1>11 DEF Puts, a

LEMMA PutsTap ==
  ASSUME NEW s \in Recs, NEW t \in Recs, t.keys = s.keys, t.put = s.put \o <<<<I!Menu, TRUE>>, <<I!Menu, FALSE>>>>,
         s.keys \cap I!PlainKeys = {}, Others(s.keys) = {}
  PROVE  Puts(s, t, TRUE)
<1> DEFINE x == <<I!Menu, TRUE>>
           y == <<I!Menu, FALSE>>
           a == StateOf(s.keys, "NO")
           b == [held |-> {}, out |-> {}, mod |-> "MAYBE"]
<1>1. s.keys \in SUBSET AllKeys /\ s.put \in Seq(Events)
  BY DEF Recs
<1>2. x \in Events /\ x[1] = I!Menu /\ x[2] = TRUE /\ y \in Events /\ y[1] = I!Menu /\ y[2] = FALSE
  BY MenuEvents
<1>3. a \in States /\ a.mod = "NO" /\ a.held = {} /\ a.out = {} /\ StateOf(t.keys, "NO") = a
  BY <1>1, StateOfType DEF StateOf
<1>4. b \in States /\ b.held = {} /\ b.out = {} /\ b.mod = "MAYBE"
  BY DEF States, Mods
<1>5. t.put = s.put \o <<x, y>>
  OBVIOUS
<1> HIDE DEF x, y, a, b
<1>6. Moves(a, x, b) /\ Moves(b, y, a)
  BY <1>2, <1>3, <1>4 DEF Moves, MovesMenu
<1> DEFINE p == <<x, y>>
           r == [j \in 0 .. 2 |-> IF j = 1 THEN b ELSE a]
<1>7. /\ p \in Seq(Events) /\ Len(p) = 2 /\ p[1] = x /\ p[2] = y
      /\ r \in [0 .. 2 -> States] /\ r[0] = a /\ r[1] = b /\ r[2] = a
  BY <1>2, <1>3, <1>4
<1> HIDE DEF p, r
<1>8. \A j \in 1 .. Len(p) : j = 1 \/ j = 2
  BY <1>7
<1>9. IsRun(r, p)
  <2> SUFFICES ASSUME NEW j \in 1 .. Len(p) PROVE Moves(r[j - 1], p[j], r[j])
    BY <1>7 DEF IsRun
  <2>1. CASE j = 1
    BY <1>6, <1>7, <2>1
  <2>2. CASE j = 2
    <3>1. j - 1 = 1
      BY <2>2
    <3> QED BY <1>6, <1>7, <2>2, <3>1
  <2> QED BY <1>8, <2>1, <2>2
<1>10. Pending(r, p)
  <2>1. 2 \in 1 .. Len(p) /\ 2 - 1 = 1
    BY <1>7
  <2> QED BY <1>2, <1>4, <1>7, <2>1 DEF Pending
<1>11. I!Power \notin I!KeysOf(p)
  BY <1>2, <1>7, <1>8, KeysOfMember, KeyFacts
<1>12. ASSUME NEW j \in 1 .. Len(p), p[j][1] = I!Menu, p[j][2]
       PROVE  j < Len(p) /\ p[j + 1][1] = I!Menu /\ ~p[j + 1][2] /\ r[j].mod = "MAYBE"
  <2>1. j = 1 /\ j + 1 = 2
    BY <1>2, <1>7, <1>8, <1>12
  <2> QED BY <1>2, <1>4, <1>7, <2>1
<1>13. PutRun(r, p, a, a, TRUE)
  BY <1>7, <1>9, <1>10, <1>11, <1>12 DEF PutRun
<1>14. t.put = s.put \o p
  BY <1>5 DEF p
<1> QED BY <1>3, <1>7, <1>13, <1>14 DEF Puts, a
------------------------------------------------------------------------------
(* One event translated.                                                     *)

\* The keys as in_sdl.c is about to have them are as a says.
Sync(s, a) == /\ s.mod = a.mod /\ StateOf(s.keys, s.mod) = a
              /\ s.mod # "NO" => s.keys \cap I!PlainKeys = {}

\* e takes s, which is as a says, to t.
Translates(s, a, e, t, c) ==
  /\ t \in Recs /\ Sync(t, c) /\ t.dropped = s.dropped
  /\ Puts(s, t, e[1] = I!Menu /\ ~e[2] /\ a.mod = "MAYBE")

LEMMA RecFields ==
  ASSUME NEW s \in Recs
  PROVE  /\ s = [mod |-> s.mod, keys |-> s.keys, put |-> s.put, dropped |-> s.dropped]
         /\ s.mod \in Mods /\ s.keys \in SUBSET AllKeys /\ s.put \in Seq(Events)
         /\ s.dropped \in SUBSET AllKeys
BY DEF Recs

LEMMA TranslateKeyAlone ==
  ASSUME NEW s \in Recs, NEW a \in States, NEW e \in Events, NEW c \in States, Moves(a, e, c), Sync(s, a),
         e[1] # I!Menu, s.mod = "NO"
  PROVE  Translates(s, a, e, I!OtherKey(s, e[1], e[2]), c)
<1> DEFINE x == e[1]
           down == e[2]
           t == I!OtherKey(s, x, down)
           ks == I!Moved(s.keys, x, down)
           q == Append(s.put, <<x, down>>)
<1>1. x \in I!PlainKeys \cup I!Outs /\ x # I!Menu /\ down \in BOOLEAN
  BY MoveCases, EventKey
<1>2. /\ s = [mod |-> s.mod, keys |-> s.keys, put |-> s.put, dropped |-> s.dropped]
      /\ s.mod \in Mods /\ s.keys \in SUBSET AllKeys /\ s.put \in Seq(Events)
      /\ s.dropped \in SUBSET AllKeys
  BY RecFields
<1>3. a.held = s.keys \cap I!PlainKeys /\ a.out = Others(s.keys) /\ a.mod = "NO"
  BY DEF Sync, StateOf
<1>4. ~ down => x \in s.keys
  <2>1. CASE x \in I!PlainKeys
    BY <1>3, <2>1, MoveCases DEF MovesPlain
  <2>2. CASE x \in I!Outs
    <3>1. ~ down => I!Base(x) \in Others(s.keys)
      BY <1>3, <2>2, MoveCases DEF MovesOut
    <3>2. I!Base(x) \in I!PlainKeys /\ Out[I!Base(x)] = x
      BY <2>2, KeyFacts
    <3> QED BY <3>1, <3>2 DEF Others
  <2> QED BY <1>1, <2>1, <2>2
<1>5. ks \in SUBSET AllKeys /\ Moves(a, <<x, down>>, StateOf(ks, "NO")) /\ <<x, down>> \in Events
  <2>1. a = StateOf(s.keys, "NO")
    BY DEF Sync
  <2> QED BY <1>1, <1>2, <1>4, <2>1, KeyMoves
<1>6. StateOf(ks, "NO") = c
  <2> DEFINE b == StateOf(ks, "NO")
  <2>1. b \in States /\ e = <<x, down>>
    BY <1>5, StateOfType, EventKey
  <2>2. Moves(a, e, b)
    BY <1>5, <2>1
  <2> HIDE DEF b, x, down
  <2>3. b.held = c.held /\ b.out = c.out /\ b.mod = c.mod
    <3>1. CASE e[1] \in I!PlainKeys
      <4>1. MovesPlain(a, e, b) /\ MovesPlain(a, e, c)
        BY <2>2, <3>1, MoveCases
      <4> QED BY <4>1 DEF MovesPlain
    <3>2. CASE e[1] \in I!Outs
      <4>1. MovesOut(a, e, b) /\ MovesOut(a, e, c)
        BY <2>2, <3>2, MoveCases
      <4> QED BY <4>1 DEF MovesOut
    <3> QED BY <1>1, <3>1, <3>2 DEF x
  <2> QED BY <2>1, <2>3, StateEq DEF b
<1>7. t = [mod |-> s.mod, keys |-> ks, put |-> q, dropped |-> s.dropped]
  <2>1. t = [s EXCEPT !.keys = ks, !.put = q]
    BY DEF I!OtherKey
  <2> HIDE DEF t, ks, q
  <2> QED BY <1>2, <2>1
<1>8. q \in Seq(Events)
  BY <1>2, <1>5
<1> HIDE DEF t, ks, q, x, down
<1>9. t \in Recs /\ t.mod = "NO" /\ t.keys = ks /\ t.put = q /\ t.dropped = s.dropped
  BY <1>2, <1>5, <1>7, <1>8 DEF Recs
<1>10. Puts(s, t, FALSE)
  BY <1>1, <1>4, <1>9, PutsKey DEF ks, q
<1>11. Sync(t, c)
  BY <1>6, <1>9 DEF Sync, StateOf
<1>12. Translates(s, a, e, t, c)
  BY <1>9, <1>10, <1>11, <1>1 DEF Translates, x
<1> QED BY <1>12 DEF t, x, down

LEMMA TranslateKeyWith ==
  ASSUME NEW s \in Recs, NEW a \in States, NEW e \in Events, NEW c \in States, Moves(a, e, c), Sync(s, a),
         e[1] # I!Menu, s.mod # "NO"
  PROVE  Translates(s, a, e, I!OtherKey(s, e[1], e[2]), c)
<1> DEFINE b == e[1]
           x == Out[b]
           down == e[2]
           t == I!OtherKey(s, b, down)
           ks == I!Moved(s.keys, x, down)
           q == Append(s.put, <<x, down>>)
<1>1. /\ s = [mod |-> s.mod, keys |-> s.keys, put |-> s.put, dropped |-> s.dropped]
      /\ s.mod \in Mods /\ s.keys \in SUBSET AllKeys /\ s.put \in Seq(Events)
      /\ s.dropped \in SUBSET AllKeys
  BY RecFields
<1>2. a.held = Others(s.keys) /\ a.out = {} /\ a.mod = s.mod /\ s.keys \cap I!PlainKeys = {}
  BY DEF Sync, StateOf
<1>3. b \in I!PlainKeys /\ b # I!Menu /\ down \in BOOLEAN
  <2>1. e[1] \notin I!Outs
    BY <1>2, MoveCases DEF MovesOut
  <2> QED BY <2>1, MoveCases, EventKey
<1>4. /\ ~ down => b \in a.held
      /\ c.held = I!Moved(a.held, b, down) /\ c.out = {} /\ c.mod = "YES"
  BY <1>2, <1>3, MoveCases DEF MovesPlain
<1>5. /\ x \in I!Outs /\ x \notin I!PlainKeys /\ \A n \in I!PlainKeys : Out[n] = x => n = b
  BY <1>3, KeyFacts
<1>6. ~ down => x \in s.keys
  BY <1>2, <1>3, <1>4 DEF Others
<1>7. ks \in SUBSET AllKeys /\ <<x, down>> \in Events
  BY <1>1, <1>3, <1>5, <1>6, KeyMoves
<1>8. t = [mod |-> "YES", keys |-> ks, put |-> q, dropped |-> s.dropped]
  <2>1. t = [s EXCEPT !.mod = "YES", !.keys = ks, !.put = q]
    BY <1>3 DEF I!OtherKey
  <2> HIDE DEF t, ks, q
  <2> QED BY <1>1, <2>1
<1>9. q \in Seq(Events) /\ "YES" \in Mods
  BY <1>1, <1>7 DEF Mods
<1>10. Others(ks) = I!Moved(Others(s.keys), b, down) /\ ks \cap I!PlainKeys = {}
  BY <1>2, <1>3, <1>5 DEF Others, I!Moved
<1> HIDE DEF t, ks, q, b, x, down
<1>11. t \in Recs /\ t.mod = "YES" /\ t.keys = ks /\ t.put = q /\ t.dropped = s.dropped
  BY <1>1, <1>7, <1>8, <1>9 DEF Recs
<1>12. Puts(s, t, FALSE)
  BY <1>3, <1>5, <1>6, <1>11, PutsKey DEF ks, q
<1>13. Sync(t, c)
  <2>1. StateOf(ks, "YES") = [held |-> c.held, out |-> c.out, mod |-> c.mod]
    BY <1>2, <1>4, <1>10 DEF StateOf
  <2>2. c = [held |-> c.held, out |-> c.out, mod |-> c.mod]
    BY DEF States
  <2> QED BY <1>4, <1>10, <1>11, <2>1, <2>2 DEF Sync
<1>14. Translates(s, a, e, t, c)
  BY <1>3, <1>11, <1>12, <1>13 DEF Translates, b
<1> QED BY <1>14 DEF t, b, down

\* mod_state changed.
LEMMA NewMod ==
  ASSUME NEW s \in Recs, NEW m \in Mods
  PROVE  LET t == [s EXCEPT !.mod = m]
         IN  /\ t \in Recs /\ t.mod = m /\ t.keys = s.keys /\ t.put = s.put /\ t.dropped = s.dropped
BY DEF Recs

LEMMA TranslateMenuDown ==
  ASSUME NEW s \in Recs, NEW a \in States, NEW e \in Events, NEW c \in States, Moves(a, e, c), Sync(s, a),
         e[1] = I!Menu, e[2]
  PROVE  Translates(s, a, e, I!MenuDown(s), c)
<1> DEFINE u == I!SwitchAll(s, I!Self, Out)
           m == IF s.keys \cap I!PlainKeys = {} THEN "MAYBE" ELSE "YES"
           t == [u EXCEPT !.mod = m]
<1>1. /\ a.mod = "NO" /\ a.out = {} /\ c.held = a.held /\ c.out = a.out
      /\ c.mod = IF a.held = {} THEN "MAYBE" ELSE "YES"
  BY MoveCases DEF MovesMenu
<1>2. s.mod = "NO" /\ a.held = s.keys \cap I!PlainKeys /\ Others(s.keys) = {}
  BY <1>1 DEF Sync, StateOf
<1>3. \A b \in I!PlainKeys : Out[b] \notin s.keys
  BY <1>2 DEF Others
<1>4. SwitchedTo(s, u, I!Self, Out)
  BY <1>3, BothSwitch, SwitchAllDoes
<1>5. I!MenuDown(s) = t
  BY <1>2 DEF I!MenuDown
<1>6. m = c.mod /\ m \in Mods /\ m # "NO"
  BY <1>1, <1>2 DEF Mods
<1> HIDE DEF u, m
<1>7. t \in Recs /\ t.mod = m /\ t.keys = u.keys /\ t.put = u.put /\ t.dropped = u.dropped
  BY <1>4, <1>6, NewMod DEF SwitchedTo
<1> HIDE DEF t
<1>8. Others(t.keys) = a.held /\ t.keys \cap I!PlainKeys = {}
  <2>1. \A b \in I!PlainKeys : I!Self[b] = b
    BY DEF I!Self
  <2>2. \A b \in I!PlainKeys : b \notin u.keys /\ (Out[b] \in u.keys <=> b \in s.keys)
    BY <1>4, <2>1 DEF SwitchedTo
  <2> QED BY <1>2, <1>7, <2>2 DEF Others
<1>9. Sync(t, c)
  <2>1. StateOf(t.keys, m) = [held |-> c.held, out |-> c.out, mod |-> c.mod]
    BY <1>1, <1>6, <1>8 DEF StateOf
  <2>2. c = [held |-> c.held, out |-> c.out, mod |-> c.mod]
    BY DEF States
  <2> QED BY <1>6, <1>7, <1>8, <2>1, <2>2 DEF Sync
<1>10. Puts(s, t, FALSE)
  <2>1. Trail(s, t)
    BY <1>4, <1>7 DEF SwitchedTo, Trail
  <2> QED BY <1>7, <2>1, PutsTrail
<1>11. t.dropped = s.dropped
  BY <1>4, <1>7 DEF SwitchedTo
<1>12. (e[1] = I!Menu /\ ~e[2] /\ a.mod = "MAYBE") <=> FALSE
  OBVIOUS
<1>13. Puts(s, t, e[1] = I!Menu /\ ~e[2] /\ a.mod = "MAYBE")
  BY <1>10, <1>12 DEF Puts, PutRun
<1> QED BY <1>5, <1>7, <1>9, <1>11, <1>13 DEF Translates

LEMMA TranslateMenuUp ==
  ASSUME NEW s \in Recs, NEW a \in States, NEW e \in Events, NEW c \in States, Moves(a, e, c), Sync(s, a),
         e[1] = I!Menu, ~e[2]
  PROVE  Translates(s, a, e, I!MenuUp(s), c)
<1>1. c.held = a.held /\ c.out = a.out /\ c.mod = "NO"
  BY MoveCases DEF MovesMenu
<1>2. /\ s = [mod |-> s.mod, keys |-> s.keys, put |-> s.put, dropped |-> s.dropped]
      /\ s.mod \in Mods /\ s.keys \in SUBSET AllKeys /\ s.put \in Seq(Events)
      /\ s.dropped \in SUBSET AllKeys
  BY RecFields
<1>3. c = [held |-> c.held, out |-> c.out, mod |-> c.mod] /\ "NO" \in Mods
  BY DEF States, Mods
<1>4. <<I!Menu, TRUE>> \in Events /\ <<I!Menu, FALSE>> \in Events
  BY MenuEvents
<1>5. CASE s.mod = "NO"
  <2> DEFINE q == Append(s.put, <<I!Menu, FALSE>>)
             t == [s EXCEPT !.put = q]
  <2>1. I!MenuUp(s) = t
    BY <1>5 DEF I!MenuUp
  <2>2. q \in Seq(Events)
    BY <1>2, <1>4
  <2> HIDE DEF q
  <2>3. t = [mod |-> s.mod, keys |-> s.keys, put |-> q, dropped |-> s.dropped]
    BY <1>2
  <2> HIDE DEF t
  <2>4. t \in Recs /\ t.mod = "NO" /\ t.keys = s.keys /\ t.put = q /\ t.dropped = s.dropped
    BY <1>2, <1>5, <2>2, <2>3 DEF Recs
  <2>5. Sync(t, c)
    <3>1. c = a
      BY <1>1, <1>5, StateEq DEF Sync
    <3> QED BY <1>5, <2>4, <3>1 DEF Sync
  <2>6. Puts(s, t, FALSE)
    BY <2>4, PutsRelease DEF q
  <2>7. a.mod # "MAYBE"
    BY <1>5 DEF Sync
  <2>8. Puts(s, t, e[1] = I!Menu /\ ~e[2] /\ a.mod = "MAYBE")
    BY <2>6, <2>7 DEF Puts, PutRun
  <2> QED BY <2>1, <2>4, <2>5, <2>8 DEF Translates
<1>6. CASE s.mod = "MAYBE"
  <2> DEFINE z == <<<<I!Menu, TRUE>>, <<I!Menu, FALSE>>>>
             q == s.put \o z
             t == [s EXCEPT !.mod = "NO", !.put = q]
  <2>1. I!MenuUp(s) = t
    BY <1>6 DEF I!MenuUp
  <2>2. q \in Seq(Events)
    <3>1. z \in Seq(Events)
      BY <1>4
    <3> HIDE DEF z
    <3> QED BY <1>2, <3>1
  <2> HIDE DEF q
  <2>3. t = [mod |-> "NO", keys |-> s.keys, put |-> q, dropped |-> s.dropped]
    <3>1. t = [s EXCEPT !.mod = "NO", !.put = q]
      OBVIOUS
    <3> HIDE DEF t
    <3> QED BY <1>2, <3>1
  <2> HIDE DEF t
  <2>4. t \in Recs /\ t.mod = "NO" /\ t.keys = s.keys /\ t.put = q /\ t.dropped = s.dropped
    BY <1>2, <1>3, <2>2, <2>3 DEF Recs
  <2>5. a.mod = "MAYBE" /\ Others(s.keys) = a.held /\ a.held = {} /\ a.out = {} /\ s.keys \cap I!PlainKeys = {}
    BY <1>6 DEF Sync, StateOf, States
  <2>6. Sync(t, c)
    <3>1. StateOf(t.keys, "NO") = [held |-> {}, out |-> {}, mod |-> "NO"]
      BY <2>4, <2>5 DEF StateOf
    <3> QED BY <1>1, <1>3, <2>4, <2>5, <3>1 DEF Sync
  <2>7. Puts(s, t, TRUE)
    BY <2>4, <2>5, PutsTap DEF q
  <2>8. Puts(s, t, e[1] = I!Menu /\ ~e[2] /\ a.mod = "MAYBE")
    BY <2>5, <2>7 DEF Puts, PutRun
  <2> QED BY <2>1, <2>4, <2>6, <2>8 DEF Translates
<1>7. CASE s.mod = "YES"
  <2> DEFINE u == I!SwitchAll(s, Out, I!Self)
             t == [u EXCEPT !.mod = "NO"]
  <2>1. I!MenuUp(s) = t
    BY <1>7 DEF I!MenuUp
  <2>2. a.mod = "YES" /\ Others(s.keys) = a.held /\ a.out = {} /\ s.keys \cap I!PlainKeys = {}
    BY <1>7 DEF Sync, StateOf
  <2>3. \A b \in I!PlainKeys : I!Self[b] = b
    BY DEF I!Self
  <2>4. \A b \in I!PlainKeys : I!Self[b] \notin s.keys
    BY <2>2, <2>3
  <2>5. SwitchedTo(s, u, Out, I!Self)
    BY <2>4, BothSwitch, SwitchAllDoes
  <2> HIDE DEF u
  <2>6. t \in Recs /\ t.mod = "NO" /\ t.keys = u.keys /\ t.put = u.put /\ t.dropped = u.dropped
    BY <1>3, <2>5, NewMod DEF SwitchedTo
  <2> HIDE DEF t
  <2>7. t.keys \cap I!PlainKeys = a.held /\ Others(t.keys) = {}
    <3>1. \A b \in I!PlainKeys : Out[b] \notin u.keys /\ (b \in u.keys <=> Out[b] \in s.keys)
      BY <2>3, <2>5 DEF SwitchedTo
    <3> QED BY <2>2, <2>6, <3>1 DEF Others
  <2>8. Sync(t, c)
    <3>1. StateOf(t.keys, "NO") = [held |-> c.held, out |-> c.out, mod |-> "NO"]
      BY <1>1, <2>2, <2>7 DEF StateOf
    <3> QED BY <1>1, <1>3, <2>6, <3>1 DEF Sync
  <2>9. Puts(s, t, FALSE)
    <3>1. Trail(s, t)
      BY <2>5, <2>6 DEF SwitchedTo, Trail
    <3> QED BY <2>6, <3>1, PutsTrail
  <2>10. Puts(s, t, e[1] = I!Menu /\ ~e[2] /\ a.mod = "MAYBE")
    BY <2>2, <2>9 DEF Puts, PutRun
  <2>11. t.dropped = s.dropped
    BY <2>5, <2>6 DEF SwitchedTo
  <2> QED BY <2>1, <2>6, <2>8, <2>10, <2>11 DEF Translates
<1> QED BY <1>2, <1>5, <1>6, <1>7 DEF Mods

LEMMA TranslateStep ==
  ASSUME NEW s \in Recs, NEW a \in States, NEW e \in Events, NEW c \in States, Moves(a, e, c), Sync(s, a)
  PROVE  Translates(s, a, e, I!translate_combo_event(s, e), c)
<1> DEFINE down == e[2]
           x == e[1]
<1>1. e = <<x, down>> /\ down \in BOOLEAN
  BY EventKey
<1>2. /\ e = <<I!Menu, TRUE>> <=> x = I!Menu /\ down
      /\ e = <<I!Menu, FALSE>> <=> x = I!Menu /\ ~down
  <2> HIDE DEF x, down
  <2>1. down = TRUE \/ down = FALSE
    BY <1>1
  <2>2. <<x, down>> = <<I!Menu, TRUE>> <=> x = I!Menu /\ down = TRUE
    OBVIOUS
  <2>3. <<x, down>> = <<I!Menu, FALSE>> <=> x = I!Menu /\ down = FALSE
    OBVIOUS
  <2> QED BY <1>1, <2>1, <2>2, <2>3
<1>3. CASE x = I!Menu /\ down
  BY <1>2, <1>3, TranslateMenuDown DEF I!translate_combo_event
<1>4. CASE x = I!Menu /\ ~down
  BY <1>2, <1>4, TranslateMenuUp DEF I!translate_combo_event
<1>5. CASE x # I!Menu
  <2>1. I!translate_combo_event(s, e) = I!OtherKey(s, e[1], e[2])
    BY <1>2, <1>5 DEF I!translate_combo_event
  <2> QED BY <1>5, <2>1, TranslateKeyAlone, TranslateKeyWith
<1> QED BY <1>3, <1>4, <1>5
------------------------------------------------------------------------------
(* The events of a pull translated.                                          *)

LEMMA SwitchAllType ==
  ASSUME NEW s \in Recs, NEW from, NEW to, Switches(from, to)
  PROVE  I!SwitchAll(s, from, to) \in Recs
<1>1. PICK f : SwitchRun(f, s, from, to)
  BY SwitchRuns
<1>2. Len(Keymap) \in 0 .. Len(Keymap)
  BY KeymapFacts
<1> QED BY <1>1, <1>2 DEF SwitchRun

LEMMA OtherKeyType ==
  ASSUME NEW s \in Recs, NEW e \in Events
  PROVE  I!OtherKey(s, e[1], e[2]) \in Recs
<1> DEFINE x == e[1]
           down == e[2]
           t == I!OtherKey(s, x, down)
<1>1. x \in AllKeys /\ down \in BOOLEAN /\ <<x, down>> \in Events
  BY EventKey DEF Events
<1>2. /\ s = [mod |-> s.mod, keys |-> s.keys, put |-> s.put, dropped |-> s.dropped]
      /\ s.mod \in Mods /\ s.keys \in SUBSET AllKeys /\ s.put \in Seq(Events)
      /\ s.dropped \in SUBSET AllKeys
  BY RecFields
<1> HIDE DEF x, down
<1>3. CASE s.mod = "NO"
  <2> DEFINE ks == I!Moved(s.keys, x, down)
             q == Append(s.put, <<x, down>>)
  <2>1. ks \in SUBSET AllKeys /\ q \in Seq(Events)
    BY <1>1, <1>2 DEF I!Moved
  <2>2. t = [s EXCEPT !.keys = ks, !.put = q]
    BY <1>3 DEF I!OtherKey
  <2> HIDE DEF t, ks, q
  <2>3. t = [mod |-> s.mod, keys |-> ks, put |-> q, dropped |-> s.dropped]
    BY <1>2, <2>2
  <2>4. t \in Recs
    BY <1>2, <2>1, <2>3 DEF Recs
  <2> QED BY <2>4 DEF t, x, down
<1>4. CASE s.mod # "NO" /\ x \in I!PlainKeys
  <2> DEFINE ks == I!Moved(s.keys, Out[x], down)
             q == Append(s.put, <<Out[x], down>>)
  <2>1. Out[x] \in AllKeys
    BY <1>4, KeyFacts DEF AllKeys
  <2>2. <<Out[x], down>> \in Events
    BY <1>1, <2>1 DEF Events
  <2>3. ks \in SUBSET AllKeys /\ q \in Seq(Events)
    BY <1>2, <2>1, <2>2 DEF I!Moved
  <2>4. t = [s EXCEPT !.mod = "YES", !.keys = ks, !.put = q]
    BY <1>4 DEF I!OtherKey
  <2> HIDE DEF t, ks, q
  <2>5. t = [mod |-> "YES", keys |-> ks, put |-> q, dropped |-> s.dropped]
    BY <1>2, <2>4
  <2>6. t \in Recs
    BY <1>2, <2>3, <2>5 DEF Recs, Mods
  <2> QED BY <2>6 DEF t, x, down
<1>5. CASE s.mod # "NO" /\ x \notin I!PlainKeys
  <2> DEFINE d == s.dropped \cup {I!Base(x)}
  <2>1. I!Base(x) \in AllKeys
    <3> HIDE DEF I!Base, I!Menu, I!Power
    <3> QED BY <1>1, KeyFacts DEF AllKeys
  <2>2. d \in SUBSET AllKeys
    BY <1>2, <2>1
  <2>3. t = [s EXCEPT !.dropped = d]
    BY <1>5 DEF I!OtherKey
  <2> HIDE DEF t, d
  <2>4. t = [mod |-> s.mod, keys |-> s.keys, put |-> s.put, dropped |-> d]
    BY <1>2, <2>3
  <2>5. t \in Recs
    BY <1>2, <2>2, <2>4 DEF Recs
  <2> QED BY <2>5 DEF t, x, down
<1> QED BY <1>3, <1>4, <1>5

LEMMA TranslateType ==
  ASSUME NEW s \in Recs, NEW e \in Events
  PROVE  I!translate_combo_event(s, e) \in Recs
<1>1. /\ s = [mod |-> s.mod, keys |-> s.keys, put |-> s.put, dropped |-> s.dropped]
      /\ s.mod \in Mods /\ s.keys \in SUBSET AllKeys /\ s.put \in Seq(Events)
      /\ s.dropped \in SUBSET AllKeys
  BY RecFields
<1>2. <<I!Menu, TRUE>> \in Events /\ <<I!Menu, FALSE>> \in Events
  BY MenuEvents
<1>3. {"NO", "MAYBE", "YES"} = Mods
  BY DEF Mods
<1>4. I!SwitchAll(s, I!Self, Out) \in Recs /\ I!SwitchAll(s, Out, I!Self) \in Recs
  BY BothSwitch, SwitchAllType
<1>5. I!MenuDown(s) \in Recs
  <2>1. CASE s.mod # "NO"
    <3> DEFINE q == Append(s.put, <<I!Menu, TRUE>>)
               t == I!MenuDown(s)
    <3>1. q \in Seq(Events)
      BY <1>1, <1>2
    <3>2. t = [s EXCEPT !.put = q]
      BY <2>1 DEF I!MenuDown
    <3> HIDE DEF t, q
    <3>3. t = [mod |-> s.mod, keys |-> s.keys, put |-> q, dropped |-> s.dropped]
      BY <1>1, <3>2
    <3>4. t \in Recs
      BY <1>1, <3>1, <3>3 DEF Recs
    <3> QED BY <3>4 DEF t
  <2>2. CASE s.mod = "NO"
    <3> DEFINE u == I!SwitchAll(s, I!Self, Out)
               m == IF s.keys \cap I!PlainKeys = {} THEN "MAYBE" ELSE "YES"
    <3>1. I!MenuDown(s) = [u EXCEPT !.mod = m]
      BY <2>2 DEF I!MenuDown
    <3>2. m \in Mods /\ u \in Recs
      BY <1>3, <1>4
    <3> HIDE DEF u, m
    <3> QED BY <3>1, <3>2, NewMod
  <2> QED BY <2>1, <2>2
<1>6. I!MenuUp(s) \in Recs
  <2>1. CASE s.mod = "NO"
    <3> DEFINE q == Append(s.put, <<I!Menu, FALSE>>)
               t == I!MenuUp(s)
    <3>1. q \in Seq(Events)
      BY <1>1, <1>2
    <3>2. t = [s EXCEPT !.put = q]
      BY <2>1 DEF I!MenuUp
    <3> HIDE DEF t, q
    <3>3. t = [mod |-> s.mod, keys |-> s.keys, put |-> q, dropped |-> s.dropped]
      BY <1>1, <3>2
    <3>4. t \in Recs
      BY <1>1, <3>1, <3>3 DEF Recs
    <3> QED BY <3>4 DEF t
  <2>2. CASE s.mod = "MAYBE"
    <3> DEFINE z == <<<<I!Menu, TRUE>>, <<I!Menu, FALSE>>>>
               q == s.put \o z
               t == I!MenuUp(s)
    <3>1. q \in Seq(Events)
      <4>1. z \in Seq(Events)
        BY <1>2
      <4> HIDE DEF z
      <4> QED BY <1>1, <4>1
    <3>2. t = [s EXCEPT !.mod = "NO", !.put = q]
      BY <2>2 DEF I!MenuUp
    <3> HIDE DEF t, q
    <3>3. t = [mod |-> "NO", keys |-> s.keys, put |-> q, dropped |-> s.dropped]
      BY <1>1, <3>2
    <3>4. t \in Recs
      BY <1>1, <1>3, <3>1, <3>3 DEF Recs
    <3> QED BY <3>4 DEF t
  <2>3. CASE s.mod = "YES"
    <3> DEFINE u == I!SwitchAll(s, Out, I!Self)
    <3>1. I!MenuUp(s) = [u EXCEPT !.mod = "NO"]
      BY <2>3 DEF I!MenuUp
    <3>2. u \in Recs /\ "NO" \in Mods
      BY <1>3, <1>4
    <3> HIDE DEF u
    <3> QED BY <3>1, <3>2, NewMod
  <2> QED BY <1>1, <1>3, <2>1, <2>2, <2>3
<1> QED BY <1>5, <1>6, OtherKeyType DEF I!translate_combo_event

\* The state before the first event of a pull.
Begun == [mod |-> mod, keys |-> keystate, put |-> <<>>, dropped |-> {}]

\* The runs of the loop of translate_combo_events.
TranslateRun(f, q) ==
  /\ f \in [0 .. Len(q) -> Recs] /\ f[0] = Begun /\ I!Translated = f[Len(q)]
  /\ \A n \in 1 .. Len(q) : f[n] = I!translate_combo_event(f[n - 1], q[n])

\* The types that the lemmas below ask for.
KeyTypes == mod \in Mods /\ keystate \in SUBSET AllKeys /\ queue \in Seq(Events)

LEMMA BegunType ==
  ASSUME KeyTypes
  PROVE  Begun \in Recs
<1>1. <<>> \in Seq(Events)
  OBVIOUS
<1> QED BY <1>1 DEF KeyTypes, Begun, Recs

LEMMA Pulls ==
  ASSUME KeyTypes
  PROVE  /\ Pull \in Nat \ {0} /\ Collect \in Nat \ {0}
         /\ I!First(queue, Pull) \in Seq(Events) /\ I!After(queue, Pull) \in Seq(Events)
         /\ queue = I!First(queue, Pull) \o I!After(queue, Pull)
<1>1. Pull \in Nat \ {0} /\ Collect \in Nat \ {0}
  BY InputFacts DEF I!InputAssumption
<1>2. queue \in Seq(Events)
  BY DEF KeyTypes
<1> QED BY <1>1, <1>2, FirstAfter, Parted

LEMMA TranslateRuns ==
  ASSUME KeyTypes
  PROVE  \E f : TranslateRun(f, I!First(queue, Pull))
<1> DEFINE q == I!First(queue, Pull)
           l == Len(q)
           G == [p \in Recs \X (1 .. l) |-> I!translate_combo_event(p[1], q[p[2]])]
           IsLoop(f) == f = [n \in 0 .. l |-> IF n = 0 THEN Begun ELSE I!translate_combo_event(f[n - 1], q[n])]
           t == CHOOSE f : IsLoop(f)
<1>1. q \in Seq(Events) /\ Begun \in Recs
  BY Pulls, BegunType
<1>2. I!Translated = t[l]
  BY DEF I!Translated, Begun
<1> HIDE DEF q
<1>3. l \in Nat
  BY <1>1
<1>4. ASSUME NEW n \in 1 .. l, NEW s \in Recs PROVE I!translate_combo_event(s, q[n]) \in Recs
  BY <1>1, TranslateType
<1>5. G \in [Recs \X (1 .. l) -> Recs]
  <2> HIDE DEF l
  <2> QED BY <1>4
<1>6. PICK f \in [0 .. l -> Recs] : Folded(f, l, Begun, G)
  <2> HIDE DEF G, l
  <2> QED BY <1>1, <1>3, <1>5, FoldExists, Zenon
<1>7. ASSUME NEW n \in 1 .. l PROVE f[n] = I!translate_combo_event(f[n - 1], q[n])
  <2>1. f[n - 1] \in Recs
    BY <1>3, <1>6
  <2> HIDE DEF l
  <2>2. f[n] = G[<<f[n - 1], n>>]
    BY <1>6 DEF Folded
  <2> QED BY <2>1, <2>2
<1>8. IsLoop(f)
  <2> HIDE DEF l
  <2>1. \A n \in 0 .. l : n # 0 => n \in 1 .. l
    BY <1>3
  <2> QED BY <1>6, <1>7, <2>1 DEF Folded
<1>9. IsLoop(t)
  <2> HIDE DEF IsLoop
  <2> QED BY <1>8
<1> HIDE DEF t
<1>10. t[0] = Begun /\ \A n \in 1 .. l : t[n] = I!translate_combo_event(t[n - 1], q[n])
  <2>1. 0 \in 0 .. l /\ \A n \in 1 .. l : n \in 0 .. l /\ n # 0
    BY <1>3
  <2> HIDE DEF l
  <2> QED BY <1>9, <2>1
<1>11. \A n \in 0 .. l : t[n] \in Recs
  <2> DEFINE T == {n \in 0 .. l : t[n] \in Recs}
  <2> HIDE DEF l
  <2>1. 0 \in T
    BY <1>1, <1>3, <1>10
  <2>2. ASSUME NEW n \in 0 .. l, n \in T, n < l PROVE n + 1 \in T
    <3>1. n + 1 \in 1 .. l /\ (n + 1) - 1 = n /\ n + 1 \in 0 .. l
      BY <1>3, <2>2
    <3>2. t[n + 1] = I!translate_combo_event(t[n], q[n + 1]) /\ t[n] \in Recs
      BY <1>10, <2>2, <3>1
    <3> QED BY <1>4, <3>1, <3>2
  <2>3. \A n \in 0 .. l : n \in T
    <3> HIDE DEF T
    <3> QED BY <1>3, <2>1, <2>2, Reaches
  <2> QED BY <2>3
<1>12. t \in [0 .. l -> Recs]
  <2> HIDE DEF l
  <2>1. t = [n \in 0 .. l |-> t[n]]
    BY <1>9
  <2> QED BY <1>11, <2>1
<1>13. TranslateRun(t, q)
  BY <1>2, <1>10, <1>12 DEF TranslateRun
<1> QED BY <1>13 DEF q

\* s is what the first n events of q make of the keys, which they take as r says.
TranslatedUpto(n, s, r, q) ==
  /\ s \in Recs /\ Sync(s, r[n]) /\ s.dropped = {} /\ (n = 0 => s = Begun)
  /\ Puts(Begun, s, \E j \in 1 .. n : q[j][1] = I!Menu /\ ~q[j][2] /\ r[j - 1].mod = "MAYBE")
  /\ mod = "NO" /\ n > 0 /\ q[1] = <<I!Menu, FALSE>> => s.put # <<>> /\ s.put[1] = <<I!Menu, FALSE>>

LEMMA PutsNone ==
  ASSUME NEW s \in Recs
  PROVE  Puts(s, s, FALSE)
<1>1. Trail(s, s)
  BY TrailNone
<1> QED BY <1>1, PutsTrail

LEMMA SameTapped ==
  ASSUME NEW s, NEW t, NEW f, NEW g, f <=> g, Puts(s, t, f)
  PROVE  Puts(s, t, g)
BY DEF Puts, PutRun

\* The events put first stay first.
LEMMA HeadStays ==
  ASSUME NEW s \in Recs, NEW t \in Recs, NEW f, Puts(s, t, f), s.put # <<>>
  PROVE  t.put # <<>> /\ t.put[1] = s.put[1]
<1>1. PICK p \in Seq(Events) : t.put = s.put \o p
  BY DEF Puts
<1> DEFINE q == s.put
<1>2. q \in Seq(Events) /\ q # <<>> /\ t.put = q \o p
  BY <1>1 DEF Recs
<1> HIDE DEF q
<1>3. q \o p # <<>> /\ (q \o p)[1] = q[1]
  BY <1>2
<1> QED BY <1>2, <1>3 DEF q

LEMMA TranslatedNext ==
  ASSUME KeyTypes, NEW q \in Seq(Events), NEW r, IsRun(r, q), NEW n \in Nat, n < Len(q),
         NEW s, TranslatedUpto(n, s, r, q)
  PROVE  TranslatedUpto(n + 1, I!translate_combo_event(s, q[n + 1]), r, q)
<1> DEFINE e == q[n + 1]
           t == I!translate_combo_event(s, e)
           tap1 == e[1] = I!Menu /\ ~e[2] /\ r[n].mod = "MAYBE"
           Tapped(l) == \E j \in 1 .. l : q[j][1] = I!Menu /\ ~q[j][2] /\ r[j - 1].mod = "MAYBE"
<1>1. n + 1 \in 1 .. Len(q) /\ (n + 1) - 1 = n /\ n \in 0 .. Len(q) /\ n + 1 \in 0 .. Len(q)
  OBVIOUS
<1>2. e \in Events /\ r[n] \in States /\ r[n + 1] \in States /\ Moves(r[n], e, r[n + 1])
  <2>1. e \in Events
    BY <1>1
  <2>2. r[n] \in States /\ r[n + 1] \in States
    BY <1>1 DEF IsRun
  <2>3. Moves(r[(n + 1) - 1], q[n + 1], r[n + 1])
    BY <1>1 DEF IsRun
  <2> QED BY <1>1, <2>1, <2>2, <2>3
<1>3. /\ s \in Recs /\ Sync(s, r[n]) /\ s.dropped = {} /\ Puts(Begun, s, Tapped(n))
      /\ mod = "NO" /\ n > 0 /\ q[1] = <<I!Menu, FALSE>> => s.put # <<>> /\ s.put[1] = <<I!Menu, FALSE>>
  BY DEF TranslatedUpto
<1>4. Tapped(n) \/ tap1 <=> Tapped(n + 1)
  <2>1. \A j : j \in 1 .. n + 1 <=> j \in 1 .. n \/ j = n + 1
    OBVIOUS
  <2> QED BY <1>1, <2>1
<1>5. Translates(s, r[n], e, t, r[n + 1])
  <2> HIDE DEF e
  <2> QED BY <1>2, <1>3, TranslateStep
<1> HIDE DEF t, Tapped
<1>6. t \in Recs /\ Sync(t, r[n + 1]) /\ t.dropped = {} /\ Puts(s, t, tap1)
  BY <1>3, <1>5 DEF Translates
<1>7. Puts(Begun, t, Tapped(n + 1))
  <2> HIDE DEF tap1
  <2>1. Begun \in Recs
    BY BegunType
  <2>2. Puts(Begun, t, Tapped(n) \/ tap1)
    BY <1>3, <1>6, <2>1, PutsJoin
  <2> QED BY <1>4, <2>2, SameTapped
<1>8. ASSUME mod = "NO", q[1] = <<I!Menu, FALSE>>
      PROVE  t.put # <<>> /\ t.put[1] = <<I!Menu, FALSE>>
  <2>1. CASE n > 0
    <3>1. s.put # <<>> /\ s.put[1] = <<I!Menu, FALSE>>
      BY <1>3, <1>8, <2>1
    <3> QED BY <1>3, <1>6, <3>1, HeadStays
  <2>2. CASE ~ (n > 0)
    <3>1. n = 0 /\ n + 1 = 1
      BY <2>2
    <3>2. e = <<I!Menu, FALSE>>
      BY <1>8, <3>1
    <3>3. t = I!MenuUp(s)
      <4>1. <<I!Menu, FALSE>> # <<I!Menu, TRUE>>
        OBVIOUS
      <4> HIDE DEF e
      <4> QED BY <3>2, <4>1 DEF t, I!translate_combo_event
    <3>4. s = Begun
      BY <3>1 DEF TranslatedUpto
    <3>5. s.mod = "NO" /\ s.put = <<>>
      BY <1>8, <3>4 DEF Begun
    <3> DEFINE p == <<<<I!Menu, FALSE>>>>
    <3>6. Append(<<>>, <<I!Menu, FALSE>>) = p /\ p # <<>> /\ p[1] = <<I!Menu, FALSE>>
      <4> DEFINE y == <<I!Menu, FALSE>>
      <4>1. y \in Events
        BY MenuEvents
      <4> HIDE DEF y
      <4>2. Append(<<>>, y) = <<y>> /\ <<y>> # <<>> /\ <<y>>[1] = y
        BY <4>1
      <4> QED BY <4>2 DEF y
    <3>7. t = [s EXCEPT !.put = p]
      BY <3>3, <3>5, <3>6 DEF I!MenuUp
    <3> HIDE DEF p
    <3>8. t.put = p
      BY <1>3, <3>7 DEF Recs
    <3> QED BY <3>6, <3>8
  <2> QED BY <2>1, <2>2
<1>9. n + 1 # 0 /\ t.dropped = {}
  BY <1>6, <1>3 DEF Translates
<1> QED BY <1>6, <1>7, <1>8, <1>9 DEF TranslatedUpto, t, Tapped

\* What Translated is when the keys are as r says.
TranslatedAs(s, r, q) ==
  /\ s \in Recs /\ Sync(s, r[Len(q)]) /\ s.dropped = {}
  /\ \E u : PutRun(u, s.put, StateOf(keystate, "NO"), StateOf(s.keys, "NO"), Pending(r, q))
  /\ mod = "NO" /\ q # <<>> /\ q[1] = <<I!Menu, FALSE>> => s.put # <<>> /\ s.put[1] = <<I!Menu, FALSE>>

LEMMA TranslatedDoes ==
  ASSUME KeyTypes, mod # "NO" => keystate \cap I!PlainKeys = {},
         NEW r, IsRun(r, I!First(queue, Pull)), r[0] = StateOf(keystate, mod)
  PROVE  TranslatedAs(I!Translated, r, I!First(queue, Pull))
<1> DEFINE q == I!First(queue, Pull)
           l == Len(q)
<1>1. PICK f : TranslateRun(f, q)
  BY TranslateRuns
<1>2. q \in Seq(Events) /\ IsRun(r, q)
  BY Pulls
<1> HIDE DEF q
<1>3. l \in Nat
  BY <1>2
<1> DEFINE T == {n \in 0 .. l : TranslatedUpto(n, f[n], r, q)}
<1>4. 0 \in T
  <2>1. f[0] = Begun /\ 0 \in 0 .. l
    BY <1>1, <1>3 DEF TranslateRun
  <2>2. Begun \in Recs
    BY BegunType
  <2>3. Begun.mod = mod /\ Begun.keys = keystate /\ Begun.dropped = {}
    BY DEF Begun
  <2>4. StateOf(keystate, mod).mod = mod
    BY DEF StateOf
  <2>5. Sync(Begun, r[0])
    BY <2>3, <2>4 DEF Sync
  <2>6. ~ \E j \in 1 .. 0 : q[j][1] = I!Menu /\ ~q[j][2] /\ r[j - 1].mod = "MAYBE"
    OBVIOUS
  <2>7. Puts(Begun, Begun, \E j \in 1 .. 0 : q[j][1] = I!Menu /\ ~q[j][2] /\ r[j - 1].mod = "MAYBE")
    BY <2>2, <2>6, PutsNone, SameTapped
  <2>8. TranslatedUpto(0, Begun, r, q)
    <3>1. ~ (0 > 0)
      OBVIOUS
    <3> QED BY <2>2, <2>3, <2>5, <2>7, <3>1, Zenon DEF TranslatedUpto
  <2> QED BY <2>1, <2>8
<1>5. ASSUME NEW n \in 0 .. l, n \in T, n < l PROVE n + 1 \in T
  <2>1. n + 1 \in 1 .. l /\ (n + 1) - 1 = n /\ n + 1 \in 0 .. l /\ n \in Nat /\ n < Len(q)
    BY <1>3, <1>5
  <2>2. f[n + 1] = I!translate_combo_event(f[n], q[n + 1])
    BY <1>1, <2>1 DEF TranslateRun
  <2>3. TranslatedUpto(n, f[n], r, q)
    BY <1>5
  <2>4. TranslatedUpto(n + 1, I!translate_combo_event(f[n], q[n + 1]), r, q)
    BY <1>2, <2>1, <2>3, TranslatedNext
  <2> QED BY <2>1, <2>2, <2>4
<1>6. \A n \in 0 .. l : n \in T
  <2> HIDE DEF T
  <2> QED BY <1>3, <1>4, <1>5, Reaches
<1> DEFINE s == I!Translated
<1>7. TranslatedUpto(l, s, r, q)
  <2>1. l \in 0 .. l /\ s = f[l]
    BY <1>1, <1>3 DEF TranslateRun
  <2> QED BY <1>6, <2>1
<1> HIDE DEF s
<1>8. \E u : PutRun(u, s.put, StateOf(keystate, "NO"), StateOf(s.keys, "NO"), Pending(r, q))
  <2>1. Puts(Begun, s, Pending(r, q))
    BY <1>7, SameTapped DEF TranslatedUpto, Pending
  <2>2. Begun.put = <<>> /\ Begun.keys = keystate
    BY DEF Begun
  <2>3. PICK p \in Seq(Events) : s.put = <<>> \o p
          /\ \E u : PutRun(u, p, StateOf(keystate, "NO"), StateOf(s.keys, "NO"), Pending(r, q))
    BY <2>1, <2>2 DEF Puts
  <2>4. <<>> \o p = p
    BY EmptyConcat
  <2> QED BY <2>3, <2>4
<1>9. mod = "NO" /\ q # <<>> /\ q[1] = <<I!Menu, FALSE>> => s.put # <<>> /\ s.put[1] = <<I!Menu, FALSE>>
  <2>1. q # <<>> => l > 0
    BY <1>2, <1>3
  <2> QED BY <1>7, <2>1 DEF TranslatedUpto
<1>10. TranslatedAs(s, r, q)
  BY <1>7, <1>8, <1>9 DEF TranslatedUpto, TranslatedAs
<1> QED BY <1>10 DEF s, q
------------------------------------------------------------------------------
(* collect_events.                                                           *)

\* The runs of the loop of handle_event.
HandledRun(f, q) ==
  /\ f \in [0 .. Len(q) -> SUBSET AllKeys] /\ f[0] = keystate /\ I!Handled(q) = f[Len(q)]
  /\ \A n \in 1 .. Len(q) : f[n] = I!Moved(f[n - 1], q[n][1], q[n][2])

LEMMA HandledRuns ==
  ASSUME KeyTypes, NEW q \in Seq(Events)
  PROVE  \E f : HandledRun(f, q)
<1> DEFINE l == Len(q)
           Step(n, ks) == I!Moved(ks, q[n][1], q[n][2])
           G == [p \in (SUBSET AllKeys) \X (1 .. l) |-> Step(p[2], p[1])]
           IsLoop(f) == f = [n \in 0 .. l |-> IF n = 0 THEN keystate ELSE Step(n, f[n - 1])]
           t == CHOOSE f : IsLoop(f)
<1>1. l \in Nat /\ keystate \in SUBSET AllKeys
  BY DEF KeyTypes
<1>2. I!Handled(q) = t[l]
  BY DEF I!Handled
<1>3. ASSUME NEW n \in 1 .. l, NEW ks \in SUBSET AllKeys PROVE Step(n, ks) \in SUBSET AllKeys
  <2>1. q[n] \in Events
    OBVIOUS
  <2>2. q[n][1] \in AllKeys
    BY <2>1 DEF Events
  <2> QED BY <2>2 DEF I!Moved
<1> HIDE DEF l
<1>4. G \in [(SUBSET AllKeys) \X (1 .. l) -> SUBSET AllKeys]
  <2> HIDE DEF Step
  <2> QED BY <1>3
<1>5. PICK f \in [0 .. l -> SUBSET AllKeys] : Folded(f, l, keystate, G)
  <2> HIDE DEF G
  <2> QED BY <1>1, <1>4, FoldExists, Zenon
<1>6. ASSUME NEW n \in 1 .. l PROVE f[n] = Step(n, f[n - 1])
  <2> HIDE DEF Step
  <2>1. f[n - 1] \in SUBSET AllKeys
    BY <1>1, <1>5
  <2>2. f[n] = G[<<f[n - 1], n>>]
    BY <1>5 DEF Folded
  <2> QED BY <2>1, <2>2
<1>7. IsLoop(f)
  <2> HIDE DEF Step
  <2>1. \A n \in 0 .. l : n # 0 => n \in 1 .. l
    BY <1>1
  <2> QED BY <1>5, <1>6, <2>1 DEF Folded
<1>8. IsLoop(t)
  <2> HIDE DEF IsLoop
  <2> QED BY <1>7
<1> HIDE DEF t
<1>9. t[0] = keystate /\ \A n \in 1 .. l : t[n] = Step(n, t[n - 1])
  <2> HIDE DEF Step
  <2>1. 0 \in 0 .. l /\ \A n \in 1 .. l : n \in 0 .. l /\ n # 0
    BY <1>1
  <2> QED BY <1>8, <2>1
<1>10. \A n \in 0 .. l : t[n] \in SUBSET AllKeys
  <2> DEFINE T == {n \in 0 .. l : t[n] \in SUBSET AllKeys}
  <2> HIDE DEF Step
  <2>1. 0 \in T
    BY <1>1, <1>9
  <2>2. ASSUME NEW n \in 0 .. l, n \in T, n < l PROVE n + 1 \in T
    <3>1. n + 1 \in 1 .. l /\ (n + 1) - 1 = n /\ n + 1 \in 0 .. l
      BY <1>1, <2>2
    <3>2. t[n + 1] = Step(n + 1, t[n]) /\ t[n] \in SUBSET AllKeys
      BY <1>9, <2>2, <3>1
    <3>3. t[n + 1] \in SUBSET AllKeys
      BY <1>3, <3>1, <3>2
    <3> QED BY <3>1, <3>3
  <2>3. \A n \in 0 .. l : n \in T
    <3> HIDE DEF T
    <3> QED BY <1>1, <2>1, <2>2, Reaches
  <2> QED BY <2>3
<1>11. t \in [0 .. l -> SUBSET AllKeys]
  <2> HIDE DEF Step
  <2>1. t = [n \in 0 .. l |-> t[n]]
    BY <1>8
  <2> QED BY <1>10, <2>1
<1>12. HandledRun(t, q)
  BY <1>2, <1>9, <1>11 DEF HandledRun, l
<1> QED BY <1>12

\* The keys are as the run says.
LEMMA HandledDoes ==
  ASSUME KeyTypes, NEW q \in Seq(Events), NEW r, IsRun(r, q), r[0] = StateOf(keystate, "NO")
  PROVE  I!Handled(q) \cap I!PlainKeys = r[Len(q)].held /\ Others(I!Handled(q)) = r[Len(q)].out
<1> DEFINE l == Len(q)
<1>1. PICK f : HandledRun(f, q)
  BY HandledRuns
<1> DEFINE As(n) == f[n] \cap I!PlainKeys = r[n].held /\ Others(f[n]) = r[n].out
           T == {n \in 0 .. l : As(n)}
<1>2. l \in Nat
  OBVIOUS
<1>3. 0 \in T
  <2>1. As(0)
    BY <1>1 DEF HandledRun, StateOf
  <2> QED BY <1>2, <2>1
<1>4. ASSUME NEW n \in 0 .. l, n \in T, n < l PROVE n + 1 \in T
  <2>1. n + 1 \in 1 .. l /\ (n + 1) - 1 = n /\ n + 1 \in 0 .. l
    BY <1>2, <1>4
  <2> DEFINE e == q[n + 1]
             a == r[n]
             c == r[n + 1]
             ks == f[n]
             new == f[n + 1]
  <2>2. e \in Events /\ Moves(a, e, c)
    <3>1. e \in Events
      BY <2>1
    <3>2. Moves(r[(n + 1) - 1], q[n + 1], r[n + 1])
      BY <2>1 DEF IsRun
    <3> QED BY <2>1, <3>1, <3>2
  <2>3. new = I!Moved(ks, e[1], e[2]) /\ ks \cap I!PlainKeys = a.held /\ Others(ks) = a.out
    <3>1. f[n + 1] = I!Moved(f[(n + 1) - 1], q[n + 1][1], q[n + 1][2])
      BY <1>1, <2>1 DEF HandledRun
    <3> QED BY <1>4, <2>1, <3>1
  <2> HIDE DEF e, a, c, ks, new
  <2>4. new \cap I!PlainKeys = c.held /\ Others(new) = c.out
    <3>1. CASE e[1] \in I!PlainKeys
      <4>1. e[1] \notin I!Outs /\ \A b \in I!PlainKeys : Out[b] # e[1]
        BY <3>1, KeyFacts
      <4>2. c.held = I!Moved(a.held, e[1], e[2]) /\ c.out = a.out
        BY <2>2, <3>1, MoveCases DEF MovesPlain
      <4> QED BY <2>3, <3>1, <4>1, <4>2 DEF I!Moved, Others
    <3>2. CASE e[1] \in I!Outs
      <4> DEFINE b == I!Base(e[1])
      <4>1. e[1] \notin I!PlainKeys /\ b \in I!PlainKeys /\ Out[b] = e[1] /\ \A y \in I!PlainKeys : Out[y] = e[1] => y = b
        BY <3>2, KeyFacts
      <4>2. c.held = a.held /\ c.out = I!Moved(a.out, b, e[2])
        BY <2>2, <3>2, MoveCases DEF MovesOut
      <4> HIDE DEF b
      <4> QED BY <2>3, <4>1, <4>2 DEF I!Moved, Others
    <3>3. CASE e[1] = I!Menu
      <4>1. e[1] \notin I!PlainKeys /\ \A b \in I!PlainKeys : Out[b] # e[1]
        BY <3>3, KeyFacts
      <4>2. c.held = a.held /\ c.out = a.out
        BY <2>2, <3>3, MoveCases DEF MovesMenu
      <4> QED BY <2>3, <4>1, <4>2 DEF I!Moved, Others
    <3> QED BY <2>2, <3>1, <3>2, <3>3, MoveCases
  <2>5. As(n + 1)
    BY <2>4 DEF new, c
  <2> QED BY <2>1, <2>5
<1>5. \A n \in 0 .. l : n \in T
  <2> HIDE DEF T
  <2> QED BY <1>2, <1>3, <1>4, Reaches
<1>6. As(l)
  <2>1. l \in 0 .. l
    BY <1>2
  <2> QED BY <1>5, <2>1
<1> QED BY <1>1, <1>6 DEF HandledRun

\* MENU, when only the last event may be of it.
LEMMA HandledMenu ==
  ASSUME KeyTypes, NEW q \in Seq(Events), \A j \in 1 .. Len(q) : j < Len(q) => q[j][1] # I!Menu
  PROVE  /\ I!Handled(q) \in SUBSET AllKeys
         /\ q = <<>> => I!Handled(q) = keystate
         /\ q # <<>> => (I!Menu \in I!Handled(q) <=> IF q[Len(q)][1] = I!Menu THEN q[Len(q)][2] ELSE I!Menu \in keystate)
<1> DEFINE l == Len(q)
<1>1. PICK f : HandledRun(f, q)
  BY HandledRuns
<1>2. l \in Nat /\ l \in 0 .. l
  OBVIOUS
<1> DEFINE T == {n \in 0 .. l : n < l => (I!Menu \in f[n] <=> I!Menu \in keystate)}
<1>3. 0 \in T
  BY <1>1, <1>2 DEF HandledRun
<1>4. ASSUME NEW n \in 0 .. l, n \in T, n < l PROVE n + 1 \in T
  <2>1. n + 1 \in 1 .. l /\ (n + 1) - 1 = n /\ n + 1 \in 0 .. l
    BY <1>2, <1>4
  <2> SUFFICES ASSUME n + 1 < l PROVE I!Menu \in f[n + 1] <=> I!Menu \in keystate
    BY <2>1
  <2>2. f[n + 1] = I!Moved(f[n], q[n + 1][1], q[n + 1][2])
    BY <1>1, <2>1 DEF HandledRun
  <2>3. q[n + 1][1] # I!Menu
    BY <2>1
  <2> QED BY <1>4, <2>2, <2>3 DEF I!Moved
<1>5. \A n \in 0 .. l : n \in T
  <2> HIDE DEF T
  <2> QED BY <1>2, <1>3, <1>4, Reaches
<1>6. I!Handled(q) \in SUBSET AllKeys /\ I!Handled(q) = f[l]
  BY <1>1, <1>2 DEF HandledRun
<1>7. q = <<>> => I!Handled(q) = keystate
  BY <1>1, <1>6 DEF HandledRun
<1>8. ASSUME q # <<>>
      PROVE  I!Menu \in I!Handled(q) <=> IF q[Len(q)][1] = I!Menu THEN q[Len(q)][2] ELSE I!Menu \in keystate
  <2>1. l > 0 /\ l \in 1 .. l /\ l - 1 \in 0 .. l /\ l - 1 < l
    BY <1>2, <1>8
  <2>2. f[l] = I!Moved(f[l - 1], q[l][1], q[l][2])
    BY <1>1, <2>1 DEF HandledRun
  <2>3. I!Menu \in f[l - 1] <=> I!Menu \in keystate
    BY <1>5, <2>1
  <2> DEFINE x == q[l][1]
             down == q[l][2]
             before == f[l - 1]
  <2>4. f[l] = I!Moved(before, x, down) /\ (I!Menu \in before <=> I!Menu \in keystate)
    BY <2>2, <2>3
  <2> HIDE DEF x, down, before, l
  <2>5. I!Menu \in f[l] <=> IF x = I!Menu THEN down ELSE I!Menu \in keystate
    BY <2>4 DEF I!Moved
  <2> QED BY <1>6, <2>5 DEF x, down, l
<1> QED BY <1>6, <1>7, <1>8

\* Where collect_events ends.
StopsAt(q, n) ==
  /\ n \in 0 .. Len(q) /\ (q = <<>> => n = 0) /\ (q # <<>> => n >= 1)
  /\ \A j \in 1 .. Len(q) : j < n => q[j][1] \notin I!EmuKeys
  /\ n = Len(q) \/ q[n][1] \in I!EmuKeys

LEMMA StopFacts ==
  ASSUME NEW q \in Seq(Events)
  PROVE  StopsAt(q, I!Stop(q))
<1>1. DOMAIN q = 1 .. Len(q) /\ Len(q) \in Nat /\ (q = <<>> => Len(q) = 0) /\ (q # <<>> => Len(q) >= 1)
  OBVIOUS
<1>2. I!Ends(q) \subseteq 1 .. Len(q) /\ \A j \in 1 .. Len(q) : j \in I!Ends(q) <=> q[j][1] \in I!EmuKeys
  BY <1>1 DEF I!Ends
<1>3. CASE I!Ends(q) = {}
  <2>1. I!Stop(q) = Len(q)
    BY <1>3 DEF I!Stop
  <2> QED BY <1>1, <1>2, <1>3, <2>1 DEF StopsAt
<1>4. CASE I!Ends(q) # {}
  <2>1. \E m \in I!Ends(q) : \A j \in I!Ends(q) : m <= j
    <3>1. I!Ends(q) \subseteq Nat
      BY <1>2
    <3> QED BY <1>4, <3>1, Least
  <2> DEFINE n == I!Stop(q)
  <2>2. n \in I!Ends(q) /\ \A j \in I!Ends(q) : n <= j
    BY <1>4, <2>1 DEF I!Stop
  <2> HIDE DEF n
  <2>3. n \in 1 .. Len(q)
    BY <1>2, <2>2
  <2>4. \A j \in 1 .. Len(q) : j < n => q[j][1] \notin I!EmuKeys
    <3> SUFFICES ASSUME NEW j \in 1 .. Len(q), j < n, j \in I!Ends(q) PROVE FALSE
      BY <1>2
    <3> QED BY <2>2, <2>3
  <2>5. n \in 0 .. Len(q) /\ n >= 1 /\ q # <<>>
    BY <1>1, <2>3
  <2>6. q[n][1] \in I!EmuKeys
    BY <1>2, <2>2, <2>3
  <2>7. StopsAt(q, n)
    BY <2>4, <2>5, <2>6 DEF StopsAt
  <2> QED BY <2>7 DEF n
<1> QED BY <1>3, <1>4

\* What comes after the first events is in two parts, of which the second comes first in the end.
LeftAs(q, a, z) ==
  /\ I!After(q, I!Stop(q)) = a \o z /\ I!Left(q) = z \o a /\ I!Mixed(q) = I!Overtaken(z, a)

LEMMA LeftParts ==
  ASSUME KeyTypes, NEW q \in Seq(Events)
  PROVE  \E a, z \in Seq(Events) : LeftAs(q, a, z)
<1> DEFINE n == I!Stop(q)
           t == I!Taken(q)
           l == Len(q)
           c == IF t < l THEN t ELSE l
           p == I!First(q, t)
           a == I!After(p, n)
           z == I!After(q, t)
           y == I!After(q, n)
<1>1. n \in Nat /\ n <= l /\ l \in Nat
  BY StopFacts DEF StopsAt
<1>2. t \in Nat /\ n <= t
  <2>1. Collect \in Nat \ {0}
    BY Pulls
  <2> HIDE DEF n
  <2>2. ((n + Collect - 1) \div Collect) * Collect >= n /\ ((n + Collect - 1) \div Collect) * Collect \in Nat
    BY <1>1, <2>1
  <2> QED BY <1>1, <2>2 DEF I!Taken, n
<1> HIDE DEF t, n
<1>3. c \in Nat /\ c <= l /\ n <= c
  BY <1>1, <1>2
<1>4. /\ p \in Seq(Events) /\ Len(p) = c /\ \A j \in 1 .. c : p[j] = q[j]
      /\ z \in Seq(Events) /\ Len(z) = l - c /\ \A j \in 1 .. l - c : z[j] = q[c + j]
  BY <1>2, FirstAfter
<1>5. /\ y \in Seq(Events) /\ Len(y) = l - n /\ \A j \in 1 .. l - n : y[j] = q[n + j]
  BY <1>1, AfterPart
<1> HIDE DEF p, z, y
<1>6. /\ a \in Seq(Events) /\ Len(a) = c - n /\ \A j \in 1 .. c - n : a[j] = p[n + j]
  <2>1. p \in Seq(Events) /\ n \in Nat /\ n <= Len(p)
    BY <1>1, <1>3, <1>4
  <2> HIDE DEF c
  <2>2. /\ I!After(p, n) \in Seq(Events) /\ Len(I!After(p, n)) = Len(p) - n
        /\ \A j \in 1 .. Len(p) - n : I!After(p, n)[j] = p[n + j]
    BY <2>1, AfterPart
  <2> QED BY <1>4, <2>2
<1> HIDE DEF a
<1>7. \A j \in 1 .. c - n : a[j] = q[n + j]
  <2>1. \A j \in 1 .. c - n : n + j \in 1 .. c
    BY <1>1, <1>3
  <2> QED BY <1>4, <1>6, <2>1
<1> DEFINE b == SubSeq(q, n + 1, c)
<1>8. b = a
  <2>1. b \in Seq(Events) /\ Len(b) = c - n /\ \A j \in 1 .. c - n : b[j] = q[n + j]
    <3> HIDE DEF c
    <3> QED BY <1>1, <1>3
  <2> HIDE DEF b, c
  <2>2. Len(b) = Len(a) /\ \A j \in 1 .. Len(b) : b[j] = a[j]
    BY <1>6, <1>7, <2>1
  <2> QED BY <1>6, <2>1, <2>2, SameSeq
<1>9. I!Left(q) = z \o b
  BY DEF I!Left, n, t, l, z
<1>10. y = a \o z
  <2>0. a \in Seq(Events) /\ z \in Seq(Events)
    BY <1>4, <1>6
  <2> HIDE DEF c, l
  <2>1. /\ a \o z \in Seq(Events) /\ Len(a \o z) = Len(a) + Len(z)
        /\ \A j \in 1 .. Len(a) : (a \o z)[j] = a[j]
        /\ \A j \in 1 .. Len(z) : (a \o z)[Len(a) + j] = z[j]
    BY <2>0, Concat
  <2> DEFINE x == a \o z
  <2> HIDE DEF x
  <2>2. ASSUME NEW j \in 1 .. l - n PROVE x[j] = q[n + j]
    <3>1. CASE j <= c - n
      <4>1. j \in 1 .. c - n
        BY <1>1, <1>3, <3>1
      <4> QED BY <1>6, <1>7, <2>1, <4>1 DEF x
    <3>2. CASE ~ (j <= c - n)
      <4>1. j - (c - n) \in 1 .. l - c /\ (c - n) + (j - (c - n)) = j
        BY <1>1, <1>3, <3>2
      <4>2. PICK m \in 1 .. l - c : (c - n) + m = j
        BY <4>1
      <4>3. c + m = n + j
        BY <1>1, <1>3, <4>2
      <4>4. x[j] = z[m] /\ z[m] = q[c + m]
        BY <1>4, <1>6, <2>1, <4>2 DEF x
      <4> QED BY <4>3, <4>4
    <3> QED BY <3>1, <3>2
  <2>3. x \in Seq(Events) /\ Len(x) = Len(a) + Len(z)
    BY <2>1 DEF x
  <2>4. Len(x) = l - n
    BY <1>1, <1>3, <1>4, <1>6, <2>3
  <2>5. y \in Seq(Events) /\ Len(y) = Len(x)
    BY <1>5, <2>4
  <2>6. \A j \in 1 .. Len(y) : y[j] = x[j]
    <3>1. Len(y) = l - n
      BY <1>5
    <3>2. \A j \in 1 .. l - n : y[j] = x[j]
      BY <1>5, <2>2
    <3> QED BY <3>1, <3>2
  <2>7. y = x
    BY <2>3, <2>5, <2>6, SameSeq
  <2> QED BY <2>7 DEF x
<1>11. I!Mixed(q) = I!Overtaken(z, a)
  BY DEF I!Mixed, z, a, p, n, t
<1>12. LeftAs(q, a, z)
  BY <1>8, <1>9, <1>10, <1>11 DEF LeftAs, y, n
<1> QED BY <1>4, <1>6, <1>12
------------------------------------------------------------------------------
(* What a sequence of events comes to.                                       *)

\* The events of q take x to y, with a tap of MENU among them if tapped.
Path(x, q, y, tapped) ==
  \E r : IsRun(r, q) /\ r[0] = x /\ r[Len(q)] = y /\ (Pending(r, q) <=> tapped)

LEMMA PathSame ==
  ASSUME NEW x, NEW q, NEW y, NEW f, NEW g, f <=> g, Path(x, q, y, f)
  PROVE  Path(x, q, y, g)
BY DEF Path

LEMMA PathEnds ==
  ASSUME NEW q \in Seq(Events), NEW x, NEW y, NEW f, Path(x, q, y, f)
  PROVE  x \in States /\ y \in States
<1>1. PICK r : IsRun(r, q) /\ r[0] = x /\ r[Len(q)] = y
  BY DEF Path
<1>2. 0 \in 0 .. Len(q) /\ Len(q) \in 0 .. Len(q)
  OBVIOUS
<1> QED BY <1>1, <1>2 DEF IsRun

LEMMA PathNone ==
  ASSUME NEW x \in States
  PROVE  Path(x, <<>>, x, FALSE)
<1> DEFINE r == [j \in 0 .. 0 |-> x]
<1>1. IsRun(r, <<>>) /\ r[0] = x /\ Len(<<>>) = 0
  BY RunEmpty
<1>2. ~ Pending(r, <<>>)
  BY DEF Pending
<1> HIDE DEF r
<1> QED BY <1>1, <1>2 DEF Path

LEMMA PathOfNone ==
  ASSUME NEW x, NEW y, NEW f, Path(x, <<>>, y, f)
  PROVE  y = x /\ ~ f
<1>1. PICK r : r[0] = x /\ r[Len(<<>>)] = y /\ (Pending(r, <<>>) <=> f)
  BY DEF Path
<1>2. Len(<<>>) = 0 /\ ~ Pending(r, <<>>)
  BY DEF Pending
<1> QED BY <1>1, <1>2

\* The event is the end of a tap.
Taps(x, e) == e[1] = I!Menu /\ ~ e[2] /\ x.mod = "MAYBE"

LEMMA PathOne ==
  ASSUME NEW x \in States, NEW y \in States, NEW e \in Events, Moves(x, e, y)
  PROVE  Path(x, <<e>>, y, Taps(x, e))
<1> DEFINE r == [j \in 0 .. 1 |-> IF j = 0 THEN x ELSE y]
           q == <<e>>
<1>1. Len(q) = 1 /\ q[1] = e
  OBVIOUS
<1>2. IsRun(r, q)
  BY RunOne
<1>3. r[0] = x /\ r[1] = y
  OBVIOUS
<1> HIDE DEF r, q
<1>4. Pending(r, q) <=> Taps(x, e)
  <2>1. \A j \in 1 .. Len(q) : j = 1 /\ j - 1 = 0
    BY <1>1
  <2>2. 1 \in 1 .. Len(q)
    BY <1>1
  <2> QED BY <1>1, <1>3, <2>1, <2>2 DEF Pending, Taps
<1>5. Path(x, q, y, Taps(x, e))
  BY <1>1, <1>2, <1>3, <1>4 DEF Path
<1> QED BY <1>5 DEF q

LEMMA PathJoin ==
  ASSUME NEW a \in Seq(Events), NEW z \in Seq(Events), NEW x, NEW y, NEW w, NEW f, NEW g,
         Path(x, a, y, f), Path(y, z, w, g)
  PROVE  Path(x, a \o z, w, f \/ g)
<1>1. PICK r : IsRun(r, a) /\ r[0] = x /\ r[Len(a)] = y /\ (Pending(r, a) <=> f)
  BY DEF Path
<1>2. PICK u : IsRun(u, z) /\ u[0] = y /\ u[Len(z)] = w /\ (Pending(u, z) <=> g)
  BY DEF Path
<1> DEFINE t == Joined(r, a, u, z)
           l == Len(a)
           m == Len(z)
           s == a \o z
<1>3. l \in Nat /\ m \in Nat /\ Len(s) = l + m
  BY Concat
<1>4. /\ IsRun(t, s)
      /\ \A j \in 0 .. l : t[j] = r[j]
      /\ \A j \in 0 .. m : t[l + j] = u[j]
  BY <1>1, <1>2, RunJoin
<1>5. Pending(t, s) <=> Pending(r, a) \/ Pending(u, z)
  BY <1>4, PendingParts
<1>6. r[0] = x /\ u[m] = w
  BY <1>1, <1>2
<1> HIDE DEF t, l, m, s
<1>7. 0 \in 0 .. l /\ m \in 0 .. m
  BY <1>3
<1>8. t[0] = x /\ t[Len(s)] = w
  BY <1>3, <1>4, <1>6, <1>7
<1>9. Path(x, s, w, f \/ g)
  BY <1>1, <1>2, <1>4, <1>5, <1>8 DEF Path
<1> QED BY <1>9 DEF s

\* The state between two parts.
Halfway(x, a, z, w, tapped, y) ==
  /\ y \in States
  /\ \E f, g \in BOOLEAN : Path(x, a, y, f) /\ Path(y, z, w, g) /\ (tapped <=> f \/ g)

LEMMA PathSplit ==
  ASSUME NEW a \in Seq(Events), NEW z \in Seq(Events), NEW x, NEW w, NEW tapped,
         Path(x, a \o z, w, tapped)
  PROVE  \E y : Halfway(x, a, z, w, tapped, y)
<1> DEFINE l == Len(a)
           m == Len(z)
           s == a \o z
<1>1. PICK t : IsRun(t, s) /\ t[0] = x /\ t[Len(s)] = w /\ (Pending(t, s) <=> tapped)
  BY DEF Path
<1>2. l \in Nat /\ m \in Nat /\ Len(s) = l + m
  BY Concat
<1> DEFINE r == [j \in 0 .. l |-> t[j]]
           u == [j \in 0 .. m |-> t[l + j]]
<1>3. IsRun(r, a) /\ IsRun(u, z)
  BY <1>1, RunParts
<1>4. (\A j \in 0 .. l : t[j] = r[j]) /\ (\A j \in 0 .. m : t[l + j] = u[j])
  OBVIOUS
<1> HIDE DEF r, u
<1>5. Pending(t, s) <=> Pending(r, a) \/ Pending(u, z)
  BY <1>4, PendingParts
<1> HIDE DEF l, m, s
<1>6. 0 \in 0 .. l /\ l \in 0 .. l /\ m \in 0 .. m /\ 0 \in 0 .. m /\ l + 0 = l
  BY <1>2
<1> DEFINE y == t[l]
<1>7. r[0] = x /\ r[l] = y /\ u[0] = y /\ u[m] = w
  BY <1>1, <1>2, <1>4, <1>6
<1>8. y \in States
  BY <1>3, <1>6, <1>7 DEF IsRun, l
<1> HIDE DEF y
<1>9. Path(x, a, y, Pending(r, a)) /\ Path(y, z, w, Pending(u, z))
  BY <1>3, <1>7 DEF Path, l, m
<1>10. PICK f \in BOOLEAN, g \in BOOLEAN : (f <=> Pending(r, a)) /\ (g <=> Pending(u, z))
  <2>1. (\E f \in BOOLEAN : f <=> Pending(r, a)) /\ (\E g \in BOOLEAN : g <=> Pending(u, z))
    OBVIOUS
  <2> QED BY <2>1
<1>11. Path(x, a, y, f) /\ Path(y, z, w, g) /\ (tapped <=> f \/ g)
  BY <1>1, <1>5, <1>9, <1>10, PathSame
<1> QED BY <1>8, <1>11 DEF Halfway

LEMMA PathSwap ==
  ASSUME NEW a \in Seq(Events), NEW z \in Seq(Events), NEW x, NEW y, NEW tapped,
         Path(x, a \o z, y, tapped), I!Overtaken(z, a) = {}
  PROVE  Path(x, z \o a, y, tapped)
<1>1. PICK r : IsRun(r, a \o z) /\ r[0] = x /\ r[Len(a \o z)] = y /\ (Pending(r, a \o z) <=> tapped)
  BY DEF Path
<1>2. PICK t : Swapped(t, r, a, z)
  BY <1>1, RunSwap
<1> QED BY <1>1, <1>2 DEF Swapped, Path
------------------------------------------------------------------------------
(* The invariant.                                                            *)

\* In every state, clean or not.
Always ==
  /\ I!TypeOK
  /\ tap => I!Menu \in held
  /\ repeat \in I!PlainKeys => ~ tap
  /\ prev = "menu" => I!Menu \in keystate
  /\ ~ clean => owed = 0
  /\ poll = "menu" => ~ tap
  /\ poll \in {"frame", "update"} => buttons = I!Buttons(keystate)

\* z is what the player holds.
Final(z) ==
  /\ z.held = held \cap I!PlainKeys /\ z.out = {}
  /\ I!Menu \notin held => z.mod = "NO"
  /\ tap <=> z.mod = "MAYBE"

\* The events of the queue take the keys that in_sdl.c knows to those the player holds, and
\* the menu is owed if a tap is among them.
Following == \E z : Path(StateOf(keystate, mod), I!NotPower(queue), z, owed > 0) /\ Final(z)

\* The release of MENU that closed the menu is the next event.
Closing == LET q == I!NotPower(queue) IN mod = "NO" /\ q # <<>> /\ q[1] = <<I!Menu, FALSE>>

InGame ==
  /\ Following /\ owed >= 0
  /\ mod # "NO" => keystate \cap I!PlainKeys = {}
  /\ I!Menu \in keystate => Closing

MenuShown == owed >= 0 /\ keystate \cap I!Outs = {}

InputInv == Always /\ (clean => IF poll = "menu" THEN MenuShown ELSE InGame)

\* No conjunct but those of the types is about buttons or power.
LEMMA AllTypes ==
  ASSUME I!TypeOK
  PROVE  /\ KeyTypes /\ owed \in Int /\ tap \in BOOLEAN /\ clean \in BOOLEAN
         /\ held \subseteq AllKeys /\ poll \in {"frame", "update", "menu", "quit"}
BY DEF I!TypeOK, KeyTypes, AllKeys, Events, Mods

LEMMA InitInput == I!Init => InputInv
<1> SUFFICES ASSUME I!Init PROVE InputInv
  OBVIOUS
<1>1. /\ poll = "frame" /\ held = {} /\ repeat = "off" /\ queue = <<>>
      /\ mod = "NO" /\ keystate = {} /\ buttons = {} /\ prev = "none" /\ power = "off"
      /\ tap = FALSE /\ owed = 0 /\ clean = TRUE
  BY DEF I!Init
<1>2. Always
  <2>1. <<>> \in Seq(Events)
    OBVIOUS
  <2>2. queue \in Seq((I!PlainKeys \cup I!Outs \cup {I!Menu, I!Power}) \X BOOLEAN)
    BY <1>1, <2>1 DEF Events, AllKeys
  <2>3. {tap, clean} \subseteq BOOLEAN
    BY <1>1
  <2>4. I!TypeOK
    BY <1>1, <2>2, <2>3 DEF I!TypeOK
  <2> QED BY <1>1, <2>4 DEF Always, I!Buttons
<1>3. I!NotPower(queue) = <<>>
  <2>1. <<>> \in Seq(Events)
    OBVIOUS
  <2> QED BY <1>1, <2>1, EmptyKeys, NotPowerSame
<1>4. Following
  <2> DEFINE x == StateOf(keystate, mod)
  <2>1. x \in States
    BY <1>1, StateOfType
  <2>2. Path(x, I!NotPower(queue), x, owed > 0)
    <3>1. FALSE <=> owed > 0
      BY <1>1
    <3> HIDE DEF x
    <3> QED BY <1>3, <2>1, <3>1, PathNone, PathSame
  <2>3. Final(x)
    BY <1>1 DEF Final, StateOf, Others
  <2> QED BY <2>2, <2>3 DEF Following
<1>5. InGame
  BY <1>1, <1>4 DEF InGame
<1> QED BY <1>1, <1>2, <1>5 DEF InputInv

\* The types, and what holds of the menu and of the buttons, when events are added or taken.
LEMMA PressAlways ==
  ASSUME Always, NEW key \in I!PlainKeys \cup {I!Menu, I!Power}, I!Press(key) \/ I!Release(key)
  PROVE  Always'
<1>1. /\ held' \subseteq I!PlainKeys \cup {I!Menu, I!Power} /\ tap' \in BOOLEAN /\ clean' \in BOOLEAN
      /\ owed' \in Int /\ (~ clean' => owed' = 0) /\ (tap' => I!Menu \in held') /\ (poll = "menu" => ~ tap')
      /\ repeat' \in I!PlainKeys \cup {I!Menu, I!Power, "none", "off"} /\ (repeat' \in I!PlainKeys => ~ tap')
  <2>1. CASE I!Press(key)
    <3>1. tap' = CASE key = I!Menu -> held \cap I!PlainKeys = {} /\ poll # "menu"
                   [] key = I!Power -> tap
                   [] OTHER -> FALSE
      BY <2>1 DEF I!Press
    <3>2. /\ I!Menu # I!Power /\ I!Menu \notin I!PlainKeys /\ Modifiers \subseteq I!PlainKeys
          /\ "off" \notin I!PlainKeys /\ I!Power \notin I!PlainKeys
      BY KeyFacts
    <3> HIDE DEF I!Menu, I!Power, I!PlainKeys
    <3>3. repeat' = IF repeat = "off" \/ key \in Modifiers THEN repeat ELSE key
      BY <2>1 DEF I!Press
    <3>4. repeat' \in I!PlainKeys => ~ tap'
      <4>1. CASE key = I!Menu
        BY <3>2, <3>3, <4>1
      <4>2. CASE key = I!Power
        <5>1. tap' <=> tap
          BY <3>1, <3>2, <4>2
        <5>2. repeat' = repeat \/ repeat' \notin I!PlainKeys
          BY <3>2, <3>3, <4>2
        <5>3. repeat \in I!PlainKeys => ~ tap
          BY DEF Always
        <5> QED BY <5>1, <5>2, <5>3
      <4>3. CASE key \in I!PlainKeys
        BY <3>1, <3>2, <4>3, KeyFacts
      <4> QED BY <4>1, <4>2, <4>3
    <3> QED BY <2>1, <3>1, <3>2, <3>3, <3>4 DEF I!Press, Always, I!TypeOK
  <2>2. CASE I!Release(key)
    <3>1. held' = held \ {key} /\ (tap' <=> tap /\ key # I!Menu) /\ (clean' <=> clean)
      BY <2>2, Zenon DEF I!Release
    <3>3. owed' = IF clean' THEN (IF key = I!Menu /\ tap THEN owed + 1 ELSE owed) ELSE 0
      BY <2>2, Zenon DEF I!Release, I!Owe
    <3>4. clean' \in BOOLEAN /\ owed' \in Int /\ (~ clean' => owed' = 0)
      <4>1. owed \in Int
        BY DEF Always, I!TypeOK
      <4>2. clean' \in BOOLEAN
        BY <2>2, Zenon DEF I!Release, Always, I!TypeOK
      <4> QED BY <3>3, <4>1, <4>2
    <3>2. tap' \in BOOLEAN
      BY <2>2, Zenon DEF I!Release, Always, I!TypeOK
    <3>5. repeat' \in {repeat, "none"} /\ "none" \notin I!PlainKeys
      BY <2>2, KeyFacts DEF I!Release
    <3> HIDE DEF I!Menu, I!Power, I!PlainKeys
    <3> QED BY <3>1, <3>2, <3>4, <3>5 DEF Always, I!TypeOK
  <2> QED BY <2>1, <2>2
<1>2. \E down \in BOOLEAN : queue' = Append(queue, <<key, down>>)
  BY DEF I!Press, I!Release
<1>3. queue' \in Seq(Events)
  <2>1. queue \in Seq(Events)
    BY AllTypes DEF Always, KeyTypes
  <2>2. PICK down \in BOOLEAN : queue' = Append(queue, <<key, down>>)
    BY <1>2
  <2> DEFINE e == <<key, down>>
  <2>3. e \in Events
    BY DEF Events, AllKeys
  <2> HIDE DEF e
  <2>4. queue' = Append(queue, e)
    BY <2>2 DEF e
  <2> QED BY <2>1, <2>3, <2>4
<1>4. UNCHANGED <<poll, mod, keystate, buttons, prev, power>>
  BY DEF I!Press, I!Release
<1>5. I!TypeOK'
  BY <1>1, <1>3, <1>4 DEF Always, I!TypeOK, Events, AllKeys
<1> QED BY <1>1, <1>4, <1>5 DEF Always, I!Buttons

Pulled == I!First(queue, Pull)
Rest   == I!After(queue, Pull)

LEMMA PulledRest ==
  ASSUME KeyTypes
  PROVE  Pulled \in Seq(Events) /\ Rest \in Seq(Events) /\ queue = Pulled \o Rest
BY Pulls DEF Pulled, Rest

\* What PollPower does when it puts kept back.
PollTakes(kept) ==
  /\ queue' = Rest \o kept
  /\ clean' => clean /\ I!Overtaken(Rest, kept) = {} /\ kept = I!NotPower(Pulled)
  /\ clean' \in BOOLEAN /\ owed' = IF clean' THEN owed ELSE 0
  /\ poll' \in {"frame", "update"} /\ prev' \in {prev, "sleep"} /\ power' \in {"on", "off", power}
  /\ UNCHANGED <<held, repeat, mod, keystate, buttons>> /\ (tap' <=> tap) /\ tap' \in BOOLEAN

LEMMA PollDoes ==
  ASSUME Always, I!PollPower
  PROVE  poll = "frame" /\ \E kept \in Seq(Events) : PollTakes(kept)
<1> DEFINE ups == {j \in DOMAIN Pulled : Pulled[j] = <<I!Power, FALSE>>}
           up == IF ups = {} THEN 0 ELSE CHOOSE j \in ups : \A m \in ups : j <= m
           kept == I!NotPower(IF up = 0 THEN Pulled ELSE I!First(Pulled, up))
           mixed == I!Overtaken(Rest, kept)
<1>1. KeyTypes /\ tap \in BOOLEAN /\ clean \in BOOLEAN
  BY AllTypes DEF Always
<1>2. Pulled \in Seq(Events) /\ Rest \in Seq(Events)
  BY <1>1, PulledRest
<1>3. /\ poll = "frame" /\ queue' = Rest \o kept
      /\ IF up = 0
           THEN /\ power' = IF <<I!Power, TRUE>> \in {Pulled[j] : j \in DOMAIN Pulled} THEN "on"
                            ELSE IF power = "due" THEN "off" ELSE power
                /\ poll' = "update" /\ UNCHANGED prev
                /\ I!Lose(mixed)
           ELSE /\ power' = "off" /\ prev' = "sleep" /\ UNCHANGED poll
                /\ I!Lose(mixed \cup I!KeysOf(I!After(Pulled, up)))
      /\ I!Owe(owed) /\ UNCHANGED <<held, repeat, mod, keystate, buttons, tap>>
  BY DEF I!PollPower, Pulled, Rest
<1>4. up \in Nat /\ up <= Len(Pulled)
  <2>1. CASE ups = {}
    BY <1>2, <2>1
  <2>2. CASE ups # {}
    <3>0. DOMAIN Pulled = 1 .. Len(Pulled) /\ Len(Pulled) \in Nat
      BY <1>2
    <3>1. ups \subseteq 1 .. Len(Pulled)
      BY <3>0, Zenon
    <3> HIDE DEF ups
    <3>2. ups \subseteq Nat
      BY <3>0, <3>1
    <3>3. \E j \in ups : \A m \in ups : j <= m
      BY <2>2, <3>2, Least
    <3>4. up \in ups
      BY <2>2, <3>3
    <3> HIDE DEF up
    <3> QED BY <1>2, <3>1, <3>4
  <2> QED BY <2>1, <2>2
<1> HIDE DEF up, ups
<1>5. I!First(Pulled, up) \in Seq(Events) /\ I!After(Pulled, up) \in Seq(Events)
      /\ Pulled = I!First(Pulled, up) \o I!After(Pulled, up)
  BY <1>2, <1>4, FirstAfter, Parted
<1>6. kept \in Seq(Events)
  BY <1>2, <1>5, NotPowerKeeps
<1> DEFINE lost == IF up = 0 THEN mixed ELSE mixed \cup I!KeysOf(I!After(Pulled, up))
<1>7. clean' <=> clean /\ lost = {}
  BY <1>3, Zenon DEF I!Lose
<1>8. clean' \in BOOLEAN
  BY <1>3, Zenon DEF I!Lose
<1>9. ASSUME clean'
      PROVE  clean /\ mixed = {} /\ kept = I!NotPower(Pulled)
  <2>1. clean /\ lost = {}
    BY <1>7, <1>9
  <2>2. CASE up = 0
    BY <2>1, <2>2
  <2>3. CASE up # 0
    <3>1. mixed = {} /\ I!KeysOf(I!After(Pulled, up)) = {}
      BY <2>1, <2>3
    <3>2. I!After(Pulled, up) = <<>>
      BY <1>5, <3>1, NoKeys
    <3>3. Pulled = I!First(Pulled, up)
      BY <1>5, <3>2, EmptyConcat
    <3> QED BY <2>1, <3>1, <3>3
  <2> QED BY <2>2, <2>3
<1>10. owed' = IF clean' THEN owed ELSE 0
  BY <1>3 DEF I!Owe
<1> HIDE DEF kept, mixed
<1>11. /\ poll' \in {"frame", "update"} /\ prev' \in {prev, "sleep"} /\ power' \in {"on", "off", power}
       /\ UNCHANGED <<held, repeat, mod, keystate, buttons>>
  BY <1>3
<1>12. (tap' <=> tap) /\ tap' \in BOOLEAN
  BY <1>1, <1>3, Zenon
<1>13. PollTakes(kept)
  BY <1>3, <1>8, <1>9, <1>10, <1>11, <1>12 DEF PollTakes, mixed
<1> QED BY <1>3, <1>6, <1>13

LEMMA PollAlways ==
  ASSUME Always, I!PollPower
  PROVE  Always'
<1>1. PICK kept \in Seq(Events) : PollTakes(kept)
  BY PollDoes
<1>2. poll = "frame" /\ owed \in Int /\ held \subseteq I!PlainKeys \cup {I!Menu, I!Power}
  BY PollDoes DEF Always, I!TypeOK
<1>3. queue' \in Seq((I!PlainKeys \cup I!Outs \cup {I!Menu, I!Power}) \X BOOLEAN)
  <2>1. Rest \in Seq(Events)
    BY PulledRest, AllTypes DEF Always
  <2>2. queue' \in Seq(Events)
    BY <1>1, <2>1, Concat DEF PollTakes
  <2> QED BY <2>2 DEF Events, AllKeys
<1>4. owed' \in Int /\ (~ clean' => owed' = 0)
  BY <1>1, <1>2 DEF PollTakes
<1>5. {tap', clean'} \subseteq BOOLEAN
  BY <1>1 DEF PollTakes
<1>6. UNCHANGED <<held, repeat, mod, keystate, buttons>> /\ poll' \in {"frame", "update"} /\ prev' \in {prev, "sleep"}
      /\ power' \in {"on", "off", power}
  BY <1>1 DEF PollTakes
<1>7. I!TypeOK'
  BY <1>3, <1>4, <1>5, <1>6 DEF Always, I!TypeOK
<1>8. (tap' => I!Menu \in held') /\ (repeat' \in I!PlainKeys => ~ tap')
  BY <1>1, <1>6 DEF PollTakes, Always
<1> QED BY <1>2, <1>4, <1>6, <1>7, <1>8 DEF Always, I!Buttons

\* Keys for which an update may lose an event, when it makes s of what it pulled and q of the queue.
Gone(s, q) ==
  I!Overtaken(Rest, s.put) \cup I!Mixed(q) \cup (I!KeysOf(Rest) \cap (IF s.mod = "NO" THEN {I!Menu} ELSE I!KeysOf(Rest)))
    \cup (IF s.mod = "NO" THEN {} ELSE I!KeysOf(I!Left(q))) \cup s.dropped \cup ({I!Power} \cap I!KeysOf(queue))

\* What InUpdate does when the keys become ks.
UpdateTakes(s, q, ks) ==
  /\ mod' = s.mod /\ keystate' = ks /\ queue' = I!Left(q)
  /\ prev' \in {"none", "menu", "ff"} /\ (prev' = "menu" <=> I!Menu \in ks)
  /\ clean' \in BOOLEAN /\ (clean' => clean /\ Gone(s, q) = {})
  /\ UNCHANGED <<held, power>> /\ repeat' \in {repeat, "none"}
  /\ IF I!Menu \in ks /\ prev # "menu"
       THEN /\ poll' = "menu" /\ tap' = FALSE /\ UNCHANGED buttons
            /\ owed' = IF clean' THEN owed - 1 ELSE 0
       ELSE /\ poll' = "frame" /\ (tap' <=> tap) /\ tap' \in BOOLEAN /\ buttons' = I!Buttons(ks)
            /\ owed' = IF clean' THEN owed ELSE 0

\* The queue when the events translated have been put back.
Requeued == Rest \o I!Translated.put

LEMMA UpdateDoes ==
  ASSUME Always, I!InUpdate
  PROVE  poll = "update" /\ UpdateTakes(I!Translated, Requeued, I!Handled(I!First(Requeued, I!Stop(Requeued))))
<1> DEFINE s == I!Translated
           q == Requeued
           ks == I!Handled(I!First(Requeued, I!Stop(Requeued)))
           act == I!Action(ks)
           mixed == I!Overtaken(Rest, s.put) \cup I!Mixed(q)
           raw == I!KeysOf(Rest) \cap (IF s.mod = "NO" THEN {I!Menu} ELSE I!KeysOf(Rest))
           again == IF s.mod = "NO" THEN {} ELSE I!KeysOf(I!Left(q))
           gone == mixed \cup raw \cup again \cup s.dropped \cup ({I!Power} \cap I!KeysOf(queue))
<1>1. tap \in BOOLEAN /\ clean \in BOOLEAN
  BY AllTypes DEF Always
<1>2. /\ poll = "update"
      /\ mod' = s.mod /\ keystate' = ks /\ queue' = I!Left(q)
      /\ prev' = act
      /\ I!Lose(gone)
      /\ IF act = "menu" /\ prev # "menu"
           THEN /\ poll' = "menu" /\ I!Owe(owed - 1) /\ tap' = FALSE
                /\ repeat' = "none" /\ UNCHANGED buttons
           ELSE /\ poll' = "frame" /\ buttons' = I!Buttons(ks)
                /\ I!Owe(owed) /\ UNCHANGED <<repeat, tap>>
      /\ UNCHANGED <<held, power>>
  BY DEF I!InUpdate, Rest, Requeued
<1>3. act \in {"none", "menu", "ff"} /\ (act = "menu" <=> I!Menu \in ks)
  BY DEF I!Action
<1>4. Gone(s, q) = gone
  BY DEF Gone
<1>9. repeat' \in {repeat, "none"}
  BY <1>2
<1> HIDE DEF s, q, ks, gone, act
<1>5. clean' <=> clean /\ gone = {}
  BY <1>2, Zenon DEF I!Lose
<1>6. clean' \in BOOLEAN
  BY <1>2, Zenon DEF I!Lose
<1>7. CASE act = "menu" /\ prev # "menu"
  <2>1. poll' = "menu" /\ tap' = FALSE /\ UNCHANGED buttons /\ owed' = IF clean' THEN owed - 1 ELSE 0
    BY <1>2, <1>7 DEF I!Owe
  <2> QED BY <1>2, <1>3, <1>4, <1>5, <1>6, <1>7, <1>9, <2>1 DEF UpdateTakes, s, q, ks
<1>8. CASE ~ (act = "menu" /\ prev # "menu")
  <2>1. poll' = "frame" /\ buttons' = I!Buttons(ks) /\ owed' = IF clean' THEN owed ELSE 0
    BY <1>2, <1>8 DEF I!Owe
  <2>2. (tap' <=> tap) /\ tap' \in BOOLEAN
    BY <1>1, <1>2, <1>8, Zenon
  <2> QED BY <1>2, <1>3, <1>4, <1>5, <1>6, <1>8, <1>9, <2>1, <2>2 DEF UpdateTakes, s, q, ks
<1> QED BY <1>7, <1>8

\* Types of the parts.
LEMMA UpdateTypes ==
  ASSUME KeyTypes
  PROVE  /\ I!Translated \in Recs /\ I!Translated.put \in Seq(Events) /\ Requeued \in Seq(Events)
         /\ I!Handled(I!First(Requeued, I!Stop(Requeued))) \in SUBSET AllKeys
         /\ I!Left(Requeued) \in Seq(Events) /\ I!Stop(Requeued) \in Nat /\ I!Stop(Requeued) <= Len(Requeued)
<1> DEFINE s == I!Translated
           q == Requeued
           n == I!Stop(q)
<1>1. s \in Recs
  <2>1. PICK f : TranslateRun(f, I!First(queue, Pull))
    BY TranslateRuns
  <2>2. Len(I!First(queue, Pull)) \in 0 .. Len(I!First(queue, Pull))
    BY Pulls
  <2> QED BY <2>1, <2>2 DEF TranslateRun
<1>2. s.put \in Seq(Events)
  BY <1>1 DEF Recs
<1>3. q \in Seq(Events)
  <2>1. Rest \in Seq(Events)
    BY PulledRest
  <2> HIDE DEF s
  <2>2. Rest \o s.put \in Seq(Events)
    BY <1>2, <2>1
  <2> QED BY <2>2 DEF Requeued, s
<1> HIDE DEF q
<1>4. n \in Nat /\ n <= Len(q)
  BY <1>3, StopFacts DEF StopsAt
<1> HIDE DEF n
<1>5. I!Left(q) \in Seq(Events)
  <2>1. PICK a \in Seq(Events), z \in Seq(Events) : LeftAs(q, a, z)
    BY <1>3, LeftParts
  <2>2. I!Left(q) = z \o a
    BY <2>1 DEF LeftAs
  <2> QED BY <2>2
<1>6. I!Handled(I!First(q, n)) \in SUBSET AllKeys
  <2>1. I!First(q, n) \in Seq(Events)
    BY <1>3, <1>4, AfterPart
  <2> DEFINE y == I!First(q, n)
  <2> HIDE DEF y
  <2>2. PICK f : HandledRun(f, y)
    BY <2>1, HandledRuns DEF y
  <2>3. Len(y) \in 0 .. Len(y)
    BY <2>1 DEF y
  <2>4. I!Handled(y) \in SUBSET AllKeys
    BY <2>2, <2>3 DEF HandledRun
  <2> QED BY <2>4 DEF y
<1> QED BY <1>1, <1>2, <1>3, <1>4, <1>5, <1>6 DEF q, n

LEMMA UpdateAlways ==
  ASSUME Always, I!InUpdate
  PROVE  Always'
<1> DEFINE s == I!Translated
           q == Requeued
           ks == I!Handled(I!First(Requeued, I!Stop(Requeued)))
<1>1. UpdateTakes(s, q, ks)
  BY UpdateDoes
<1>2. s \in Recs /\ ks \in SUBSET AllKeys /\ I!Left(q) \in Seq(Events)
  BY UpdateTypes, AllTypes DEF Always
<1>3. s.mod \in Mods
  BY <1>2, RecFields
<1>4. owed \in Int /\ held \subseteq I!PlainKeys \cup {I!Menu, I!Power} /\ buttons \subseteq I!PlainKeys
      /\ power \in {"off", "on", "due"} /\ repeat \in I!PlainKeys \cup {I!Menu, I!Power, "none", "off"}
  BY DEF Always, I!TypeOK
<1> HIDE DEF s, q, ks
<1>5. /\ mod' \in Mods /\ keystate' = ks /\ queue' \in Seq(Events)
      /\ prev' \in {"none", "menu", "ff"} /\ (prev' = "menu" <=> I!Menu \in ks)
      /\ clean' \in BOOLEAN /\ UNCHANGED <<held, power>> /\ repeat' \in {repeat, "none"}
  BY <1>1, <1>2, <1>3 DEF UpdateTakes
<1>6. /\ poll' \in {"frame", "menu"} /\ tap' \in BOOLEAN /\ owed' \in Int /\ (~ clean' => owed' = 0)
      /\ (tap' => tap) /\ (poll' = "menu" => ~ tap')
      /\ (poll' = "frame" => buttons' = I!Buttons(ks)) /\ buttons' \subseteq I!PlainKeys
  <2>1. CASE I!Menu \in ks /\ prev # "menu"
    <3>1. poll' = "menu" /\ tap' = FALSE /\ buttons' = buttons
      BY <1>1, <2>1 DEF UpdateTakes
    <3>2. owed' = IF clean' THEN owed - 1 ELSE 0
      BY <1>1, <2>1 DEF UpdateTakes
    <3>3. tap' \in BOOLEAN /\ ~ tap'
      BY <3>1
    <3> QED BY <1>4, <3>1, <3>2, <3>3
  <2>2. CASE ~ (I!Menu \in ks /\ prev # "menu")
    BY <1>1, <1>4, <2>2 DEF UpdateTakes, I!Buttons
  <2> QED BY <2>1, <2>2
<1>7. queue' \in Seq((I!PlainKeys \cup I!Outs \cup {I!Menu, I!Power}) \X BOOLEAN)
  BY <1>5 DEF Events, AllKeys
<1>8. keystate' \subseteq I!PlainKeys \cup I!Outs \cup {I!Menu, I!Power}
  BY <1>2, <1>5 DEF AllKeys
<1>9. I!TypeOK'
  BY <1>4, <1>5, <1>6, <1>7, <1>8 DEF I!TypeOK, Mods
<1>10. repeat' \in I!PlainKeys => ~ tap'
  BY <1>5, <1>6, KeyFacts DEF Always
<1> QED BY <1>5, <1>6, <1>9, <1>10 DEF Always

LEMMA LeaveAlways ==
  ASSUME Always, I!LeaveMenu
  PROVE  Always'
<1>1. /\ poll = "menu" /\ poll' = "frame" /\ queue' = <<<<I!Menu, FALSE>>>> /\ buttons' = I!Buttons(keystate)
      /\ tap' = FALSE /\ owed' = 0 /\ UNCHANGED <<held, repeat, mod, keystate, prev, power>>
  BY DEF I!LeaveMenu
<1>2. clean' \in BOOLEAN
  BY Zenon DEF I!LeaveMenu, I!Lose
<1>3. queue' \in Seq((I!PlainKeys \cup I!Outs \cup {I!Menu, I!Power}) \X BOOLEAN)
  <2> DEFINE e == <<I!Menu, FALSE>>
  <2>1. e \in Events
    BY MenuEvents
  <2> HIDE DEF e
  <2>2. <<e>> \in Seq(Events)
    BY <2>1
  <2> QED BY <1>1, <2>2 DEF Events, AllKeys, e
<1>4. {tap', clean'} \subseteq BOOLEAN /\ ~ tap'
  BY <1>1, <1>2
<1>5. I!TypeOK'
  BY <1>1, <1>3, <1>4 DEF Always, I!TypeOK, I!Buttons
<1> QED BY <1>1, <1>4, <1>5 DEF Always, I!Buttons
------------------------------------------------------------------------------
(* The player presses and releases.                                          *)

\* The state that one more event leads to.
LEMMA Follows ==
  ASSUME KeyTypes, Following, NEW e \in Events, ~ I!IsPower(e), queue' = Append(queue, e),
         UNCHANGED <<keystate, mod>>,
         \A z \in States : Final(z) =>
           \E y \in States : Moves(z, e, y) /\ Final(y)' /\ (owed' > 0 <=> owed > 0 \/ Taps(z, e))
  PROVE  Following'
<1> DEFINE x == StateOf(keystate, mod)
           q == I!NotPower(queue)
<1>1. PICK z : Path(x, q, z, owed > 0) /\ Final(z)
  BY DEF Following
<1>2. queue \in Seq(Events) /\ q \in Seq(Events)
  BY NotPowerKeeps DEF KeyTypes
<1>3. I!NotPower(queue') = Append(q, e) /\ Append(q, e) = q \o <<e>> /\ <<e>> \in Seq(Events)
  <2>1. I!NotPower(Append(queue, e)) = Append(q, e)
    BY <1>2, NotPowerOne
  <2> HIDE DEF q
  <2> QED BY <1>2, <2>1
<1>4. StateOf(keystate', mod') = x
  OBVIOUS
<1> HIDE DEF x, q
<1>5. z \in States
  BY <1>1, <1>2, PathEnds
<1>6. PICK y \in States : Moves(z, e, y) /\ Final(y)' /\ (owed' > 0 <=> owed > 0 \/ Taps(z, e))
  BY <1>1, <1>5
<1>7. Path(z, <<e>>, y, Taps(z, e))
  BY <1>5, <1>6, PathOne
<1>8. Path(x, q \o <<e>>, y, owed > 0 \/ Taps(z, e))
  <2> DEFINE f == owed > 0
             g == Taps(z, e)
             c == <<e>>
  <2>1. Path(x, q, z, f) /\ Path(z, c, y, g) /\ c \in Seq(Events)
    BY <1>1, <1>3, <1>7
  <2> HIDE DEF f, g, c
  <2>2. Path(x, q \o c, y, f \/ g)
    BY <1>2, <2>1, PathJoin
  <2> QED BY <2>2 DEF f, g, c
<1>9. Path(x, q \o <<e>>, y, owed' > 0)
  <2> DEFINE f == owed > 0 \/ Taps(z, e)
             g == owed' > 0
             c == q \o <<e>>
  <2>1. (f <=> g) /\ Path(x, c, y, f)
    BY <1>6, <1>8
  <2> HIDE DEF f, g, c
  <2>2. Path(x, c, y, g)
    BY <2>1, PathSame
  <2> QED BY <2>2 DEF g, c
<1>10. Path(StateOf(keystate', mod'), I!NotPower(queue'), y, owed' > 0)
  BY <1>3, <1>4, <1>9
<1> QED BY <1>6, <1>10 DEF Following

\* POWER is no button.
LEMMA PowerFollows ==
  ASSUME KeyTypes, Following, NEW e \in Events, I!IsPower(e), queue' = Append(queue, e),
         UNCHANGED <<keystate, mod, owed>>, tap' <=> tap,
         held' \cap I!PlainKeys = held \cap I!PlainKeys, I!Menu \in held' <=> I!Menu \in held
  PROVE  Following'
<1>1. PICK z : Path(StateOf(keystate, mod), I!NotPower(queue), z, owed > 0) /\ Final(z)
  BY DEF Following
<1>2. I!NotPower(queue') = I!NotPower(queue)
  <2>1. I!NotPower(Append(queue, e)) = I!NotPower(queue)
    BY NotPowerOne DEF KeyTypes
  <2> QED BY <2>1
<1>3. Final(z)'
  BY <1>1 DEF Final
<1>4. Path(StateOf(keystate', mod'), I!NotPower(queue'), z, owed' > 0)
  BY <1>1, <1>2
<1> QED BY <1>3, <1>4 DEF Following

LEMMA ClosingStays ==
  ASSUME KeyTypes, Closing, NEW e \in Events, queue' = Append(queue, e), UNCHANGED mod
  PROVE  Closing'
<1> DEFINE q == I!NotPower(queue)
<1>1. q \in Seq(Events) /\ mod = "NO" /\ q # <<>> /\ q[1] = <<I!Menu, FALSE>>
  BY NotPowerKeeps DEF KeyTypes, Closing
<1>2. I!NotPower(queue') = IF I!IsPower(e) THEN q ELSE Append(q, e)
  <2>1. I!NotPower(Append(queue, e)) = IF I!IsPower(e) THEN q ELSE Append(q, e)
    BY NotPowerOne DEF KeyTypes
  <2> QED BY <2>1
<1> HIDE DEF q
<1>3. Append(q, e) # <<>> /\ Append(q, e)[1] = q[1]
  <2>1. q \in Seq(Events) /\ Len(q) \in Nat /\ Len(q) > 0
    BY <1>1
  <2> QED BY <2>1
<1>4. I!NotPower(queue') # <<>> /\ I!NotPower(queue')[1] = <<I!Menu, FALSE>>
  BY <1>1, <1>2, <1>3
<1> QED BY <1>1, <1>4 DEF Closing

\* Where nothing is held and the program believes the same it starts afresh.
LEMMA Afresh ==
  ASSUME Always, ~ clean, I!InStep
  PROVE  InGame
<1>1. owed = 0 /\ (tap => I!Menu \in held)
  BY DEF Always
<1>2. poll = "frame" /\ held = {} /\ queue = <<>> /\ keystate = {} /\ mod = "NO"
  BY DEF I!InStep
<1>3. I!NotPower(queue) = <<>>
  <2>1. <<>> \in Seq(Events)
    OBVIOUS
  <2> QED BY <1>2, <2>1, EmptyKeys, NotPowerSame
<1> DEFINE x == StateOf(keystate, mod)
<1>4. x \in States
  BY <1>2, StateOfType
<1>5. Path(x, I!NotPower(queue), x, owed > 0)
  <2>1. FALSE <=> owed > 0
    BY <1>1
  <2> HIDE DEF x
  <2> QED BY <1>3, <1>4, <2>1, PathNone, PathSame
<1>6. Final(x)
  <2>1. ~ tap
    BY <1>1, <1>2
  <2> QED BY <1>2, <2>1 DEF Final, StateOf, Others
<1>7. Following
  BY <1>5, <1>6 DEF Following
<1> QED BY <1>1, <1>2, <1>7 DEF InGame

LEMMA PressFollows ==
  ASSUME Always, InGame, poll # "menu", NEW key \in I!PlainKeys \cup {I!Menu, I!Power}, I!Press(key)
  PROVE  Following'
<1> DEFINE e == <<key, TRUE>>
<1>1. KeyTypes /\ tap \in BOOLEAN /\ Following
  BY AllTypes DEF Always, InGame
<1>2. /\ key \notin held /\ held' = held \cup {key} /\ queue' = Append(queue, e)
      /\ tap' = CASE key = I!Menu -> held \cap I!PlainKeys = {} /\ poll # "menu"
                  [] key = I!Power -> tap
                  [] OTHER -> FALSE
      /\ UNCHANGED <<keystate, mod, owed>>
  BY DEF I!Press
<1>3. e \in Events /\ e[1] = key /\ (e[2] <=> TRUE) /\ (I!IsPower(e) <=> key = I!Power)
  BY DEF Events, AllKeys, I!IsPower
<1>4. I!Menu # I!Power /\ I!Menu \notin I!PlainKeys /\ I!Power \notin I!PlainKeys
  BY KeyFacts
<1> HIDE DEF e, I!Menu, I!Power, I!PlainKeys
<1>5. CASE key = I!Power
  <2>1. tap' <=> tap
    BY <1>2, <1>4, <1>5
  <2>2. held' \cap I!PlainKeys = held \cap I!PlainKeys /\ (I!Menu \in held' <=> I!Menu \in held)
    BY <1>2, <1>4, <1>5
  <2> QED BY <1>1, <1>2, <1>3, <1>5, <2>1, <2>2, PowerFollows
<1>6. ASSUME key # I!Power, NEW z \in States, Final(z)
      PROVE  \E y \in States : Moves(z, e, y) /\ Final(y)' /\ (owed' > 0 <=> owed > 0 \/ Taps(z, e))
  <2>1. ~ Taps(z, e) /\ owed' = owed
    BY <1>2, <1>3 DEF Taps
  <2>2. z.held = held \cap I!PlainKeys /\ z.out = {} /\ (I!Menu \notin held => z.mod = "NO") /\ (tap <=> z.mod = "MAYBE")
    BY <1>6 DEF Final
  <2>3. z.mod \in Mods /\ (z.mod = "MAYBE" => z.held = {})
    BY DEF States
  <2>4. CASE key = I!Menu
    <3> DEFINE m == IF z.held = {} THEN "MAYBE" ELSE "YES"
               y == [held |-> z.held, out |-> {}, mod |-> m]
    <3>1. m \in Mods /\ z.held \subseteq I!PlainKeys /\ (m = "MAYBE" <=> z.held = {})
      BY <2>2 DEF Mods
    <3>2. y \in States /\ y.held = z.held /\ y.out = {} /\ y.mod = m
      <4> HIDE DEF m
      <4> QED BY <3>1 DEF States
    <3> HIDE DEF m, y
    <3>3. z.mod = "NO"
      BY <1>2, <2>2, <2>4
    <3>4. MovesMenu(z, e, y)
      BY <1>3, <2>2, <3>2, <3>3 DEF MovesMenu, m
    <3>5. Moves(z, e, y)
      BY <1>3, <2>4, <3>4 DEF Moves
    <3>6. tap' <=> held \cap I!PlainKeys = {}
      <4>1. tap' = (held \cap I!PlainKeys = {} /\ poll # "menu")
        BY <1>2, <1>4, <1>6, <2>4, Zenon
      <4> QED BY <4>1
    <3>7. held' \cap I!PlainKeys = held \cap I!PlainKeys /\ I!Menu \in held'
      BY <1>2, <1>4, <2>4
    <3>8. Final(y)'
      BY <2>2, <3>1, <3>2, <3>6, <3>7 DEF Final
    <3> QED BY <2>1, <3>2, <3>5, <3>8
  <2>5. CASE key # I!Menu
    <3>1. key \in I!PlainKeys /\ key \notin held
      BY <1>2, <1>6, <2>5
    <3> DEFINE m == IF z.mod = "NO" THEN "NO" ELSE "YES"
               h == z.held \cup {key}
               y == [held |-> h, out |-> {}, mod |-> m]
    <3>2. m \in Mods /\ m # "MAYBE" /\ h \subseteq I!PlainKeys /\ (m = "NO" <=> z.mod = "NO")
      BY <2>2, <3>1 DEF Mods
    <3>3. h = I!Moved(z.held, key, TRUE)
      BY DEF I!Moved
    <3>4. y \in States /\ y.held = h /\ y.out = {} /\ y.mod = m
      <4> HIDE DEF m, h
      <4> QED BY <3>2 DEF States
    <3>5. h = held' \cap I!PlainKeys /\ key \notin z.held
      BY <1>2, <2>2, <3>1
    <3> HIDE DEF h, y
    <3>6. h = I!Moved(z.held, e[1], e[2])
      BY <1>3, <3>3 DEF I!Moved
    <3>7. MovesPlain(z, e, y)
      BY <1>3, <2>2, <3>4, <3>5, <3>6 DEF MovesPlain, m
    <3>8. Moves(z, e, y)
      BY <1>3, <3>1, <3>7 DEF Moves
    <3> HIDE DEF m
    <3>9. ~ tap' /\ (I!Menu \notin held' => I!Menu \notin held)
      BY <1>2, <1>6, <2>5
    <3>10. Final(y)'
      BY <2>2, <3>2, <3>4, <3>5, <3>9 DEF Final
    <3> QED BY <2>1, <3>4, <3>8, <3>10
  <2> QED BY <2>4, <2>5
<1>7. CASE key # I!Power
  <2>1. ~ I!IsPower(e)
    BY <1>3, <1>7
  <2>2. \A z \in States : Final(z) =>
          \E y \in States : Moves(z, e, y) /\ Final(y)' /\ (owed' > 0 <=> owed > 0 \/ Taps(z, e))
    BY <1>6, <1>7
  <2> QED BY <1>1, <1>2, <1>3, <2>1, <2>2, Follows
<1> QED BY <1>5, <1>7

LEMMA ReleaseFollows ==
  ASSUME Always, InGame, clean, NEW key \in I!PlainKeys \cup {I!Menu, I!Power}, I!Release(key)
  PROVE  Following' /\ owed' >= 0
<1> DEFINE e == <<key, FALSE>>
<1>1. KeyTypes /\ tap \in BOOLEAN /\ Following /\ owed \in Int /\ owed >= 0
  BY AllTypes DEF Always, InGame
<1>2. /\ key \in held /\ held' = held \ {key} /\ queue' = Append(queue, e)
      /\ UNCHANGED <<keystate, mod>>
  BY DEF I!Release
<1>3. tap' <=> tap /\ key # I!Menu
  BY Zenon DEF I!Release
<1>4. owed' = IF key = I!Menu /\ tap THEN owed + 1 ELSE owed
  <2>1. clean'
    BY Zenon DEF I!Release
  <2>2. I!Owe(IF key = I!Menu /\ tap THEN owed + 1 ELSE owed)
    BY Zenon DEF I!Release
  <2> QED BY <2>1, <2>2 DEF I!Owe
<1>5. e \in Events /\ e[1] = key /\ ~ e[2] /\ (I!IsPower(e) <=> key = I!Power)
  BY DEF Events, AllKeys, I!IsPower
<1>6. I!Menu # I!Power /\ I!Menu \notin I!PlainKeys /\ I!Power \notin I!PlainKeys
  BY KeyFacts
<1> HIDE DEF e, I!Menu, I!Power, I!PlainKeys
<1>10. owed' >= 0
  BY <1>1, <1>4
<1>7. CASE key = I!Power
  <2>1. (tap' <=> tap) /\ owed' = owed
    BY <1>3, <1>4, <1>6, <1>7
  <2>2. held' \cap I!PlainKeys = held \cap I!PlainKeys /\ (I!Menu \in held' <=> I!Menu \in held)
    BY <1>2, <1>6, <1>7
  <2> QED BY <1>1, <1>2, <1>5, <1>7, <2>1, <2>2, PowerFollows
<1>8. ASSUME key # I!Power, NEW z \in States, Final(z)
      PROVE  \E y \in States : Moves(z, e, y) /\ Final(y)' /\ (owed' > 0 <=> owed > 0 \/ Taps(z, e))
  <2>1. z.held = held \cap I!PlainKeys /\ z.out = {} /\ (I!Menu \notin held => z.mod = "NO") /\ (tap <=> z.mod = "MAYBE")
    BY <1>8 DEF Final
  <2>2. z.mod \in Mods /\ (z.mod = "MAYBE" => z.held = {})
    BY DEF States
  <2>3. CASE key = I!Menu
    <3> DEFINE y == [held |-> z.held, out |-> {}, mod |-> "NO"]
    <3>1. y \in States /\ y.held = z.held /\ y.out = {} /\ y.mod = "NO"
      BY <2>1 DEF States, Mods
    <3> HIDE DEF y
    <3>2. MovesMenu(z, e, y)
      BY <1>5, <2>1, <3>1 DEF MovesMenu
    <3>3. Moves(z, e, y)
      BY <1>5, <2>3, <3>2 DEF Moves
    <3>4. held' \cap I!PlainKeys = held \cap I!PlainKeys
      BY <1>2, <1>6, <2>3
    <3>5. ~ tap'
      BY <1>3, <2>3
    <3>6. Final(y)'
      BY <2>1, <3>1, <3>4, <3>5 DEF Final
    <3>7. Taps(z, e) <=> tap
      BY <1>5, <2>1, <2>3 DEF Taps
    <3>8. owed' > 0 <=> owed > 0 \/ Taps(z, e)
      BY <1>1, <1>4, <2>3, <3>7
    <3> QED BY <3>1, <3>3, <3>6, <3>8
  <2>4. CASE key # I!Menu
    <3>1. key \in I!PlainKeys /\ key \in z.held
      BY <1>2, <1>8, <2>1, <2>4
    <3> DEFINE m == IF z.mod = "NO" THEN "NO" ELSE "YES"
               h == z.held \ {key}
               y == [held |-> h, out |-> {}, mod |-> m]
    <3>2. m \in Mods /\ m # "MAYBE" /\ h \subseteq I!PlainKeys /\ (m = "NO" <=> z.mod = "NO")
      BY <2>1 DEF Mods
    <3>3. y \in States /\ y.held = h /\ y.out = {} /\ y.mod = m
      <4> HIDE DEF m, h
      <4> QED BY <3>2 DEF States
    <3>4. h = held' \cap I!PlainKeys
      BY <1>2, <2>1
    <3>5. h = I!Moved(z.held, e[1], e[2])
      BY <1>5 DEF I!Moved
    <3> HIDE DEF h, y
    <3>6. MovesPlain(z, e, y)
      BY <1>5, <2>1, <3>1, <3>3, <3>5 DEF MovesPlain, m
    <3>7. Moves(z, e, y)
      BY <1>5, <3>1, <3>6 DEF Moves
    <3> HIDE DEF m
    <3>8. ~ tap' /\ (I!Menu \notin held' => I!Menu \notin held)
      <4>1. z.mod # "MAYBE"
        BY <2>2, <3>1
      <4> QED BY <1>2, <1>3, <2>1, <2>4, <4>1
    <3>9. Final(y)'
      BY <2>1, <3>2, <3>3, <3>4, <3>8 DEF Final
    <3>10. ~ Taps(z, e) /\ owed' = owed
      BY <1>4, <1>5, <2>4 DEF Taps
    <3> QED BY <3>3, <3>7, <3>9, <3>10
  <2> QED BY <2>3, <2>4
<1>9. CASE key # I!Power
  <2>1. ~ I!IsPower(e)
    BY <1>5, <1>9
  <2>2. \A z \in States : Final(z) =>
          \E y \in States : Moves(z, e, y) /\ Final(y)' /\ (owed' > 0 <=> owed > 0 \/ Taps(z, e))
    BY <1>8, <1>9
  <2>3. Following'
    BY <1>1, <1>2, <1>5, <2>1, <2>2, Follows
  <2> QED BY <1>10, <2>3
<1> QED BY <1>7, <1>9

LEMMA PlayerKeeps ==
  ASSUME InputInv, NEW key \in I!PlainKeys \cup {I!Menu, I!Power}, I!Press(key) \/ I!Release(key)
  PROVE  InputInv'
<1>1. Always /\ Always' /\ KeyTypes /\ owed \in Int
  BY PressAlways, AllTypes DEF InputInv, Always
<1>2. UNCHANGED <<poll, mod, keystate>>
  BY DEF I!Press, I!Release
<1>3. \E e \in Events : queue' = Append(queue, e)
  <2>1. <<key, TRUE>> \in Events /\ <<key, FALSE>> \in Events
    BY DEF Events, AllKeys
  <2>2. queue' = Append(queue, <<key, TRUE>>) \/ queue' = Append(queue, <<key, FALSE>>)
    BY DEF I!Press, I!Release
  <2> QED BY <2>1, <2>2
<1>4. CASE I!Press(key)
  <2>1. owed' = owed /\ (clean' <=> clean \/ I!InStep)
    BY <1>4, Zenon DEF I!Press
  <2>2. CASE poll = "menu"
    <3>1. clean' => clean
      BY <2>1, <2>2 DEF I!InStep
    <3> QED BY <1>1, <1>2, <2>1, <2>2, <3>1 DEF InputInv, MenuShown
  <2>3. ASSUME poll # "menu", clean' PROVE InGame'
    <3>1. InGame
      BY <1>1, <2>1, <2>3, Afresh DEF InputInv
    <3>2. Following'
      BY <1>1, <1>4, <2>3, <3>1, PressFollows
    <3>3. I!Menu \in keystate' => Closing'
      BY <1>1, <1>2, <1>3, <3>1, ClosingStays DEF InGame
    <3> QED BY <1>2, <2>1, <3>1, <3>2, <3>3 DEF InGame
  <2> QED BY <1>1, <1>2, <2>2, <2>3 DEF InputInv
<1>5. CASE I!Release(key)
  <2>1. clean' <=> clean
    BY <1>5, Zenon DEF I!Release
  <2>2. ASSUME poll = "menu", clean PROVE MenuShown'
    <3>1. MenuShown
      BY <2>2 DEF InputInv
    <3>2. I!Owe(IF key = I!Menu /\ tap THEN owed + 1 ELSE owed)
      BY <1>5, Zenon DEF I!Release
    <3>3. owed' >= 0
      <4> DEFINE n == IF key = I!Menu /\ tap THEN owed + 1 ELSE owed
      <4>1. n \in Int /\ n >= 0
        BY <1>1, <3>1 DEF MenuShown
      <4>2. I!Owe(n)
        BY <3>2
      <4> HIDE DEF n
      <4> QED BY <4>1, <4>2 DEF I!Owe
    <3> QED BY <1>2, <3>1, <3>3 DEF MenuShown
  <2>3. ASSUME poll # "menu", clean PROVE InGame'
    <3>1. InGame
      BY <2>3 DEF InputInv
    <3>2. Following' /\ owed' >= 0
      BY <1>1, <1>5, <2>3, <3>1, ReleaseFollows
    <3>3. I!Menu \in keystate' => Closing'
      BY <1>1, <1>2, <1>3, <3>1, ClosingStays DEF InGame
    <3> QED BY <1>2, <3>1, <3>2, <3>3 DEF InGame
  <2> QED BY <1>1, <1>2, <2>1, <2>2, <2>3 DEF InputInv
<1> QED BY <1>4, <1>5

\* A press that SDL repeats: the button is down already, so nothing is new.
LEMMA RepeatAlways ==
  ASSUME Always, I!Repeat
  PROVE  Always'
<1>1. /\ held \subseteq I!PlainKeys \cup {I!Menu, I!Power} /\ repeat \in held
      /\ queue \in Seq(Events) /\ owed \in Int /\ tap \in BOOLEAN
  BY AllTypes DEF I!Repeat, Always, I!TypeOK, KeyTypes
<1>2. UNCHANGED <<poll, held, repeat, mod, keystate, buttons, prev, power, tap>>
  BY DEF I!Repeat
<1>3. clean' \in BOOLEAN
  BY Zenon DEF I!Repeat, I!Lose
<1>4. owed' = IF clean' THEN owed ELSE 0
  BY DEF I!Repeat, I!Owe
<1>5. queue' \in Seq(Events)
  <2> DEFINE e == <<repeat, TRUE>>
  <2>1. e \in Events /\ queue' = Append(queue, e)
    BY <1>1 DEF I!Repeat, Events, AllKeys
  <2> HIDE DEF e
  <2> QED BY <1>1, <2>1
<1>6. I!TypeOK'
  BY <1>1, <1>2, <1>3, <1>4, <1>5 DEF Always, I!TypeOK, Events, AllKeys
<1> QED BY <1>1, <1>2, <1>4, <1>6 DEF Always, I!Buttons

LEMMA RepeatFollows ==
  ASSUME Always, InGame, I!Repeat, repeat # I!Menu, owed' = owed
  PROVE  Following'
<1> DEFINE e == <<repeat, TRUE>>
<1>1. KeyTypes /\ tap \in BOOLEAN /\ Following
  BY AllTypes DEF Always, InGame
<1>2. /\ repeat \in held /\ queue' = Append(queue, e)
      /\ UNCHANGED <<held, keystate, mod, tap, owed>>
  BY DEF I!Repeat
<1>3. repeat \in I!PlainKeys \/ repeat = I!Power
  BY <1>2 DEF Always, I!TypeOK
<1>4. e \in Events /\ e[1] = repeat /\ (e[2] <=> TRUE) /\ (I!IsPower(e) <=> repeat = I!Power)
  BY <1>3 DEF Events, AllKeys, I!IsPower
<1> HIDE DEF e, I!Menu, I!Power, I!PlainKeys
<1>5. CASE repeat = I!Power
  BY <1>1, <1>2, <1>4, <1>5, PowerFollows
<1>6. ASSUME repeat # I!Power, NEW z \in States, Final(z)
      PROVE  Moves(z, e, z) /\ Final(z)' /\ (owed' > 0 <=> owed > 0 \/ Taps(z, e))
  <2>1. repeat \in I!PlainKeys /\ ~ tap
    BY <1>3, <1>6 DEF Always
  <2>2. z.held = held \cap I!PlainKeys /\ (tap <=> z.mod = "MAYBE")
    BY <1>6 DEF Final
  <2>3. z.mod \in {"NO", "YES"}
    BY <2>1, <2>2 DEF States, Mods
  <2>4. z.held = I!Moved(z.held, e[1], e[2])
    BY <1>2, <1>4, <2>1, <2>2 DEF I!Moved
  <2>5. MovesPlain(z, e, z)
    BY <1>4, <2>3, <2>4 DEF MovesPlain
  <2>6. Final(z)'
    BY <1>2, <1>6 DEF Final
  <2>7. ~ Taps(z, e)
    BY <1>4 DEF Taps
  <2> QED BY <1>2, <1>4, <2>1, <2>5, <2>6, <2>7 DEF Moves
<1>7. CASE repeat # I!Power
  <2>1. ~ I!IsPower(e)
    BY <1>4, <1>7
  <2>2. \A z \in States : Final(z) =>
          \E y \in States : Moves(z, e, y) /\ Final(y)' /\ (owed' > 0 <=> owed > 0 \/ Taps(z, e))
    BY <1>6, <1>7
  <2> QED BY <1>1, <1>2, <1>4, <2>1, <2>2, Follows
<1> QED BY <1>5, <1>7

LEMMA RepeatKeeps ==
  ASSUME InputInv, I!Repeat
  PROVE  InputInv'
<1>1. Always /\ Always' /\ KeyTypes
  BY RepeatAlways, AllTypes DEF InputInv, Always
<1>2. UNCHANGED <<poll, mod, keystate>>
  BY DEF I!Repeat
<1>3. clean' => clean /\ owed' = owed
  BY Zenon DEF I!Repeat, I!Lose, I!Owe
<1>4. CASE poll = "menu"
  BY <1>1, <1>2, <1>3, <1>4 DEF InputInv, MenuShown
<1>5. ASSUME poll # "menu", clean' PROVE InGame'
  <2>1. InGame /\ owed' = owed
    BY <1>3, <1>5 DEF InputInv
  <2>2. repeat # I!Menu
    <3>1. I!Lose({I!Menu} \cap IF poll = "menu" THEN {} ELSE {repeat})
      BY DEF I!Repeat
    <3>2. {I!Menu} \cap {repeat} = {}
      BY <1>5, <3>1, Zenon DEF I!Lose
    <3> QED BY <3>2
  <2>3. Following'
    BY <1>1, <2>1, <2>2, RepeatFollows
  <2>4. \E e \in Events : queue' = Append(queue, e)
    <3>1. repeat \in AllKeys
      BY <1>1 DEF I!Repeat, Always, I!TypeOK, AllKeys
    <3>2. <<repeat, TRUE>> \in Events
      BY <3>1 DEF Events
    <3> QED BY <3>2 DEF I!Repeat
  <2>5. I!Menu \in keystate' => Closing'
    BY <1>1, <1>2, <2>1, <2>4, ClosingStays DEF InGame
  <2> QED BY <1>2, <2>1, <2>3, <2>5 DEF InGame
<1> QED BY <1>1, <1>2, <1>4, <1>5 DEF InputInv

\* Steps that touch neither the events nor the keys.
LEMMA IdleKeeps ==
  ASSUME InputInv, I!Elapse \/ I!PowerOff \/ UNCHANGED I!vars
  PROVE  InputInv'
<1>1. UNCHANGED <<held, repeat, queue, mod, keystate, buttons, tap, owed, clean>>
  BY DEF I!Elapse, I!PowerOff, I!vars, I!history
<1>2. poll' = poll \/ (poll = "frame" /\ poll' = "quit")
  <2>1. I!Elapse => poll' = poll
    BY DEF I!Elapse
  <2>2. I!PowerOff => poll = "frame" /\ poll' = "quit"
    BY DEF I!PowerOff
  <2>3. UNCHANGED I!vars => poll' = poll
    BY DEF I!vars
  <2> QED BY <2>1, <2>2, <2>3
<1>3. (power' = power \/ power' = "due") /\ (prev' = prev \/ prev' = "power_off")
  BY DEF I!Elapse, I!PowerOff, I!vars
<1>4. Always'
  <2>1. I!TypeOK'
    BY <1>1, <1>2, <1>3 DEF InputInv, Always, I!TypeOK
  <2> QED BY <1>1, <1>2, <1>3, <2>1 DEF InputInv, Always, I!Buttons
<1>5. (Following' <=> Following) /\ (Closing' <=> Closing)
  BY <1>1 DEF Following, Final, Closing
<1>6. (InGame' <=> InGame) /\ (MenuShown' <=> MenuShown)
  BY <1>1, <1>5 DEF InGame, MenuShown
<1> QED BY <1>1, <1>2, <1>4, <1>6 DEF InputInv
------------------------------------------------------------------------------
(* pa_input_poll.                                                            *)

\* Fewer events overtake no more.
LEMMA OvertakenLess ==
  ASSUME NEW a, NEW z, NEW c, NEW d, I!Overtaken(a, c) = {},
         I!KeysOf(z) \subseteq I!KeysOf(a), a = <<>> => z = <<>>,
         I!KeysOf(d) \subseteq I!KeysOf(c), c = <<>> => d = <<>>
  PROVE  I!Overtaken(z, d) = {}
BY DEF I!Overtaken

\* Events of MENU that overtake none are alone.
LEMMA MenuAlone ==
  ASSUME NEW a \in Seq(Events), NEW z \in Seq(Events), I!Overtaken(z, a) = {},
         I!Menu \in I!KeysOf(a) \cup I!KeysOf(z)
  PROVE  a = <<>> \/ z = <<>>
BY DEF I!Overtaken

LEMMA NotPowerLess ==
  ASSUME NEW q \in Seq(Events)
  PROVE  I!NotPower(q) \in Seq(Events) /\ I!KeysOf(I!NotPower(q)) \subseteq I!KeysOf(q) /\ (q = <<>> => I!NotPower(q) = <<>>)
<1>1. q = <<>> => I!NotPower(q) = <<>>
  BY EmptyKeys, NotPowerSame
<1> QED BY <1>1, NotPowerKeeps

\* The events that are not of POWER are the same after the poll, in the same order or in one
\* that makes no difference.
LEMMA PollFollows ==
  ASSUME KeyTypes, InGame, NEW kept \in Seq(Events), PollTakes(kept), clean'
  PROVE  InGame'
<1> DEFINE a == I!NotPower(Pulled)
           z == I!NotPower(Rest)
           x == StateOf(keystate, mod)
           f == owed > 0
<1>1. Pulled \in Seq(Events) /\ Rest \in Seq(Events) /\ queue = Pulled \o Rest
  BY PulledRest
<1>2. queue' = Rest \o kept /\ I!Overtaken(Rest, kept) = {} /\ kept = a /\ owed' = owed
  BY DEF PollTakes
<1>3. UNCHANGED <<held, mod, keystate, buttons>> /\ (tap' <=> tap)
  BY DEF PollTakes
<1>4. a \in Seq(Events) /\ z \in Seq(Events) /\ I!Power \notin I!KeysOf(a)
  BY <1>1, NotPowerKeeps
<1>5. I!Overtaken(z, a) = {}
  BY <1>1, <1>2, NotPowerLess, OvertakenLess
<1>6. I!NotPower(queue) = a \o z
  BY <1>1, NotPowerConcat
<1>7. I!NotPower(queue') = z \o a
  <2>1. I!NotPower(Rest \o kept) = z \o I!NotPower(kept)
    BY <1>1, NotPowerConcat
  <2>2. I!NotPower(kept) = a
    BY <1>2, <1>4, NotPowerSame
  <2> QED BY <1>2, <2>1, <2>2
<1>8. PICK y : Path(x, a \o z, y, f) /\ Final(y)
  BY <1>6 DEF InGame, Following
<1> HIDE DEF a, z, x, f
<1>9. Path(x, z \o a, y, f)
  BY <1>4, <1>5, <1>8, PathSwap
<1>10. Final(y)'
  BY <1>3, <1>8 DEF Final
<1>11. Path(StateOf(keystate', mod'), I!NotPower(queue'), y, owed' > 0)
  BY <1>2, <1>3, <1>7, <1>9 DEF x, f
<1>12. Following'
  BY <1>10, <1>11 DEF Following
<1>13. ASSUME Closing PROVE Closing'
  <2>1. mod = "NO" /\ a \o z # <<>> /\ (a \o z)[1] = <<I!Menu, FALSE>>
    BY <1>6, <1>13 DEF Closing
  <2>2. a \o z \in Seq(Events)
    BY <1>4
  <2>3. I!Menu \in I!KeysOf(a \o z)
    <3> DEFINE v == a \o z
    <3>1. v \in Seq(Events) /\ v # <<>> /\ v[1] = <<I!Menu, FALSE>>
      BY <2>1, <2>2
    <3> HIDE DEF v
    <3>2. 1 \in 1 .. Len(v) /\ v[1][1] = I!Menu
      BY <3>1
    <3>3. I!Menu \in I!KeysOf(v)
      BY <3>1, <3>2, KeysOfMember, KeyFacts
    <3> QED BY <3>3 DEF v
  <2>4. a = <<>> \/ z = <<>>
    BY <1>4, <1>5, <2>3, KeysOfConcat, MenuAlone
  <2>5. z \o a = a \o z
    BY <1>4, <2>4, EmptyConcat
  <2> QED BY <1>3, <1>7, <2>1, <2>5 DEF Closing
<1> QED BY <1>2, <1>3, <1>12, <1>13 DEF InGame

LEMMA PollKeeps ==
  ASSUME InputInv, I!PollPower
  PROVE  InputInv'
<1>1. Always /\ Always' /\ KeyTypes
  BY PollAlways, AllTypes DEF InputInv, Always
<1>2. poll = "frame"
  BY <1>1, PollDoes
<1>3. PICK kept \in Seq(Events) : PollTakes(kept)
  BY <1>1, PollDoes
<1>4. poll' # "menu"
  BY <1>3 DEF PollTakes
<1>5. clean' => InGame'
  <2> SUFFICES ASSUME clean' PROVE InGame'
    OBVIOUS
  <2>1. InGame
    BY <1>2, <1>3 DEF PollTakes, InputInv
  <2> QED BY <1>1, <1>3, <2>1, PollFollows
<1> QED BY <1>1, <1>4, <1>5 DEF InputInv
------------------------------------------------------------------------------
(* The menu closes.                                                          *)

LEMMA LeaveFollows ==
  ASSUME KeyTypes, MenuShown, I!LeaveMenu, clean'
  PROVE  InGame'
<1> DEFINE e == <<I!Menu, FALSE>>
           q == <<e>>
           missed == {key \in I!PlainKeys \cup {I!Power} : (key \in keystate) # (key \in held)}
                       \cup (IF mod = "NO" THEN {} ELSE {I!Menu})
<1>1. queue' = q /\ tap' = FALSE /\ owed' = 0 /\ UNCHANGED <<held, mod, keystate>>
  BY DEF I!LeaveMenu
<1>2. missed = {}
  BY Zenon DEF I!LeaveMenu, I!Lose
<1>3. mod = "NO" /\ \A key \in I!PlainKeys : key \in keystate <=> key \in held
  BY <1>2
<1> HIDE DEF missed
<1>4. e \in Events /\ e[1] = I!Menu /\ ~ e[2]
  BY MenuEvents
<1>5. q \in Seq(Events) /\ Len(q) = 1 /\ q[1] = e /\ q # <<>>
  <2> HIDE DEF e
  <2> QED BY <1>4
<1>6. PICK x \in States : x = StateOf(keystate, "NO")
  <2>1. StateOf(keystate, "NO") \in States
    BY StateOfType DEF KeyTypes
  <2> QED BY <2>1
<1>7. x.held = held \cap I!PlainKeys /\ x.out = {} /\ x.mod = "NO"
  <2>1. Others(keystate) = {}
    BY KeyFacts DEF MenuShown, Others
  <2> QED BY <1>3, <1>6, <2>1 DEF StateOf
<1> HIDE DEF e
<1>8. Moves(x, e, x)
  BY <1>4, <1>7 DEF Moves, MovesMenu
<1>9. Path(x, q, x, owed' > 0)
  <2> DEFINE f == Taps(x, e)
             g == owed' > 0
  <2>1. Path(x, <<e>>, x, f)
    BY <1>4, <1>6, <1>8, PathOne
  <2>2. ~ f /\ ~ g
    BY <1>1, <1>7 DEF Taps
  <2> HIDE DEF f, g
  <2>3. Path(x, <<e>>, x, g)
    BY <2>1, <2>2, PathSame
  <2> QED BY <2>3 DEF g
<1> HIDE DEF q
<1>10. I!NotPower(queue') = q
  <2>1. I!Power \notin I!KeysOf(q)
    <3>1. \A j \in 1 .. Len(q) : I!Base(q[j][1]) = I!Menu
      BY <1>4, <1>5, KeyFacts
    <3> QED BY <1>5, <3>1, KeysOfMember, KeyFacts
  <2> QED BY <1>1, <1>5, <2>1, NotPowerSame
<1>11. Final(x)'
  BY <1>1, <1>7 DEF Final
<1>12. StateOf(keystate', mod') = x
  BY <1>1, <1>3, <1>6
<1>13. Following'
  BY <1>9, <1>10, <1>11, <1>12 DEF Following
<1>14. Closing'
  BY <1>1, <1>3, <1>5, <1>10 DEF Closing, e
<1> QED BY <1>1, <1>3, <1>13, <1>14 DEF InGame

LEMMA LeaveKeeps ==
  ASSUME InputInv, I!LeaveMenu
  PROVE  InputInv'
<1>1. Always /\ Always' /\ KeyTypes
  BY LeaveAlways, AllTypes DEF InputInv, Always
<1>2. poll = "menu" /\ poll' = "frame"
  BY DEF I!LeaveMenu
<1>3. clean' => clean
  BY Zenon DEF I!LeaveMenu, I!Lose
<1>4. clean' => InGame'
  <2> SUFFICES ASSUME clean' PROVE InGame'
    OBVIOUS
  <2>1. MenuShown
    BY <1>2, <1>3 DEF InputInv
  <2> QED BY <1>1, <2>1, LeaveFollows
<1> QED BY <1>1, <1>2, <1>4 DEF InputInv
------------------------------------------------------------------------------
(* in_update.                                                                *)

\* The same of the events put, of which a press of MENU is part of a tap.
PutPath(p, x, y, tapped) ==
  /\ Path(x, p, y, tapped) /\ I!Power \notin I!KeysOf(p)
  /\ \A j \in 1 .. Len(p) : p[j][1] = I!Menu /\ p[j][2] => j < Len(p) /\ tapped

LEMMA PutsPath ==
  ASSUME NEW p \in Seq(Events), NEW x, NEW y, NEW f, NEW u, PutRun(u, p, x, y, f)
  PROVE  PutPath(p, x, y, f)
<1>1. Path(x, p, y, f) /\ I!Power \notin I!KeysOf(p)
  BY DEF PutRun, Path
<1>2. ASSUME NEW j \in 1 .. Len(p), p[j][1] = I!Menu, p[j][2]
      PROVE  j < Len(p) /\ f
  <2>1. j < Len(p) /\ p[j + 1][1] = I!Menu /\ ~p[j + 1][2] /\ u[j].mod = "MAYBE"
    BY <1>2 DEF PutRun
  <2>2. j + 1 \in 1 .. Len(p) /\ (j + 1) - 1 = j
    BY <2>1
  <2>3. Pending(u, p)
    BY <2>1, <2>2 DEF Pending
  <2> QED BY <2>1, <2>3 DEF PutRun
<1> QED BY <1>1, <1>2 DEF PutPath

\* What the pull makes of the keys, by what it puts.
PulledAs(s, y, f) ==
  /\ s \in Recs /\ Sync(s, y) /\ s.dropped = {}
  /\ PutPath(s.put, StateOf(keystate, "NO"), StateOf(s.keys, "NO"), f)
  /\ mod = "NO" /\ Pulled # <<>> /\ Pulled[1] = <<I!Menu, FALSE>> => s.put # <<>> /\ s.put[1] = <<I!Menu, FALSE>>

LEMMA TranslatedPath ==
  ASSUME KeyTypes, mod # "NO" => keystate \cap I!PlainKeys = {},
         NEW y, NEW f, Path(StateOf(keystate, mod), Pulled, y, f)
  PROVE  PulledAs(I!Translated, y, f)
<1>1. PICK r : /\ IsRun(r, Pulled) /\ r[0] = StateOf(keystate, mod) /\ r[Len(Pulled)] = y
               /\ Pending(r, Pulled) <=> f
  BY DEF Path
<1>2. TranslatedAs(I!Translated, r, Pulled)
  BY <1>1, TranslatedDoes DEF Pulled
<1> DEFINE s == I!Translated
<1>3. TranslatedAs(s, r, Pulled)
  BY <1>2
<1> HIDE DEF s
<1>4. s \in Recs /\ Sync(s, y) /\ s.dropped = {} /\ s.put \in Seq(Events)
  BY <1>1, <1>3 DEF TranslatedAs, Recs
<1>5. PICK u : PutRun(u, s.put, StateOf(keystate, "NO"), StateOf(s.keys, "NO"), Pending(r, Pulled))
  BY <1>3 DEF TranslatedAs
<1>6. PutRun(u, s.put, StateOf(keystate, "NO"), StateOf(s.keys, "NO"), f)
  BY <1>1, <1>5 DEF PutRun
<1>7. PutPath(s.put, StateOf(keystate, "NO"), StateOf(s.keys, "NO"), f)
  BY <1>4, <1>6, PutsPath
<1>8. PulledAs(s, y, f)
  BY <1>3, <1>4, <1>7 DEF PulledAs, TranslatedAs
<1> QED BY <1>8 DEF s

LEMMA HandledPath ==
  ASSUME KeyTypes, NEW p \in Seq(Events), NEW y, NEW f, Path(StateOf(keystate, "NO"), p, y, f)
  PROVE  I!Handled(p) \cap I!PlainKeys = y.held /\ Others(I!Handled(p)) = y.out
<1>1. PICK r : IsRun(r, p) /\ r[0] = StateOf(keystate, "NO") /\ r[Len(p)] = y
  BY DEF Path
<1> QED BY <1>1, HandledDoes

\* Only the last event of p may be of MENU.
MenuLast(p) == \A j \in 1 .. Len(p) : j < Len(p) => p[j][1] # I!Menu

LastIs(p, e) == p # <<>> /\ p[Len(p)] = e

LEMMA EventOfMenu ==
  ASSUME NEW e \in Events
  PROVE  /\ e = <<I!Menu, TRUE>> <=> e[1] = I!Menu /\ e[2]
         /\ e = <<I!Menu, FALSE>> <=> e[1] = I!Menu /\ ~ e[2]
<1>1. PICK key \in AllKeys, down \in BOOLEAN : e = <<key, down>>
  BY DEF Events
<1>2. e[1] = key /\ (e[2] <=> down)
  BY <1>1
<1>3. CASE down
  <2>1. down = TRUE
    BY <1>3
  <2> QED BY <1>1, <1>2, <2>1
<1>4. CASE ~ down
  <2>1. down = FALSE
    BY <1>4
  <2> QED BY <1>1, <1>2, <2>1
<1> QED BY <1>3, <1>4

\* Up to where it stops collect_events meets no tap.
LEMMA StopPath ==
  ASSUME NEW p \in Seq(Events), MenuLast(p), NEW x, NEW y, NEW f, Path(x, p, y, f), x.mod = "NO"
  PROVE  /\ ~ f
         /\ y.mod = "NO" \/ LastIs(p, <<I!Menu, TRUE>>)
         /\ LastIs(p, <<I!Menu, TRUE>>) => y.out = {}
<1> DEFINE l == Len(p)
<1>1. PICK r : IsRun(r, p) /\ r[0] = x /\ r[l] = y /\ (Pending(r, p) <=> f)
  BY DEF Path
<1>2. l \in Nat /\ (l = 0 <=> p = <<>>)
  OBVIOUS
<1>3. \A j \in 1 .. l : Moves(r[j - 1], p[j], r[j])
  BY <1>1 DEF IsRun
<1>4. \A j \in 1 .. l : j < l => p[j][1] # I!Menu
  BY DEF MenuLast
<1> DEFINE T == {j \in 0 .. l : j < l \/ j = 0 => r[j].mod = "NO"}
<1>5. \A j \in 1 .. l : p[j] \in Events
  OBVIOUS
<1>d. /\ Pending(r, p) <=> \E j \in 1 .. l : p[j][1] = I!Menu /\ ~p[j][2] /\ r[j - 1].mod = "MAYBE"
      /\ LastIs(p, <<I!Menu, TRUE>>) <=> l # 0 /\ p[l] = <<I!Menu, TRUE>>
  BY <1>2 DEF Pending, LastIs
<1> HIDE DEF l
<1>6. 0 \in T
  BY <1>1, <1>2
<1>7. ASSUME NEW j \in 0 .. l, j \in T, j < l PROVE j + 1 \in T
  <2>1. j + 1 \in 1 .. l /\ (j + 1) - 1 = j /\ j + 1 \in 0 .. l
    BY <1>2, <1>7
  <2> SUFFICES ASSUME j + 1 < l PROVE r[j + 1].mod = "NO"
    BY <2>1
  <2>2. Moves(r[j], p[j + 1], r[j + 1]) /\ p[j + 1][1] # I!Menu
    BY <1>3, <1>4, <2>1
  <2>3. r[j].mod = "NO"
    BY <1>7
  <2> QED BY <2>2, <2>3, MoveMod
<1>8. \A j \in 0 .. l : j \in T
  <2> HIDE DEF T
  <2> QED BY <1>2, <1>6, <1>7, Reaches
<1>9. \A j \in 1 .. l : r[j - 1].mod = "NO"
  <2> SUFFICES ASSUME NEW j \in 1 .. l PROVE r[j - 1].mod = "NO"
    OBVIOUS
  <2>1. j - 1 \in 0 .. l /\ j - 1 < l
    BY <1>2
  <2> QED BY <1>8, <2>1
<1>10. ~ f
  BY <1>1, <1>9, <1>d
<1>11. CASE l = 0
  BY <1>1, <1>10, <1>11, <1>d
<1>12. CASE l # 0
  <2>1. l \in 1 .. l
    BY <1>2, <1>12
  <2> DEFINE e == p[l]
             a == r[l - 1]
  <2>2. Moves(a, e, y) /\ a.mod = "NO" /\ e \in Events
    BY <1>1, <1>3, <1>5, <1>9, <2>1
  <2> HIDE DEF e, a
  <2>3. CASE e[1] # I!Menu
    <3>1. y.mod = "NO"
      BY <2>2, <2>3, MoveMod
    <3>2. e # <<I!Menu, TRUE>>
      BY <2>2, <2>3, EventOfMenu
    <3> QED BY <1>10, <1>d, <3>1, <3>2 DEF e
  <2>4. CASE e[1] = I!Menu /\ ~ e[2]
    <3>1. y.mod = "NO"
      BY <2>2, <2>4, MoveCases DEF MovesMenu
    <3>2. e # <<I!Menu, TRUE>>
      BY <2>2, <2>4, EventOfMenu
    <3> QED BY <1>10, <1>d, <3>1, <3>2 DEF e
  <2>5. CASE e[1] = I!Menu /\ e[2]
    <3>1. e = <<I!Menu, TRUE>>
      BY <2>2, <2>5, EventOfMenu
    <3>2. MovesMenu(a, e, y)
      BY <2>2, <2>5, MoveCases
    <3>3. y.out = {}
      BY <2>5, <3>2 DEF MovesMenu
    <3> QED BY <1>10, <1>12, <1>d, <3>1, <3>3 DEF e
  <2> QED BY <2>3, <2>4, <2>5
<1> QED BY <1>11, <1>12

LEMMA NothingGone ==
  ASSUME NEW s \in Recs, NEW q, Gone(s, q) = {}
  PROVE  /\ I!Overtaken(Rest, s.put) = {} /\ I!Mixed(q) = {} /\ I!Power \notin I!KeysOf(queue)
         /\ s.mod = "NO" => I!Menu \notin I!KeysOf(Rest)
         /\ s.mod # "NO" => I!KeysOf(Rest) = {} /\ I!KeysOf(I!Left(q)) = {}
<1>1. /\ I!Overtaken(Rest, s.put) = {} /\ I!Mixed(q) = {} /\ {I!Power} \cap I!KeysOf(queue) = {}
      /\ I!KeysOf(Rest) \cap (IF s.mod = "NO" THEN {I!Menu} ELSE I!KeysOf(Rest)) = {}
      /\ (IF s.mod = "NO" THEN {} ELSE I!KeysOf(I!Left(q))) = {}
  BY Zenon DEF Gone
<1>2. I!Power \notin I!KeysOf(queue)
  BY <1>1
<1>3. s.mod = "NO" => I!Menu \notin I!KeysOf(Rest)
  BY <1>1
<1>4. s.mod # "NO" => I!KeysOf(Rest) = {} /\ I!KeysOf(I!Left(q)) = {}
  BY <1>1
<1> QED BY <1>1, <1>2, <1>3, <1>4

\* What is pulled takes the keys to y, the rest takes y to what the player holds.
LEMMA UpdateStart ==
  ASSUME KeyTypes, InGame, I!Power \notin I!KeysOf(queue)
  PROVE  \E y, z : Final(z) /\ Halfway(StateOf(keystate, mod), Pulled, Rest, z, owed > 0, y)
<1> DEFINE x == StateOf(keystate, mod)
           f == owed > 0
<1>1. PICK z : Path(x, I!NotPower(queue), z, f) /\ Final(z)
  BY DEF InGame, Following
<1>2. Pulled \in Seq(Events) /\ Rest \in Seq(Events) /\ queue = Pulled \o Rest
  BY PulledRest
<1>3. I!NotPower(queue) = queue
  BY NotPowerSame DEF KeyTypes
<1> HIDE DEF x, f
<1>4. Path(x, Pulled \o Rest, z, f)
  BY <1>1, <1>2, <1>3
<1>5. PICK y : Halfway(x, Pulled, Rest, z, f, y)
  BY <1>2, <1>4, PathSplit
<1> QED BY <1>1, <1>5 DEF x, f

LEMMA MenuStops ==
  ASSUME KeyTypes, Closing, I!Power \notin I!KeysOf(queue), NEW s, NEW y, NEW f, PulledAs(s, y, f),
         I!Overtaken(Rest, s.put) = {}, NEW q, q = Rest \o s.put
  PROVE  I!Stop(q) = 1 /\ q # <<>> /\ q[1] = <<I!Menu, FALSE>>
<1>1. Pulled \in Seq(Events) /\ Rest \in Seq(Events) /\ queue = Pulled \o Rest /\ queue \in Seq(Events)
  BY PulledRest DEF KeyTypes
<1>2. mod = "NO" /\ queue # <<>> /\ queue[1] = <<I!Menu, FALSE>>
  BY <1>1, NotPowerSame DEF Closing
<1>3. Pulled # <<>> /\ Pulled[1] = <<I!Menu, FALSE>>
  <2>1. Len(queue) \in Nat /\ Len(queue) > 0 /\ Pull \in Nat /\ Pull > 0
    BY <1>1, <1>2, Pulls
  <2>2. Pulled = SubSeq(queue, 1, IF Pull < Len(queue) THEN Pull ELSE Len(queue))
    BY DEF Pulled, I!First
  <2> DEFINE c == IF Pull < Len(queue) THEN Pull ELSE Len(queue)
  <2>3. c \in Nat /\ c > 0 /\ c <= Len(queue)
    BY <2>1
  <2>4. Pulled = SubSeq(queue, 1, c)
    BY <2>2
  <2> HIDE DEF c
  <2>5. Pulled = I!First(queue, c)
    BY <2>1, <2>3, <2>4 DEF I!First
  <2>6. Len(I!First(queue, c)) = c /\ \A j \in 1 .. c : I!First(queue, c)[j] = queue[j]
    BY <1>1, <2>3, AfterPart
  <2>7. 1 \in 1 .. c
    BY <2>3
  <2>8. Len(Pulled) > 0 /\ Pulled[1] = queue[1]
    BY <2>3, <2>5, <2>6, <2>7
  <2>9. Pulled # <<>>
    BY <2>8
  <2> QED BY <1>2, <2>8, <2>9
<1> DEFINE p == s.put
<1>4. p \in Seq(Events) /\ p # <<>> /\ p[1] = <<I!Menu, FALSE>>
  BY <1>2, <1>3 DEF PulledAs, Recs
<1>5. I!Overtaken(Rest, p) = {} /\ q = Rest \o p
  OBVIOUS
<1> HIDE DEF p
<1>6. Len(p) \in Nat /\ 1 \in 1 .. Len(p) /\ p[1][1] = I!Menu
  BY <1>4
<1>7. I!Menu \in I!KeysOf(p)
  BY <1>4, <1>6, KeysOfMember, KeyFacts
<1>8. Rest = <<>>
  BY <1>1, <1>4, <1>5, <1>7, MenuAlone
<1>9. q = p
  BY <1>4, <1>5, <1>8, EmptyConcat
<1>10. I!Menu \in I!EmuKeys
  BY DEF I!EmuKeys
<1>11. I!Stop(p) = 1
  <2>1. StopsAt(p, I!Stop(p))
    BY <1>4, StopFacts
  <2> DEFINE n == I!Stop(p)
  <2>2. n \in 0 .. Len(p) /\ n >= 1 /\ \A j \in 1 .. Len(p) : j < n => p[j][1] \notin I!EmuKeys
    BY <1>4, <2>1 DEF StopsAt
  <2> HIDE DEF n
  <2>3. ~ (1 < n)
    BY <1>6, <1>10, <2>2
  <2>4. n = 1
    BY <2>2, <2>3
  <2> QED BY <2>4 DEF n
<1> QED BY <1>4, <1>9, <1>11

LEMMA NotNothing ==
  ASSUME NEW S, NEW q \in Seq(S), Len(q) = 1
  PROVE  q # <<>>
OBVIOUS

LEMMA StopRange ==
  ASSUME NEW q \in Seq(Events)
  PROVE  I!Stop(q) \in Nat /\ I!Stop(q) <= Len(q)
<1>1. I!Stop(q) \in 0 .. Len(q)
  BY StopFacts DEF StopsAt
<1> QED BY <1>1

\* MENU is down after the update when it was up before and its press is where collect_events stops.
LEMMA MenuHandled ==
  ASSUME KeyTypes, NEW q \in Seq(Events),
         I!Menu \in keystate => I!Stop(q) = 1 /\ q # <<>> /\ q[1] = <<I!Menu, FALSE>>
  PROVE  /\ MenuLast(I!First(q, I!Stop(q)))
         /\ I!Menu \in I!Handled(I!First(q, I!Stop(q))) <=> I!Menu \notin keystate /\ LastIs(I!First(q, I!Stop(q)), <<I!Menu, TRUE>>)
<1> DEFINE n == I!Stop(q)
           p == I!First(q, n)
           ks == I!Handled(p)
<1>1. n \in Nat /\ n <= Len(q) /\ \A j \in 1 .. Len(q) : j < n => q[j][1] \notin I!EmuKeys
  BY StopFacts DEF StopsAt
<1> HIDE DEF n
<1>2. p \in Seq(Events) /\ Len(p) = n /\ \A j \in 1 .. n : p[j] = q[j]
  BY <1>1, AfterPart
<1> HIDE DEF p
<1>3. I!Menu \in I!EmuKeys
  BY DEF I!EmuKeys
<1>4. \A j \in 1 .. n : j \in 1 .. Len(q)
  BY <1>1
<1>5. MenuLast(p)
  <2> SUFFICES ASSUME NEW j \in 1 .. n, j < n PROVE p[j][1] # I!Menu
    BY <1>2 DEF MenuLast
  <2> QED BY <1>1, <1>2, <1>3, <1>4
<1>6. /\ p = <<>> => ks = keystate
      /\ p # <<>> => (I!Menu \in ks <=> IF p[Len(p)][1] = I!Menu THEN p[Len(p)][2] ELSE I!Menu \in keystate)
  <2>1. \A j \in 1 .. Len(p) : j < Len(p) => p[j][1] # I!Menu
    BY <1>5 DEF MenuLast
  <2> HIDE DEF ks
  <2> QED BY <1>2, <2>1, HandledMenu DEF ks
<1> DEFINE e == p[Len(p)]
<1>7. p # <<>> => e \in Events
  BY <1>2
<1>8. LastIs(p, <<I!Menu, TRUE>>) <=> p # <<>> /\ e[1] = I!Menu /\ e[2]
  BY <1>7, EventOfMenu DEF LastIs
<1>9. CASE I!Menu \in keystate
  <2>1. n = 1 /\ q[1] = <<I!Menu, FALSE>>
    BY <1>9 DEF n
  <2>2. p # <<>> /\ e = <<I!Menu, FALSE>>
    <3>1. Len(p) = 1 /\ 1 \in 1 .. n
      BY <1>2, <2>1
    <3>2. p[1] = q[1]
      BY <1>2, <3>1
    <3>3. p # <<>>
      BY <1>2, <3>1, NotNothing
    <3> QED BY <2>1, <3>1, <3>2, <3>3
  <2>3. e[1] = I!Menu /\ ~ e[2]
    BY <1>7, <2>2, EventOfMenu
  <2>4. I!Menu \notin ks
    BY <1>6, <2>2, <2>3
  <2> QED BY <1>5, <1>9, <2>4 DEF p, n
<1>10. CASE I!Menu \notin keystate
  <2>1. I!Menu \in ks <=> LastIs(p, <<I!Menu, TRUE>>)
    <3> HIDE DEF ks, e
    <3>1. p # <<>> => (I!Menu \in ks <=> IF e[1] = I!Menu THEN e[2] ELSE I!Menu \in keystate)
      BY <1>6 DEF e
    <3> QED BY <1>6, <1>8, <1>10, <3>1
  <2> QED BY <1>5, <1>10, <2>1 DEF p, n
<1> QED BY <1>9, <1>10

\* What the update comes to.
Updated(s, q, ks) ==
  /\ I!Menu \in ks => I!Menu \notin keystate /\ owed > 0 /\ ks \cap I!Outs = {}
  /\ I!Menu \notin ks => \E z : Path(StateOf(ks, s.mod), I!NotPower(I!Left(q)), z, owed > 0) /\ Final(z)
  /\ s.mod # "NO" => ks \cap I!PlainKeys = {}

LEMMA NoOthers ==
  ASSUME NEW ks, Others(ks) = {}
  PROVE  ks \cap I!Outs = {}
BY KeyFacts DEF Others

\* A press of MENU at which collect_events stops was put, as part of a tap.
StopsOwed(q, f) == LastIs(I!First(q, I!Stop(q)), <<I!Menu, TRUE>>) => f

LEMMA StopsInPut ==
  ASSUME KeyTypes, NEW p \in Seq(Events), NEW x, NEW y, NEW f, PutPath(p, x, y, f),
         I!Menu \notin I!KeysOf(Rest), NEW q, q = Rest \o p
  PROVE  StopsOwed(q, f)
<1> SUFFICES ASSUME LastIs(I!First(q, I!Stop(q)), <<I!Menu, TRUE>>) PROVE f
  BY DEF StopsOwed
<1> DEFINE l == Len(Rest)
           n == I!Stop(q)
           e == I!First(q, n)
           m == <<I!Menu, TRUE>>
<1>1. /\ Rest \in Seq(Events) /\ q \in Seq(Events)
  <2>1. Rest \in Seq(Events)
    BY PulledRest
  <2>2. Rest \o p \in Seq(Events)
    BY <2>1
  <2> QED BY <2>1, <2>2
<1>2. /\ l \in Nat /\ Len(p) \in Nat /\ Len(q) = l + Len(p)
      /\ \A j \in 1 .. l : q[j] = Rest[j]
      /\ \A j \in 1 .. Len(p) : q[l + j] = p[j]
  BY <1>1, Concat
<1>3. n \in Nat /\ n <= Len(q)
  BY <1>1, StopRange
<1> HIDE DEF n
<1>4. e \in Seq(Events) /\ Len(e) = n /\ \A j \in 1 .. n : e[j] = q[j]
  BY <1>1, <1>3, AfterPart
<1>5. e # <<>> /\ e[Len(e)] = m
  BY DEF LastIs, n
<1> HIDE DEF e
<1>6. n > 0 /\ n \in 1 .. n
  BY <1>3, <1>4, <1>5
<1>7. q[n] = m /\ m[1] = I!Menu /\ m[2]
  BY <1>4, <1>5, <1>6
<1> HIDE DEF m
<1>8. ~ (n <= l)
  <2> SUFFICES ASSUME n <= l PROVE FALSE
    OBVIOUS
  <2>1. n \in 1 .. l
    BY <1>2, <1>6
  <2>2. Rest[n][1] = I!Menu
    BY <1>2, <1>7, <2>1
  <2> QED BY <1>1, <2>1, <2>2, KeysOfMember, KeyFacts
<1>9. n - l \in 1 .. Len(p) /\ l + (n - l) = n
  BY <1>2, <1>3, <1>8
<1>10. PICK j \in 1 .. Len(p) : l + j = n
  BY <1>9
<1>11. p[j][1] = I!Menu /\ p[j][2]
  BY <1>2, <1>7, <1>10
<1> QED BY <1>11 DEF PutPath

\* With no key of MENU down at the end of the pull.
LEMMA UpdatePlain ==
  ASSUME KeyTypes, I!Menu \in keystate => Closing, I!Power \notin I!KeysOf(queue),
         NEW s, NEW y, NEW f, PulledAs(s, y, f), s.mod = "NO",
         NEW z, NEW g, Path(y, Rest, z, g), Final(z), owed > 0 <=> f \/ g,
         NEW q, q = Rest \o s.put, Gone(s, q) = {}
  PROVE  Updated(s, q, I!Handled(I!First(q, I!Stop(q))))
<1> DEFINE w == StateOf(keystate, "NO")
           p == s.put
           due == owed > 0
<1>1. s \in Recs /\ Sync(s, y) /\ PutPath(p, w, StateOf(s.keys, "NO"), f)
  BY DEF PulledAs
<1>2. I!Overtaken(Rest, p) = {} /\ I!Mixed(q) = {} /\ I!Menu \notin I!KeysOf(Rest)
  BY <1>1, NothingGone
<1>3. y = StateOf(s.keys, "NO")
  BY <1>1 DEF Sync
<1>4. Rest \in Seq(Events) /\ p \in Seq(Events)
  BY <1>1, PulledRest, RecFields
<1>5. q = Rest \o p /\ (due <=> f \/ g)
  OBVIOUS
<1>6. w.mod = "NO"
  BY DEF StateOf
<1>u. I!Menu \in keystate => I!Stop(q) = 1 /\ q # <<>> /\ q[1] = <<I!Menu, FALSE>>
  BY <1>2, MenuStops
<1> HIDE DEF w, p, due
<1>7. Path(w, p, y, f)
  BY <1>1, <1>3 DEF PutPath
<1>8. Path(w, p \o Rest, z, f \/ g)
  BY <1>4, <1>7, PathJoin
<1>9. Path(w, Rest \o p, z, f \/ g)
  BY <1>2, <1>4, <1>8, PathSwap
<1>10. Path(w, q, z, due)
  BY <1>5, <1>9, PathSame
<1>11. q \in Seq(Events)
  BY <1>4, <1>5, Concat
<1> DEFINE n == I!Stop(q)
           a == I!First(q, n)
           c == I!After(q, n)
           ks == I!Handled(a)
<1>12. n \in Nat
  BY <1>11, StopRange
<1>m. MenuLast(a) /\ (I!Menu \in ks <=> I!Menu \notin keystate /\ LastIs(a, <<I!Menu, TRUE>>))
  BY <1>11, <1>u, MenuHandled
<1>t. LastIs(a, <<I!Menu, TRUE>>) => f
  <2> DEFINE y1 == StateOf(s.keys, "NO")
  <2>1. PutPath(p, w, y1, f)
    BY <1>1
  <2> HIDE DEF y1
  <2>2. I!Menu \notin I!KeysOf(Rest) /\ p \in Seq(Events) /\ q = Rest \o p
    BY <1>2, <1>4, <1>5
  <2>3. StopsOwed(q, f)
    BY <2>1, <2>2, StopsInPut
  <2> QED BY <2>3 DEF StopsOwed
<1>l. PICK b \in Seq(Events), d \in Seq(Events) : LeftAs(q, b, d)
  BY <1>11, LeftParts
<1>13. c = b \o d /\ I!Left(q) = d \o b /\ I!Overtaken(d, b) = {}
  BY <1>2, <1>l DEF LeftAs
<1>14. a \in Seq(Events) /\ c \in Seq(Events) /\ q = a \o c
  BY <1>11, <1>12, FirstAfter, Parted
<1> HIDE DEF a, c, n
<1>15. PICK v : Halfway(w, a, c, z, due, v)
  <2>1. Path(w, a \o c, z, due)
    BY <1>10, <1>14
  <2> QED BY <1>14, <2>1, PathSplit
<1>16. PICK i1 \in BOOLEAN, i2 \in BOOLEAN : Path(w, a, v, i1) /\ Path(v, c, z, i2) /\ (due <=> i1 \/ i2)
  BY <1>15 DEF Halfway
<1>17. /\ ~ i1 /\ (v.mod = "NO" \/ LastIs(a, <<I!Menu, TRUE>>))
       /\ LastIs(a, <<I!Menu, TRUE>>) => v.out = {}
  BY <1>6, <1>14, <1>16, <1>m, StopPath
<1>18. ks \cap I!PlainKeys = v.held /\ Others(ks) = v.out
  BY <1>14, <1>16, HandledPath DEF w
<1> HIDE DEF ks
<1>19. ASSUME I!Menu \in ks PROVE I!Menu \notin keystate /\ due /\ ks \cap I!Outs = {}
  BY <1>5, <1>17, <1>18, <1>19, <1>m, <1>t, NoOthers
<1>20. ASSUME I!Menu \notin ks PROVE Path(StateOf(ks, "NO"), I!NotPower(I!Left(q)), z, due)
  <2>1. v.mod = "NO"
    <3>1. LastIs(a, <<I!Menu, TRUE>>) => I!Menu \in keystate
      BY <1>20, <1>m
    <3>2. LastIs(a, <<I!Menu, TRUE>>) => I!Menu \notin keystate
      <4> SUFFICES ASSUME LastIs(a, <<I!Menu, TRUE>>), I!Menu \in keystate PROVE FALSE
        OBVIOUS
      <4>1. n = 1 /\ q # <<>> /\ q[1] = <<I!Menu, FALSE>>
        BY <1>u DEF n
      <4>2. Len(a) = 1 /\ a[1] = q[1]
        <5>1. 1 <= Len(q)
          BY <1>11, <4>1
        <5>2. 1 \in 1 .. 1
          OBVIOUS
        <5>3. a = I!First(q, 1)
          BY <4>1 DEF a
        <5>4. Len(I!First(q, 1)) = 1 /\ \A j \in 1 .. 1 : I!First(q, 1)[j] = q[j]
          <6>1. 1 \in Nat
            OBVIOUS
          <6> QED BY <1>11, <5>1, <6>1, AfterPart, Zenon
        <5> QED BY <5>2, <5>3, <5>4
      <4>3. <<I!Menu, FALSE>> = <<I!Menu, TRUE>>
        BY <4>1, <4>2 DEF LastIs
      <4> QED BY <4>3
    <3> QED BY <1>17, <3>1, <3>2
  <2>2. v \in States
    BY <1>15 DEF Halfway
  <2>3. StateOf(ks, "NO") = v
    BY <1>18, <2>1, <2>2 DEF StateOf, States
  <2>4. Path(v, b \o d, z, due)
    BY <1>13, <1>16, <1>17, PathSame
  <2>5. Path(v, d \o b, z, due)
    BY <1>13, <2>4, PathSwap
  <2>6. I!NotPower(I!Left(q)) = I!Left(q)
    <3>1. I!Power \notin I!KeysOf(q)
      <4>1. I!Power \notin I!KeysOf(Rest)
        <5>1. Pulled \in Seq(Events) /\ queue = Pulled \o Rest
          BY PulledRest
        <5>2. I!KeysOf(Pulled \o Rest) = I!KeysOf(Pulled) \cup I!KeysOf(Rest)
          BY <1>4, <5>1, KeysOfConcat
        <5> QED BY <5>1, <5>2
      <4>2. I!Power \notin I!KeysOf(p)
        BY <1>1 DEF PutPath
      <4> QED BY <1>4, <1>5, <4>1, <4>2, KeysOfConcat
    <3>2. I!KeysOf(q) = I!KeysOf(a) \cup I!KeysOf(c)
      BY <1>14, KeysOfConcat
    <3>3. I!KeysOf(c) = I!KeysOf(b) \cup I!KeysOf(d) /\ I!KeysOf(d \o b) = I!KeysOf(d) \cup I!KeysOf(b)
      BY <1>13, KeysOfConcat
    <3>4. d \o b \in Seq(Events) /\ I!Power \notin I!KeysOf(d \o b)
      BY <3>1, <3>2, <3>3
    <3> QED BY <1>13, <3>4, NotPowerSame
  <2> QED BY <1>13, <2>3, <2>5, <2>6
<1>21. Updated(s, q, ks)
  BY <1>19, <1>20 DEF Updated, due
<1> QED BY <1>21 DEF ks, a, n

\* Between a press of MENU and its release: all the events have been taken.
LEMMA UpdateWith ==
  ASSUME KeyTypes, I!Menu \in keystate => Closing, I!Power \notin I!KeysOf(queue),
         NEW s, NEW y, NEW f, PulledAs(s, y, f), s.mod # "NO",
         NEW z, NEW g, Path(y, Rest, z, g), Final(z), owed > 0 <=> f \/ g,
         NEW q, q = Rest \o s.put, Gone(s, q) = {}
  PROVE  Updated(s, q, I!Handled(I!First(q, I!Stop(q))))
<1> DEFINE w == StateOf(keystate, "NO")
           p == s.put
           due == owed > 0
           keys == s.keys
           x == StateOf(keys, "NO")
           m == s.mod
<1>1. s \in Recs /\ Sync(s, y) /\ PutPath(p, w, x, f)
  BY DEF PulledAs
<1>2. I!Overtaken(Rest, p) = {} /\ I!KeysOf(Rest) = {} /\ I!KeysOf(I!Left(q)) = {}
  BY <1>1, NothingGone
<1>3. StateOf(keys, m) = y /\ keys \cap I!PlainKeys = {} /\ m # "NO"
  BY <1>1 DEF Sync
<1>4. Rest \in Seq(Events) /\ p \in Seq(Events)
  BY <1>1, PulledRest, RecFields
<1>5. Rest = <<>>
  BY <1>2, <1>4, NoKeys
<1>u. I!Menu \in keystate => I!Stop(q) = 1 /\ q # <<>> /\ q[1] = <<I!Menu, FALSE>>
  BY <1>2, MenuStops
<1>6. z = y /\ ~ g
  BY <1>5, PathOfNone
<1>7. q = Rest \o p /\ (due <=> f \/ g)
  OBVIOUS
<1>x. x.held = keys \cap I!PlainKeys /\ x.out = Others(keys) /\ w.mod = "NO"
  BY DEF StateOf
<1> HIDE DEF w, p, due, x, keys, m
<1>8. q = p
  BY <1>4, <1>5, <1>7, EmptyConcat
<1>9. q \in Seq(Events)
  BY <1>4, <1>8
<1> DEFINE n == I!Stop(q)
           a == I!First(q, n)
           c == I!After(q, n)
           ks == I!Handled(a)
<1>10. n \in Nat
  BY <1>9, StopRange
<1>m. MenuLast(a) /\ (I!Menu \in ks <=> I!Menu \notin keystate /\ LastIs(a, <<I!Menu, TRUE>>))
  BY <1>9, <1>u, MenuHandled
<1>l. PICK b \in Seq(Events), d \in Seq(Events) : LeftAs(q, b, d)
  BY <1>9, LeftParts
<1>11. c = b \o d /\ I!Left(q) = d \o b
  BY <1>l DEF LeftAs
<1>12. a \in Seq(Events) /\ c \in Seq(Events) /\ q = a \o c
  BY <1>9, <1>10, FirstAfter, Parted
<1> HIDE DEF a, c, n
<1>13. I!Left(q) = <<>> /\ c = <<>>
  <2>1. d \o b \in Seq(Events) /\ I!KeysOf(d \o b) = {}
    BY <1>2, <1>11
  <2>2. d \o b = <<>> /\ I!KeysOf(d) \cup I!KeysOf(b) = {}
    BY <2>1, NoKeys, KeysOfConcat
  <2>3. I!KeysOf(d) = {} /\ I!KeysOf(b) = {}
    BY <2>2
  <2>4. d = <<>> /\ b = <<>>
    BY <2>3, NoKeys
  <2>5. b \o d = <<>>
    BY <2>4, EmptyConcat
  <2> QED BY <1>11, <2>2, <2>5
<1>14. a = p
  BY <1>8, <1>12, <1>13, EmptyConcat
<1>15. Path(w, p, x, f)
  BY <1>1 DEF PutPath
<1>16. ks \cap I!PlainKeys = x.held /\ Others(ks) = x.out
  <2>1. Path(StateOf(keystate, "NO"), a, x, f)
    BY <1>14, <1>15 DEF w
  <2> QED BY <1>12, <2>1, HandledPath
<1>17. ~ f
  BY <1>4, <1>14, <1>15, <1>m, <1>x, StopPath
<1>18. ~ LastIs(a, <<I!Menu, TRUE>>)
  <2> SUFFICES ASSUME LastIs(a, <<I!Menu, TRUE>>) PROVE FALSE
    OBVIOUS
  <2> DEFINE e == <<I!Menu, TRUE>>
             l == Len(p)
  <2>1. e[1] = I!Menu /\ e[2]
    OBVIOUS
  <2>2. p # <<>> /\ p[l] = e
    BY <1>14 DEF LastIs
  <2> HIDE DEF e
  <2>3. l \in 1 .. l
    BY <1>4, <2>2
  <2>4. p[l][1] = I!Menu /\ p[l][2]
    BY <2>1, <2>2
  <2> HIDE DEF l
  <2>5. f
    BY <1>1, <2>3, <2>4 DEF PutPath, l
  <2> QED BY <1>17, <2>5
<1> HIDE DEF ks
<1>19. I!Menu \notin ks
  BY <1>18, <1>m
<1>20. ks \cap I!PlainKeys = {}
  BY <1>3, <1>16, <1>x
<1>21. StateOf(ks, m) = y
  BY <1>3, <1>16, <1>x DEF StateOf
<1>22. Path(StateOf(ks, m), I!NotPower(I!Left(q)), z, due)
  <2>1. I!NotPower(<<>>) = <<>>
    <3>1. <<>> \in Seq(Events)
      OBVIOUS
    <3> QED BY <3>1, EmptyKeys, NotPowerSame
  <2>2. y \in States
    BY <1>4, PathEnds
  <2>3. FALSE <=> due
    BY <1>6, <1>7, <1>17
  <2>4. Path(y, <<>>, y, due)
    BY <2>2, <2>3, PathNone, PathSame
  <2> QED BY <1>6, <1>13, <1>21, <2>1, <2>4
<1>23. Updated(s, q, ks)
  BY <1>19, <1>20, <1>22 DEF Updated, due, m
<1> QED BY <1>23 DEF ks, a, n

LEMMA UpdateComes ==
  ASSUME KeyTypes, InGame, NEW s, s = I!Translated, NEW q, q = Requeued, Gone(s, q) = {}
  PROVE  Updated(s, q, I!Handled(I!First(q, I!Stop(q))))
<1>1. s \in Recs /\ q = Rest \o s.put
  BY UpdateTypes DEF Requeued
<1>2. I!Power \notin I!KeysOf(queue)
  BY <1>1, NothingGone
<1>3. PICK y, z : Final(z) /\ Halfway(StateOf(keystate, mod), Pulled, Rest, z, owed > 0, y)
  BY <1>2, UpdateStart
<1>4. PICK f \in BOOLEAN, g \in BOOLEAN :
        Path(StateOf(keystate, mod), Pulled, y, f) /\ Path(y, Rest, z, g) /\ (owed > 0 <=> f \/ g)
  BY <1>3 DEF Halfway
<1>5. PulledAs(s, y, f)
  BY <1>4, TranslatedPath DEF InGame
<1>6. I!Menu \in keystate => Closing
  BY DEF InGame
<1>7. CASE s.mod = "NO"
  BY <1>1, <1>2, <1>3, <1>4, <1>5, <1>6, <1>7, UpdatePlain
<1>8. CASE s.mod # "NO"
  BY <1>1, <1>2, <1>3, <1>4, <1>5, <1>6, <1>8, UpdateWith
<1> QED BY <1>7, <1>8

LEMMA UpdateKeeps ==
  ASSUME InputInv, I!InUpdate
  PROVE  InputInv'
<1>1. Always /\ Always' /\ KeyTypes /\ owed \in Int
  BY UpdateAlways, AllTypes DEF InputInv, Always
<1>2. PICK s, q, ks : s = I!Translated /\ q = Requeued /\ ks = I!Handled(I!First(Requeued, I!Stop(Requeued)))
  OBVIOUS
<1>3. poll = "update" /\ UpdateTakes(s, q, ks)
  BY <1>1, <1>2, UpdateDoes
<1>4. ASSUME clean' PROVE IF poll' = "menu" THEN MenuShown' ELSE InGame'
  <2>1. clean /\ Gone(s, q) = {}
    BY <1>3, <1>4 DEF UpdateTakes
  <2>2. InGame
    BY <1>3, <2>1 DEF InputInv
  <2>3. Updated(s, q, ks)
    <3>1. ks = I!Handled(I!First(q, I!Stop(q)))
      BY <1>2
    <3> QED BY <1>1, <1>2, <2>1, <2>2, <3>1, UpdateComes
  <2>4. mod' = s.mod /\ keystate' = ks /\ queue' = I!Left(q) /\ held' = held
    BY <1>3 DEF UpdateTakes
  <2>5. CASE I!Menu \in ks
    <3>1. I!Menu \notin keystate /\ owed > 0 /\ ks \cap I!Outs = {}
      BY <2>3, <2>5 DEF Updated
    <3>2. prev # "menu"
      BY <1>1, <3>1 DEF Always
    <3>3. poll' = "menu" /\ owed' = owed - 1
      BY <1>3, <1>4, <2>5, <3>2 DEF UpdateTakes
    <3>4. owed' >= 0
      BY <1>1, <3>1, <3>3
    <3> QED BY <2>4, <3>1, <3>3, <3>4 DEF MenuShown
  <2>6. CASE I!Menu \notin ks
    <3>1. PICK z : Path(StateOf(ks, s.mod), I!NotPower(I!Left(q)), z, owed > 0) /\ Final(z)
      BY <2>3, <2>6 DEF Updated
    <3>2. poll' = "frame" /\ (tap' <=> tap) /\ owed' = owed
      BY <1>3, <1>4, <2>6 DEF UpdateTakes
    <3>3. Final(z)'
      BY <2>4, <3>1, <3>2 DEF Final
    <3>4. Path(StateOf(keystate', mod'), I!NotPower(queue'), z, owed' > 0)
      BY <2>4, <3>1, <3>2
    <3>5. Following'
      BY <3>3, <3>4 DEF Following
    <3>6. s.mod # "NO" => ks \cap I!PlainKeys = {}
      BY <2>3 DEF Updated
    <3> QED BY <2>2, <2>4, <2>6, <3>2, <3>5, <3>6 DEF InGame
  <2> QED BY <2>5, <2>6
<1> QED BY <1>1, <1>4 DEF InputInv

LEMMA NextInput ==
  ASSUME InputInv, [I!Next]_I!vars
  PROVE  InputInv'
<1>1. ASSUME NEW key \in I!PlainKeys \cup {I!Menu, I!Power}, I!Press(key) \/ I!Release(key) PROVE InputInv'
  BY <1>1, PlayerKeeps
<1>2. CASE I!Elapse \/ I!PowerOff \/ UNCHANGED I!vars
  BY <1>2, IdleKeeps
<1>6. CASE I!Repeat
  BY <1>6, RepeatKeeps
<1>3. CASE I!PollPower
  BY <1>3, PollKeeps
<1>4. CASE I!InUpdate
  BY <1>4, UpdateKeeps
<1>5. CASE I!LeaveMenu
  BY <1>5, LeaveKeeps
<1> QED BY <1>1, <1>2, <1>3, <1>4, <1>5, <1>6 DEF I!Next

LEMMA InputInductive == I!Spec => []InputInv
BY InitInput, NextInput, PTL DEF I!Spec

\* At rest the keys are those the player holds.
LEMMA RestFacts ==
  ASSUME InputInv, I!AtRest, clean
  PROVE  owed = 0 /\ \A key \in I!PlainKeys : key \in buttons <=> key \in held
<1>1. poll = "frame" /\ queue = <<>> /\ I!Menu \notin held
  BY DEF I!AtRest
<1>2. InGame /\ Always /\ owed \in Int
  BY <1>1, AllTypes DEF InputInv, Always
<1>3. I!NotPower(queue) = <<>>
  <2>1. <<>> \in Seq(Events)
    OBVIOUS
  <2> QED BY <1>1, <2>1, EmptyKeys, NotPowerSame
<1>4. PICK z : Path(StateOf(keystate, mod), <<>>, z, owed > 0) /\ Final(z)
  BY <1>2, <1>3 DEF InGame, Following
<1>5. z = StateOf(keystate, mod) /\ ~ (owed > 0)
  BY <1>4, PathOfNone
<1>6. z.mod = "NO" /\ z.held = held \cap I!PlainKeys
  BY <1>1, <1>4 DEF Final
<1>7. z.mod = mod
  BY <1>5 DEF StateOf
<1>8. z.held = keystate \cap I!PlainKeys
  BY <1>5, <1>6, <1>7 DEF StateOf
<1>9. buttons = keystate \cap I!PlainKeys
  BY <1>1, <1>2 DEF Always, I!Buttons
<1>10. owed = 0
  BY <1>2, <1>5 DEF InGame
<1> QED BY <1>6, <1>8, <1>9, <1>10

\* The state of in_sdl.c and pa_input_poll keeps its types in every order of events: the queue
\* is one of keys that exist, keystate has only keys, and the game sees only buttons.
THEOREM InputTypeCorrect == I!Spec => []I!TypeOK
<1>1. InputInv => I!TypeOK
  BY DEF InputInv, Always
<1> QED BY <1>1, InputInductive, PTL

\* Once the player's events have all been handled and no button was lost to the
\* menu or to SDL's full queue, the game sees the buttons that are held and no
\* other: collect_events and translate_combo_event of in_sdl.c, and
\* pa_input_poll, follow the player through every combination with MENU and every
\* repeat of a press but MENU's, for every set of buttons, every keymap and every
\* size of the queue.
THEOREM InputSeesHeldKeys == I!Spec => []SeesHeldKeys
<1>1. InputInv => SeesHeldKeys
  BY RestFacts DEF SeesHeldKeys, I!SeesHeldKeys
<1> QED BY <1>1, InputInductive, PTL

\* A tap of MENU opens the menu once: pa_input_poll never opens it more often
\* than MENU was tapped alone, and when the events are handled every tap has
\* opened it, as long as SDL does not repeat MENU (MCMenuRepeat).
THEOREM InputMenuOncePerTap == I!Spec => []MenuOncePerTap
<1>1. InputInv => MenuOncePerTap
  <2> SUFFICES ASSUME InputInv, clean PROVE owed >= 0 /\ (I!AtRest => owed = 0)
    BY DEF MenuOncePerTap, I!MenuOncePerTap
  <2>1. owed >= 0
    BY DEF InputInv, MenuShown, InGame
  <2> QED BY <2>1, RestFacts
<1> QED BY <1>1, InputInductive, PTL
------------------------------------------------------------------------------
(* The patches beside a game.                                               *)

USE DEF P!PatchAssumption

LEMMA PatchFacts == P!PatchAssumption
BY PicoarchAssumption
------------------------------------------------------------------------------
\* What patches[j] is applied to.
SourceOf(j) == IF j = 1 THEN dump ELSE patches[j - 1].target

MarkSet == [at : Nat, target : Seq(Bytes), src : Nat, dst : Nat]

\* The cells from mark a to mark b are a record of an IPS patch that makes b.target of a.target
\* and writes nothing from end on.
IpsStep(cells, a, b, end) ==
  \E offset \in Nat, run \in Seq(Bytes) :
    /\ Len(run) > 0 /\ offset + Len(run) <= end
    /\ b.target = P!Overlay(a.target, offset, run)
    /\ b.at <= Len(cells) /\ P!Cell(cells, a.at) = offset
    /\ \/ /\ b.at = a.at + 2 + Len(run) /\ P!Cell(cells, a.at + 1) = Len(run)
          /\ \A j \in 1 .. Len(run) : run[j] = cells[a.at + 2 + j]
       \/ /\ b.at = a.at + 4 /\ P!Cell(cells, a.at + 1) = 0 /\ P!Cell(cells, a.at + 2) = Len(run)
          /\ \A j \in 1 .. Len(run) : run[j] = P!Cell(cells, a.at + 3)

\* The cells from mark a to mark b, after a head, are an action of a BPS patch from source that
\* makes b.target of a.target.
BpsStep(cells, head, source, a, b, size) ==
  \E n \in Nat \ {0} :
    /\ Len(a.target) + n <= size /\ head + b.at <= Len(cells)
    /\ \/ /\ P!Cell(cells, head + a.at) = P!Code(0, n) /\ Len(a.target) + n <= Len(source)
          /\ b = P!Mark(a.at + 1, a.target \o P!At(source, Len(a.target), n), a.src, a.dst)
       \/ /\ P!Cell(cells, head + a.at) = P!Code(1, n)
          /\ \E run \in Seq(Bytes) :
               /\ Len(run) = n /\ \A j \in 1 .. n : run[j] = cells[head + a.at + 1 + j]
               /\ b = P!Mark(a.at + 1 + n, a.target \o run, a.src, a.dst)
       \/ \E offset \in Nat :
            /\ P!Cell(cells, head + a.at) = P!Code(2, n) /\ offset + n <= Len(source)
            /\ P!Cell(cells, head + a.at + 1) = P!Step(a.src, offset)
            /\ b = P!Mark(a.at + 2, a.target \o P!At(source, offset, n), offset + n, a.dst)
       \/ \E offset \in Nat :
            /\ P!Cell(cells, head + a.at) = P!Code(3, n) /\ offset < Len(a.target)
            /\ P!Cell(cells, head + a.at + 1) = P!Step(a.dst, offset)
            /\ b = P!Mark(a.at + 2, a.target \o P!Repeat(a.target, offset, n), a.src, offset + n)

IpsMarks(cells, marks, source, end) ==
  /\ marks \in Seq(MarkSet) /\ Len(marks) > 0
  /\ marks[1] = P!Mark(0, source, 0, 0)
  /\ \A m \in 1 .. Len(marks) - 1 : IpsStep(cells, marks[m], marks[m + 1], end)

BpsMarks(cells, head, source, marks, size) ==
  /\ marks \in Seq(MarkSet) /\ Len(marks) > 0
  /\ marks[1] = P!Mark(0, <<>>, 0, 0)
  /\ \A m \in 1 .. Len(marks) - 1 : BpsStep(cells, head, source, marks[m], marks[m + 1], size)

\* A whole IPS patch, without or with the size of the result.
MadeIps(p) ==
  LET last == p.marks[Len(p.marks)]
  IN  /\ IpsMarks(p.cells, p.marks, p.source, Len(p.target))
      /\ p.cells[last.at + 1] = P!EOF /\ (last.at > 0 => p.cells[last.at] # P!EOF)
      /\ \/ Len(p.cells) = last.at + 1 /\ p.target = last.target
         \/ /\ Len(p.cells) = last.at + 2 /\ p.cells[last.at + 2] = Len(p.target)
            /\ p.target = P!Zeros(last.target, Len(p.target))

MadeBps(p) ==
  LET last == p.marks[Len(p.marks)]
  IN  /\ BpsMarks(p.cells, 3, p.source, p.marks, Len(p.target))
      /\ p.cells[1] = Len(p.source) /\ p.cells[2] = Len(p.target) /\ p.cells[3] = 0
      /\ Len(p.cells) = last.at + 3 /\ p.target = last.target

IpsSet == [format : {"IPS"}, cells : Seq(Int), source : Seq(Bytes), target : Seq(Bytes),
           src : Nat, dst : Nat, end : Nat, marks : Seq(MarkSet)]
BpsSet == [cells : Seq(Nat), format : {"BPS"}, source : Seq(Bytes), target : Seq(Bytes),
           intact : BOOLEAN, marks : Seq(MarkSet)]
DraftSet == [format : {"IPS", "BPS"}, cells : Seq(Nat), source : Seq(Bytes), target : Seq(Bytes),
             src : Nat, dst : Nat, end : Nat, marks : Seq(MarkSet)]

DraftInv ==
  draft # None =>
    /\ draft \in DraftSet /\ intended # None /\ pass = "author"
    /\ Len(draft.marks) > 0
    /\ draft.marks[Len(draft.marks)] = P!Mark(Len(draft.cells), draft.target, draft.src, draft.dst)
    /\ draft.format = "IPS" =>
         /\ draft.source = intended /\ draft.end <= Len(draft.target) /\ Len(draft.target) > 0
         /\ IpsMarks(draft.cells, draft.marks, draft.source, draft.end)
    /\ draft.format = "BPS" =>
         BpsMarks(draft.cells, 0, draft.source, draft.marks, Len(draft.target))

\* Only the last patch can be one that is no good.
Sound(j) == j < Len(patches) \/ intended # None

Good(p, j) ==
  /\ p.source = SourceOf(j)
  /\ IF p.format = "IPS" THEN MadeIps(p) ELSE p.intact /\ MadeBps(p)

Broken(p, j) ==
  IF p.format = "IPS" THEN p.cells \in Seq(Nat) ELSE ~(p.intact /\ p.source = SourceOf(j))

PatchesInv ==
  /\ dump \in Dumps
  /\ patches \in Seq(IpsSet \cup BpsSet)
  /\ \A j \in 1 .. Len(patches) :
       /\ Len(patches[j].target) > 0 /\ (patches[j].format = "BPS" => Len(patches[j].cells) >= 3)
       /\ Sound(j) => Good(patches[j], j)
       /\ ~Sound(j) => Broken(patches[j], j)
  /\ intended # None => intended = SourceOf(Len(patches) + 1)
  /\ intended = None => Len(patches) > 0

\* Where the program is in a good patch.
IpsAtMark(m) ==
  LET p == patches[k]
  IN  /\ i = p.marks[m].at
      /\ pass = "size" => P!AtLeast(out_size, Len(in)) = Len(p.marks[m].target)
      /\ pass = "write" => out_size = Len(p.target) /\ out = P!Zeros(p.marks[m].target, out_size)

BpsAtMark(m) ==
  LET p == patches[k]
  IN  /\ P!AtLeast(i, 3) = 3 + p.marks[m].at
      /\ out_size = Len(p.target) /\ out \in Seq(Bytes) /\ Len(out) = out_size
      /\ written = Len(p.marks[m].target) /\ P!At(out, 0, written) = p.marks[m].target
      /\ src_rel_offset = p.marks[m].src /\ dst_rel_offset = p.marks[m].dst

ReaderInv ==
  /\ pass \in {"author", "file", "size", "write", "done"}
  /\ pass # "done" => k \in 0 .. Len(patches) /\ i \in Nat /\ out_size \in Nat
  /\ pass = "author" => k = 0
  /\ pass \in {"author", "file"} =>
       in = SourceOf(k + 1) /\ out_size <= Len(in) /\ (k > 0 => Sound(k))
  /\ pass \in {"size", "write"} => k > 0 /\ in = SourceOf(k)
  /\ pass = "size" => (patches[k].format = "IPS" \/ i = 0)
  /\ pass = "size" /\ Sound(k) /\ patches[k].format = "IPS" =>
       \E m \in 1 .. Len(patches[k].marks) : IpsAtMark(m)
  /\ pass = "write" /\ Sound(k) =>
       \E m \in 1 .. Len(patches[k].marks) :
          IF patches[k].format = "IPS" THEN IpsAtMark(m) ELSE BpsAtMark(m)

PatchIInv == DraftInv /\ PatchesInv /\ ReaderInv /\ P!PatchedAsMeant
------------------------------------------------------------------------------
(* The operators of the model.                                              *)

\* Places in the cells of a patch, with and without a head before them.
LEMMA NextPlace ==
  ASSUME NEW p \in Nat, NEW q \in Nat, NEW l \in Nat, NEW head \in Nat, 0 + q <= l
  PROVE  /\ p + 1 \in Nat /\ (q > p + 1 => (p + 1) + 1 <= l)
         /\ head + (p + 1) = head + p + 1 /\ 0 + (p + 1) = 0 + p + 1
OBVIOUS

LEMMA RunPlace ==
  ASSUME NEW p \in Nat, NEW n \in Nat, NEW l \in Nat, NEW head \in Nat, NEW j \in 1 .. n,
         0 + p + 1 + n <= l
  PROVE  0 + p + 1 + j \in 1 .. l /\ head + (0 + p + 1 + j) = head + p + 1 + j
OBVIOUS

LEMMA FirstPlaces ==
  ASSUME NEW x \in Nat
  PROVE  (x >= 1 => 1 \in 1 .. x) /\ (x >= 2 => 2 \in 1 .. x)
OBVIOUS

LEMMA CodePlace ==
  ASSUME NEW l \in Nat, NEW n \in Nat, NEW j \in 1 .. n
  PROVE  1 + j \in 1 .. 1 + n /\ 0 + l + 1 + j = l + (1 + j)
OBVIOUS

LEMMA ZerosType ==
  ASSUME NEW s \in Seq(Bytes), NEW n \in Nat
  PROVE  /\ P!Zeros(s, n) \in Seq(Bytes) /\ Len(P!Zeros(s, n)) = n
         /\ \A j \in 1 .. n : P!Zeros(s, n)[j] = IF j <= Len(s) THEN s[j] ELSE 0
<1>1. \A j \in 1 .. n : (IF j <= Len(s) THEN s[j] ELSE 0) \in Bytes
  BY PatchFacts
<1>2. P!Zeros(s, n) \in [1 .. n -> Bytes]
  BY <1>1 DEF P!Zeros
<1> QED BY <1>2 DEF P!Zeros

LEMMA ZerosSelf ==
  ASSUME NEW s \in Seq(Bytes)
  PROVE  P!Zeros(s, Len(s)) = s
<1>1. /\ P!Zeros(s, Len(s)) \in Seq(Bytes) /\ Len(P!Zeros(s, Len(s))) = Len(s)
      /\ \A j \in 1 .. Len(s) : P!Zeros(s, Len(s))[j] = s[j]
  BY ZerosType
<1> QED BY <1>1, SameSeq

LEMMA AtType ==
  ASSUME NEW S, NEW s \in Seq(S), NEW offset \in Nat, NEW n \in Nat, offset + n <= Len(s)
  PROVE  /\ P!At(s, offset, n) \in Seq(S) /\ Len(P!At(s, offset, n)) = n
         /\ \A j \in 1 .. n : P!At(s, offset, n)[j] = s[offset + j]
BY DEF P!At

LEMMA OverlayType ==
  ASSUME NEW s \in Seq(Bytes), NEW offset \in Nat, NEW run \in Seq(Bytes)
  PROVE  /\ P!Overlay(s, offset, run) \in Seq(Bytes)
         /\ Len(P!Overlay(s, offset, run)) = P!AtLeast(Len(s), offset + Len(run))
         /\ \A j \in 1 .. P!AtLeast(Len(s), offset + Len(run)) :
              P!Overlay(s, offset, run)[j] =
                IF j - offset \in 1 .. Len(run) THEN run[j - offset]
                ELSE IF j <= Len(s) THEN s[j] ELSE 0
<1> DEFINE n == P!AtLeast(Len(s), offset + Len(run))
           e(j) == IF j - offset \in 1 .. Len(run) THEN run[j - offset]
                   ELSE IF j <= Len(s) THEN s[j] ELSE 0
<1>1. n \in Nat
  BY DEF P!AtLeast
<1>2. \A j \in 1 .. n : j <= Len(s) => s[j] \in Bytes
  BY <1>1
<1>3. \A j \in 1 .. n : e(j) \in Bytes
  BY <1>1, <1>2, PatchFacts
<1>4. P!Overlay(s, offset, run) = [j \in 1 .. n |-> e(j)]
  BY <1>1 DEF P!Overlay, P!Zeros
<1> HIDE DEF n
<1>5. [j \in 1 .. n |-> e(j)] \in [1 .. n -> Bytes]
  BY <1>3
<1> HIDE DEF e
<1>6. [j \in 1 .. n |-> e(j)] \in Seq(Bytes) /\ Len([j \in 1 .. n |-> e(j)]) = n
  BY <1>1, <1>5
<1>7. \A j \in 1 .. n : [m \in 1 .. n |-> e(m)][j] = e(j)
  OBVIOUS
<1> QED BY <1>4, <1>6, <1>7 DEF n, e

\* A record may as well be written into room that is already there.
LEMMA OverlayZeros ==
  ASSUME NEW s \in Seq(Bytes), NEW offset \in Nat, NEW run \in Seq(Bytes), NEW n \in Nat,
         offset + Len(run) <= n
  PROVE  P!Overlay(P!Zeros(s, n), offset, run) = P!Zeros(P!Overlay(s, offset, run), n)
<1> DEFINE z == P!Zeros(s, n)
           a == P!Overlay(z, offset, run)
           o == P!Overlay(s, offset, run)
           b == P!Zeros(o, n)
<1>1. z \in Seq(Bytes) /\ Len(z) = n /\ \A j \in 1 .. n : z[j] = IF j <= Len(s) THEN s[j] ELSE 0
  BY ZerosType
<1> HIDE DEF z
<1>2. P!AtLeast(Len(z), offset + Len(run)) = n
  BY <1>1 DEF P!AtLeast
<1>3. /\ a \in Seq(Bytes) /\ Len(a) = n
      /\ \A j \in 1 .. n : a[j] = IF j - offset \in 1 .. Len(run) THEN run[j - offset]
                                  ELSE z[j]
  <2>0. z \in Seq(Bytes)
    BY <1>1
  <2>1. /\ a \in Seq(Bytes) /\ Len(a) = P!AtLeast(Len(z), offset + Len(run))
        /\ \A j \in 1 .. Len(a) : a[j] = IF j - offset \in 1 .. Len(run) THEN run[j - offset]
                                         ELSE IF j <= Len(z) THEN z[j] ELSE 0
    BY <2>0, OverlayType
  <2> HIDE DEF a
  <2>2. Len(a) = n
    BY <1>2, <2>1
  <2> QED BY <1>1, <2>1, <2>2
<1>4. /\ o \in Seq(Bytes) /\ Len(o) = P!AtLeast(Len(s), offset + Len(run))
      /\ \A j \in 1 .. Len(o) : o[j] = IF j - offset \in 1 .. Len(run) THEN run[j - offset]
                                        ELSE IF j <= Len(s) THEN s[j] ELSE 0
  BY OverlayType
<1> HIDE DEF a, o
<1>5. /\ b \in Seq(Bytes) /\ Len(b) = n
      /\ \A j \in 1 .. n : b[j] = IF j <= Len(o) THEN o[j] ELSE 0
  BY <1>4, ZerosType
<1> HIDE DEF b
<1>6. Len(o) >= Len(s) /\ Len(o) >= offset + Len(run)
  BY <1>4 DEF P!AtLeast
<1>7. ASSUME NEW j \in 1 .. n
      PROVE  a[j] = b[j]
  <2>1. CASE j <= Len(o)
    <3>1. j \in 1 .. Len(o) /\ b[j] = o[j]
      BY <2>1, <1>4, <1>5
    <3> QED BY <3>1, <1>1, <1>3, <1>4
  <2>2. CASE j > Len(o)
    BY <2>2, <1>1, <1>3, <1>5, <1>6
  <2> QED BY <2>1, <2>2, <1>4
<1>8. a = b
  BY <1>3, <1>5, <1>7, SameSeq
<1> QED BY <1>8 DEF a, b, o, z

\* What is written behind what was written before.
LEMMA OverlayBehind ==
  ASSUME NEW s \in Seq(Bytes), NEW run \in Seq(Bytes), NEW n \in Nat, n + Len(run) <= Len(s)
  PROVE  /\ P!Overlay(s, n, run) \in Seq(Bytes) /\ Len(P!Overlay(s, n, run)) = Len(s)
         /\ P!At(P!Overlay(s, n, run), 0, n + Len(run)) = P!At(s, 0, n) \o run
<1> DEFINE o == P!Overlay(s, n, run)
           a == P!At(o, 0, n + Len(run))
           c == P!At(s, 0, n)
           b == c \o run
<1>1. P!AtLeast(Len(s), n + Len(run)) = Len(s)
  BY DEF P!AtLeast
<1>2. /\ o \in Seq(Bytes) /\ Len(o) = Len(s)
      /\ \A j \in 1 .. Len(s) : o[j] = IF j - n \in 1 .. Len(run) THEN run[j - n]
                                        ELSE IF j <= Len(s) THEN s[j] ELSE 0
  BY <1>1, OverlayType
<1> HIDE DEF o
<1>3. /\ a \in Seq(Bytes) /\ Len(a) = n + Len(run)
      /\ \A j \in 1 .. n + Len(run) : a[j] = o[0 + j]
  BY <1>2, AtType
<1>4. c \in Seq(Bytes) /\ Len(c) = n /\ \A j \in 1 .. n : c[j] = s[0 + j]
  BY AtType
<1> HIDE DEF a, c
<1>5. /\ b \in Seq(Bytes) /\ Len(b) = n + Len(run)
      /\ \A j \in 1 .. n + Len(run) : b[j] = IF j <= n THEN c[j] ELSE run[j - n]
  BY <1>4
<1> HIDE DEF b
<1>6. ASSUME NEW j \in 1 .. n + Len(run)
      PROVE  a[j] = b[j]
  <2> DEFINE l == Len(run)
  <2>1. l \in Nat /\ j \in 1 .. Len(s) /\ 0 + j = j /\ a[j] = o[j]
    BY <1>3
  <2> HIDE DEF l
  <2>2. CASE j <= n
    <3>1. j - n \notin 1 .. l /\ j \in 1 .. n
      BY <2>1, <2>2
    <3>2. o[j] = s[j] /\ b[j] = s[j]
      BY <1>2, <1>4, <1>5, <2>1, <2>2, <3>1 DEF l
    <3> QED BY <2>1, <3>2
  <2>3. CASE ~(j <= n)
    <3>1. j - n \in 1 .. Len(run)
      BY <2>3
    <3> QED BY <1>2, <1>5, <2>1, <2>3, <3>1
  <2> QED BY <2>2, <2>3
<1>7. a = b
  BY <1>3, <1>5, <1>6, SameSeq
<1> QED BY <1>2, <1>7 DEF a, b, c, o

LEMMA RepeatType ==
  ASSUME NEW s \in Seq(Bytes), NEW offset \in Nat, NEW n \in Nat, offset < Len(s)
  PROVE  P!Repeat(s, offset, n) \in Seq(Bytes) /\ Len(P!Repeat(s, offset, n)) = n
<1> DEFINE p == Len(s) - offset
<1>1. p \in Nat \ {0}
  OBVIOUS
<1>2. \A j \in 1 .. n : (j - 1) % p \in 0 .. p - 1
  BY <1>1
<1>3. \A j \in 1 .. n : offset + 1 + ((j - 1) % p) \in 1 .. Len(s)
  <2> TAKE j \in 1 .. n
  <2> DEFINE r == (j - 1) % p
  <2>1. r \in 0 .. p - 1
    BY <1>2
  <2> HIDE DEF r
  <2> QED BY <2>1 DEF r
<1>4. P!Repeat(s, offset, n) \in [1 .. n -> Bytes]
  BY <1>3 DEF P!Repeat
<1> QED BY <1>4

\* A step of an offset is read as it was written.
LEMMA SignedStep ==
  ASSUME NEW from \in Nat, NEW to \in Nat
  PROVE  P!Step(from, to) \in Nat /\ from + P!Signed(P!Step(from, to)) = to
<1>1. CASE to < from
  <2> DEFINE d == from - to
  <2>1. d \in Nat
    BY <1>1
  <2>2. (2 * d + 1) % 2 = 1 /\ (2 * d + 1) \div 2 = d
    BY <2>1
  <2>3. P!Step(from, to) = 2 * d + 1
    BY <1>1 DEF P!Step
  <2>4. P!Signed(2 * d + 1) = -d
    BY <2>1, <2>2 DEF P!Signed
  <2> QED BY <2>1, <2>3, <2>4
<1>2. CASE ~(to < from)
  <2> DEFINE d == to - from
  <2>1. d \in Nat
    BY <1>2
  <2>2. (2 * d) % 2 = 0 /\ (2 * d) \div 2 = d
    BY <2>1
  <2>3. P!Step(from, to) = 2 * d
    BY <1>2 DEF P!Step
  <2>4. P!Signed(2 * d) = d
    BY <2>1, <2>2 DEF P!Signed
  <2> QED BY <2>1, <2>3, <2>4
<1> QED BY <1>1, <1>2

LEMMA CodeRead ==
  ASSUME NEW mode \in 0 .. 3, NEW n \in Nat \ {0}
  PROVE  P!Code(mode, n) \in Nat /\ P!Code(mode, n) % 4 = mode /\ P!Code(mode, n) \div 4 + 1 = n
BY DEF P!Code
------------------------------------------------------------------------------
(* The authors.                                                             *)

LEMMA SourceType ==
  ASSUME PatchesInv, NEW j \in 1 .. Len(patches) + 1
  PROVE  SourceOf(j) \in Seq(Bytes) /\ Len(SourceOf(j)) > 0
<1>1. CASE j = 1
  BY <1>1, PatchFacts DEF PatchesInv, SourceOf
<1>2. CASE j # 1
  <2>1. j - 1 \in 1 .. Len(patches)
    BY <1>2 DEF PatchesInv
  <2>2. patches[j - 1] \in IpsSet \cup BpsSet /\ Len(patches[j - 1].target) > 0
    BY <2>1 DEF PatchesInv
  <2>3. patches[j - 1].target \in Seq(Bytes)
    BY <2>2 DEF IpsSet, BpsSet
  <2> QED BY <1>2, <2>2, <2>3 DEF SourceOf
<1> QED BY <1>1, <1>2

LEMMA IntendedType ==
  ASSUME PatchesInv, intended # None
  PROVE  intended \in Seq(Bytes) /\ Len(intended) > 0
<1>1. Len(patches) + 1 \in 1 .. Len(patches) + 1
  BY DEF PatchesInv
<1> QED BY <1>1, SourceType DEF PatchesInv

\* A sequence of bytes is not None.
LEMMA NotNone ==
  ASSUME NEW s \in Seq(Bytes)
  PROVE  s \in Seq(Nat) /\ s # None
<1>1. \A j \in 1 .. Len(s) : s[j] \in Bytes
  OBVIOUS
<1>2. \A j \in 1 .. Len(s) : s[j] \in Nat
  BY <1>1, PatchFacts
<1>3. s \in Seq(Nat)
  BY <1>2
<1> QED BY <1>3, PatchFacts

\* Nobody but FinishIps and FinishBps touches what the program may read.
LEMMA WorkKeeps ==
  ASSUME PatchesInv, ReaderInv, P!PatchedAsMeant,
         UNCHANGED <<dump, patches, intended, pass, in, out, out_size, i, P!bps, k, given>>
  PROVE  PatchesInv' /\ ReaderInv' /\ P!PatchedAsMeant'
<1>1. PatchesInv'
  BY DEF PatchesInv, Sound, Good, Broken, SourceOf
<1>2. ReaderInv'
  BY DEF ReaderInv, Sound, SourceOf, IpsAtMark, BpsAtMark, P!bps
<1> QED BY <1>1, <1>2 DEF P!PatchedAsMeant

LEMMA BeginKeeps ==
  ASSUME PatchesInv, NEW source \in Seq(Bytes), NEW format \in {"IPS", "BPS"}, intended # None,
         format = "IPS" => source = intended,
         P!Begin(format, source)
  PROVE  DraftInv'
<1> DEFINE target == IF format = "IPS" THEN source ELSE <<>>
           mark   == P!Mark(0, target, 0, 0)
<1>1. draft' = [format |-> format, cells |-> <<>>, source |-> source, target |-> target,
                src |-> 0, dst |-> 0, end |-> 0, marks |-> <<mark>>]
  BY DEF P!Begin
<1>2. target \in Seq(Bytes) /\ mark \in MarkSet
  BY DEF P!Mark, MarkSet
<1>3. draft' \in DraftSet
  <2>1. <<mark>> \in Seq(MarkSet) /\ <<>> \in Seq(Nat)
    BY <1>2
  <2> HIDE DEF mark, target
  <2> QED BY <1>1, <1>2, <2>1 DEF DraftSet
<1>4. /\ Len(draft'.marks) = 1 /\ draft'.marks[1] = mark
      /\ draft'.cells = <<>> /\ draft'.target = target /\ draft'.src = 0 /\ draft'.dst = 0
      /\ draft'.end = 0 /\ draft'.format = format /\ draft'.source = source
      /\ draft'.marks \in Seq(MarkSet)
  <2> HIDE DEF mark, target
  <2> QED BY <1>1, <1>3 DEF DraftSet
<1>5. UNCHANGED intended /\ pass' = "author"
  BY DEF P!Begin
<1>6. Len(draft'.cells) = 0
  BY <1>4
<1>7. ASSUME format = "IPS"
      PROVE  /\ draft'.source = intended' /\ draft'.end <= Len(draft'.target)
             /\ Len(draft'.target) > 0
             /\ IpsMarks(draft'.cells, draft'.marks, draft'.source, draft'.end)
  <2>1. Len(source) > 0
    BY <1>7, IntendedType
  <2> QED BY <1>4, <1>5, <1>7, <2>1 DEF IpsMarks
<1>8. ASSUME format = "BPS"
      PROVE  BpsMarks(draft'.cells, 0, draft'.source, draft'.marks, Len(draft'.target))
  BY <1>4, <1>8 DEF BpsMarks
<1> HIDE DEF mark, target
<1>9. draft'.marks[Len(draft'.marks)] =
        P!Mark(Len(draft'.cells), draft'.target, draft'.src, draft'.dst)
  BY <1>4, <1>6 DEF mark
<1> QED BY <1>3, <1>4, <1>5, <1>7, <1>8, <1>9 DEF DraftInv

\* What was read of the cells stays where it is.
LEMMA IpsStepGrows ==
  ASSUME NEW cells \in Seq(Nat), NEW more \in Seq(Int), NEW a \in MarkSet, NEW b \in MarkSet,
         NEW end \in Nat, NEW end2 \in Nat, end <= end2, IpsStep(cells, a, b, end)
  PROVE  IpsStep(cells \o more, a, b, end2)
<1> DEFINE whole == cells \o more
           p == a.at
           q == b.at
<1>1. PICK offset \in Nat, run \in Seq(Bytes) :
        /\ Len(run) > 0 /\ offset + Len(run) <= end
        /\ b.target = P!Overlay(a.target, offset, run)
        /\ q <= Len(cells) /\ P!Cell(cells, p) = offset
        /\ \/ /\ q = p + 2 + Len(run) /\ P!Cell(cells, p + 1) = Len(run)
              /\ \A j \in 1 .. Len(run) : run[j] = cells[p + 2 + j]
           \/ /\ q = p + 4 /\ P!Cell(cells, p + 1) = 0 /\ P!Cell(cells, p + 2) = Len(run)
              /\ \A j \in 1 .. Len(run) : run[j] = P!Cell(cells, p + 3)
  BY DEF IpsStep
<1>2. p \in Nat /\ q \in Nat
  BY DEF MarkSet
<1>3. /\ Len(whole) \in Nat /\ Len(cells) \in Nat /\ Len(whole) >= Len(cells)
      /\ \A j \in 1 .. Len(cells) : whole[j] = cells[j]
  BY DEF whole
<1> DEFINE n == Len(run)
           l == Len(cells)
<1>4. n \in Nat /\ n > 0 /\ offset + n <= end /\ l \in Nat /\ q <= l
  BY <1>1
<1>5. q = p + 2 + n \/ q = p + 4
  BY <1>1
<1> HIDE DEF whole, p, q, n, l
<1>6. p + 2 <= l /\ offset + n <= end2 /\ q <= Len(whole)
  BY <1>2, <1>3, <1>4, <1>5 DEF l
<1>7. \A j \in Nat : j + 1 <= l => P!Cell(whole, j) = P!Cell(cells, j)
  BY <1>3 DEF P!Cell, l
<1>8. P!Cell(whole, p) = offset /\ P!Cell(whole, p + 1) = P!Cell(cells, p + 1)
  <2>1. p + 1 \in Nat /\ p + 1 <= l /\ (p + 1) + 1 <= l
    BY <1>2, <1>3, <1>6 DEF l
  <2> QED BY <1>1, <1>2, <1>7, <2>1
<1>9. CASE /\ q = p + 2 + n /\ P!Cell(cells, p + 1) = n
           /\ \A j \in 1 .. n : run[j] = cells[p + 2 + j]
  <2>0. p + 2 + n <= l
    BY <1>4, <1>9
  <2>1. \A j \in 1 .. n : p + 2 + j \in 1 .. l
    BY <1>2, <1>4, <2>0
  <2>2. \A j \in 1 .. n : run[j] = whole[p + 2 + j]
    BY <1>3, <1>9, <2>1 DEF l
  <2> QED BY <1>1, <1>6, <1>8, <1>9, <2>2 DEF IpsStep, whole, p, q, n
<1>10. CASE /\ q = p + 4 /\ P!Cell(cells, p + 1) = 0 /\ P!Cell(cells, p + 2) = n
            /\ \A j \in 1 .. n : run[j] = P!Cell(cells, p + 3)
  <2>1. p + 2 \in Nat /\ (p + 2) + 1 <= l /\ p + 3 \in Nat /\ (p + 3) + 1 <= l
    BY <1>2, <1>3, <1>4, <1>10 DEF l
  <2>2. P!Cell(whole, p + 2) = n /\ P!Cell(whole, p + 3) = P!Cell(cells, p + 3)
    BY <1>7, <1>10, <2>1
  <2> QED BY <1>1, <1>6, <1>8, <1>10, <2>2 DEF IpsStep, whole, p, q, n
<1> QED BY <1>1, <1>9, <1>10 DEF n

LEMMA IpsMarksGrow ==
  ASSUME NEW cells \in Seq(Nat), NEW more \in Seq(Int), NEW marks, NEW source,
         NEW end \in Nat, NEW end2 \in Nat, end <= end2, IpsMarks(cells, marks, source, end)
  PROVE  IpsMarks(cells \o more, marks, source, end2)
<1>1. ASSUME NEW m \in 1 .. Len(marks) - 1
      PROVE  IpsStep(cells \o more, marks[m], marks[m + 1], end2)
  <2>1. marks[m] \in MarkSet /\ marks[m + 1] \in MarkSet
    BY DEF IpsMarks
  <2> QED BY <2>1, IpsStepGrows DEF IpsMarks
<1> QED BY <1>1 DEF IpsMarks

\* The same cells behind a head, or before more cells.
LEMMA BpsStepGrows ==
  ASSUME NEW cells \in Seq(Nat), NEW whole \in Seq(Nat), NEW head \in Nat,
         head + Len(cells) <= Len(whole), \A j \in 1 .. Len(cells) : whole[head + j] = cells[j],
         NEW source \in Seq(Bytes), NEW a \in MarkSet, NEW b \in MarkSet,
         NEW size \in Nat, NEW size2 \in Nat, size <= size2, BpsStep(cells, 0, source, a, b, size)
  PROVE  BpsStep(whole, head, source, a, b, size2)
<1>1. PICK n \in Nat \ {0} :
        /\ Len(a.target) + n <= size /\ 0 + b.at <= Len(cells)
        /\ \/ /\ P!Cell(cells, 0 + a.at) = P!Code(0, n) /\ Len(a.target) + n <= Len(source)
              /\ b = P!Mark(a.at + 1, a.target \o P!At(source, Len(a.target), n), a.src, a.dst)
           \/ /\ P!Cell(cells, 0 + a.at) = P!Code(1, n)
              /\ \E run \in Seq(Bytes) :
                   /\ Len(run) = n /\ \A j \in 1 .. n : run[j] = cells[0 + a.at + 1 + j]
                   /\ b = P!Mark(a.at + 1 + n, a.target \o run, a.src, a.dst)
           \/ \E offset \in Nat :
                /\ P!Cell(cells, 0 + a.at) = P!Code(2, n) /\ offset + n <= Len(source)
                /\ P!Cell(cells, 0 + a.at + 1) = P!Step(a.src, offset)
                /\ b = P!Mark(a.at + 2, a.target \o P!At(source, offset, n), offset + n, a.dst)
           \/ \E offset \in Nat :
                /\ P!Cell(cells, 0 + a.at) = P!Code(3, n) /\ offset < Len(a.target)
                /\ P!Cell(cells, 0 + a.at + 1) = P!Step(a.dst, offset)
                /\ b = P!Mark(a.at + 2, a.target \o P!Repeat(a.target, offset, n), a.src, offset + n)
  BY DEF BpsStep
<1>2. a.at \in Nat /\ b.at \in Nat /\ Len(a.target) \in Nat
  BY DEF MarkSet
<1>3. Len(whole) \in Nat /\ Len(cells) \in Nat /\ head + Len(cells) <= Len(whole)
  OBVIOUS
<1>c. \A j \in Nat : j + 1 <= Len(cells) => P!Cell(whole, head + j) = P!Cell(cells, 0 + j)
  <2> TAKE j \in Nat
  <2>1. j + 1 <= Len(cells) => j + 1 \in 1 .. Len(cells)
    BY <1>3
  <2>2. head + j + 1 = head + (j + 1) /\ 0 + j + 1 = j + 1
    OBVIOUS
  <2> QED BY <2>1, <2>2 DEF P!Cell
<1>4. Len(a.target) + n <= size2 /\ head + b.at <= Len(whole)
  <2> DEFINE x == Len(a.target)
             q == b.at
             y == Len(cells)
             z == Len(whole)
  <2>1. /\ x \in Nat /\ q \in Nat /\ y \in Nat /\ z \in Nat
        /\ x + n <= size /\ 0 + q <= y /\ head + y <= z
    BY <1>1, <1>2, <1>3
  <2> HIDE DEF x, q, y, z
  <2>2. x + n <= size2 /\ head + q <= z
    BY <2>1
  <2> QED BY <2>2 DEF x, q, y, z
<1>5. b.at > a.at => P!Cell(whole, head + a.at) = P!Cell(cells, 0 + a.at)
  BY <1>1, <1>2, <1>3, <1>c
<1>6. b.at > a.at + 1 => P!Cell(whole, head + a.at + 1) = P!Cell(cells, 0 + a.at + 1)
  <2>1. a.at + 1 \in Nat /\ (b.at > a.at + 1 => (a.at + 1) + 1 <= Len(cells))
        /\ head + (a.at + 1) = head + a.at + 1 /\ 0 + (a.at + 1) = 0 + a.at + 1
    <3> DEFINE p == a.at
               q == b.at
               l == Len(cells)
    <3>1. p \in Nat /\ q \in Nat /\ l \in Nat /\ 0 + q <= l
      BY <1>1, <1>2, <1>3
    <3> HIDE DEF p, q, l
    <3>2. /\ p + 1 \in Nat /\ (q > p + 1 => (p + 1) + 1 <= l)
          /\ head + (p + 1) = head + p + 1 /\ 0 + (p + 1) = 0 + p + 1
      BY <3>1, NextPlace
    <3> QED BY <3>2 DEF p, q, l
  <2> QED BY <1>c, <2>1
<1>7. CASE /\ P!Cell(cells, 0 + a.at) = P!Code(0, n) /\ Len(a.target) + n <= Len(source)
           /\ b = P!Mark(a.at + 1, a.target \o P!At(source, Len(a.target), n), a.src, a.dst)
  <2>1. b.at = a.at + 1
    BY <1>7 DEF P!Mark
  <2>2. P!Cell(whole, head + a.at) = P!Code(0, n)
    BY <1>2, <1>5, <1>7, <2>1
  <2> QED BY <1>4, <1>7, <2>2 DEF BpsStep
<1>8. ASSUME NEW run \in Seq(Bytes), P!Cell(cells, 0 + a.at) = P!Code(1, n),
             Len(run) = n, \A j \in 1 .. n : run[j] = cells[0 + a.at + 1 + j],
             b = P!Mark(a.at + 1 + n, a.target \o run, a.src, a.dst)
      PROVE  BpsStep(whole, head, source, a, b, size2)
  <2>1. b.at = a.at + 1 + n
    BY <1>8 DEF P!Mark
  <2>2. /\ P!Cell(whole, head + a.at) = P!Code(1, n)
        /\ \A j \in 1 .. n : run[j] = whole[head + a.at + 1 + j]
    <3> DEFINE p == a.at
               l == Len(cells)
    <3>1. p \in Nat /\ l \in Nat /\ 0 + p + 1 + n <= l
      BY <1>1, <1>2, <1>3, <2>1
    <3> HIDE DEF p, l
    <3>2. \A j \in 1 .. n : /\ 0 + p + 1 + j \in 1 .. l
                            /\ head + (0 + p + 1 + j) = head + p + 1 + j
      BY <3>1, RunPlace
    <3>3. ASSUME NEW j \in 1 .. n
          PROVE  whole[head + p + 1 + j] = cells[0 + p + 1 + j]
      <4>1. whole[head + (0 + p + 1 + j)] = cells[0 + p + 1 + j]
        BY <3>2 DEF l
      <4> QED BY <3>2, <4>1
    <3>4. P!Cell(whole, head + a.at) = P!Code(1, n)
      BY <1>2, <1>5, <1>8, <2>1
    <3> QED BY <1>8, <3>3, <3>4 DEF p
  <2> QED BY <1>4, <1>8, <2>2 DEF BpsStep
<1>9. ASSUME NEW offset \in Nat, P!Cell(cells, 0 + a.at) = P!Code(2, n), offset + n <= Len(source),
             P!Cell(cells, 0 + a.at + 1) = P!Step(a.src, offset),
             b = P!Mark(a.at + 2, a.target \o P!At(source, offset, n), offset + n, a.dst)
      PROVE  BpsStep(whole, head, source, a, b, size2)
  <2>1. b.at = a.at + 2
    BY <1>9 DEF P!Mark
  <2>2. /\ P!Cell(whole, head + a.at) = P!Code(2, n)
        /\ P!Cell(whole, head + a.at + 1) = P!Step(a.src, offset)
    BY <1>2, <1>5, <1>6, <1>9, <2>1
  <2> QED BY <1>4, <1>9, <2>2 DEF BpsStep
<1>10. ASSUME NEW offset \in Nat, P!Cell(cells, 0 + a.at) = P!Code(3, n), offset < Len(a.target),
              P!Cell(cells, 0 + a.at + 1) = P!Step(a.dst, offset),
              b = P!Mark(a.at + 2, a.target \o P!Repeat(a.target, offset, n), a.src, offset + n)
       PROVE  BpsStep(whole, head, source, a, b, size2)
  <2>1. b.at = a.at + 2
    BY <1>10 DEF P!Mark
  <2>2. /\ P!Cell(whole, head + a.at) = P!Code(3, n)
        /\ P!Cell(whole, head + a.at + 1) = P!Step(a.dst, offset)
    BY <1>2, <1>5, <1>6, <1>10, <2>1
  <2> QED BY <1>4, <1>10, <2>2 DEF BpsStep
<1> QED BY <1>1, <1>7, <1>8, <1>9, <1>10

LEMMA BpsMarksGrow ==
  ASSUME NEW cells \in Seq(Nat), NEW whole \in Seq(Nat), NEW head \in Nat,
         head + Len(cells) <= Len(whole), \A j \in 1 .. Len(cells) : whole[head + j] = cells[j],
         NEW marks, NEW source \in Seq(Bytes),
         NEW size \in Nat, NEW size2 \in Nat, size <= size2,
         BpsMarks(cells, 0, source, marks, size)
  PROVE  BpsMarks(whole, head, source, marks, size2)
<1>1. ASSUME NEW m \in 1 .. Len(marks) - 1
      PROVE  BpsStep(whole, head, source, marks[m], marks[m + 1], size2)
  <2>1. marks[m] \in MarkSet /\ marks[m + 1] \in MarkSet
    BY DEF BpsMarks
  <2>2. BpsStep(cells, 0, source, marks[m], marks[m + 1], size)
    BY DEF BpsMarks
  <2> QED BY <2>1, <2>2, BpsStepGrows
<1> QED BY <1>1 DEF BpsMarks

\* One more record, read or written, is one more mark.
LEMMA IpsMarksAppend ==
  ASSUME NEW cells, NEW marks, NEW source, NEW end, NEW mark \in MarkSet,
         IpsMarks(cells, marks, source, end), IpsStep(cells, marks[Len(marks)], mark, end)
  PROVE  IpsMarks(cells, Append(marks, mark), source, end)
<1> DEFINE whole == Append(marks, mark)
<1>1. /\ whole \in Seq(MarkSet) /\ Len(whole) = Len(marks) + 1 /\ Len(marks) \in Nat \ {0}
      /\ whole[Len(marks) + 1] = mark /\ \A m \in 1 .. Len(marks) : whole[m] = marks[m]
  BY DEF IpsMarks
<1> HIDE DEF whole
<1>2. ASSUME NEW m \in 1 .. Len(whole) - 1
      PROVE  IpsStep(cells, whole[m], whole[m + 1], end)
  <2>1. CASE m = Len(marks)
    BY <1>1, <2>1
  <2>2. CASE m # Len(marks)
    <3>1. m \in 1 .. Len(marks) - 1 /\ m \in 1 .. Len(marks) /\ m + 1 \in 1 .. Len(marks)
      BY <1>1, <2>2
    <3>2. IpsStep(cells, marks[m], marks[m + 1], end)
      BY <3>1 DEF IpsMarks
    <3> QED BY <1>1, <3>1, <3>2
  <2> QED BY <2>1, <2>2
<1>3. whole[1] = marks[1]
  BY <1>1
<1> QED BY <1>1, <1>2, <1>3 DEF IpsMarks, whole

LEMMA BpsMarksAppend ==
  ASSUME NEW cells, NEW head, NEW marks, NEW source, NEW size, NEW mark \in MarkSet,
         BpsMarks(cells, head, source, marks, size),
         BpsStep(cells, head, source, marks[Len(marks)], mark, size)
  PROVE  BpsMarks(cells, head, source, Append(marks, mark), size)
<1> DEFINE whole == Append(marks, mark)
<1>1. /\ whole \in Seq(MarkSet) /\ Len(whole) = Len(marks) + 1 /\ Len(marks) \in Nat \ {0}
      /\ whole[Len(marks) + 1] = mark /\ \A m \in 1 .. Len(marks) : whole[m] = marks[m]
  BY DEF BpsMarks
<1> HIDE DEF whole
<1>2. ASSUME NEW m \in 1 .. Len(whole) - 1
      PROVE  BpsStep(cells, head, source, whole[m], whole[m + 1], size)
  <2>1. CASE m = Len(marks)
    BY <1>1, <2>1
  <2>2. CASE m # Len(marks)
    <3>1. m \in 1 .. Len(marks) - 1 /\ m \in 1 .. Len(marks) /\ m + 1 \in 1 .. Len(marks)
      BY <1>1, <2>2
    <3>2. BpsStep(cells, head, source, marks[m], marks[m + 1], size)
      BY <3>1 DEF BpsMarks
    <3> QED BY <1>1, <3>1, <3>2
  <2> QED BY <2>1, <2>2
<1>3. whole[1] = marks[1]
  BY <1>1
<1> QED BY <1>1, <1>2, <1>3 DEF BpsMarks, whole

\* The draft with other offsets, and with one more record.
Edited(src, dst, end) == [draft EXCEPT !.src = src, !.dst = dst, !.end = end]

Grown(more, target, src, dst, end) ==
  LET mark == P!Mark(Len(draft.cells) + Len(more), target, src, dst)
  IN  /\ mark \in MarkSet /\ draft' \in DraftSet
      /\ draft'.format = draft.format /\ draft'.cells = draft.cells \o more
      /\ draft'.source = draft.source /\ draft'.target = target
      /\ draft'.src = src /\ draft'.dst = dst /\ draft'.end = end
      /\ draft'.marks = Append(draft.marks, mark)
      /\ Len(draft'.marks) = Len(draft.marks) + 1
      /\ draft'.marks[Len(draft.marks) + 1] = mark
      /\ Len(draft'.cells) = Len(draft.cells) + Len(more)
      /\ UNCHANGED <<intended, pass>>

\* An author adds a record.
LEMMA DraftGrows ==
  ASSUME draft \in DraftSet, NEW more \in Seq(Nat), NEW target \in Seq(Bytes),
         NEW src \in Nat, NEW dst \in Nat, NEW end \in Nat,
         P!Adds(Edited(src, dst, end), more, target)
  PROVE  Grown(more, target, src, dst, end)
<1> DEFINE d == Edited(src, dst, end)
<1> DEFINE mark == P!Mark(Len(draft.cells) + Len(more), target, src, dst)
<1>2. draft.cells \in Seq(Nat) /\ draft.marks \in Seq(MarkSet)
  BY DEF DraftSet
<1>3. d \in DraftSet
  BY DEF DraftSet, Edited
<1>4. /\ d.cells = draft.cells /\ d.src = src /\ d.dst = dst /\ d.marks = draft.marks
      /\ d.format = draft.format /\ d.source = draft.source /\ d.end = end
  BY DEF DraftSet, Edited
<1> HIDE DEF d
<1>5. draft' = [d EXCEPT !.cells = @ \o more, !.target = target,
                         !.marks = Append(@, P!Mark(Len(d.cells) + Len(more), target, d.src, d.dst))]
  BY DEF P!Adds, d
<1>6. draft' = [d EXCEPT !.cells = d.cells \o more, !.target = target,
                         !.marks = Append(d.marks, mark)]
  BY <1>4, <1>5
<1>7. mark \in MarkSet /\ mark.at = Len(draft.cells) + Len(more)
  BY <1>2 DEF P!Mark, MarkSet
<1> HIDE DEF mark
<1>8. /\ Append(draft.marks, mark) \in Seq(MarkSet) /\ draft.cells \o more \in Seq(Nat)
      /\ Len(draft.cells \o more) = Len(draft.cells) + Len(more)
      /\ Len(Append(draft.marks, mark)) = Len(draft.marks) + 1
      /\ Append(draft.marks, mark)[Len(draft.marks) + 1] = mark
  BY <1>2, <1>7
<1> DEFINE cells == d.cells \o more
           marks == Append(d.marks, mark)
<1>9. cells \in Seq(Nat) /\ marks \in Seq(MarkSet)
  BY <1>4, <1>8
<1>10. draft' = [d EXCEPT !.cells = cells, !.target = target, !.marks = marks]
  BY <1>6
<1>11. cells = draft.cells \o more /\ marks = Append(draft.marks, mark)
  BY <1>4
<1> HIDE DEF cells, marks
<1>12. /\ draft' \in DraftSet /\ draft'.format = d.format /\ draft'.cells = cells
       /\ draft'.source = d.source /\ draft'.target = target
       /\ draft'.src = d.src /\ draft'.dst = d.dst /\ draft'.end = d.end /\ draft'.marks = marks
  BY <1>3, <1>9, <1>10 DEF DraftSet
<1>13. UNCHANGED <<intended, pass>>
  BY DEF P!Adds
<1> QED BY <1>4, <1>7, <1>8, <1>11, <1>12, <1>13 DEF mark, Grown

LEMMA IpsRecordAdded ==
  ASSUME DraftInv, draft # None, draft.format = "IPS",
         NEW offset \in Nat, NEW run \in Seq(Bytes), Len(run) > 0,
         NEW more \in Seq(Nat), Len(more) >= 2, more[1] = offset,
         \/ /\ Len(more) = 2 + Len(run) /\ more[2] = Len(run)
            /\ \A j \in 1 .. Len(run) : run[j] = more[2 + j]
         \/ /\ Len(more) = 4 /\ more[2] = 0 /\ more[3] = Len(run)
            /\ \A j \in 1 .. Len(run) : run[j] = more[4],
         P!Adds(P!Ends(draft, offset, Len(run)), more, P!Overlay(draft.target, offset, run))
  PROVE  DraftInv'
<1> DEFINE end == P!AtLeast(draft.end, offset + Len(run))
           target == P!Overlay(draft.target, offset, run)
           mark == P!Mark(Len(draft.cells) + Len(more), target, draft.src, draft.dst)
           last == draft.marks[Len(draft.marks)]
           whole == draft.cells \o more
<1>1. /\ draft \in DraftSet /\ Len(draft.marks) > 0
      /\ last = P!Mark(Len(draft.cells), draft.target, draft.src, draft.dst)
      /\ draft.source = intended /\ draft.end <= Len(draft.target) /\ Len(draft.target) > 0
      /\ IpsMarks(draft.cells, draft.marks, draft.source, draft.end)
      /\ intended # None /\ pass = "author"
  BY DEF DraftInv
<1>2. /\ draft.cells \in Seq(Nat) /\ draft.target \in Seq(Bytes) /\ draft.src \in Nat
      /\ draft.dst \in Nat /\ draft.end \in Nat /\ draft.marks \in Seq(MarkSet)
  BY <1>1 DEF DraftSet
<1>3. end \in Nat /\ draft.end <= end /\ offset + Len(run) <= end
  BY <1>2 DEF P!AtLeast
<1>4. target \in Seq(Bytes) /\ Len(target) = P!AtLeast(Len(draft.target), offset + Len(run))
  <2>1. draft.target \in Seq(Bytes)
    BY <1>2
  <2>2. \A s \in Seq(Bytes) : /\ P!Overlay(s, offset, run) \in Seq(Bytes)
                              /\ Len(P!Overlay(s, offset, run)) = P!AtLeast(Len(s), offset + Len(run))
    BY OverlayType
  <2> QED BY <2>1, <2>2
<1>5. end <= Len(target) /\ Len(target) > 0
  <2>1. Len(draft.target) \in Nat /\ Len(run) \in Nat
    BY <1>2
  <2>2. Len(target) = P!AtLeast(Len(draft.target), offset + Len(run))
    BY <1>4
  <2> DEFINE n == Len(draft.target)
             m == Len(run)
             e == draft.end
  <2>3. n \in Nat /\ m \in Nat /\ e \in Nat /\ e <= n /\ n > 0
    BY <1>1, <1>2, <2>1
  <2>4. Len(target) = P!AtLeast(n, offset + m) /\ end = P!AtLeast(e, offset + m)
    BY <2>2
  <2> HIDE DEF n, m, e, end, target
  <2> QED BY <2>3, <2>4 DEF P!AtLeast
<1>6. P!Ends(draft, offset, Len(run)) = Edited(draft.src, draft.dst, end)
  BY <1>1, <1>2 DEF P!Ends, Edited, DraftSet
<1> HIDE DEF end, target
<1>7. P!Adds(Edited(draft.src, draft.dst, end), more, target)
  BY <1>6 DEF target
<1>8. Grown(more, target, draft.src, draft.dst, end)
  <2>1. draft.src \in Nat /\ draft.dst \in Nat /\ end \in Nat /\ target \in Seq(Bytes)
    BY <1>2, <1>3, <1>4
  <2> QED BY <1>1, <1>7, <2>1, DraftGrows, Zenon
<1>9. IpsMarks(whole, draft.marks, draft.source, end)
  <2>1. more \in Seq(Int)
    OBVIOUS
  <2> QED BY <1>1, <1>2, <1>3, <2>1, IpsMarksGrow
<1>10. IpsStep(whole, last, mark, end)
  <2> DEFINE l == Len(draft.cells)
             n == Len(run)
  <2>1. last.at = l /\ last.target = draft.target /\ mark.at = l + Len(more) /\ mark.target = target
    BY <1>1 DEF P!Mark
  <2>2. /\ Len(whole) = l + Len(more) /\ l \in Nat /\ n \in Nat
        /\ \A j \in 1 .. Len(more) : whole[l + j] = more[j]
    BY <1>2
  <2> HIDE DEF whole, mark, last, l
  <2>3. whole[l + 1] = more[1] /\ whole[l + 2] = more[2]
    BY <2>2
  <2>4. (l + 1) + 1 = l + 2 /\ (l + 2) + 1 = l + 3 /\ (l + 3) + 1 = l + 4
    BY <2>2
  <2>5. P!Cell(whole, last.at) = offset /\ P!Cell(whole, last.at + 1) = more[2] /\ mark.at <= Len(whole)
    BY <2>1, <2>2, <2>3, <2>4 DEF P!Cell
  <2>6. CASE /\ Len(more) = 2 + n /\ more[2] = n
             /\ \A j \in 1 .. n : run[j] = more[2 + j]
    <3>1. ASSUME NEW j \in 1 .. n
          PROVE  run[j] = whole[last.at + 2 + j]
      <4>1. 2 + j \in 1 .. Len(more) /\ l + 2 + j = l + (2 + j)
        BY <2>2, <2>6
      <4>2. whole[l + (2 + j)] = more[2 + j]
        BY <2>2, <4>1
      <4> QED BY <2>1, <2>6, <4>1, <4>2
    <3>2. mark.at = last.at + 2 + n
      BY <2>1, <2>2, <2>6
    <3> QED BY <1>3, <2>1, <2>5, <2>6, <3>1, <3>2 DEF IpsStep, target
  <2>7. CASE /\ Len(more) = 4 /\ more[2] = 0 /\ more[3] = n
             /\ \A j \in 1 .. n : run[j] = more[4]
    <3>1. whole[l + 3] = more[3] /\ whole[l + 4] = more[4]
      BY <2>2, <2>7
    <3>2. P!Cell(whole, last.at + 2) = n /\ P!Cell(whole, last.at + 3) = more[4] /\ mark.at = last.at + 4
      BY <2>1, <2>4, <2>7, <3>1 DEF P!Cell
    <3> QED BY <1>3, <2>1, <2>5, <2>7, <3>2 DEF IpsStep, target
  <2> QED BY <2>6, <2>7
<1>0. /\ mark \in MarkSet /\ draft' \in DraftSet
      /\ draft'.format = draft.format /\ draft'.cells = whole
      /\ draft'.source = draft.source /\ draft'.target = target
      /\ draft'.src = draft.src /\ draft'.dst = draft.dst /\ draft'.end = end
      /\ draft'.marks = Append(draft.marks, mark) /\ Len(draft'.cells) = mark.at
      /\ Len(draft'.marks) = Len(draft.marks) + 1
      /\ draft'.marks[Len(draft.marks) + 1] = mark
      /\ UNCHANGED <<intended, pass>>
  BY <1>8 DEF Grown, P!Mark
<1> HIDE DEF mark, whole, last
<1>11. IpsMarks(whole, Append(draft.marks, mark), draft.source, end)
  BY <1>0, <1>9, <1>10, IpsMarksAppend DEF last
<1>12. draft'.marks[Len(draft'.marks)] =
        P!Mark(Len(draft'.cells), draft'.target, draft'.src, draft'.dst)
  BY <1>0 DEF mark, P!Mark
<1> QED BY <1>1, <1>2, <1>5, <1>0, <1>11, <1>12 DEF DraftInv

LEMMA AddIpsKeeps ==
  ASSUME DraftInv, P!AddIps
  PROVE  DraftInv'
<1>1. PICK offset \in 0 .. MaxEnd - 1 :
        \/ \E run \in P!Runs : P!Adds(P!Ends(draft, offset, Len(run)), <<offset, Len(run)>> \o run,
                                  P!Overlay(draft.target, offset, run))
        \/ \E n \in 1 .. MaxRun, b \in Bytes :
             P!Adds(P!Ends(draft, offset, n), <<offset, 0, n, b>>,
                  P!Overlay(draft.target, offset, [j \in 1 .. n |-> b]))
  BY DEF P!AddIps
<1>2. draft # None /\ draft.format = "IPS" /\ offset \in Nat
  BY DEF P!AddIps
<1>3. ASSUME NEW run \in P!Runs,
             P!Adds(P!Ends(draft, offset, Len(run)), <<offset, Len(run)>> \o run,
                  P!Overlay(draft.target, offset, run))
      PROVE  DraftInv'
  <2> DEFINE more == <<offset, Len(run)>> \o run
  <2>1. PICK n \in 1 .. MaxRun : run \in [1 .. n -> Bytes]
    BY DEF P!Runs
  <2>2. n \in Nat \ {0}
    BY PatchFacts
  <2>3. run \in Seq(Bytes) /\ Len(run) = n
    BY <2>1, <2>2
  <2>4. run \in Seq(Nat) /\ <<offset, Len(run)>> \in Seq(Nat) /\ Len(<<offset, Len(run)>>) = 2
    BY <1>2, <2>3, NotNone
  <2>5. /\ more \in Seq(Nat) /\ Len(more) = 2 + Len(run) /\ more[1] = offset /\ more[2] = Len(run)
        /\ \A j \in 1 .. Len(run) : run[j] = more[2 + j]
    BY <1>2, <2>4
  <2>6. P!Adds(P!Ends(draft, offset, Len(run)), more, P!Overlay(draft.target, offset, run))
    BY <1>3
  <2> HIDE DEF more
  <2>7. Len(run) > 0 /\ Len(more) >= 2
    BY <2>2, <2>3, <2>5
  <2> QED BY <1>2, <2>3, <2>5, <2>6, <2>7, IpsRecordAdded
<1>4. ASSUME NEW n \in 1 .. MaxRun, NEW b \in Bytes,
             P!Adds(P!Ends(draft, offset, n), <<offset, 0, n, b>>,
                  P!Overlay(draft.target, offset, [j \in 1 .. n |-> b]))
      PROVE  DraftInv'
  <2> DEFINE more == <<offset, 0, n, b>>
             run == [j \in 1 .. n |-> b]
  <2>1. n \in Nat \ {0} /\ b \in Nat
    BY PatchFacts
  <2>2. run \in Seq(Bytes) /\ Len(run) = n /\ \A j \in 1 .. n : run[j] = b
    BY <2>1
  <2>3. /\ more \in Seq(Nat) /\ Len(more) = 4 /\ more[1] = offset /\ more[2] = 0
        /\ more[3] = n /\ more[4] = b
    BY <1>2, <2>1
  <2>4. P!Adds(P!Ends(draft, offset, n), more, P!Overlay(draft.target, offset, run))
    BY <1>4
  <2> HIDE DEF more, run
  <2>5. /\ P!Adds(P!Ends(draft, offset, Len(run)), more, P!Overlay(draft.target, offset, run))
        /\ Len(run) > 0 /\ Len(more) >= 2
        /\ more[3] = Len(run) /\ \A j \in 1 .. Len(run) : run[j] = more[4]
    BY <2>1, <2>2, <2>3, <2>4
  <2> QED BY <1>2, <2>2, <2>3, <2>5, IpsRecordAdded
<1> QED BY <1>1, <1>3, <1>4

\* What an action of a BPS patch makes is the sequence of bytes that its mark has.
LEMMA BpsRecordAdded ==
  ASSUME DraftInv, draft # None, draft.format = "BPS",
         NEW run \in Seq(Bytes), NEW src \in Nat, NEW dst \in Nat, NEW more \in Seq(Nat),
         P!Adds(Edited(src, dst, draft.end), more, draft.target \o run),
         BpsStep(draft.cells \o more, 0, draft.source,
                 P!Mark(Len(draft.cells), draft.target, draft.src, draft.dst),
                 P!Mark(Len(draft.cells) + Len(more), draft.target \o run, src, dst),
                 Len(draft.target \o run))
  PROVE  DraftInv'
<1> DEFINE target == draft.target \o run
           mark == P!Mark(Len(draft.cells) + Len(more), target, src, dst)
           last == draft.marks[Len(draft.marks)]
           whole == draft.cells \o more
<1>1. /\ draft \in DraftSet /\ Len(draft.marks) > 0
      /\ last = P!Mark(Len(draft.cells), draft.target, draft.src, draft.dst)
      /\ BpsMarks(draft.cells, 0, draft.source, draft.marks, Len(draft.target))
      /\ intended # None /\ pass = "author"
  BY DEF DraftInv
<1>2. /\ draft.cells \in Seq(Nat) /\ draft.target \in Seq(Bytes) /\ draft.source \in Seq(Bytes)
      /\ draft.end \in Nat /\ draft.marks \in Seq(MarkSet)
  BY <1>1 DEF DraftSet
<1>3. target \in Seq(Bytes) /\ Len(target) \in Nat /\ Len(draft.target) \in Nat
      /\ Len(draft.target) <= Len(target)
  BY <1>2
<1>4. BpsStep(whole, 0, draft.source, last, mark, Len(target))
  BY <1>1
<1> HIDE DEF target
<1>5. P!Adds(Edited(src, dst, draft.end), more, target)
  BY DEF target
<1>6. /\ mark \in MarkSet
      /\ draft' \in DraftSet
      /\ draft'.format = draft.format /\ draft'.cells = whole
      /\ draft'.source = draft.source /\ draft'.target = target
      /\ draft'.src = src /\ draft'.dst = dst
      /\ draft'.marks = Append(draft.marks, mark) /\ Len(draft'.cells) = mark.at
      /\ Len(draft'.marks) = Len(draft.marks) + 1
      /\ draft'.marks[Len(draft.marks) + 1] = mark
      /\ UNCHANGED <<intended, pass>>
  <2>1. draft.end \in Nat /\ target \in Seq(Bytes)
    BY <1>2, <1>3
  <2>2. Grown(more, target, src, dst, draft.end)
    BY <1>1, <1>5, <2>1, DraftGrows, Zenon
  <2> QED BY <2>2 DEF Grown, P!Mark
<1>7. BpsMarks(whole, 0, draft.source, draft.marks, Len(target))
  <2>1. /\ whole \in Seq(Nat) /\ 0 + Len(draft.cells) <= Len(whole)
        /\ \A j \in 1 .. Len(draft.cells) : whole[0 + j] = draft.cells[j]
    BY <1>2
  <2> HIDE DEF whole
  <2> QED BY <1>1, <1>2, <1>3, <2>1, BpsMarksGrow
<1> HIDE DEF mark, whole, last
<1>8. BpsMarks(whole, 0, draft.source, Append(draft.marks, mark), Len(target))
  BY <1>4, <1>6, <1>7, BpsMarksAppend DEF last
<1>9. draft'.marks[Len(draft'.marks)] =
        P!Mark(Len(draft'.cells), draft'.target, draft'.src, draft'.dst)
  BY <1>6 DEF mark, P!Mark
<1>10. Len(draft'.marks) > 0
  BY <1>1, <1>2, <1>6
<1> QED BY <1>1, <1>6, <1>8, <1>9, <1>10 DEF DraftInv

LEMMA ConcatLen ==
  ASSUME NEW S, NEW s \in Seq(S), NEW t \in Seq(S)
  PROVE  Len(s \o t) = Len(s) + Len(t)
OBVIOUS

\* The cells of an action that makes a run of bytes, and the offsets behind it.
ActionMade(n, t, s, src, dst, run, more, src2, dst2) ==
  \/ /\ more = <<P!Code(0, n)>> /\ Len(t) + n <= Len(s) /\ run = P!At(s, Len(t), n)
     /\ src2 = src /\ dst2 = dst
  \/ more = <<P!Code(1, n)>> \o run /\ src2 = src /\ dst2 = dst
  \/ \E offset \in Nat :
       /\ more = <<P!Code(2, n), P!Step(src, offset)>> /\ offset + n <= Len(s)
       /\ run = P!At(s, offset, n) /\ src2 = offset + n /\ dst2 = dst
  \/ \E offset \in Nat :
       /\ more = <<P!Code(3, n), P!Step(dst, offset)>> /\ offset < Len(t)
       /\ run = P!Repeat(t, offset, n) /\ src2 = src /\ dst2 = offset + n

LEMMA ConcatCells ==
  ASSUME NEW S, NEW s \in Seq(S), NEW t \in Seq(S)
  PROVE  /\ Len(s) \in Nat /\ Len(t) \in Nat /\ Len(s \o t) = Len(s) + Len(t)
         /\ \A j \in 1 .. Len(t) : (s \o t)[Len(s) + j] = t[j]
OBVIOUS

LEMMA BpsStepMade ==
  ASSUME NEW c \in Seq(Nat), NEW t \in Seq(Bytes), NEW s \in Seq(Bytes), NEW n \in Nat \ {0},
         NEW src \in Nat, NEW dst \in Nat, NEW src2 \in Nat, NEW dst2 \in Nat,
         NEW run \in Seq(Bytes), Len(run) = n, NEW more \in Seq(Nat),
         ActionMade(n, t, s, src, dst, run, more, src2, dst2)
  PROVE  BpsStep(c \o more, 0, s, P!Mark(Len(c), t, src, dst),
                 P!Mark(Len(c) + Len(more), t \o run, src2, dst2), Len(t \o run))
<1> DEFINE l == Len(c)
           x == Len(more)
           whole == c \o more
           u == t \o run
           a == P!Mark(l, t, src, dst)
           b == P!Mark(l + x, u, src2, dst2)
<1>1. l \in Nat /\ x \in Nat /\ Len(whole) = l + x /\ \A j \in 1 .. x : whole[l + j] = more[j]
  BY ConcatCells
<1>2. Len(u) = Len(t) + n /\ Len(t) \in Nat
  <2>1. Len(t \o run) = Len(t) + Len(run)
    BY ConcatLen, Zenon
  <2> QED BY <2>1
<1>3. a.at = l /\ a.target = t /\ a.src = src /\ a.dst = dst /\ b.at = l + x
  BY DEF P!Mark
<1>4. x >= 1 => whole[l + 1] = more[1]
  <2> HIDE DEF whole, l, x
  <2>1. x >= 1 => 1 \in 1 .. x
    BY <1>1, FirstPlaces
  <2> QED BY <1>1, <2>1, Zenon
<1>5. x >= 2 => whole[l + 2] = more[2]
  <2> HIDE DEF whole, l, x
  <2>1. x >= 2 => 2 \in 1 .. x
    BY <1>1, FirstPlaces
  <2> QED BY <1>1, <2>1, Zenon
<1>6. /\ Len(a.target) + n <= Len(u) /\ 0 + b.at <= Len(whole)
      /\ P!Cell(whole, 0 + a.at) = whole[l + 1] /\ P!Cell(whole, 0 + a.at + 1) = whole[l + 2]
  <2>1. Len(a.target) + n = Len(u) /\ 0 + b.at = l + x /\ 0 + a.at = l
    BY <1>1, <1>2, <1>3
  <2>2. 0 + a.at + 1 = l + 1 /\ (l + 1) + 1 = l + 2
    BY <1>1, <2>1
  <2>3. P!Cell(whole, 0 + a.at) = whole[l + 1]
    BY <2>1 DEF P!Cell
  <2>4. P!Cell(whole, 0 + a.at + 1) = whole[l + 2]
    BY <2>2 DEF P!Cell
  <2>5. Len(a.target) + n <= Len(u) /\ 0 + b.at <= Len(whole)
    <3> HIDE DEF whole, l, x, a, b, u
    <3> QED BY <1>1, <1>2, <2>1
  <2> QED BY <2>3, <2>4, <2>5
<1>7. CASE /\ more = <<P!Code(0, n)>> /\ Len(t) + n <= Len(s) /\ run = P!At(s, Len(t), n)
           /\ src2 = src /\ dst2 = dst
  <2>1. more[1] = P!Code(0, n) /\ x = 1 /\ b = P!Mark(l + 1, t \o P!At(s, Len(t), n), src, dst)
    BY <1>7
  <2> HIDE DEF whole, l, x, a, b, u
  <2>2. P!Cell(whole, 0 + a.at) = P!Code(0, n)
    BY <1>4, <1>6, <2>1
  <2>3. BpsStep(whole, 0, s, a, b, Len(u))
    BY <1>3, <1>6, <1>7, <2>1, <2>2 DEF BpsStep
  <2> QED BY <2>3 DEF whole, l, x, a, b, u
<1>8. CASE more = <<P!Code(1, n)>> \o run /\ src2 = src /\ dst2 = dst
  <2>1. more[1] = P!Code(1, n) /\ x = 1 + n /\ \A j \in 1 .. n : more[1 + j] = run[j]
    BY <1>8
  <2>2. ASSUME NEW j \in 1 .. n
        PROVE  run[j] = whole[0 + a.at + 1 + j]
    <3>1. 1 + j \in 1 .. x /\ 0 + l + 1 + j = l + (1 + j)
      <4>1. l \in Nat /\ x = 1 + n
        BY <1>1, <2>1, Zenon
      <4> HIDE DEF l, x
      <4> QED BY <4>1, CodePlace, Zenon
    <3> HIDE DEF whole, l, x, a
    <3> QED BY <1>1, <1>3, <2>1, <3>1
  <2>3. b = P!Mark(l + 1 + n, t \o run, src, dst)
    <3>1. l + x = l + 1 + n
      <4> HIDE DEF l, x
      <4> QED BY <1>1, <2>1
    <3> HIDE DEF l, x
    <3> QED BY <1>8, <3>1
  <2> HIDE DEF whole, l, x, a, b, u
  <2>4. P!Cell(whole, 0 + a.at) = P!Code(1, n)
    BY <1>4, <1>6, <2>1
  <2>5. BpsStep(whole, 0, s, a, b, Len(u))
    BY <1>3, <1>6, <2>2, <2>3, <2>4 DEF BpsStep
  <2> QED BY <2>5 DEF whole, l, x, a, b, u
<1>9. ASSUME NEW offset \in Nat,
             more = <<P!Code(2, n), P!Step(src, offset)>>, offset + n <= Len(s),
             run = P!At(s, offset, n), src2 = offset + n, dst2 = dst
      PROVE  BpsStep(whole, 0, s, a, b, Len(u))
  <2>1. /\ more[1] = P!Code(2, n) /\ more[2] = P!Step(src, offset) /\ x = 2
        /\ b = P!Mark(l + 2, t \o P!At(s, offset, n), offset + n, dst)
    BY <1>9
  <2> HIDE DEF whole, l, x, a, b, u
  <2>2. P!Cell(whole, 0 + a.at) = P!Code(2, n) /\ P!Cell(whole, 0 + a.at + 1) = P!Step(a.src, offset)
    <3>1. whole[l + 1] = more[1] /\ whole[l + 2] = more[2]
      BY <1>4, <1>5, <2>1
    <3>2. a.src = src
      BY <1>3
    <3> QED BY <1>6, <2>1, <3>1, <3>2
  <2>3. b = P!Mark(a.at + 2, a.target \o P!At(s, offset, n), offset + n, a.dst)
    BY <1>3, <2>1
  <2> QED BY <1>6, <1>9, <2>2, <2>3 DEF BpsStep
<1>10. ASSUME NEW offset \in Nat,
              more = <<P!Code(3, n), P!Step(dst, offset)>>, offset < Len(t),
              run = P!Repeat(t, offset, n), src2 = src, dst2 = offset + n
       PROVE  BpsStep(whole, 0, s, a, b, Len(u))
  <2>1. /\ more[1] = P!Code(3, n) /\ more[2] = P!Step(dst, offset) /\ x = 2
        /\ b = P!Mark(l + 2, t \o P!Repeat(t, offset, n), src, offset + n)
    BY <1>10
  <2> HIDE DEF whole, l, x, a, b, u
  <2>2. P!Cell(whole, 0 + a.at) = P!Code(3, n) /\ P!Cell(whole, 0 + a.at + 1) = P!Step(a.dst, offset)
    <3>1. whole[l + 1] = more[1] /\ whole[l + 2] = more[2]
      BY <1>4, <1>5, <2>1
    <3>2. a.dst = dst
      BY <1>3
    <3> QED BY <1>6, <2>1, <3>1, <3>2
  <2>3. /\ b = P!Mark(a.at + 2, a.target \o P!Repeat(a.target, offset, n), a.src, offset + n)
        /\ offset < Len(a.target)
    BY <1>3, <1>10, <2>1
  <2> QED BY <1>6, <2>2, <2>3 DEF BpsStep
<1> QED BY <1>7, <1>8, <1>9, <1>10 DEF ActionMade

LEMMA AddBpsKeeps ==
  ASSUME DraftInv, P!AddBps
  PROVE  DraftInv'
<1> DEFINE s == draft.source
           t == draft.target
           c == draft.cells
<1>1. draft # None /\ draft.format = "BPS" /\ draft \in DraftSet
  BY DEF P!AddBps, DraftInv
<1>2. /\ c \in Seq(Nat) /\ t \in Seq(Bytes) /\ s \in Seq(Bytes)
      /\ draft.src \in Nat /\ draft.dst \in Nat /\ draft.end \in Nat
  BY <1>1 DEF DraftSet
<1>3. /\ draft = Edited(draft.src, draft.dst, draft.end)
      /\ \A x \in Nat : /\ [draft EXCEPT !.src = x] = Edited(x, draft.dst, draft.end)
                        /\ [draft EXCEPT !.dst = x] = Edited(draft.src, x, draft.end)
  BY <1>1 DEF DraftSet, Edited
<1>4. PICK n \in 1 .. MaxRun :
        \/ Len(t) + n <= Len(s) /\ P!Adds(draft, <<P!Code(0, n)>>, t \o P!At(s, Len(t), n))
        \/ \E run \in [1 .. n -> Bytes] : P!Adds(draft, <<P!Code(1, n)>> \o run, t \o run)
        \/ \E offset \in 0 .. Len(s) - n :
             P!Adds([draft EXCEPT !.src = offset + n],
                  <<P!Code(2, n), P!Step(draft.src, offset)>>, t \o P!At(s, offset, n))
        \/ \E offset \in 0 .. Len(t) - 1 :
             P!Adds([draft EXCEPT !.dst = offset + n],
                  <<P!Code(3, n), P!Step(draft.dst, offset)>>, t \o P!Repeat(t, offset, n))
  BY DEF P!AddBps
<1>5. n \in Nat \ {0} /\ Len(t) \in Nat /\ Len(s) \in Nat
  BY <1>2, PatchFacts
<1>6. P!Code(0, n) \in Nat /\ P!Code(1, n) \in Nat /\ P!Code(2, n) \in Nat /\ P!Code(3, n) \in Nat
  BY <1>5, CodeRead
<1>7. CASE Len(t) + n <= Len(s) /\ P!Adds(draft, <<P!Code(0, n)>>, t \o P!At(s, Len(t), n))
  <2> DEFINE run == P!At(s, Len(t), n)
             more == <<P!Code(0, n)>>
  <2> HIDE DEF s, t, c
  <2>1. run \in Seq(Bytes) /\ Len(run) = n
    BY <1>2, <1>5, <1>7, AtType
  <2>2. more \in Seq(Nat)
    BY <1>6
  <2> HIDE DEF run, more
  <2>3. BpsStep(c \o more, 0, s, P!Mark(Len(c), t, draft.src, draft.dst),
                P!Mark(Len(c) + Len(more), t \o run, draft.src, draft.dst), Len(t \o run))
    BY <1>2, <1>5, <1>7, <2>1, <2>2, BpsStepMade DEF run, more, ActionMade
  <2>4. P!Adds(Edited(draft.src, draft.dst, draft.end), more, t \o run)
    BY <1>3, <1>7 DEF run, more
  <2> QED BY <1>1, <1>2, <2>1, <2>2, <2>3, <2>4, BpsRecordAdded DEF s, t, c
<1>8. ASSUME NEW run \in [1 .. n -> Bytes], P!Adds(draft, <<P!Code(1, n)>> \o run, t \o run)
      PROVE  DraftInv'
  <2> DEFINE more == <<P!Code(1, n)>> \o run
  <2> HIDE DEF s, t, c
  <2>1. run \in Seq(Bytes) /\ Len(run) = n
    BY <1>5
  <2>2. run \in Seq(Nat)
    BY <2>1, NotNone
  <2>3. more \in Seq(Nat)
    BY <1>6, <2>2
  <2> HIDE DEF more
  <2>4. BpsStep(c \o more, 0, s, P!Mark(Len(c), t, draft.src, draft.dst),
                P!Mark(Len(c) + Len(more), t \o run, draft.src, draft.dst), Len(t \o run))
    BY <1>2, <1>5, <2>1, <2>3, BpsStepMade DEF more, ActionMade
  <2>5. P!Adds(Edited(draft.src, draft.dst, draft.end), more, t \o run)
    BY <1>3, <1>8 DEF more
  <2> QED BY <1>1, <1>2, <2>1, <2>3, <2>4, <2>5, BpsRecordAdded DEF s, t, c
<1>9. ASSUME NEW offset \in 0 .. Len(s) - n,
             P!Adds([draft EXCEPT !.src = offset + n],
                  <<P!Code(2, n), P!Step(draft.src, offset)>>, t \o P!At(s, offset, n))
      PROVE  DraftInv'
  <2> DEFINE run == P!At(s, offset, n)
             more == <<P!Code(2, n), P!Step(draft.src, offset)>>
  <2>1. offset \in Nat /\ offset + n \in Nat /\ offset + n <= Len(s)
    BY <1>5
  <2> HIDE DEF s, t, c
  <2>2. run \in Seq(Bytes) /\ Len(run) = n
    BY <1>2, <1>5, <2>1, AtType
  <2>3. P!Step(draft.src, offset) \in Nat
    BY <1>2, <2>1, SignedStep
  <2>4. more \in Seq(Nat)
    BY <1>6, <2>3
  <2> HIDE DEF run, more
  <2>5. BpsStep(c \o more, 0, s, P!Mark(Len(c), t, draft.src, draft.dst),
                P!Mark(Len(c) + Len(more), t \o run, offset + n, draft.dst), Len(t \o run))
    BY <1>2, <1>5, <2>1, <2>2, <2>4, BpsStepMade DEF run, more, ActionMade
  <2>6. P!Adds(Edited(offset + n, draft.dst, draft.end), more, t \o run)
    BY <1>3, <1>9, <2>1 DEF run, more
  <2> QED BY <1>1, <1>2, <2>1, <2>2, <2>4, <2>5, <2>6, BpsRecordAdded DEF s, t, c
<1>10. ASSUME NEW offset \in 0 .. Len(t) - 1,
              P!Adds([draft EXCEPT !.dst = offset + n],
                   <<P!Code(3, n), P!Step(draft.dst, offset)>>, t \o P!Repeat(t, offset, n))
       PROVE  DraftInv'
  <2> DEFINE run == P!Repeat(t, offset, n)
             more == <<P!Code(3, n), P!Step(draft.dst, offset)>>
  <2>1. offset \in Nat /\ offset + n \in Nat /\ offset < Len(t)
    BY <1>5
  <2> HIDE DEF s, t, c
  <2>2. run \in Seq(Bytes) /\ Len(run) = n
    BY <1>2, <1>5, <2>1, RepeatType
  <2>3. P!Step(draft.dst, offset) \in Nat
    BY <1>2, <2>1, SignedStep
  <2>4. more \in Seq(Nat)
    BY <1>6, <2>3
  <2> HIDE DEF run, more
  <2>5. BpsStep(c \o more, 0, s, P!Mark(Len(c), t, draft.src, draft.dst),
                P!Mark(Len(c) + Len(more), t \o run, draft.src, offset + n), Len(t \o run))
    BY <1>2, <1>5, <2>1, <2>2, <2>4, BpsStepMade DEF run, more, ActionMade
  <2>6. P!Adds(Edited(draft.src, offset + n, draft.end), more, t \o run)
    BY <1>3, <1>10, <2>1 DEF run, more
  <2> QED BY <1>1, <1>2, <2>1, <2>2, <2>4, <2>5, <2>6, BpsRecordAdded DEF s, t, c
<1> QED BY <1>4, <1>7, <1>8, <1>9, <1>10

\* What an author finishes is the last patch, and good for what the ones before it give unless
\* the author's work is in vain.
LEMMA FinishKeeps ==
  ASSUME DraftInv, PatchesInv, ReaderInv, draft # None, NEW p \in IpsSet \cup BpsSet,
         Len(p.target) > 0, p.format = "BPS" => Len(p.cells) >= 3,
         NEW good \in BOOLEAN, good => Good(p, Len(patches) + 1),
         ~good => Broken(p, Len(patches) + 1), P!Finish(p, good)
  PROVE  DraftInv' /\ PatchesInv' /\ ReaderInv' /\ P!PatchedAsMeant'
<1>l. PICK l \in Nat : l = Len(patches)
  BY DEF PatchesInv
<1>0. (good => Good(p, l + 1)) /\ (~good => Broken(p, l + 1))
  BY <1>l
<1>1. intended # None /\ pass = "author" /\ k = 0 /\ k \in 0 .. l
  BY <1>l DEF DraftInv, ReaderInv
<1>2. patches \in Seq(IpsSet \cup BpsSet) /\ l \in Nat /\ dump \in Dumps
  BY <1>l DEF PatchesInv
<1>3. /\ draft' = None /\ UNCHANGED <<dump, pass, in, out, out_size, i, P!bps, k, given>>
      /\ intended' = (IF good THEN p.target ELSE None) /\ patches' = Append(patches, p)
  BY DEF P!Finish
<1>4. /\ patches' \in Seq(IpsSet \cup BpsSet) /\ Len(patches') = l + 1
      /\ patches'[l + 1] = p /\ \A j \in 1 .. l : patches'[j] = patches[j]
  BY <1>l, <1>2, <1>3
<1>5. p.target # None
  <2>1. p.target \in Seq(Bytes)
    BY DEF IpsSet, BpsSet
  <2> QED BY <2>1, NotNone
<1>6. \A j \in 1 .. l + 1 : SourceOf(j)' = SourceOf(j)
  <2> TAKE j \in 1 .. l + 1
  <2>1. j # 1 => j - 1 \in 1 .. l
    BY <1>2
  <2> QED BY <1>3, <1>4, <2>1 DEF SourceOf
<1>7. SourceOf(l + 2)' = p.target
  <2>1. l + 2 # 1 /\ (l + 2) - 1 = l + 1
    BY <1>2
  <2> QED BY <1>4, <2>1 DEF SourceOf
<1>8. \A j \in 1 .. l : Sound(j)'
  BY <1>2, <1>4 DEF Sound
<1>9. Sound(l + 1)' <=> good
  <2>1. Sound(l + 1)' <=> intended' # None
    BY <1>2, <1>4 DEF Sound
  <2> QED BY <1>3, <1>5, <2>1, Zenon
<1>10. ASSUME NEW j \in 1 .. l + 1
       PROVE  /\ Len(patches'[j].target) > 0
              /\ (patches'[j].format = "BPS" => Len(patches'[j].cells) >= 3)
              /\ (Sound(j) => Good(patches[j], j))'
              /\ (~Sound(j) => Broken(patches[j], j))'
  <2>1. CASE j = l + 1
    <3>1. Good(p, j) => Good(p, j)'
      BY <1>6 DEF Good
    <3>2. Broken(p, j) => Broken(p, j)'
      BY <1>6 DEF Broken
    <3>3. (patches'[j] = p) /\ (good => Good(p, j)) /\ (~good => Broken(p, j)) /\ (Sound(j)' <=> good)
      BY <1>0, <1>4, <1>9, <2>1
    <3>4. (Sound(j) => Good(patches[j], j))'
      BY <1>6, <3>3 DEF Good
    <3>5. (~Sound(j) => Broken(patches[j], j))'
      BY <1>6, <3>3 DEF Broken
    <3> QED BY <3>3, <3>4, <3>5
  <2>2. CASE j # l + 1
    <3>1. j \in 1 .. l
      BY <1>2, <2>2
    <3>2. Sound(j)
      BY <1>1 DEF Sound
    <3>3. /\ Len(patches[j].target) > 0 /\ (patches[j].format = "BPS" => Len(patches[j].cells) >= 3)
          /\ Good(patches[j], j)
      BY <1>l, <3>1, <3>2 DEF PatchesInv
    <3>4. Good(patches[j], j)'
      BY <1>4, <1>6, <3>1, <3>3 DEF Good
    <3> QED BY <1>4, <1>8, <3>1, <3>3, <3>4
  <2> QED BY <2>1, <2>2
<1>11. PatchesInv'
  <2>1. (l + 1) + 1 = l + 2 /\ l + 1 > 0
    BY <1>2
  <2>2. (intended # None => intended = SourceOf(Len(patches) + 1))'
    BY <1>3, <1>4, <1>7, <2>1
  <2>3. dump' \in Dumps /\ Len(patches') > 0
    BY <1>2, <1>3, <1>4, <2>1
  <2> QED BY <1>4, <1>10, <2>2, <2>3 DEF PatchesInv
<1>12. ReaderInv'
  <2>1. in = SourceOf(k + 1) /\ out_size <= Len(in) /\ i \in Nat /\ out_size \in Nat
    BY <1>1 DEF ReaderInv
  <2>2. SourceOf(k + 1)' = SourceOf(k + 1)
    BY <1>1, <1>2, <1>3 DEF SourceOf
  <2>3. in' = SourceOf(k + 1)' /\ out_size' <= Len(in')
    BY <1>3, <2>1, <2>2
  <2>4. pass' = "author" /\ k' = 0 /\ k' \in 0 .. Len(patches') /\ i' \in Nat /\ out_size' \in Nat
    BY <1>1, <1>2, <1>3, <1>4, <2>1
  <2> QED BY <2>3, <2>4 DEF ReaderInv
<1> QED BY <1>1, <1>3, <1>11, <1>12 DEF DraftInv, P!PatchedAsMeant

\* As much as a size says of what the records make.
LEMMA ZerosCut ==
  ASSUME NEW s \in Seq(Bytes), NEW n \in 0 .. Len(s)
  PROVE  P!At(s, 0, n) \in Seq(Bytes) /\ Len(P!At(s, 0, n)) = n /\ P!At(s, 0, n) = P!Zeros(s, n)
<1>1. n \in Nat /\ 0 + n <= Len(s)
  OBVIOUS
<1>2. /\ P!At(s, 0, n) \in Seq(Bytes) /\ Len(P!At(s, 0, n)) = n
      /\ \A j \in 1 .. n : P!At(s, 0, n)[j] = s[0 + j]
  BY <1>1, AtType
<1>3. /\ P!Zeros(s, n) \in Seq(Bytes) /\ Len(P!Zeros(s, n)) = n
      /\ \A j \in 1 .. n : P!Zeros(s, n)[j] = s[j]
  BY <1>1, ZerosType
<1>4. \A j \in 1 .. Len(P!At(s, 0, n)) : P!At(s, 0, n)[j] = P!Zeros(s, n)[j]
  BY <1>2, <1>3
<1> QED BY <1>2, <1>3, <1>4, SameSeq

\* The patch that an author makes of an IPS draft.
Made(cells, target) == [draft EXCEPT !.cells = cells, !.target = target]

LEMMA MadeFields ==
  ASSUME draft \in DraftSet, draft.format = "IPS", NEW cells \in Seq(Int), NEW target \in Seq(Bytes)
  PROVE  /\ Made(cells, target) \in IpsSet /\ Made(cells, target).format = "IPS"
         /\ Made(cells, target).cells = cells /\ Made(cells, target).target = target
         /\ Made(cells, target).source = draft.source /\ Made(cells, target).marks = draft.marks
BY DEF DraftSet, IpsSet, Made

LEMMA FinishIpsKeeps ==
  ASSUME DraftInv, PatchesInv, ReaderInv, P!FinishIps
  PROVE  DraftInv' /\ PatchesInv' /\ ReaderInv' /\ P!PatchedAsMeant'
<1> DEFINE c == draft.cells
           t == draft.target
           l == Len(c)
           last == draft.marks[Len(draft.marks)]
           src == SourceOf(Len(patches) + 1)
<1>1. /\ draft # None /\ draft.format = "IPS" /\ draft \in DraftSet /\ intended # None
      /\ draft.source = src /\ draft.end <= Len(t) /\ Len(t) > 0
      /\ IpsMarks(c, draft.marks, draft.source, draft.end)
      /\ last = P!Mark(l, t, draft.src, draft.dst)
  BY DEF P!FinishIps, DraftInv, PatchesInv
<1>2. /\ c \in Seq(Nat) /\ t \in Seq(Bytes) /\ l \in Nat /\ Len(t) \in Nat /\ draft.end \in Nat
      /\ last.at = l /\ last.target = t
  BY <1>1 DEF DraftSet, P!Mark
<1>3. \/ P!Finish([draft EXCEPT !.cells = Append(@, P!EOF)], TRUE)
      \/ \E size \in P!AtLeast(draft.end, 1) .. Len(t) - 1 :
           P!Finish([draft EXCEPT !.cells = @ \o <<P!EOF, size>>, !.target = P!At(@, 0, size)], TRUE)
      \/ \E n \in 0 .. l : P!Finish([draft EXCEPT !.cells = P!At(@, 0, n)], FALSE)
  BY DEF P!FinishIps
<1>4. \A j \in 1 .. l : c[j] # P!EOF
  BY <1>2 DEF P!EOF
<1> HIDE DEF c, t, l, last, src
<1>5. CASE P!Finish([draft EXCEPT !.cells = Append(@, P!EOF)], TRUE)
  <2> DEFINE cells == Append(c, P!EOF)
             p == Made(cells, t)
  <2>1. [draft EXCEPT !.cells = Append(@, P!EOF)] = p
    BY <1>1 DEF Made, DraftSet, c, t
  <2>2. /\ cells \in Seq(Int) /\ Len(cells) = l + 1 /\ cells[l + 1] = P!EOF
        /\ \A j \in 1 .. l : cells[j] = c[j]
    BY <1>2 DEF P!EOF, l
  <2>3. IpsMarks(cells, draft.marks, draft.source, Len(t))
    <3>1. cells = c \o <<P!EOF>> /\ <<P!EOF>> \in Seq(Int)
      BY <1>2 DEF P!EOF
    <3>2. IpsMarks(c \o <<P!EOF>>, draft.marks, draft.source, Len(t))
      BY <1>1, <1>2, <3>1, IpsMarksGrow
    <3> QED BY <3>1, <3>2
  <2> HIDE DEF cells
  <2>4. /\ p \in IpsSet /\ p.format = "IPS" /\ p.cells = cells /\ p.target = t
        /\ p.source = draft.source /\ p.marks = draft.marks
    BY <1>1, <1>2, <2>2, MadeFields
  <2>5. P!Finish(p, TRUE)
    BY <1>5, <2>1
  <2> HIDE DEF p
  <2>6. MadeIps(p)
    <3>1. p.marks[Len(p.marks)] = last /\ last.at = l /\ last.target = t
      BY <1>2, <2>4 DEF last
    <3>2. l > 0 => cells[l] # P!EOF
      BY <1>2, <1>4, <2>2
    <3> QED BY <2>2, <2>3, <2>4, <3>1, <3>2 DEF MadeIps
  <2>7. Good(p, Len(patches) + 1) /\ Len(p.target) > 0
    BY <1>1, <2>4, <2>6 DEF Good, src
  <2> QED BY <1>1, <2>4, <2>5, <2>7, FinishKeeps
<1>6. ASSUME NEW size \in P!AtLeast(draft.end, 1) .. Len(t) - 1,
             P!Finish([draft EXCEPT !.cells = @ \o <<P!EOF, size>>, !.target = P!At(@, 0, size)], TRUE)
      PROVE  DraftInv' /\ PatchesInv' /\ ReaderInv' /\ P!PatchedAsMeant'
  <2> DEFINE cells == c \o <<P!EOF, size>>
             target == P!At(t, 0, size)
             p == Made(cells, target)
  <2>1. [draft EXCEPT !.cells = @ \o <<P!EOF, size>>, !.target = P!At(@, 0, size)] = p
    BY <1>1 DEF Made, DraftSet, c, t
  <2>2. size \in Nat /\ size > 0 /\ draft.end <= size /\ size \in 0 .. Len(t)
    BY <1>2 DEF P!AtLeast
  <2>3. /\ cells \in Seq(Int) /\ Len(cells) = l + 2 /\ cells[l + 1] = P!EOF /\ cells[l + 2] = size
        /\ \A j \in 1 .. l : cells[j] = c[j]
    BY <1>2, <2>2 DEF P!EOF, l
  <2>4. IpsMarks(cells, draft.marks, draft.source, size)
    <3>1. <<P!EOF, size>> \in Seq(Int)
      BY <2>2 DEF P!EOF
    <3> QED BY <1>1, <1>2, <2>2, <3>1, IpsMarksGrow
  <2>5. target \in Seq(Bytes) /\ Len(target) = size /\ target = P!Zeros(t, size)
    BY <1>2, <2>2, ZerosCut
  <2> HIDE DEF cells, target
  <2>6. /\ p \in IpsSet /\ p.format = "IPS" /\ p.cells = cells /\ p.target = target
        /\ p.source = draft.source /\ p.marks = draft.marks
    BY <1>1, <2>3, <2>5, MadeFields
  <2>7. P!Finish(p, TRUE)
    BY <1>6, <2>1
  <2> HIDE DEF p
  <2>8. MadeIps(p)
    <3>1. p.marks[Len(p.marks)] = last /\ last.at = l /\ last.target = t
      BY <1>2, <2>6 DEF last
    <3>2. l > 0 => cells[l] # P!EOF
      BY <1>2, <1>4, <2>3
    <3> QED BY <2>3, <2>4, <2>5, <2>6, <3>1, <3>2 DEF MadeIps
  <2>9. Good(p, Len(patches) + 1) /\ Len(p.target) > 0
    BY <1>1, <2>2, <2>5, <2>6, <2>8 DEF Good, src
  <2> QED BY <1>1, <2>6, <2>7, <2>9, FinishKeeps
<1>7. ASSUME NEW n \in 0 .. l, P!Finish([draft EXCEPT !.cells = P!At(@, 0, n)], FALSE)
      PROVE  DraftInv' /\ PatchesInv' /\ ReaderInv' /\ P!PatchedAsMeant'
  <2> DEFINE cells == P!At(c, 0, n)
             p == Made(cells, t)
  <2>1. [draft EXCEPT !.cells = P!At(@, 0, n)] = p
    BY <1>1 DEF Made, DraftSet, c, t
  <2>2. cells \in Seq(Nat)
    <3>1. n \in Nat /\ 0 + n <= Len(c)
      BY <1>2 DEF l
    <3> QED BY <1>2, <3>1, AtType
  <2>3. cells \in Seq(Int)
    <3> HIDE DEF cells
    <3> QED BY <2>2
  <2> HIDE DEF cells
  <2>4. p \in IpsSet /\ p.format = "IPS" /\ p.cells = cells /\ p.target = t
    BY <1>1, <1>2, <2>3, MadeFields
  <2>5. P!Finish(p, FALSE)
    BY <1>7, <2>1
  <2> HIDE DEF p
  <2>6. Broken(p, Len(patches) + 1) /\ Len(p.target) > 0
    BY <1>1, <2>2, <2>4 DEF Broken
  <2> QED BY <1>1, <2>4, <2>5, <2>6, FinishKeeps
<1> QED BY <1>3, <1>5, <1>6, <1>7 DEF l, t

LEMMA FinishBpsKeeps ==
  ASSUME DraftInv, PatchesInv, ReaderInv, P!FinishBps
  PROVE  DraftInv' /\ PatchesInv' /\ ReaderInv' /\ P!PatchedAsMeant'
<1> DEFINE c == draft.cells
           t == draft.target
           s == draft.source
           l == Len(c)
           last == draft.marks[Len(draft.marks)]
           cells == <<Len(s), Len(t), 0>> \o c
<1>1. /\ draft # None /\ draft.format = "BPS" /\ draft \in DraftSet /\ intended # None
      /\ BpsMarks(c, 0, s, draft.marks, Len(t)) /\ last = P!Mark(l, t, draft.src, draft.dst)
      /\ t # <<>> /\ intended = SourceOf(Len(patches) + 1)
  BY DEF P!FinishBps, DraftInv, PatchesInv
<1>2. /\ c \in Seq(Nat) /\ t \in Seq(Bytes) /\ s \in Seq(Bytes) /\ draft.marks \in Seq(MarkSet)
      /\ l \in Nat /\ Len(t) \in Nat /\ Len(s) \in Nat /\ last.at = l /\ last.target = t
  BY <1>1 DEF DraftSet, P!Mark
<1>3. PICK intact \in BOOLEAN :
        P!Finish([cells |-> cells, format |-> "BPS", source |-> s, target |-> t,
                intact |-> intact, marks |-> draft.marks], intact /\ s = intended)
  BY DEF P!FinishBps
<1>4. /\ cells \in Seq(Nat) /\ Len(cells) = 3 + l /\ cells[1] = Len(s) /\ cells[2] = Len(t)
      /\ cells[3] = 0 /\ \A j \in 1 .. l : cells[3 + j] = c[j]
  <2>1. <<Len(s), Len(t), 0>> \in Seq(Nat) /\ Len(<<Len(s), Len(t), 0>>) = 3
    BY <1>2
  <2> QED BY <1>2, <2>1
<1>5. Len(t) > 0
  <2> HIDE DEF t
  <2> QED BY <1>1, <1>2
<1> HIDE DEF cells
<1>6. BpsMarks(cells, 3, s, draft.marks, Len(t))
  <2>0. Len(c) = l
    OBVIOUS
  <2>1. 3 \in Nat /\ 3 + Len(c) <= Len(cells) /\ \A j \in 1 .. Len(c) : cells[3 + j] = c[j]
    <3> HIDE DEF c, l
    <3>1. l \in Nat /\ Len(cells) = 3 + l /\ \A j \in 1 .. l : cells[3 + j] = c[j]
      BY <1>2, <1>4
    <3>2. 3 + l <= Len(cells)
      BY <3>1
    <3> QED BY <2>0, <3>1, <3>2
  <2>2. Len(t) <= Len(t)
    BY <1>2
  <2> HIDE DEF c, t, s
  <2> QED BY <1>1, <1>2, <1>4, <2>1, <2>2, BpsMarksGrow
<1> HIDE DEF c, t, s, l, last
<1> DEFINE p == [cells |-> cells, format |-> "BPS", source |-> s, target |-> t,
                 intact |-> intact, marks |-> draft.marks]
           good == intact /\ s = intended
<1>7. /\ p \in BpsSet /\ p.format = "BPS" /\ p.cells = cells /\ p.source = s /\ p.target = t
      /\ p.intact = intact /\ p.marks = draft.marks
  BY <1>2, <1>4 DEF BpsSet
<1>8. P!Finish(p, good)
  BY <1>3
<1> HIDE DEF p
<1>9. MadeBps(p)
  <2>1. l + 3 = 3 + l
    BY <1>2
  <2> QED BY <1>2, <1>4, <1>6, <1>7, <2>1 DEF MadeBps, last
<1>10. good => Good(p, Len(patches) + 1)
  BY <1>1, <1>7, <1>9 DEF Good
<1>11. ~good => Broken(p, Len(patches) + 1)
  BY <1>1, <1>7 DEF Broken
<1>12. good \in BOOLEAN /\ Len(p.target) > 0 /\ Len(p.cells) >= 3
  BY <1>2, <1>4, <1>5, <1>7
<1> HIDE DEF good
<1> QED BY <1>1, <1>7, <1>8, <1>10, <1>11, <1>12, FinishKeeps
------------------------------------------------------------------------------
(* What the reader finds in a record.                                       *)

\* The record between two marks, as IpsRecord reads it.
IpsRead(cells, a, b, end) ==
  \E offset \in Nat, run \in Seq(Bytes) :
    /\ Len(run) > 0 /\ offset + Len(run) <= end
    /\ b.target = P!Overlay(a.target, offset, run)
    /\ P!Cell(cells, a.at) = offset /\ a.at < Len(cells)
    /\ \/ /\ P!Cell(cells, a.at + 1) = Len(run) /\ b.at = a.at + 2 + Len(run)
          /\ b.at <= Len(cells) /\ P!At(cells, a.at + 2, Len(run)) = run
       \/ /\ P!Cell(cells, a.at + 1) = 0 /\ b.at = a.at + 4 /\ b.at <= Len(cells)
          /\ [j \in 1 .. P!Cell(cells, a.at + 2) |-> P!Cell(cells, a.at + 3)] = run

LEMMA IpsStepRead ==
  ASSUME NEW cells \in Seq(Int), NEW a \in MarkSet, NEW b \in MarkSet, NEW end \in Nat,
         IpsStep(cells, a, b, end)
  PROVE  IpsRead(cells, a, b, end)
<1> DEFINE p == a.at
           q == b.at
           l == Len(cells)
<1>1. PICK offset \in Nat, run \in Seq(Bytes) :
        /\ Len(run) > 0 /\ offset + Len(run) <= end
        /\ b.target = P!Overlay(a.target, offset, run)
        /\ q <= l /\ P!Cell(cells, p) = offset
        /\ \/ /\ q = p + 2 + Len(run) /\ P!Cell(cells, p + 1) = Len(run)
              /\ \A j \in 1 .. Len(run) : run[j] = cells[p + 2 + j]
           \/ /\ q = p + 4 /\ P!Cell(cells, p + 1) = 0 /\ P!Cell(cells, p + 2) = Len(run)
              /\ \A j \in 1 .. Len(run) : run[j] = P!Cell(cells, p + 3)
  BY DEF IpsStep
<1> DEFINE n == Len(run)
<1>2. p \in Nat /\ q \in Nat /\ l \in Nat /\ n \in Nat /\ n > 0 /\ q <= l
  BY <1>1 DEF MarkSet
<1>3. q = p + 2 + n \/ q = p + 4
  BY <1>1
<1>4. run \in Seq(Int)
  <2>1. run \in Seq(Nat)
    BY NotNone
  <2>2. \A j \in 1 .. n : run[j] \in Int
    BY <2>1
  <2> QED BY <2>2
<1> HIDE DEF p, q, l, n
<1>5. p < l
  BY <1>2, <1>3
<1>6. CASE /\ q = p + 2 + n /\ P!Cell(cells, p + 1) = n
           /\ \A j \in 1 .. n : run[j] = cells[p + 2 + j]
  <2>1. p + 2 \in Nat /\ (p + 2) + n <= l
    BY <1>2, <1>6
  <2>2. /\ P!At(cells, p + 2, n) \in Seq(Int) /\ Len(P!At(cells, p + 2, n)) = n
        /\ \A j \in 1 .. n : P!At(cells, p + 2, n)[j] = cells[p + 2 + j]
    <3> DEFINE o == p + 2
    <3>1. o \in Nat /\ o + n <= Len(cells)
      BY <2>1 DEF l
    <3> HIDE DEF o
    <3>2. /\ P!At(cells, o, n) \in Seq(Int) /\ Len(P!At(cells, o, n)) = n
          /\ \A j \in 1 .. n : P!At(cells, o, n)[j] = cells[o + j]
      BY <1>2, <3>1, AtType
    <3> QED BY <3>2 DEF o
  <2>3. P!At(cells, p + 2, n) = run
    <3> DEFINE at == P!At(cells, p + 2, n)
    <3>1. at \in Seq(Int) /\ Len(at) = Len(run) /\ \A j \in 1 .. Len(at) : at[j] = run[j]
      BY <1>6, <2>2 DEF n
    <3> HIDE DEF at
    <3>2. at = run
      BY <1>4, <3>1, SameSeq
    <3> QED BY <3>2 DEF at
  <2> QED BY <1>1, <1>2, <1>5, <1>6, <2>3 DEF IpsRead, p, q, l, n
<1>7. CASE /\ q = p + 4 /\ P!Cell(cells, p + 1) = 0 /\ P!Cell(cells, p + 2) = n
           /\ \A j \in 1 .. n : run[j] = P!Cell(cells, p + 3)
  <2>1. P!Cell(cells, p + 3) \in Int
    <3>1. p + 3 + 1 \in 1 .. l
      BY <1>2, <1>7
    <3> QED BY <3>1 DEF P!Cell, l
  <2> DEFINE one == [j \in 1 .. n |-> P!Cell(cells, p + 3)]
  <2>2. one \in Seq(Int) /\ Len(one) = n /\ \A j \in 1 .. n : one[j] = P!Cell(cells, p + 3)
    BY <1>2, <2>1
  <2> HIDE DEF one
  <2>3. Len(one) = Len(run) /\ \A j \in 1 .. Len(one) : one[j] = run[j]
    BY <1>7, <2>2 DEF n
  <2>4. one = run
    BY <1>4, <2>2, <2>3, SameSeq
  <2>5. [j \in 1 .. P!Cell(cells, p + 2) |-> P!Cell(cells, p + 3)] = run
    BY <1>7, <2>4 DEF one
  <2> QED BY <1>1, <1>2, <1>5, <1>7, <2>5 DEF IpsRead, p, q, l, n
<1> QED BY <1>1, <1>6, <1>7 DEF n

\* The action between two marks, as BpsAction reads it.
BpsRead(cells, source, a, b, size) ==
  \E n \in Nat \ {0}, run \in Seq(Bytes) :
    LET code == P!Cell(cells, 3 + a.at)
        next == P!Signed(P!Cell(cells, 3 + a.at + 1))
    IN  /\ Len(run) = n /\ Len(a.target) + n <= size /\ b.target = a.target \o run
        /\ a.at < b.at /\ 3 + b.at <= Len(cells) /\ code \div 4 + 1 = n
        /\ \/ /\ code % 4 = 0 /\ run = P!At(source, Len(a.target), n)
              /\ b.at = a.at + 1 /\ b.src = a.src /\ b.dst = a.dst
           \/ /\ code % 4 = 1 /\ run = P!At(cells, 3 + a.at + 1, n)
              /\ b.at = a.at + 1 + n /\ b.src = a.src /\ b.dst = a.dst
           \/ /\ code % 4 = 2 /\ run = P!At(source, a.src + next, n)
              /\ b.at = a.at + 2 /\ b.src = a.src + next + n /\ b.dst = a.dst
           \/ /\ code % 4 = 3 /\ run = P!Repeat(a.target, a.dst + next, n)
              /\ b.at = a.at + 2 /\ b.src = a.src /\ b.dst = a.dst + next + n

LEMMA BpsStepRead ==
  ASSUME NEW cells \in Seq(Nat), NEW source \in Seq(Bytes), NEW a \in MarkSet, NEW b \in MarkSet,
         NEW size \in Nat, BpsStep(cells, 3, source, a, b, size)
  PROVE  BpsRead(cells, source, a, b, size)
<1> DEFINE p == a.at
           l == Len(cells)
           code == P!Cell(cells, 3 + p)
           next == P!Signed(P!Cell(cells, 3 + p + 1))
           t == a.target
<1>1. PICK n \in Nat \ {0} :
        /\ Len(t) + n <= size /\ 3 + b.at <= l
        /\ \/ /\ code = P!Code(0, n) /\ Len(t) + n <= Len(source)
              /\ b = P!Mark(p + 1, t \o P!At(source, Len(t), n), a.src, a.dst)
           \/ /\ code = P!Code(1, n)
              /\ \E run \in Seq(Bytes) :
                   /\ Len(run) = n /\ \A j \in 1 .. n : run[j] = cells[3 + p + 1 + j]
                   /\ b = P!Mark(p + 1 + n, t \o run, a.src, a.dst)
           \/ \E offset \in Nat :
                /\ code = P!Code(2, n) /\ offset + n <= Len(source)
                /\ P!Cell(cells, 3 + p + 1) = P!Step(a.src, offset)
                /\ b = P!Mark(p + 2, t \o P!At(source, offset, n), offset + n, a.dst)
           \/ \E offset \in Nat :
                /\ code = P!Code(3, n) /\ offset < Len(t)
                /\ P!Cell(cells, 3 + p + 1) = P!Step(a.dst, offset)
                /\ b = P!Mark(p + 2, t \o P!Repeat(t, offset, n), a.src, offset + n)
  BY DEF BpsStep
<1>2. p \in Nat /\ l \in Nat /\ t \in Seq(Bytes) /\ Len(t) \in Nat /\ a.src \in Nat /\ a.dst \in Nat
  BY DEF MarkSet
<1>3. \A mode \in 0 .. 3 : P!Code(mode, n) % 4 = mode /\ P!Code(mode, n) \div 4 + 1 = n
  BY CodeRead
<1> DEFINE Read(run) ==
      /\ Len(run) = n /\ Len(t) + n <= size /\ b.target = t \o run
      /\ p < b.at /\ 3 + b.at <= l /\ code \div 4 + 1 = n
      /\ \/ /\ code % 4 = 0 /\ run = P!At(source, Len(t), n)
            /\ b.at = p + 1 /\ b.src = a.src /\ b.dst = a.dst
         \/ /\ code % 4 = 1 /\ run = P!At(cells, 3 + p + 1, n)
            /\ b.at = p + 1 + n /\ b.src = a.src /\ b.dst = a.dst
         \/ /\ code % 4 = 2 /\ run = P!At(source, a.src + next, n)
            /\ b.at = p + 2 /\ b.src = a.src + next + n /\ b.dst = a.dst
         \/ /\ code % 4 = 3 /\ run = P!Repeat(t, a.dst + next, n)
            /\ b.at = p + 2 /\ b.src = a.src /\ b.dst = a.dst + next + n
<1>4. SUFFICES \E run \in Seq(Bytes) : Read(run)
  <2> HIDE DEF Read
  <2>1. PICK run \in Seq(Bytes) : Read(run)
    BY <1>4
  <2> QED BY <2>1 DEF Read, BpsRead
<1> HIDE DEF p, l, code, next, t, Read
<1>5. CASE /\ code = P!Code(0, n) /\ Len(t) + n <= Len(source)
           /\ b = P!Mark(p + 1, t \o P!At(source, Len(t), n), a.src, a.dst)
  <2> DEFINE run == P!At(source, Len(t), n)
  <2>1. run \in Seq(Bytes) /\ Len(run) = n
    BY <1>2, <1>5, AtType
  <2>2. b.target = t \o run /\ b.at = p + 1 /\ b.src = a.src /\ b.dst = a.dst
    BY <1>5 DEF P!Mark
  <2>3. code % 4 = 0 /\ code \div 4 + 1 = n
    BY <1>3, <1>5
  <2> HIDE DEF run
  <2>4. Read(run)
    BY <1>1, <1>2, <2>1, <2>2, <2>3 DEF run, Read
  <2> QED BY <2>1, <2>4
<1>6. ASSUME NEW run \in Seq(Bytes), code = P!Code(1, n),
             Len(run) = n, \A j \in 1 .. n : run[j] = cells[3 + p + 1 + j],
             b = P!Mark(p + 1 + n, t \o run, a.src, a.dst)
      PROVE  Read(run)
  <2>1. b.target = t \o run /\ b.at = p + 1 + n /\ b.src = a.src /\ b.dst = a.dst
    BY <1>6 DEF P!Mark
  <2>2. code % 4 = 1 /\ code \div 4 + 1 = n
    BY <1>3, <1>6
  <2>3. 3 + p + 1 \in Nat /\ (3 + p + 1) + n <= Len(cells)
    BY <1>1, <1>2, <2>1 DEF l
  <2> DEFINE at == P!At(cells, 3 + p + 1, n)
  <2>4. at \in Seq(Nat) /\ Len(at) = n /\ \A j \in 1 .. n : at[j] = cells[3 + p + 1 + j]
    <3> DEFINE o == 3 + p + 1
    <3>1. o \in Nat /\ o + n <= Len(cells)
      BY <2>3
    <3> HIDE DEF o, at
    <3>2. /\ P!At(cells, o, n) \in Seq(Nat) /\ Len(P!At(cells, o, n)) = n
          /\ \A j \in 1 .. n : P!At(cells, o, n)[j] = cells[o + j]
      BY <3>1, AtType
    <3> QED BY <3>2 DEF o, at
  <2> HIDE DEF at
  <2>5. run \in Seq(Nat)
    BY NotNone
  <2>6. Len(at) = Len(run) /\ \A j \in 1 .. Len(at) : at[j] = run[j]
    BY <1>6, <2>4
  <2>7. at = run
    BY <2>4, <2>5, <2>6, SameSeq
  <2>8. run = P!At(cells, 3 + p + 1, n)
    BY <2>7 DEF at
  <2>9. p < b.at
    BY <1>2, <2>1
  <2> QED BY <1>1, <1>6, <2>1, <2>2, <2>8, <2>9 DEF Read
<1>7. ASSUME NEW offset \in Nat, code = P!Code(2, n), offset + n <= Len(source),
             P!Cell(cells, 3 + p + 1) = P!Step(a.src, offset),
             b = P!Mark(p + 2, t \o P!At(source, offset, n), offset + n, a.dst)
      PROVE  \E run \in Seq(Bytes) : Read(run)
  <2> DEFINE run == P!At(source, offset, n)
  <2>1. run \in Seq(Bytes) /\ Len(run) = n
    BY <1>7, AtType
  <2>2. b.target = t \o run /\ b.at = p + 2 /\ b.src = offset + n /\ b.dst = a.dst
    BY <1>7 DEF P!Mark
  <2>3. code % 4 = 2 /\ code \div 4 + 1 = n
    BY <1>3, <1>7
  <2>4. a.src + next = offset
    <3>1. a.src + P!Signed(P!Step(a.src, offset)) = offset
      BY <1>2, SignedStep
    <3>2. next = P!Signed(P!Step(a.src, offset))
      BY <1>7 DEF next
    <3> QED BY <3>1, <3>2
  <2>5. run = P!At(source, a.src + next, n) /\ b.src = a.src + next + n
    BY <2>2, <2>4
  <2> HIDE DEF run
  <2>6. Read(run)
    BY <1>1, <1>2, <2>1, <2>2, <2>3, <2>5 DEF Read
  <2> QED BY <2>1, <2>6
<1>8. ASSUME NEW offset \in Nat, code = P!Code(3, n), offset < Len(t),
             P!Cell(cells, 3 + p + 1) = P!Step(a.dst, offset),
             b = P!Mark(p + 2, t \o P!Repeat(t, offset, n), a.src, offset + n)
      PROVE  \E run \in Seq(Bytes) : Read(run)
  <2> DEFINE run == P!Repeat(t, offset, n)
  <2>1. run \in Seq(Bytes) /\ Len(run) = n
    BY <1>2, <1>8, RepeatType
  <2>2. b.target = t \o run /\ b.at = p + 2 /\ b.src = a.src /\ b.dst = offset + n
    BY <1>8 DEF P!Mark
  <2>3. code % 4 = 3 /\ code \div 4 + 1 = n
    BY <1>3, <1>8
  <2>4. a.dst + next = offset
    <3>1. a.dst + P!Signed(P!Step(a.dst, offset)) = offset
      BY <1>2, SignedStep
    <3>2. next = P!Signed(P!Step(a.dst, offset))
      BY <1>8 DEF next
    <3> QED BY <3>1, <3>2
  <2>5. run = P!Repeat(t, a.dst + next, n) /\ b.dst = a.dst + next + n
    BY <2>2, <2>4
  <2> HIDE DEF run
  <2>6. Read(run)
    BY <1>1, <1>2, <2>1, <2>2, <2>3, <2>5 DEF Read
  <2> QED BY <2>1, <2>6
<1>9. \/ /\ code = P!Code(0, n) /\ Len(t) + n <= Len(source)
         /\ b = P!Mark(p + 1, t \o P!At(source, Len(t), n), a.src, a.dst)
      \/ /\ code = P!Code(1, n)
         /\ \E run \in Seq(Bytes) :
              /\ Len(run) = n /\ \A j \in 1 .. n : run[j] = cells[3 + p + 1 + j]
              /\ b = P!Mark(p + 1 + n, t \o run, a.src, a.dst)
      \/ \E offset \in Nat :
           /\ code = P!Code(2, n) /\ offset + n <= Len(source)
           /\ P!Cell(cells, 3 + p + 1) = P!Step(a.src, offset)
           /\ b = P!Mark(p + 2, t \o P!At(source, offset, n), offset + n, a.dst)
      \/ \E offset \in Nat :
           /\ code = P!Code(3, n) /\ offset < Len(t)
           /\ P!Cell(cells, 3 + p + 1) = P!Step(a.dst, offset)
           /\ b = P!Mark(p + 2, t \o P!Repeat(t, offset, n), a.src, offset + n)
  BY <1>1
<1> QED BY <1>5, <1>6, <1>7, <1>8, <1>9
------------------------------------------------------------------------------
(* content_patch.                                                           *)

\* Where the program is while it applies a patch.
LEMMA Here ==
  ASSUME DraftInv, PatchesInv, ReaderInv, pass \in {"size", "write"}
  PROVE  /\ draft = None /\ k \in 1 .. Len(patches) /\ patches[k] \in IpsSet \cup BpsSet
         /\ patches[k].target \in Seq(Bytes) /\ Len(patches[k].target) \in Nat \ {0}
         /\ in = SourceOf(k) /\ in \in Seq(Bytes) /\ i \in Nat /\ out_size \in Nat
         /\ SourceOf(k + 1) = patches[k].target
         /\ Sound(k) => Good(patches[k], k)
         /\ ~Sound(k) => Broken(patches[k], k) /\ intended = None
         /\ patches[k].format = "IPS" => patches[k].cells \in Seq(Int)
         /\ patches[k].format = "BPS" => patches[k].cells \in Seq(Nat) /\ Len(patches[k].cells) >= 3
         /\ patches[k].marks \in Seq(MarkSet) /\ patches[k].source \in Seq(Bytes)
<1>1. k \in 1 .. Len(patches) /\ Len(patches) \in Nat
  BY DEF ReaderInv, PatchesInv
<1>2. /\ patches[k] \in IpsSet \cup BpsSet /\ Len(patches[k].target) > 0
      /\ patches[k].format = "BPS" => Len(patches[k].cells) >= 3
      /\ Sound(k) => Good(patches[k], k)
      /\ ~Sound(k) => Broken(patches[k], k)
  BY <1>1 DEF PatchesInv
<1>3. /\ patches[k].target \in Seq(Bytes) /\ patches[k].marks \in Seq(MarkSet)
      /\ patches[k].source \in Seq(Bytes)
      /\ patches[k].format = "IPS" => patches[k].cells \in Seq(Int)
      /\ patches[k].format = "BPS" => patches[k].cells \in Seq(Nat)
  BY <1>2 DEF IpsSet, BpsSet
<1>4. Len(patches[k].target) \in Nat \ {0}
  BY <1>2, <1>3
<1>5. in = SourceOf(k) /\ i \in Nat /\ out_size \in Nat /\ draft = None
  BY DEF ReaderInv, DraftInv
<1>6. SourceOf(k) \in Seq(Bytes)
  <2>1. k \in 1 .. Len(patches) + 1
    BY <1>1
  <2> QED BY <2>1, SourceType
<1>7. SourceOf(k + 1) = patches[k].target
  <2>1. k + 1 # 1 /\ (k + 1) - 1 = k
    BY <1>1
  <2> QED BY <2>1 DEF SourceOf
<1>8. ~Sound(k) => intended = None
  BY DEF Sound
<1> QED BY <1>1, <1>2, <1>3, <1>4, <1>5, <1>6, <1>7, <1>8

\* No step of the program touches the patches.
LEMMA AuthorsKept ==
  ASSUME DraftInv, PatchesInv, draft = None, UNCHANGED P!author
  PROVE  /\ DraftInv' /\ PatchesInv' /\ UNCHANGED <<dump, patches, draft, intended>>
         /\ \A j : SourceOf(j)' = SourceOf(j) /\ (Sound(j)' <=> Sound(j))
<1>1. UNCHANGED <<dump, patches, draft, intended>>
  BY DEF P!author
<1>2. DraftInv'
  BY <1>1 DEF DraftInv
<1>3. \A j : SourceOf(j)' = SourceOf(j) /\ (Sound(j)' <=> Sound(j))
  BY <1>1 DEF SourceOf, Sound
<1>4. PatchesInv'
  BY <1>1 DEF PatchesInv, Sound, Good, Broken, SourceOf
<1> QED BY <1>1, <1>2, <1>3, <1>4

LEMMA GiveKeeps ==
  ASSUME DraftInv, PatchesInv, draft = None,
         NEW data, data = (IF intended = None THEN dump ELSE intended), P!Give(data)
  PROVE  PatchIInv'
<1>1. pass' = "done" /\ given' = data /\ UNCHANGED P!author
  BY DEF P!Give
<1>2. DraftInv' /\ PatchesInv' /\ UNCHANGED <<dump, intended>>
  BY <1>1, AuthorsKept
<1>3. ReaderInv'
  BY <1>1 DEF ReaderInv
<1>4. P!PatchedAsMeant'
  BY <1>1, <1>2 DEF P!PatchedAsMeant
<1> QED BY <1>2, <1>3, <1>4 DEF PatchIInv

\* Only a patch that is no good fails.
LEMMA FailKeeps ==
  ASSUME DraftInv, PatchesInv, ReaderInv, pass \in {"size", "write"}, ~Sound(k), P!Fail
  PROVE  PatchIInv'
<1>1. draft = None /\ intended = None
  BY Here
<1>2. P!Give(dump)
  BY DEF P!Fail
<1> QED BY <1>1, <1>2, GiveKeeps

\* A step in a patch, to a place that one of its marks tells if the patch is good.
LEMMA StepKeeps ==
  ASSUME DraftInv, PatchesInv, ReaderInv, pass \in {"size", "write"},
         UNCHANGED P!author, in' = in, k' = k, i' \in Nat, out_size' \in Nat,
         pass' \in {"size", "write"}, pass' = "size" => patches[k].format = "IPS",
         Sound(k) => \E m \in 1 .. Len(patches[k].marks) :
                       IF patches[k].format = "IPS" THEN IpsAtMark(m)' ELSE BpsAtMark(m)'
  PROVE  PatchIInv'
<1>1. k \in 1 .. Len(patches) /\ draft = None /\ in = SourceOf(k)
  BY Here
<1>2. /\ DraftInv' /\ PatchesInv' /\ UNCHANGED <<dump, patches, draft, intended>>
      /\ \A j : SourceOf(j)' = SourceOf(j) /\ (Sound(j)' <=> Sound(j))
  BY <1>1, AuthorsKept
<1>3. in' = SourceOf(k)' /\ (Sound(k)' <=> Sound(k))
  BY <1>1, <1>2 DEF SourceOf, Sound
<1>4. ReaderInv'
  <2>1. k' \in 0 .. Len(patches') /\ k' > 0
    BY <1>1, <1>2
  <2>2. pass' = "size" /\ Sound(k)' /\ patches'[k'].format = "IPS" =>
          \E m \in 1 .. Len(patches'[k'].marks) : IpsAtMark(m)'
    BY <1>2, <1>3
  <2>3. pass' = "write" /\ Sound(k)' =>
          \E m \in 1 .. Len(patches'[k'].marks) :
             IF patches'[k'].format = "IPS" THEN IpsAtMark(m)' ELSE BpsAtMark(m)'
    BY <1>2, <1>3
  <2>4. pass' = "size" => patches'[k'].format = "IPS"
    BY <1>2
  <2> QED BY <1>3, <2>1, <2>2, <2>3, <2>4 DEF ReaderInv
<1>5. P!PatchedAsMeant'
  BY DEF P!PatchedAsMeant
<1> QED BY <1>2, <1>4, <1>5 DEF PatchIInv

LEMMA LoadKeeps ==
  ASSUME DraftInv, PatchesInv, ReaderInv, P!Load
  PROVE  PatchIInv'
<1>1. /\ pass = "author" /\ draft = None /\ pass' = "file" /\ UNCHANGED P!author
      /\ UNCHANGED <<in, out, out_size, i, P!bps, k, given>>
  BY DEF P!Load
<1>2. /\ DraftInv' /\ PatchesInv' /\ UNCHANGED <<dump, patches, draft, intended>>
  BY <1>1, AuthorsKept
<1>3. ReaderInv'
  BY <1>1, <1>2 DEF ReaderInv, SourceOf, Sound
<1>4. P!PatchedAsMeant'
  BY <1>1 DEF P!PatchedAsMeant
<1> QED BY <1>2, <1>3, <1>4 DEF PatchIInv

\* Before the first record, the result is the source.
LEMMA FirstMark ==
  ASSUME NEW p, NEW j, Good(p, j), p.marks \in Seq(MarkSet)
  PROVE  /\ 1 \in 1 .. Len(p.marks)
         /\ p.marks[1] = P!Mark(0, IF p.format = "IPS" THEN SourceOf(j) ELSE <<>>, 0, 0)
<1>1. CASE p.format = "IPS"
  <2>1. IpsMarks(p.cells, p.marks, p.source, Len(p.target)) /\ p.source = SourceOf(j)
    BY <1>1 DEF Good, MadeIps
  <2> QED BY <1>1, <2>1 DEF IpsMarks
<1>2. CASE p.format # "IPS"
  <2>1. BpsMarks(p.cells, 3, p.source, p.marks, Len(p.target))
    BY <1>2 DEF Good, MadeBps
  <2> QED BY <1>2, <2>1 DEF BpsMarks
<1> QED BY <1>1, <1>2

LEMMA NextFileKeeps ==
  ASSUME DraftInv, PatchesInv, ReaderInv, P!NextFile
  PROVE  PatchIInv'
<1>1. /\ pass = "file" /\ k \in 0 .. Len(patches) /\ Len(patches) \in Nat /\ draft = None
      /\ in = SourceOf(k + 1) /\ out_size <= Len(in) /\ (k > 0 => Sound(k)) /\ out_size \in Nat
  BY DEF P!NextFile, ReaderInv, PatchesInv, DraftInv
<1>2. CASE k = Len(patches)
  <2>1. intended # None
    BY <1>1, <1>2 DEF PatchesInv, Sound
  <2>2. in = intended
    BY <1>1, <1>2, <2>1 DEF PatchesInv
  <2>3. P!Give(in)
    BY <1>2 DEF P!NextFile
  <2> QED BY <1>1, <2>1, <2>2, <2>3, GiveKeeps
<1>3. CASE k # Len(patches)
  <2>1. /\ pass' = "size" /\ k' = k + 1 /\ i' = 0 /\ UNCHANGED P!author
        /\ UNCHANGED <<in, out, out_size, P!bps, given>>
    BY <1>3 DEF P!NextFile
  <2>2. /\ DraftInv' /\ PatchesInv' /\ UNCHANGED <<dump, patches, draft, intended>>
    BY <1>1, <2>1, AuthorsKept
  <2>p. PICK n \in 1 .. Len(patches), p \in IpsSet \cup BpsSet : n = k + 1 /\ p = patches[n]
    <3>1. k + 1 \in 1 .. Len(patches)
      BY <1>1, <1>3
    <3> QED BY <3>1 DEF PatchesInv
  <2>3. in = SourceOf(n) /\ in' = SourceOf(n)' /\ k' = n /\ patches'[n] = p
    BY <1>1, <2>1, <2>2, <2>p DEF SourceOf
  <2>4. Sound(n)' => Good(p, n)
    BY <2>2, <2>p DEF PatchesInv, Sound
  <2>5. ASSUME Sound(n)', p.format = "IPS"
        PROVE  \E m \in 1 .. Len(p.marks) : IpsAtMark(m)'
    <3>1. p.marks \in Seq(MarkSet)
      BY DEF IpsSet, BpsSet
    <3>2. 1 \in 1 .. Len(p.marks) /\ p.marks[1] = P!Mark(0, in, 0, 0)
      BY <2>3, <2>4, <2>5, <3>1, FirstMark
    <3>3. p.marks[1].at = 0 /\ p.marks[1].target = in
      BY <3>2 DEF P!Mark
    <3>4. P!AtLeast(out_size, Len(in)) = Len(in)
      BY <1>1 DEF P!AtLeast
    <3>5. patches'[k'] = p
      BY <2>3
    <3>6. IpsAtMark(1)'
      BY <2>1, <3>3, <3>4, <3>5 DEF IpsAtMark
    <3> QED BY <3>2, <3>6
  <2>6. ReaderInv'
    <3>1. k' \in 0 .. Len(patches') /\ k' > 0 /\ patches'[k'] = p
      BY <1>1, <2>2, <2>3, <2>p
    <3>2. in' = SourceOf(k)'
      BY <2>3 DEF SourceOf
    <3>3. Sound(k)' => Sound(n)'
      BY <2>3 DEF Sound
    <3>4. pass' = "size" /\ Sound(k)' /\ patches'[k'].format = "IPS" =>
            \E m \in 1 .. Len(patches'[k'].marks) : IpsAtMark(m)'
      BY <2>5, <3>1, <3>3
    <3> QED BY <1>1, <2>1, <3>1, <3>2, <3>4 DEF ReaderInv
  <2>7. P!PatchedAsMeant'
    BY <2>1 DEF P!PatchedAsMeant
  <2> QED BY <2>2, <2>6, <2>7 DEF PatchIInv
<1> QED BY <1>2, <1>3

\* The room for the result has the source's bytes, as many as fit.
LEMMA ZerosOfPart ==
  ASSUME NEW s \in Seq(Bytes), NEW n \in Nat
  PROVE  P!Zeros(P!At(s, 0, P!AtMost(Len(s), n)), n) = P!Zeros(s, n)
<1> DEFINE c == P!AtMost(Len(s), n)
           a == P!At(s, 0, c)
<1>1. c \in Nat /\ c <= n /\ 0 + c <= Len(s) /\ (c = n \/ c = Len(s)) /\ Len(s) \in Nat
  BY DEF P!AtMost
<1> HIDE DEF c
<1>2. a \in Seq(Bytes) /\ Len(a) = c /\ \A j \in 1 .. c : a[j] = s[0 + j]
  BY <1>1 DEF P!At
<1> HIDE DEF a
<1> DEFINE y == P!Zeros(a, n)
           z == P!Zeros(s, n)
<1>3. /\ y \in Seq(Bytes) /\ Len(y) = n
      /\ \A j \in 1 .. n : y[j] = IF j <= Len(a) THEN a[j] ELSE 0
  BY <1>2, ZerosType
<1>4. /\ z \in Seq(Bytes) /\ Len(z) = n
      /\ \A j \in 1 .. n : z[j] = IF j <= Len(s) THEN s[j] ELSE 0
  BY ZerosType
<1> HIDE DEF y, z
<1>5. ASSUME NEW j \in 1 .. n
      PROVE  y[j] = z[j]
  BY <1>1, <1>2, <1>3, <1>4
<1>6. y = z
  BY <1>3, <1>4, <1>5, SameSeq
<1> QED BY <1>6 DEF y, z, a, c

\* The second pass starts before the first record.
LEMMA AllocateKeeps ==
  ASSUME DraftInv, PatchesInv, ReaderInv, pass = "size",
         NEW size \in Nat, Sound(k) => size = Len(patches[k].target), P!Allocate(size)
  PROVE  PatchIInv'
<1>p. PICK p : p = patches[k]
  OBVIOUS
<1>1. /\ draft = None /\ k \in 1 .. Len(patches) /\ p.target \in Seq(Bytes)
      /\ Len(p.target) \in Nat \ {0} /\ in = SourceOf(k) /\ in \in Seq(Bytes)
      /\ (Sound(k) => Good(p, k)) /\ p.marks \in Seq(MarkSet)
  BY <1>p, Here
<1>2. CASE size = 0
  <2>1. ~Sound(k) /\ P!Fail
    BY <1>p, <1>1, <1>2 DEF P!Allocate
  <2> QED BY <2>1, FailKeeps
<1>3. CASE size # 0
  <2>1. /\ pass' = "write" /\ i' = 0 /\ out_size' = size
        /\ out' = P!Zeros(P!At(in, 0, P!AtMost(Len(in), size)), size)
        /\ written' = 0 /\ src_rel_offset' = 0 /\ dst_rel_offset' = 0
        /\ UNCHANGED <<P!author, in, k, given>>
    BY <1>3 DEF P!Allocate
  <2>2. out' = P!Zeros(in, size) /\ P!Zeros(in, size) \in Seq(Bytes) /\ Len(P!Zeros(in, size)) = size
    BY <1>1, <2>1, ZerosOfPart, ZerosType
  <2>3. patches'[k'] = p /\ UNCHANGED P!author
    BY <1>p, <2>1 DEF P!author
  <2>4. ASSUME Sound(k)
        PROVE  \E m \in 1 .. Len(p.marks) :
                 IF p.format = "IPS" THEN IpsAtMark(m)' ELSE BpsAtMark(m)'
    <3>1. /\ 1 \in 1 .. Len(p.marks)
          /\ p.marks[1] = P!Mark(0, IF p.format = "IPS" THEN in ELSE <<>>, 0, 0)
      BY <1>1, <2>4, FirstMark
    <3>2. /\ p.marks[1].at = 0 /\ p.marks[1].target = (IF p.format = "IPS" THEN in ELSE <<>>)
          /\ p.marks[1].src = 0 /\ p.marks[1].dst = 0
      BY <3>1 DEF P!Mark
    <3>3. size = Len(p.target)
      BY <1>p, <2>4
    <3>4. p.format = "IPS" => IpsAtMark(1)'
      BY <2>1, <2>2, <2>3, <3>2, <3>3 DEF IpsAtMark
    <3>5. P!AtLeast(0, 3) = 3 + 0 /\ Len(<<>>) = 0
      BY DEF P!AtLeast
    <3>6. P!At(out', 0, 0) = <<>>
      BY <2>2 DEF P!At
    <3>7. p.format # "IPS" => BpsAtMark(1)'
      BY <2>1, <2>2, <2>3, <3>2, <3>3, <3>5, <3>6 DEF BpsAtMark
    <3> QED BY <3>1, <3>4, <3>7
  <2>5. i' \in Nat /\ out_size' \in Nat
    BY <2>1
  <2> QED BY <1>p, <2>1, <2>3, <2>4, <2>5, StepKeeps
<1> QED BY <1>2, <1>3
------------------------------------------------------------------------------
(* patch_ips.                                                               *)

\* An IPS patch that is no good has no EOF.
LEMMA NoEOF ==
  ASSUME DraftInv, PatchesInv, ReaderInv, pass \in {"size", "write"}, P!Ips, ~Sound(k)
  PROVE  ~P!AtEOF /\ ~P!Truncates /\ patches[k].cells \in Seq(Nat)
<1>1. patches[k].cells \in Seq(Nat) /\ i \in Nat
  BY Here DEF P!Ips, P!Current, Broken
<1> DEFINE c == patches[k].cells
           l == Len(c)
<1>2. \A j \in 1 .. l : c[j] # P!EOF
  BY <1>1 DEF P!EOF
<1>3. l \in Nat
  BY <1>1
<1> HIDE DEF c, l
<1>4. i < l => c[i + 1] # P!EOF
  BY <1>1, <1>2, <1>3
<1>5. l >= 2 => c[l - 2 + 1] # P!EOF
  BY <1>2, <1>3
<1> QED BY <1>1, <1>4, <1>5 DEF P!AtEOF, P!Truncates, P!Size, P!Current, P!Cell, c, l

\* Where the program is in a good IPS patch.
LEMMA IpsHere ==
  ASSUME DraftInv, PatchesInv, ReaderInv, pass \in {"size", "write"}, P!Ips, Sound(k)
  PROVE  /\ MadeIps(patches[k]) /\ patches[k].source = in
         /\ patches[k].marks[Len(patches[k].marks)] \in MarkSet /\ Len(patches[k].marks) > 0
         /\ \E m \in 1 .. Len(patches[k].marks) : IpsAtMark(m)
<1>1. patches[k].format = "IPS"
  BY DEF P!Ips, P!Current
<1>2. MadeIps(patches[k]) /\ patches[k].source = in
  BY <1>1, Here DEF Good
<1>3. patches[k].marks \in Seq(MarkSet) /\ Len(patches[k].marks) > 0
  BY <1>2 DEF MadeIps, IpsMarks
<1> QED BY <1>1, <1>2, <1>3 DEF ReaderInv

\* The patch is at EOF behind its last record, and before that at a record.
LEMMA IpsAhead ==
  ASSUME DraftInv, PatchesInv, ReaderInv, pass \in {"size", "write"}, P!Ips, Sound(k),
         NEW m \in 1 .. Len(patches[k].marks), IpsAtMark(m)
  PROVE  /\ m = Len(patches[k].marks) => P!AtEOF
         /\ m < Len(patches[k].marks) =>
              /\ m + 1 \in 1 .. Len(patches[k].marks)
              /\ patches[k].marks[m] \in MarkSet /\ patches[k].marks[m + 1] \in MarkSet
              /\ IpsStep(patches[k].cells, patches[k].marks[m], patches[k].marks[m + 1],
                         Len(patches[k].target))
              /\ ~P!AtEOF /\ P!RecordFits
<1>p. PICK p : p = patches[k]
  OBVIOUS
<1> DEFINE l == Len(p.marks)
           c == p.cells
<1>1. MadeIps(p) /\ p.marks \in Seq(MarkSet) /\ c \in Seq(Int) /\ p.marks[l] \in MarkSet /\ l > 0
      /\ Len(p.target) \in Nat /\ i \in Nat
  BY <1>p, IpsHere, Here DEF P!Ips, P!Current
<1>2. i = p.marks[m].at
  BY <1>p DEF IpsAtMark
<1>3. /\ c[p.marks[l].at + 1] = P!EOF
      /\ Len(c) = p.marks[l].at + 1 \/ Len(c) = p.marks[l].at + 2
      /\ \A n \in 1 .. l - 1 : IpsStep(c, p.marks[n], p.marks[n + 1], Len(p.target))
  BY <1>1 DEF MadeIps, IpsMarks
<1>4. ASSUME m = l
      PROVE  P!AtEOF
  <2>1. i < Len(c) /\ c[i + 1] = P!EOF
    BY <1>1, <1>2, <1>3, <1>4
  <2> QED BY <1>p, <2>1 DEF P!AtEOF, P!Size, P!Current, P!Cell
<1>5. ASSUME m < l
      PROVE  /\ m + 1 \in 1 .. l /\ p.marks[m] \in MarkSet /\ p.marks[m + 1] \in MarkSet
             /\ IpsStep(c, p.marks[m], p.marks[m + 1], Len(p.target))
             /\ ~P!AtEOF /\ P!RecordFits
  <2>1. m \in 1 .. l - 1 /\ m + 1 \in 1 .. l /\ m \in 1 .. l
    BY <1>p, <1>1, <1>5
  <2>2. /\ p.marks[m] \in MarkSet /\ p.marks[m + 1] \in MarkSet
        /\ IpsStep(c, p.marks[m], p.marks[m + 1], Len(p.target))
    BY <1>1, <1>3, <2>1
  <2> DEFINE a == p.marks[m]
             b == p.marks[m + 1]
  <2>3. a \in MarkSet /\ b \in MarkSet /\ IpsStep(c, a, b, Len(p.target)) /\ Len(p.target) \in Nat
        /\ i = a.at
    BY <1>1, <1>2, <2>2
  <2> HIDE DEF a, b, c, l
  <2>4. PICK offset \in Nat, run \in Seq(Bytes) :
          /\ Len(run) > 0 /\ P!Cell(c, a.at) = offset /\ a.at < Len(c)
          /\ \/ P!Cell(c, a.at + 1) = Len(run) /\ b.at = a.at + 2 + Len(run) /\ b.at <= Len(c)
             \/ P!Cell(c, a.at + 1) = 0 /\ b.at = a.at + 4 /\ b.at <= Len(c)
    <3>1. IpsRead(c, a, b, Len(p.target))
      BY <1>1, <2>3, IpsStepRead, Zenon
    <3> QED BY <3>1 DEF IpsRead
  <2>5. ~P!AtEOF
    BY <1>p, <2>3, <2>4 DEF P!AtEOF, P!Current, P!EOF, c
  <2>6. P!RecordFits
    <3> DEFINE n == P!Cell(c, i + 1)
               z == Len(c)
    <3>1. /\ n \in Nat /\ z \in Nat
          /\ n > 0 => i + 2 + n <= z
          /\ n = 0 => i + 4 <= z
      <4>1. \/ n = Len(run) /\ b.at = i + 2 + Len(run) /\ b.at <= z
            \/ n = 0 /\ b.at = i + 4 /\ b.at <= z
        BY <2>3, <2>4
      <4>2. Len(run) \in Nat \ {0} /\ z \in Nat
        BY <1>1, <2>4 DEF c
      <4> DEFINE y == Len(run)
                 q == b.at
      <4> HIDE DEF n, z, y, q
      <4> QED BY <4>1, <4>2 DEF y, q
    <3>2. i + 2 <= z
      <4> HIDE DEF n, z
      <4> QED BY <1>1, <3>1
    <3>3. IF n > 0 THEN i + 2 + n <= z ELSE i + 4 <= z
      <4> HIDE DEF n, z
      <4> QED BY <3>1
    <3> QED BY <1>p, <3>2, <3>3 DEF P!RecordFits, P!Size, P!Current, c
  <2> QED BY <2>1, <2>2, <2>5, <2>6 DEF c
<1> QED BY <1>p, <1>4, <1>5

LEMMA SizeTruncatedKeeps ==
  ASSUME DraftInv, PatchesInv, ReaderInv, P!SizeTruncated
  PROVE  PatchIInv'
<1>1. pass = "size" /\ P!Ips /\ P!Truncates /\ P!Allocate(P!Cell(P!Current.cells, P!Size - 1))
  BY DEF P!SizeTruncated
<1>2. Sound(k)
  BY <1>1, NoEOF
<1>p. PICK p : p = patches[k]
  OBVIOUS
<1>3. /\ MadeIps(p) /\ p.marks[Len(p.marks)] \in MarkSet /\ p.cells \in Seq(Int)
      /\ Len(p.target) \in Nat
  BY <1>p, <1>1, <1>2, IpsHere, Here DEF P!Ips, P!Current
<1> DEFINE c == p.cells
           l == p.marks[Len(p.marks)].at
           z == Len(c)
<1>4. /\ l \in Nat /\ z \in Nat /\ z >= 2 /\ c[z - 2 + 1] = P!EOF
      /\ l > 0 => c[l] # P!EOF
      /\ z = l + 1 \/ (z = l + 2 /\ c[l + 2] = Len(p.target))
  BY <1>p, <1>1, <1>3 DEF MadeIps, MarkSet, P!Truncates, P!Size, P!Current, P!Cell
<1>5. c[z - 1 + 1] = Len(p.target)
  <2> HIDE DEF c, l, z
  <2>1. CASE z = l + 1
    <3>1. z - 2 + 1 = l /\ l > 0
      BY <1>4, <2>1
    <3> QED BY <1>4, <3>1
  <2>2. CASE z = l + 2 /\ c[l + 2] = Len(p.target)
    <3>1. z - 1 + 1 = l + 2
      BY <1>4, <2>2
    <3> QED BY <2>2, <3>1
  <2> QED BY <1>4, <2>1, <2>2
<1>6. P!Allocate(Len(p.target))
  BY <1>p, <1>1, <1>5 DEF P!Cell, P!Size, P!Current
<1> QED BY <1>p, <1>1, <1>3, <1>6, AllocateKeeps

LEMMA IpsFailsKeeps ==
  ASSUME DraftInv, PatchesInv, ReaderInv, P!IpsFails
  PROVE  PatchIInv'
<1>1. pass \in {"size", "write"} /\ P!Ips /\ ~P!AtEOF /\ ~P!RecordFits /\ P!Fail
  BY DEF P!IpsFails
<1>2. ASSUME Sound(k)
      PROVE  FALSE
  <2>1. PICK m \in 1 .. Len(patches[k].marks) : IpsAtMark(m)
    BY <1>1, <1>2, IpsHere
  <2>2. patches[k].marks \in Seq(MarkSet)
    BY <1>1, Here
  <2>3. m = Len(patches[k].marks) \/ m < Len(patches[k].marks)
    BY <2>2
  <2> QED BY <1>1, <1>2, <2>1, <2>3, IpsAhead
<1> QED BY <1>1, <1>2, FailKeeps

\* The result of a good patch is the source of the next.
LEMMA AppliedKeeps ==
  ASSUME DraftInv, PatchesInv, ReaderInv, pass = "write", Sound(k), P!Applied,
         out = patches[k].target, out_size = Len(out)
  PROVE  PatchIInv'
<1>1. /\ pass' = "file" /\ in' = out /\ UNCHANGED P!author
      /\ UNCHANGED <<out_size, i, P!bps, k, given>>
  BY DEF P!Applied
<1>2. /\ draft = None /\ k \in 1 .. Len(patches) /\ SourceOf(k + 1) = out
      /\ i \in Nat /\ out_size \in Nat /\ Len(patches) \in Nat
  BY Here DEF PatchesInv
<1>3. /\ DraftInv' /\ PatchesInv' /\ UNCHANGED <<dump, patches, draft, intended>>
  BY <1>1, <1>2, AuthorsKept
<1>4. ReaderInv'
  <2>1. in' = SourceOf(k + 1)'
    BY <1>1, <1>2, <1>3 DEF SourceOf
  <2>2. Sound(k)' /\ k' \in 0 .. Len(patches')
    BY <1>1, <1>2, <1>3 DEF Sound
  <2>3. out_size' <= Len(in') /\ i' \in Nat /\ out_size' \in Nat
    BY <1>1, <1>2
  <2> QED BY <1>1, <2>1, <2>2, <2>3 DEF ReaderInv
<1>5. P!PatchedAsMeant'
  BY <1>1 DEF P!PatchedAsMeant
<1> QED BY <1>3, <1>4, <1>5 DEF PatchIInv

LEMMA IpsEndsKeeps ==
  ASSUME DraftInv, PatchesInv, ReaderInv, P!IpsEnds
  PROVE  PatchIInv'
<1>1. /\ P!Ips /\ P!AtEOF /\ pass \in {"size", "write"}
      /\ \/ pass = "size" /\ ~P!Truncates /\ P!Allocate(P!AtLeast(out_size, Len(in)))
         \/ pass = "write" /\ P!Applied
  BY DEF P!IpsEnds
<1>2. Sound(k)
  BY <1>1, NoEOF
<1>p. PICK p : p = patches[k]
  OBVIOUS
<1>3. PICK m \in 1 .. Len(p.marks) : IpsAtMark(m)
  BY <1>p, <1>1, <1>2, IpsHere
<1>4. p.marks \in Seq(MarkSet) /\ MadeIps(p) /\ p.cells \in Seq(Int) /\ Len(p.target) \in Nat
  BY <1>p, <1>1, <1>2, Here, IpsHere DEF P!Ips, P!Current
<1> DEFINE last == p.marks[Len(p.marks)]
           z == Len(p.cells)
<1>5. m = Len(p.marks)
  <2>1. m = Len(p.marks) \/ m < Len(p.marks)
    BY <1>4
  <2> QED BY <1>p, <1>1, <1>2, <1>3, <2>1, IpsAhead
<1>6. /\ last.at \in Nat /\ last.target \in Seq(Bytes) /\ p.cells[last.at + 1] = P!EOF
      /\ \/ z = last.at + 1 /\ p.target = last.target
         \/ z = last.at + 2 /\ p.target = P!Zeros(last.target, Len(p.target))
      /\ z \in Nat
  <2>1. last \in MarkSet
    BY <1>4, <1>5
  <2>2. last.at \in Nat /\ last.target \in Seq(Bytes) /\ z \in Nat
    <3>1. z \in Nat
      BY <1>4
    <3> HIDE DEF last, z
    <3> QED BY <2>1, <3>1 DEF MarkSet
  <2>3. /\ p.cells[last.at + 1] = P!EOF
        /\ \/ z = last.at + 1 /\ p.target = last.target
           \/ z = last.at + 2 /\ p.target = P!Zeros(last.target, Len(p.target))
    BY <1>4 DEF MadeIps
  <2> QED BY <2>2, <2>3
<1>7. CASE pass = "size" /\ ~P!Truncates /\ P!Allocate(P!AtLeast(out_size, Len(in)))
  <2>1. P!AtLeast(out_size, Len(in)) = Len(last.target)
    BY <1>p, <1>3, <1>5, <1>7 DEF IpsAtMark
  <2>2. z # last.at + 2
    <3>1. z = last.at + 2 => z >= 2 /\ z - 2 + 1 = last.at + 1
      BY <1>6
    <3> QED BY <1>p, <1>6, <1>7, <3>1 DEF P!Truncates, P!Size, P!Current, P!Cell
  <2>3. Len(p.target) = Len(last.target)
    BY <1>6, <2>2
  <2>4. P!Allocate(Len(p.target))
    BY <1>7, <2>1, <2>3
  <2> QED BY <1>p, <1>4, <1>7, <2>4, AllocateKeeps
<1>8. CASE pass = "write" /\ P!Applied
  <2>1. out_size = Len(p.target) /\ out = P!Zeros(last.target, out_size)
    BY <1>p, <1>3, <1>5, <1>8 DEF IpsAtMark
  <2>2. out = p.target
    BY <1>6, <2>1, ZerosSelf
  <2> QED BY <1>p, <1>2, <1>8, <2>1, <2>2, AppliedKeeps
<1> QED BY <1>1, <1>7, <1>8

\* As much of a run as fits, when all of it does.
LEMMA AllFits ==
  ASSUME NEW n \in Nat, NEW offset \in Nat, NEW size \in Nat, offset + n <= size
  PROVE  P!AtLeast(P!AtMost(n, size - offset), 0) = n
BY DEF P!AtLeast, P!AtMost

LEMMA AtAll ==
  ASSUME NEW s \in Seq(Bytes)
  PROVE  P!At(s, 0, Len(s)) = s
<1>1. Len(s) \in 0 .. Len(s)
  OBVIOUS
<1> QED BY <1>1, ZerosCut, ZerosSelf

\* What IpsRecord does when it has read a record.
Reads(offset, len, run) ==
  LET fits == P!AtLeast(P!AtMost(Len(run), out_size - offset), 0)
  IN  IF pass = "size"
        THEN /\ out_size' = P!AtLeast(out_size, offset + Len(run))
             /\ i' = IF len > 0 THEN i + 2 + len ELSE i + 4
             /\ UNCHANGED out
        ELSE /\ out' = IF fits = 0 THEN out ELSE P!Overlay(out, offset, P!At(run, 0, fits))
             /\ i' = IF len > 0 THEN i + 2 + fits ELSE i + 4
             /\ UNCHANGED out_size

LEMMA IpsRecordReads ==
  ASSUME P!IpsRecord
  PROVE  LET c   == patches[k].cells
             len == P!Cell(c, i + 1)
         IN  Reads(P!Cell(c, i), len,
                   IF len > 0 THEN P!At(c, i + 2, len)
                   ELSE [j \in 1 .. P!Cell(c, i + 2) |-> P!Cell(c, i + 3)])
BY DEF P!IpsRecord, Reads, P!Current

\* A record of a good patch leads from its mark to the next one.
LEMMA GoodRecord ==
  ASSUME DraftInv, PatchesInv, ReaderInv, P!IpsRecord, Sound(k)
  PROVE  /\ i' \in Nat /\ out_size' \in Nat
         /\ \E m \in 1 .. Len(patches[k].marks) : IpsAtMark(m)'
<1>1. /\ pass \in {"size", "write"} /\ P!Ips /\ ~P!AtEOF
      /\ UNCHANGED <<P!author, pass, in, P!bps, k, given>>
  BY DEF P!IpsRecord
<1>p. PICK p : p = patches[k]
  OBVIOUS
<1>2. PICK m \in 1 .. Len(p.marks) : IpsAtMark(m)
  BY <1>p, <1>1, IpsHere
<1>3. /\ p.marks \in Seq(MarkSet) /\ p.cells \in Seq(Int) /\ Len(p.target) \in Nat
      /\ i \in Nat /\ out_size \in Nat /\ Len(in) \in Nat
  BY <1>p, <1>1, Here DEF P!Ips, P!Current
<1>4. /\ m + 1 \in 1 .. Len(p.marks) /\ p.marks[m] \in MarkSet /\ p.marks[m + 1] \in MarkSet
      /\ IpsStep(p.cells, p.marks[m], p.marks[m + 1], Len(p.target))
  <2>1. m # Len(p.marks)
    BY <1>p, <1>1, <1>2, IpsAhead
  <2>2. m < Len(p.marks)
    BY <1>3, <2>1
  <2> QED BY <1>p, <1>1, <1>2, <2>2, IpsAhead
<1>a. PICK a \in MarkSet, b \in MarkSet : a = p.marks[m] /\ b = p.marks[m + 1]
  BY <1>4
<1>5. /\ i = a.at
      /\ pass = "size" => P!AtLeast(out_size, Len(in)) = Len(a.target)
      /\ pass = "write" => out_size = Len(p.target) /\ out = P!Zeros(a.target, out_size)
  BY <1>p, <1>2, <1>a DEF IpsAtMark
<1> DEFINE c == p.cells
           len == P!Cell(c, i + 1)
           read == IF len > 0 THEN P!At(c, i + 2, len)
                   ELSE [j \in 1 .. P!Cell(c, i + 2) |-> P!Cell(c, i + 3)]
<1>6. Reads(P!Cell(c, i), len, read)
  BY <1>p, IpsRecordReads
<1>7. PICK offset \in Nat, run \in Seq(Bytes) :
        /\ Len(run) > 0 /\ offset + Len(run) <= Len(p.target)
        /\ b.target = P!Overlay(a.target, offset, run)
        /\ P!Cell(c, a.at) = offset
        /\ \/ /\ P!Cell(c, a.at + 1) = Len(run) /\ b.at = a.at + 2 + Len(run)
              /\ P!At(c, a.at + 2, Len(run)) = run
           \/ /\ P!Cell(c, a.at + 1) = 0 /\ b.at = a.at + 4
              /\ [j \in 1 .. P!Cell(c, a.at + 2) |-> P!Cell(c, a.at + 3)] = run
  <2> DEFINE size == Len(p.target)
  <2>1. c \in Seq(Int) /\ size \in Nat /\ IpsStep(c, a, b, size)
    BY <1>3, <1>4, <1>a
  <2> HIDE DEF c, size
  <2>2. PICK offset \in Nat, run \in Seq(Bytes) :
          /\ Len(run) > 0 /\ offset + Len(run) <= size
          /\ b.target = P!Overlay(a.target, offset, run)
          /\ P!Cell(c, a.at) = offset
          /\ \/ /\ P!Cell(c, a.at + 1) = Len(run) /\ b.at = a.at + 2 + Len(run)
                /\ P!At(c, a.at + 2, Len(run)) = run
             \/ /\ P!Cell(c, a.at + 1) = 0 /\ b.at = a.at + 4
                /\ [j \in 1 .. P!Cell(c, a.at + 2) |-> P!Cell(c, a.at + 3)] = run
    <3>1. IpsRead(c, a, b, size)
      BY <1>2, <2>1, IpsStepRead, Zenon
    <3> QED BY <3>1 DEF IpsRead
  <2> QED BY <2>2 DEF size
<1>8. /\ len \in Nat /\ read = run /\ P!Cell(c, i) = offset
      /\ len > 0 => len = Len(run) /\ b.at = i + 2 + Len(run)
      /\ len = 0 => b.at = i + 4
  <2> HIDE DEF c
  <2>1. CASE /\ P!Cell(c, a.at + 1) = Len(run) /\ b.at = a.at + 2 + Len(run)
             /\ P!At(c, a.at + 2, Len(run)) = run
    BY <1>5, <1>7, <2>1
  <2>2. CASE /\ P!Cell(c, a.at + 1) = 0 /\ b.at = a.at + 4
             /\ [j \in 1 .. P!Cell(c, a.at + 2) |-> P!Cell(c, a.at + 3)] = run
    BY <1>5, <1>7, <2>2
  <2> QED BY <1>7, <2>1, <2>2
<1> HIDE DEF c, len, read
<1>9. Reads(offset, len, run)
  BY <1>6, <1>8
<1>10. a.target \in Seq(Bytes) /\ Len(run) \in Nat /\ Len(a.target) \in Nat /\ b.at \in Nat
  BY DEF MarkSet
<1>11. Len(b.target) = P!AtLeast(Len(a.target), offset + Len(run))
  <2>1. \A s \in Seq(Bytes) : Len(P!Overlay(s, offset, run)) = P!AtLeast(Len(s), offset + Len(run))
    BY OverlayType
  <2> QED BY <1>7, <1>10, <2>1
<1>12. patches'[k'] = p /\ m + 1 \in 1 .. Len(p.marks) /\ p.marks[m + 1] = b
  BY <1>p, <1>1, <1>4, <1>a DEF P!author
<1>13. CASE pass = "size"
  <2>1. /\ out_size' = P!AtLeast(out_size, offset + Len(run))
        /\ i' = IF len > 0 THEN i + 2 + len ELSE i + 4
    BY <1>9, <1>13 DEF Reads
  <2>2. i' = b.at
    BY <1>8, <2>1
  <2>3. P!AtLeast(out_size', Len(in)) = Len(b.target) /\ out_size' \in Nat
    <3>1. P!AtLeast(out_size, Len(in)) = Len(a.target)
      BY <1>5, <1>13
    <3> DEFINE x == Len(in)
               y == Len(a.target)
               r == Len(run)
    <3>2. x \in Nat /\ y \in Nat /\ r \in Nat /\ P!AtLeast(out_size, x) = y
      BY <1>3, <1>10, <3>1
    <3> HIDE DEF x, y, r
    <3>3. \A o, s \in Nat : /\ P!AtLeast(P!AtLeast(o, s), x) = P!AtLeast(P!AtLeast(o, x), s)
                            /\ P!AtLeast(o, s) \in Nat
      BY <3>2 DEF P!AtLeast
    <3>4. offset + r \in Nat
      BY <3>2
    <3>5. P!AtLeast(P!AtLeast(out_size, offset + r), x) = P!AtLeast(y, offset + r)
      BY <1>3, <3>2, <3>3, <3>4
    <3> QED BY <1>3, <1>11, <2>1, <3>3, <3>4, <3>5 DEF x, y, r
  <2>4. pass' = "size" /\ in' = in
    BY <1>1, <1>13
  <2>5. IpsAtMark(m + 1)'
    BY <1>12, <2>2, <2>3, <2>4 DEF IpsAtMark
  <2> QED BY <1>p, <1>10, <1>12, <2>2, <2>3, <2>5
<1>14. CASE pass = "write"
  <2> DEFINE fits == P!AtLeast(P!AtMost(Len(run), out_size - offset), 0)
  <2>1. fits = Len(run)
    BY <1>3, <1>5, <1>7, <1>10, <1>14, AllFits
  <2>2. /\ out' = IF fits = 0 THEN out ELSE P!Overlay(out, offset, P!At(run, 0, fits))
        /\ i' = IF len > 0 THEN i + 2 + fits ELSE i + 4
        /\ out_size' = out_size
    BY <1>9, <1>14 DEF Reads
  <2> HIDE DEF fits
  <2>3. P!At(run, 0, Len(run)) = run
    BY AtAll
  <2>4. out' = P!Overlay(P!Zeros(a.target, out_size), offset, run) /\ i' = b.at
    BY <1>5, <1>7, <1>8, <1>10, <1>14, <2>1, <2>2, <2>3
  <2>5. out' = P!Zeros(b.target, out_size)
    <3>1. offset + Len(run) <= out_size
      BY <1>5, <1>7, <1>14
    <3> QED BY <1>3, <1>7, <1>10, <2>4, <3>1, OverlayZeros
  <2>6. pass' = "write" /\ out_size = Len(p.target)
    BY <1>1, <1>5, <1>14
  <2>7. IpsAtMark(m + 1)'
    BY <1>12, <2>2, <2>4, <2>5, <2>6 DEF IpsAtMark
  <2> QED BY <1>p, <1>3, <1>10, <1>12, <2>2, <2>4, <2>7
<1> QED BY <1>1, <1>13, <1>14

\* Whatever an IPS patch that is no good has, it leaves i and out_size numbers.
LEMMA BadRecord ==
  ASSUME DraftInv, PatchesInv, ReaderInv, P!IpsRecord, ~Sound(k)
  PROVE  i' \in Nat /\ out_size' \in Nat
<1>1. pass \in {"size", "write"} /\ P!Ips /\ P!RecordFits
  BY DEF P!IpsRecord
<1> DEFINE c == patches[k].cells
           z == Len(c)
           offset == P!Cell(c, i)
           len == P!Cell(c, i + 1)
           n == P!Cell(c, i + 2)
           run == IF len > 0 THEN P!At(c, i + 2, len) ELSE [j \in 1 .. n |-> P!Cell(c, i + 3)]
           fits == P!AtLeast(P!AtMost(Len(run), out_size - offset), 0)
<1>2. c \in Seq(Nat) /\ z \in Nat /\ i \in Nat /\ out_size \in Nat
  BY <1>1, NoEOF, Here
<1>3. i + 2 <= z /\ IF len > 0 THEN i + 2 + len <= z ELSE i + 4 <= z
  BY <1>1 DEF P!RecordFits, P!Size, P!Current
<1>4. Reads(offset, len, run)
  BY IpsRecordReads
<1>5. \A j \in 1 .. z : c[j] \in Nat
  BY <1>2
<1> HIDE DEF c, z
<1>6. offset \in Nat /\ len \in Nat
  <2>1. i + 1 \in 1 .. z /\ i + 1 + 1 \in 1 .. z
    BY <1>2, <1>3
  <2> QED BY <1>5, <2>1 DEF P!Cell
<1> HIDE DEF offset, len
<1>7. Len(run) \in Nat
  <2>1. CASE len > 0
    <3> DEFINE o == i + 2
    <3>1. o \in Nat /\ o + len <= Len(c)
      BY <1>2, <1>3, <2>1 DEF z
    <3> HIDE DEF o
    <3>2. Len(P!At(c, o, len)) = len
      BY <1>2, <1>6, <3>1, AtType
    <3> QED BY <1>6, <2>1, <3>2 DEF o
  <2>2. CASE ~(len > 0)
    <3>1. i + 2 + 1 \in 1 .. z /\ i + 3 + 1 \in 1 .. z
      BY <1>2, <1>3, <2>2
    <3>2. n \in Nat /\ P!Cell(c, i + 3) \in Nat
      BY <1>5, <3>1 DEF P!Cell
    <3> HIDE DEF n
    <3> DEFINE f == [j \in 1 .. n |-> P!Cell(c, i + 3)]
    <3>3. f \in Seq(Nat)
      BY <3>2
    <3> HIDE DEF f
    <3>4. Len(f) \in Nat
      BY <3>3
    <3> QED BY <2>2, <3>4 DEF f
  <2> QED BY <2>1, <2>2
<1> HIDE DEF run
<1>8. fits \in Nat /\ P!AtLeast(out_size, offset + Len(run)) \in Nat
  <2> DEFINE r == Len(run)
  <2> HIDE DEF r
  <2>1. r \in Nat
    BY <1>7 DEF r
  <2>2. P!AtLeast(P!AtMost(r, out_size - offset), 0) \in Nat /\ P!AtLeast(out_size, offset + r) \in Nat
    BY <1>2, <1>6, <2>1 DEF P!AtLeast, P!AtMost
  <2> QED BY <2>2 DEF r
<1> HIDE DEF fits
<1>9. CASE pass = "size"
  <2>1. /\ out_size' = P!AtLeast(out_size, offset + Len(run))
        /\ i' = IF len > 0 THEN i + 2 + len ELSE i + 4
    BY <1>4, <1>9 DEF Reads
  <2> QED BY <1>2, <1>6, <1>8, <2>1
<1>10. CASE pass = "write"
  <2>1. out_size' = out_size /\ i' = IF len > 0 THEN i + 2 + fits ELSE i + 4
    BY <1>4, <1>10 DEF Reads, fits
  <2> QED BY <1>2, <1>8, <2>1
<1> QED BY <1>1, <1>9, <1>10

LEMMA IpsRecordKeeps ==
  ASSUME DraftInv, PatchesInv, ReaderInv, P!IpsRecord
  PROVE  PatchIInv'
<1>1. /\ pass \in {"size", "write"} /\ patches[k].format = "IPS"
      /\ UNCHANGED <<P!author, pass, in, k>>
  BY DEF P!IpsRecord, P!Ips, P!Current
<1>2. i' \in Nat /\ out_size' \in Nat
  BY GoodRecord, BadRecord
<1>3. Sound(k) => \E m \in 1 .. Len(patches[k].marks) :
                    IF patches[k].format = "IPS" THEN IpsAtMark(m)' ELSE BpsAtMark(m)'
  BY <1>1, GoodRecord
<1> QED BY <1>1, <1>2, <1>3, StepKeeps
------------------------------------------------------------------------------
(* patch_bps.                                                               *)

LEMMA SizeBpsKeeps ==
  ASSUME DraftInv, PatchesInv, ReaderInv, P!SizeBps
  PROVE  PatchIInv'
<1>p. PICK p : p = patches[k]
  OBVIOUS
<1>1. /\ pass = "size" /\ p.format = "BPS"
      /\ IF P!Cell(p.cells, 0) # Len(in) THEN P!Fail ELSE P!Allocate(P!Cell(p.cells, 1))
  BY <1>p DEF P!SizeBps, P!Bps, P!Current
<1>2. p.cells \in Seq(Nat) /\ Len(p.cells) >= 3 /\ in = SourceOf(k)
  BY <1>p, <1>1, Here
<1>3. P!Cell(p.cells, 0) = p.cells[1] /\ P!Cell(p.cells, 1) = p.cells[2] /\ p.cells[2] \in Nat
  BY <1>2 DEF P!Cell
<1>4. ASSUME Sound(k)
      PROVE  P!Cell(p.cells, 0) = Len(in) /\ P!Cell(p.cells, 1) = Len(p.target)
  <2>1. p.source = in /\ MadeBps(p)
    BY <1>p, <1>1, <1>2, <1>4, Here DEF Good
  <2>2. p.cells[1] = Len(p.source) /\ p.cells[2] = Len(p.target)
    BY <2>1 DEF MadeBps
  <2> QED BY <1>3, <2>1, <2>2
<1>5. CASE P!Cell(p.cells, 0) # Len(in)
  BY <1>1, <1>4, <1>5, FailKeeps
<1>6. CASE P!Cell(p.cells, 0) = Len(in)
  <2> DEFINE size == P!Cell(p.cells, 1)
  <2>1. size \in Nat /\ P!Allocate(size) /\ (Sound(k) => size = Len(patches[k].target))
    BY <1>p, <1>1, <1>3, <1>4, <1>6
  <2> HIDE DEF size
  <2> QED BY <1>1, <2>1, AllocateKeeps
<1> QED BY <1>5, <1>6

\* Where the program is in a good BPS patch.
LEMMA BpsHere ==
  ASSUME DraftInv, PatchesInv, ReaderInv, pass = "write", P!Bps, Sound(k)
  PROVE  /\ MadeBps(patches[k]) /\ patches[k].source = in /\ patches[k].intact
         /\ Len(patches[k].marks) > 0 /\ P!Actions = 3
         /\ \E m \in 1 .. Len(patches[k].marks) : BpsAtMark(m)
<1>1. patches[k].format = "BPS" /\ patches[k].format # "IPS"
  BY DEF P!Bps, P!Current
<1>2. Good(patches[k], k) /\ in = SourceOf(k)
  BY Here
<1>3. MadeBps(patches[k]) /\ patches[k].source = in /\ patches[k].intact
  BY <1>1, <1>2 DEF Good
<1>4. Len(patches[k].marks) > 0 /\ patches[k].cells[3] = 0
  BY <1>3 DEF MadeBps, BpsMarks
<1>5. P!Actions = 3
  BY <1>4 DEF P!Actions, P!Cell, P!Current
<1>6. \E m \in 1 .. Len(patches[k].marks) : BpsAtMark(m)
  BY <1>1 DEF ReaderInv
<1> QED BY <1>3, <1>4, <1>5, <1>6

\* The patch has actions behind every mark but the last, which is where it ends.
LEMMA BpsAhead ==
  ASSUME DraftInv, PatchesInv, ReaderInv, pass = "write", P!Bps, Sound(k),
         NEW m \in 1 .. Len(patches[k].marks), BpsAtMark(m)
  PROVE  /\ m = Len(patches[k].marks) => P!AtLeast(i, P!Actions) = P!Size
         /\ m < Len(patches[k].marks) =>
              /\ m + 1 \in 1 .. Len(patches[k].marks)
              /\ patches[k].marks[m] \in MarkSet /\ patches[k].marks[m + 1] \in MarkSet
              /\ BpsStep(patches[k].cells, 3, in, patches[k].marks[m], patches[k].marks[m + 1],
                         Len(patches[k].target))
              /\ P!AtLeast(i, P!Actions) < P!Size
<1>p. PICK p : p = patches[k]
  OBVIOUS
<1> DEFINE l == Len(p.marks)
           c == p.cells
<1>1. /\ MadeBps(p) /\ p.marks \in Seq(MarkSet) /\ c \in Seq(Nat) /\ P!Actions = 3
      /\ Len(p.target) \in Nat /\ p.source = in /\ in \in Seq(Bytes) /\ l > 0
  BY <1>p, BpsHere, Here DEF P!Bps, P!Current
<1>2. P!AtLeast(i, P!Actions) = 3 + p.marks[m].at /\ P!Size = Len(c)
  BY <1>p, <1>1 DEF BpsAtMark, P!Size, P!Current
<1>3. /\ Len(c) = p.marks[l].at + 3
      /\ \A n \in 1 .. l - 1 : BpsStep(c, 3, in, p.marks[n], p.marks[n + 1], Len(p.target))
  BY <1>1 DEF MadeBps, BpsMarks
<1>4. ASSUME m = l
      PROVE  P!AtLeast(i, P!Actions) = P!Size
  <2>1. p.marks[l] \in MarkSet
    BY <1>1
  <2>2. p.marks[l].at \in Nat
    BY <2>1 DEF MarkSet
  <2> QED BY <1>2, <1>3, <1>4, <2>2
<1>5. ASSUME m < l
      PROVE  /\ m + 1 \in 1 .. l /\ p.marks[m] \in MarkSet /\ p.marks[m + 1] \in MarkSet
             /\ BpsStep(c, 3, in, p.marks[m], p.marks[m + 1], Len(p.target))
             /\ P!AtLeast(i, P!Actions) < P!Size
  <2>1. m \in 1 .. l - 1 /\ m + 1 \in 1 .. l /\ m \in 1 .. l
    BY <1>p, <1>1, <1>5
  <2>2. /\ p.marks[m] \in MarkSet /\ p.marks[m + 1] \in MarkSet
        /\ BpsStep(c, 3, in, p.marks[m], p.marks[m + 1], Len(p.target))
    BY <1>1, <1>3, <2>1
  <2> DEFINE a == p.marks[m]
             b == p.marks[m + 1]
             size == Len(p.target)
  <2>3. /\ a \in MarkSet /\ b \in MarkSet /\ BpsStep(c, 3, in, a, b, size) /\ size \in Nat
        /\ P!AtLeast(i, P!Actions) = 3 + a.at
    BY <1>1, <1>2, <2>2
  <2> HIDE DEF a, b, c, l, size
  <2>4. a.at < b.at /\ 3 + b.at <= Len(c)
    BY <1>1, <2>3, BpsStepRead DEF BpsRead
  <2>5. P!AtLeast(i, P!Actions) < P!Size
    <3>1. a.at \in Nat /\ b.at \in Nat /\ Len(c) \in Nat
      BY <1>1, <2>3 DEF MarkSet
    <3> QED BY <1>2, <2>3, <2>4, <3>1
  <2> QED BY <2>1, <2>2, <2>5 DEF c
<1> QED BY <1>p, <1>4, <1>5

\* What BpsAction does when it has read an action.
Acts(at, code, next) ==
  LET n == code \div 4 + 1
      Writes(run, cells) == /\ out' = P!Overlay(out, written, run)
                            /\ written' = written + n
                            /\ i' = at + cells
  IN  \/ /\ code % 4 = 0
         /\ Writes(P!At(in, written, n), 1) /\ UNCHANGED <<src_rel_offset, dst_rel_offset>>
      \/ /\ code % 4 = 1
         /\ Writes(P!At(patches[k].cells, at + 1, n), 1 + n)
         /\ UNCHANGED <<src_rel_offset, dst_rel_offset>>
      \/ /\ code % 4 = 2
         /\ Writes(P!At(in, src_rel_offset + next, n), 2)
         /\ src_rel_offset' = src_rel_offset + next + n /\ UNCHANGED dst_rel_offset
      \/ /\ code % 4 = 3
         /\ Writes(P!CopyOut(dst_rel_offset + next, n), 2)
         /\ dst_rel_offset' = dst_rel_offset + next + n /\ UNCHANGED src_rel_offset

LEMMA BpsActionActs ==
  ASSUME P!BpsAction
  PROVE  LET c  == patches[k].cells
             at == P!AtLeast(i, P!Actions)
         IN  Acts(at, P!Cell(c, at), P!Signed(P!Cell(c, at + 1)))
BY DEF P!BpsAction, P!Current, Acts

\* An action of a good patch leads from its mark to the next one.
LEMMA GoodAction ==
  ASSUME DraftInv, PatchesInv, ReaderInv, P!BpsAction, Sound(k)
  PROVE  i' \in Nat /\ \E m \in 1 .. Len(patches[k].marks) : BpsAtMark(m)'
<1>1. /\ pass = "write" /\ P!Bps /\ P!AtLeast(i, P!Actions) < P!Size
      /\ UNCHANGED <<P!author, pass, in, out_size, k, given>>
  BY DEF P!BpsAction
<1>p. PICK p : p = patches[k]
  OBVIOUS
<1>2. PICK m \in 1 .. Len(p.marks) : BpsAtMark(m)
  BY <1>p, <1>1, BpsHere
<1>3. /\ p.marks \in Seq(MarkSet) /\ p.cells \in Seq(Nat) /\ Len(p.target) \in Nat
      /\ i \in Nat /\ in \in Seq(Bytes)
  BY <1>p, <1>1, Here DEF P!Bps, P!Current
<1>4. /\ m + 1 \in 1 .. Len(p.marks) /\ p.marks[m] \in MarkSet /\ p.marks[m + 1] \in MarkSet
      /\ BpsStep(p.cells, 3, in, p.marks[m], p.marks[m + 1], Len(p.target))
  <2>1. m # Len(p.marks)
    <3>1. m = Len(p.marks) => P!AtLeast(i, P!Actions) = P!Size
      BY <1>p, <1>1, <1>2, BpsAhead
    <3>2. P!Size \in Int
      BY <1>p, <1>3 DEF P!Size, P!Current
    <3> QED BY <1>1, <3>1, <3>2
  <2>2. m < Len(p.marks)
    BY <1>3, <2>1
  <2> QED BY <1>p, <1>1, <1>2, <2>2, BpsAhead
<1>a. PICK a \in MarkSet, b \in MarkSet : a = p.marks[m] /\ b = p.marks[m + 1]
  BY <1>4
<1> DEFINE c == p.cells
           at == 3 + a.at
           code == P!Cell(c, at)
           next == P!Signed(P!Cell(c, at + 1))
           size == Len(p.target)
<1>5. /\ P!AtLeast(i, P!Actions) = at /\ out_size = size /\ out \in Seq(Bytes) /\ Len(out) = size
      /\ written = Len(a.target) /\ P!At(out, 0, written) = a.target
      /\ src_rel_offset = a.src /\ dst_rel_offset = a.dst
  <2>1. P!Actions = 3
    BY <1>1, BpsHere
  <2> QED BY <1>p, <1>2, <1>a, <2>1 DEF BpsAtMark
<1>6. Acts(at, code, next)
  BY <1>p, <1>5, BpsActionActs
<1>7. c \in Seq(Nat) /\ size \in Nat /\ BpsStep(c, 3, in, a, b, size)
  BY <1>3, <1>4, <1>a
<1> HIDE DEF c, size
<1>8. PICK n \in Nat \ {0}, run \in Seq(Bytes) :
           /\ Len(run) = n /\ Len(a.target) + n <= size /\ b.target = a.target \o run
           /\ a.at < b.at /\ code \div 4 + 1 = n
           /\ \/ /\ code % 4 = 0 /\ run = P!At(in, Len(a.target), n)
                 /\ b.at = a.at + 1 /\ b.src = a.src /\ b.dst = a.dst
              \/ /\ code % 4 = 1 /\ run = P!At(c, at + 1, n)
                 /\ b.at = a.at + 1 + n /\ b.src = a.src /\ b.dst = a.dst
              \/ /\ code % 4 = 2 /\ run = P!At(in, a.src + next, n)
                 /\ b.at = a.at + 2 /\ b.src = a.src + next + n /\ b.dst = a.dst
              \/ /\ code % 4 = 3 /\ run = P!Repeat(a.target, a.dst + next, n)
                 /\ b.at = a.at + 2 /\ b.src = a.src /\ b.dst = a.dst + next + n
  <2>1. c \in Seq(Nat) /\ in \in Seq(Bytes) /\ size \in Nat /\ BpsStep(c, 3, in, a, b, size)
    BY <1>3, <1>7
  <2>2. BpsRead(c, in, a, b, size)
    BY <2>1, BpsStepRead, Zenon
  <2> QED BY <2>2 DEF BpsRead
<1>9. a.at \in Nat /\ b.at \in Nat /\ a.target \in Seq(Bytes) /\ Len(a.target) \in Nat
  BY DEF MarkSet
<1> HIDE DEF code, next
<1> DEFINE Done == /\ out' = P!Overlay(out, written, run) /\ written' = written + n
                   /\ i' = 3 + b.at /\ src_rel_offset' = b.src /\ dst_rel_offset' = b.dst
<1>10. Done
  <2>a. at + 1 = 3 + (a.at + 1) /\ at + (1 + n) = 3 + (a.at + 1 + n) /\ at + 2 = 3 + (a.at + 2)
    BY <1>9
  <2>c. c = patches[k].cells
    BY <1>p DEF c
  <2>1. CASE /\ code % 4 = 0 /\ run = P!At(in, Len(a.target), n)
             /\ b.at = a.at + 1 /\ b.src = a.src /\ b.dst = a.dst
    <3>1. /\ out' = P!Overlay(out, written, P!At(in, written, n)) /\ written' = written + n
          /\ i' = at + 1 /\ UNCHANGED <<src_rel_offset, dst_rel_offset>>
      BY <1>6, <1>8, <2>1 DEF Acts
    <3> HIDE DEF at
    <3> QED BY <1>5, <2>1, <2>a, <3>1 DEF at
  <2>2. CASE /\ code % 4 = 1 /\ run = P!At(c, at + 1, n)
             /\ b.at = a.at + 1 + n /\ b.src = a.src /\ b.dst = a.dst
    <3>1. /\ out' = P!Overlay(out, written, P!At(c, at + 1, n)) /\ written' = written + n
          /\ i' = at + (1 + n) /\ UNCHANGED <<src_rel_offset, dst_rel_offset>>
      BY <1>6, <1>8, <2>2, <2>c DEF Acts
    <3> QED BY <1>5, <2>2, <2>a, <3>1
  <2>3. CASE /\ code % 4 = 2 /\ run = P!At(in, a.src + next, n)
             /\ b.at = a.at + 2 /\ b.src = a.src + next + n /\ b.dst = a.dst
    <3>1. /\ out' = P!Overlay(out, written, P!At(in, src_rel_offset + next, n))
          /\ written' = written + n
          /\ i' = at + 2 /\ src_rel_offset' = src_rel_offset + next + n /\ UNCHANGED dst_rel_offset
      BY <1>6, <1>8, <2>3 DEF Acts
    <3> QED BY <1>5, <2>3, <2>a, <3>1
  <2>4. CASE /\ code % 4 = 3 /\ run = P!Repeat(a.target, a.dst + next, n)
             /\ b.at = a.at + 2 /\ b.src = a.src /\ b.dst = a.dst + next + n
    <3>1. /\ out' = P!Overlay(out, written, P!CopyOut(dst_rel_offset + next, n))
          /\ written' = written + n
          /\ i' = at + 2 /\ dst_rel_offset' = dst_rel_offset + next + n /\ UNCHANGED src_rel_offset
      BY <1>6, <1>8, <2>4 DEF Acts
    <3>2. P!CopyOut(dst_rel_offset + next, n) = run
      BY <1>5, <2>4 DEF P!CopyOut
    <3> QED BY <1>5, <2>4, <2>a, <3>1, <3>2
  <2> QED BY <1>8, <2>1, <2>2, <2>3, <2>4
<1>11. BpsAtMark(m + 1)'
  <2>1. /\ patches'[k'] = p /\ p.marks[m + 1] = b /\ out_size' = size
    BY <1>p, <1>1, <1>a, <1>5 DEF P!author
  <2>2. P!AtLeast(i', 3) = 3 + b.at
    <3>1. i' = 3 + b.at
      BY <1>10
    <3> QED BY <1>9, <3>1 DEF P!AtLeast
  <2> DEFINE o == P!Overlay(out, written, run)
  <2>3. written \in Nat /\ written + Len(run) <= Len(out) /\ out \in Seq(Bytes)
    BY <1>5, <1>7, <1>8, <1>9
  <2>4. o \in Seq(Bytes) /\ Len(o) = size /\ P!At(o, 0, written + Len(run)) = a.target \o run
    <3> DEFINE r == run
    <3> HIDE DEF r, o
    <3>1. /\ P!Overlay(out, written, run) \in Seq(Bytes) /\ Len(P!Overlay(out, written, run)) = Len(out)
          /\ P!At(P!Overlay(out, written, run), 0, written + Len(run)) = P!At(out, 0, written) \o run
      BY <2>3, OverlayBehind
    <3> QED BY <1>5, <3>1 DEF o
  <2>5. Len(b.target) = written + n
    <3>1. Len(a.target \o run) = Len(a.target) + Len(run)
      BY <1>9, ConcatLen, Zenon
    <3> QED BY <1>5, <1>8, <3>1
  <2> HIDE DEF o
  <2>6. /\ out' = o /\ written' = written + Len(run)
        /\ src_rel_offset' = b.src /\ dst_rel_offset' = b.dst
    BY <1>8, <1>10 DEF o
  <2>7. /\ out' \in Seq(Bytes) /\ Len(out') = size
        /\ written' = Len(b.target) /\ P!At(out', 0, written') = b.target
    BY <1>8, <2>4, <2>5, <2>6
  <2> QED BY <2>1, <2>2, <2>6, <2>7 DEF BpsAtMark, size
<1>12. i' \in Nat
  BY <1>9, <1>10
<1> QED BY <1>p, <1>4, <1>11, <1>12

LEMMA BadAction ==
  ASSUME DraftInv, PatchesInv, ReaderInv, P!BpsAction
  PROVE  i' \in Nat
<1>1. pass = "write" /\ P!Bps /\ P!AtLeast(i, P!Actions) < P!Size
  BY DEF P!BpsAction
<1> DEFINE c == patches[k].cells
           at == P!AtLeast(i, P!Actions)
           code == P!Cell(c, at)
           n == code \div 4 + 1
           next == P!Signed(P!Cell(c, at + 1))
<1>2. c \in Seq(Nat) /\ Len(c) >= 3 /\ i \in Nat /\ Len(c) \in Nat
  BY <1>1, Here DEF P!Bps, P!Current
<1>3. P!Size = Len(c) /\ P!Actions \in Nat
  BY <1>2 DEF P!Size, P!Actions, P!Current, P!Cell
<1>4. at \in Nat /\ at < Len(c)
  BY <1>1, <1>2, <1>3 DEF P!AtLeast
<1>5. Acts(at, code, next)
  BY BpsActionActs
<1> HIDE DEF c, at
<1>6. code \in Nat
  BY <1>2, <1>4 DEF P!Cell
<1> HIDE DEF code
<1>7. n \in Nat
  BY <1>6
<1> HIDE DEF next
<1>8. i' = at + 1 \/ i' = at + (1 + n) \/ i' = at + 2
  BY <1>5 DEF Acts
<1> HIDE DEF n
<1> QED BY <1>4, <1>7, <1>8

LEMMA BpsActionKeeps ==
  ASSUME DraftInv, PatchesInv, ReaderInv, P!BpsAction
  PROVE  PatchIInv'
<1>1. /\ pass = "write" /\ patches[k].format = "BPS" /\ patches[k].format # "IPS"
      /\ UNCHANGED <<P!author, pass, in, out_size, k>>
  BY DEF P!BpsAction, P!Bps, P!Current
<1>2. i' \in Nat /\ out_size' \in Nat
  BY <1>1, BadAction, Here
<1>3. Sound(k) => \E m \in 1 .. Len(patches[k].marks) :
                    IF patches[k].format = "IPS" THEN IpsAtMark(m)' ELSE BpsAtMark(m)'
  BY <1>1, GoodAction
<1> QED BY <1>1, <1>2, <1>3, StepKeeps

LEMMA BpsEndsKeeps ==
  ASSUME DraftInv, PatchesInv, ReaderInv, P!BpsEnds
  PROVE  PatchIInv'
<1>p. PICK p : p = patches[k]
  OBVIOUS
<1>1. /\ pass = "write" /\ P!Bps /\ P!AtLeast(i, P!Actions) >= P!Size
      /\ IF written = out_size /\ p.source = in /\ p.target = out /\ p.intact
           THEN P!Applied ELSE P!Fail
  BY <1>p DEF P!BpsEnds, P!Current
<1>2. CASE Sound(k)
  <2>1. PICK m \in 1 .. Len(p.marks) : BpsAtMark(m)
    BY <1>p, <1>1, <1>2, BpsHere
  <2>2. /\ p.marks \in Seq(MarkSet) /\ MadeBps(p) /\ p.source = in /\ p.intact
        /\ p.cells \in Seq(Nat) /\ i \in Nat /\ P!Actions = 3
    BY <1>p, <1>1, <1>2, Here, BpsHere DEF P!Bps, P!Current
  <2>3. m = Len(p.marks)
    <3>1. m < Len(p.marks) => P!AtLeast(i, P!Actions) < P!Size
      BY <1>p, <1>1, <1>2, <2>1, BpsAhead
    <3>2. P!AtLeast(i, P!Actions) \in Int /\ P!Size \in Int
      BY <1>p, <2>2 DEF P!AtLeast, P!Size, P!Current
    <3>3. ~(m < Len(p.marks))
      BY <1>1, <3>1, <3>2
    <3> QED BY <2>2, <3>3
  <2>4. p.target = p.marks[m].target
    BY <2>2, <2>3 DEF MadeBps
  <2>5. /\ out_size = Len(p.target) /\ out \in Seq(Bytes) /\ Len(out) = out_size
        /\ written = Len(p.target) /\ P!At(out, 0, written) = p.target
    BY <1>p, <2>1, <2>4 DEF BpsAtMark
  <2>6. out = p.target
    BY <2>5, AtAll
  <2>7. P!Applied
    BY <1>1, <2>2, <2>5, <2>6
  <2> QED BY <1>p, <1>1, <1>2, <2>5, <2>6, <2>7, AppliedKeeps
<1>3. CASE ~Sound(k)
  <2>1. ~(p.intact /\ p.source = in)
    BY <1>p, <1>1, <1>3, Here DEF Broken, P!Bps, P!Current
  <2>2. P!Fail
    BY <1>1, <2>1
  <2> QED BY <1>1, <1>3, <2>2, FailKeeps
<1> QED BY <1>2, <1>3
------------------------------------------------------------------------------
LEMMA InitPatch == P!Init => PatchIInv
<1> SUFFICES ASSUME P!Init PROVE PatchIInv
  OBVIOUS
<1>1. /\ dump \in Dumps /\ patches = <<>> /\ draft = None /\ intended = dump
      /\ pass = "author" /\ in = dump /\ out_size = 0 /\ i = 0 /\ k = 0
  BY DEF P!Init
<1>2. dump \in Seq(Bytes) /\ Len(dump) > 0
  BY <1>1, PatchFacts
<1>3. dump # None
  BY <1>2, NotNone
<1>4. SourceOf(Len(patches) + 1) = dump /\ SourceOf(k + 1) = dump /\ Len(patches) = 0
  BY <1>1 DEF SourceOf
<1>5. PatchesInv
  BY <1>1, <1>3, <1>4 DEF PatchesInv
<1>6. ReaderInv
  BY <1>1, <1>2, <1>4 DEF ReaderInv
<1> QED BY <1>1, <1>5, <1>6 DEF PatchIInv, DraftInv, P!PatchedAsMeant

LEMMA AuthorsKeep ==
  ASSUME PatchIInv, P!Authors
  PROVE  PatchIInv'
<1>1. DraftInv /\ PatchesInv /\ ReaderInv /\ P!PatchedAsMeant
  BY DEF PatchIInv
<1>2. CASE P!BeginIps
  <2>1. intended # None /\ P!Begin("IPS", intended)
    BY <1>2 DEF P!BeginIps
  <2>2. DraftInv'
    BY <1>1, <2>1, IntendedType, BeginKeeps
  <2> QED BY <1>1, <2>1, <2>2, WorkKeeps DEF P!Begin, PatchIInv
<1>3. CASE P!BeginBps
  <2>1. PICK s \in Dumps \cup {intended} : intended # None /\ P!Begin("BPS", s)
    BY <1>3 DEF P!BeginBps
  <2>2. s \in Seq(Bytes)
    BY <1>1, <2>1, IntendedType, PatchFacts
  <2>3. DraftInv'
    BY <1>1, <2>1, <2>2, BeginKeeps
  <2> QED BY <1>1, <2>1, <2>3, WorkKeeps DEF P!Begin, PatchIInv
<1>4. CASE P!AddIps
  <2>1. DraftInv'
    BY <1>1, <1>4, AddIpsKeeps
  <2>2. UNCHANGED <<dump, patches, intended, pass, in, out, out_size, i, P!bps, k, given>>
    BY <1>4 DEF P!AddIps, P!Adds
  <2> QED BY <1>1, <2>1, <2>2, WorkKeeps DEF PatchIInv
<1>5. CASE P!AddBps
  <2>1. DraftInv'
    BY <1>1, <1>5, AddBpsKeeps
  <2>2. UNCHANGED <<dump, patches, intended, pass, in, out, out_size, i, P!bps, k, given>>
    BY <1>5 DEF P!AddBps, P!Adds
  <2> QED BY <1>1, <2>1, <2>2, WorkKeeps DEF PatchIInv
<1>6. CASE P!FinishIps
  BY <1>1, <1>6, FinishIpsKeeps DEF PatchIInv
<1>7. CASE P!FinishBps
  BY <1>1, <1>7, FinishBpsKeeps DEF PatchIInv
<1> QED BY <1>2, <1>3, <1>4, <1>5, <1>6, <1>7 DEF P!Authors

LEMMA NextPatch ==
  ASSUME PatchIInv, [P!Next]_(P!vars)
  PROVE  PatchIInv'
<1>1. DraftInv /\ PatchesInv /\ ReaderInv /\ P!PatchedAsMeant
  BY DEF PatchIInv
<1>2. CASE P!Authors
  BY <1>2, AuthorsKeep
<1>3. CASE P!Load
  BY <1>1, <1>3, LoadKeeps
<1>4. CASE P!NextFile
  BY <1>1, <1>4, NextFileKeeps
<1>5. CASE P!SizeTruncated
  BY <1>1, <1>5, SizeTruncatedKeeps
<1>6. CASE P!IpsFails
  BY <1>1, <1>6, IpsFailsKeeps
<1>7. CASE P!IpsEnds
  BY <1>1, <1>7, IpsEndsKeeps
<1>8. CASE P!IpsRecord
  BY <1>1, <1>8, IpsRecordKeeps
<1>9. CASE P!SizeBps
  BY <1>1, <1>9, SizeBpsKeeps
<1>10. CASE P!BpsAction
  BY <1>1, <1>10, BpsActionKeeps
<1>11. CASE P!BpsEnds
  BY <1>1, <1>11, BpsEndsKeeps
<1>12. CASE UNCHANGED P!vars
  <2>1. DraftInv'
    BY <1>1, <1>12 DEF DraftInv, P!vars, P!author
  <2>2. UNCHANGED <<dump, patches, intended, pass, in, out, out_size, i, P!bps, k, given>>
    BY <1>12 DEF P!vars, P!author
  <2> QED BY <1>1, <2>1, <2>2, WorkKeeps DEF PatchIInv
<1> QED BY <1>2, <1>3, <1>4, <1>5, <1>6, <1>7, <1>8, <1>9, <1>10, <1>11, <1>12 DEF P!Next

\* The core gets what the authors meant, or the game as it is (content_patch, patch).
THEOREM PatchedAsMeantHolds == P!Spec => []PatchedAsMeant
<1>1. PatchIInv => PatchedAsMeant
  BY DEF PatchIInv, PatchedAsMeant
<1> QED BY <1>1, InitPatch, NextPatch, PTL DEF P!Spec
===============================================================================
