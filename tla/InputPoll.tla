------------------------------- MODULE InputPoll -------------------------------
(***************************************************************************)
(* How picoarch reads the buttons in a game: pa_input_poll takes POWER out *)
(* of SDL's queue, in_sdl.c turns MENU and another button into a third key *)
(* and collects the events into the state of the keys, and what is bound   *)
(* to the keys becomes the buttons of the game or an action of the         *)
(* emulator.  Every stage takes events from the queue and may put some     *)
(* back at its end.                                                        *)
(***************************************************************************)
EXTENDS Integers, Sequences, Functions

CONSTANTS
  Out,       \* in_sdl_mod_keymap: for each button the key that MENU with it stands for
  Keymap,    \* the order of the buttons in it
  Modifiers, \* the buttons whose keys are modifiers to SDL, which it never repeats
  FFKey,     \* the one of them that, with MENU, is bound to fast forward
  Pull,      \* events taken at once by pa_input_poll and by translate_combo_events: 10
  Collect,   \* events taken at once by collect_events: 4
  MaxQueue   \* bound: the player's events that wait in the queue

Menu  == "MENU"    \* SDLK_ESCAPE, the mod_key
Power == "POWER"

PlainKeys == DOMAIN Out
Outs == Range(Out)

\* What the constants are (assumed by MCPicoarch).
InputAssumption ==
  /\ FFKey \in PlainKeys /\ {Pull, Collect, MaxQueue} \subseteq Nat \ {0}
  /\ Keymap \in Seq(PlainKeys) /\ Range(Keymap) = PlainKeys /\ IsInjective(Keymap)
  /\ IsInjective(Out) /\ PlainKeys \cap Outs = {} /\ Modifiers \subseteq PlainKeys
  /\ {Menu, Power, "off", "none"} \cap (PlainKeys \cup Outs) = {}

Base(k) == IF k \in Outs THEN CHOOSE b \in PlainKeys : Out[b] = k ELSE k

EmuKeys == {Menu, Out[FFKey]}    \* keys bound to actions of the emulator

VARIABLES
  phase,     \* frame, update (between the two stages of a poll), menu or quit
  held,      \* the buttons the player holds
  repeat,    \* the button SDL repeats, or none; off until ShowMenu turns repeats on
  queue,     \* SDL's events, <<key, down>>
  mod,       \* mod_state: NO, MAYBE or YES
  keystate,  \* the keys that are down as in_sdl.c knows them
  buttons,   \* what the game is told
  prev,      \* prev_action
  power,     \* power_start: off, on, or due when a second has passed
  tap,       \* history: MENU is held, and no other button was while it is
  owed,      \* history: taps of MENU, less the menus opened
  clean      \* history: since all was last in step no event was dropped, swallowed, overtaken by
             \* one it depends on, or collected untranslated, and MENU was not repeated in the game

history == <<tap, owed, clean>>
vars    == <<phase, held, repeat, queue, mod, keystate, buttons, prev, power, history>>

TypeOK ==
  /\ phase \in {"frame", "update", "menu", "quit"}
  /\ held \subseteq PlainKeys \cup {Menu, Power}
  /\ repeat \in PlainKeys \cup {Menu, Power, "none", "off"}
  /\ keystate \subseteq PlainKeys \cup Outs \cup {Menu, Power} /\ buttons \subseteq PlainKeys
  /\ queue \in Seq((PlainKeys \cup Outs \cup {Menu, Power}) \X BOOLEAN)
  /\ mod \in {"NO", "MAYBE", "YES"} /\ power \in {"off", "on", "due"}
  /\ prev \in {"none", "menu", "ff", "sleep", "power_off"}
  /\ {tap, clean} \subseteq BOOLEAN
  /\ owed \in Int

KeysOf(q) == {Base(q[i][1]) : i \in DOMAIN q}

\* The keys for which it matters that front, which was behind, is before behind now.
Overtaken(front, behind) ==
  IF front # <<>> /\ behind # <<>> /\ Menu \in KeysOf(front) \cup KeysOf(behind)
    THEN {Menu} ELSE KeysOf(front) \cap KeysOf(behind)

Lose(ks)  == clean' = (clean /\ ks = {})
Owe(n)    == owed' = IF clean' THEN n ELSE 0
First(q, n) == SubSeq(q, 1, IF n < Len(q) THEN n ELSE Len(q))
After(q, n) == SubSeq(q, n + 1, Len(q))
------------------------------------------------------------------------------
(* The player.                                                              *)

\* No button is held, and the program believes the same.
InStep == phase = "frame" /\ held = {} /\ queue = <<>> /\ keystate = {} /\ mod = "NO"

Press(k) ==
  /\ phase # "quit" /\ k \notin held /\ Len(queue) < MaxQueue
  /\ held' = held \cup {k} /\ queue' = Append(queue, <<k, TRUE>>)
  /\ repeat' = IF repeat = "off" \/ k \in Modifiers THEN repeat ELSE k
  /\ tap' = CASE k = Menu -> held \cap PlainKeys = {} /\ phase # "menu"
              [] k = Power -> tap
              [] OTHER -> FALSE
  /\ clean' = (clean \/ InStep) /\ UNCHANGED owed
  /\ UNCHANGED <<phase, mod, keystate, buttons, prev, power>>

Release(k) ==
  /\ phase # "quit" /\ k \in held /\ Len(queue) < MaxQueue
  /\ held' = held \ {k} /\ queue' = Append(queue, <<k, FALSE>>)
  /\ repeat' = IF repeat = k THEN "none" ELSE repeat
  /\ tap' = (tap /\ k # Menu)
  /\ UNCHANGED clean /\ Owe(IF k = Menu /\ tap THEN owed + 1 ELSE owed)
  /\ UNCHANGED <<phase, mod, keystate, buttons, prev, power>>

\* The button pressed last is held for 300 ms, or 100 ms more: SDL reports its press again.
Repeat ==
  /\ phase # "quit" /\ repeat \in held /\ Len(queue) < MaxQueue
  /\ queue' = Append(queue, <<repeat, TRUE>>)
  /\ Lose({Menu} \cap IF phase = "menu" THEN {} ELSE {repeat}) /\ Owe(owed)
  /\ UNCHANGED <<phase, held, repeat, mod, keystate, buttons, prev, power, tap>>

\* A second passes with power_start set.
Elapse ==
  /\ power = "on" /\ power' = "due"
  /\ UNCHANGED <<phase, held, repeat, queue, mod, keystate, buttons, prev, history>>
------------------------------------------------------------------------------
(* pa_input_poll, before in_update.                                         *)

IsPower(e) == e[1] = Power
NotPower(q) ==
  LET kept[n \in 0 .. Len(q)] ==
        IF n = 0 THEN <<>> ELSE IF IsPower(q[n]) THEN kept[n - 1] ELSE Append(kept[n - 1], q[n])
  IN  kept[Len(q)]

\* POWER held for a second ends the game, if the core can save states.
PowerOff ==
  /\ phase = "frame" /\ power = "due"
  /\ phase' = "quit" /\ prev' = "power_off"
  /\ UNCHANGED <<held, repeat, queue, mod, keystate, buttons, power, history>>

\* The events pulled up to the first release of POWER; the others go back to the end of the
\* queue, behind those that did not fit.  A release of POWER ends the poll: what was pulled
\* with it and not yet put back is gone, and the keys are not updated.  A core that cannot
\* save states makes a hold without effect.
PollPower ==
  /\ phase = "frame"
  /\ LET pulled == First(queue, Pull)
         rest   == After(queue, Pull)
         ups    == {i \in DOMAIN pulled : pulled[i] = <<Power, FALSE>>}
         up     == IF ups = {} THEN 0 ELSE CHOOSE i \in ups : \A j \in ups : i <= j
         kept   == NotPower(IF up = 0 THEN pulled ELSE First(pulled, up))
         mixed  == Overtaken(rest, kept)
     IN  /\ queue' = rest \o kept
         /\ IF up = 0
              THEN /\ power' = IF <<Power, TRUE>> \in {pulled[i] : i \in DOMAIN pulled} THEN "on"
                               ELSE IF power = "due" THEN "off" ELSE power
                   /\ phase' = "update" /\ UNCHANGED prev
                   /\ Lose(mixed)
              ELSE /\ power' = "off" /\ prev' = "sleep" /\ UNCHANGED phase
                   /\ Lose(mixed \cup KeysOf(After(pulled, up)))
  /\ Owe(owed) /\ UNCHANGED <<held, repeat, mod, keystate, buttons, tap>>
------------------------------------------------------------------------------
(* in_sdl.c.  s: mod_state, the local copy of the key state, the events put *)
(* into the queue, the keys of events dropped.                              *)

switch_key(s, up, down) ==
  [s EXCEPT !.keys = (@ \ {up}) \cup {down}, !.put = @ \o <<<<up, FALSE>>, <<down, TRUE>>>>]

SwitchAll(s, from, to) ==
  LET t[n \in 0 .. Len(Keymap)] ==
        IF n = 0 THEN s
        ELSE LET k == Keymap[n]
             IN  IF from[k] \in t[n - 1].keys THEN switch_key(t[n - 1], from[k], to[k]) ELSE t[n - 1]
  IN  t[Len(Keymap)]

Self == [k \in PlainKeys |-> k]

\* A press of MENU is kept back; the buttons that are down become their other keys.
MenuDown(s) ==
  IF s.mod # "NO" THEN [s EXCEPT !.put = Append(@, <<Menu, TRUE>>)]
  ELSE [SwitchAll(s, Self, Out) EXCEPT !.mod = IF s.keys \cap PlainKeys = {} THEN "MAYBE" ELSE "YES"]

\* Mutant of MenuUp: after a combination the buttons still down are not turned back.
MenuUpUnswitched(s) ==
  CASE s.mod = "NO" -> [s EXCEPT !.put = Append(@, <<Menu, FALSE>>)]
    [] s.mod = "MAYBE" -> [s EXCEPT !.mod = "NO", !.put = @ \o <<<<Menu, TRUE>>, <<Menu, FALSE>>>>]
    [] s.mod = "YES" -> [s EXCEPT !.mod = "NO"]

\* A release of MENU: alone it was a tap, which is made up now; after a combination the
\* buttons still down become themselves again.
MenuUp(s) ==
  CASE s.mod = "NO" -> [s EXCEPT !.put = Append(@, <<Menu, FALSE>>)]
    [] s.mod = "MAYBE" -> [s EXCEPT !.mod = "NO", !.put = @ \o <<<<Menu, TRUE>>, <<Menu, FALSE>>>>]
    [] s.mod = "YES" -> [SwitchAll(s, Out, Self) EXCEPT !.mod = "NO"]

Moved(ks, k, down) == IF down THEN ks \cup {k} ELSE ks \ {k}

\* Mutant of OtherKey: a button pressed with MENU does not make it a combination.
OtherKeyMaybe(s, k, down) ==
  IF s.mod = "NO" THEN [s EXCEPT !.keys = Moved(@, k, down), !.put = Append(@, <<k, down>>)]
  ELSE IF k \in PlainKeys THEN [s EXCEPT !.keys = Moved(@, Out[k], down),
                                    !.put = Append(@, <<Out[k], down>>)]
  ELSE [s EXCEPT !.dropped = @ \cup {Base(k)}]

\* Any other key: itself without MENU, its other key with MENU; one that has none, the other
\* keys themselves included, is dropped.
OtherKey(s, k, down) ==
  IF s.mod = "NO" THEN [s EXCEPT !.keys = Moved(@, k, down), !.put = Append(@, <<k, down>>)]
  ELSE IF k \in PlainKeys THEN [s EXCEPT !.mod = "YES", !.keys = Moved(@, Out[k], down),
                                    !.put = Append(@, <<Out[k], down>>)]
  ELSE [s EXCEPT !.dropped = @ \cup {Base(k)}]

translate_combo_event(s, e) ==
  CASE e = <<Menu, TRUE>>  -> MenuDown(s)
    [] e = <<Menu, FALSE>> -> MenuUp(s)
    [] OTHER -> OtherKey(s, e[1], e[2])

Translated ==
  LET q == First(queue, Pull)
      s[n \in 0 .. Len(q)] ==
        IF n = 0 THEN [mod |-> mod, keys |-> keystate, put |-> <<>>, dropped |-> {}]
        ELSE translate_combo_event(s[n - 1], q[n])
  IN  s[Len(q)]

\* collect_events on the queue q: it ends at the first key bound to an action; the events
\* taken in the same go return to the end of the queue.
Ends(q) == {i \in DOMAIN q : q[i][1] \in EmuKeys}
Stop(q) == IF Ends(q) = {} THEN Len(q) ELSE CHOOSE i \in Ends(q) : \A j \in Ends(q) : i <= j
Taken(q) == ((Stop(q) + Collect - 1) \div Collect) * Collect
Left(q)  == After(q, Taken(q)) \o SubSeq(q, Stop(q) + 1, IF Taken(q) < Len(q) THEN Taken(q) ELSE Len(q))
Mixed(q) == Overtaken(After(q, Taken(q)), After(First(q, Taken(q)), Stop(q)))

\* handle_event on the events of q, one after the other.
Handled(q) ==
  LET ks[n \in 0 .. Len(q)] == IF n = 0 THEN keystate ELSE Moved(ks[n - 1], q[n][1], q[n][2])
  IN  ks[Len(q)]

Buttons(ks) == ks \cap PlainKeys
Action(ks)  == IF Menu \in ks THEN "menu" ELSE IF Out[FFKey] \in ks THEN "ff" ELSE "none"
------------------------------------------------------------------------------
(* in_update and handle_emu_action.                                         *)

\* An action that goes on from the poll before is not repeated.  The menu is the player's
\* until LeaveMenu; buttons are set when it returns.  ShowMenu turns SDL's repeats on, from
\* none, and nothing turns them off.  What collect_events puts back is
\* translated a second time at the next poll: with MENU down that is as good as lost.  What did
\* not fit into the array is collected untranslated: that makes a difference for MENU, and for
\* all keys with MENU down.
InUpdate ==
  /\ phase = "update"
  /\ LET s == Translated
         rest == After(queue, Pull)
         q == rest \o s.put
         ks == Handled(First(q, Stop(q)))
         act == Action(ks)
         mixed == Overtaken(rest, s.put) \cup Mixed(q)
         raw == KeysOf(rest) \cap (IF s.mod = "NO" THEN {Menu} ELSE KeysOf(rest))
         again == IF s.mod = "NO" THEN {} ELSE KeysOf(Left(q))
         gone == mixed \cup raw \cup again \cup s.dropped \cup ({Power} \cap KeysOf(queue))
     IN  /\ mod' = s.mod /\ keystate' = ks /\ queue' = Left(q)
         /\ prev' = act
         /\ Lose(gone)
         /\ IF act = "menu" /\ prev # "menu"
              THEN /\ phase' = "menu" /\ Owe(owed - 1) /\ tap' = FALSE
                   /\ repeat' = "none" /\ UNCHANGED buttons
              ELSE /\ phase' = "frame" /\ buttons' = Buttons(ks)
                   /\ Owe(owed) /\ UNCHANGED <<repeat, tap>>
  /\ UNCHANGED <<held, power>>

\* ShowMenu has its own loop, which takes every event.
\* "release that menu key" follows; it counts as a tap of its own if MENU went down again in
\* the poll that opened the menu.
LeaveMenu ==
  /\ phase = "menu" /\ phase' = "frame"
  /\ queue' = <<<<Menu, FALSE>>>>
  /\ buttons' = Buttons(keystate)
  /\ tap' = FALSE /\ owed' = 0
  /\ LET missed == {k \in PlainKeys \cup {Power} : (k \in keystate) # (k \in held)}
                     \cup (IF mod = "NO" THEN {} ELSE {Menu})
     IN  Lose(missed)
  /\ UNCHANGED <<held, repeat, mod, keystate, prev, power>>
------------------------------------------------------------------------------
Init ==
  /\ phase = "frame" /\ held = {} /\ repeat = "off" /\ queue = <<>>
  /\ mod = "NO" /\ keystate = {} /\ buttons = {} /\ prev = "none" /\ power = "off"
  /\ tap = FALSE /\ owed = 0 /\ clean = TRUE

Next ==
  \/ \E k \in PlainKeys \cup {Menu, Power} : Press(k) \/ Release(k)
  \/ Repeat \/ Elapse \/ PowerOff \/ PollPower \/ InUpdate \/ LeaveMenu

Spec == Init /\ [][Next]_vars
------------------------------------------------------------------------------
(* Properties.                                                              *)

\* Everything the player did has gone through, and MENU is up.
AtRest == phase = "frame" /\ queue = <<>> /\ Menu \notin held \cup keystate

\* The game sees the buttons the player holds, in whatever order MENU and the others were
\* pressed and released and however often a press is repeated: a button is stuck, or missed,
\* only after an event was dropped, swallowed or overtaken, or MENU itself was repeated.
SeesHeldKeys == AtRest /\ clean => \A k \in PlainKeys : k \in buttons <=> k \in held

\* The menu opens once for a tap of MENU, and never for MENU with another button, unless SDL
\* repeats MENU: see MCMenuRepeat.
MenuOncePerTap == clean => owed >= 0 /\ (AtRest => owed = 0)
===============================================================================
