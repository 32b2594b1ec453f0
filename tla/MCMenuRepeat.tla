----------------------------- MODULE MCMenuRepeat -----------------------------
(* InputPoll with a player who takes time: a button is pressed, released or repeated only
   when all that came before has been handled, so nothing is dropped or overtaken. *)
EXTENDS InputPoll

MCOut    == [L |-> "q"]
MCKeymap == <<"L">>

Unhurried == phase = "frame" /\ queue = <<>>

MCNext ==
  \/ Unhurried /\ (Repeat \/ \E k \in PlainKeys \cup {Menu} : Press(k) \/ Release(k))
  \/ PollPower \/ InUpdate \/ LeaveMenu

MCSpec == Init /\ [][MCNext]_vars

\* "Pressed mod, maybe a combo? Ignore the keypress until it's determined" (in_sdl.c:310-311):
\* the menu does not open while MENU is still down and may yet be part of a combination.
IgnoredUntilDetermined == [][phase' = "menu" /\ phase # "menu" => Menu \notin held]_vars
===============================================================================
