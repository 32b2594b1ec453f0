------------------------------ MODULE MCSession ------------------------------
(* Two games, one whose core has no states; the card may come from an older    *)
(* installation, with states and a request to resume automatically.            *)
EXTENDS Session, TLC

CONSTANTS a, b

MCGames     == {a, b}
MCStateful  == {a}
MCSlots     == {3, DefaultSlot, AutoSlot}
MCMenuSlots == {3}
MCSlotOf    == a :> 3
MCOldAuto   == {None, a}

MCOldSaves ==
  [f \in MCGames \X (MCSlots \cup {Battery}) |->
     IF f = <<a, 3>> THEN [pos |-> 1, battery |-> 0]
     ELSE IF f = <<a, AutoSlot>> THEN [pos |-> 1, battery |-> 1]
     ELSE None]
==============================================================================
