------------------------------ MODULE MCPicoarch ------------------------------
(* Three parts of picoarch that meet in no property: the buttons (two besides MENU and POWER),
   the options of a core (one of them blocked), and the patches beside a game.  A behaviour is
   one of one of them (part). *)
EXTENDS Options, TLC

CONSTANTS Out, Keymap, Modifiers, FFKey, Pull, Collect, MaxQueue,
          Dumps, Bytes, MaxEnd, MaxRun, MaxRecords, None

VARIABLES part,
          poll, held, repeat, queue, mod, keystate, buttons, prev, power, tap, owed, clean,
          dump, patches, draft, intended, pass, in, out, out_size, i,
          written, src_rel_offset, dst_rel_offset, k, given

I == INSTANCE InputPoll WITH phase <- poll
P == INSTANCE Patch WITH game <- dump

ASSUME PicoarchAssumption == I!InputAssumption /\ P!PatchAssumption

input   == <<poll, held, repeat, queue, mod, keystate, buttons, prev, power, tap, owed, clean>>
patch   == <<dump, patches, draft, intended, pass, in, out, out_size, i,
             written, src_rel_offset, dst_rel_offset, k, given>>
all     == <<part, vars, input, patch>>

MCOut     == [B |-> "5", L |-> "q"]
MCKeymap  == <<"B", "L">>
MCDefault == [frameskip |-> "0", interval |-> "1", blocked |-> "0"]
MCDumps   == {<<0, 1>>, <<1>>}
MCRecords == <<2, 1>>

\* No file; a global file of an older version, with a blocked option and a value that is gone;
\* a global file and one of the game, neither with all options.
MCOldFiles ==
  { NoFile,
    Global :> [frameskip |-> "1", interval |-> "old", blocked |-> "1"],
    (Global :> [interval |-> "0", limit_frames |-> "0"])
      @@ ("game" :> [frameskip |-> "1", limit_frames |-> "1"]) }

MCInit ==
  /\ Init /\ I!Init /\ P!Init
  /\ part \in {"input", "options", "patch"}
  /\ part # "options" => files = NoFile /\ game = "game"
  /\ dump = <<0, 1>>

MCNext ==
  \/ part = "input" /\ I!Next /\ UNCHANGED <<part, vars, patch>>
  \/ part = "options" /\ Next /\ UNCHANGED <<part, input, patch>>
  \/ part = "patch" /\ P!Next /\ UNCHANGED <<part, vars, input>>

MCSpec == MCInit /\ [][MCNext]_all

\* InputPoll!SeesHeldKeys.
SeesHeldKeys == I!SeesHeldKeys

\* InputPoll!MenuOncePerTap.
MenuOncePerTap == I!MenuOncePerTap

\* Patch!PatchedAsMeant.
PatchedAsMeant == P!PatchedAsMeant
===============================================================================
