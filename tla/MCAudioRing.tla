----------------------------- MODULE MCAudioRing -----------------------------
(* The ring buffer at the size where every boundary is a few frames away, for a core whose    *)
(* rate is that of the device (frames are passed through) and for one whose rate is not.       *)
EXTENDS AudioRing

VARIABLE same_rate

Same == INSTANCE AudioRing WITH OutRate <- InRate

mcvars == <<vars, same_rate>>

MCInit == same_rate \in BOOLEAN /\ IF same_rate THEN Same!Init ELSE Init

MCNext == /\ UNCHANGED same_rate
          /\ \/ same_rate /\ Same!Next
             \/ ~same_rate /\ Next

MCSpec == MCInit /\ [][MCNext]_mcvars /\ WF_mcvars(Writing /\ UNCHANGED same_rate)
==============================================================================
