------------------------------ MODULE AudioRing ------------------------------
(* The ring buffer between the emulator's main thread, which feeds it from   *)
(* plat_sound_write, and the thread of the sound device, which empties it    *)
(* from plat_sound_callback.  Both hold SDL's audio lock while they touch    *)
(* the indices; the main thread gives it up while it waits for room.  The     *)
(* in-game menu changes how frames are stored between two calls.             *)
EXTENDS Integers, Sequences

CONSTANTS
  Lengths,       \* what plat_sound_resize_buffer may compute for buf_len
  MaxRequest,    \* frames the core hands over in one call, at most
  MaxFrames,     \* bound: frames handed over in all
  BatchSize,     \* BATCH_SIZE
  MaxTries,      \* rounds of the loop that waits for room (10)
  MaxCallback,   \* frames the device asks for at once, at most
  InRate,        \* in_sample_rate
  OutRate,       \* out_sample_rate
  Adjustment     \* sample_rate_adj

ASSUME RingAssumption ==
  /\ Lengths \subseteq Nat
  /\ MaxRequest \in Nat /\ MaxFrames \in Nat /\ MaxTries \in Nat
  /\ BatchSize \in Nat \ {0} /\ MaxCallback \in Nat \ {0}

ASSUME RateAssumption ==
  /\ InRate \in Nat \ {0} /\ OutRate \in Nat \ {0}
  /\ Adjustment \in Nat /\ Adjustment < OutRate

VARIABLES
  enable_drc,    \* the "Reduce judder" setting
  resampler,     \* how plat_sound_write stores frames
  buf,           \* the slots, 0 .. buf_len - 1; a frame is its number, 0 is silence
  buf_len,       \* 0 when there is no sound
  buf_w,         \* next slot to fill
  max_buf_w,     \* the slot the writer must not fill: the last one consumed
  buf_r,         \* next slot to empty
  lock,          \* who holds SDL's audio lock: "main" or "free"
  pc,            \* where the main thread is
  frames,        \* frames of this call still to be written
  amount,        \* frames of this batch still to be written
  tries,         \* rounds waited for room
  data,          \* number of the next frame the core hands over
  limit_frames,  \* the frame limiter is on; the value set aside while fast_forward
  fast_forward,  \* the core runs unlimited, and without sound
  adj,           \* adj_out_sample_rate
  diff,          \* audio_resample_nearest's accumulated difference
  lost,          \* history: frames the writer gave up without the limiter
  stored,        \* history: slots filled since the resampler was selected,
  consumed,      \*   and frames consumed since,
  carried        \*   and diff at that time

ring    == <<buf, buf_len, buf_w, max_buf_w, buf_r>>
writer  == <<pc, frames, amount, tries>>
rates   == <<adj, diff>>
setup   == <<enable_drc, resampler, limit_frames, fast_forward>>
since   == <<stored, consumed, carried>>
vars    == <<setup, ring, lock, writer, data, rates, lost, since>>
------------------------------------------------------------------------------
Full == buf_w = max_buf_w

\* Mutant of Following: the index wraps one slot too late.
FollowingLate(i) == IF i + 1 > buf_len THEN 0 ELSE i + 1

Following(i) == IF i + 1 >= buf_len THEN 0 ELSE i + 1

Buffered == IF buf_w >= buf_r THEN buf_w - buf_r ELSE buf_w + buf_len - buf_r

\* The slot i places after the read index.
Slot(i) == IF buf_r + i >= buf_len THEN buf_r + i - buf_len ELSE buf_r + i

AtMost(a, b) == IF a < b THEN a ELSE b

\* plat_sound_occupancy, and the output rate the drc writer picks from it.
Occupancy == (Buffered * 100) \div buf_len

DrcRate ==
  IF Occupancy < 40 THEN OutRate + Adjustment
  ELSE IF Occupancy > 60 THEN OutRate - Adjustment
  ELSE OutRate

\* plat_sound_write is called with n frames, which it is not in fast forward; drc reads
\* the occupancy without the lock.
Write(n) ==
  /\ pc = "idle" /\ ~fast_forward /\ buf_len # 0 /\ data + n <= MaxFrames
  /\ frames' = n /\ pc' = "lock"
  /\ adj' = IF resampler = "drc" THEN DrcRate ELSE adj
  /\ UNCHANGED <<setup, ring, lock, amount, tries, data, diff, lost, since>>

Lock ==
  /\ pc = "lock" /\ lock = "free"
  /\ lock' = "main" /\ pc' = "batch"
  /\ UNCHANGED <<setup, ring, frames, amount, tries, data, rates, lost, since>>

\* The outer loop: another batch, or done.
Batch ==
  /\ pc = "batch" /\ frames > 0
  /\ pc' = "room" /\ tries' = 0 /\ amount' = AtMost(BatchSize, frames)
  /\ UNCHANGED <<setup, ring, lock, frames, data, rates, lost, since>>

Return ==
  /\ pc = "batch" /\ frames = 0
  /\ pc' = "idle" /\ lock' = "free"
  /\ UNCHANGED <<setup, ring, frames, amount, tries, data, rates, lost, since>>

\* Mutants of Wait: the lock is kept; the call waits whether frames are limited or not.
WaitLocked ==
  /\ pc = "room" /\ tries < MaxTries /\ Full
  /\ tries' = tries + 1
  /\ IF limit_frames
       THEN pc' = "delay" /\ UNCHANGED <<lock, frames, data, lost>>
       ELSE /\ pc' = "idle" /\ lock' = "free" /\ frames' = 0
            /\ data' = data + frames /\ lost' = lost + frames
  /\ UNCHANGED <<setup, ring, amount, rates, since>>

WaitAlways ==
  /\ pc = "room" /\ tries < MaxTries /\ Full
  /\ tries' = tries + 1 /\ lock' = "free" /\ pc' = "delay"
  /\ UNCHANGED <<setup, ring, frames, amount, data, rates, lost, since>>

\* No room: the lock is given up, for a moment when the limiter is on; without it the
\* call returns and what is left of its frames is dropped.
Wait ==
  /\ pc = "room" /\ tries < MaxTries /\ Full
  /\ tries' = tries + 1 /\ lock' = "free"
  /\ IF limit_frames
       THEN pc' = "delay" /\ UNCHANGED <<frames, data, lost>>
       ELSE /\ pc' = "idle" /\ frames' = 0
            /\ data' = data + frames /\ lost' = lost + frames
  /\ UNCHANGED <<setup, ring, amount, rates, since>>

Relock ==
  /\ pc = "delay" /\ lock = "free"
  /\ lock' = "main" /\ pc' = "room"
  /\ UNCHANGED <<setup, ring, frames, amount, tries, data, rates, lost, since>>

\* There is room, or the writer has waited long enough to look again at "frames".
EndWait ==
  /\ pc = "room" /\ (Full => tries >= MaxTries)
  /\ pc' = "put"
  /\ UNCHANGED <<setup, ring, lock, frames, amount, tries, data, rates, lost, since>>

\* One call of the resampler: whether it stores the frame, whether it is done with it.
Stores   == resampler = "passthrough" \/ diff < adj
\* Mutant of NewDiff: the difference is not carried over from frame to frame.
NewDiffForgotten == IF resampler # "passthrough" /\ Stores THEN InRate ELSE diff

NewDiff  == IF resampler # "passthrough" /\ Stores THEN diff + InRate ELSE diff
Consumes == resampler = "passthrough" \/ NewDiff >= adj

Put ==
  /\ pc = "put" /\ amount > 0 /\ ~Full
  /\ IF Stores
       THEN /\ buf' = [buf EXCEPT ![buf_w] = data]
            /\ buf_w' = Following(buf_w) /\ stored' = stored + 1
       ELSE UNCHANGED <<buf, buf_w, stored>>
  /\ diff' = IF resampler # "passthrough" /\ Consumes THEN NewDiff - adj ELSE NewDiff
  /\ IF Consumes
       THEN /\ data' = data + 1 /\ amount' = amount - 1 /\ frames' = frames - 1
            /\ consumed' = consumed + 1
       ELSE UNCHANGED <<data, amount, frames, consumed>>
  /\ UNCHANGED <<setup, buf_len, max_buf_w, buf_r, lock, pc, tries, adj, lost, carried>>

EndPut ==
  /\ pc = "put" /\ (amount = 0 \/ Full)
  /\ pc' = "batch"
  /\ UNCHANGED <<setup, ring, lock, frames, amount, tries, data, rates, lost, since>>

\* Mutant of Callback: the reader runs past the frames there are.
CallbackPastEnd(n) ==
  /\ lock = "free" /\ buf_len # 0 /\ Buffered > 0
  /\ buf_r' = Slot(n) /\ max_buf_w' = Slot(n - 1)
  /\ UNCHANGED <<setup, buf, buf_len, buf_w, lock, writer, data, rates, lost, since>>

\* The device asks for n frames: it gets those there are, then silence.
Callback(n) ==
  /\ lock = "free" /\ buf_len # 0
  /\ LET k == AtMost(n, Buffered) IN
       /\ k > 0
       /\ buf_r' = Slot(k)
       /\ max_buf_w' = Slot(k - 1)
  /\ UNCHANGED <<setup, buf, buf_len, buf_w, lock, writer, data, rates, lost, since>>

\* Mutant of Remade: the read index is not reset.
RemadeKeepsRead(len) ==
  /\ buf_len' = len
  /\ IF len = 0
       THEN UNCHANGED <<buf, buf_w, max_buf_w, buf_r>>
       ELSE /\ buf' = [i \in 0 .. len - 1 |-> 0]
            /\ buf_w' = 0 /\ buf_r' = AtMost(buf_r, len - 1) /\ max_buf_w' = len - 1

\* plat_sound_resize_buffer: the frames still in the buffer are gone.  A length of 0
\* leaves the indices alone.
Remade(len) ==
  /\ buf_len' = len
  /\ IF len = 0
       THEN UNCHANGED <<buf, buf_w, max_buf_w, buf_r>>
       ELSE /\ buf' = [i \in 0 .. len - 1 |-> 0]
            /\ buf_w' = 0 /\ buf_r' = 0 /\ max_buf_w' = len - 1

\* adjust_audio, by the main thread between two frames of the core.
Resize(len) ==
  /\ pc = "idle" /\ lock = "free"
  /\ Remade(len)
  /\ UNCHANGED <<setup, lock, writer, data, rates, lost, since>>

\* plat_sound_select_resampler.
Selected(drc) ==
  IF drc THEN "drc" ELSE IF InRate = OutRate THEN "passthrough" ELSE "nearest"

\* The video options of the in-game menu are left: plat_reinit remakes the buffer and
\* selects the resampler.  adj stays.  (A menu is only open when fast_forward is off.)
LeaveOptions(drc, len) ==
  /\ pc = "idle" /\ lock = "free" /\ ~fast_forward
  /\ enable_drc' = drc /\ resampler' = Selected(drc)
  /\ Remade(len)
  /\ stored' = 0 /\ consumed' = 0 /\ carried' = diff
  /\ UNCHANGED <<limit_frames, fast_forward, lock, writer, data, rates, lost>>

\* The menu's "Restore defaults": set_defaults and nothing else.
RestoreDefaults ==
  /\ pc = "idle" /\ ~fast_forward
  /\ enable_drc' = FALSE /\ limit_frames' = TRUE
  /\ UNCHANGED <<resampler, fast_forward, ring, lock, writer, data, rates, lost, since>>

\* toggle_fast_forward, between two calls.
ToggleFastForward ==
  /\ pc = "idle"
  /\ fast_forward' = ~fast_forward
  /\ UNCHANGED <<enable_drc, resampler, limit_frames, ring, lock, writer, data, rates, lost,
                 since>>
------------------------------------------------------------------------------
Init ==
  /\ enable_drc \in BOOLEAN /\ resampler = Selected(enable_drc)
  /\ buf_len \in Lengths \ {0}
  /\ buf = [i \in 0 .. buf_len - 1 |-> 0]
  /\ buf_w = 0 /\ buf_r = 0 /\ max_buf_w = buf_len - 1
  /\ lock = "free" /\ pc = "idle" /\ frames = 0 /\ amount = 0 /\ tries = 0
  /\ data = 1 /\ limit_frames \in BOOLEAN /\ fast_forward = FALSE
  /\ adj = OutRate /\ diff = 0
  /\ lost = 0 /\ stored = 0 /\ consumed = 0 /\ carried = 0

Writing == Lock \/ Batch \/ Return \/ Wait \/ Relock \/ EndWait \/ Put \/ EndPut
Playing == \E n \in 1 .. MaxCallback : Callback(n)

Main ==
  \/ Writing
  \/ \E n \in 1 .. MaxRequest : Write(n)
  \/ \E len \in Lengths : Resize(len) \/ \E drc \in BOOLEAN : LeaveOptions(drc, len)
  \/ RestoreDefaults \/ ToggleFastForward

Next == Main \/ Playing

Spec == Init /\ [][Next]_vars

\* The main thread finishes the call it is in: the lock is free whenever it asks.
FairSpec == Spec /\ WF_vars(Writing)
------------------------------------------------------------------------------
(* Properties.                                                              *)

\* The types: of the settings, and of the rest.
SwitchesOK == enable_drc \in BOOLEAN /\ limit_frames \in BOOLEAN /\ fast_forward \in BOOLEAN

NumbersOK ==
  /\ resampler \in {"passthrough", "nearest", "drc"}
  /\ buf_len \in Nat /\ buf_w \in Nat /\ max_buf_w \in Nat /\ buf_r \in Nat
  /\ buf_len # 0 => buf \in [0 .. buf_len - 1 -> Nat]
  /\ lock \in {"free", "main"}
  /\ pc \in {"idle", "lock", "batch", "room", "delay", "put"}
  /\ frames \in Nat /\ amount \in Nat /\ tries \in Nat /\ data \in Nat
  /\ adj \in OutRate - Adjustment .. OutRate + Adjustment
  /\ diff \in Nat /\ lost \in Nat
  /\ stored \in Nat /\ consumed \in Nat /\ carried \in Nat

TypeOK == SwitchesOK /\ NumbersOK

\* No index ever leaves the buffer, and the writer's limit is always the slot just
\* behind the reader: buf_w = max_buf_w says "full" and buf_w = buf_r says "empty",
\* and neither is ever taken for the other, whatever the two threads do.
RingOK ==
  buf_len # 0 =>
    /\ buf_w < buf_len /\ buf_r < buf_len
    /\ max_buf_w = IF buf_r = 0 THEN buf_len - 1 ELSE buf_r - 1
    /\ Full <=> Buffered = buf_len - 1

\* The frames waiting to be played, the oldest first.
Waiting == IF buf_len = 0 THEN <<>> ELSE [i \in 1 .. Buffered |-> buf[Slot(i - 1)]]

\* They are in the order the core made them: a resampler repeats or skips a frame but
\* never goes back, and without one no frame is missing unless the writer dropped it.
InOrder ==
  \A i \in 1 .. Len(Waiting) :
    LET next == IF i = Len(Waiting) THEN data ELSE Waiting[i + 1] IN
      IF resampler = "passthrough"
        THEN IF lost = 0 THEN Waiting[i] + 1 = next ELSE Waiting[i] < next
        ELSE Waiting[i] <= next

\* The nearest resampler keeps its rate: over any number of calls, batches, dropped
\* frames and resizes, the frames stored since it was selected last as long, at the rate
\* adj, as the frames consumed, to within the difference carried over - and that is less
\* than one frame of either.
KeepsRate ==
  resampler = "nearest" =>
    /\ stored * InRate = consumed * adj + (diff - carried)
    /\ diff < InRate \/ diff < OutRate + Adjustment

\* The ring buffer is a queue: what is put in comes out in order and once.
Fifo == INSTANCE AudioFifo WITH
  Frames <- 1 .. MaxFrames, Capacities <- {n - 1 : n \in Lengths \ {0}} \cup {0},
  queue <- Waiting, capacity <- IF buf_len = 0 THEN 0 ELSE buf_len - 1

IsFifo == Fifo!Spec

\* A call returns, so the core is never blocked for ever: without the frame limiter also
\* when the device takes nothing at all, with it if the device keeps running.
WriteReturns ==
  /\ (pc # "idle" /\ ~limit_frames) ~> pc = "idle"
  /\ SF_vars(Playing) => (pc # "idle" ~> pc = "idle")
==============================================================================
