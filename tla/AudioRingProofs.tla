--------------------------- MODULE AudioRingProofs ---------------------------
(* Type correctness of the audio ring, that "full" and "empty" are never     *)
(* confused, that the nearest resampler keeps its rate, that the ring is a   *)
(* bounded queue and that nothing stored is overtaken - for buffers of any   *)
(* length, calls of any size, and any rates.                                 *)
EXTENDS AudioRing, TLAPS

\* The lock is held exactly inside the loops, and only a call with a buffer gets there.
CallOK ==
  /\ (lock = "main") <=> pc \in {"batch", "room", "put"}
  /\ pc # "idle" => buf_len # 0
  /\ amount <= frames \/ pc \in {"idle", "lock", "batch"}

\* The difference a resampler carries over is less than one frame of either rate.
RateOK == diff < InRate \/ diff < OutRate + Adjustment

IInv == NumbersOK /\ RingOK /\ CallOK /\ RateOK

USE RingAssumption, RateAssumption

LEMMA InitInv == Init => IInv
<1> SUFFICES ASSUME Init PROVE IInv
  OBVIOUS
<1>1. resampler \in {"passthrough", "nearest", "drc"}
  BY DEF Init, Selected
<1>2. adj \in OutRate - Adjustment .. OutRate + Adjustment
  BY DEF Init
<1>3. NumbersOK
  BY <1>1, <1>2 DEF Init, NumbersOK
<1>4. RingOK /\ CallOK /\ RateOK
  BY DEF Init, RingOK, CallOK, RateOK, Full, Buffered
<1> QED BY <1>3, <1>4 DEF IInv

LEMMA WriteInv == ASSUME IInv, NEW n \in 1 .. MaxRequest, Write(n) PROVE IInv'
<1>1. adj' \in OutRate - Adjustment .. OutRate + Adjustment
  BY DEF IInv, NumbersOK, Write, DrcRate
<1>2. NumbersOK'
  BY <1>1 DEF IInv, NumbersOK, Write, ring, setup, since
<1>3. RingOK' /\ CallOK' /\ RateOK'
  BY DEF IInv, NumbersOK, RingOK, CallOK, RateOK, Write, Full, Buffered, ring, setup, since
<1> QED BY <1>2, <1>3 DEF IInv

LEMMA LoopInv ==
  ASSUME IInv, Lock \/ Batch \/ Return \/ Wait \/ Relock \/ EndWait \/ EndPut
           \/ RestoreDefaults \/ ToggleFastForward
  PROVE IInv'
<1> USE DEF IInv, NumbersOK, RingOK, CallOK, RateOK, Full, Buffered, ring, rates, writer, setup, since
<1>1. CASE Lock BY <1>1 DEF Lock
<1>2. CASE Batch BY <1>2 DEF Batch, AtMost
<1>3. CASE Return BY <1>3 DEF Return
<1>4. CASE Wait BY <1>4 DEF Wait
<1>5. CASE Relock BY <1>5 DEF Relock
<1>6. CASE EndWait BY <1>6 DEF EndWait
<1>7. CASE EndPut BY <1>7 DEF EndPut
<1>8. CASE RestoreDefaults BY <1>8 DEF RestoreDefaults
<1>9. CASE ToggleFastForward BY <1>9 DEF ToggleFastForward
<1> QED BY <1>1, <1>2, <1>3, <1>4, <1>5, <1>6, <1>7, <1>8, <1>9

\* The third part of RingOK is arithmetic: it follows from where the indices are.
LEMMA FullIffOneLess ==
  ASSUME NEW len \in Nat \ {0}, NEW w \in 0 .. len - 1, NEW r \in 0 .. len - 1
  PROVE  (w = IF r = 0 THEN len - 1 ELSE r - 1)
           <=> (IF w >= r THEN w - r ELSE w + len - r) = len - 1
OBVIOUS

Indices ==
  /\ buf_len \in Nat /\ buf_w \in Nat /\ buf_r \in Nat
  /\ buf_len # 0 => /\ buf_w < buf_len /\ buf_r < buf_len
                    /\ max_buf_w = IF buf_r = 0 THEN buf_len - 1 ELSE buf_r - 1

LEMMA RingFromIndices == Indices => RingOK
<1> SUFFICES ASSUME Indices PROVE RingOK
  OBVIOUS
<1>1. CASE buf_len = 0 BY <1>1 DEF RingOK
<1>2. CASE buf_len # 0
  <2>1. buf_len \in Nat \ {0} /\ buf_w \in 0 .. buf_len - 1 /\ buf_r \in 0 .. buf_len - 1
    BY <1>2 DEF Indices
  <2> QED BY <1>2, <2>1, FullIffOneLess DEF Indices, RingOK, Full, Buffered
<1> QED BY <1>1, <1>2

LEMMA PutInv == ASSUME IInv, Put PROVE IInv'
<1>0. buf_len \in Nat \ {0} /\ buf_w \in 0 .. buf_len - 1 /\ data \in Nat /\ stored \in Nat
      /\ buf \in [0 .. buf_len - 1 -> Nat] /\ buf_len' = buf_len
  BY DEF IInv, NumbersOK, RingOK, CallOK, Put
<1>1. /\ buf_w' \in Nat /\ stored' \in Nat
      /\ buf' \in [0 .. buf_len - 1 -> Nat]
      /\ buf_w' < buf_len
  <2>1. CASE Stores
    <3>1. /\ buf' = [buf EXCEPT ![buf_w] = data] /\ buf_w' = Following(buf_w)
          /\ stored' = stored + 1
      BY <2>1 DEF Put
    <3> QED BY <1>0, <3>1 DEF Following
  <2>2. CASE ~Stores
    <3>1. UNCHANGED <<buf, buf_w, stored>> BY <2>2 DEF Put
    <3> QED BY <1>0, <3>1
  <2> QED BY <2>1, <2>2
<1>2. /\ diff' \in Nat /\ data' \in Nat /\ amount' \in Nat /\ frames' \in Nat
      /\ consumed' \in Nat
  BY DEF IInv, NumbersOK, CallOK, Put, NewDiff, Consumes, Stores
<1>6. RateOK'
  BY DEF IInv, NumbersOK, RateOK, Put, NewDiff, Consumes, Stores
<1>3. amount' <= frames'
  BY DEF IInv, NumbersOK, CallOK, Put
<1>4. NumbersOK'
  BY <1>1, <1>2 DEF IInv, NumbersOK, Put, setup
<1>5. RingOK'
  <2>1. Indices'
    BY <1>0, <1>1 DEF Indices, IInv, NumbersOK, RingOK, Put
  <2> QED BY <2>1, RingFromIndices, PTL
<1> QED
  BY <1>3, <1>4, <1>5, <1>6 DEF IInv, CallOK, Put

LEMMA CallbackInv == ASSUME IInv, NEW n \in 1 .. MaxCallback, Callback(n) PROVE IInv'
<1>1. AtMost(n, Buffered) \in Nat /\ AtMost(n, Buffered) <= Buffered
  BY DEF IInv, NumbersOK, RingOK, AtMost, Buffered, Callback
<1>2. PICK k \in 1 .. Buffered : buf_r' = Slot(k) /\ max_buf_w' = Slot(k - 1)
  BY <1>1 DEF Callback, IInv, NumbersOK, RingOK, Buffered
<1> HIDE DEF AtMost
<1>3. /\ buf_len' = buf_len /\ buf_w' = buf_w /\ buf_len \in Nat \ {0}
      /\ buf_w \in 0 .. buf_len - 1 /\ buf_r \in 0 .. buf_len - 1
  BY DEF Callback, IInv, NumbersOK, RingOK
<1>4. /\ buf_r' \in 0 .. buf_len - 1
      /\ max_buf_w' = IF buf_r' = 0 THEN buf_len - 1 ELSE buf_r' - 1
  <2>1. k \in 1 .. (IF buf_w >= buf_r THEN buf_w - buf_r ELSE buf_w + buf_len - buf_r)
    BY DEF Buffered
  <2> QED BY <1>2, <1>3, <2>1 DEF Slot
<1>5. RingOK'
  <2>1. Indices'
    BY <1>3, <1>4 DEF Indices
  <2> QED BY <2>1, RingFromIndices, PTL
<1>6. NumbersOK'
  <2>1. buf_r' \in Nat /\ max_buf_w' \in Nat
    <3>1. buf_len \in Nat \ {0} /\ buf_r' \in 0 .. buf_len - 1
      BY <1>3, <1>4
    <3>2. max_buf_w' = buf_len - 1 \/ (buf_r' # 0 /\ max_buf_w' = buf_r' - 1)
      BY <1>4, Zenon
    <3> QED BY <3>1, <3>2
  <2>2. UNCHANGED <<resampler, buf, buf_len, buf_w, lock, pc, frames, amount, tries, data,
                    adj, diff, lost, stored, consumed, carried>>
    BY Zenon DEF Callback, writer, rates, setup, since
  <2> QED BY <2>1, <2>2 DEF IInv, NumbersOK
<1> QED
  BY <1>5, <1>6 DEF IInv, CallOK, RateOK, Callback, writer, rates

LEMMA RemadeInv ==
  ASSUME IInv, NEW len \in Lengths, Remade(len)
  PROVE  /\ buf_len' \in Nat /\ buf_w' \in Nat /\ max_buf_w' \in Nat /\ buf_r' \in Nat
         /\ buf_len' # 0 => buf' \in [0 .. buf_len' - 1 -> Nat]
         /\ RingOK'
<1>1. len \in Nat
  OBVIOUS
<1> QED
  BY <1>1 DEF IInv, NumbersOK, Remade, RingOK, Full, Buffered

LEMMA ResizeInv == ASSUME IInv, NEW len \in Lengths, Resize(len) PROVE IInv'
<1> QED
  BY RemadeInv DEF IInv, NumbersOK, CallOK, RateOK, Resize, writer, rates, setup, since

LEMMA LeaveOptionsInv ==
  ASSUME IInv, NEW len \in Lengths, NEW drc \in BOOLEAN, LeaveOptions(drc, len)
  PROVE  IInv'
<1>1. resampler' \in {"passthrough", "nearest", "drc"}
  BY DEF LeaveOptions, Selected
<1> QED
  BY <1>1, RemadeInv DEF IInv, NumbersOK, CallOK, RateOK, LeaveOptions, writer, rates

LEMMA StutterInv == ASSUME IInv, UNCHANGED vars PROVE IInv'
BY DEF IInv, NumbersOK, RingOK, CallOK, RateOK, Full, Buffered, vars, ring, writer, rates, setup, since

\* Every step keeps the inductive invariant.
LEMMA StepInv == IInv /\ [Next]_vars => IInv'
<1> SUFFICES ASSUME IInv, [Next]_vars PROVE IInv'
  OBVIOUS
<1>1. CASE Writing
  BY <1>1, LoopInv, PutInv DEF Writing
<1>2. CASE \E n \in 1 .. MaxRequest : Write(n)
  BY <1>2, WriteInv
<1>3. CASE \E len \in Lengths : Resize(len) \/ \E drc \in BOOLEAN : LeaveOptions(drc, len)
  BY <1>3, ResizeInv, LeaveOptionsInv
<1>4. CASE RestoreDefaults \/ ToggleFastForward
  BY <1>4, LoopInv
<1>5. CASE Playing
  BY <1>5, CallbackInv DEF Playing
<1>6. CASE UNCHANGED vars
  BY <1>6, StutterInv
<1> QED
  BY <1>1, <1>2, <1>3, <1>4, <1>5, <1>6 DEF Next, Main

LEMMA Invariance == Spec => []IInv
<1> USE InitInv, StepInv
<1> QED BY PTL DEF Spec

LEMMA SwitchesInit == Init => SwitchesOK
BY Zenon DEF Init, SwitchesOK

LEMMA SwitchesStep == SwitchesOK /\ [Next]_vars => SwitchesOK'
<1> SUFFICES ASSUME SwitchesOK, [Next]_vars PROVE SwitchesOK'
  OBVIOUS
<1> USE DEF SwitchesOK, setup
<1>1. CASE Writing
  BY <1>1, Zenon DEF Writing, Lock, Batch, Return, Wait, Relock, EndWait, Put, EndPut
<1>2. CASE \E n \in 1 .. MaxRequest : Write(n)
  BY <1>2, Zenon DEF Write
<1>3. CASE \E len \in Lengths : Resize(len) \/ \E drc \in BOOLEAN : LeaveOptions(drc, len)
  BY <1>3, Zenon DEF Resize, LeaveOptions
<1>4. CASE RestoreDefaults
  BY <1>4, Zenon DEF RestoreDefaults
<1>5. CASE ToggleFastForward
  <2>1. (~fast_forward) \in BOOLEAN
    OBVIOUS
  <2> QED BY <1>5, <2>1, Zenon DEF ToggleFastForward
<1>6. CASE Playing
  BY <1>6, Zenon DEF Playing, Callback
<1>7. CASE UNCHANGED vars
  BY <1>7, Zenon DEF vars
<1> QED
  BY <1>1, <1>2, <1>3, <1>4, <1>5, <1>6, <1>7, Zenon DEF Next, Main

\* The settings are switches and the indices keep their types, for every buffer length
\* and request size.
THEOREM AudioTypeCorrect == Spec => []TypeOK
<1>1. IInv => NumbersOK BY DEF IInv
<1> QED BY <1>1, Invariance, SwitchesInit, SwitchesStep, PTL DEF Spec, TypeOK

\* Whatever the device and the core do, the indices stay in the buffer and the
\* writer's limit right behind the reader: a full ring is never read as an empty one.
THEOREM AudioRingOK == Spec => []RingOK
<1>1. IInv => RingOK BY DEF IInv
<1> QED BY <1>1, Invariance, PTL

-----------------------------------------------------------------------------
(* The nearest resampler: what one call of it adds to either side of the     *)
(* balance between the frames stored and the frames consumed.                *)
LEMMA Balance ==
  ASSUME NEW s \in Int, NEW d \in Int, NEW i \in Int, NEW o \in Int, NEW x \in Int,
         s * i = d * o + x
  PROVE  /\ (s + 1) * i = d * o + (x + i)
         /\ s * i = (d + 1) * o + (x - o)
         /\ (s + 1) * i = (d + 1) * o + (x + i - o)
<1>1. (s + 1) * i = s * i + i OBVIOUS
<1>2. (d + 1) * o = d * o + o OBVIOUS
<1>3. s * i \in Int /\ d * o \in Int OBVIOUS
<1> QED BY <1>1, <1>2, <1>3

LEMMA KeepsRateInit == Init => KeepsRate
<1> SUFFICES ASSUME Init PROVE KeepsRate
  OBVIOUS
<1>1. stored = 0 /\ consumed = 0 /\ diff = 0 /\ carried = 0 /\ adj = OutRate BY DEF Init
<1>2. 0 * InRate = 0 * OutRate + (0 - 0) OBVIOUS
<1> QED BY <1>1, <1>2 DEF KeepsRate

LEMMA KeepsRatePut == ASSUME IInv, KeepsRate, Put PROVE KeepsRate'
<1> SUFFICES ASSUME resampler = "nearest"
             PROVE  stored' * InRate = consumed' * adj + (diff' - carried)
  <2>1. UNCHANGED <<resampler, adj, carried>> /\ RateOK'
    BY PutInv DEF Put, setup, IInv
  <2> QED BY <2>1 DEF KeepsRate, RateOK
<1>1. /\ stored \in Int /\ consumed \in Int /\ InRate \in Int /\ adj \in Int
      /\ diff \in Int /\ carried \in Int
      /\ stored * InRate = consumed * adj + (diff - carried)
  BY DEF IInv, NumbersOK, KeepsRate
<1>2. CASE diff < adj /\ diff + InRate >= adj
  <2>1. stored' = stored + 1 /\ diff' = diff + InRate - adj /\ consumed' = consumed + 1
    BY <1>1, <1>2 DEF Put, Stores, Consumes, NewDiff
  <2>2. (stored + 1) * InRate = (consumed + 1) * adj + (diff - carried + InRate - adj)
    BY <1>1, Balance
  <2>3. diff' - carried = diff - carried + InRate - adj
    BY <1>1, <2>1
  <2> QED BY <2>1, <2>2, <2>3, Zenon
<1>3. CASE diff < adj /\ ~(diff + InRate >= adj)
  <2>1. stored' = stored + 1 /\ diff' = diff + InRate /\ consumed' = consumed
    BY <1>1, <1>3 DEF Put, Stores, Consumes, NewDiff
  <2>2. (stored + 1) * InRate = consumed * adj + (diff - carried + InRate)
    BY <1>1, Balance
  <2>3. diff' - carried = diff - carried + InRate
    BY <1>1, <2>1
  <2> QED BY <2>1, <2>2, <2>3, Zenon
<1>4. CASE ~(diff < adj)
  <2>1. stored' = stored /\ diff' = diff - adj /\ consumed' = consumed + 1
    BY <1>1, <1>4 DEF Put, Stores, Consumes, NewDiff
  <2>2. stored * InRate = (consumed + 1) * adj + (diff - carried - adj)
    BY <1>1, Balance
  <2>3. diff' - carried = diff - carried - adj
    BY <1>1, <2>1
  <2> QED BY <2>1, <2>2, <2>3, Zenon
<1> QED BY <1>2, <1>3, <1>4

LEMMA KeepsRateLeave ==
  ASSUME IInv, NEW len \in Lengths, NEW drc \in BOOLEAN, LeaveOptions(drc, len)
  PROVE  KeepsRate'
<1>1. stored' = 0 /\ consumed' = 0 /\ carried' = diff /\ diff' = diff /\ adj' = adj
      /\ diff \in Int /\ adj \in Int
  BY DEF LeaveOptions, rates, IInv, NumbersOK
<1>2. 0 * InRate = 0 * adj + (diff - diff)
  BY <1>1
<1>3. diff' < InRate \/ diff' < OutRate + Adjustment
  BY <1>1 DEF IInv, RateOK
<1> QED BY <1>1, <1>2, <1>3 DEF KeepsRate

\* Every other step leaves the balance alone: only drc writes change adj.
LEMMA KeepsRateStep == IInv /\ KeepsRate /\ [Next]_vars => KeepsRate'
<1> SUFFICES ASSUME IInv, KeepsRate, [Next]_vars, ~Put,
                    ~\E len \in Lengths : \E drc \in BOOLEAN : LeaveOptions(drc, len)
             PROVE  KeepsRate'
  BY KeepsRatePut, KeepsRateLeave
<1>1. /\ stored' = stored /\ consumed' = consumed /\ carried' = carried /\ diff' = diff
      /\ resampler' = resampler /\ (resampler = "nearest" => adj' = adj)
  <2> USE DEF ring, writer, rates, setup, since
  <2>1. CASE Lock BY <2>1 DEF Lock
  <2>2. CASE Batch BY <2>2 DEF Batch
  <2>3. CASE Return BY <2>3 DEF Return
  <2>4. CASE Wait BY <2>4 DEF Wait
  <2>5. CASE Relock BY <2>5 DEF Relock
  <2>6. CASE EndWait BY <2>6 DEF EndWait
  <2>7. CASE EndPut BY <2>7 DEF EndPut
  <2>8. CASE RestoreDefaults BY <2>8 DEF RestoreDefaults
  <2>9. CASE ToggleFastForward BY <2>9 DEF ToggleFastForward
  <2>10. CASE \E n \in 1 .. MaxRequest : Write(n) BY <2>10 DEF Write
  <2>11. CASE \E len \in Lengths : Resize(len) BY <2>11 DEF Resize
  <2>12. CASE Playing BY <2>12 DEF Playing, Callback
  <2>13. CASE UNCHANGED vars BY <2>13 DEF vars
  <2> QED BY <2>1, <2>2, <2>3, <2>4, <2>5, <2>6, <2>7, <2>8, <2>9, <2>10, <2>11, <2>12, <2>13
          DEF Next, Main, Writing
<1> QED BY <1>1 DEF KeepsRate

\* For any pair of rates, any buffer and any interleaving with the device, the nearest
\* resampler stores as much time, at the rate it was left with, as it consumes.
THEOREM AudioKeepsRate == Spec => []KeepsRate
<1> USE KeepsRateInit, KeepsRateStep
<1> QED BY Invariance, PTL DEF Spec
-----------------------------------------------------------------------------
(* The ring as a queue: what is in it, of any length and wherever its indices *)
(* are, and what filling a slot and emptying some does to that.               *)
Place(len, r, i) == IF r + i >= len THEN r + i - len ELSE r + i
Held(len, w, r)  == IF w >= r THEN w - r ELSE w + len - r
Filled(b, w, frame)  == [b EXCEPT ![w] = frame]
Queued(b, len, w, r) == [i \in 1 .. Held(len, w, r) |-> b[Place(len, r, i - 1)]]

\* The slots that wait are in the buffer, and none of them is the one to be filled next.
LEMMA SlotsWait ==
  ASSUME NEW len \in Nat \ {0}, NEW w \in 0 .. len - 1, NEW r \in 0 .. len - 1
  PROVE  /\ Held(len, w, r) \in 0 .. len - 1
         /\ \A i \in 0 .. Held(len, w, r) - 1 :
              Place(len, r, i) \in 0 .. len - 1 /\ Place(len, r, i) # w
         /\ Place(len, r, Held(len, w, r)) = w
BY DEF Held, Place

LEMMA QueuedSeq ==
  ASSUME NEW len \in Nat \ {0}, NEW w \in 0 .. len - 1, NEW r \in 0 .. len - 1,
         NEW b \in [0 .. len - 1 -> Nat]
  PROVE  Queued(b, len, w, r) \in Seq(Nat) /\ Len(Queued(b, len, w, r)) = Held(len, w, r)
<1>1. Held(len, w, r) \in Nat
  BY SlotsWait
<1>2. \A i \in 1 .. Held(len, w, r) : i - 1 \in 0 .. Held(len, w, r) - 1
  BY <1>1
<1>3. \A i \in 1 .. Held(len, w, r) : b[Place(len, r, i - 1)] \in Nat
  BY <1>2, SlotsWait
<1> QED BY <1>1, <1>3 DEF Queued

LEMMA AppendIsFunction ==
  ASSUME NEW q \in Seq(Nat), NEW x \in Nat
  PROVE  Append(q, x) = [i \in 1 .. Len(q) + 1 |-> IF i = Len(q) + 1 THEN x ELSE q[i]]
<1> DEFINE s == Append(q, x)
<1>1. s \in Seq(Nat) /\ Len(s) = Len(q) + 1
  OBVIOUS
<1>2. \A i \in 1 .. Len(q) + 1 : s[i] = IF i = Len(q) + 1 THEN x ELSE q[i]
  OBVIOUS
<1> HIDE DEF s
<1>3. s = [i \in 1 .. Len(q) + 1 |-> s[i]]
  BY <1>1
<1>4. s = [i \in 1 .. Len(q) + 1 |-> IF i = Len(q) + 1 THEN x ELSE q[i]]
  BY <1>2, <1>3
<1> QED BY <1>4 DEF s

LEMMA StoreAppends ==
  ASSUME NEW len \in Nat \ {0}, NEW w \in 0 .. len - 1, NEW r \in 0 .. len - 1,
         NEW b \in [0 .. len - 1 -> Nat], NEW frame \in Nat, Held(len, w, r) < len - 1
  PROVE  Queued(Filled(b, w, frame), len, Place(len, w, 1), r)
           = Append(Queued(b, len, w, r), frame)
<1> DEFINE n == Held(len, w, r)
           c == Filled(b, w, frame)
<1>10. c[w] = frame /\ \A i \in 0 .. len - 1 : i # w => c[i] = b[i]
  BY DEF Filled
<1> HIDE DEF c
<1>1. Held(len, Place(len, w, 1), r) = n + 1
  BY DEF Held, Place
<1>2. n \in 0 .. len - 1 /\ Place(len, r, n) = w
      /\ \A i \in 0 .. n - 1 : Place(len, r, i) \in 0 .. len - 1 /\ Place(len, r, i) # w
  BY SlotsWait
<1>3. Queued(b, len, w, r) \in Seq(Nat) /\ Len(Queued(b, len, w, r)) = n
  BY QueuedSeq
<1> DEFINE q == Queued(b, len, w, r)
           s == Append(q, frame)
<1>0. \A i \in 1 .. n : q[i] = b[Place(len, r, i - 1)]
  BY DEF Queued
<1> HIDE DEF n, q
<1>4. c[Place(len, r, n)] = frame
  BY <1>2, <1>10
<1>5. ASSUME NEW i \in 1 .. n PROVE c[Place(len, r, i - 1)] = q[i]
  <2>1. i - 1 \in 0 .. n - 1 BY <1>2
  <2>2. c[Place(len, r, i - 1)] = b[Place(len, r, i - 1)] BY <1>2, <1>10, <2>1
  <2> QED BY <1>0, <2>2
<1>6. s = [i \in 1 .. n + 1 |-> IF i = n + 1 THEN frame ELSE q[i]]
  <2>1. q \in Seq(Nat) /\ Len(q) = n BY <1>3 DEF q
  <2> QED BY <2>1, AppendIsFunction
<1>7. ASSUME NEW i \in 1 .. n + 1
      PROVE  c[Place(len, r, i - 1)] = IF i = n + 1 THEN frame ELSE q[i]
  <2>1. CASE i = n + 1
    <3>1. i - 1 = n BY <1>2, <2>1
    <3> QED BY <1>4, <2>1, <3>1
  <2>2. CASE i # n + 1
    <3>1. i \in 1 .. n BY <1>2, <2>2
    <3> QED BY <1>5, <2>2, <3>1
  <2> QED BY <2>1, <2>2
<1>8. Queued(c, len, Place(len, w, 1), r) = [i \in 1 .. n + 1 |-> c[Place(len, r, i - 1)]]
  BY <1>1 DEF Queued
<1> HIDE DEF s
<1>9. Queued(c, len, Place(len, w, 1), r) = s
  BY <1>6, <1>7, <1>8
<1> QED BY <1>9 DEF s, q, c

LEMMA TakeDrops ==
  ASSUME NEW len \in Nat \ {0}, NEW w \in 0 .. len - 1, NEW r \in 0 .. len - 1,
         NEW b \in [0 .. len - 1 -> Nat], NEW k \in 1 .. Held(len, w, r)
  PROVE  Queued(b, len, w, Place(len, r, k))
           = SubSeq(Queued(b, len, w, r), k + 1, Len(Queued(b, len, w, r)))
<1> DEFINE n == Held(len, w, r)
           q == Queued(b, len, w, r)
<1>1. n \in 0 .. len - 1 /\ q \in Seq(Nat) /\ Len(q) = n
  BY SlotsWait, QueuedSeq
<1>2. Held(len, w, Place(len, r, k)) = n - k
  BY DEF Held, Place
<1>3. \A i \in 0 .. n - k - 1 : Place(len, Place(len, r, k), i) = Place(len, r, k + i)
  BY <1>1 DEF Held, Place
<1>4. k \in 1 .. n
  OBVIOUS
<1>5. \A i \in 1 .. n : q[i] = b[Place(len, r, i - 1)]
  BY DEF Queued
<1> HIDE DEF n, q
<1>6. ASSUME NEW i \in 1 .. n - k PROVE b[Place(len, Place(len, r, k), i - 1)] = q[k + i]
  <2>1. i - 1 \in 0 .. n - k - 1 /\ k + i \in 1 .. n /\ k + (i - 1) = (k + i) - 1
    BY <1>1, <1>4
  <2> QED BY <1>3, <1>5, <2>1
<1>7. Queued(b, len, w, Place(len, r, k)) = [i \in 1 .. n - k |-> q[k + i]]
  BY <1>2, <1>6 DEF Queued
<1>8. SubSeq(q, k + 1, Len(q)) = [i \in 1 .. n - k |-> q[k + i]]
  BY <1>1, <1>4
<1> QED BY <1>7, <1>8 DEF q
-----------------------------------------------------------------------------
(* What a step of the program does to the frames that wait.                  *)
LEMMA WaitingIs ==
  Waiting = IF buf_len = 0 THEN <<>> ELSE Queued(buf, buf_len, buf_w, buf_r)
BY DEF Waiting, Queued, Buffered, Slot, Held, Place

LEMMA WaitingIsNext ==
  Waiting' = IF buf_len' = 0 THEN <<>> ELSE Queued(buf', buf_len', buf_w', buf_r')
<1>1. (Waiting = IF buf_len = 0 THEN <<>> ELSE Queued(buf, buf_len, buf_w, buf_r))'
  BY WaitingIs, PTL
<1> QED BY <1>1

LEMMA WaitingSeq ==
  ASSUME IInv
  PROVE  /\ Waiting \in Seq(Nat)
         /\ buf_len # 0 => /\ buf_len \in Nat \ {0} /\ buf \in [0 .. buf_len - 1 -> Nat]
                           /\ buf_w \in 0 .. buf_len - 1 /\ buf_r \in 0 .. buf_len - 1
                           /\ Waiting = Queued(buf, buf_len, buf_w, buf_r)
                           /\ Len(Waiting) = Held(buf_len, buf_w, buf_r)
<1>1. CASE buf_len = 0
  BY <1>1, WaitingIs
<1>2. CASE buf_len # 0
  <2>1. /\ buf_len \in Nat \ {0} /\ buf \in [0 .. buf_len - 1 -> Nat]
        /\ buf_w \in 0 .. buf_len - 1 /\ buf_r \in 0 .. buf_len - 1
    BY <1>2 DEF IInv, NumbersOK, RingOK
  <2>2. Waiting = Queued(buf, buf_len, buf_w, buf_r)
    BY <1>2, WaitingIs
  <2> QED BY <2>1, <2>2, QueuedSeq
<1> QED BY <1>1, <1>2

LEMMA PutWaits ==
  ASSUME IInv, Put
  PROVE  /\ buf_len \in Nat \ {0} /\ buf_len' = buf_len
         /\ Stores => Waiting' = Append(Waiting, data) /\ Len(Waiting) < buf_len - 1
         /\ ~Stores => Waiting' = Waiting
<1>0. /\ buf_len \in Nat \ {0} /\ buf \in [0 .. buf_len - 1 -> Nat] /\ data \in Nat
      /\ buf_w \in 0 .. buf_len - 1 /\ buf_r \in 0 .. buf_len - 1
  BY WaitingSeq DEF Put, IInv, CallOK, NumbersOK
<1>1. /\ Waiting = Queued(buf, buf_len, buf_w, buf_r)
      /\ Len(Waiting) = Held(buf_len, buf_w, buf_r)
      /\ buf_len' = buf_len /\ buf_r' = buf_r
  BY WaitingSeq DEF Put, IInv, CallOK, NumbersOK
<1>2. Waiting' = Queued(buf', buf_len, buf_w', buf_r)
  BY <1>0, <1>1, WaitingIsNext
<1>3. CASE ~Stores
  <2>1. buf' = buf /\ buf_w' = buf_w BY <1>3 DEF Put
  <2> QED BY <1>0, <1>1, <1>2, <1>3, <2>1
<1>4. CASE Stores
  <2>1. buf' = [buf EXCEPT ![buf_w] = data] /\ buf_w' = Following(buf_w)
    BY <1>4 DEF Put
  <2>2. Following(buf_w) = Place(buf_len, buf_w, 1)
    BY <1>0 DEF Following, Place
  <2>3. Held(buf_len, buf_w, buf_r) < buf_len - 1
    BY <1>0, SlotsWait DEF Put, IInv, RingOK, Buffered, Held
  <2>4. buf' = Filled(buf, buf_w, data)
    BY <2>1 DEF Filled
  <2>5. Queued(Filled(buf, buf_w, data), buf_len, Place(buf_len, buf_w, 1), buf_r)
          = Append(Queued(buf, buf_len, buf_w, buf_r), data)
    BY <1>0, <2>3, StoreAppends
  <2> QED BY <1>0, <1>1, <1>2, <1>4, <2>1, <2>2, <2>3, <2>4, <2>5
<1> QED BY <1>0, <1>1, <1>3, <1>4

LEMMA CallbackTakes ==
  ASSUME IInv, NEW n \in 1 .. MaxCallback, Callback(n)
  PROVE  \E k \in 1 .. Len(Waiting) : Waiting' = SubSeq(Waiting, k + 1, Len(Waiting))
<1>1. /\ buf_len \in Nat \ {0} /\ buf \in [0 .. buf_len - 1 -> Nat]
      /\ buf_w \in 0 .. buf_len - 1 /\ buf_r \in 0 .. buf_len - 1
      /\ Waiting = Queued(buf, buf_len, buf_w, buf_r)
      /\ Len(Waiting) = Held(buf_len, buf_w, buf_r)
      /\ buf_len' = buf_len /\ buf' = buf /\ buf_w' = buf_w
  BY WaitingSeq DEF Callback, IInv, NumbersOK
<1>2. PICK k \in 1 .. Held(buf_len, buf_w, buf_r) : buf_r' = Place(buf_len, buf_r, k)
  <2>1. Held(buf_len, buf_w, buf_r) = Buffered /\ Buffered \in Nat
    BY <1>1 DEF Held, Buffered
  <2>2. AtMost(n, Buffered) \in Nat /\ AtMost(n, Buffered) <= Buffered
    BY <2>1 DEF AtMost
  <2>3. AtMost(n, Buffered) > 0 /\ buf_r' = Place(buf_len, buf_r, AtMost(n, Buffered))
    BY DEF Callback, Slot, Place
  <2> QED BY <2>1, <2>2, <2>3
<1>3. Waiting' = Queued(buf, buf_len, buf_w, Place(buf_len, buf_r, k))
  BY <1>1, <1>2, WaitingIsNext
<1>4. Waiting' = SubSeq(Queued(buf, buf_len, buf_w, buf_r), k + 1,
                        Len(Queued(buf, buf_len, buf_w, buf_r)))
  <2>1. Queued(buf, buf_len, buf_w, Place(buf_len, buf_r, k))
          = SubSeq(Queued(buf, buf_len, buf_w, buf_r), k + 1,
                   Len(Queued(buf, buf_len, buf_w, buf_r)))
    BY <1>1, TakeDrops, Zenon
  <2> QED BY <1>3, <2>1
<1> QED BY <1>1, <1>4

LEMMA RemadeEmpties == ASSUME NEW len \in Lengths, Remade(len) PROVE Waiting' = <<>>
<1>1. CASE len = 0 BY <1>1, WaitingIsNext DEF Remade
<1>2. CASE len # 0
  <2>1. Held(buf_len', buf_w', buf_r') = 0 /\ buf_len' # 0 BY <1>2 DEF Remade, Held
  <2> QED BY <2>1, WaitingIsNext DEF Queued
<1> QED BY <1>1, <1>2

\* Every other step leaves them alone.
LEMMA OthersWait ==
  ASSUME [Next]_vars, ~Put, ~Playing,
         ~\E len \in Lengths : Resize(len) \/ \E drc \in BOOLEAN : LeaveOptions(drc, len)
  PROVE  UNCHANGED <<resampler, ring, Waiting>>
<1>1. UNCHANGED <<resampler, ring>>
  <2> USE DEF writer, rates, setup, since
  <2>1. CASE Lock BY <2>1 DEF Lock
  <2>2. CASE Batch BY <2>2 DEF Batch
  <2>3. CASE Return BY <2>3 DEF Return
  <2>4. CASE Wait BY <2>4 DEF Wait
  <2>5. CASE Relock BY <2>5 DEF Relock
  <2>6. CASE EndWait BY <2>6 DEF EndWait
  <2>7. CASE EndPut BY <2>7 DEF EndPut
  <2>8. CASE RestoreDefaults BY <2>8 DEF RestoreDefaults
  <2>9. CASE ToggleFastForward BY <2>9 DEF ToggleFastForward
  <2>10. CASE \E n \in 1 .. MaxRequest : Write(n) BY <2>10 DEF Write
  <2>11. CASE UNCHANGED vars BY <2>11 DEF vars
  <2> QED BY <2>1, <2>2, <2>3, <2>4, <2>5, <2>6, <2>7, <2>8, <2>9, <2>10, <2>11
          DEF Next, Main, Writing
<1> QED BY <1>1, WaitingIs, WaitingIsNext DEF ring
-----------------------------------------------------------------------------
(* The ring implements the queue of AudioFifo.                               *)

\* The frames of a call have numbers that the core may hand over.
DataOK == data \in Nat \ {0} /\ (pc # "idle" => data + frames <= MaxFrames)

LEMMA DataInit == Init => DataOK
BY DEF Init, DataOK

LEMMA DataStep == IInv /\ DataOK /\ [Next]_vars => DataOK'
<1> SUFFICES ASSUME IInv, DataOK, [Next]_vars PROVE DataOK'
  OBVIOUS
<1>0. data \in Nat \ {0} /\ frames \in Nat /\ amount \in Nat /\ (amount <= frames \/ pc # "put")
  BY DEF IInv, NumbersOK, CallOK, DataOK
<1> USE DEF DataOK, rates, writer, setup, since
<1>1. CASE Lock BY <1>0, <1>1 DEF Lock
<1>2. CASE Batch BY <1>0, <1>2 DEF Batch
<1>3. CASE Return BY <1>0, <1>3 DEF Return
<1>4. CASE Wait BY <1>0, <1>4 DEF Wait
<1>5. CASE Relock BY <1>0, <1>5 DEF Relock
<1>6. CASE EndWait BY <1>0, <1>6 DEF EndWait
<1>7. CASE EndPut BY <1>0, <1>7 DEF EndPut
<1>8. CASE RestoreDefaults BY <1>0, <1>8 DEF RestoreDefaults
<1>9. CASE ToggleFastForward BY <1>0, <1>9 DEF ToggleFastForward
<1>10. CASE \E n \in 1 .. MaxRequest : Write(n) BY <1>0, <1>10 DEF Write
<1>11. CASE Put
  <2>1. /\ pc' = pc
        /\ \/ data' = data + 1 /\ frames' = frames - 1
           \/ data' = data /\ frames' = frames
    BY <1>11 DEF Put
  <2> QED BY <1>0, <2>1
<1>12. CASE \E len \in Lengths : Resize(len) \/ \E drc \in BOOLEAN : LeaveOptions(drc, len)
  BY <1>0, <1>12 DEF Resize, LeaveOptions
<1>13. CASE Playing BY <1>0, <1>13 DEF Playing, Callback
<1>14. CASE UNCHANGED vars BY <1>0, <1>14 DEF vars
<1> QED BY <1>1, <1>2, <1>3, <1>4, <1>5, <1>6, <1>7, <1>8, <1>9, <1>10, <1>11, <1>12, <1>13, <1>14
        DEF Next, Main, Writing

LEMMA FifoInit == Init => Fifo!Init
<1> SUFFICES ASSUME Init PROVE Fifo!Init
  OBVIOUS
<1>1. buf_len \in Lengths \ {0} /\ Held(buf_len, buf_w, buf_r) = 0
  BY DEF Init, Held
<1>2. Waiting = <<>>
  BY <1>1, WaitingIs DEF Queued
<1> QED BY <1>1, <1>2 DEF Fifo!Init

\* Storing a frame is a Put, a callback a Take, a new buffer a Resize, and all else a stutter.
LEMMA FifoStep == IInv /\ DataOK /\ [Next]_vars => [Fifo!Next]_(Fifo!vars)
<1> SUFFICES ASSUME IInv, DataOK, [Next]_vars PROVE Fifo!Next \/ UNCHANGED Fifo!vars
  OBVIOUS
<1> DEFINE capacity == IF buf_len = 0 THEN 0 ELSE buf_len - 1
<1>1. CASE Put
  <2>1. /\ buf_len \in Nat \ {0} /\ buf_len' = buf_len
        /\ Stores => Waiting' = Append(Waiting, data) /\ Len(Waiting) < buf_len - 1
        /\ ~Stores => Waiting' = Waiting
    BY <1>1, PutWaits
  <2>2. data \in 1 .. MaxFrames
    BY <1>1 DEF DataOK, Put, IInv, NumbersOK, CallOK
  <2>3. CASE Stores
    <3>1. Fifo!Put(data) BY <2>1, <2>3 DEF Fifo!Put
    <3> QED BY <2>2, <3>1 DEF Fifo!Next
  <2>4. CASE ~Stores
    BY <2>1, <2>4 DEF Fifo!vars
  <2> QED BY <2>3, <2>4
<1>2. CASE Playing
  <2>1. PICK n \in 1 .. MaxCallback : Callback(n) BY <1>2 DEF Playing
  <2>2. PICK k \in 1 .. Len(Waiting) : Waiting' = SubSeq(Waiting, k + 1, Len(Waiting))
    BY <2>1, CallbackTakes
  <2>3. buf_len' = buf_len BY <2>1 DEF Callback
  <2>4. Fifo!Take(k) BY <2>2, <2>3 DEF Fifo!Take
  <2> QED BY <2>4 DEF Fifo!Next
<1>3. CASE \E len \in Lengths : Resize(len) \/ \E drc \in BOOLEAN : LeaveOptions(drc, len)
  <2>1. PICK len \in Lengths : Remade(len) BY <1>3 DEF Resize, LeaveOptions
  <2>2. Waiting' = <<>> /\ buf_len' = len BY <2>1, RemadeEmpties DEF Remade
  <2>3. capacity' \in {m - 1 : m \in Lengths \ {0}} \cup {0} BY <2>2
  <2>4. Fifo!Resize(capacity') BY <2>2 DEF Fifo!Resize
  <2> QED BY <2>3, <2>4 DEF Fifo!Next
<1>4. CASE ~Put /\ ~Playing
             /\ ~\E len \in Lengths : Resize(len) \/ \E drc \in BOOLEAN : LeaveOptions(drc, len)
  BY <1>4, OthersWait DEF Fifo!vars, ring
<1> QED BY <1>1, <1>2, <1>3, <1>4

\* The ring is a queue: with two threads, batches, a lock that is given up and buffers of any
\* lengths, what the core puts in comes out in that order and once.
THEOREM AudioImplementsFifo == Spec => IsFifo
<1> USE FifoInit, FifoStep, DataInit, DataStep
<1> QED BY Invariance, PTL DEF Spec, IsFifo, Fifo!Spec
-----------------------------------------------------------------------------
(* The order of the frames that wait, of a queue q before the next frame d.  *)
Follows(x, next, pass, whole) ==
  IF pass THEN IF whole THEN x + 1 = next ELSE x < next
          ELSE x <= next

Ordered(q, d, pass, whole) ==
  /\ \A i \in 1 .. Len(q) - 1 : Follows(q[i], q[i + 1], pass, whole)
  /\ Len(q) > 0 => Follows(q[Len(q)], d, pass, whole)

InOrderNow == Ordered(Waiting, data, resampler = "passthrough", lost = 0)

LEMMA OrderedIsInOrder == ASSUME IInv PROVE InOrder <=> InOrderNow
<1> DEFINE q == Waiting
<1>1. q \in Seq(Nat) /\ Len(q) \in Nat BY WaitingSeq
<1>2. InOrder <=> \A i \in 1 .. Len(q) :
                    Follows(q[i], IF i = Len(q) THEN data ELSE q[i + 1],
                            resampler = "passthrough", lost = 0)
  BY DEF InOrder, Follows
<1> HIDE DEF q
<1>3. (\A i \in 1 .. Len(q) : Follows(q[i], IF i = Len(q) THEN data ELSE q[i + 1],
                                      resampler = "passthrough", lost = 0))
        <=> Ordered(q, data, resampler = "passthrough", lost = 0)
  <2> DEFINE F(x, y) == Follows(x, y, resampler = "passthrough", lost = 0)
  <2>1. Ordered(q, data, resampler = "passthrough", lost = 0)
          <=> /\ \A i \in 1 .. Len(q) - 1 : F(q[i], q[i + 1])
              /\ Len(q) > 0 => F(q[Len(q)], data)
    BY DEF Ordered
  <2> HIDE DEF F
  <2>2. (\A i \in 1 .. Len(q) : F(q[i], IF i = Len(q) THEN data ELSE q[i + 1]))
          <=> /\ \A i \in 1 .. Len(q) - 1 : F(q[i], q[i + 1])
              /\ Len(q) > 0 => F(q[Len(q)], data)
    BY <1>1
  <2> QED BY <2>1, <2>2 DEF F
<1> QED BY <1>2, <1>3 DEF q, InOrderNow

LEMMA OrderedAppend ==
  ASSUME NEW q \in Seq(Nat), NEW d \in Nat, NEW e \in {d, d + 1}, NEW pass \in BOOLEAN,
         NEW whole \in BOOLEAN, Ordered(q, d, pass, whole), pass => e = d + 1
  PROVE  Ordered(Append(q, d), e, pass, whole)
<1> DEFINE s == Append(q, d)
<1>1. /\ Len(s) = Len(q) + 1 /\ Len(q) \in Nat /\ s[Len(s)] = d
      /\ \A i \in 1 .. Len(q) : s[i] = q[i]
  OBVIOUS
<1> HIDE DEF s
<1>2. Follows(d, e, pass, whole) BY DEF Follows
<1>3. ASSUME NEW i \in 1 .. Len(s) - 1 PROVE Follows(s[i], s[i + 1], pass, whole)
  <2>1. CASE i = Len(q)
    <3>1. s[i] = q[Len(q)] /\ s[i + 1] = d /\ Len(q) > 0 BY <1>1, <2>1
    <3> QED BY <3>1 DEF Ordered
  <2>2. CASE i # Len(q)
    <3>1. i \in 1 .. Len(q) - 1 /\ s[i] = q[i] /\ s[i + 1] = q[i + 1] BY <1>1, <2>2
    <3> QED BY <3>1 DEF Ordered
  <2> QED BY <2>1, <2>2
<1>4. Ordered(s, e, pass, whole) BY <1>1, <1>2, <1>3 DEF Ordered
<1> QED BY <1>4 DEF s

LEMMA OrderedTail ==
  ASSUME NEW q \in Seq(Nat), NEW d, NEW k \in 1 .. Len(q), NEW pass, NEW whole,
         Ordered(q, d, pass, whole)
  PROVE  Ordered(SubSeq(q, k + 1, Len(q)), d, pass, whole)
<1> DEFINE s == SubSeq(q, k + 1, Len(q))
<1>1. /\ Len(q) \in Nat /\ Len(s) = Len(q) - k
      /\ \A i \in 1 .. Len(s) : s[i] = q[k + i]
  OBVIOUS
<1> HIDE DEF s
<1>5. Len(s) \in Nat /\ k \in Nat \ {0} /\ k + Len(s) = Len(q)
  BY <1>1
<1>2. ASSUME NEW i \in 1 .. Len(s) - 1 PROVE Follows(s[i], s[i + 1], pass, whole)
  <2>0. i \in Nat \ {0} /\ i + 1 <= Len(s)
    BY <1>5
  <2>1. k + i \in 1 .. Len(q) - 1 /\ i \in 1 .. Len(s) /\ i + 1 \in 1 .. Len(s)
    BY <1>5, <2>0
  <2>2. k + (i + 1) = (k + i) + 1
    OBVIOUS
  <2>3. s[i] = q[k + i]
    BY <1>1, <2>1, Zenon
  <2>4. s[i + 1] = q[k + (i + 1)]
    BY <1>1, <2>1, Zenon
  <2>5. Follows(q[k + i], q[(k + i) + 1], pass, whole)
    BY <2>1 DEF Ordered
  <2> QED BY <2>2, <2>3, <2>4, <2>5
<1>3. ASSUME Len(s) > 0 PROVE Follows(s[Len(s)], d, pass, whole)
  <2>1. s[Len(s)] = q[Len(q)] /\ Len(q) > 0 BY <1>1, <1>3
  <2> QED BY <2>1 DEF Ordered
<1>4. Ordered(s, d, pass, whole) BY <1>2, <1>3 DEF Ordered
<1> QED BY <1>4 DEF s

LEMMA OrderedLater ==
  ASSUME NEW q \in Seq(Nat), NEW d \in Nat, NEW e \in Nat, NEW pass \in BOOLEAN,
         NEW whole \in BOOLEAN, NEW still \in BOOLEAN,
         Ordered(q, d, pass, whole), d <= e, still => whole, pass /\ still => d = e
  PROVE  Ordered(q, e, pass, still)
<1>1. Len(q) \in Nat /\ \A i \in 1 .. Len(q) : q[i] \in Nat
  OBVIOUS
<1>2. \A x, y \in Nat : Follows(x, y, pass, whole) => Follows(x, y, pass, still)
  BY DEF Follows
<1>3. \A x \in Nat : Follows(x, d, pass, whole) => Follows(x, e, pass, still)
  BY DEF Follows
<1>4. \A i \in 1 .. Len(q) - 1 : i \in 1 .. Len(q) /\ i + 1 \in 1 .. Len(q)
  BY <1>1
<1>5. Len(q) > 0 => Len(q) \in 1 .. Len(q)
  BY <1>1
<1> QED BY <1>1, <1>2, <1>3, <1>4, <1>5 DEF Ordered

LEMMA OrderedEmpty == ASSUME NEW d, NEW pass, NEW whole PROVE Ordered(<<>>, d, pass, whole)
BY DEF Ordered

LEMMA InOrderInit == Init => InOrderNow
<1> SUFFICES ASSUME Init PROVE InOrderNow
  OBVIOUS
<1>1. Waiting = <<>> BY FifoInit DEF Fifo!Init
<1> QED BY <1>1, OrderedEmpty DEF InOrderNow

\* A frame that is stored joins at the end, the device takes from the front, a new buffer is
\* empty; a frame is only passed over without a resampler when the writer has dropped some.
LEMMA InOrderStep == IInv /\ InOrderNow /\ [Next]_vars => InOrderNow'
<1> SUFFICES ASSUME IInv, InOrderNow, [Next]_vars PROVE InOrderNow'
  OBVIOUS
<1>0. Waiting \in Seq(Nat) /\ data \in Nat /\ lost \in Nat /\ frames \in Nat
  BY WaitingSeq DEF IInv, NumbersOK
<1>1. CASE Put
  <2>1. /\ Stores => Waiting' = Append(Waiting, data)
        /\ ~Stores => Waiting' = Waiting
    BY <1>1, PutWaits
  <2>2. /\ data' \in {data, data + 1} /\ lost' = lost /\ resampler' = resampler
        /\ resampler = "passthrough" => Stores /\ data' = data + 1
    BY <1>0, <1>1 DEF Put, Stores, Consumes, setup
  <2>3. CASE Stores
    BY <1>0, <2>1, <2>2, <2>3, OrderedAppend DEF InOrderNow
  <2>4. CASE ~Stores
    <3>1. data' \in Nat /\ data <= data' /\ (lost' = 0 => lost = 0) /\ resampler # "passthrough"
      BY <1>0, <2>2, <2>4
    <3> QED BY <1>0, <2>1, <2>2, <2>4, <3>1, OrderedLater DEF InOrderNow
  <2> QED BY <2>3, <2>4
<1>2. CASE Playing
  <2>1. PICK n \in 1 .. MaxCallback : Callback(n) BY <1>2 DEF Playing
  <2>2. PICK k \in 1 .. Len(Waiting) : Waiting' = SubSeq(Waiting, k + 1, Len(Waiting))
    BY <2>1, CallbackTakes
  <2>3. data' = data /\ lost' = lost /\ resampler' = resampler BY <2>1 DEF Callback, setup
  <2> QED BY <1>0, <2>2, <2>3, OrderedTail DEF InOrderNow
<1>3. CASE \E len \in Lengths : Resize(len) \/ \E drc \in BOOLEAN : LeaveOptions(drc, len)
  <2>1. PICK len \in Lengths : Remade(len) BY <1>3 DEF Resize, LeaveOptions
  <2> QED BY <2>1, RemadeEmpties, OrderedEmpty DEF InOrderNow
<1>4. CASE ~Put /\ ~Playing
             /\ ~\E len \in Lengths : Resize(len) \/ \E drc \in BOOLEAN : LeaveOptions(drc, len)
  <2>1. Waiting' = Waiting /\ resampler' = resampler BY <1>4, OthersWait
  <2>2. \/ data' = data /\ lost' = lost
        \/ data' = data + frames /\ lost' = lost + frames
    BY <1>4 DEF Next, Main, Writing, Lock, Batch, Return, Wait, Relock, EndWait, EndPut, Write,
                RestoreDefaults, ToggleFastForward, vars
  <2>3. data' \in Nat /\ data <= data' /\ (lost' = 0 => lost = 0 /\ data' = data)
    BY <1>0, <2>2
  <2> QED BY <1>0, <2>1, <2>3, OrderedLater DEF InOrderNow
<1> QED BY <1>1, <1>2, <1>3, <1>4

\* For buffers of any length, calls of any size and any interleaving with the device, the frames
\* that wait are in the order the core made them, and none is missing that was not dropped.
THEOREM AudioInOrder == Spec => []InOrder
<1>1. IInv /\ InOrderNow => InOrder BY OrderedIsInOrder
<1> USE <1>1, InOrderInit, InOrderStep
<1> QED BY Invariance, PTL DEF Spec
=============================================================================
