--------------------------- MODULE PowerSleepProofs ---------------------------
(* Sleep and power off, for any times, volumes and queues: what a hold of POWER *)
(* does, and that the volume is heard after a sleep.                            *)
EXTENDS PowerSleep, TLAPS

Down == <<"POWER", TRUE>>
Up   == <<"POWER", FALSE>>

DownWaits == \E i \in DOMAIN queue : queue[i] = Down
UpWaits   == \E i \in DOMAIN queue : queue[i] = Up
------------------------------------------------------------------------------
(* The inductive invariant.                                                  *)

\* The queue tells how POWER is held: the last event of it that waits, if one does.
QueueOK ==
  /\ \A i \in DOMAIN queue :
       queue[i] = Down /\ (\A j \in DOMAIN queue : j > i => queue[j] # Up) => button = "down"
  /\ \A i \in DOMAIN queue :
       queue[i] = Up /\ button # "up" => \E j \in DOMAIN queue : j > i /\ queue[j] = Down
  /\ button = "before" => ~DownWaits /\ ~UpWaits

\* A pass that has not seen the press of POWER lasts since the poll before it.
Slack == IF phase = "poll" THEN Stall ELSE 0

UnseenOK ==
  /\ longest <= Slack + late
  /\ longest > 0 \/ button = "down" => DownWaits

\* powerStartTime lags behind the press by less than a pass, and runs on after a release by
\* less than two.
SeenOK ==
  /\ longest < Hold + Stall + Slack + late
  /\ since < Hold + Stall => longest <= since + Stall
  /\ phase = "frame" => since < Hold + late
  /\ since <= longest + Stall + Slack + late
  /\ ~UpWaits => since <= longest + Stall /\ button = "down"

AwakeOK ==
  phase \in Awake =>
    /\ "POWER" \in is_pressed <=> since # None
    /\ since = None => UnseenOK
    /\ since # None => SeenOK

\* A sleep that goes on with the next pass starts it anew; one in the middle of a pass leaves
\* the times as they were.
AsleepOK ==
  /\ phase \in Asleep /\ after = "frame" => since = None /\ longest = 0
  /\ phase \in Asleep \ {"enter"} => is_pressed = {}
  /\ phase \in Asleep \cup {"logic"} /\ since # None => since <= longest + 2 * Stall + late
  /\ phase \in {"woken", "cont"} \cup Leaving /\ button = "down" => DownWaits

CauseOK ==
  /\ cause # "none" => phase = Off
  /\ cause = "button" => longest >= Hold - 2 * Stall

TimesOK == AwakeOK /\ AsleepOK /\ CauseOK

\* What keymon is about to do ends a mute that the volume does not ask for.
Heard ==
  IF step = "idle" THEN volume > 0 => ~muted ELSE ~up /\ val > 0 => ~muted

StoppedOK == phase \in Waiting \cup {"cont"} => ~keymon

KeyOK ==
  /\ step # "idle" /\ up => val > 0
  /\ ~overlapped /\ step = "mute" => volume = val
  /\ ~overlapped /\ step = "store" /\ ~up /\ val > 0 => volume > 0

Settled == Awake \cup {"logic", "quit", "enter"}

AudibleOK ==
  ~overlapped =>
    /\ phase \in {"volume", "store"} => ~muted
    /\ phase = "store" => level = volume
    /\ phase \in Settled => Heard

SoundInv == StoppedOK /\ KeyOK /\ AudibleOK
------------------------------------------------------------------------------
(* The times of the constants, and what the power logic decides.             *)

LEMMA Times ==
  /\ Hold \in Nat /\ Delay \in Nat /\ Minute \in Nat /\ Stall \in Nat /\ MaxQueue \in Nat
  /\ MaxVolume \in Nat
  /\ Hold > 2 * Stall /\ Minute <= Delay /\ Stall > 0 /\ MaxVolume > 0
BY PowerAssumption DEF PowerAssumption

Expires == since # None /\ since - late >= Hold

Goes(pressed, next) ==
  /\ phase' = next /\ idle' \in {late, idle} /\ since' = Start(pressed)
  /\ UNCHANGED <<after, late, player, cause, keymon, sound>>

LEMMA LogicDoes ==
  ASSUME NEW pressed, NEW released, NEW any, NEW next, PowerLogic(pressed, released, any, next)
  PROVE  \/ Expires /\ PowerOff("button")
         \/ ~Expires /\ slept' = slept /\ SleepInPass(next)
         \/ ~Expires /\ slept' = slept /\ ~released /\ Goes(pressed, next)
<1> DEFINE expired(i) == timer' /\ i - late >= Delay
           rested == IF any THEN late ELSE idle
           rest == IF expired(rested) /\ charging THEN late ELSE rested
<1>1. rest \in {late, idle} OBVIOUS
<1> HIDE DEF rest
<1>2. CASE Expires
  BY <1>2 DEF PowerLogic, Expires
<1>3. CASE ~Expires
  <2>1. /\ slept' = slept
        /\ IF expired(rest) \/ released
             THEN SleepInPass(next)
             ELSE /\ phase' = next /\ idle' = rest
                  /\ since' = Start(pressed)
                  /\ UNCHANGED <<after, late, player, cause, keymon, sound>>
    BY <1>3 DEF PowerLogic, Expires, rest
  <2> QED BY <1>1, <1>3, <2>1 DEF Goes
<1> QED BY <1>2, <1>3

\* What a pass may come to.
Passes(pressed, released, next) ==
  \/ PowerOff("row")
  \/ FauxSleep("logic") /\ UNCHANGED <<clock, longest>>
  \/ Expires /\ PowerOff("button")
  \/ ~Expires /\ slept' = slept /\ SleepInPass(next)
  \/ ~Expires /\ slept' = slept /\ ~released /\ Goes(pressed, next)

LEMMA PollDoes ==
  ASSUME TypeOK, Poll
  PROVE  /\ phase = "poll" /\ is_pressed' = {k \in Keys : Final(k)} /\ queue' = <<>>
         /\ charging' = charging /\ timer' \in BOOLEAN
         /\ \E next \in {"frame", "quit"} : Passes(JustPressed("POWER"), JustReleased("POWER"), next)
<1>1. timer \in BOOLEAN BY DEF TypeOK
<1>2. /\ phase = "poll" /\ is_pressed' = {k \in Keys : Final(k)} /\ queue' = <<>>
      /\ charging' = charging /\ timer' \in BOOLEAN
  BY <1>1 DEF Poll
<1>3. \/ PowerOff("row")
      \/ FauxSleep("logic") /\ UNCHANGED <<clock, longest>>
      \/ \E next \in {"frame", "quit"} :
           PowerLogic(JustPressed("POWER"), JustReleased("POWER"), is_pressed' # {}, next)
  BY DEF Poll
<1> QED BY <1>2, <1>3, LogicDoes DEF Passes

LEMMA RestDoes ==
  ASSUME RestOfPass
  PROVE  phase = "logic" /\ UNCHANGED <<is_pressed, queue, timer, charging>>
         /\ Passes(FALSE, FALSE, "quit")
BY LogicDoes DEF RestOfPass, Passes
------------------------------------------------------------------------------
(* Types.                                                                    *)

PhaseTypes ==
  /\ phase \in Awake \cup Asleep \cup {"logic", "quit", Off}
  /\ after \in {"frame", "logic", "quit"}
  /\ cause \in {"none", "button", "row", "timer"}
  /\ is_pressed \subseteq Keys
  /\ timer \in BOOLEAN /\ charging \in BOOLEAN /\ other \in BOOLEAN /\ keymon \in BOOLEAN
  /\ button \in {"up", "down", "before"}

TimeTypes ==
  /\ idle \in 0 .. Delay + Stall /\ since \in None .. Hold + Stall
  /\ late \in 0 .. Stall /\ slept \in 0 .. Delay + Stall
  /\ longest \in 0 .. Hold + 3 * Stall

QueueTypes == queue \in Seq(Events) /\ Len(queue) <= MaxQueue

SoundTypes ==
  /\ keys \in 0 .. 1 /\ step \in {"idle", "store", "mute"} /\ up \in BOOLEAN
  /\ val \in 0 .. MaxVolume /\ level \in 0 .. MaxVolume /\ volume \in 0 .. MaxVolume
  /\ muted \in BOOLEAN /\ overlapped \in BOOLEAN

LEMMA PhaseTypesStep == TypeOK /\ [Next]_vars => PhaseTypes'
<1> SUFFICES ASSUME PhaseTypes, TypeOK, [Next]_vars PROVE PhaseTypes' BY DEF TypeOK, PhaseTypes
<1> USE DEF PhaseTypes, Awake, Waiting, Leaving, Asleep, Off
<1>1. ASSUME NEW k \in Keys, Press(k) \/ Release(k) PROVE PhaseTypes'
  BY <1>1 DEF Press, Release
<1>2. CASE VolumeKey \/ Plug \/ Tick \/ BeginPass BY <1>2 DEF VolumeKey, Plug, player, Tick,
                        BeginPass
<1>3. ASSUME NEW pressed, NEW released, NEW next \in {"frame", "quit"},
             Passes(pressed, released, next), is_pressed' \subseteq Keys,
             timer' \in BOOLEAN, charging' = charging
      PROVE  PhaseTypes'
  BY <1>3 DEF Passes, PowerOff, FauxSleep, SleepInPass, Goes, player
<1>4. CASE Poll BY <1>3, <1>4, PollDoes
<1>5. CASE RestOfPass BY <1>3, <1>5, RestDoes
<1>6. CASE Restart BY <1>6 DEF Restart
<1>7. CASE EnterSleep \/ StopKeymon \/ Drain
  BY <1>7 DEF EnterSleep, StopKeymon, Drain, Sleeping, player
<1>8. CASE Continue \/ Unmute \/ GetVolume \/ ExitSleep
  BY <1>8 DEF Continue, Unmute, GetVolume, ExitSleep, Sleeping, player
<1>9. CASE Check BY <1>9 DEF Check, PowerOff, player
<1>10. CASE KeymonStep
  BY <1>10 DEF KeymonStep, KeymonRead, KeymonStore, KeymonMute, KeymonOnly, player
<1>11. CASE UNCHANGED vars BY <1>11 DEF vars, player
<1> QED
  BY <1>1, <1>2, <1>4, <1>5, <1>6, <1>7, <1>8, <1>9, <1>10, <1>11 DEF Next, Launcher

LEMMA TimeTypesStep == TypeOK /\ [Next]_vars => TimeTypes'
<1> SUFFICES ASSUME TimeTypes, TypeOK, [Next]_vars PROVE TimeTypes' BY DEF TypeOK, TimeTypes
<1> USE Times DEF TimeTypes, clock, player
<1>1. CASE UNCHANGED <<clock, longest>> BY <1>1
<1>2. CASE Tick BY <1>2 DEF Tick, Held, AtMost, None
<1>3. CASE BeginPass BY <1>3 DEF BeginPass
<1>4. ASSUME NEW pressed, NEW released, NEW next, Passes(pressed, released, next)
      PROVE  TimeTypes'
  BY <1>4 DEF Passes, PowerOff, FauxSleep, SleepInPass, Goes, Start, None
<1>5. CASE Poll BY <1>4, <1>5, PollDoes
<1>6. CASE RestOfPass BY <1>4, <1>6, RestDoes
<1>7. CASE Restart BY <1>7 DEF Restart, None
<1>8. CASE StopKeymon BY <1>8 DEF StopKeymon, Sleeping
<1>9. CASE Check BY <1>9 DEF Check, PowerOff, Overdue
<1>10. CASE ExitSleep BY <1>10 DEF ExitSleep, Sleeping
<1>11. ASSUME NEW k \in Keys, Press(k) \/ Release(k) PROVE UNCHANGED <<clock, longest>>
  BY <1>11 DEF Press, Release
<1>12. CASE VolumeKey \/ Plug \/ EnterSleep \/ Drain \/ Continue \/ Unmute \/ GetVolume
  BY <1>1, <1>12 DEF VolumeKey, Plug, EnterSleep, Drain, Continue, Unmute, GetVolume, Sleeping
<1>13. CASE KeymonStep \/ UNCHANGED vars
  BY <1>1, <1>13 DEF KeymonStep, KeymonRead, KeymonStore, KeymonMute, KeymonOnly, vars
<1> QED
  BY <1>1, <1>2, <1>3, <1>5, <1>6, <1>7, <1>8, <1>9, <1>10, <1>11, <1>12, <1>13
     DEF Next, Launcher

LEMMA QueueTypesStep == TypeOK /\ [Next]_vars => QueueTypes'
<1> SUFFICES ASSUME QueueTypes, TypeOK, [Next]_vars PROVE QueueTypes' BY DEF TypeOK, QueueTypes
<1>1. CASE queue' = queue BY <1>1 DEF QueueTypes
<1>2. CASE queue' = <<>>
  <2>1. <<>> \in Seq(Events) /\ Len(<<>>) = 0 OBVIOUS
  <2> QED BY <1>2, <2>1, Times DEF QueueTypes
<1>3. ASSUME NEW e \in Events, Len(queue) < MaxQueue, queue' = Append(queue, e) PROVE QueueTypes'
  BY <1>3, Times DEF QueueTypes
<1>4. ASSUME NEW k \in Keys, Press(k) \/ Release(k) PROVE QueueTypes'
  <2>1. <<k, TRUE>> \in Events /\ <<k, FALSE>> \in Events BY <1>4 DEF Events
  <2>2. CASE Press(k) BY <1>3, <2>1, <2>2 DEF Press
  <2>3. CASE Release(k) BY <1>1, <1>3, <2>1, <2>3 DEF Release
  <2> QED BY <1>4, <2>2, <2>3
<1>5. CASE Drain
  <2>1. ASSUME NEW i \in DOMAIN queue, queue' = Rest(i) PROVE QueueTypes'
    <3>1. queue \in Seq(Events) /\ i \in 1 .. Len(queue) /\ Len(queue) <= MaxQueue
      BY <2>1 DEF QueueTypes
    <3>2. Rest(i) \in Seq(Events) BY <3>1 DEF Rest
    <3>3. Len(Rest(i)) = Len(queue) - i BY <3>1 DEF Rest
    <3> QED BY <2>1, <3>1, <3>2, <3>3, Times DEF QueueTypes
  <2> QED BY <1>2, <1>5, <2>1 DEF Drain
<1>6. CASE Poll BY <1>2, <1>6 DEF Poll
<1>7. CASE RestOfPass BY <1>1, <1>7 DEF RestOfPass
<1>8. CASE Restart BY <1>2, <1>8 DEF Restart
<1>9. CASE VolumeKey \/ Plug \/ Tick \/ BeginPass
  BY <1>1, <1>9 DEF VolumeKey, Plug, Tick, BeginPass
<1>10. CASE EnterSleep \/ StopKeymon \/ Check \/ Continue \/ Unmute \/ GetVolume \/ ExitSleep
  BY <1>1, <1>10 DEF EnterSleep, StopKeymon, Check, Continue, Unmute, GetVolume, ExitSleep
<1>11. CASE KeymonStep \/ UNCHANGED vars
  BY <1>1, <1>11 DEF KeymonStep, KeymonRead, KeymonStore, KeymonMute, KeymonOnly, vars
<1> QED
  BY <1>4, <1>5, <1>6, <1>7, <1>8, <1>9, <1>10, <1>11 DEF Next, Launcher

LEMMA SoundTypesStep == TypeOK /\ [Next]_vars => SoundTypes'
<1> SUFFICES ASSUME SoundTypes, TypeOK, [Next]_vars PROVE SoundTypes' BY DEF TypeOK, SoundTypes
<1> USE Times DEF SoundTypes, sound, heard
<1>1. CASE UNCHANGED sound BY <1>1
<1>2. ASSUME NEW pressed, NEW released, NEW next, Passes(pressed, released, next)
      PROVE  SoundTypes'
  BY <1>1, <1>2 DEF Passes, PowerOff, FauxSleep, SleepInPass, Goes
<1>3. CASE Poll BY <1>2, <1>3, PollDoes
<1>4. CASE RestOfPass BY <1>2, <1>4, RestDoes
<1>5. CASE Restart BY <1>5 DEF Restart
<1>6. CASE EnterSleep \/ Unmute BY <1>6 DEF EnterSleep, Unmute
<1>7. CASE GetVolume BY <1>7 DEF GetVolume
<1>15. CASE ExitSleep
  <2>1. /\ volume' = level /\ level' = 0
        /\ UNCHANGED <<keys, step, up, val, muted, overlapped>>
    BY <1>15 DEF ExitSleep
  <2>3. muted' \in BOOLEAN /\ overlapped' \in BOOLEAN /\ up' \in BOOLEAN BY <2>1, Zenon
  <2>4. 0 \in 0 .. MaxVolume OBVIOUS
  <2> QED BY <2>1, <2>3, <2>4, Zenon
<1>8. CASE VolumeKey BY <1>8 DEF VolumeKey
<1>9. CASE KeymonRead BY <1>9 DEF KeymonRead, Overlaps, AtMost, AtLeast
<1>10. CASE KeymonStore BY <1>10 DEF KeymonStore, Overlaps
<1>16. CASE KeymonMute
  <2>1. overlapped' \in BOOLEAN BY <1>16 DEF KeymonMute, Overlaps
  <2>2. muted' \in BOOLEAN BY <1>16 DEF KeymonMute
  <2>3. step' = "idle" /\ val' = 0 /\ up' = FALSE /\ UNCHANGED <<keys, level, volume>>
    BY <1>16 DEF KeymonMute
  <2>4. up' \in BOOLEAN BY <2>3, Zenon
  <2>5. 0 \in 0 .. MaxVolume OBVIOUS
  <2> QED BY <2>1, <2>2, <2>3, <2>4, <2>5, Zenon
<1>11. ASSUME NEW k \in Keys, Press(k) \/ Release(k) PROVE UNCHANGED sound
  BY <1>11 DEF Press, Release
<1>12. CASE Plug \/ Tick \/ BeginPass \/ StopKeymon \/ Drain \/ Continue
  BY <1>1, <1>12 DEF Plug, Tick, BeginPass, StopKeymon, Drain, Continue
<1>13. CASE Check BY <1>1, <1>13 DEF Check, PowerOff
<1>14. CASE UNCHANGED vars BY <1>1, <1>14 DEF vars
<1> QED
  BY <1>1, <1>3, <1>4, <1>5, <1>6, <1>7, <1>8, <1>9, <1>10, <1>11, <1>12, <1>13, <1>14, <1>15, <1>16
     DEF Next, Launcher, KeymonStep

LEMMA TypeStep == TypeOK /\ [Next]_vars => TypeOK'
BY PhaseTypesStep, TimeTypesStep, QueueTypesStep, SoundTypesStep
   DEF TypeOK, PhaseTypes, TimeTypes, QueueTypes, SoundTypes
------------------------------------------------------------------------------
(* The queue and the button.                                                 *)

LEMMA Waiting1 == queue' = queue => (DownWaits' <=> DownWaits) /\ (UpWaits' <=> UpWaits)
BY DEF DownWaits, UpWaits

LEMMA Appended ==
  ASSUME TypeOK, NEW e \in Events, queue' = Append(queue, e)
  PROVE  /\ DOMAIN queue = 1 .. Len(queue) /\ Len(queue) \in Nat
         /\ DOMAIN queue' = 1 .. Len(queue) + 1
         /\ \A i \in 1 .. Len(queue) : queue'[i] = queue[i]
         /\ queue'[Len(queue) + 1] = e
BY DEF TypeOK

LEMMA Dropped ==
  ASSUME TypeOK, NEW i \in DOMAIN queue, queue' = Rest(i)
  PROVE  /\ DOMAIN queue = 1 .. Len(queue) /\ Len(queue) \in Nat /\ i \in 1 .. Len(queue)
         /\ DOMAIN queue' = 1 .. Len(queue) - i
         /\ \A j \in 1 .. Len(queue) - i : queue'[j] = queue[i + j]
<1>1. queue \in Seq(Events) /\ DOMAIN queue = 1 .. Len(queue) /\ Len(queue) \in Nat BY DEF TypeOK
<1>2. i \in 1 .. Len(queue) BY <1>1
<1>3. /\ Len(Rest(i)) = Len(queue) - i /\ DOMAIN Rest(i) = 1 .. Len(queue) - i
      /\ \A j \in 1 .. Len(queue) - i : Rest(i)[j] = queue[i + j]
  BY <1>1, <1>2 DEF Rest
<1> QED BY <1>1, <1>2, <1>3

LEMMA EventTypes ==
  ASSUME NEW k \in Keys
  PROVE  /\ <<k, TRUE>> \in Events /\ <<k, FALSE>> \in Events
         /\ Down # Up /\ Down \in Events /\ Up \in Events
         /\ k = "OTHER" => <<k, TRUE>> \notin {Down, Up} /\ <<k, FALSE>> \notin {Down, Up}
         /\ k = "POWER" => <<k, TRUE>> = Down /\ <<k, FALSE>> = Up
BY DEF Keys, Events, Down, Up

\* What a press or a release may do to the queue and to POWER.
LEMMA Hits ==
  ASSUME NEW k \in Keys, Press(k) \/ Release(k)
  PROVE  \/ button' = button /\ queue' = queue
         \/ button = "before" /\ button' = "up" /\ queue' = queue
         \/ \E e \in Events \ {Down, Up} : button' = button /\ queue' = Append(queue, e)
         \/ button = "up" /\ button' = "down" /\ queue' = Append(queue, Down)
         \/ button \notin {"up", "before"} /\ button' = "up" /\ queue' = Append(queue, Up)
<1>1. CASE k = "POWER" BY <1>1, EventTypes DEF Press, Release
<1>2. CASE k = "OTHER" BY <1>2, EventTypes DEF Press, Release
<1> QED BY <1>1, <1>2 DEF Keys

LEMMA QueueStep == TypeOK /\ QueueOK /\ [Next]_vars => QueueOK'
<1> SUFFICES ASSUME TypeOK, QueueOK, [Next]_vars PROVE QueueOK' OBVIOUS
<1>1. CASE UNCHANGED <<button, queue>> BY <1>1 DEF QueueOK, DownWaits, UpWaits
<1>2. CASE queue' = <<>> BY <1>2 DEF QueueOK, DownWaits, UpWaits
<1>3. ASSUME NEW k \in Keys, Press(k) \/ Release(k) PROVE QueueOK'
  <2> DEFINE n == Len(queue)
  <2>0. Down \in Events /\ Up \in Events /\ Down # Up BY EventTypes
  <2>1. CASE button = "before" /\ button' = "up" /\ queue' = queue
    BY <2>1 DEF QueueOK, DownWaits, UpWaits
  <2>2. ASSUME NEW e \in Events, queue' = Append(queue, e),
               \/ e \notin {Down, Up} /\ button' = button
               \/ e = Down /\ button = "up" /\ button' = "down"
               \/ e = Up /\ button \notin {"up", "before"} /\ button' = "up"
        PROVE  QueueOK'
    <3>1. /\ DOMAIN queue = 1 .. n /\ n \in Nat /\ DOMAIN queue' = 1 .. n + 1
          /\ \A i \in 1 .. n : queue'[i] = queue[i]
          /\ queue'[n + 1] = e
      BY <2>2, Appended
    <3> HIDE DEF n
    <3>2. ASSUME NEW i \in DOMAIN queue', queue'[i] = Down,
                 \A j \in DOMAIN queue' : j > i => queue'[j] # Up
          PROVE  button' = "down"
      <4>1. CASE i = n + 1 BY <2>0, <2>2, <3>1, <3>2, <4>1
      <4>2. CASE i \in 1 .. n
        <5>1. e # Up BY <3>1, <3>2, <4>2
        <5>2. queue[i] = Down /\ \A j \in DOMAIN queue : j > i => queue[j] # Up
          BY <3>1, <3>2, <4>2
        <5>3. button = "down" BY <3>1, <4>2, <5>2 DEF QueueOK
        <5> QED BY <2>2, <5>1, <5>3
      <4> QED BY <3>1, <4>1, <4>2
    <3>3. ASSUME NEW i \in DOMAIN queue', queue'[i] = Up, button' # "up"
          PROVE  \E j \in DOMAIN queue' : j > i /\ queue'[j] = Down
      <4>1. e # Up BY <2>0, <2>2, <3>3
      <4>2. i \in 1 .. n /\ queue[i] = Up BY <3>1, <3>3, <4>1
      <4>3. CASE e = Down BY <3>1, <4>2, <4>3
      <4>4. CASE e # Down
        <5>1. PICK j \in DOMAIN queue : j > i /\ queue[j] = Down
          BY <2>2, <3>1, <3>3, <4>1, <4>2, <4>4 DEF QueueOK
        <5> QED BY <3>1, <5>1
      <4> QED BY <4>3, <4>4
    <3>4. button' = "before" => ~DownWaits' /\ ~UpWaits'
      BY <2>2, <3>1 DEF QueueOK, DownWaits, UpWaits
    <3> QED BY <3>2, <3>3, <3>4 DEF QueueOK
  <2> QED BY <1>1, <1>3, <2>0, <2>1, <2>2, Hits
<1>4. CASE Drain
  <2>1. button' = button BY <1>4 DEF Drain, Sleeping, player
  <2>2. ASSUME NEW i \in DOMAIN queue, queue' = Rest(i) PROVE QueueOK'
    <3> DEFINE n == Len(queue)
    <3>1. /\ DOMAIN queue = 1 .. n /\ n \in Nat /\ i \in 1 .. n /\ DOMAIN queue' = 1 .. n - i
          /\ \A j \in 1 .. n - i : queue'[j] = queue[i + j]
      BY <2>2, Dropped
    <3> HIDE DEF n
    <3>2. ASSUME NEW k \in DOMAIN queue', queue'[k] = Down,
                 \A j \in DOMAIN queue' : j > k => queue'[j] # Up
          PROVE  button' = "down"
      <4>1. i + k \in DOMAIN queue /\ queue[i + k] = Down BY <3>1, <3>2
      <4>2. ASSUME NEW j \in DOMAIN queue, j > i + k PROVE queue[j] # Up
        <5>1. j - i \in DOMAIN queue' /\ j - i > k /\ queue'[j - i] = queue[j]
          BY <3>1, <3>2, <4>2
        <5> QED BY <3>2, <5>1
      <4> QED BY <2>1, <4>1, <4>2 DEF QueueOK
    <3>3. ASSUME NEW k \in DOMAIN queue', queue'[k] = Up, button' # "up"
          PROVE  \E j \in DOMAIN queue' : j > k /\ queue'[j] = Down
      <4>1. i + k \in DOMAIN queue /\ queue[i + k] = Up BY <3>1, <3>3
      <4>2. PICK j \in DOMAIN queue : j > i + k /\ queue[j] = Down
        BY <2>1, <3>3, <4>1 DEF QueueOK
      <4>3. j - i \in 1 .. n - i /\ j - i > k /\ i + (j - i) = j BY <3>1, <3>3, <4>2
      <4>4. j - i \in DOMAIN queue' /\ j - i > k /\ queue'[j - i] = queue[j] BY <3>1, <4>3
      <4> QED BY <4>2, <4>4
    <3>4. button' = "before" => ~DownWaits' /\ ~UpWaits'
      BY <2>1, <3>1 DEF QueueOK, DownWaits, UpWaits
    <3> QED BY <3>2, <3>3, <3>4 DEF QueueOK
  <2> QED BY <1>2, <1>4, <2>2 DEF Drain
<1>5. CASE Poll BY <1>2, <1>5 DEF Poll
<1>6. CASE RestOfPass
  <2>1. button' = button
    BY <1>6, RestDoes DEF Passes, PowerOff, FauxSleep, SleepInPass, Goes, player
  <2> QED BY <1>1, <1>6, <2>1 DEF RestOfPass
<1>7. CASE Restart BY <1>2, <1>7 DEF Restart
<1>8. CASE VolumeKey \/ Plug \/ Tick \/ BeginPass
  BY <1>1, <1>8 DEF VolumeKey, Plug, Tick, BeginPass, player
<1>9. CASE EnterSleep \/ StopKeymon \/ Continue \/ Unmute \/ GetVolume \/ ExitSleep
  BY <1>1, <1>9 DEF EnterSleep, StopKeymon, Continue, Unmute, GetVolume, ExitSleep, Sleeping, player
<1>10. CASE Check BY <1>1, <1>10 DEF Check, PowerOff, player
<1>11. CASE KeymonStep \/ UNCHANGED vars
  BY <1>1, <1>11 DEF KeymonStep, KeymonRead, KeymonStore, KeymonMute, KeymonOnly, vars, player
<1> QED
  BY <1>3, <1>4, <1>5, <1>6, <1>7, <1>8, <1>9, <1>10, <1>11 DEF Next, Launcher
------------------------------------------------------------------------------
(* The times.                                                                *)

\* The values the arguments about the times need.
LEMMA TimeFacts ==
  ASSUME TypeOK
  PROVE  /\ since \in Int /\ since >= None /\ late \in Nat /\ late <= Stall
         /\ since <= Hold + Stall
         /\ longest \in Nat /\ longest <= Hold + 3 * Stall
         /\ is_pressed \subseteq Keys
BY Times DEF TypeOK, None

\* A step that leaves the pass where it is.
LEMMA StillStep ==
  ASSUME TimesOK, UNCHANGED <<phase, after, is_pressed, since, late, longest, button, queue, cause>>
  PROVE  TimesOK'
<1>1. (DownWaits' <=> DownWaits) /\ (UpWaits' <=> UpWaits) BY Waiting1
<1> QED BY <1>1 DEF TimesOK, AwakeOK, AsleepOK, CauseOK, UnseenOK, SeenOK, Slack

LEMMA HitStep ==
  ASSUME TypeOK, QueueOK, TimesOK, NEW k \in Keys, Press(k) \/ Release(k)
  PROVE  TimesOK'
<1>1. UNCHANGED <<phase, after, is_pressed, since, late, longest, cause>>
  BY DEF Press, Release, clock
<1>2. ASSUME NEW e \in Events, queue' = Append(queue, e)
      PROVE  /\ DownWaits => DownWaits'
             /\ UpWaits => UpWaits'
             /\ e = Down => DownWaits'
             /\ e = Up => UpWaits'
  BY <1>2, Appended DEF DownWaits, UpWaits
<1>3. /\ DownWaits => DownWaits'
      /\ UpWaits => UpWaits'
      /\ button' = "down" => button = "down" \/ DownWaits'
      /\ ~UpWaits' /\ button = "down" => button' = "down"
  <2>1. Down \in Events /\ Up \in Events BY EventTypes
  <2>2. CASE queue' = queue /\ button' = button BY <2>2, Waiting1
  <2>3. CASE button = "before" /\ button' = "up" /\ queue' = queue BY <2>3, Waiting1
  <2>4. CASE \E e \in Events \ {Down, Up} : button' = button /\ queue' = Append(queue, e)
    BY <1>2, <2>4
  <2>5. CASE button = "up" /\ button' = "down" /\ queue' = Append(queue, Down) BY <1>2, <2>1, <2>5
  <2>6. CASE button \notin {"up", "before"} /\ button' = "up" /\ queue' = Append(queue, Up)
    BY <1>2, <2>1, <2>6
  <2> QED BY <2>2, <2>3, <2>4, <2>5, <2>6, Hits
<1>4. AwakeOK'
  BY <1>1, <1>3 DEF TimesOK, AwakeOK, UnseenOK, SeenOK, Slack
<1>5. AsleepOK' BY <1>1, <1>3 DEF TimesOK, AsleepOK
<1>6. CauseOK' BY <1>1 DEF TimesOK, CauseOK
<1> QED BY <1>4, <1>5, <1>6 DEF TimesOK

LEMMA TickStep ==
  ASSUME TypeOK, TimesOK, Tick
  PROVE  TimesOK'
<1>1. UNCHANGED <<phase, after, is_pressed, button, queue, cause>> BY DEF Tick
<1>2. (DownWaits' <=> DownWaits) /\ (UpWaits' <=> UpWaits) BY <1>1, Waiting1
<1>3. CASE phase \in Awake
  <2>1. /\ late' = late + 1
        /\ since' = IF since = None THEN None ELSE AtMost(since + 1, Hold + Stall)
        /\ longest' = AtMost(IF button = "down" THEN longest + 1 ELSE longest, Hold + 3 * Stall)
    BY <1>3 DEF Tick, Held, Awake, Waiting
  <2>2. phase \notin Asleep \cup {"logic"} /\ phase # Off
    BY <1>3 DEF Awake, Asleep, Waiting, Leaving, Off
  <2>3. AsleepOK' /\ CauseOK'
    <3>1. phase \notin {"woken", "cont"} \cup Leaving BY <2>2 DEF Asleep, Waiting
    <3>2. cause' = "none" BY <1>1, <2>2 DEF TimesOK, CauseOK
    <3> QED BY <1>1, <2>2, <3>1, <3>2 DEF AsleepOK, CauseOK
  <2>4. CASE since = None
    <3>1. UnseenOK /\ "POWER" \notin is_pressed BY <1>3, <2>4 DEF TimesOK, AwakeOK
    <3>2. since' = None BY <2>1, <2>4
    <3>3. UnseenOK' BY <1>1, <1>2, <2>1, <3>1, Times, TimeFacts DEF UnseenOK, Slack, AtMost
    <3> QED BY <1>1, <2>3, <3>1, <3>2, <3>3 DEF TimesOK, AwakeOK
  <2>5. CASE since # None
    <3>1. SeenOK /\ "POWER" \in is_pressed BY <1>3, <2>5 DEF TimesOK, AwakeOK
    <3>2. since' # None BY <2>1, <2>5, Times, TimeFacts DEF AtMost, None
    <3>3. longest <= longest' /\ longest' <= longest + 1
      BY <2>1, Times, TimeFacts DEF AtMost
    <3>4. since \in Nat /\ since' \in Nat /\ since' <= since + 1
          /\ (since' < Hold + Stall => since' = since + 1 /\ since < Hold + Stall)
      BY <2>1, <2>5, Times, TimeFacts DEF AtMost, None
    <3>5. longest' < Hold + Stall + Slack' + late'
      BY <1>1, <2>1, <3>1, <3>3, Times, TimeFacts DEF SeenOK, Slack, AtMost
    <3>6. since' < Hold + Stall => longest' <= since' + Stall
      BY <2>1, <3>1, <3>3, <3>4, Times, TimeFacts DEF SeenOK, AtMost
    <3>7. phase' = "frame" => since' < Hold + late'
      BY <1>1, <2>1, <3>1, <3>4, Times, TimeFacts DEF SeenOK
    <3>8. since' <= longest' + Stall + Slack' + late'
      BY <1>1, <2>1, <3>1, <3>3, <3>4, Times, TimeFacts DEF SeenOK, Slack, AtMost
    <3>9. ASSUME ~UpWaits' PROVE since' <= longest' + Stall /\ button' = "down"
      <4>1. since <= longest + Stall /\ button = "down" BY <1>2, <3>1, <3>9 DEF SeenOK
      <4>2. since' <= Hold + Stall
        BY <2>1, <2>5, Times, TimeFacts DEF AtMost
      <4>3. longest' = longest + 1 \/ longest' = Hold + 3 * Stall
        BY <2>1, <4>1, Times, TimeFacts DEF AtMost
      <4> QED BY <1>1, <3>4, <4>1, <4>2, <4>3, Times, TimeFacts
    <3>10. SeenOK' BY <3>5, <3>6, <3>7, <3>8, <3>9 DEF SeenOK
    <3> QED BY <1>1, <2>3, <3>1, <3>2, <3>10 DEF TimesOK, AwakeOK
  <2> QED BY <2>4, <2>5
<1>4. CASE phase \in Waiting
  <2>1. UNCHANGED <<late, since>> BY <1>4 DEF Tick, Awake, Waiting
  <2>2. longest' = longest
    BY <1>4, Times, TimeFacts DEF Tick, Held, Awake, Waiting, AtMost
  <2> QED BY <1>1, <2>1, <2>2, StillStep
<1> QED BY <1>3, <1>4 DEF Tick

LEMMA BeginStep ==
  ASSUME TypeOK, TimesOK, BeginPass
  PROVE  TimesOK'
<1>1. /\ phase = "frame" /\ phase' = "poll" /\ late' = 0
      /\ UNCHANGED <<is_pressed, since, longest, button, queue, cause>>
  BY DEF BeginPass, player
<1>2. (DownWaits' <=> DownWaits) /\ (UpWaits' <=> UpWaits) BY <1>1, Waiting1
<1>3. AsleepOK' /\ CauseOK'
  BY <1>1 DEF TimesOK, AsleepOK, CauseOK, Leaving, Asleep, Waiting, Off
<1>4. Slack = 0 /\ Slack' = Stall BY <1>1 DEF Slack
<1>5. CASE since = None
  <2>1. UnseenOK BY <1>1, <1>5 DEF TimesOK, AwakeOK, Awake
  <2>2. UnseenOK' BY <1>1, <1>2, <1>4, <2>1, Times, TimeFacts DEF UnseenOK
  <2> QED BY <1>1, <1>3, <1>5, <2>2 DEF TimesOK, AwakeOK, Awake
<1>6. CASE since # None
  <2>1. SeenOK BY <1>1, <1>6 DEF TimesOK, AwakeOK, Awake
  <2>2. SeenOK' BY <1>1, <1>2, <1>4, <2>1, Times, TimeFacts DEF SeenOK
  <2> QED BY <1>1, <1>3, <1>6, <2>2 DEF TimesOK, AwakeOK, Awake
<1> QED BY <1>5, <1>6

\* A pass that has come this far began with these times.
LEMMA PassTimes ==
  ASSUME TypeOK, TimesOK, phase \in {"poll", "logic"}
  PROVE  /\ since # None => since <= longest + 2 * Stall + late
         /\ cause = "none"
<1>1. CASE phase = "poll"
  BY <1>1, Times, TimeFacts DEF TimesOK, AwakeOK, SeenOK, Slack, Awake, CauseOK, Off
<1>2. CASE phase = "logic"
  BY <1>2 DEF TimesOK, AsleepOK, CauseOK, Off
<1> QED BY <1>1, <1>2

\* The passes that do not go on with another one.
LEMMA PassEnds ==
  ASSUME TypeOK, TimesOK, NEW pressed, NEW released, NEW next \in {"frame", "quit"},
         Passes(pressed, released, next), phase \in {"poll", "logic"},
         ~(next = "frame" /\ Goes(pressed, next))
  PROVE  TimesOK'
<1> USE DEF Awake, Asleep, Waiting, Leaving, Off
<1>1. cause = "none" /\ (since # None => since <= longest + 2 * Stall + late) BY PassTimes
<1>2. CASE PowerOff("row") BY <1>2 DEF PowerOff, TimesOK, AwakeOK, AsleepOK, CauseOK
<1>3. CASE FauxSleep("logic") /\ UNCHANGED <<clock, longest>>
  BY <1>1, <1>3 DEF FauxSleep, clock, TimesOK, AwakeOK, AsleepOK, CauseOK
<1>4. CASE Expires /\ PowerOff("button")
  <2>1. longest' = longest /\ longest >= Hold - 2 * Stall
    BY <1>1, <1>4, Times, TimeFacts DEF Expires, PowerOff, player
  <2> QED BY <1>4, <2>1 DEF PowerOff, TimesOK, AwakeOK, AsleepOK, CauseOK
<1>5. CASE SleepInPass(next)
  BY <1>1, <1>5 DEF SleepInPass, FauxSleep, TimesOK, AwakeOK, AsleepOK, CauseOK
<1>6. CASE next = "quit" /\ Goes(pressed, next)
  BY <1>1, <1>6 DEF Goes, TimesOK, AwakeOK, AsleepOK, CauseOK
<1> QED BY <1>2, <1>3, <1>4, <1>5, <1>6 DEF Passes

\* The pass that goes on: what the poll found is what the next one starts from.
LEMMA PassGoesOn ==
  ASSUME TypeOK, QueueOK, TimesOK, Poll, ~JustReleased("POWER"), ~Expires,
         Goes(JustPressed("POWER"), "frame")
  PROVE  TimesOK'
<1> DEFINE pressed == JustPressed("POWER")
<1>0. /\ phase = "poll" /\ is_pressed' = {k \in Keys : Final(k)} /\ queue' = <<>>
      /\ phase' = "frame" /\ since' = (IF pressed THEN late ELSE since)
      /\ UNCHANGED <<late, button, longest, cause>>
  BY PollDoes DEF Goes, player, Start
<1>1. Slack = Stall /\ Slack' = 0 BY <1>0 DEF Slack
<1>2. ~UpWaits /\ ~UpWaits'
  <2>1. ~UpWaits BY DEF UpWaits, JustReleased, Up
  <2>2. ~UpWaits' BY <1>0 DEF UpWaits
  <2> QED BY <2>1, <2>2
<1>3. "POWER" \in is_pressed' <=> "POWER" \in is_pressed \/ DownWaits
  <2>1. "POWER" \in is_pressed' <=> Final("POWER") BY <1>0 DEF Keys
  <2> QED BY <2>1, <1>2 DEF Final, DownWaits, UpWaits, Up, Down, JustReleased
<1>4. pressed <=> "POWER" \notin is_pressed /\ DownWaits
  <2>1. pressed => DownWaits BY DEF JustPressed, DownWaits, Down
  <2>2. \A j : j \in DOMAIN queue => queue[j] # <<"POWER", FALSE>> BY DEF JustReleased
  <2>3. \A i \in DOMAIN queue : \A j \in 1 .. i - 1 : j \in DOMAIN queue BY DEF TypeOK
  <2>4. pressed => "POWER" \notin is_pressed BY <2>2, <2>3 DEF JustPressed
  <2>5. "POWER" \notin is_pressed /\ DownWaits => pressed BY DEF JustPressed, DownWaits, Down
  <2> QED BY <2>1, <2>4, <2>5
<1>5. DownWaits => button = "down"
  BY <1>2 DEF DownWaits, UpWaits, QueueOK
<1>6. AsleepOK' /\ CauseOK'
  <2>1. cause' = "none" BY <1>0, PassTimes
  <2> QED BY <1>0, <2>1 DEF AsleepOK, CauseOK, Asleep, Waiting, Leaving
<1>7. late' \in Nat /\ late' # None BY <1>0, TimeFacts DEF None
<1> HIDE DEF pressed
<1>8. CASE since = None
  <2>1. "POWER" \notin is_pressed /\ UnseenOK BY <1>0, <1>8 DEF TimesOK, AwakeOK, Awake
  <2>2. CASE pressed
    <3>1. since' = late BY <1>0, <2>2
    <3>2. button' = "down" /\ longest <= Stall + late
      BY <1>0, <1>1, <1>4, <1>5, <2>1, <2>2 DEF UnseenOK
    <3>3. SeenOK'
      BY <1>0, <1>1, <1>2, <3>1, <3>2, Times, TimeFacts DEF SeenOK
    <3> QED BY <1>0, <1>3, <1>4, <1>6, <1>7, <2>2, <3>1, <3>3 DEF TimesOK, AwakeOK
  <2>3. CASE ~pressed
    <3>1. since' = None /\ ~DownWaits BY <1>0, <1>4, <1>8, <2>1, <2>3
    <3>2. longest = 0 /\ button # "down" BY <2>1, <3>1, TimeFacts DEF UnseenOK
    <3>3. UnseenOK' BY <1>0, <1>1, <3>2, TimeFacts DEF UnseenOK
    <3> QED BY <1>3, <1>6, <2>1, <3>1, <3>3 DEF TimesOK, AwakeOK
  <2> QED BY <2>2, <2>3
<1>9. CASE since # None
  <2>1. "POWER" \in is_pressed /\ SeenOK BY <1>0, <1>9 DEF TimesOK, AwakeOK, Awake
  <2>2. since' = since BY <1>0, <1>4, <2>1
  <2>3. since \in Nat /\ since < Hold + late BY <1>9, Times, TimeFacts DEF Expires, None
  <2>4. longest <= since + Stall /\ since <= longest + Stall /\ button = "down"
    BY <1>2, <2>1, <2>3, Times, TimeFacts DEF SeenOK
  <2>5. SeenOK'
    BY <1>0, <1>1, <1>2, <2>2, <2>3, <2>4, Times, TimeFacts DEF SeenOK
  <2> QED BY <1>3, <1>6, <1>9, <2>1, <2>2, <2>5 DEF TimesOK, AwakeOK
<1> QED BY <1>8, <1>9

LEMMA PollStep ==
  ASSUME TypeOK, QueueOK, TimesOK, Poll
  PROVE  TimesOK'
<1>1. PICK next \in {"frame", "quit"} : Passes(JustPressed("POWER"), JustReleased("POWER"), next)
  BY PollDoes
<1>2. phase = "poll" BY PollDoes
<1>3. CASE next = "frame" /\ Goes(JustPressed("POWER"), next)
  <2>1. phase' = "frame" BY <1>3 DEF Goes
  <2>2. ~JustReleased("POWER") /\ ~Expires
    BY <1>1, <2>1 DEF Passes, PowerOff, FauxSleep, SleepInPass, Off
  <2> QED BY <1>3, <2>2, PassGoesOn
<1>4. CASE ~(next = "frame" /\ Goes(JustPressed("POWER"), next))
  BY <1>1, <1>2, <1>4, PassEnds
<1> QED BY <1>3, <1>4

LEMMA SleepStep ==
  ASSUME TypeOK, QueueOK, TimesOK,
         EnterSleep \/ StopKeymon \/ Drain \/ Check \/ Continue \/ Unmute \/ GetVolume \/ ExitSleep
  PROVE  TimesOK'
<1> USE DEF Awake, Asleep, Waiting, Leaving, Off, clock, player, Sleeping
<1>1. cause = "none" BY DEF TimesOK, CauseOK, EnterSleep, StopKeymon, Drain, Check, Continue,
                            Unmute, GetVolume, ExitSleep
<1>2. CASE EnterSleep BY <1>2 DEF EnterSleep, TimesOK, AwakeOK, AsleepOK, CauseOK
<1>3. CASE StopKeymon BY <1>3 DEF StopKeymon, TimesOK, AwakeOK, AsleepOK, CauseOK
<1>4. CASE Continue \/ Unmute \/ GetVolume
  <2>1. queue' = queue BY <1>4 DEF Continue, Unmute, GetVolume
  <2>2. DownWaits' <=> DownWaits BY <2>1, Waiting1
  <2> QED
    BY <1>4, <2>2 DEF Continue, Unmute, GetVolume, TimesOK, AwakeOK, AsleepOK, CauseOK
<1>5. CASE Drain
  <2>1. /\ phase = "wait" /\ UNCHANGED <<after, is_pressed, since, late, longest, button, cause>>
        /\ \/ phase' = "delay"
           \/ \E i \in DOMAIN queue : WakesAt(i) /\ queue' = Rest(i) /\ phase' = "woken"
    BY <1>5 DEF Drain
  <2>2. ASSUME NEW i \in DOMAIN queue, WakesAt(i), queue' = Rest(i), button = "down" PROVE DownWaits'
    <3>1. queue[i] = Up BY <2>2 DEF WakesAt, Up
    <3>2. PICK j \in DOMAIN queue : j > i /\ queue[j] = Down BY <2>2, <3>1 DEF QueueOK
    <3>3. j - i \in 1 .. Len(queue) - i /\ i + (j - i) = j BY <2>2, <3>2, Dropped
    <3>4. j - i \in DOMAIN queue' /\ queue'[j - i] = Down BY <2>2, <3>2, <3>3, Dropped
    <3> QED BY <3>4 DEF DownWaits
  <2> QED BY <2>1, <2>2 DEF TimesOK, AwakeOK, AsleepOK, CauseOK
<1>6. CASE Check
  <2>1. CASE PowerOff("timer") BY <2>1 DEF PowerOff, TimesOK, AwakeOK, AsleepOK, CauseOK
  <2>2. CASE ~PowerOff("timer")
    <3>1. /\ phase \in {"delay", "woken"} /\ phase' = IF phase = "woken" THEN "cont" ELSE "wait"
          /\ UNCHANGED <<after, is_pressed, since, late, longest, button, cause, queue>>
      BY <1>6, <2>2 DEF Check
    <3>2. DownWaits' <=> DownWaits BY <3>1, Waiting1
    <3> QED BY <3>1, <3>2 DEF TimesOK, AwakeOK, AsleepOK, CauseOK
  <2> QED BY <2>1, <2>2
<1>7. CASE ExitSleep
  <2>1. /\ phase = "store" /\ phase' = after /\ after' = "frame"
        /\ UNCHANGED <<is_pressed, since, late, longest, button, cause, queue>>
    BY <1>7 DEF ExitSleep
  <2>2. DownWaits' <=> DownWaits BY <2>1, Waiting1
  <2>3. after \in {"frame", "logic", "quit"} BY DEF TypeOK
  <2>4. CASE after = "frame"
    <3>1. since = None /\ longest = 0 /\ is_pressed = {} /\ (button = "down" => DownWaits)
      BY <2>1, <2>4 DEF TimesOK, AsleepOK
    <3>2. UnseenOK' BY <2>1, <2>2, <2>4, <3>1, Times, TimeFacts DEF UnseenOK, Slack
    <3> QED BY <1>1, <2>1, <2>4, <3>1, <3>2 DEF TimesOK, AwakeOK, AsleepOK, CauseOK
  <2>5. CASE after \in {"logic", "quit"}
    BY <1>1, <2>1, <2>5 DEF TimesOK, AwakeOK, AsleepOK, CauseOK
  <2> QED BY <2>3, <2>4, <2>5
<1> QED BY <1>2, <1>3, <1>4, <1>5, <1>6, <1>7

LEMMA RestartStep ==
  ASSUME TimesOK, Restart
  PROVE  TimesOK'
<1>1. /\ phase = "quit" /\ phase' = "frame" /\ is_pressed' = {} /\ since' = None /\ late' = 0
      /\ longest' = 0 /\ button' # "down" /\ cause' = cause
  BY DEF Restart
<1>2. UnseenOK' BY <1>1, Times DEF UnseenOK, Slack
<1> QED
  BY <1>1, <1>2 DEF TimesOK, AwakeOK, AsleepOK, CauseOK, Asleep, Waiting, Leaving, Off

LEMMA TimesStep == TypeOK /\ QueueOK /\ TimesOK /\ [Next]_vars => TimesOK'
<1> SUFFICES ASSUME TypeOK, QueueOK, TimesOK, [Next]_vars PROVE TimesOK' OBVIOUS
<1>1. CASE RestOfPass
  BY <1>1, RestDoes, PassEnds DEF Goes
<1>2. CASE VolumeKey \/ Plug
  BY <1>2, StillStep DEF VolumeKey, Plug, clock, player
<1>3. CASE KeymonStep \/ UNCHANGED vars
  BY <1>3, StillStep DEF KeymonStep, KeymonRead, KeymonStore, KeymonMute, KeymonOnly, vars, clock,
                        player
<1> QED
  BY <1>1, <1>2, <1>3, HitStep, TickStep, BeginStep, PollStep, SleepStep, RestartStep DEF Next,
                        Launcher
------------------------------------------------------------------------------
(* The sound.                                                                *)

LEMMA SoundFacts ==
  ASSUME TypeOK
  PROVE  /\ volume \in Nat /\ val \in Nat /\ level \in Nat
         /\ step \in {"idle", "store", "mute"}
         /\ muted \in BOOLEAN /\ overlapped \in BOOLEAN /\ up \in BOOLEAN
BY Times DEF TypeOK

\* A step of the launcher that leaves the sound as it is, and does not enter a phase that
\* SoundInv speaks of.
LEMMA QuietStep ==
  ASSUME SoundInv, UNCHANGED sound,
         phase' \in Waiting \cup {"cont"} => ~keymon',
         phase' \in {"volume", "store"} => phase' = phase,
         phase' \in Settled => phase \in Settled
  PROVE  SoundInv'
<1>1. UNCHANGED <<step, up, val, level, volume, muted, overlapped>> BY DEF sound, heard
<1>2. StoppedOK' BY <1>1 DEF SoundInv, StoppedOK
<1>3. KeyOK' BY <1>1 DEF SoundInv, KeyOK
<1>4. AudibleOK' BY <1>1 DEF SoundInv, AudibleOK, Heard
<1> QED BY <1>2, <1>3, <1>4 DEF SoundInv

LEMMA KeymonReadStep == ASSUME TypeOK, SoundInv, KeymonRead PROVE SoundInv'
<1>1. /\ step = "idle" /\ keymon /\ UNCHANGED <<phase, keymon, level, volume, muted>>
      /\ val' = IF up' THEN AtMost(volume + 1, MaxVolume) ELSE AtLeast(volume - 1, 0)
      /\ step' = IF val' # volume THEN "store" ELSE "mute"
      /\ up' \in BOOLEAN
  BY DEF KeymonRead, KeymonRuns, KeymonOnly
<1>2. ~overlapped' => ~overlapped /\ phase \notin Leaving BY DEF KeymonRead, Overlaps
<1>3. StoppedOK' BY <1>1 DEF SoundInv, StoppedOK
<1>4. KeyOK'
  BY <1>1, Times, SoundFacts DEF KeyOK, AtMost, AtLeast
<1>5. ~up' /\ val' > 0 => volume > 0 BY <1>1, Times, SoundFacts DEF AtLeast
<1>6. AudibleOK' BY <1>1, <1>2, <1>5 DEF SoundInv, AudibleOK, Heard, Leaving
<1> QED BY <1>3, <1>4, <1>6 DEF SoundInv

LEMMA KeymonStoreStep == ASSUME TypeOK, SoundInv, KeymonStore PROVE SoundInv'
<1>1. /\ step = "store" /\ step' = "mute" /\ volume' = val
      /\ UNCHANGED <<phase, keymon, up, val, level, muted>>
  BY DEF KeymonStore, KeymonOnly
<1>2. ~overlapped' => ~overlapped /\ phase \notin Leaving BY DEF KeymonStore, Overlaps
<1>3. StoppedOK' BY <1>1 DEF SoundInv, StoppedOK
<1>4. KeyOK' BY <1>1 DEF SoundInv, KeyOK
<1>5. AudibleOK' BY <1>1, <1>2 DEF SoundInv, AudibleOK, Heard, Leaving
<1> QED BY <1>3, <1>4, <1>5 DEF SoundInv

LEMMA KeymonMuteStep == ASSUME TypeOK, SoundInv, KeymonMute PROVE SoundInv'
<1>1. /\ step = "mute" /\ step' = "idle" /\ keymon
      /\ UNCHANGED <<phase, keymon, level, volume>>
  BY DEF KeymonMute, KeymonOnly, KeymonRuns
<1>2. muted' = IF up THEN FALSE ELSE IF val = 0 THEN TRUE ELSE muted BY DEF KeymonMute
<1>4. ~overlapped' => ~overlapped /\ phase \notin Leaving BY DEF KeymonMute, Overlaps
<1>5. StoppedOK' BY <1>1 DEF SoundInv, StoppedOK
<1>6. KeyOK' BY <1>1 DEF KeyOK
<1>7. ~overlapped' /\ phase' \in Settled => Heard'
  <2> SUFFICES ASSUME ~overlapped', phase' \in Settled, volume' > 0 PROVE ~muted'
    BY <1>1 DEF Heard
  <2>1. volume = val /\ val > 0 /\ (~up => ~muted)
    BY <1>1, <1>4 DEF SoundInv, KeyOK, AudibleOK, Heard
  <2> QED BY <1>2, <2>1, SoundFacts
<1>8. AudibleOK' BY <1>1, <1>4, <1>7 DEF AudibleOK, Leaving
<1> QED BY <1>5, <1>6, <1>8 DEF SoundInv

LEMMA EnterSleepSound == ASSUME TypeOK, SoundInv, EnterSleep PROVE SoundInv'
<1>1. /\ phase' = "muted" /\ muted' = TRUE /\ UNCHANGED <<step, up, val, level, volume>>
  BY DEF EnterSleep
<1>2. ~overlapped' => ~overlapped \/ step = "idle" BY DEF EnterSleep
<1>3. StoppedOK' BY <1>1 DEF StoppedOK, Waiting
<1>4. KeyOK' BY <1>1, <1>2 DEF SoundInv, KeyOK
<1>5. AudibleOK' BY <1>1 DEF AudibleOK, Settled, Awake
<1> QED BY <1>3, <1>4, <1>5 DEF SoundInv

LEMMA LeavingSound ==
  ASSUME TypeOK, SoundInv, Unmute \/ GetVolume \/ ExitSleep
  PROVE  SoundInv'
<1> USE DEF Waiting, Settled, Awake
<1>1. CASE Unmute
  <2>1. /\ phase' = "volume" /\ muted' = FALSE
        /\ UNCHANGED <<step, up, val, level, volume, overlapped>>
    BY <1>1 DEF Unmute
  <2>2. StoppedOK' BY <2>1 DEF StoppedOK
  <2>3. KeyOK' BY <2>1 DEF SoundInv, KeyOK
  <2>4. AudibleOK' BY <2>1 DEF AudibleOK
  <2> QED BY <2>2, <2>3, <2>4 DEF SoundInv
<1>2. CASE GetVolume
  <2>1. /\ phase = "volume" /\ phase' = "store" /\ level' = volume
        /\ UNCHANGED <<step, up, val, volume, muted, overlapped>>
    BY <1>2 DEF GetVolume, heard
  <2>2. StoppedOK' BY <2>1 DEF StoppedOK
  <2>3. KeyOK' BY <2>1 DEF SoundInv, KeyOK
  <2>4. AudibleOK' BY <2>1 DEF SoundInv, AudibleOK
  <2> QED BY <2>2, <2>3, <2>4 DEF SoundInv
<1>3. CASE ExitSleep
  <2>1. /\ phase = "store" /\ phase' = after /\ volume' = level
        /\ UNCHANGED <<step, up, val, muted, overlapped>>
    BY <1>3 DEF ExitSleep
  <2>2. phase' \in {"frame", "logic", "quit"} BY <2>1 DEF TypeOK
  <2>3. ~overlapped' => volume' = volume /\ ~muted' BY <2>1 DEF SoundInv, AudibleOK
  <2>4. StoppedOK' BY <2>2 DEF StoppedOK
  <2>5. KeyOK' BY <2>1, <2>3 DEF SoundInv, KeyOK
  <2>6. AudibleOK' BY <2>2, <2>3 DEF AudibleOK, Heard
  <2> QED BY <2>4, <2>5, <2>6 DEF SoundInv
<1> QED BY <1>1, <1>2, <1>3

LEMMA RestartSound == ASSUME TypeOK, SoundInv, Restart PROVE SoundInv'
<1>1. /\ phase' = "frame" /\ UNCHANGED <<step, up, val, level, volume, overlapped>>
  BY DEF Restart
<1>2. muted' => volume = 0 BY DEF Restart
<1>3. StoppedOK' BY <1>1 DEF StoppedOK, Waiting
<1>4. KeyOK' BY <1>1 DEF SoundInv, KeyOK
<1>5. ~overlapped' => Heard'
  BY <1>1, <1>2, <1>4, SoundFacts DEF KeyOK, Heard
<1>6. AudibleOK' BY <1>1, <1>5 DEF AudibleOK
<1> QED BY <1>3, <1>4, <1>6 DEF SoundInv

LEMMA SoundStep == TypeOK /\ SoundInv /\ [Next]_vars => SoundInv'
<1> SUFFICES ASSUME TypeOK, SoundInv, [Next]_vars PROVE SoundInv' OBVIOUS
<1> USE DEF Waiting, Settled, Awake, Off
<1>1. ASSUME NEW pressed, NEW released, NEW next \in {"frame", "quit"},
             Passes(pressed, released, next), phase \in {"poll", "logic"}
      PROVE  SoundInv'
  BY <1>1, QuietStep DEF Passes, PowerOff, FauxSleep, SleepInPass, Goes
<1>2. CASE Poll BY <1>1, <1>2, PollDoes
<1>3. CASE RestOfPass BY <1>1, <1>3, RestDoes
<1>4. ASSUME NEW k \in Keys, Press(k) \/ Release(k) PROVE SoundInv'
  <2>1. UNCHANGED <<phase, keymon, sound>> BY <1>4 DEF Press, Release
  <2> QED BY <2>1, QuietStep DEF SoundInv, StoppedOK
<1>5. CASE Plug \/ Tick \/ UNCHANGED vars
  <2>1. UNCHANGED <<phase, keymon, sound>> BY <1>5 DEF Plug, Tick, vars
  <2> QED BY <2>1, QuietStep DEF SoundInv, StoppedOK
<1>6. CASE VolumeKey
  <2>1. UNCHANGED <<phase, keymon, step, up, val, level, volume, muted, overlapped>>
    BY <1>6 DEF VolumeKey, heard
  <2> QED BY <2>1 DEF SoundInv, StoppedOK, KeyOK, AudibleOK, Heard
<1>7. CASE BeginPass BY <1>7, QuietStep DEF BeginPass
<1>8. CASE StopKeymon BY <1>8, QuietStep DEF StopKeymon
<1>9. CASE Drain
  <2>1. /\ phase = "wait" /\ phase' \in {"delay", "woken"} /\ UNCHANGED <<keymon, sound>>
    BY <1>9 DEF Drain
  <2> QED BY <2>1, QuietStep DEF SoundInv, StoppedOK
<1>10. CASE Check
  <2>1. /\ phase \in {"delay", "woken"} /\ UNCHANGED <<keymon, sound>>
        /\ phase' \in {Off, "cont", "wait"}
    BY <1>10 DEF Check, PowerOff
  <2> QED BY <2>1, QuietStep DEF SoundInv, StoppedOK
<1>11. CASE Continue BY <1>11, QuietStep DEF Continue
<1> QED
  BY <1>2, <1>3, <1>4, <1>5, <1>6, <1>7, <1>8, <1>9, <1>10, <1>11, KeymonReadStep,
     KeymonStoreStep, KeymonMuteStep, EnterSleepSound, LeavingSound, RestartSound
     DEF Next, Launcher, KeymonStep
------------------------------------------------------------------------------
(* The theorems.                                                             *)

IInv == TypeOK /\ QueueOK /\ TimesOK /\ SoundInv

LEMMA InitIInv == Init => IInv
<1> SUFFICES ASSUME Init PROVE IInv OBVIOUS
<1> USE DEF Init
<1>1. TypeOK
  <2>1. PhaseTypes
    <3>1. other \in BOOLEAN /\ keymon \in BOOLEAN BY Zenon
    <3> QED BY <3>1 DEF PhaseTypes, Awake
  <2>2. TimeTypes BY Times DEF TimeTypes, None
  <2>3. QueueTypes
    <3>1. <<>> \in Seq(Events) /\ Len(<<>>) = 0 OBVIOUS
    <3> QED BY <3>1, Times DEF QueueTypes
  <2>4. SoundTypes
    <3>1. muted \in BOOLEAN /\ overlapped \in BOOLEAN /\ up \in BOOLEAN
      BY Zenon
    <3>2. 0 \in 0 .. MaxVolume BY Times
    <3> QED BY <3>1, <3>2 DEF SoundTypes
  <2> QED BY <2>1, <2>2, <2>3, <2>4 DEF TypeOK, PhaseTypes, TimeTypes, QueueTypes, SoundTypes
<1>2. QueueOK BY DEF QueueOK, DownWaits, UpWaits
<1>3. TimesOK
  <2>1. UnseenOK BY Times DEF UnseenOK, Slack
  <2>2. AwakeOK BY <2>1 DEF AwakeOK
  <2>3. AsleepOK BY DEF AsleepOK, Asleep, Waiting, Leaving
  <2>4. CauseOK BY DEF CauseOK
  <2> QED BY <2>2, <2>3, <2>4 DEF TimesOK
<1>4. SoundInv
  <2>1. phase = "frame" /\ step = "idle" /\ (muted => volume = 0) OBVIOUS
  <2>2. StoppedOK BY <2>1 DEF StoppedOK, Waiting
  <2>3. KeyOK BY <2>1 DEF KeyOK
  <2>4. Heard BY <2>1, Times DEF Heard
  <2>5. AudibleOK BY <2>1, <2>4 DEF AudibleOK
  <2> QED BY <2>2, <2>3, <2>5 DEF SoundInv
<1> QED BY <1>1, <1>2, <1>3, <1>4 DEF IInv

LEMMA NextIInv == IInv /\ [Next]_vars => IInv'
BY TypeStep, QueueStep, TimesStep, SoundStep DEF IInv

\* Every variable of the sleep keeps its type; the times never pass their caps.
THEOREM PowerTypeCorrect == Spec => []TypeOK
<1>1. IInv => TypeOK BY DEF IInv
<1> QED BY <1>1, InitIInv, NextIInv, PTL DEF Spec

\* POWER powers the device off when it was held for Hold, less the age of two readings of
\* the clock, and no hold goes on for long without doing so.
THEOREM PowerOffOnHold == Spec => []PowersOffOnHold
<1>1. IInv => PowersOffOnHold
  <2> SUFFICES ASSUME IInv PROVE PowersOffOnHold OBVIOUS
  <2>1. cause = "button" => longest >= Hold - 2 * Stall BY DEF IInv, TimesOK, CauseOK
  <2>2. ASSUME phase \in Awake PROVE longest < Hold + 3 * Stall
    <3>1. Slack \in Nat /\ Slack <= Stall BY Times DEF Slack
    <3>2. TypeOK BY DEF IInv
    <3>3. CASE since = None
      BY <2>2, <3>1, <3>2, <3>3, Times, TimeFacts DEF IInv, TimesOK, AwakeOK, UnseenOK
    <3>4. CASE since # None
      BY <2>2, <3>1, <3>2, <3>4, Times, TimeFacts DEF IInv, TimesOK, AwakeOK, SeenOK
    <3> QED BY <3>3, <3>4
  <2> QED BY <2>1, <2>2 DEF PowersOffOnHold
<1> QED BY <1>1, InitIInv, NextIInv, PTL DEF Spec

\* After a sleep a volume above 0 is heard, unless keymon handles a key while the sleep ends.
THEOREM AudibleAgain == Spec => []AudibleAfterSleep
<1>1. IInv => AudibleAfterSleep
  BY DEF IInv, SoundInv, AudibleOK, Heard, Settled, AudibleAfterSleep
<1> QED BY <1>1, InitIInv, NextIInv, PTL DEF Spec
=============================================================================
