------------------------- MODULE SharedSettingsProofs -------------------------
(* The settings that keymon and the program in front share: nothing leaves its *)
(* scale in any interleaving; with keymon first, all share one object, what is *)
(* saved last is what they share, and what is heard is what is set.            *)
EXTENDS SharedSettings, TLAPS

Labels == {"off", "dead", "idle", "truncate", "fill", "get", "raw", "store", "save", "check",
           "mute", "getlevel", "storelevel", "savelevel", "enter", "asleep", "wake", "closed"}
Kinds == {"init", "up", "down", "level", "sleep"}

\* A process that has read its object once holds a populated one, and the local value is
\* on the scale it will be stored to.
TypesOK ==
  /\ link \in Objects \cup {None} /\ made \in 0 .. MaxObjects /\ filled \subseteq Objects
  /\ memory \in [Objects -> Values \cup {None}]
  /\ file \in Values \cup {None}
  /\ raw \in Volumes /\ muted \in BOOLEAN
  /\ pc \in [Procs -> Labels]
  /\ object \in [Procs -> Objects \cup {None}]
  /\ DOMAIN val = Procs

LocalOK(p) ==
  /\ pc[p] \notin Away => object[p] \in Objects
  /\ pc[p] \notin Away \cup {"truncate", "get"} => memory[object[p]] \in Values
  /\ pc[p] \in {"raw", "store"} => val[p] \in Volumes
  /\ pc[p] = "storelevel" => val[p] \in Levels

TypeInv == TypesOK /\ \A p \in Procs : LocalOK(p)

LEMMA Scales ==
  /\ Zeros \in Values /\ Default \in Values /\ None \notin Values /\ None \notin Objects
  /\ \A m \in Values : m.volume \in Volumes /\ m.brightness \in Levels
  /\ \A m \in Values, v \in Volumes : [m EXCEPT !.volume = v] \in Values
  /\ \A m \in Values, b \in Levels : [m EXCEPT !.brightness = b] \in Values
BY SettingsAssumption DEF SettingsAssumption, Values, Zeros, Default, Volumes, Levels

LEMMA TypeInit == Init => TypeInv
<1> SUFFICES ASSUME Init PROVE TypeInv
  OBVIOUS
<1>1. /\ made \in 0 .. MaxObjects /\ raw \in Volumes
      /\ muted \in BOOLEAN
  <2>1. MaxVolume \in Nat /\ MaxObjects \in Nat
    BY SettingsAssumption DEF SettingsAssumption
  <2>2. made = 0 /\ raw = MaxVolume
    BY DEF Init
  <2>3. muted \in BOOLEAN
    BY DEF Init
  <2> QED BY <2>1, <2>2, <2>3 DEF Volumes
<1>2. pc = [p \in Procs |-> "off"] /\ object = [p \in Procs |-> None]
  BY DEF Init
<1>3. TypesOK
  BY <1>1, <1>2 DEF Init, TypesOK, Labels
<1>4. \A p \in Procs : LocalOK(p)
  BY <1>2 DEF LocalOK, Away
<1> QED BY <1>3, <1>4 DEF TypeInv

\* What a process does leaves the other's object populated.
LEMMA TypeLocal ==
  ASSUME TypeInv, NEW p \in Procs, TypesOK', LocalOK(p)',
         \A q \in Procs \ {p} : pc'[q] = pc[q] /\ object'[q] = object[q] /\ val'[q] = val[q],
         \A o \in Objects : memory[o] \in Values => memory'[o] \in Values
  PROVE  TypeInv'
<1>1. ASSUME NEW q \in Procs \ {p} PROVE LocalOK(q)'
  BY <1>1 DEF TypeInv, LocalOK, Away
<1> QED BY <1>1 DEF TypeInv

LEMMA TypeOpen == ASSUME TypeInv, NEW p \in Procs, Open(p) PROVE TypeInv'
<1>1. p \in Procs /\ TypesOK /\ pc[p] = "off" /\ MaxObjects \in Nat
      /\ (\A q \in Procs : LocalOK(q))
  BY SettingsAssumption DEF TypeInv, Open
<1>2. UNCHANGED <<memory, filled, file, output, val>> BY DEF Open
<1>3. CASE link = None
  <2>1. made < MaxObjects /\ made' = made + 1 /\ link' = made'
        /\ object' = [object EXCEPT ![p] = made'] /\ pc' = [pc EXCEPT ![p] = "truncate"]
    BY <1>3 DEF Open, Go
  <2>2. made' \in Objects /\ made' \in 0 .. MaxObjects
    BY <1>1, <2>1 DEF TypesOK, Objects
  <2>3. TypesOK' BY <1>1, <1>2, <2>1, <2>2 DEF TypesOK, Labels, output
  <2>4. LocalOK(p)' BY <1>1, <2>1, <2>2 DEF LocalOK, TypesOK, Away
  <2> QED BY <1>1, <1>2, <2>1, <2>3, <2>4, TypeLocal DEF TypesOK
<1>4. CASE link # None
  <2>1. object' = [object EXCEPT ![p] = link] /\ pc' = [pc EXCEPT ![p] = "get"]
        /\ UNCHANGED <<made, link>>
    BY <1>4 DEF Open, Go
  <2>2. link \in Objects BY <1>1, <1>4 DEF TypesOK
  <2>3. TypesOK' BY <1>1, <1>2, <2>1, <2>2 DEF TypesOK, Labels, output
  <2>4. LocalOK(p)' BY <1>1, <2>1, <2>2 DEF LocalOK, TypesOK, Away
  <2> QED BY <1>1, <1>2, <2>1, <2>3, <2>4, TypeLocal DEF TypesOK
<1> QED BY <1>3, <1>4

\* A step that stores nothing in the object and keeps the object it has mapped.
LEMMA TypeMoves ==
  ASSUME TypeInv, NEW p \in Procs, NEW l \in Labels,
         pc' = [pc EXCEPT ![p] = l],
         DOMAIN val' = Procs, \A q \in Procs \ {p} : val'[q] = val[q],
         UNCHANGED <<shared, object>>,
         file' \in Values \cup {None}, raw' \in Volumes, muted' \in BOOLEAN,
         pc[p] \notin Away, l \notin Away \cup {"truncate", "get", "fill"},
         memory[object[p]] \in Values,
         l \in {"raw", "store"} => val'[p] \in Volumes, l = "storelevel" => val'[p] \in Levels
  PROVE  TypeInv'
<1>1. TypesOK' BY DEF TypeInv, TypesOK, shared
<1>2. LocalOK(p)'
  BY DEF TypeInv, TypesOK, LocalOK, shared
<1> QED BY <1>1, <1>2, TypeLocal DEF shared, TypeInv, TypesOK

\* A step that stores settings in the object it has mapped.
LEMMA TypeStores ==
  ASSUME TypeInv, NEW p \in Procs, NEW l \in Labels, NEW m \in Values,
         pc' = [pc EXCEPT ![p] = l], memory' = [memory EXCEPT ![object[p]] = m],
         UNCHANGED <<link, made, file, output, object, val>>, filled' \subseteq Objects,
         pc[p] \notin Away, l \notin Away \cup {"truncate", "raw", "store", "storelevel"}
  PROVE  TypeInv'
<1>1. object[p] \in Objects BY DEF TypeInv, LocalOK
<1>2. TypesOK' BY <1>1 DEF TypeInv, TypesOK, output
<1>3. LocalOK(p)'
  BY <1>1 DEF TypeInv, TypesOK, LocalOK
<1> QED BY <1>1, <1>2, <1>3, TypeLocal DEF TypeInv, TypesOK

\* A process that ends holds nothing.
LEMMA TypeEnds ==
  ASSUME TypeInv, NEW p \in Procs, NEW l \in Away,
         pc' = [pc EXCEPT ![p] = l], object' = [object EXCEPT ![p] = None],
         UNCHANGED <<made, memory, filled, file, output, val>>, link' \in {link, None}
  PROVE  TypeInv'
<1>1. TypesOK' BY DEF TypeInv, TypesOK, output, Labels, Away
<1>2. LocalOK(p)'
  BY DEF TypeInv, TypesOK, LocalOK, Away
<1> QED BY <1>1, <1>2, TypeLocal DEF TypeInv, TypesOK

LEMMA TypeStep == TypeInv /\ [Next]_vars => TypeInv'
<1> SUFFICES ASSUME TypeInv, [Next]_vars PROVE TypeInv'
  OBVIOUS
<1>1. /\ \A p \in Procs : LocalOK(p) /\ pc[p] \in Labels
      /\ file \in Values \cup {None} /\ raw \in Volumes /\ muted \in BOOLEAN
      /\ filled \subseteq Objects /\ memory \in [Objects -> Values \cup {None}]
      /\ DOMAIN val = Procs
  BY DEF TypeInv, TypesOK
\* The settings an active process reads.
<1>2. ASSUME NEW p \in Procs, pc[p] \notin Away \cup {"truncate"}, pc[p] = "get" => Mine(p) # None
      PROVE  /\ Mine(p) \in Values /\ memory[object[p]] \in Values
             /\ Mine(p).volume \in Volumes /\ Mine(p).brightness \in Levels
  BY <1>1, <1>2, Scales DEF LocalOK, Mine
<1>3. ASSUME NEW p \in Procs, Step(p) PROVE TypeInv'
  <2>1. CASE Open(p) BY <2>1, TypeOpen
  <2>2. CASE Truncate(p)
    <3>1. pc[p] = "truncate" /\ pc' = [pc EXCEPT ![p] = "fill"]
          /\ memory' = [memory EXCEPT ![object[p]] = Zeros]
      BY <2>2 DEF Truncate, Go
    <3>2. UNCHANGED <<link, made, filled, file, output, object, val>> BY <2>2 DEF Truncate, local
    <3>3. Zeros \in Values /\ filled' \subseteq Objects BY <1>1, <3>2, Scales
    <3> QED BY <3>1, <3>2, <3>3, TypeStores DEF Away, Labels
  <2>3. CASE Fill(p)
    <3> DEFINE m == IF file = None THEN Default ELSE file
    <3>1. pc[p] = "fill" /\ pc' = [pc EXCEPT ![p] = "get"]
          /\ memory' = [memory EXCEPT ![object[p]] = m] /\ filled' = filled \cup {object[p]}
      BY <2>3 DEF Fill, Go
    <3>2. UNCHANGED <<link, made, file, output, object, val>> BY <2>3 DEF Fill, local
    <3>3. m \in Values BY <1>1, Scales
    <3>4. filled' \subseteq Objects BY <1>1, <3>1 DEF LocalOK, Away
    <3> HIDE DEF m
    <3> QED BY <3>1, <3>2, <3>3, <3>4, TypeStores DEF Away, Labels
  <2>4. CASE Killed(p)
    BY <1>1, <2>4, TypeEnds DEF Killed, Go, shared, Away
  <2>5. CASE Get(p)
    <3>1. pc[p] = "get" /\ Mine(p) # None BY <2>5 DEF Get
    <3>2. memory[object[p]] \in Values /\ Mine(p).volume \in Volumes
      BY <1>2, <3>1 DEF Away
    <3> QED BY <1>1, <2>5, <3>1, <3>2, TypeMoves DEF Get, Go, output, Away, Labels
  <2>6. CASE Raw(p)
    BY <1>1, <2>6, TypeMoves DEF Raw, Go, local, Away, Labels, LocalOK
  <2>7. CASE Store(p)
    <3>1. pc[p] = "store" BY <2>7 DEF Store
    <3>2. Mine(p) \in Values /\ val[p] \in Volumes BY <1>1, <1>2, <3>1 DEF LocalOK, Away
    <3>3. [Mine(p) EXCEPT !.volume = val[p]] \in Values BY <3>2, Scales
    <3>4. memory' = [memory EXCEPT ![object[p]] = [Mine(p) EXCEPT !.volume = val[p]]]
          /\ pc' = [pc EXCEPT ![p] = "save"]
      BY <2>7 DEF Store, Go, Mine
    <3>5. UNCHANGED <<link, made, filled, file, output, object, val>>
      BY <2>7 DEF Store, local
    <3> QED BY <1>1, <3>1, <3>3, <3>4, <3>5, TypeStores DEF Away, Labels
  <2>8. CASE Save(p)
    <3>1. pc[p] = "save" BY <2>8 DEF Save
    <3>2. memory[object[p]] \in Values /\ Mine(p) \in Values BY <1>2, <3>1 DEF Away
    <3>3. PICK l \in {"check", "mute", "idle"} : pc' = [pc EXCEPT ![p] = l]
      BY <2>8 DEF Save, Saved, Ends, Go
    <3>4. UNCHANGED <<shared, object, val, output>> /\ file' = Mine(p)
      BY <2>8 DEF Save, local
    <3> QED BY <1>1, <3>1, <3>2, <3>3, <3>4, TypeMoves DEF output, Away, Labels
  <2>9. CASE Check(p)
    <3>1. pc[p] = "check" BY <2>9 DEF Check
    <3>2. memory[object[p]] \in Values /\ Mine(p) \in Values BY <1>2, <3>1 DEF Away
    <3> QED BY <1>1, <2>9, <3>1, <3>2, TypeMoves DEF Check, Go, local, output, Away, Labels
  <2>10. CASE Mute(p)
    BY <1>1, <2>10, TypeMoves DEF Mute, Ends, Go, local, Away, Labels, LocalOK
  <2>11. CASE GetLevel(p)
    <3>1. pc[p] = "getlevel" BY <2>11 DEF GetLevel
    <3>2. memory[object[p]] \in Values /\ Mine(p).brightness \in Levels
      BY <1>2, <3>1 DEF Away
    <3> QED BY <1>1, <2>11, <3>1, <3>2, TypeMoves DEF GetLevel, Go, output, Away, Labels
  <2>12. CASE StoreLevel(p)
    <3>1. pc[p] = "storelevel" BY <2>12 DEF StoreLevel
    <3>2. Mine(p) \in Values /\ val[p] \in Levels BY <1>1, <1>2, <3>1 DEF LocalOK, Away
    <3>3. [Mine(p) EXCEPT !.brightness = val[p]] \in Values BY <3>2, Scales
    <3>4. memory' = [memory EXCEPT ![object[p]] = [Mine(p) EXCEPT !.brightness = val[p]]]
          /\ pc' = [pc EXCEPT ![p] = "savelevel"]
      BY <2>12 DEF StoreLevel, Go, Mine
    <3>5. UNCHANGED <<link, made, filled, file, output, object, val>>
      BY <2>12 DEF StoreLevel, local
    <3> QED BY <1>1, <3>1, <3>3, <3>4, <3>5, TypeStores DEF Away, Labels
  <2>13. CASE SaveLevel(p)
    <3>1. pc[p] = "savelevel" BY <2>13 DEF SaveLevel
    <3>2. memory[object[p]] \in Values /\ Mine(p) \in Values BY <1>2, <3>1 DEF Away
    <3> QED BY <1>1, <2>13, <3>1, <3>2, TypeMoves DEF SaveLevel, Ends, Go, local, output, Away, Labels
  <2>14. ASSUME NEW up \in BOOLEAN, Volume(p, up) PROVE TypeInv'
    <3>1. pc[p] = "idle" BY <2>14 DEF Volume
    <3>2. memory[object[p]] \in Values /\ Mine(p).volume \in Volumes BY <1>2, <3>1 DEF Away
    <3>3. val'[p] \in Volumes /\ DOMAIN val' = Procs
          /\ (\A q \in Procs \ {p} : val'[q] = val[q])
      <4>1. MaxVolume \in Nat BY SettingsAssumption DEF SettingsAssumption
      <4> QED BY <1>1, <2>14, <3>2, <4>1 DEF Volume, Volumes
    <3>4. /\ \E l \in {"raw", "mute"} : pc' = [pc EXCEPT ![p] = l]
          /\ UNCHANGED <<shared, file, output, object>>
      BY <2>14 DEF Volume, Go
    <3> QED BY <1>1, <3>1, <3>2, <3>3, <3>4, TypeMoves DEF output, Away, Labels
  <2> QED BY <1>3, <2>1, <2>2, <2>3, <2>4, <2>5, <2>6, <2>7, <2>8, <2>9, <2>10, <2>11,
             <2>12, <2>13, <2>14 DEF Step
<1>4. ASSUME NEW up \in BOOLEAN, Brightness(up) PROVE TypeInv'
  BY <1>1, <1>2, <1>4, TypeMoves DEF Brightness, Begins, Go, output, Away, Labels, Procs, LocalOK
<1>5. CASE Quit
  <2>1. PICK l \in Away : pc' = [pc EXCEPT !["app"] = l]
    BY <1>5 DEF Quit, Go, Away
  <2>2. "app" \in Procs /\ object' = [object EXCEPT !["app"] = None] /\ link' \in {link, None}
        /\ UNCHANGED <<made, memory, filled, file, output, val>>
    BY <1>5 DEF Quit, Procs
  <2> QED BY <2>1, <2>2, TypeEnds
<1>6. CASE Crash
  BY <1>6, TypeEnds DEF Crash, Go, Procs, Away, shared
<1>7. CASE UNCHANGED vars
  BY <1>7 DEF vars, shared, output, local, TypeInv, TypesOK, LocalOK
<1>8. CASE Sleep \/ Stop \/ Continue \/ Unmute
  <2>1. PICK l \in {"enter", "asleep", "wake", "get"} : pc' = [pc EXCEPT !["app"] = l]
    BY <1>8 DEF Sleep, Stop, Continue, Unmute, Go
  <2>2. /\ pc["app"] \in {"idle", "enter", "asleep", "wake"} /\ "app" \in Procs
        /\ UNCHANGED <<shared, file, raw, object, val>> /\ muted' \in BOOLEAN
    BY <1>1, <1>8 DEF Sleep, Stop, Continue, Unmute, output, local, Procs
  <2>3. memory[object["app"]] \in Values BY <1>2, <2>2 DEF Away
  <2>4. /\ DOMAIN val' = Procs /\ \A q \in Procs \ {"app"} : val'[q] = val[q]
        /\ file' \in Values \cup {None} /\ raw' \in Volumes /\ UNCHANGED <<shared, object>>
    BY <1>1, <2>2
  <2>5. /\ l \in Labels /\ l \notin Away \cup {"truncate", "fill", "raw", "store", "storelevel"}
        /\ pc["app"] \notin Away
    BY <2>1, <2>2 DEF Away, Labels
  <2>6. CASE l = "get"
    <3>1. TypesOK'
      BY <2>1, <2>2, <2>4, <2>5 DEF TypeInv, TypesOK, shared
    <3>2. LocalOK("app")'
      BY <2>1, <2>2, <2>4, <2>5, <2>6 DEF TypeInv, TypesOK, LocalOK, shared
    <3> QED BY <2>1, <2>2, <2>4, <3>1, <3>2, TypeLocal DEF shared, TypeInv, TypesOK
  <2>7. CASE l # "get"
    <3>1. l \notin Away \cup {"truncate", "get", "fill"} BY <2>5, <2>7
    <3> QED BY <2>1, <2>2, <2>3, <2>4, <2>5, <3>1, TypeMoves
  <2> QED BY <2>6, <2>7
<1> QED BY <1>3, <1>4, <1>5, <1>6, <1>7, <1>8 DEF Next, Procs

\* No interleaving takes the volume or the brightness off its scale, whoever starts first.
THEOREM SettingsTypeCorrect == Spec => []TypeOK
<1>1. TypeInv => TypeOK
  BY DEF TypeInv, TypesOK, LocalOK, TypeOK
<1> QED BY <1>1, TypeInit, TypeStep, PTL DEF Spec
------------------------------------------------------------------------------
(* With keymon first.                                                        *)

Populating == {"off", "truncate", "fill"}

\* keymon is the host of the one object, for good, and populates it before the program in
\* front starts, which is then a client.
FirstOK ==
  /\ pc["keymon"] = "off" => link = None /\ object["keymon"] = None
  /\ pc["keymon"] # "off" => link \in Objects /\ object["keymon"] = link
  /\ pc["keymon"] \notin {"dead", "closed"}
  /\ pc["keymon"] \in {"truncate", "fill"} => kind["keymon"] = "init"
  /\ pc["keymon"] \notin {"off", "truncate"} => memory[link] \in Values
  /\ pc["keymon"] \notin Populating => link \in filled
  /\ pc["app"] # "off" => Started("keymon")
  /\ pc["app"] \notin {"off", "closed"} => object["app"] = link
  /\ pc["app"] \in {"off", "closed"} => object["app"] = None
  /\ pc["app"] \notin {"dead", "truncate", "fill"}
  /\ is_host["app"] = FALSE

\* What is not yet saved has its save ahead of it.
SavedOK ==
  \/ pc["keymon"] \in Populating
  \/ pc["keymon"] \in {"get", "raw", "store"} /\ kind["keymon"] = "init"
  \/ \E p \in Procs : pc[p] \in {"save", "savelevel"}
  \/ unsaved
  \/ file = memory[link]

FirstInv ==
  /\ TypeInv
  /\ kind \in [Procs -> Kinds] /\ is_host \in [Procs -> BOOLEAN]
  /\ FirstOK /\ SavedOK

LEMMA FirstInit == Init => FirstInv
BY TypeInit DEF Init, FirstInv, FirstOK, SavedOK, Procs, Populating, Kinds

LEMMA FirstOpen ==
  ASSUME keymon_first, FirstInv, TypeInv', NEW p \in Procs, Open(p) PROVE FirstInv'
<1>1. TypeInv /\ FirstOK /\ SavedOK /\ pc \in [Procs -> Labels]
      /\ object \in [Procs -> Objects \cup {None}]
      /\ kind \in [Procs -> Kinds] /\ is_host \in [Procs -> BOOLEAN]
      /\ link' \in Objects \cup {None} /\ None \notin Objects
  BY Scales DEF FirstInv, TypeInv, TypesOK
<1>2. kind' = [kind EXCEPT ![p] = "init"] /\ pc[p] = "off"
      /\ UNCHANGED <<memory, filled, file, unsaved>>
  BY DEF Open, Begins
<1>3. CASE p = "keymon"
  <2>1. link = None /\ pc["app"] = "off" BY <1>1, <1>2, <1>3 DEF FirstOK, Started, Away
  <2>2. link' = made' /\ object' = [object EXCEPT !["keymon"] = made']
        /\ is_host' = [is_host EXCEPT !["keymon"] = TRUE]
        /\ pc' = [pc EXCEPT !["keymon"] = "truncate"]
    BY <1>3, <2>1 DEF Open, Go
  <2>3. made' \in Objects
    <3>1. made' \in 0 .. MaxObjects /\ made' = made + 1 /\ made \in 0 .. MaxObjects
      BY <1>3, <2>1 DEF Open, TypeInv, TypesOK, FirstInv
    <3> QED BY <3>1 DEF Objects
  <2> QED BY <1>1, <1>2, <1>3, <2>1, <2>2, <2>3
          DEF FirstInv, FirstOK, SavedOK, Procs, Populating, Started, Kinds
<1>4. CASE p = "app"
  <2>1. Started("keymon") BY <1>4 DEF Open
  <2>2. link \in Objects BY <1>1, <2>1 DEF FirstOK, Started, Away
  <2>3. link # None BY <1>1, <2>2
  <2>4. object' = [object EXCEPT !["app"] = link] /\ link' = link
        /\ is_host' = [is_host EXCEPT !["app"] = FALSE] /\ pc' = [pc EXCEPT !["app"] = "get"]
    BY <1>4, <2>3 DEF Open, Go
  <2>5. Started("keymon")' BY <1>1, <1>2, <1>4, <2>1, <2>4 DEF Started, Busy, Procs
  <2>6. pc'["keymon"] = pc["keymon"] /\ pc'["app"] = "get" /\ pc["app"] = "off"
        /\ object'["keymon"] = object["keymon"] /\ object'["app"] = link
        /\ kind'["keymon"] = kind["keymon"] /\ is_host'["app"] = FALSE
    BY <1>1, <1>2, <1>4, <2>4 DEF Procs
  <2>7. FirstOK' BY <1>1, <1>2, <2>4, <2>5, <2>6 DEF FirstOK
  <2>8. SavedOK' BY <1>1, <1>2, <2>4, <2>6 DEF SavedOK, Procs
  <2> QED BY <1>1, <1>2, <2>4, <2>7, <2>8 DEF FirstInv, Procs, Kinds
<1> QED BY <1>3, <1>4 DEF Procs

\* A step of a process that keeps its object.
LEMMA FirstMoves ==
  ASSUME FirstInv, TypeInv', SavedOK', NEW p \in Procs, pc[p] \notin Away,
         NEW l \in Labels \ {"off", "dead", "closed", "truncate"}, pc' = [pc EXCEPT ![p] = l],
         NEW k \in Kinds, kind' = [kind EXCEPT ![p] = k],
         k = kind[p] \/ k # "init", pc[p] = "idle" => k # "init",
         UNCHANGED <<link, object, is_host>>,
         l = "fill" => pc[p] = "truncate" /\ k = kind[p],
         pc'["keymon"] \notin {"off", "truncate"} => memory'[link] \in Values,
         pc'["keymon"] \notin Populating => link \in filled'
  PROVE  FirstInv'
<1>1. FirstOK /\ pc \in [Procs -> Labels] /\ object \in [Procs -> Objects \cup {None}]
      /\ kind \in [Procs -> Kinds] /\ is_host \in [Procs -> BOOLEAN]
  BY DEF FirstInv, TypeInv, TypesOK
<1>2. kind' \in [Procs -> Kinds] /\ is_host' \in [Procs -> BOOLEAN]
  BY <1>1
<1>3. CASE p = "keymon"
  <2>1. pc'["keymon"] = l /\ kind'["keymon"] = k /\ pc'["app"] = pc["app"]
    BY <1>1, <1>3 DEF Procs
  <2>2. Started("keymon") => Started("keymon")'
    BY <1>1, <1>3, <2>1 DEF Started, Busy, Away
  <2> QED BY <1>1, <1>2, <1>3, <2>1, <2>2 DEF FirstInv, FirstOK, Away, Populating
<1>4. CASE p = "app"
  <2>1. pc'["keymon"] = pc["keymon"] /\ kind'["keymon"] = kind["keymon"] /\ pc'["app"] = l
    BY <1>1, <1>4 DEF Procs
  <2>2. Started("keymon") => Started("keymon")' BY <2>1 DEF Started, Busy
  <2> QED BY <1>1, <1>2, <1>4, <2>1, <2>2 DEF FirstInv, FirstOK, Away, Populating
<1> QED BY <1>3, <1>4 DEF Procs

\* A step that stores nothing and takes no save away.
LEMMA SavedKept ==
  ASSUME FirstInv, NEW p \in Procs, NEW l, pc' = [pc EXCEPT ![p] = l], l \in Labels,
         UNCHANGED <<link, memory, file>>, unsaved => unsaved',
         pc[p] \in {"save", "savelevel"} => l \in {"save", "savelevel"} \/ unsaved',
         pc[p] \in Populating => l \in Populating,
         kind'["keymon"] = kind["keymon"] \/ pc["keymon"] = "idle",
         pc[p] \in {"get", "raw"} => l \in {"raw", "store"} \/ p = "app",
         pc[p] = "store" => p = "app"
  PROVE  SavedOK'
<1>1. SavedOK /\ pc \in [Procs -> Labels] BY DEF FirstInv, TypeInv, TypesOK
<1>2. p \in {"keymon", "app"} BY DEF Procs
<1>3. ASSUME NEW q \in Procs, pc[q] \in {"save", "savelevel"} PROVE SavedOK'
  <2>1. CASE q = p BY <1>1, <1>3, <2>1 DEF SavedOK
  <2>2. CASE q # p
    <3>1. pc'[q] = pc[q] BY <1>1, <2>2
    <3> QED BY <1>3, <3>1 DEF SavedOK
  <2> QED BY <2>1, <2>2
<1>4. CASE unsaved BY <1>4 DEF SavedOK
<1>5. CASE file = memory[link] BY <1>5 DEF SavedOK
<1>6. CASE pc["keymon"] \in Populating
  BY <1>1, <1>2, <1>6 DEF SavedOK, Procs
<1>7. CASE pc["keymon"] \in {"get", "raw", "store"} /\ kind["keymon"] = "init"
  BY <1>1, <1>2, <1>7 DEF SavedOK, Procs
<1> QED BY <1>1, <1>3, <1>4, <1>5, <1>6, <1>7 DEF SavedOK
LEMMA FirstStep == keymon_first /\ FirstInv /\ [Next]_vars => FirstInv'
<1> SUFFICES ASSUME keymon_first, FirstInv, [Next]_vars PROVE FirstInv'
  OBVIOUS
<1>1. /\ TypeInv /\ TypeInv' /\ FirstOK /\ pc \in [Procs -> Labels]
      /\ kind \in [Procs -> Kinds]
      /\ object \in [Procs -> Objects \cup {None}] /\ memory \in [Objects -> Values \cup {None}]
  BY TypeStep DEF FirstInv, TypeInv, TypesOK
<1>2. ASSUME NEW p \in Procs, pc[p] \notin Away
      PROVE  /\ object[p] = link /\ link \in Objects
             /\ pc[p] \in {"truncate", "fill"} => p = "keymon" /\ kind[p] = "init"
             /\ pc["keymon"] # "truncate" => memory[link] \in Values
             /\ pc[p] # "truncate" => pc["keymon"] # "truncate"
             /\ pc[p] \notin {"truncate", "fill"} => link \in filled
             /\ pc[p] \notin {"truncate", "fill"} => pc["keymon"] \notin Populating
             /\ pc["keymon"] \notin Away
  BY <1>1, <1>2 DEF FirstOK, Away, Procs, Started, Busy, Populating
<1>3. ASSUME NEW p \in Procs, Step(p) PROVE FirstInv'
  <2>1. CASE Open(p) BY <1>1, <2>1, FirstOpen
  <2>2. CASE Truncate(p)
    <3>1. pc[p] = "truncate" /\ pc' = [pc EXCEPT ![p] = "fill"]
          /\ memory' = [memory EXCEPT ![object[p]] = Zeros]
          /\ UNCHANGED <<link, object, is_host, filled, kind>>
      BY <2>2 DEF Truncate, Go, local
    <3>2. p = "keymon" /\ object[p] = link /\ link \in Objects BY <1>2, <3>1 DEF Away
    <3>3. memory'[link] \in Values BY <1>1, <3>1, <3>2, Scales
    <3>4. SavedOK' BY <1>1, <3>1, <3>2 DEF SavedOK, Populating
    <3>5. kind' = [kind EXCEPT ![p] = kind[p]] /\ kind[p] \in Kinds BY <1>1, <3>1
    <3>6. pc'["keymon"] = "fill" BY <1>1, <3>1, <3>2
    <3> QED BY <1>1, <3>1, <3>3, <3>4, <3>5, <3>6, FirstMoves DEF Away, Labels, Populating
  <2>3. CASE Fill(p)
    <3>1. pc[p] = "fill" /\ pc' = [pc EXCEPT ![p] = "get"] /\ filled' = filled \cup {object[p]}
          /\ UNCHANGED <<link, object, is_host, kind>>
      BY <2>3 DEF Fill, Go, local
    <3>2. p = "keymon" /\ kind[p] = "init" /\ object[p] = link /\ link \in Objects
      BY <1>2, <3>1 DEF Away
    <3>3. memory'[link] \in Values
      <4>1. (IF file = None THEN Default ELSE file) \in Values
        BY <1>1, Scales DEF TypeInv, TypesOK
      <4>2. memory' = [memory EXCEPT ![link] = IF file = None THEN Default ELSE file]
        BY <2>3, <3>2 DEF Fill
      <4> QED BY <1>1, <3>2, <4>1, <4>2
    <3>4. SavedOK' BY <1>1, <3>1, <3>2 DEF SavedOK
    <3>5. kind' = [kind EXCEPT ![p] = kind[p]] BY <1>1, <3>1
    <3>6. link \in filled' BY <3>1, <3>2
    <3>7. "get" \in Labels \ {"off", "dead", "closed", "truncate"} /\ pc[p] \notin Away /\ pc[p] # "idle"
          /\ kind[p] \in Kinds
      BY <1>1, <3>1 DEF Labels, Away
    <3>8. TypeInv' /\ UNCHANGED <<link, object, is_host>> /\ "get" # "fill"
          /\ pc' = [pc EXCEPT ![p] = "get"]
      BY <1>1, <3>1
    <3> QED BY <3>3, <3>4, <3>5, <3>6, <3>7, <3>8, FirstMoves
  <2>4. CASE Killed(p)
    BY <1>2, <2>4, Scales DEF Killed, Away, Mine
  <2>5. CASE Get(p) \/ Raw(p) \/ Check(p) \/ GetLevel(p) \/ Mute(p) \/ (\E up \in BOOLEAN : Volume(p, up))
    <3>1. PICK l \in Labels, k \in Kinds :
            /\ pc' = [pc EXCEPT ![p] = l] /\ kind' = [kind EXCEPT ![p] = k]
            /\ k = kind[p] \/ (pc[p] = "idle" /\ k # "init")
            /\ pc[p] = "idle" => k # "init"
            /\ pc[p] = "get" => l = "raw"
            /\ pc[p] = "raw" => l = "store"
            /\ l \notin {"off", "dead", "closed", "truncate", "fill"}
            /\ pc[p] \in {"idle", "get", "raw", "check", "getlevel", "mute"}
            /\ UNCHANGED <<link, memory, filled, file, object, is_host, unsaved>>
      <4>1. \A k : kind[p] = k => kind = [kind EXCEPT ![p] = k] BY <1>1
      <4> QED
        BY <1>1, <2>5, <4>1 DEF Get, Raw, Check, GetLevel, Mute, Ends, Volume, Begins, Go, shared, local,
           Labels, Kinds
    <3>2. SavedOK'
      <4>1. kind'["keymon"] = kind["keymon"] \/ pc["keymon"] = "idle" BY <1>1, <3>1 DEF Procs
      <4> QED BY <3>1, <4>1, SavedKept DEF Populating
    <3>3. pc[p] \notin Away /\ pc[p] \notin {"truncate", "fill"} BY <3>1 DEF Away
    <3>4. memory'[link] \in Values /\ link \in filled' BY <1>2, <3>1, <3>3
    <3> QED BY <1>1, <3>1, <3>2, <3>3, <3>4, FirstMoves
  <2>6. CASE Store(p) \/ StoreLevel(p)
    <3>1. PICK l \in {"save", "savelevel"} : pc' = [pc EXCEPT ![p] = l]
      BY <2>6 DEF Store, StoreLevel, Go
    <3>2. pc[p] \in {"store", "storelevel"} /\ UNCHANGED <<link, filled, object, is_host, kind>>
      BY <2>6 DEF Store, StoreLevel, local
    <3>3. SavedOK' BY <1>1, <3>1 DEF SavedOK
    <3>4. memory'[link] \in Values
      <4>1. pc'[p] = l /\ object'[p] = link /\ link' = link
        BY <1>1, <1>2, <3>1, <3>2 DEF Away
      <4>2. LocalOK(p)' BY <1>1 DEF TypeInv
      <4> QED BY <4>1, <4>2 DEF LocalOK, Away
    <3>5. link \in filled' /\ kind' = [kind EXCEPT ![p] = kind[p]] BY <1>1, <1>2, <3>2 DEF Away
    <3> QED BY <1>1, <3>1, <3>2, <3>3, <3>4, <3>5, FirstMoves DEF Away, Labels
  <2>7. CASE Save(p) \/ SaveLevel(p)
    <3>1. PICK l \in {"check", "mute", "idle"} : pc' = [pc EXCEPT ![p] = l]
      BY <2>7 DEF Save, SaveLevel, Saved, Ends, Go
    <3>2. pc[p] \in {"save", "savelevel"} /\ file' = Mine(p)
          /\ UNCHANGED <<link, memory, filled, object, is_host, kind>>
      BY <2>7 DEF Save, SaveLevel, local, shared
    <3>3. object[p] = link /\ memory[link] \in Values /\ link \in filled
      BY <1>2, <3>2 DEF Away
    <3>4. SavedOK' BY <3>2, <3>3 DEF SavedOK, Mine
    <3>5. kind' = [kind EXCEPT ![p] = kind[p]] BY <1>1, <3>2
    <3> QED BY <1>1, <3>1, <3>2, <3>3, <3>4, <3>5, FirstMoves DEF Away, Labels
  <2> QED BY <1>3, <2>1, <2>2, <2>3, <2>4, <2>5, <2>6, <2>7 DEF Step
<1>4. ASSUME NEW up \in BOOLEAN, Brightness(up) PROVE FirstInv'
  <2>1. /\ pc["app"] = "idle" /\ pc' = [pc EXCEPT !["app"] = "storelevel"]
        /\ kind' = [kind EXCEPT !["app"] = "level"]
        /\ UNCHANGED <<link, memory, filled, file, object, is_host, unsaved>>
    BY <1>4 DEF Brightness, Begins, Go, shared
  <2>2. "app" \in Procs BY DEF Procs
  <2>3. SavedOK'
    <3>1. kind'["keymon"] = kind["keymon"] BY <1>1, <2>1 DEF Procs
    <3> QED BY <2>1, <2>2, <3>1, SavedKept DEF Populating, Labels
  <2>4. memory[link] \in Values /\ link \in filled BY <1>2, <2>1, <2>2 DEF Away
  <2>5. "storelevel" \in Labels \ {"off", "dead", "closed", "truncate"} /\ pc["app"] \notin Away
    BY <2>1 DEF Away, Labels
  <2>6. memory'[link] \in Values /\ link \in filled' BY <2>1, <2>4
  <2> QED BY <1>1, <2>1, <2>2, <2>3, <2>5, <2>6, FirstMoves DEF Kinds
<1>5. CASE Quit \/ Crash
  <2>1. PICK l \in {"off", "closed"} :
          /\ pc' = [pc EXCEPT !["app"] = l]
          /\ object' = [object EXCEPT !["app"] = None]
          /\ UNCHANGED <<link, memory, filled, file, is_host, kind>>
          /\ unsaved => unsaved'
          /\ pc["app"] \in {"save", "savelevel"} => unsaved'
    <3>1. is_host["app"] = FALSE
      BY <1>1 DEF FirstOK
    <3>2. CASE Quit BY <3>1, <3>2 DEF Quit, Go
    <3>3. CASE Crash BY <3>3 DEF Crash, Go, shared
    <3> QED BY <1>5, <3>2, <3>3
  <2>2. SavedOK'
    <3>1. SavedOK /\ pc'["keymon"] = pc["keymon"] /\ \A p \in Procs : p # "app" => pc'[p] = pc[p]
      BY <1>1, <2>1 DEF FirstInv, Procs
    <3> QED BY <2>1, <3>1 DEF SavedOK
  <2>3. pc'["keymon"] = pc["keymon"] /\ object'["keymon"] = object["keymon"]
        /\ pc'["app"] = l /\ object'["app"] = None
    BY <1>1, <2>1 DEF Procs
  <2>4. Started("keymon")
    <3>1. pc["app"] # "off"
      BY <1>5 DEF Quit, Crash
    <3> QED BY <1>1, <3>1 DEF FirstOK
  <2>5. Started("keymon")' BY <1>1, <2>1, <2>3, <2>4 DEF Started, Busy
  <2>6. FirstOK' BY <1>1, <2>1, <2>3, <2>5 DEF FirstOK
  <2> QED BY <1>1, <2>1, <2>2, <2>6 DEF FirstInv
<1>6. CASE UNCHANGED vars
  <2>1. UNCHANGED <<link, memory, filled, file, pc, object, is_host, kind, unsaved>>
    BY <1>6 DEF vars, shared, local
  <2>2. FirstOK' BY <1>1, <2>1 DEF FirstOK, Started, Busy
  <2>3. SavedOK' BY <2>1 DEF FirstInv, SavedOK
  <2> QED BY <1>1, <2>1, <2>2, <2>3 DEF FirstInv
<1>7. CASE Sleep \/ Stop \/ Continue \/ Unmute
  <2>1. PICK l \in {"enter", "asleep", "wake", "get"}, k \in Kinds :
          /\ pc' = [pc EXCEPT !["app"] = l] /\ kind' = [kind EXCEPT !["app"] = k]
          /\ k = kind["app"] \/ k # "init"
          /\ pc["app"] = "idle" => k # "init"
          /\ pc["app"] \in {"idle", "enter", "asleep", "wake"}
          /\ UNCHANGED <<link, memory, filled, file, object, is_host, unsaved>>
    <3>1. kind = [kind EXCEPT !["app"] = kind["app"]] /\ kind["app"] \in Kinds /\ "sleep" \in Kinds
      BY <1>1 DEF Procs, Kinds
    <3>2. CASE Sleep BY <3>1, <3>2 DEF Sleep, Begins, Go, shared
    <3>3. CASE Stop \/ Continue \/ Unmute
      BY <3>1, <3>3 DEF Stop, Continue, Unmute, Go, shared, local
    <3> QED BY <1>7, <3>2, <3>3
  <2>2. "app" \in Procs /\ pc["app"] \notin Away BY <2>1 DEF Procs, Away
  <2>3. SavedOK'
    <3>1. kind'["keymon"] = kind["keymon"] BY <1>1, <2>1 DEF Procs
    <3> QED BY <2>1, <2>2, <3>1, SavedKept DEF Populating, Labels
  <2>4. memory'[link] \in Values /\ link \in filled' BY <1>2, <2>1, <2>2 DEF Away
  <2>5. l \in Labels \ {"off", "dead", "closed", "truncate"} /\ l # "fill"
    BY <2>1 DEF Labels
  <2> QED BY <1>1, <2>1, <2>2, <2>3, <2>4, <2>5, FirstMoves
<1> QED BY <1>3, <1>4, <1>5, <1>6, <1>7 DEF Next, Procs

\* Which of the two is first is settled at the start.
FirstSpecInv == keymon_first => FirstInv

LEMMA FirstSpecStep == FirstSpecInv /\ [Next]_vars => FirstSpecInv'
BY FirstStep DEF FirstSpecInv, Next, vars

\* With keymon first, every process reads settings that are there.
THEOREM SettingsReadsPopulated == Spec => []ReadsPopulated
<1>1. FirstInv => (keymon_first => ReadsPopulated)
  BY DEF FirstInv, FirstOK, ReadsPopulated, Procs, Started, Away, Busy, Populating
<1>2. FirstSpecInv => ReadsPopulated BY <1>1 DEF FirstSpecInv, ReadsPopulated
<1>3. Init => FirstSpecInv BY FirstInit DEF FirstSpecInv
<1> QED BY <1>2, <1>3, FirstSpecStep, PTL DEF Spec

\* With keymon first, keymon and the program in front share one object for as long as both have
\* one, and its name stays, whatever quits, crashes or closes its menu.
THEOREM SettingsOneObject == Spec => []OneObjectWithKeymonFirst
<1>1. FirstInv => \A p \in Procs : object[p] # None => object[p] = link
  BY DEF FirstInv, FirstOK, Procs, TypeInv, TypesOK, Labels
<1>2. FirstSpecInv => OneObjectWithKeymonFirst BY <1>1 DEF FirstSpecInv, OneObjectWithKeymonFirst
<1>3. Init => FirstSpecInv BY FirstInit DEF FirstSpecInv
<1> QED BY <1>2, <1>3, FirstSpecStep, PTL DEF Spec

\* With keymon first, when both are at rest what was saved last is what they share, however
\* their steps interleave.
THEOREM SettingsSavedWhenQuiet == Spec => []SavedWhenQuiet
<1>1. FirstInv => SavedWhenQuiet
  BY DEF FirstInv, FirstOK, SavedOK, SavedWhenQuiet, Quiet, Busy, Procs, Away, Populating
<1>2. FirstSpecInv => SavedWhenQuiet BY <1>1 DEF FirstSpecInv, SavedWhenQuiet
<1>3. Init => FirstSpecInv BY FirstInit DEF FirstSpecInv
<1> QED BY <1>2, <1>3, FirstSpecStep, PTL DEF Spec
------------------------------------------------------------------------------
(* With keymon first: the sound output.                                      *)

SoundBusy(p) == Busy(p) /\ kind[p] # "level"
Now == memory[link].volume

\* The sound output is as the volume says, after InitSettings and at rest.
Set == raw = Now /\ (muted <=> Now = 0)
Right == raw = Now /\ (muted <=> Now = 0 /\ ~woken)

\* Which stages the kinds go through.
Stages(p) ==
  Busy(p) => /\ kind[p] = "level" => pc[p] \in {"storelevel", "savelevel"}
             /\ kind[p] \in {"up", "down"} => pc[p] \in {"raw", "store", "save", "mute"}
             /\ kind[p] = "sleep" =>
                  pc[p] \in {"enter", "asleep", "wake", "get", "raw", "store", "save"}
             /\ pc[p] \in {"enter", "asleep", "wake"} => kind[p] = "sleep"

\* What a change that nothing overlaps has done to the output so far.
InitSoFar(p) ==
  /\ pc[p] = "raw" => val[p] = Now
  /\ pc[p] \in {"store", "save", "mute"} => raw = val[p] /\ val[p] = Now
  /\ pc[p] = "check" => raw = Now
  /\ pc[p] \in {"getlevel", "storelevel", "savelevel"} => Set

ChangeSoFar(p) ==
  /\ pc[p] \in {"store", "save", "mute"} => raw = val[p]
  /\ pc[p] \in {"save", "mute"} => val[p] = Now
  /\ kind[p] = "up" => val[p] > 0
  /\ kind[p] = "down" => ~muted \/ (val[p] = 0 /\ pc[p] = "mute")

SleepSoFar(p) ==
  /\ raw = Now
  /\ pc[p] \in {"raw", "store", "save"} => val[p] = Now
  /\ pc[p] \in {"get", "raw", "store", "save"} => ~muted

SoFar(p) ==
  SoundBusy(p) /\ solo[p] /\ (heard \/ kind[p] = "init") =>
    /\ kind[p] = "init" => InitSoFar(p)
    /\ kind[p] \in {"up", "down"} => ChangeSoFar(p)
    /\ kind[p] = "sleep" => SleepSoFar(p)

Alone(p) == SoundBusy(p) /\ solo[p] => \A q \in Procs \ {p} : ~SoundBusy(q)

\* At rest, or with only the brightness being changed, the output is right; a change that
\* nothing overlaps is on its way there.
HeardOK ==
  /\ solo \in [Procs -> BOOLEAN] /\ heard \in BOOLEAN
  /\ \A p \in Procs : Stages(p) /\ Alone(p) /\ SoFar(p)
  /\ heard /\ (\A p \in Procs : ~SoundBusy(p)) => Right

LEMMA HeardInit == Init => HeardOK
BY DEF Init, HeardOK, Stages, Alone, SoFar, SoundBusy, Busy, Away

\* A process in the middle of something does a part of it.  If that is a change of the
\* brightness the sound does not notice; otherwise nobody else's change is alone.
LEMMA HeardMoves ==
  ASSUME HeardOK, NEW p \in Procs, Busy(p), NEW l, pc \in [Procs -> Labels],
         pc' = [pc EXCEPT ![p] = l], l \notin Away \cup {"idle"},
         UNCHANGED <<kind, solo, heard, woken>>, \A q \in Procs \ {p} : val'[q] = val[q],
         kind[p] = "level" => UNCHANGED <<raw, muted, Now>>,
         Stages(p)', SoFar(p)'
  PROVE  HeardOK'
<1>1. \A q \in Procs : SoundBusy(q)' <=> SoundBusy(q)
  BY DEF SoundBusy, Busy
<1>2. ASSUME NEW q \in Procs PROVE Alone(q)'
  BY <1>1 DEF HeardOK, Alone
<1>3. ASSUME NEW q \in Procs \ {p} PROVE Stages(q)' /\ SoFar(q)'
  <2>1. pc'[q] = pc[q] OBVIOUS
  <2>2. Stages(q)' BY <2>1 DEF HeardOK, Stages, Busy
  <2>3. ASSUME SoundBusy(q), solo[q] PROVE UNCHANGED <<raw, muted, Now>>
    <3>1. ~SoundBusy(p) BY <2>3 DEF HeardOK, Alone
    <3> QED BY <3>1 DEF SoundBusy
  <2>4. SoFar(q) BY DEF HeardOK
  <2>5. SoFar(q)' BY <1>1, <2>1, <2>3, <2>4 DEF SoFar, InitSoFar, ChangeSoFar, SleepSoFar, Set, Right
  <2> QED BY <2>2, <2>5
<1>4. heard' /\ (\A q \in Procs : ~SoundBusy(q)') => Right'
  <2>1. ASSUME heard, \A q \in Procs : ~SoundBusy(q) PROVE Right'
    <3>1. kind[p] = "level" BY <2>1 DEF SoundBusy
    <3> QED BY <2>1, <3>1 DEF HeardOK, Right
  <2> QED BY <1>1, <2>1
<1> QED BY <1>2, <1>3, <1>4 DEF HeardOK

\* It comes to its end.
LEMMA HeardEnds ==
  ASSUME HeardOK, NEW p \in Procs, Busy(p), pc \in [Procs -> Labels],
         Ends(p), UNCHANGED <<kind, solo, val, raw, Now>>,
         kind[p] = "level" => UNCHANGED <<muted, woken>>,
         kind[p] # "level" /\ solo[p] /\ (heard \/ kind[p] = "init") => Right'
  PROVE  HeardOK'
<1>1. pc' = [pc EXCEPT ![p] = "idle"]
      /\ heard' = IF kind[p] = "level" THEN heard ELSE solo[p] /\ (heard \/ kind[p] = "init")
  BY DEF Ends, Go
<1>2. ~SoundBusy(p)' /\ ~Busy(p)' /\ \A q \in Procs \ {p} : SoundBusy(q)' <=> SoundBusy(q)
  BY <1>1 DEF SoundBusy, Busy
<1>3. Stages(p)' /\ Alone(p)' /\ SoFar(p)'
  BY <1>2 DEF Stages, Alone, SoFar
<1>4. ASSUME NEW q \in Procs \ {p} PROVE Stages(q)' /\ Alone(q)' /\ SoFar(q)'
  <2>1. pc'[q] = pc[q] BY <1>1
  <2>2. Stages(q)' BY <2>1 DEF HeardOK, Stages, Busy
  <2>3. Alone(q)' BY <1>2 DEF HeardOK, Alone
  <2>4. ASSUME SoundBusy(q), solo[q] PROVE muted' = muted /\ heard' = heard
    <3>1. ~SoundBusy(p) BY <2>4 DEF HeardOK, Alone
    <3> QED BY <1>1, <3>1 DEF SoundBusy
  <2>5. SoFar(q) BY DEF HeardOK
  <2>6. SoFar(q)' BY <1>2, <2>1, <2>4, <2>5 DEF SoFar, InitSoFar, ChangeSoFar, SleepSoFar, Set, Right
  <2> QED BY <2>2, <2>3, <2>6
<1>5. ASSUME heard', \A q \in Procs : ~SoundBusy(q)' PROVE Right'
  <2>1. CASE kind[p] = "level"
    <3>1. heard /\ \A q \in Procs : ~SoundBusy(q) BY <1>1, <1>2, <1>5, <2>1 DEF SoundBusy
    <3> QED BY <2>1, <3>1 DEF HeardOK, Right
  <2>2. CASE kind[p] # "level" BY <1>1, <1>5, <2>2
  <2> QED BY <2>1, <2>2
<1>6. heard' \in BOOLEAN BY <1>1 DEF HeardOK
<1> QED BY <1>3, <1>4, <1>5, <1>6 DEF HeardOK

\* A change of the sound begins: nobody else's is alone any more.
LEMMA HeardBegins ==
  ASSUME HeardOK, NEW p \in Procs, NEW k, k # "level", Begins(p, k), ~Busy(p),
         NEW l, pc \in [Procs -> Labels], pc' = [pc EXCEPT ![p] = l], l \notin Away \cup {"idle"},
         kind \in [Procs -> Kinds],
         heard' = heard, Stages(p)', SoFar(p)'
  PROVE  HeardOK'
<1>1. /\ kind' = [kind EXCEPT ![p] = k]
      /\ solo' = [q \in Procs |-> IF q = p THEN \A o \in Procs \ {p} : Busy(o) => kind[o] = "level"
                                           ELSE solo[q] /\ FALSE]
  BY DEF Begins
<1>2. solo'[p] <=> \A o \in Procs \ {p} : Busy(o) => kind[o] = "level"
  BY <1>1
<1>3. \A q \in Procs \ {p} : ~solo'[q] /\ (SoundBusy(q)' <=> SoundBusy(q))
  BY <1>1 DEF SoundBusy, Busy
<1>4. Alone(p)' BY <1>2, <1>3 DEF Alone, SoundBusy
<1>5. ASSUME NEW q \in Procs \ {p} PROVE Stages(q)' /\ Alone(q)' /\ SoFar(q)'
  <2>1. Stages(q)' BY <1>1 DEF HeardOK, Stages, Busy
  <2> QED BY <1>3, <2>1 DEF Alone, SoFar
<1>6. SoundBusy(p)'
  BY <1>1 DEF SoundBusy, Busy
<1>7. solo' \in [Procs -> BOOLEAN]
  <2>1. (\A o \in Procs \ {p} : Busy(o) => kind[o] = "level") \in BOOLEAN OBVIOUS
  <2> QED BY <1>1, <2>1
<1> QED BY <1>4, <1>5, <1>6, <1>7 DEF HeardOK

\* A change of the brightness begins, or the program in front ends.
LEMMA HeardApart ==
  ASSUME HeardOK, NEW p \in Procs, pc \in [Procs -> Labels], ~SoundBusy(p)',
         NEW l, pc' = [pc EXCEPT ![p] = l], heard' \in BOOLEAN, solo' \in [Procs -> BOOLEAN],
         \A q \in Procs \ {p} : kind'[q] = kind[q] /\ solo'[q] = solo[q] /\ val'[q] = val[q],
         UNCHANGED <<raw, muted, woken, Now>>, heard' => heard /\ ~SoundBusy(p), Stages(p)'
  PROVE  HeardOK'
<1>1. \A q \in Procs \ {p} : pc'[q] = pc[q] /\ (SoundBusy(q)' <=> SoundBusy(q))
  BY DEF SoundBusy, Busy
<1>2. Alone(p)' /\ SoFar(p)' BY DEF Alone, SoFar
<1>3. ASSUME NEW q \in Procs \ {p} PROVE Stages(q)' /\ Alone(q)' /\ SoFar(q)'
  <2>1. Stages(q)' BY <1>1 DEF HeardOK, Stages, Busy
  <2>2. Alone(q)' BY <1>1 DEF HeardOK, Alone
  <2>3. SoFar(q) BY DEF HeardOK
  <2>4. SoFar(q)' BY <1>1, <2>3 DEF SoFar, InitSoFar, ChangeSoFar, SleepSoFar, Set, Right
  <2> QED BY <2>1, <2>2, <2>4
<1>4. heard' /\ (\A q \in Procs : ~SoundBusy(q)') => Right'
  BY <1>1 DEF HeardOK, Right
<1> QED BY <1>2, <1>3, <1>4 DEF HeardOK

LEMMA HeardStep == keymon_first /\ FirstInv /\ HeardOK /\ [Next]_vars => HeardOK'
<1> SUFFICES ASSUME keymon_first, FirstInv, HeardOK, [Next]_vars PROVE HeardOK'
  OBVIOUS
<1>1. /\ TypeInv /\ FirstOK /\ pc \in [Procs -> Labels] /\ DOMAIN val = Procs
      /\ kind \in [Procs -> Kinds]
      /\ object \in [Procs -> Objects \cup {None}] /\ memory \in [Objects -> Values \cup {None}]
  BY DEF FirstInv, TypeInv, TypesOK
<1>2. ASSUME NEW p \in Procs, pc[p] \notin Away
      PROVE  /\ object[p] = link /\ link \in Objects
             /\ pc[p] \in {"truncate", "fill"} => kind[p] = "init"
             /\ pc[p] \notin {"truncate"} => memory[link] \in Values /\ Now \in Volumes
  BY <1>1, <1>2, Scales DEF FirstOK, Away, Procs, Started, Busy, Populating, Now
<1>3. \A p \in Procs : Stages(p) /\ Alone(p) /\ SoFar(p)
  BY DEF HeardOK
\* What InitSettings does and nothing else, but for the reading of the volume.
<1>4. ASSUME NEW p \in Procs, pc[p] \in {"truncate", "fill", "get", "check", "getlevel"}
      PROVE  Busy(p) /\ (kind[p] = "init" \/ (kind[p] = "sleep" /\ pc[p] = "get"))
  BY <1>1, <1>3, <1>4 DEF Stages, Busy, Away, Kinds
<1>5. ASSUME NEW p \in Procs, Step(p) PROVE HeardOK'
  <2>1. CASE Open(p)
    <3>1. /\ Begins(p, "init") /\ ~Busy(p) /\ heard' = heard
          /\ \E l \in {"truncate", "get"} : pc' = [pc EXCEPT ![p] = l]
      BY <2>1 DEF Open, Go, Busy, Away
    <3>2. pc'[p] \in {"truncate", "get"} /\ kind'[p] = "init"
      BY <1>1, <3>1 DEF Begins
    <3>3. Stages(p)' /\ SoFar(p)'
      BY <3>2 DEF Stages, SoFar, InitSoFar
    <3> QED BY <1>1, <3>1, <3>3, HeardBegins DEF Away
  <2>2. CASE Truncate(p) \/ Fill(p)
    <3>1. /\ pc[p] \in {"truncate", "fill"} /\ Busy(p) /\ kind[p] = "init"
          /\ UNCHANGED <<kind, solo, heard, woken, val>>
      BY <1>4, <2>2 DEF Truncate, Fill, local
    <3>2. PICK l \in {"fill", "get"} : pc' = [pc EXCEPT ![p] = l]
      BY <2>2 DEF Truncate, Fill, Go
    <3>3. Stages(p)' /\ SoFar(p)'
      BY <1>1, <3>1, <3>2 DEF Stages, SoFar, InitSoFar
    <3> QED BY <1>1, <3>1, <3>2, <3>3, HeardMoves DEF Away
  <2>3. CASE Killed(p)
    BY <1>2, <2>3, Scales DEF Killed, Away, Mine
  <2>4. CASE Get(p)
    <3>1. /\ Busy(p) /\ kind[p] \in {"init", "sleep"} /\ val'[p] = Now /\ pc[p] = "get"
          /\ pc' = [pc EXCEPT ![p] = "raw"]
          /\ UNCHANGED <<kind, solo, heard, woken, memory, link, raw, muted>>
          /\ \A q \in Procs \ {p} : val'[q] = val[q]
      BY <1>1, <1>2, <1>4, <2>4 DEF Get, Go, shared, output, Mine, Now, Away
    <3>2. Stages(p)' BY <1>1, <3>1 DEF Stages
    <3>3. SoFar(p) BY <1>3
    <3>4. SoFar(p)'
      BY <1>1, <3>1, <3>3 DEF SoFar, InitSoFar, SleepSoFar, SoundBusy, Busy, Now
    <3> QED BY <1>1, <3>1, <3>2, <3>4, HeardMoves DEF Away
  <2>5. CASE Raw(p)
    <3>1. /\ pc[p] = "raw" /\ Busy(p) /\ raw' = val[p] /\ pc' = [pc EXCEPT ![p] = "store"]
          /\ UNCHANGED <<kind, solo, heard, woken, memory, link, val, muted>>
      BY <2>5 DEF Raw, Go, shared, local, Busy, Away
    <3>2. pc'[p] = "store" /\ kind[p] # "level" /\ SoFar(p) /\ Stages(p)
      BY <1>1, <1>3, <3>1 DEF Stages
    <3>3. Stages(p)' BY <3>1, <3>2 DEF Stages
    <3>4. SoFar(p)'
      BY <3>1, <3>2 DEF SoFar, SoundBusy, InitSoFar, ChangeSoFar, SleepSoFar, Now
    <3> QED BY <1>1, <3>1, <3>2, <3>3, <3>4, HeardMoves DEF Away
  <2>6. CASE Store(p)
    <3>1. /\ pc[p] = "store" /\ Busy(p) /\ pc' = [pc EXCEPT ![p] = "save"]
          /\ memory' = [memory EXCEPT ![object[p]].volume = val[p]]
          /\ UNCHANGED <<kind, solo, heard, woken, link, val, raw, muted>>
      BY <2>6 DEF Store, Go, output, local, Busy, Away
    <3>2. object[p] = link /\ link \in Objects /\ memory[link] \in Values
      BY <1>2, <3>1 DEF Away
    <3>3. Now' = val[p]
      BY <1>1, <3>1, <3>2 DEF Now, Values
    <3>4. pc'[p] = "save" /\ kind[p] # "level" /\ SoFar(p) /\ Stages(p)
      BY <1>1, <1>3, <3>1 DEF Stages
    <3>5. Stages(p)' BY <3>1, <3>4 DEF Stages
    <3>6. SoFar(p)'
      BY <3>1, <3>3, <3>4 DEF SoFar, SoundBusy, InitSoFar, ChangeSoFar, SleepSoFar
    <3> QED BY <1>1, <3>1, <3>4, <3>5, <3>6, HeardMoves DEF Away
  <2>7. CASE Save(p)
    <3>1. /\ pc[p] = "save" /\ Busy(p) /\ Saved(p)
          /\ UNCHANGED <<kind, solo, link, memory, val, raw, muted>>
      BY <2>7 DEF Save, output, local, shared, Busy, Away
    <3>2. kind[p] # "level" /\ SoFar(p) /\ Stages(p)
      BY <1>1, <1>3, <3>1 DEF Stages
    <3>3. CASE kind[p] # "sleep"
      <4>1. /\ pc' = [pc EXCEPT ![p] = IF kind[p] = "init" THEN "check" ELSE "mute"]
            /\ UNCHANGED <<heard, woken>>
        BY <3>1, <3>3 DEF Saved, Go
      <4>2. pc'[p] = IF kind[p] = "init" THEN "check" ELSE "mute"
        BY <1>1, <4>1
      <4>3. Stages(p)' BY <3>1, <3>2, <3>3, <4>2 DEF Stages
      <4>4. SoFar(p)'
        BY <3>1, <3>2, <3>3, <4>1, <4>2 DEF SoFar, SoundBusy, InitSoFar, ChangeSoFar, Now
      <4> QED BY <1>1, <3>1, <3>2, <4>1, <4>3, <4>4, HeardMoves DEF Away
    <3>4. CASE kind[p] = "sleep"
      <4>1. Ends(p) BY <3>1, <3>4 DEF Saved
      <4>2. woken' = TRUE BY <3>4, <4>1 DEF Ends
      <4>3. solo[p] /\ heard => Right'
        BY <3>1, <3>2, <3>4, <4>2 DEF SoFar, SoundBusy, SleepSoFar, Right, Now
      <4>4. UNCHANGED Now BY <3>1 DEF Now
      <4> QED BY <1>1, <3>1, <3>4, <4>1, <4>3, <4>4, HeardEnds
    <3> QED BY <3>3, <3>4
  <2>8. CASE Check(p)
    <3>1. /\ pc[p] = "check" /\ Busy(p) /\ kind[p] = "init" /\ val'[p] = Now
          /\ pc' = [pc EXCEPT ![p] = "mute"] /\ UNCHANGED <<kind, solo, heard, woken, memory, link, raw>>
          /\ \A q \in Procs \ {p} : val'[q] = val[q]
      BY <1>1, <1>2, <1>4, <2>8 DEF Check, Go, shared, output, Mine, Now, Away
    <3>2. Stages(p)' BY <1>1, <3>1 DEF Stages
    <3>3. SoFar(p)'
      BY <1>1, <1>3, <3>1 DEF SoFar, SoundBusy, Busy, InitSoFar, Now
    <3> QED BY <1>1, <3>1, <3>2, <3>3, HeardMoves DEF Away
  <2>9. CASE Mute(p)
    <3>1. /\ pc[p] = "mute" /\ Busy(p) /\ kind[p] # "level"
          /\ muted' = (IF kind[p] # "up" /\ val[p] = 0 THEN TRUE
                       ELSE IF kind[p] # "down" /\ val[p] > 0 THEN FALSE ELSE muted)
          /\ UNCHANGED <<kind, solo, link, memory, val, raw>>
      BY <1>1, <1>3, <2>9 DEF Mute, local, shared, Busy, Away, Stages
    <3>2. SoFar(p) /\ SoundBusy(p) /\ Now' = Now /\ Now \in Nat
      <4>1. Now \in Volumes /\ MaxVolume \in Nat
        BY <1>2, <3>1, SettingsAssumption DEF SettingsAssumption, Away
      <4> QED BY <1>3, <3>1, <4>1 DEF SoundBusy, Now, Volumes
    <3>3. ASSUME solo[p], heard \/ kind[p] = "init" PROVE Set'
      <4>1. kind[p] \in {"init", "up", "down"} BY <1>1, <1>3, <3>1 DEF Stages, Kinds
      <4> QED BY <3>1, <3>2, <3>3, <4>1 DEF SoFar, InitSoFar, ChangeSoFar, Set
    <3>4. CASE kind[p] = "init"
      <4>1. pc' = [pc EXCEPT ![p] = "getlevel"] /\ UNCHANGED <<heard, woken>>
        BY <2>9, <3>4 DEF Mute, Go
      <4>2. Stages(p)' BY <1>1, <3>1, <3>4, <4>1 DEF Stages
      <4>3. SoFar(p)' BY <1>1, <3>1, <3>3, <3>4, <4>1 DEF SoFar, InitSoFar
      <4> QED BY <1>1, <3>1, <3>4, <4>1, <4>2, <4>3, HeardMoves DEF Away
    <3>5. CASE kind[p] # "init"
      <4>1. Ends(p) BY <2>9, <3>5 DEF Mute
      <4>2. woken' = FALSE
        <5>1. kind[p] # "sleep" BY <1>3, <3>1 DEF Stages
        <5> QED BY <3>1, <4>1, <5>1 DEF Ends
      <4>3. solo[p] /\ (heard \/ kind[p] = "init") => Right'
        BY <3>3, <4>2 DEF Set, Right
      <4> QED BY <1>1, <3>1, <3>2, <4>1, <4>3, HeardEnds
    <3> QED BY <3>4, <3>5
  <2>10. CASE GetLevel(p)
    <3>1. /\ pc[p] = "getlevel" /\ Busy(p) /\ kind[p] = "init"
          /\ pc' = [pc EXCEPT ![p] = "storelevel"]
          /\ UNCHANGED <<kind, solo, heard, woken, memory, link, raw, muted>>
          /\ \A q \in Procs \ {p} : val'[q] = val[q]
      BY <1>1, <1>4, <2>10 DEF GetLevel, Go, shared, output
    <3>2. Stages(p)' BY <1>1, <3>1 DEF Stages
    <3>3. SoFar(p)'
      BY <1>1, <1>3, <3>1 DEF SoFar, SoundBusy, Busy, InitSoFar, Set, Now
    <3> QED BY <1>1, <3>1, <3>2, <3>3, HeardMoves DEF Away
  <2>11. CASE StoreLevel(p)
    <3>1. /\ pc[p] = "storelevel" /\ Busy(p) /\ pc' = [pc EXCEPT ![p] = "savelevel"]
          /\ memory' = [memory EXCEPT ![object[p]].brightness = val[p]]
          /\ UNCHANGED <<kind, solo, heard, woken, link, val, raw, muted>>
      BY <2>11 DEF StoreLevel, Go, output, local, Busy, Away
    <3>2. object[p] = link /\ link \in Objects /\ memory[link] \in Values
      BY <1>2, <3>1 DEF Away
    <3>3. Now' = Now
      BY <1>1, <3>1, <3>2 DEF Now, Values
    <3>4. pc'[p] = "savelevel" /\ kind[p] \in {"init", "level"} /\ SoFar(p)
      BY <1>1, <1>3, <3>1 DEF Stages, Kinds
    <3>5. Stages(p)' BY <3>1, <3>4 DEF Stages
    <3>6. SoFar(p)'
      BY <3>1, <3>3, <3>4 DEF SoFar, SoundBusy, InitSoFar, Set
    <3> QED BY <1>1, <3>1, <3>3, <3>4, <3>5, <3>6, HeardMoves DEF Away
  <2>12. CASE SaveLevel(p)
    <3>1. /\ pc[p] = "savelevel" /\ Busy(p) /\ Ends(p)
          /\ UNCHANGED <<kind, solo, link, memory, val, raw, muted>>
      BY <2>12 DEF SaveLevel, shared, output, local, Busy, Away
    <3>2. kind[p] \in {"init", "level"} /\ SoFar(p)
          /\ woken' = IF kind[p] = "level" THEN woken ELSE FALSE
      BY <1>1, <1>3, <3>1 DEF Stages, Ends, Kinds
    <3>3. kind[p] # "level" /\ solo[p] => Right'
      BY <3>1, <3>2 DEF SoFar, SoundBusy, InitSoFar, Set, Right, Now
    <3> QED BY <1>1, <3>1, <3>2, <3>3, HeardEnds DEF Now
  <2>13. ASSUME NEW up \in BOOLEAN, Volume(p, up) PROVE HeardOK'
    <3> DEFINE k == IF up THEN "up" ELSE "down"
    <3>1. /\ pc[p] = "idle" /\ ~Busy(p) /\ Begins(p, k)
          /\ UNCHANGED <<heard, link, memory, raw, muted>>
      BY <2>13 DEF Volume, shared, output, Busy
    <3>2. Mine(p).volume = Now /\ Now \in Nat /\ MaxVolume \in Nat \ {0} /\ Now <= MaxVolume
      <4>1. object[p] = link /\ Now \in Volumes /\ MaxVolume \in Nat \ {0}
        BY <1>2, <3>1, SettingsAssumption DEF SettingsAssumption, Away
      <4> QED BY <4>1 DEF Mine, Now, Volumes
    <3> DEFINE v == Mine(p).volume
               w == IF up THEN (IF v < MaxVolume THEN v + 1 ELSE v)
                          ELSE (IF v > 0 THEN v - 1 ELSE v)
    <3>3. val' = [val EXCEPT ![p] = w] /\ pc' = [pc EXCEPT ![p] = IF w # v THEN "raw" ELSE "mute"]
      BY <2>13, Zenon DEF Volume, Go
    <3>4. v = Now /\ v \in Nat BY <3>2
    <3> HIDE DEF v
    <3>5. w \in Nat BY <3>2, <3>4
    <3>6. /\ w \in Nat
          /\ w = IF up THEN (IF Now < MaxVolume THEN Now + 1 ELSE Now)
                       ELSE (IF Now > 0 THEN Now - 1 ELSE Now)
          /\ val' = [val EXCEPT ![p] = w]
          /\ pc' = [pc EXCEPT ![p] = IF w # Now THEN "raw" ELSE "mute"]
      <4>1. w = IF up THEN (IF Now < MaxVolume THEN Now + 1 ELSE Now)
                      ELSE (IF Now > 0 THEN Now - 1 ELSE Now)
        BY <3>4
      <4> HIDE DEF w
      <4> QED BY <3>3, <3>4, <3>5, <4>1
    <3> HIDE DEF w
    <3>7. /\ val'[p] = w /\ pc'[p] = (IF w # Now THEN "raw" ELSE "mute")
          /\ kind'[p] = k /\ k \in {"up", "down"} /\ Now' = Now
          /\ solo'[p] <=> \A o \in Procs \ {p} : Busy(o) => kind[o] = "level"
      BY <1>1, <3>1, <3>6 DEF Begins, Now
    <3>8. Stages(p)' BY <3>7 DEF Stages
    <3>9. SoFar(p)'
      <4>1. SUFFICES ASSUME solo'[p], heard PROVE ChangeSoFar(p)'
        BY <3>1, <3>7 DEF SoFar
      <4>2. \A q \in Procs : ~SoundBusy(q)
        BY <3>1, <3>7, <4>1 DEF SoundBusy
      <4>3. raw = Now /\ (muted => Now = 0)
        BY <4>1, <4>2 DEF HeardOK, Right
      <4>4. CASE up
        BY <3>1, <3>2, <3>6, <3>7, <4>3, <4>4 DEF ChangeSoFar
      <4>5. CASE ~up
        BY <3>1, <3>2, <3>6, <3>7, <4>3, <4>5 DEF ChangeSoFar
      <4> QED BY <4>4, <4>5
    <3>10. k # "level" /\ k \in {"up", "down"} OBVIOUS
    <3> HIDE DEF k
    <3> QED BY <1>1, <3>1, <3>6, <3>8, <3>9, <3>10, HeardBegins DEF Away
  <2> QED BY <1>5, <2>1, <2>2, <2>3, <2>4, <2>5, <2>6, <2>7, <2>8, <2>9, <2>10, <2>11, <2>12,
             <2>13 DEF Step
<1>6. ASSUME NEW up \in BOOLEAN, Brightness(up) PROVE HeardOK'
  <2>1. /\ pc["app"] = "idle" /\ Begins("app", "level")
        /\ pc' = [pc EXCEPT !["app"] = "storelevel"] /\ "app" \in Procs
        /\ UNCHANGED <<raw, muted, woken, memory, link, heard>>
        /\ \A q \in Procs \ {"app"} : val'[q] = val[q]
    BY <1>1, <1>6 DEF Brightness, Go, shared, output, Procs
  <2>2. /\ kind' = [kind EXCEPT !["app"] = "level"]
        /\ solo' = [q \in Procs |->
                      IF q = "app" THEN \A o \in Procs \ {"app"} : Busy(o) => kind[o] = "level"
                                   ELSE solo[q] /\ TRUE]
    BY <2>1 DEF Begins
  <2>3. kind'["app"] = "level" /\ pc'["app"] = "storelevel"
        /\ \A q \in Procs \ {"app"} : kind'[q] = kind[q] /\ (solo'[q] <=> solo[q])
    BY <1>1, <2>1, <2>2
  <2>4. solo' \in [Procs -> BOOLEAN] /\ solo \in [Procs -> BOOLEAN] /\ heard \in BOOLEAN
    <3>1. solo \in [Procs -> BOOLEAN] /\ heard \in BOOLEAN BY DEF HeardOK
    <3>2. (\A o \in Procs \ {"app"} : Busy(o) => kind[o] = "level") \in BOOLEAN OBVIOUS
    <3> QED BY <2>2, <3>1, <3>2
  <2>5. \A q \in Procs \ {"app"} : solo'[q] = solo[q] BY <2>3, <2>4
  <2>6. Stages("app")' /\ ~SoundBusy("app")' /\ ~SoundBusy("app")
    BY <2>1, <2>3 DEF Stages, SoundBusy, Busy
  <2>7. UNCHANGED Now BY <2>1 DEF Now
  <2> QED BY <1>1, <2>1, <2>3, <2>4, <2>5, <2>6, <2>7, HeardApart
<1>7. CASE Quit \/ Crash
  <2>1. PICK l \in {"off", "closed"} :
        /\ "app" \in Procs /\ pc' = [pc EXCEPT !["app"] = l]
        /\ UNCHANGED <<kind, solo, val, raw, muted, woken, memory, link>>
        /\ heard' <=> (heard /\ ~SoundBusy("app"))
        /\ heard' \in BOOLEAN
    <3>1. is_host["app"] = FALSE /\ "app" \in Procs /\ heard \in BOOLEAN
      BY <1>1 DEF FirstOK, Procs, HeardOK
    <3>2. CASE Quit BY <3>1, <3>2 DEF Quit, Go, SoundBusy, Busy, Away, output
    <3>3. CASE Crash BY <3>1, <3>3 DEF Crash, Go, shared, output, SoundBusy
    <3> QED BY <1>7, <3>2, <3>3
  <2>2. pc'["app"] = l BY <1>1, <2>1
  <2>3. Stages("app")' /\ ~SoundBusy("app")'
    BY <2>2 DEF Stages, SoundBusy, Busy, Away
  <2>4. UNCHANGED Now /\ solo' \in [Procs -> BOOLEAN] BY <2>1 DEF Now, HeardOK
  <2> QED BY <1>1, <2>1, <2>3, <2>4, HeardApart
<1>8. CASE UNCHANGED vars
  <2>1. UNCHANGED <<link, memory, raw, muted, pc, kind, val, solo, heard, woken>>
    BY <1>8 DEF vars, shared, output, local
  <2>2. \A p \in Procs : Stages(p)' /\ Alone(p)' /\ SoFar(p)'
    BY <1>3, <2>1 DEF Stages, Alone, SoFar, SoundBusy, Busy, InitSoFar, ChangeSoFar,
       SleepSoFar, Set, Right, Now
  <2>3. heard' /\ (\A p \in Procs : ~SoundBusy(p)') => Right'
    BY <2>1 DEF HeardOK, SoundBusy, Busy, Right, Now
  <2> QED BY <2>1, <2>2, <2>3 DEF HeardOK
\* A sleep begins, then runs to its SetVolume.
<1>9. CASE Sleep
  <2>1. /\ pc["app"] = "idle" /\ Begins("app", "sleep") /\ "app" \in Procs
        /\ pc' = [pc EXCEPT !["app"] = "enter"] /\ UNCHANGED <<raw, memory, link, val, heard, woken>>
    BY <1>9 DEF Sleep, Go, shared, Procs
  <2>2. /\ pc'["app"] = "enter" /\ kind'["app"] = "sleep" /\ ~Busy("app")
        /\ solo'["app"] <=> \A o \in Procs \ {"app"} : Busy(o) => kind[o] = "level"
    BY <1>1, <2>1 DEF Begins, Busy
  <2>3. Stages("app")' BY <2>2 DEF Stages
  <2>4. SoFar("app")'
    <3>1. SUFFICES ASSUME solo'["app"], heard PROVE raw = Now
      BY <2>1, <2>2 DEF SoFar, SleepSoFar, Now
    <3>2. \A q \in Procs : ~SoundBusy(q) BY <2>2, <3>1 DEF SoundBusy
    <3> QED BY <3>1, <3>2 DEF HeardOK, Right
  <2> QED BY <1>1, <2>1, <2>2, <2>3, <2>4, HeardBegins DEF Away
<1>10. CASE Stop \/ Continue \/ Unmute
  <2>1. PICK l \in {"asleep", "wake", "get"} :
          /\ pc' = [pc EXCEPT !["app"] = l] /\ pc["app"] \in {"enter", "asleep", "wake"}
          /\ l = "get" => ~muted'
          /\ UNCHANGED <<kind, solo, heard, woken, val, raw, memory, link>>
    BY <1>10 DEF Stop, Continue, Unmute, Go, shared, output, local
  <2>2. /\ "app" \in Procs /\ Busy("app") /\ kind["app"] = "sleep" /\ pc'["app"] = l
        /\ SoFar("app")
    BY <1>1, <1>3, <2>1 DEF Procs, Busy, Away, Stages
  <2>3. Stages("app")' BY <2>1, <2>2 DEF Stages
  <2>4. SoFar("app")'
    BY <2>1, <2>2 DEF SoFar, SoundBusy, SleepSoFar, Now
  <2> QED BY <1>1, <2>1, <2>2, <2>3, <2>4, HeardMoves DEF Away
<1> QED BY <1>5, <1>6, <1>7, <1>8, <1>9, <1>10 DEF Next, Procs

HeardSpecInv == keymon_first => FirstInv /\ HeardOK

LEMMA HeardSpecStep == HeardSpecInv /\ [Next]_vars => HeardSpecInv'
BY FirstStep, HeardStep DEF HeardSpecInv, Next, vars

\* With keymon first, the sound output is what the shared volume says, and muted exactly at 0
\* (not at all when a sleep was the last to set the mute), from any InitSettings that ran alone
\* until two changes overlap.
THEOREM SettingsHeardAsSet == Spec => []HeardAsSet
<1>1. FirstInv /\ HeardOK => HeardAsSet
  BY DEF FirstInv, FirstOK, HeardOK, HeardAsSet, Right, Now, SoundBusy, Quiet, Mine, Procs
<1>2. HeardSpecInv => HeardAsSet BY <1>1 DEF HeardSpecInv, HeardAsSet
<1>3. Init => HeardSpecInv BY FirstInit, HeardInit DEF HeardSpecInv
<1> QED BY <1>2, <1>3, HeardSpecStep, PTL DEF Spec
==============================================================================
