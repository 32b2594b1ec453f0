--------------------------- MODULE LauncherProofs ---------------------------
(* The launcher never draws a row that does not exist and opens what it       *)
(* highlights, for every card, every window height and every sequence of      *)
(* buttons; and its list of recent games is right for every set of games, in  *)
(* every order of playing them, with the power cut at any step.               *)
EXTENDS MCLauncher, TLAPS, FiniteSetTheorems

\* Whichever part was chosen, it behaves as its own module says.
THEOREM LauncherImplements == MCSpec => Spec /\ R!Spec
<1>1. MCInit => Init /\ R!Init
  BY DEF MCInit
<1>2. [MCNext]_all => [Next]_vars /\ [R!Next]_R!vars
  <2> SUFFICES ASSUME [MCNext]_all PROVE [Next]_vars /\ [R!Next]_R!vars
    OBVIOUS
  <2>1. recentVars = R!vars /\ recentVars' = R!vars'
    BY DEF recentVars, R!vars
  <2>2. CASE MenuPart
    BY <2>1, <2>2 DEF MenuPart
  <2>3. CASE RecentsPart
    BY <2>1, <2>3 DEF RecentsPart
  <2>4. CASE UNCHANGED all
    BY <2>1, <2>4 DEF all
  <2>5. QED
    BY <2>2, <2>3, <2>4 DEF MCNext
<1>3. QED
  BY <1>1, <1>2, PTL DEF MCSpec, Spec, R!Spec

\* A stack of directories: every window on existing rows, every directory the entry
\* its parent highlights.
StackOK(s) ==
  /\ s \in Seq(Frame) /\ s # <<>>
  /\ \A k \in 1 .. Len(s) : RowsExist(s[k])
  /\ \A k \in 1 .. Len(s) - 1 :
       Count(s[k]) > 0 /\ Chosen(s[k]).path = s[k + 1].path

\* The saved cursor was saved at this depth or below it; at this depth it fits the
\* directory behind the entry it was saved for.
SavedOK(s) ==
  /\ restore.depth <= Len(s)
  /\ restore.depth = Len(s) =>
       /\ restore.relative \in Nat
       /\ restore.relative < Count(Top(s))
       /\ Entry(Top(s), restore.relative).path = closed.frame.path
       /\ closed.frame \in Frame /\ RowsExist(closed.frame)
       /\ closed.frame.selected = restore.selected
       /\ closed.frame.start = restore.start /\ closed.frame.end = restore.end

IInv == TypeOK /\ StackOK(stack) /\ SavedOK(stack)

\* Every directory has a number of entries, and each entry is a record.
LEMMA CountType ==
  ASSUME listing \in Libraries, NEW d \in Dirs
  PROVE  /\ Len(listing[d]) \in Nat
         /\ \A i \in 0 .. Len(listing[d]) - 1 :
              /\ listing[d][i + 1] \in EntryRecord
              /\ listing[d][i + 1].type = "dir" => listing[d][i + 1].path \in Dirs
<1>1. listing[d] \in Seq(EntryRecord)
  BY LibraryAssumption
<1>2. Len(listing[d]) \in Nat /\ \A j \in 1 .. Len(listing[d]) : listing[d][j] \in EntryRecord
  BY <1>1
<1>3. \A i \in 0 .. Len(listing[d]) - 1 : i + 1 \in 1 .. Len(listing[d])
  BY <1>2
<1>4. QED
  BY <1>2, <1>3, LibraryAssumption

\* A cursor built with At is a frame of the same directory.
LEMMA AtFrame ==
  ASSUME NEW d \in Frame, NEW s \in Nat, NEW a \in Nat, NEW e \in Nat
  PROVE  /\ At(d, s, a, e) \in Frame
         /\ At(d, s, a, e).path = d.path /\ At(d, s, a, e).selected = s
         /\ At(d, s, a, e).start = a /\ At(d, s, a, e).end = e
  BY DEF At, Frame

\* A cursor whose fields fit the directory is a window on existing rows.
LEMMA AtRowsExist ==
  ASSUME listing \in Libraries, NEW d \in Frame,
         NEW s \in Nat, NEW a \in Nat, NEW e \in Nat,
         s < Count(d), e <= Count(d), e - a = AtMost(RowCount, Count(d))
  PROVE  /\ At(d, s, a, e) \in Frame /\ At(d, s, a, e).path = d.path
         /\ At(d, s, a, e).selected = s
         /\ RowsExist(At(d, s, a, e))
<1> DEFINE c == At(d, s, a, e)
<1>1. /\ c \in Frame /\ c.path = d.path /\ c.selected = s
      /\ c.start = a /\ c.end = e
  BY AtFrame
<1>2. Count(c) = Count(d)
  BY <1>1 DEF Count
<1> HIDE DEF c
<1>3. RowsExist(c)
  BY <1>1, <1>2 DEF RowsExist
<1>4. QED
  BY <1>1, <1>3 DEF c

\* What RowsExist says of a directory with entries, as facts about numbers.
LEMMA FrameNumbers ==
  ASSUME listing \in Libraries, NEW d \in Frame, RowsExist(d), Count(d) > 0
  PROVE  /\ Count(d) \in Nat /\ d.path \in Dirs
         /\ d.selected \in Nat /\ d.start \in Nat /\ d.end \in Nat
         /\ d.selected < Count(d) /\ d.end <= Count(d)
         /\ d.end - d.start = AtMost(RowCount, Count(d))
<1>1. Count(d) \in Nat
  BY CountType DEF Frame, Count
<1>2. /\ d.path \in Dirs /\ d.selected \in Nat /\ d.start \in Nat /\ d.end \in Nat
  BY DEF Frame
<1>3. /\ d.end <= Count(d) /\ d.end - d.start = AtMost(RowCount, Count(d))
      /\ d.selected < Count(d) \/ Count(d) = 0
  BY DEF RowsExist
<1>4. QED
  BY <1>1, <1>2, <1>3

\* The UP key keeps the window on existing rows.
LEMMA MoveUpWindow ==
  ASSUME listing \in Libraries, NEW d \in Frame, RowsExist(d), Count(d) > 0
  PROVE  /\ MoveUp(d) \in Frame /\ MoveUp(d).path = d.path
         /\ RowsExist(MoveUp(d))
<1> DEFINE n == Count(d)
<1>1. /\ n \in Nat /\ n > 0 /\ d.selected \in Nat /\ d.start \in Nat /\ d.end \in Nat
      /\ d.selected < n /\ d.end <= n /\ d.end - d.start = AtMost(RowCount, n)
  BY FrameNumbers
<1>2. CASE d.selected - 1 < 0
  <2> DEFINE a == IF n < RowCount THEN 0 ELSE n - RowCount
  <2>1. a \in Nat /\ n - a = AtMost(RowCount, n) /\ n - 1 \in Nat /\ n - 1 < n
    BY <1>1, RowCountAssumption DEF AtMost
  <2>2. MoveUp(d) = At(d, n - 1, a, n)
    BY <1>2 DEF MoveUp
  <2>3. QED
    BY <1>1, <2>1, <2>2, AtRowsExist
<1>3. CASE d.selected - 1 >= 0 /\ d.selected - 1 < d.start
  <2>1. /\ d.selected - 1 \in Nat /\ d.start - 1 \in Nat /\ d.end - 1 \in Nat
        /\ d.end - 1 <= n /\ d.selected - 1 < n
        /\ (d.end - 1) - (d.start - 1) = AtMost(RowCount, n)
    BY <1>1, <1>3, RowCountAssumption DEF AtMost
  <2>2. MoveUp(d) = At(d, d.selected - 1, d.start - 1, d.end - 1)
    BY <1>1, <1>3 DEF MoveUp
  <2>3. QED
    BY <1>1, <2>1, <2>2, AtRowsExist
<1>4. CASE d.selected - 1 >= 0 /\ d.selected - 1 >= d.start
  <2>1. d.selected - 1 \in Nat /\ d.selected - 1 < n
    BY <1>1, <1>4
  <2>2. MoveUp(d) = At(d, d.selected - 1, d.start, d.end)
    BY <1>1, <1>4 DEF MoveUp
  <2>3. QED
    BY <1>1, <2>1, <2>2, AtRowsExist
<1>5. QED
  BY <1>1, <1>2, <1>3, <1>4

\* The DOWN key keeps the window on existing rows.
LEMMA MoveDownWindow ==
  ASSUME listing \in Libraries, NEW d \in Frame, RowsExist(d), Count(d) > 0
  PROVE  /\ MoveDown(d) \in Frame /\ MoveDown(d).path = d.path
         /\ RowsExist(MoveDown(d))
<1> DEFINE n == Count(d)
           s == d.selected + 1
<1>1. /\ n \in Nat /\ n > 0 /\ d.selected \in Nat /\ d.start \in Nat /\ d.end \in Nat
      /\ d.selected < n /\ d.end <= n /\ d.end - d.start = AtMost(RowCount, n)
  BY FrameNumbers
<1>2. CASE s >= n
  <2>1. AtMost(RowCount, n) \in Nat /\ AtMost(RowCount, n) <= n
        /\ AtMost(RowCount, n) - 0 = AtMost(RowCount, n)
    BY <1>1, RowCountAssumption DEF AtMost
  <2>2. MoveDown(d) = At(d, 0, 0, AtMost(RowCount, n))
    BY <1>2 DEF MoveDown
  <2>3. QED
    BY <1>1, <2>1, <2>2, AtRowsExist
<1>3. CASE s < n /\ s >= d.end
  <2>1. /\ s \in Nat /\ d.start + 1 \in Nat /\ d.end + 1 \in Nat /\ d.end + 1 <= n
        /\ (d.end + 1) - (d.start + 1) = AtMost(RowCount, n)
    BY <1>1, <1>3
  <2>2. MoveDown(d) = At(d, s, d.start + 1, d.end + 1)
    BY <1>1, <1>3 DEF MoveDown
  <2>3. QED
    BY <1>1, <1>3, <2>1, <2>2, AtRowsExist
<1>4. CASE s < n /\ s < d.end
  <2>1. s \in Nat
    BY <1>1
  <2>2. MoveDown(d) = At(d, s, d.start, d.end)
    BY <1>1, <1>4 DEF MoveDown
  <2>3. QED
    BY <1>1, <1>4, <2>1, <2>2, AtRowsExist
<1>5. QED
  BY <1>1, <1>2, <1>3, <1>4

\* LEFT and RIGHT jump to an existing entry and keep the window on existing rows.
LEMMA JumpWindow ==
  ASSUME listing \in Libraries, NEW d \in Frame, RowsExist(d),
         NEW i \in 0 .. Count(d) - 1
  PROVE  /\ JumpTo(d, i) \in Frame /\ JumpTo(d, i).path = d.path
         /\ RowsExist(JumpTo(d, i))
<1> DEFINE n == Count(d)
           e == AtMost(i + RowCount, n)
<1>0. n \in Nat
  BY CountType DEF Frame, Count
<1>1. /\ n > 0 /\ i \in Nat /\ i < n
  BY <1>0
<1>2. /\ d.selected \in Nat /\ d.start \in Nat /\ d.end \in Nat
      /\ d.end <= n /\ d.end - d.start = AtMost(RowCount, n)
  BY <1>1, FrameNumbers
<1>3. CASE n > RowCount
  <2>1. e \in Nat /\ e <= n /\ e - RowCount \in Nat /\ e - (e - RowCount) = AtMost(RowCount, n)
    BY <1>0, <1>1, <1>3, RowCountAssumption DEF AtMost
  <2>2. JumpTo(d, i) = At(d, i, e - RowCount, e)
    BY <1>3 DEF JumpTo
  <2>3. QED
    BY <1>1, <2>1, <2>2, AtRowsExist
<1>4. CASE ~(n > RowCount)
  <2>1. JumpTo(d, i) = At(d, i, d.start, d.end)
    BY <1>4 DEF JumpTo
  <2>2. QED
    BY <1>1, <1>2, <2>1, AtRowsExist
<1>5. QED
  BY <1>3, <1>4

\* loadLast's highlight of row i keeps the window on existing rows.
LEMMA RevealWindow ==
  ASSUME listing \in Libraries, NEW d \in Frame, RowsExist(d),
         NEW i \in 0 .. Count(d) - 1
  PROVE  /\ Reveal(d, i) \in Frame /\ Reveal(d, i).path = d.path
         /\ Reveal(d, i).selected = i
         /\ RowsExist(Reveal(d, i))
<1> DEFINE n == Count(d)
<1>0. n \in Nat
  BY CountType DEF Frame, Count
<1>1. /\ n > 0 /\ i \in Nat /\ i < n
  BY <1>0
<1>2. /\ d.selected \in Nat /\ d.start \in Nat /\ d.end \in Nat
      /\ d.end <= n /\ d.end - d.start = AtMost(RowCount, n)
  BY <1>1, FrameNumbers
<1>3. CASE i < d.end
  <2>1. Reveal(d, i) = At(d, i, d.start, d.end)
    BY <1>3 DEF Reveal
  <2>2. QED
    BY <1>1, <1>2, <2>1, AtRowsExist
<1>4. CASE ~(i < d.end) /\ i + RowCount > n
  <2>1. n - RowCount \in Nat /\ n - (n - RowCount) = AtMost(RowCount, n)
    BY <1>0, <1>1, <1>2, <1>4, RowCountAssumption DEF AtMost
  <2>2. Reveal(d, i) = At(d, i, n - RowCount, n)
    BY <1>4 DEF Reveal
  <2>3. QED
    BY <1>0, <1>1, <2>1, <2>2, AtRowsExist
<1>5. CASE ~(i < d.end) /\ ~(i + RowCount > n)
  <2>1. i + RowCount \in Nat /\ i + RowCount <= n /\ (i + RowCount) - i = AtMost(RowCount, n)
    BY <1>0, <1>1, <1>5, RowCountAssumption DEF AtMost
  <2>2. Reveal(d, i) = At(d, i, i, i + RowCount)
    BY <1>5 DEF Reveal
  <2>3. QED
    BY <1>1, <2>1, <2>2, AtRowsExist
<1>6. QED
  BY <1>3, <1>4, <1>5

\* Every cursor a frame can produce is a window on existing rows of the same directory.
LEMMA CursorsOK ==
  ASSUME listing \in Libraries, NEW d \in Frame, RowsExist(d), NEW c \in Cursors(d)
  PROVE  c \in Frame /\ c.path = d.path /\ RowsExist(c)
<1>0. Count(d) \in Nat
  BY CountType DEF Frame, Count
<1>1. CASE Count(d) = 0
  BY <1>1 DEF Cursors
<1>2. CASE Count(d) > 0
  <2>1. PICK s \in Step(d) : \/ c = s
                            \/ c \in Jumps(s, PreviousGroups(s))
                            \/ c \in Jumps(s, NextGroups(s))
    BY <1>2 DEF Cursors
  <2>2. s \in Frame /\ s.path = d.path /\ RowsExist(s)
    BY <1>2, <2>1, MoveUpWindow, MoveDownWindow DEF Step
  <2>3. c = s \/ \E i \in Alphas(s) : c = JumpTo(s, i)
    BY <2>1 DEF Jumps, PreviousGroups, NextGroups
  <2>4. \A i \in Alphas(s) : i \in 0 .. Count(s) - 1
    BY DEF Alphas
  <2>5. QED
    BY <2>2, <2>3, <2>4, JumpWindow
<1>3. QED
  BY <1>0, <1>1, <1>2

\* Moving the cursor of the visible directory keeps the stack.
LEMMA MoveStack ==
  ASSUME TypeOK, StackOK(stack), SavedOK(stack),
         NEW c \in Frame, c.path = Top(stack).path, RowsExist(c),
         NEW s, s = [stack EXCEPT ![Len(stack)] = c]
  PROVE  StackOK(s) /\ SavedOK(s) /\ Len(s) = Len(stack) /\ Top(s) = c
<1>1. stack \in Seq(Frame) /\ Len(stack) \in Nat /\ Len(stack) > 0
  BY DEF StackOK
<1>2. /\ s \in Seq(Frame) /\ Len(s) = Len(stack) /\ s[Len(stack)] = c
      /\ \A k \in 1 .. Len(stack) - 1 : s[k] = stack[k]
      /\ \A k \in 1 .. Len(stack) : s[k].path = stack[k].path
  <2>1. Len(stack) \in DOMAIN stack
    BY <1>1
  <2>2. s \in Seq(Frame) /\ Len(s) = Len(stack)
    BY <1>1
  <2>3. s[Len(stack)] = c
    BY <1>1, <2>1
  <2>4. \A k \in 1 .. Len(stack) - 1 : s[k] = stack[k]
    BY <1>1
  <2>5. \A k \in 1 .. Len(stack) : s[k].path = stack[k].path
    BY <1>1, <2>3, <2>4 DEF Top
  <2>6. QED
    BY <2>2, <2>3, <2>4, <2>5
<1>3. Top(s) = c /\ s # <<>>
  BY <1>1, <1>2 DEF Top
<1>4. ASSUME NEW k \in 1 .. Len(s) PROVE RowsExist(s[k])
  <2>1. CASE k = Len(stack)
    <3>1. s[k] = c
      BY <1>2, <2>1
    <3>2. QED
      BY <3>1
  <2>2. CASE k < Len(stack)
    <3>1. s[k] = stack[k] /\ k \in 1 .. Len(stack)
      BY <1>1, <1>2, <2>2
    <3>2. RowsExist(stack[k])
      BY <3>1 DEF StackOK
    <3>3. QED
      BY <3>1, <3>2
  <2>3. QED
    BY <1>1, <1>2, <2>1, <2>2
<1>5. ASSUME NEW k \in 1 .. Len(s) - 1
      PROVE  Count(s[k]) > 0 /\ Chosen(s[k]).path = s[k + 1].path
  <2>1. s[k] = stack[k] /\ s[k + 1].path = stack[k + 1].path
    BY <1>1, <1>2
  <2>2. Count(stack[k]) > 0 /\ Chosen(stack[k]).path = stack[k + 1].path
    BY <1>2 DEF StackOK
  <2>3. QED
    BY <2>1, <2>2
<1>6. SavedOK(s)
  <2>1. Count(Top(s)) = Count(Top(stack))
        /\ Entry(Top(s), restore.relative) = Entry(Top(stack), restore.relative)
    BY <1>3 DEF Count, Entry
  <2>2. QED
    BY <1>2, <2>1 DEF SavedOK
<1>7. QED
  BY <1>2, <1>3, <1>4, <1>5, <1>6 DEF StackOK

\* Opening the highlighted folder, at its first entry or at the saved place, keeps the
\* stack: the saved place can only be that folder's own.
LEMMA PushStack ==
  ASSUME TypeOK, NEW s, StackOK(s), SavedOK(s), Count(Top(s)) > 0,
         Chosen(Top(s)).type = "dir"
  PROVE  StackOK(Push(s, Chosen(Top(s)).path)) /\ SavedOK(Push(s, Chosen(Top(s)).path))
<1> DEFINE d == Top(s)
           path == Chosen(d).path
           again == /\ s # <<>> /\ Count(d) > 0
                    /\ restore.depth = Len(s) /\ restore.relative = d.selected
           e == IF again THEN restore.end ELSE 0
           f == [path     |-> path,
                 selected |-> IF again THEN restore.selected ELSE 0,
                 start    |-> IF again THEN restore.start ELSE 0,
                 end      |-> IF e # 0 THEN e ELSE Rows(path)]
           p == Append(s, f)
<1>0. Push(s, path) = p
  BY DEF Push
<1>1. /\ s \in Seq(Frame) /\ Len(s) \in Nat /\ Len(s) > 0
      /\ d \in Frame /\ RowsExist(d) /\ listing \in Libraries
  BY DEF StackOK, Top, TypeOK
<1>2. /\ Count(d) \in Nat /\ d.path \in Dirs /\ d.selected \in Nat /\ d.selected < Count(d)
  BY <1>1, FrameNumbers
<1>3. path \in Dirs
  BY <1>1, <1>2, CountType DEF Chosen, Entry, Count
<1>4. Len(listing[path]) \in Nat
  BY <1>1, <1>3, CountType
<1>5. f \in Frame /\ f.path = path /\ RowsExist(f)
  <2>1. CASE again
    <3>1. /\ closed.frame \in Frame /\ RowsExist(closed.frame)
          /\ closed.frame.path = path
          /\ closed.frame.selected = restore.selected
          /\ closed.frame.start = restore.start /\ closed.frame.end = restore.end
      BY <2>1 DEF SavedOK, Chosen
    <3>2. /\ restore.selected \in Nat /\ restore.start \in Nat /\ restore.end \in Nat
      BY DEF TypeOK
    <3>3. Count(closed.frame) = Len(listing[path])
      BY <3>1 DEF Count
    <3>4. /\ restore.end <= Len(listing[path])
          /\ restore.end - restore.start = AtMost(RowCount, Len(listing[path]))
          /\ \/ restore.selected < Len(listing[path])
             \/ Len(listing[path]) = 0 /\ restore.selected = 0
      BY <3>1, <3>3 DEF RowsExist
    <3>5. restore.end = 0 => Rows(path) = 0
      BY <1>4, <3>2, <3>4, RowCountAssumption DEF Rows, AtMost
    <3>6. f = [path |-> path, selected |-> restore.selected, start |-> restore.start,
               end |-> restore.end]
      BY <2>1, <3>5
    <3>7. Count(f) = Len(listing[path])
      BY <3>6 DEF Count
    <3>8. RowsExist(f)
      BY <3>4, <3>6, <3>7 DEF RowsExist
    <3>9. QED
      BY <1>3, <3>2, <3>6, <3>8 DEF Frame
  <2>2. CASE ~again
    <3>1. f = [path |-> path, selected |-> 0, start |-> 0, end |-> Rows(path)]
      BY <2>2
    <3>2. /\ Rows(path) \in Nat /\ Rows(path) <= Len(listing[path])
          /\ Rows(path) - 0 = AtMost(RowCount, Len(listing[path]))
          /\ 0 < Len(listing[path]) \/ Len(listing[path]) = 0
      BY <1>4, RowCountAssumption DEF Rows, AtMost
    <3>3. Count(f) = Len(listing[path])
      BY <3>1 DEF Count
    <3>4. RowsExist(f)
      BY <3>1, <3>2, <3>3 DEF RowsExist
    <3>5. QED
      BY <1>3, <3>1, <3>2, <3>4 DEF Frame
  <2>3. QED
    BY <2>1, <2>2
<1> HIDE DEF f
<1>6. /\ p \in Seq(Frame) /\ Len(p) = Len(s) + 1 /\ p[Len(s) + 1] = f
      /\ \A k \in 1 .. Len(s) : p[k] = s[k]
  BY <1>1, <1>5
<1>7. StackOK(p)
  <2>1. \A k \in 1 .. Len(p) : RowsExist(p[k])
    BY <1>1, <1>5, <1>6 DEF StackOK
  <2>2. ASSUME NEW k \in 1 .. Len(p) - 1
        PROVE  Count(p[k]) > 0 /\ Chosen(p[k]).path = p[k + 1].path
    <3>1. CASE k = Len(s)
      BY <1>1, <1>5, <1>6, <3>1 DEF Top
    <3>2. CASE k < Len(s)
      BY <1>1, <1>6, <3>2 DEF StackOK
    <3>3. QED
      BY <1>1, <1>6, <3>1, <3>2
  <2>3. p # <<>>
    BY <1>1, <1>6
  <2>4. QED
    BY <1>6, <2>1, <2>2, <2>3 DEF StackOK
<1>8. SavedOK(p)
  <2>1. restore.depth \in Int /\ restore.depth <= Len(s)
    BY DEF SavedOK, TypeOK
  <2>2. restore.depth # Len(p) /\ restore.depth <= Len(p)
    BY <1>1, <1>6, <2>1
  <2>3. QED
    BY <2>2 DEF SavedOK
<1>9. QED
  BY <1>0, <1>7, <1>8

\* Closing the visible directory keeps the stack below it and saves its cursor.
LEMMA PopStack ==
  ASSUME listing \in Libraries, NEW s, StackOK(s), Len(s) > 1
  PROVE  LET b == SubSeq(s, 1, Len(s) - 1) IN
         /\ StackOK(b) /\ Len(b) = Len(s) - 1
         /\ Top(b).selected \in Nat /\ Top(b).selected < Count(Top(b))
         /\ Chosen(Top(b)).path = Top(s).path
         /\ Top(s) \in Frame /\ RowsExist(Top(s))
<1> DEFINE b == SubSeq(s, 1, Len(s) - 1)
<1>1. s \in Seq(Frame) /\ Len(s) \in Nat /\ Len(s) > 1
  BY DEF StackOK
<1>2. /\ b \in Seq(Frame) /\ Len(b) = Len(s) - 1
      /\ \A k \in 1 .. Len(s) - 1 : b[k] = s[k]
  BY <1>1
<1> HIDE DEF b
<1>3. \A k \in 1 .. Len(s) : RowsExist(s[k])
  BY DEF StackOK
<1>4. \A k \in 1 .. Len(s) - 1 : Count(s[k]) > 0 /\ Chosen(s[k]).path = s[k + 1].path
  BY DEF StackOK
<1>5. StackOK(b)
  <2>1. b # <<>>
    BY <1>1, <1>2
  <2>2. \A k \in 1 .. Len(b) : b[k] = s[k] /\ k \in 1 .. Len(s)
    BY <1>1, <1>2
  <2>3. \A k \in 1 .. Len(b) - 1 :
          b[k] = s[k] /\ b[k + 1] = s[k + 1] /\ k \in 1 .. Len(s) - 1
    BY <1>1, <1>2
  <2>4. QED
    BY <1>2, <1>3, <1>4, <2>1, <2>2, <2>3 DEF StackOK
<1>6. Top(b) = s[Len(s) - 1] /\ Len(s) - 1 \in 1 .. Len(s) - 1 /\ (Len(s) - 1) + 1 = Len(s)
  BY <1>1, <1>2 DEF Top
<1>7. Count(Top(b)) > 0 /\ Chosen(Top(b)).path = Top(s).path
  BY <1>4, <1>6 DEF Top
<1>8. Top(s) \in Frame /\ RowsExist(Top(s)) /\ Top(b) \in Frame /\ RowsExist(Top(b))
  BY <1>1, <1>3, <1>6 DEF Top
<1>9. Top(b).selected \in Nat /\ Top(b).selected < Count(Top(b))
  BY <1>7, <1>8, FrameNumbers
<1>10. QED
  BY <1>2, <1>5, <1>7, <1>8, <1>9 DEF b

\* The invariants of the next state, read with this state's listing.
LEMMA Carry ==
  ASSUME listing' = listing, StackOK(stack')
  PROVE  StackOK(stack)'
  BY DEF StackOK, RowsExist, Count, Chosen, Entry

LEMMA CarrySaved ==
  ASSUME listing' = listing, restore' = restore, closed' = closed, SavedOK(stack')
  PROVE  SavedOK(stack)'
  BY DEF SavedOK, RowsExist, Count, Entry, Top

\* The cursors of a browsing frame.
LEMMA StacksOK ==
  ASSUME IInv, NEW s \in Stacks
  PROVE  /\ StackOK(s) /\ SavedOK(s) /\ Len(s) = Len(stack)
         /\ Top(s) \in Frame /\ RowsExist(Top(s))
<1>1. PICK c \in Cursors(Top(stack)) : s = [stack EXCEPT ![Len(stack)] = c]
  BY DEF Stacks
<1>2. Top(stack) \in Frame /\ RowsExist(Top(stack)) /\ listing \in Libraries
  BY DEF IInv, TypeOK, StackOK, Top
<1>3. c \in Frame /\ c.path = Top(stack).path /\ RowsExist(c)
  BY <1>2, CursorsOK
<1>4. QED
  BY <1>1, <1>3, MoveStack DEF IInv

\* Opening an entry leaves the stack or pushes the folder that is highlighted.
LEMMA EntryOpenOK ==
  ASSUME IInv, NEW s, StackOK(s), SavedOK(s), Count(Top(s)) > 0,
         NEW armed, NEW slotFile, EntryOpen(s, stack', armed, slotFile)
  PROVE  StackOK(stack') /\ SavedOK(stack') /\ quit' \in BOOLEAN
<1>1. quit' \in BOOLEAN
  BY DEF EntryOpen, OpenPak, OpenRom, IInv, TypeOK
<1>2. \/ stack' = s
      \/ Chosen(Top(s)).type = "dir" /\ stack' = Push(s, Chosen(Top(s)).path)
  BY DEF EntryOpen
<1>3. QED
  BY <1>1, <1>2, PushStack DEF IInv

\* Whether X is offered is a Boolean, whichever way it was computed.
LEMMA CanResumeType ==
  ASSUME TypeOK, NEW s
  PROVE  CanResume(s) \in BOOLEAN
<1>1. CASE Fresh(s)
  <2>1. CanResume(s) = (SlotKey(Chosen(Top(s))) \in Saved)
    BY <1>1, Zenon DEF CanResume
  <2>2. (SlotKey(Chosen(Top(s))) \in Saved) \in BOOLEAN
    OBVIOUS
  <2>3. QED
    BY <2>1, <2>2, Zenon
<1>2. CASE ~Fresh(s)
  BY <1>2, Zenon DEF CanResume, TypeOK
<1>3. QED
  BY <1>1, <1>2

LEMMA ReadyResumeType ==
  ASSUME NEW d, NEW before, ReadyResume(d, before)
  PROVE  can_resume' \in BOOLEAN
<1>1. can_resume' = (SlotKey(Chosen(d)) \in Saved)
  BY Zenon DEF ReadyResume
<1>2. (SlotKey(Chosen(d)) \in Saved) \in BOOLEAN
  OBVIOUS
<1>3. QED
  BY <1>1, <1>2, Zenon

LEMMA InitIInv == Init => IInv
<1> SUFFICES ASSUME Init PROVE IInv
  OBVIOUS
<1> DEFINE f == [path |-> Root, selected |-> 0, start |-> 0, end |-> Rows(Root)]
<1>1. listing \in Libraries /\ Root \in Dirs /\ Len(listing[Root]) \in Nat
  BY LibraryAssumption, CountType DEF Init
<1>2. /\ Rows(Root) \in Nat /\ Rows(Root) <= Len(listing[Root])
      /\ Rows(Root) - 0 = AtMost(RowCount, Len(listing[Root]))
      /\ 0 < Len(listing[Root]) \/ Len(listing[Root]) = 0
  BY <1>1, RowCountAssumption DEF Rows, AtMost
<1>3. f \in Frame /\ Count(f) = Len(listing[Root])
  BY <1>1, <1>2 DEF Frame, Count
<1>4. RowsExist(f)
  BY <1>2, <1>3 DEF RowsExist
<1>5. stack = <<f>>
  BY DEF Init
<1> HIDE DEF f
<1>6. /\ stack \in Seq(Frame) /\ Len(stack) = 1 /\ stack # <<>> /\ stack[1] = f
  BY <1>3, <1>5
<1>7. StackOK(stack)
  BY <1>4, <1>6 DEF StackOK
<1>8. SavedOK(stack)
  BY <1>6 DEF SavedOK, Init
<1>9. TypeOK
  <2>1. restore \in [depth : Int, relative : Int, selected : Nat, start : Nat, end : Nat]
    BY DEF Init
  <2>2. /\ can_resume \in BOOLEAN /\ should_resume \in BOOLEAN /\ dirty \in BOOLEAN
        /\ showSettings \in BOOLEAN /\ quit \in BOOLEAN /\ scan \in Nat
    BY DEF Init
  <2>3. QED
    BY <1>1, <1>6, <2>1, <2>2 DEF TypeOK
<1>10. QED
  BY <1>7, <1>8, <1>9 DEF IInv

LEMMA NextIInv == IInv /\ [Next]_vars => IInv'
<1> SUFFICES ASSUME IInv, [Next]_vars PROVE IInv'
  OBVIOUS
<1>0. /\ TypeOK /\ StackOK(stack) /\ SavedOK(stack)
      /\ Top(stack) \in Frame /\ RowsExist(Top(stack))
  BY DEF IInv, StackOK, Top
\* Steps that leave the stack and the saved cursor alone.
<1>1. ASSUME UNCHANGED <<listing, place>>, scan' \in Nat,
             can_resume' \in BOOLEAN, should_resume' \in BOOLEAN, dirty' \in BOOLEAN,
             showSettings' \in BOOLEAN, quit' \in BOOLEAN
      PROVE  IInv'
  BY <1>0, <1>1 DEF IInv, TypeOK, StackOK, SavedOK, RowsExist, Count, Chosen, Entry, Top, place
\* Steps that change the stack only.
<1>2. ASSUME UNCHANGED <<listing, restore, closed>>, scan' \in Nat,
             can_resume' \in BOOLEAN, should_resume' \in BOOLEAN, dirty' \in BOOLEAN,
             showSettings' \in BOOLEAN, quit' \in BOOLEAN,
             StackOK(stack'), SavedOK(stack')
      PROVE  IInv'
  <2>1. StackOK(stack)' /\ SavedOK(stack)'
    BY <1>2, Carry, CarrySaved
  <2>2. TypeOK'
    BY <1>0, <1>2 DEF TypeOK, StackOK
  <2>3. QED
    BY <2>1, <2>2 DEF IInv
<1>3. CASE NextComponent
  BY <1>0, <1>1, <1>3 DEF NextComponent, TypeOK, resume
<1>4. CASE SkipEntry
  BY <1>0, <1>1, <1>4 DEF SkipEntry, TypeOK, resume
<1>5. CASE NotFound
  BY <1>0, <1>1, <1>5 DEF NotFound, TypeOK, resume
<1>6. CASE ToggleSettings
  BY <1>0, <1>1, <1>6 DEF ToggleSettings, TypeOK, resume, loader
<1>7. CASE UNCHANGED vars
  BY <1>0, <1>1, <1>7 DEF vars, TypeOK, resume, loader
<1>8. CASE TakeEntry
  <2> DEFINE e == Entry(Top(stack), scan)
             s == [stack EXCEPT ![Len(stack)] = Reveal(@, scan)]
  <2>1. /\ scan \in Nat /\ scan < Count(Top(stack)) /\ Count(Top(stack)) \in Nat
        /\ listing \in Libraries
    BY <1>0, <1>8, CountType DEF TakeEntry, TypeOK, Count, Frame
  <2>2. scan \in 0 .. Count(Top(stack)) - 1
    BY <2>1
  <2>3. /\ Reveal(Top(stack), scan) \in Frame
        /\ Reveal(Top(stack), scan).path = Top(stack).path
        /\ Reveal(Top(stack), scan).selected = scan
        /\ RowsExist(Reveal(Top(stack), scan))
    BY <1>0, <2>1, <2>2, RevealWindow
  <2>4. s = [stack EXCEPT ![Len(stack)] = Reveal(Top(stack), scan)]
    BY <1>0 DEF Top, StackOK
  <2>5. StackOK(s) /\ SavedOK(s) /\ Len(s) = Len(stack) /\ Top(s) = Reveal(Top(stack), scan)
    BY <1>0, <2>3, <2>4, MoveStack
  <2>6. Chosen(Top(s)) = e /\ Count(Top(s)) > 0
    BY <2>1, <2>3, <2>5 DEF Chosen, Entry, Count
  <2>7. stack' = s \/ (e.type = "dir" /\ stack' = Push(s, e.path))
    BY <1>8 DEF TakeEntry
  <2>8. StackOK(stack') /\ SavedOK(stack')
    BY <1>0, <2>5, <2>6, <2>7, PushStack
  <2>9. scan' \in Nat
    BY <1>8, <2>1 DEF TakeEntry
  <2>10. QED
    BY <1>0, <1>2, <1>8, <2>8, <2>9 DEF TakeEntry, TypeOK, resume
<1>9. CASE MoveCursor
  <2>1. PICK s \in Stacks : stack' = s /\ can_resume' = CanResume(s)
    BY <1>9 DEF MoveCursor
  <2>2. StackOK(stack') /\ SavedOK(stack')
    BY <2>1, StacksOK
  <2>3. can_resume' \in BOOLEAN
    BY <1>0, <2>1, CanResumeType
  <2>4. QED
    BY <1>0, <1>2, <1>9, <2>2, <2>3 DEF MoveCursor, TypeOK, loader
<1>10. CASE PressX
  <2>1. PICK s \in Stacks : /\ Count(Top(s)) > 0 /\ can_resume' = CanResume(s)
                            /\ should_resume' = ~quit'
                            /\ EntryOpen(s, stack', TRUE, SlotPath(s))
    BY <1>10 DEF PressX
  <2>2. StackOK(stack') /\ SavedOK(stack') /\ quit' \in BOOLEAN
    BY <2>1, StacksOK, EntryOpenOK
  <2>3. can_resume' \in BOOLEAN
    BY <1>0, <2>1, CanResumeType
  <2>5. should_resume' \in BOOLEAN
    BY <2>1, Zenon
  <2>4. QED
    BY <1>0, <1>2, <1>10, <2>2, <2>3, <2>5 DEF PressX, TypeOK, loader
<1>11. CASE PressA
  <2>1. PICK s \in Stacks : /\ Count(Top(s)) > 0
                            /\ EntryOpen(s, stack', should_resume, SlotPath(s))
                            /\ should_resume' = (should_resume /\ ~quit')
                            /\ \/ ReadyResume(Top(stack'), SlotPath(s))
                               \/ can_resume' = CanResume(s)
    BY <1>11 DEF PressA
  <2>2. StackOK(stack') /\ SavedOK(stack') /\ quit' \in BOOLEAN
    BY <2>1, StacksOK, EntryOpenOK
  <2>3. can_resume' \in BOOLEAN
    BY <1>0, <2>1, CanResumeType, ReadyResumeType
  <2>5. should_resume' \in BOOLEAN
    BY <2>1, Zenon
  <2>4. QED
    BY <1>0, <1>2, <1>11, <2>2, <2>3, <2>5 DEF PressA, TypeOK, loader
<1>12. CASE PressB
  <2> DEFINE below(s) == SubSeq(s, 1, Len(s) - 1)
  <2>1. PICK s \in Stacks :
          /\ stack' = below(s)
          /\ restore' = [depth |-> Len(below(s)), relative |-> Top(below(s)).selected,
                         selected |-> Top(s).selected, start |-> Top(s).start,
                         end |-> Top(s).end]
          /\ closed' = [frame |-> Top(s), below |-> below(s)]
          /\ \/ ReadyResume(Top(below(s)), SlotPath(s))
             \/ can_resume' = CanResume(s)
    BY <1>12 DEF PressB
  <2>2. StackOK(s) /\ Len(s) > 1 /\ listing \in Libraries /\ listing' = listing
    BY <1>0, <1>12, StacksOK DEF PressB, TypeOK
  <2>3. /\ StackOK(below(s))
        /\ Top(below(s)).selected \in Nat /\ Top(below(s)).selected < Count(Top(below(s)))
        /\ Chosen(Top(below(s))).path = Top(s).path
        /\ Top(s) \in Frame /\ RowsExist(Top(s))
    BY <2>2, PopStack
  <2> HIDE DEF below
  <2>4. StackOK(stack)'
    BY <2>1, <2>2, <2>3, Carry
  <2>5. /\ closed'.frame = Top(s) /\ restore'.depth = Len(stack')
        /\ restore'.relative = Top(stack').selected
        /\ restore'.selected = Top(s).selected /\ restore'.start = Top(s).start
        /\ restore'.end = Top(s).end
    BY <2>1
  <2>6. Len(stack') \in Nat
    BY <2>1, <2>3 DEF StackOK
  <2>7. SavedOK(stack)'
    BY <2>1, <2>2, <2>3, <2>5, <2>6 DEF SavedOK, Chosen, Entry, Count, RowsExist, Top
  <2>8. restore' \in [depth : Int, relative : Int, selected : Nat, start : Nat, end : Nat]
    BY <2>1, <2>3, <2>6 DEF Frame
  <2>9. can_resume' \in BOOLEAN
    BY <1>0, <2>1, CanResumeType, ReadyResumeType
  <2>10. TypeOK'
    BY <1>0, <1>12, <2>2, <2>4, <2>8, <2>9 DEF PressB, TypeOK, loader, StackOK
  <2>11. QED
    BY <2>4, <2>7, <2>10 DEF IInv
<1>13. QED
  BY <1>3, <1>4, <1>5, <1>6, <1>7, <1>8, <1>9, <1>10, <1>11, <1>12 DEF Next

\* The launcher's cursors keep their types.
THEOREM MenuTypeCorrect == Spec => []TypeOK
<1>1. IInv => TypeOK
  BY DEF IInv
<1>2. QED
  BY <1>1, InitIInv, NextIInv, PTL DEF Spec

\* Every row the launcher draws exists, whatever is on the card and whatever is pressed.
THEOREM MenuWindowsOK == Spec => []WindowsOK
<1>1. IInv => WindowsOK
  BY DEF IInv, StackOK, WindowsOK
<1>2. QED
  BY <1>1, InitIInv, NextIInv, PTL DEF Spec

\* Every open directory is the entry its parent highlights.
THEOREM MenuStackFollowsCursor == Spec => []StackFollowsCursor
<1>1. IInv => StackFollowsCursor
  BY DEF IInv, StackOK, StackFollowsCursor
<1>2. QED
  BY <1>1, InitIInv, NextIInv, PTL DEF Spec

\* The saved cursor is only applied to the directory it was saved from.
THEOREM MenuRestoreIsCurrent == Spec => []RestoreIsCurrent
<1>1. IInv => RestoreIsCurrent
  BY DEF IInv, SavedOK, RestoreIsCurrent
<1>2. QED
  BY <1>1, InitIInv, NextIInv, PTL DEF Spec

(***************************************************************************)
(* The place a directory was left at.                                      *)

\* What is saved belongs to the depth the closed directory was opened from.
ClosedOK == closed.frame # None => restore.depth = Len(closed.below)

PlaceInv == IInv /\ ClosedOK

LEMMA InitPlaceInv == Init => PlaceInv
  BY InitIInv DEF Init, PlaceInv, ClosedOK, NothingClosed

LEMMA NextPlaceInv == PlaceInv /\ [Next]_vars => PlaceInv'
<1> SUFFICES ASSUME PlaceInv, [Next]_vars PROVE ClosedOK'
  BY NextIInv DEF PlaceInv
<1>1. CASE PressB
  BY <1>1 DEF PressB, ClosedOK
<1>2. CASE UNCHANGED <<restore, closed>>
  BY <1>2 DEF PlaceInv, ClosedOK
<1>3. QED
  BY <1>1, <1>2 DEF Next, NextComponent, SkipEntry, TakeEntry, NotFound, MoveCursor, PressX,
                    PressA, ToggleSettings, place, vars

\* Opening the folder that was closed last shows it as it was left.
LEMMA PushRestores ==
  ASSUME TypeOK, NEW s, StackOK(s), SavedOK(s), Count(Top(s)) > 0,
         Chosen(Top(s)).type = "dir", Chosen(Top(s)).path = closed.frame.path,
         restore.depth = Len(s)
  PROVE  Top(Push(s, Chosen(Top(s)).path)) = closed.frame
<1> DEFINE d == Top(s)
           path == Chosen(d).path
<1>1. /\ s \in Seq(Frame) /\ s # <<>> /\ Len(s) \in Nat /\ Len(s) > 0
      /\ d \in Frame /\ RowsExist(d) /\ listing \in Libraries
  BY DEF StackOK, Top, TypeOK
<1>2. /\ Count(d) \in Nat /\ d.path \in Dirs /\ d.selected \in Nat /\ d.selected < Count(d)
  BY <1>1, FrameNumbers
<1>3. /\ restore.relative \in Nat /\ restore.relative < Count(d)
      /\ Entry(d, restore.relative).path = closed.frame.path
      /\ closed.frame \in Frame /\ RowsExist(closed.frame)
      /\ closed.frame.selected = restore.selected
      /\ closed.frame.start = restore.start /\ closed.frame.end = restore.end
  BY DEF SavedOK
<1>4. restore.relative = d.selected
  <2>1. /\ d.selected + 1 \in 1 .. Len(listing[d.path])
        /\ restore.relative + 1 \in 1 .. Len(listing[d.path])
    BY <1>2, <1>3 DEF Count
  <2>2. /\ listing[d.path][d.selected + 1].type = "dir"
        /\ listing[d.path][restore.relative + 1].path
             = listing[d.path][d.selected + 1].path
    BY <1>3 DEF Chosen, Entry
  <2>3. restore.relative + 1 = d.selected + 1
    BY <1>1, <1>2, <2>1, <2>2, LibraryAssumption
  <2>4. QED
    BY <1>2, <1>3, <2>3
<1>5. Count(closed.frame) = Len(listing[path]) /\ Len(listing[path]) \in Nat
  BY <1>1, <1>3, CountType DEF Count, Frame
<1>6. restore.end = 0 => Rows(path) = 0
  <2>1. /\ restore.start \in Nat /\ restore.end \in Nat
        /\ restore.end - restore.start = AtMost(RowCount, Len(listing[path]))
    BY <1>3, <1>5 DEF RowsExist, TypeOK
  <2>2. QED
    BY <1>5, <2>1, RowCountAssumption DEF Rows, AtMost
<1> DEFINE f == [path |-> path, selected |-> restore.selected, start |-> restore.start,
                 end |-> restore.end]
<1>7. Push(s, path) = Append(s, f)
  BY <1>1, <1>2, <1>4, <1>6 DEF Push
<1>8. f = closed.frame
  BY <1>3 DEF Frame
<1> HIDE DEF f
<1>9. Top(Append(s, f)) = f
  <2>1. f \in Frame
    BY <1>3, <1>8
  <2>2. QED
    BY <1>1, <2>1 DEF Top
<1>10. QED
  BY <1>7, <1>8, <1>9

\* Opening an entry adds at most one directory, the highlighted folder.
LEMMA EntryOpenRestores ==
  ASSUME TypeOK, NEW s, StackOK(s), SavedOK(s), Count(Top(s)) > 0, ClosedOK,
         NEW armed, NEW slotFile, EntryOpen(s, stack', armed, slotFile),
         closed.frame # None, Len(stack') = Len(s) + 1, Len(s) = Len(closed.below),
         Top(stack').path = closed.frame.path
  PROVE  Top(stack') = closed.frame
<1>1. s \in Seq(Frame) /\ Len(s) \in Nat
  BY DEF StackOK
<1>2. Chosen(Top(s)).type = "dir" /\ stack' = Push(s, Chosen(Top(s)).path)
  BY <1>1 DEF EntryOpen
<1>3. Top(stack').path = Chosen(Top(s)).path
  BY <1>1, <1>2 DEF Push, Top
<1>4. restore.depth = Len(s)
  BY DEF ClosedOK
<1>5. QED
  BY <1>2, <1>3, <1>4, PushRestores

\* Leaving a directory and opening it again, with only cursor movement in between, shows
\* it exactly as it was left.
THEOREM MenuReopenRestores == Spec => ReopenRestores
<1> DEFINE Reopened ==
      ( /\ Browsing /\ closed.frame # None
        /\ Len(stack') = Len(stack) + 1
        /\ Len(stack) = Len(closed.below)
        /\ Top(stack').path = closed.frame.path )
      => Top(stack') = closed.frame
<1>1. PlaceInv /\ [Next]_vars => [Reopened]_vars
  <2> SUFFICES ASSUME PlaceInv, Next,
                      Browsing, closed.frame # None, Len(stack') = Len(stack) + 1,
                      Len(stack) = Len(closed.below), Top(stack').path = closed.frame.path
               PROVE  Top(stack') = closed.frame
    BY DEF Reopened
  <2>1. IInv /\ TypeOK /\ ClosedOK /\ Len(stack) \in Nat
    BY DEF PlaceInv, IInv, StackOK
  <2>2. ASSUME stack' = stack \/ Len(stack') = Len(stack) PROVE FALSE
    BY <2>1, <2>2
  <2>3. CASE PressX \/ PressA
    <3>1. PICK s \in Stacks, armed \in BOOLEAN :
            Count(Top(s)) > 0 /\ EntryOpen(s, stack', armed, SlotPath(s))
      BY <2>1, <2>3 DEF PressX, PressA, TypeOK
    <3>2. StackOK(s) /\ SavedOK(s) /\ Len(s) = Len(stack)
      BY <2>1, StacksOK
    <3>3. QED
      BY <2>1, <3>1, <3>2, EntryOpenRestores
  <2>4. CASE MoveCursor
    <3>1. PICK s \in Stacks : stack' = s
      BY <2>4 DEF MoveCursor
    <3>2. QED
      BY <2>1, <2>2, <3>1, StacksOK
  <2>5. CASE PressB
    <3>1. PICK s \in Stacks : stack' = SubSeq(s, 1, Len(s) - 1)
      BY <2>5 DEF PressB
    <3>2. StackOK(s) /\ Len(s) = Len(stack) /\ Len(s) > 1 /\ listing \in Libraries
      BY <2>1, <2>5, StacksOK DEF PressB, TypeOK
    <3>3. Len(stack') = Len(stack) - 1
      BY <3>1, <3>2, PopStack
    <3>4. QED
      BY <2>1, <3>3
  <2>6. CASE ToggleSettings
    BY <2>2, <2>6 DEF ToggleSettings, place
  <2>7. CASE NextComponent \/ SkipEntry \/ TakeEntry \/ NotFound
    BY <2>7 DEF Browsing, Loading, NextComponent, SkipEntry, TakeEntry, NotFound
  <2>8. QED
    BY <2>3, <2>4, <2>5, <2>6, <2>7 DEF Next
<1>2. QED
  BY <1>1, InitPlaceInv, NextPlaceInv, PTL DEF Spec, ReopenRestores

(***************************************************************************)
(* What X resumes.  An .m3u whose disc is missing is excluded: there X     *)
(* opens a folder and should_resume stays set.                             *)

\* Directory d is drawn with the resume state of its highlighted entry.
Known(d) ==
  Count(d) > 0 /\ can_resume => slot_path = SlotKey(Chosen(d)) /\ slot_path \in Saved

\* What was queued to be resumed is the game that was queued, with its own slot.
LaunchOK == quit /\ launch.file # None => launch.slot = "saved" /\ launch.file = launch.key

\* Until a frame is drawn nothing can be resumed, and loadLast draws none.
DrawnOK ==
  /\ Loading => dirty
  /\ dirty => ~can_resume
  /\ ~dirty => Known(Top(stack))

ResumeInv == IInv /\ ~should_resume /\ LaunchOK /\ DrawnOK

\* A frame looks at the highlighted entry before it looks at X.
LEMMA KnownBeforeX ==
  ASSUME ResumeInv, NEW s \in Stacks, Count(Top(s)) > 0, CanResume(s)
  PROVE  SlotPath(s) = SlotKey(Chosen(Top(s))) /\ SlotPath(s) \in Saved
<1>1. CASE Fresh(s)
  <2>1. SlotKey(Chosen(Top(s))) \in Saved
    BY <1>1, Zenon DEF CanResume
  <2>2. QED
    BY <1>1, <2>1, GamesAssumption DEF SlotPath
<1>2. CASE ~Fresh(s)
  <2>1. can_resume /\ SlotPath(s) = slot_path
    BY <1>2, Zenon DEF CanResume, SlotPath
  <2>2. ~dirty /\ Top(s).selected = Top(stack).selected
    BY <1>2 DEF Fresh
  <2>3. Top(s).path = Top(stack).path
    <3>1. PICK c \in Cursors(Top(stack)) : s = [stack EXCEPT ![Len(stack)] = c]
      BY DEF Stacks
    <3>2. /\ listing \in Libraries /\ Top(stack) \in Frame /\ RowsExist(Top(stack))
          /\ stack \in Seq(Frame) /\ Len(stack) \in 1 .. Len(stack)
      BY DEF ResumeInv, IInv, TypeOK, StackOK, Top
    <3>3. c.path = Top(stack).path
      BY <3>2, CursorsOK
    <3>4. Top(s) = c
      BY <3>1, <3>2 DEF Top
    <3>5. QED
      BY <3>3, <3>4
  <2>4. Count(Top(stack)) > 0 /\ Chosen(Top(stack)) = Chosen(Top(s))
    BY <2>2, <2>3 DEF Count, Chosen, Entry
  <2>5. Known(Top(stack))
    BY <2>2 DEF ResumeInv, DrawnOK
  <2>6. QED
    BY <2>1, <2>4, <2>5 DEF Known
<1>3. QED
  BY <1>1, <1>2

\* X on an entry that can be resumed starts that game with its own slot file.
LEMMA ResumeStarts ==
  ASSUME BadM3u = {}, NEW s, NEW slotFile,
         slotFile = SlotKey(Chosen(Top(s))), slotFile \in Saved,
         EntryOpen(s, stack', TRUE, slotFile)
  PROVE  quit' /\ LaunchOK' /\ stack' = s
<1> DEFINE e == Chosen(Top(s))
           auto == AutoRom(e.path)
<1>1. slotFile # None
  BY GamesAssumption
<1>2. CASE e.type = "pak" /\ OpenPak(s, e.path) /\ stack' = s
  BY <1>2 DEF OpenPak, LaunchOK
<1>3. ASSUME NEW path, NEW lastArg, OpenRom(s, path, lastArg, TRUE, slotFile),
             GameKey(path) = slotFile, stack' = s
      PROVE  quit' /\ LaunchOK' /\ stack' = s
  BY <1>3 DEF OpenRom, LaunchOK
<1>4. CASE e.type = "rom" /\ stack' = s
             /\ \E l : OpenRom(s, e.path, l, TRUE, slotFile)
  <2>1. GameKey(e.path) = slotFile
    BY <1>1, <1>4 DEF SlotKey
  <2>2. QED
    BY <1>3, <1>4, <2>1
<1>5. CASE e.type = "dir"
  <2>1. /\ e.path \in CueDirs => slotFile = GameKey(CueOf(e.path))
        /\ e.path \notin CueDirs => e.path \in M3uDirs /\ slotFile = M3uOf(e.path)
    BY <1>1, <1>5 DEF SlotKey
  <2>2. /\ e.path \in CueDirs => auto = CueOf(e.path)
        /\ e.path \notin CueDirs => auto = FirstDisc[e.path]
    BY <2>1 DEF AutoRom
  <2>3. auto # None
    BY <2>1, <2>2, GamesAssumption
  <2>4. GameKey(auto) = slotFile
    BY <2>1, <2>2, GamesAssumption DEF GameKey, HasM3u
  <2>5. OpenRom(s, auto, e.path, TRUE, slotFile) /\ stack' = s
    BY <1>5, <2>3 DEF EntryOpen
  <2>6. QED
    BY <1>3, <2>4, <2>5
<1>6. QED
  BY <1>2, <1>4, <1>5 DEF EntryOpen

\* A opens an entry without resuming it.
LEMMA PlainStarts ==
  ASSUME NEW s, NEW slotFile, LaunchOK, EntryOpen(s, stack', FALSE, slotFile)
  PROVE  LaunchOK'
<1>1. CASE UNCHANGED <<launch, last, quit>>
  BY <1>1 DEF LaunchOK
<1>2. ASSUME NEW path, OpenPak(s, path)
      PROVE  launch'.file = None
  BY <1>2 DEF OpenPak
<1>3. ASSUME NEW path, NEW lastArg, OpenRom(s, path, lastArg, FALSE, slotFile)
      PROVE  launch'.file = None
  BY <1>3 DEF OpenRom
<1>4. UNCHANGED <<launch, last, quit>> \/ launch'.file = None
  BY <1>2, <1>3 DEF EntryOpen
<1>5. QED
  BY <1>1, <1>4 DEF LaunchOK

\* readyResume leaves the state of the entry it looked at.
LEMMA ReadyKnown ==
  ASSUME listing' = listing, NEW d, NEW before, ReadyResume(d, before), stack' # <<>>,
         Top(stack') = d
  PROVE  Known(Top(stack))'
<1>1. can_resume' = (SlotKey(Chosen(d)) \in Saved)
  BY Zenon DEF ReadyResume
<1>2. SlotKey(Chosen(d)) # None => slot_path' = SlotKey(Chosen(d))
  BY DEF ReadyResume
<1>3. can_resume' => slot_path' = SlotKey(Chosen(d)) /\ slot_path' \in Saved
  BY <1>1, <1>2, GamesAssumption
<1>4. Top(stack)' = d /\ Chosen(Top(stack))' = Chosen(d)
  BY DEF Top, Chosen, Entry
<1>5. QED
  BY <1>3, <1>4 DEF Known

\* A frame that only moves the cursor keeps the state it looked up.
LEMMA MovedKnown ==
  ASSUME ResumeInv, NEW s \in Stacks, stack' = s, listing' = listing,
         can_resume' = CanResume(s), slot_path' = SlotPath(s)
  PROVE  Known(Top(stack))'
<1>1. Count(Top(s)) > 0 /\ CanResume(s) =>
        SlotPath(s) = SlotKey(Chosen(Top(s))) /\ SlotPath(s) \in Saved
  BY KnownBeforeX
<1>2. /\ Count(Top(stack))' = Count(Top(s))
      /\ Chosen(Top(stack))' = Chosen(Top(s))
  BY DEF Top, Count, Chosen, Entry
<1>3. QED
  BY <1>1, <1>2 DEF Known

LEMMA InitResumeInv == Init => ResumeInv
  BY InitIInv DEF Init, ResumeInv, LaunchOK, DrawnOK

LEMMA NextResumeInv ==
  ASSUME BadM3u = {}
  PROVE  ResumeInv /\ [Next]_vars => ResumeInv'
<1> SUFFICES ASSUME ResumeInv, [Next]_vars
             PROVE  ~should_resume' /\ LaunchOK' /\ DrawnOK'
  BY NextIInv DEF ResumeInv
<1>0. /\ IInv /\ TypeOK /\ ~should_resume /\ LaunchOK /\ DrawnOK
  BY DEF ResumeInv, IInv
\* The steps of loadLast: nothing is drawn before it is over.
<1>1. ASSUME UNCHANGED <<resume, dirty, quit, launch>>, Loading
      PROVE  ~should_resume' /\ LaunchOK' /\ DrawnOK'
  BY <1>0, <1>1 DEF LaunchOK, DrawnOK, resume
<1>2. CASE NextComponent \/ SkipEntry \/ TakeEntry \/ NotFound
  BY <1>1, <1>2 DEF NextComponent, SkipEntry, TakeEntry, NotFound, Loading
\* A frame draws; what it must leave is the state of the entry it leaves highlighted.
<1>3. ASSUME ~Loading, UNCHANGED loader, dirty' = FALSE, Known(Top(stack))'
      PROVE  DrawnOK'
  BY <1>3 DEF DrawnOK, loader, Loading
<1>4. CASE MoveCursor
  <2>1. PICK s \in Stacks : /\ stack' = s /\ can_resume' = CanResume(s)
                            /\ slot_path' = SlotPath(s)
    BY <1>4 DEF MoveCursor
  <2>2. Known(Top(stack))'
    BY <1>4, <2>1, MovedKnown DEF MoveCursor
  <2>3. DrawnOK'
    BY <1>3, <1>4, <2>2 DEF MoveCursor, Browsing
  <2>4. QED
    BY <1>0, <1>4, <2>3 DEF MoveCursor, LaunchOK
<1>5. CASE PressX
  <2>1. PICK s \in Stacks : /\ Count(Top(s)) > 0 /\ CanResume(s)
                            /\ EntryOpen(s, stack', TRUE, SlotPath(s))
                            /\ can_resume' = CanResume(s) /\ slot_path' = SlotPath(s)
                            /\ should_resume' = ~quit'
    BY <1>5 DEF PressX
  <2>2. SlotPath(s) = SlotKey(Chosen(Top(s))) /\ SlotPath(s) \in Saved
    BY <2>1, KnownBeforeX
  <2>3. quit' /\ LaunchOK' /\ stack' = s
    BY <2>1, <2>2, ResumeStarts
  <2>4. Known(Top(stack))'
    BY <1>5, <2>1, <2>3, MovedKnown DEF PressX
  <2>5. DrawnOK'
    BY <1>3, <1>5, <2>4 DEF PressX, Browsing
  <2>6. QED
    BY <2>1, <2>3, <2>5
<1>6. CASE PressA
  <2>1. PICK s \in Stacks :
          /\ EntryOpen(s, stack', should_resume, SlotPath(s))
          /\ should_resume' = (should_resume /\ ~quit')
          /\ Count(Top(s)) > 0
          /\ IF Count(Top(stack')) > 0
               THEN ReadyResume(Top(stack'), SlotPath(s))
               ELSE can_resume' = CanResume(s) /\ slot_path' = SlotPath(s)
    BY <1>6 DEF PressA
  <2>2. should_resume = FALSE
    BY <1>0 DEF TypeOK
  <2>3. LaunchOK' /\ ~should_resume'
    BY <1>0, <2>1, <2>2, PlainStarts
  <2>4. StackOK(stack') /\ listing' = listing
    BY <1>0, <1>6, <2>1, StacksOK, EntryOpenOK DEF PressA
  <2>5. Known(Top(stack))'
    <3>1. CASE Count(Top(stack')) > 0
      BY <2>1, <2>4, <3>1, ReadyKnown DEF StackOK
    <3>2. CASE ~(Count(Top(stack')) > 0)
      BY <2>4, <3>2 DEF Known, Count, Top
    <3>3. QED
      BY <3>1, <3>2
  <2>6. DrawnOK'
    BY <1>3, <1>6, <2>5 DEF PressA, Browsing
  <2>7. QED
    BY <2>3, <2>6
<1>7. CASE PressB
  <2>1. PICK s \in Stacks :
          /\ stack' = SubSeq(s, 1, Len(s) - 1)
          /\ IF Count(Top(stack')) > 0
               THEN ReadyResume(Top(stack'), SlotPath(s))
               ELSE can_resume' = CanResume(s) /\ slot_path' = SlotPath(s)
    BY <1>7 DEF PressB
  <2>2. StackOK(stack)' /\ listing' = listing
    BY <1>0, <1>7, NextIInv DEF PressB, Next, IInv
  <2>3. Known(Top(stack))'
    <3>1. CASE Count(Top(stack')) > 0
      BY <2>1, <2>2, <3>1, ReadyKnown DEF StackOK
    <3>2. CASE ~(Count(Top(stack')) > 0)
      BY <2>2, <3>2 DEF Known, Count, Top
    <3>3. QED
      BY <3>1, <3>2
  <2>4. DrawnOK'
    BY <1>3, <1>7, <2>3 DEF PressB, Browsing
  <2>5. QED
    BY <1>0, <1>7, <2>4 DEF PressB, LaunchOK
<1>8. CASE ToggleSettings
  <2>1. Known(Top(stack))
    BY <1>0 DEF DrawnOK, Known
  <2>2. Known(Top(stack))'
    BY <1>8, <2>1 DEF ToggleSettings, place, resume, Known, Top, Count, Chosen, Entry
  <2>3. DrawnOK'
    BY <1>3, <1>8, <2>2 DEF ToggleSettings
  <2>4. QED
    BY <1>0, <1>8, <2>3 DEF ToggleSettings, resume, LaunchOK
<1>9. CASE UNCHANGED vars
  BY <1>0, <1>9 DEF vars, place, loader, resume, LaunchOK, DrawnOK, Loading, Known, Top,
                    Count, Chosen, Entry
<1>10. QED
  BY <1>2, <1>4, <1>5, <1>6, <1>7, <1>8, <1>9 DEF Next

\* A resumed game gets its own state, and should_resume is never left set for an entry
\* that cannot be resumed, when every .m3u names a disc that is there.
THEOREM MenuResumesOwnGame ==
  ASSUME BadM3u = {}
  PROVE  Spec => []ResumesOwnGame
<1>1. ResumeInv => ResumesOwnGame
  BY DEF ResumeInv, LaunchOK, ResumesOwnGame
<1>2. ResumeInv /\ [Next]_vars => ResumeInv'
  BY NextResumeInv
<1>3. QED
  BY <1>1, <1>2, InitResumeInv, PTL DEF Spec

-----------------------------------------------------------------------------
(* The recent games. *)
NoneTwice(list) == \A i, j \in 1 .. Len(list) : list[i] = list[j] => i = j

\* A list of files on the card, of which no two are discs of one game.
OnceOK(list) ==
  /\ \A i \in 1 .. Len(list) : list[i] \in card
  /\ \A i, j \in 1 .. Len(list) : R!HasM3u(list[i]) /\ Game[list[i]] = Game[list[j]] => i = j
  /\ NoneTwice(list)

\* What is left to read is not listed yet, but for discs, which are not listed again.
UnreadOK ==
  /\ NoneTwice(lines)
  /\ \A i \in 1 .. Len(recents), j \in 1 .. Len(lines) :
       recents[i] = lines[j] => R!HasM3u(recents[i])

\* Only a disc of a game with a .m3u is changed to.
DiscOK ==
  change_disc # None =>
    phase \in {"game", "boot"} /\ change_disc \in card /\ R!HasM3u(change_disc)

ListInv ==
  /\ R!TypeOK
  /\ NoneTwice(file) /\ NoneTwice(synced.file)
  /\ DiscOK
  /\ phase \in {"load", "menu"} => OnceOK(recents)
  /\ phase = "load" => UnreadOK

USE RecentGames DEF R!RecentsAssumption

LEMMA InitListInv == R!Init => ListInv
  BY DEF R!Init, ListInv, R!TypeOK, NoneTwice, DiscOK, OnceOK, UnreadOK

\* addRecent: path comes first, and the others keep their order; from is where it was.
AddedFrom(path, from, n) ==
  /\ n \in 1 .. MaxRecents /\ from \in 1 .. n
  /\ R!Added(path) = R!ToTop(path, from, n)
  /\ \/ R!Listing(path) # {} /\ n = Len(recents) /\ recents[from] = path
     \/ R!Listing(path) = {} /\ n = R!Room /\ from = n

\* addRecent takes path from somewhere in the list, or from outside it.
LEMMA AddedSomewhere ==
  ASSUME R!TypeOK, NEW path \in Paths
  PROVE  \E from, n \in Nat : AddedFrom(path, from, n)
<1>1. Len(recents) \in Nat /\ Len(recents) <= MaxRecents
  BY DEF R!TypeOK
<1>2. CASE R!Listing(path) # {}
  <2> DEFINE from == CHOOSE i \in R!Listing(path) : TRUE
  <2>1. from \in R!Listing(path)
    BY <1>2
  <2> HIDE DEF from
  <2>2. from \in 1 .. Len(recents) /\ recents[from] = path
    BY <2>1 DEF R!Listing
  <2>3. R!Added(path) = R!ToTop(path, from, Len(recents))
    BY <1>2 DEF R!Added, from
  <2>4. AddedFrom(path, from, Len(recents))
    BY <1>1, <1>2, <2>2, <2>3 DEF AddedFrom
  <2>5. QED
    BY <1>1, <2>2, <2>4
<1>3. CASE R!Listing(path) = {}
  <2>1. R!Room \in 1 .. MaxRecents
    BY <1>1 DEF R!Room
  <2>2. AddedFrom(path, R!Room, R!Room)
    BY <1>3, <2>1 DEF AddedFrom, R!Added
  <2>3. QED
    BY <2>1, <2>2
<1>4. QED
  BY <1>2, <1>3

\* The entries of the new list, and where the others were in the old one.
Was(from, i) == IF i <= from THEN i - 1 ELSE i

LEMMA AddedOK ==
  ASSUME R!TypeOK, NEW path \in Paths, NEW from \in Nat, NEW n \in Nat,
         AddedFrom(path, from, n)
  PROVE  /\ R!Added(path) \in Seq(Paths) /\ Len(R!Added(path)) = n /\ n \in 1 .. MaxRecents
         /\ R!Added(path)[1] = path
         /\ \A i \in 2 .. n : /\ Was(from, i) \in 1 .. Len(recents)
                              /\ R!Added(path)[i] = recents[Was(from, i)]
<1>1. /\ recents \in Seq(Paths) /\ Len(recents) \in Nat /\ Len(recents) <= MaxRecents
      /\ \A i \in 1 .. Len(recents) : recents[i] \in Paths
  BY DEF R!TypeOK
<1>2. /\ n \in 1 .. MaxRecents /\ from \in 1 .. n /\ R!Added(path) = R!ToTop(path, from, n)
      /\ n <= Len(recents) \/ (n <= Len(recents) + 1 /\ from = n)
  BY <1>1 DEF AddedFrom, R!Room
<1>3. \A i \in 2 .. n : Was(from, i) \in 1 .. Len(recents)
  BY <1>1, <1>2 DEF Was
<1> DEFINE F(i) == IF i = 1 THEN path ELSE IF i <= from THEN recents[i - 1] ELSE recents[i]
<1>4. \A i \in 1 .. n : F(i) \in Paths
  <2>1. \A i \in 2 .. n : F(i) = recents[Was(from, i)]
    BY DEF Was
  <2>2. QED
    BY <1>1, <1>3, <2>1
<1>5. R!ToTop(path, from, n) = [i \in 1 .. n |-> F(i)]
  BY DEF R!ToTop
<1> HIDE DEF F
<1>6. /\ [i \in 1 .. n |-> F(i)] \in [1 .. n -> Paths]
      /\ \A i \in 1 .. n : [k \in 1 .. n |-> F(k)][i] = F(i)
  BY <1>4
<1>7. R!Added(path) \in Seq(Paths) /\ Len(R!Added(path)) = n
  BY <1>2, <1>5, <1>6
<1>8. /\ R!Added(path)[1] = path
      /\ \A i \in 2 .. n : R!Added(path)[i] = recents[Was(from, i)]
  BY <1>2, <1>5, <1>6 DEF F, Was
<1>9. QED
  BY <1>2, <1>3, <1>7, <1>8

\* addRecent lists no path twice.
LEMMA AddedOnce ==
  ASSUME R!TypeOK, NoneTwice(recents), NEW path \in Paths, NEW from \in Nat, NEW n \in Nat,
         AddedFrom(path, from, n)
  PROVE  NoneTwice(R!Added(path))
<1>1. /\ Len(R!Added(path)) = n /\ n \in Nat
      /\ R!Added(path)[1] = path
      /\ \A i \in 2 .. n : /\ Was(from, i) \in 1 .. Len(recents)
                           /\ R!Added(path)[i] = recents[Was(from, i)]
  BY AddedOK
<1>2. ASSUME NEW i \in 2 .. n, NEW j \in 2 .. n, R!Added(path)[i] = R!Added(path)[j]
      PROVE  i = j
  <2>1. Was(from, i) = Was(from, j)
    BY <1>1, <1>2 DEF NoneTwice
  <2>2. QED
    BY <1>1, <2>1 DEF Was
<1>3. ASSUME NEW i \in 2 .. n, R!Added(path)[i] = path
      PROVE  FALSE
  <2>1. Was(from, i) \in 1 .. Len(recents) /\ recents[Was(from, i)] = path
    BY <1>1, <1>3
  <2>2. Was(from, i) \in R!Listing(path)
    BY <2>1 DEF R!Listing
  <2>3. from \in 1 .. Len(recents) /\ recents[from] = path
    BY <2>2 DEF AddedFrom
  <2>4. Was(from, i) = from
    BY <2>1, <2>3 DEF NoneTwice
  <2>5. QED
    BY <2>3, <2>4 DEF Was
<1>4. QED
  BY <1>1, <1>2, <1>3 DEF NoneTwice

\* A game is remembered by a path of its own.
LEMMA RecentPathOK ==
  ASSUME NEW path \in Paths
  PROVE  R!RecentPath(path) \in Paths /\ Game[R!RecentPath(path)] = Game[path]
  BY DEF R!RecentPath, R!HasM3u

\* One line less to read.
LEMMA TailOK ==
  ASSUME lines \in Seq(Paths), lines # <<>>
  PROVE  /\ Head(lines) = lines[1] /\ lines[1] \in Paths /\ Tail(lines) \in Seq(Paths)
         /\ Len(lines) \in Nat /\ Len(lines) > 0 /\ Len(Tail(lines)) = Len(lines) - 1
         /\ \A j \in 1 .. Len(lines) - 1 : Tail(lines)[j] = lines[j + 1]
         /\ \A j \in 1 .. Len(lines) - 1 : j + 1 \in 1 .. Len(lines)
  OBVIOUS

\* One game more in the list.
LEMMA AppendOK ==
  ASSUME recents \in Seq(Paths), NEW line \in Paths
  PROVE  /\ Append(recents, line) \in Seq(Paths) /\ Len(recents) \in Nat
         /\ Len(Append(recents, line)) = Len(recents) + 1
         /\ Append(recents, line)[Len(recents) + 1] = line
         /\ \A i \in 1 .. Len(recents) : Append(recents, line)[i] = recents[i]
  OBVIOUS

\* A line joins the list, or is dropped.
LEMMA ReadLineListOK == ASSUME ListInv, R!ReadLine PROVE ListInv'
<1> DEFINE line == Head(lines)
<1>1. /\ R!TypeOK /\ OnceOK(recents) /\ UnreadOK /\ phase = "load" /\ lines # <<>>
      /\ lines' = Tail(lines) /\ lines \in Seq(Paths) /\ recents \in Seq(Paths)
      /\ UNCHANGED <<phase, file, synced, card, change_disc, running, played>>
  BY DEF ListInv, R!ReadLine, R!TypeOK
<1>2. /\ line = lines[1] /\ line \in Paths /\ lines' \in Seq(Paths)
      /\ Len(lines) \in Nat /\ Len(lines) > 0 /\ Len(lines') = Len(lines) - 1
      /\ \A j \in 1 .. Len(lines') : lines'[j] = lines[j + 1] /\ j + 1 \in 1 .. Len(lines)
  BY <1>1, TailOK
<1> HIDE DEF line
<1>3. NoneTwice(lines)'
  BY <1>1, <1>2 DEF UnreadOK, NoneTwice
<1>4. DiscOK' /\ NoneTwice(file)' /\ NoneTwice(synced.file)'
  BY <1>1 DEF ListInv, DiscOK, NoneTwice, R!HasM3u
<1>5. CASE recents' = recents
  <2>1. OnceOK(recents)'
    BY <1>1, <1>5 DEF OnceOK, NoneTwice, R!HasM3u
  <2>2. UnreadOK'
    BY <1>1, <1>2, <1>3, <1>5 DEF UnreadOK, R!HasM3u
  <2>3. R!TypeOK'
    BY <1>1, <1>2, <1>5 DEF R!TypeOK
  <2>4. QED
    BY <1>1, <1>4, <2>1, <2>2, <2>3 DEF ListInv
<1>6. CASE R!Keeps(recents, line) /\ recents' = Append(recents, line)
  <2>1. /\ recents' \in Seq(Paths) /\ Len(recents) \in Nat /\ Len(recents') = Len(recents) + 1
        /\ recents'[Len(recents) + 1] = line
        /\ \A i \in 1 .. Len(recents) : recents'[i] = recents[i]
    BY <1>1, <1>2, <1>6, AppendOK
  <2>2. /\ line \in card /\ Len(recents) < MaxRecents
        /\ R!HasM3u(line) => \A i \in 1 .. Len(recents) : Game[recents[i]] # Game[line]
    BY <1>6 DEF R!Keeps
  <2>3. \A i \in 1 .. Len(recents) : recents[i] # line
    BY <1>1, <1>2, <2>2 DEF UnreadOK
  <2>4. \A i \in 1 .. Len(recents) :
          R!HasM3u(recents[i]) \/ R!HasM3u(line) => Game[recents[i]] # Game[line]
    BY <2>2 DEF R!HasM3u
  <2>5. OnceOK(recents)'
    <3>1. \A i \in 1 .. Len(recents') : i \in 1 .. Len(recents) \/ i = Len(recents) + 1
      BY <2>1
    <3>2. \A i \in 1 .. Len(recents') : recents'[i] \in card
      BY <1>1, <2>1, <2>2, <3>1 DEF OnceOK
    <3>3. \A i, j \in 1 .. Len(recents') :
            R!HasM3u(recents'[i]) /\ Game[recents'[i]] = Game[recents'[j]] => i = j
      BY <1>1, <2>1, <2>4, <3>1 DEF OnceOK
    <3>4. \A i, j \in 1 .. Len(recents') : recents'[i] = recents'[j] => i = j
      BY <1>1, <2>1, <2>3, <3>1 DEF OnceOK, NoneTwice
    <3>5. QED
      BY <1>1, <3>2, <3>3, <3>4 DEF OnceOK, NoneTwice, R!HasM3u
  <2>6. UnreadOK'
    <3>1. ASSUME NEW i \in 1 .. Len(recents'), NEW j \in 1 .. Len(lines'),
                 recents'[i] = lines'[j]
          PROVE  R!HasM3u(recents'[i])
      <4>1. CASE i \in 1 .. Len(recents)
        BY <1>1, <1>2, <2>1, <3>1, <4>1 DEF UnreadOK
      <4>2. CASE i = Len(recents) + 1
        <5>1. lines[1] = lines[j + 1] /\ 1 \in 1 .. Len(lines)
          BY <1>2, <2>1, <3>1, <4>2
        <5>2. FALSE
          BY <1>1, <1>2, <5>1 DEF UnreadOK, NoneTwice
        <5>3. QED
          BY <5>2
      <4>3. QED
        BY <2>1, <4>1, <4>2
    <3>2. QED
      BY <1>1, <1>3, <3>1 DEF UnreadOK, R!HasM3u
  <2>7. R!TypeOK'
    BY <1>1, <1>2, <2>1, <2>2 DEF R!TypeOK
  <2>8. QED
    BY <1>1, <1>4, <2>5, <2>6, <2>7 DEF ListInv
<1>7. QED
  BY <1>5, <1>6 DEF R!ReadLine, line

\* Every step keeps the list free of doubles.
LEMMA NextListInv == ListInv /\ [R!Next]_R!vars => ListInv'
<1> SUFFICES ASSUME ListInv, [R!Next]_R!vars PROVE ListInv'
  OBVIOUS
<1>0. /\ R!TypeOK /\ NoneTwice(file) /\ NoneTwice(synced.file) /\ DiscOK
      /\ phase \in {"load", "menu"} => OnceOK(recents)
  BY DEF ListInv
<1>1. CASE R!PowerOn
  BY <1>0, <1>1 DEF R!PowerOn, ListInv, R!TypeOK, DiscOK, NoneTwice, R!HasM3u
<1>2. CASE R!Load
  <2>1. recents' = <<>> \/ (change_disc \in card /\ R!HasM3u(change_disc)
                            /\ change_disc \in Paths /\ recents' = <<change_disc>>)
    BY <1>0, <1>2 DEF R!Load, DiscOK, R!TypeOK
  <2>2. /\ recents' \in Seq(Paths) /\ Len(recents') <= 1 /\ Len(recents') \in Nat
        /\ \A i \in 1 .. Len(recents') :
             i = 1 /\ recents'[i] \in card /\ R!HasM3u(recents'[i])
    <3>1. CASE recents' = <<>>
      BY <3>1
    <3>2. ASSUME NEW disc \in Paths, disc \in card, R!HasM3u(disc), recents' = <<disc>>
          PROVE  /\ recents' \in Seq(Paths) /\ Len(recents') = 1
                 /\ recents'[1] \in card /\ R!HasM3u(recents'[1])
      BY <3>2
    <3>3. QED
      BY <2>1, <3>1, <3>2
  <2>3. OnceOK(recents)' /\ UnreadOK'
    BY <1>0, <1>2, <2>2 DEF R!Load, OnceOK, UnreadOK, NoneTwice, R!HasM3u
  <2>4. R!TypeOK'
    BY <1>0, <1>2, <2>2 DEF R!Load, R!TypeOK
  <2>5. QED
    BY <1>0, <1>2, <2>3, <2>4 DEF R!Load, ListInv, DiscOK, NoneTwice
<1>3. CASE R!ReadLine
  BY <1>3, ReadLineListOK
<1>4. CASE R!Loaded
  <2>1. OnceOK(recents)'
    BY <1>0, <1>4 DEF R!Loaded, R!Save, OnceOK, NoneTwice, R!HasM3u
  <2>2. QED
    BY <1>0, <1>4, <2>1 DEF R!Loaded, R!Save, ListInv, R!TypeOK, DiscOK, OnceOK, NoneTwice, R!HasM3u
<1>5. CASE R!Run \/ R!EndGame \/ R!PowerOff
  BY <1>0, <1>5 DEF R!Run, R!EndGame, R!PowerOff, ListInv, R!TypeOK, DiscOK, NoneTwice, R!HasM3u
<1>6. CASE R!EditCard
  <2>1. card' \subseteq Paths /\ phase = "down"
    BY <1>0, <1>6 DEF R!EditCard, R!TypeOK
  <2>2. QED
    BY <1>0, <1>6, <2>1 DEF R!EditCard, ListInv, R!TypeOK, DiscOK, NoneTwice
<1>7. CASE R!PowerCut
  <2>1. file' = synced.file \/ \E n \in 0 .. Len(file) : file' = SubSeq(file, 1, n)
    BY <1>7 DEF R!PowerCut
  <2>2. file' \in Seq(Paths) /\ Len(file') <= MaxRecents /\ NoneTwice(file')
    <3>1. CASE file' = synced.file
      BY <1>0, <3>1 DEF R!TypeOK
    <3>2. ASSUME NEW n \in 0 .. Len(file), file' = SubSeq(file, 1, n)
          PROVE  file' \in Seq(Paths) /\ Len(file') <= MaxRecents /\ NoneTwice(file')
      <4>1. file \in Seq(Paths) /\ Len(file) \in Nat /\ Len(file) <= MaxRecents
        BY <1>0 DEF R!TypeOK
      <4>2. /\ file' \in Seq(Paths) /\ Len(file') = n
            /\ \A i \in 1 .. n : file'[i] = file[i] /\ i \in 1 .. Len(file)
        BY <3>2, <4>1
      <4>3. NoneTwice(file')
        BY <1>0, <4>2 DEF NoneTwice
      <4>4. QED
        BY <4>1, <4>2, <4>3
    <3>3. QED
      BY <2>1, <3>1, <3>2
  <2>3. synced'.file = file' /\ phase' = "down" /\ change_disc' = None /\ running' = None
        /\ UNCHANGED <<recents, lines, card>>
    BY <1>7 DEF R!PowerCut
  <2>4. R!TypeOK'
    BY <1>0, <2>2, <2>3 DEF R!TypeOK
  <2>5. QED
    BY <2>2, <2>3, <2>4 DEF ListInv, DiscOK, NoneTwice
<1>8. ASSUME NEW path \in Paths, R!Play(path) PROVE ListInv'
  <2>1. R!RecentPath(path) \in Paths /\ NoneTwice(recents)
    BY <1>0, <1>8, RecentPathOK DEF R!Play, OnceOK
  <2>2. PICK from, n \in Nat : AddedFrom(R!RecentPath(path), from, n)
    BY <1>0, <2>1, AddedSomewhere
  <2>3. /\ R!Added(R!RecentPath(path)) \in Seq(Paths) /\ Len(R!Added(R!RecentPath(path))) = n
        /\ n \in 1 .. MaxRecents
    BY <1>0, <2>1, <2>2, AddedOK
  <2>4. NoneTwice(R!Added(R!RecentPath(path)))
    BY <1>0, <2>1, <2>2, AddedOnce
  <2>5. recents' = R!Added(R!RecentPath(path)) /\ file' = recents' /\ running' = path
        /\ phase = "menu" /\ phase' = "exit"
        /\ UNCHANGED <<lines, synced, card, change_disc>>
    BY <1>8 DEF R!Play, R!Save
  <2>6. R!TypeOK'
    BY <1>0, <2>3, <2>5 DEF R!TypeOK
  <2>7. NoneTwice(file)' /\ NoneTwice(synced.file)' /\ DiscOK'
    BY <1>0, <2>4, <2>5 DEF NoneTwice, DiscOK
  <2>8. QED
    BY <2>5, <2>6, <2>7 DEF ListInv
<1>9. ASSUME NEW path \in Paths, R!ChangeDisc(path) PROVE ListInv'
  BY <1>0, <1>9 DEF R!ChangeDisc, ListInv, R!TypeOK, DiscOK, NoneTwice, R!HasM3u
<1>10. CASE UNCHANGED R!vars
  BY <1>0, <1>10 DEF R!vars, ListInv, R!TypeOK, DiscOK, NoneTwice, R!HasM3u, OnceOK, UnreadOK
<1>11. QED
  BY <1>1, <1>2, <1>3, <1>4, <1>5, <1>6, <1>7, <1>8, <1>9, <1>10 DEF R!Next

\* The menu never lists a file that is gone, nor a game with a .m3u twice.
THEOREM RecentsOnePerGame == R!Spec => []OnePerGame
<1>1. ListInv => OnePerGame
  BY DEF ListInv, OnceOK, NoneTwice, OnePerGame, R!OnePerGame, R!HasM3u
<1>2. QED
  BY <1>1, InitListInv, NextListInv, PTL DEF R!Spec

-----------------------------------------------------------------------------
\* The .m3u of a game is not deleted: without it the game's discs are games of their own.
M3uStays == \A g \in DOMAIN M3u : M3u[g] \notin Removable
M3uHere  == \A g \in DOMAIN M3u : M3u[g] \in card

\* A list of games in the order of play, none of them twice.
SortedOK(list, order) ==
  \A i, j \in 1 .. Len(list) :
    i <= j => /\ <<Game[list[i]], Game[list[j]]>> \in order
              /\ Game[list[i]] = Game[list[j]] => i = j

\* addRecent leaves a disc of the game it puts first, when another disc was listed.
Again(list, j) ==
  /\ j > 1 /\ Game[list[j]] = Game[list[1]]
  /\ Game[list[1]] \in DOMAIN M3u /\ list[1] = M3u[Game[list[1]]]

After(list, j, order) ==
  \A i \in 1 .. j - 1 : /\ <<Game[list[i]], Game[list[j]]>> \in order
                        /\ Game[list[i]] # Game[list[j]]

FileOK(list, order) ==
  \A j \in 1 .. Len(list) :
    /\ <<Game[list[j]], Game[list[j]]>> \in order
    /\ Again(list, j) \/ After(list, j, order)

\* The game that was played is the file's first, whatever disc was changed to.
IsTop(path) == Len(file) > 0 /\ file[1] \in card /\ Game[file[1]] = Game[path]

TopOK ==
  /\ phase \in {"exit", "game"} => IsTop(running)
  /\ change_disc # None => IsTop(change_disc)

IsListed(g) == \E i \in 1 .. Len(recents) : Game[recents[i]] = g

\* While the file is read: what is left fits in the list, and is in order after it,
RoomOK ==
  \/ Len(recents) + Len(lines) <= MaxRecents
  \/ /\ Len(lines) > 0 /\ Len(lines) <= MaxRecents /\ Len(recents) = 1
     /\ Game[lines[1]] = Game[recents[1]] /\ R!HasM3u(lines[1])

RestOK ==
  \A j \in 1 .. Len(lines) :
    /\ <<Game[lines[j]], Game[lines[j]]>> \in played
    /\ \/ IsListed(Game[lines[j]])
       \/ Again(lines, j)
       \/ /\ After(lines, j, played)
          /\ \A i \in 1 .. Len(recents) : <<Game[recents[i]], Game[lines[j]]>> \in played

\* and the list and the rest are what the file says.
ReadOK ==
  /\ \A j \in 1 .. Len(file) :
       file[j] \in card =>
         IsListed(Game[file[j]]) \/ \E k \in 1 .. Len(lines) : lines[k] = file[j]
  /\ \A i \in 1 .. Len(recents) : \E j \in 1 .. Len(file) :
       file[j] \in card /\ Game[file[j]] = Game[recents[i]]
  /\ \A k \in 1 .. Len(lines) : \E j \in 1 .. Len(file) : file[j] = lines[k]

OrderInv ==
  /\ M3uHere /\ TopOK
  /\ FileOK(file, played) /\ FileOK(synced.file, synced.played)
  /\ phase \in {"load", "menu"} => SortedOK(recents, played)
  /\ phase = "load" => RoomOK /\ RestOK /\ ReadOK
  /\ phase = "menu" => \A g \in R!PlayedGames : IsListed(g)

RecentsInv == ListInv /\ OrderInv /\ R!NothingForgotten

LEMMA InitRecentsInv == R!Init => RecentsInv
<1> SUFFICES ASSUME R!Init PROVE OrderInv /\ R!NothingForgotten
  BY InitListInv DEF RecentsInv
<1>1. OrderInv
  BY DEF R!Init, OrderInv, M3uHere, TopOK, FileOK
<1>2. R!NothingForgotten
  BY DEF R!Init, R!NothingForgotten
<1>3. QED
  BY <1>1, <1>2

\* A game is known by its .m3u, or is one file.
LEMMA GameFile ==
  ASSUME M3uHere, NEW p \in Paths, NEW q \in Paths, Game[p] = Game[q]
  PROVE  \/ p = q /\ ~R!HasM3u(p) /\ ~R!HasM3u(q)
         \/ Game[p] \in DOMAIN M3u /\ R!HasM3u(p) /\ R!HasM3u(q)
  BY DEF M3uHere, R!HasM3u

\* What playing a game does to the order of play.
LEMMA ToFrontOK ==
  ASSUME NEW game
  PROVE  /\ \A a, b : <<a, b>> \in played /\ b # game => <<a, b>> \in R!ToFront(game)
         /\ \A b \in R!PlayedGames \cup {game} : <<game, b>> \in R!ToFront(game)
         /\ \A b : <<b, b>> \in R!ToFront(game) => b = game \/ <<b, b>> \in played
  BY DEF R!ToFront

\* A prefix of a file, and what the history says of its games.
LEMMA PrefixOK ==
  ASSUME NEW list \in Seq(Paths), NEW order, FileOK(list, order), NEW n \in 0 .. Len(list)
  PROVE  FileOK(SubSeq(list, 1, n), order)
<1> DEFINE prefix == SubSeq(list, 1, n)
<1>1. /\ Len(prefix) = n /\ n \in Nat /\ Len(list) \in Nat /\ n <= Len(list)
      /\ \A i \in 1 .. n : prefix[i] = list[i]
  OBVIOUS
<1> HIDE DEF prefix
<1>2. ASSUME NEW j \in 1 .. n
      PROVE  /\ <<Game[prefix[j]], Game[prefix[j]]>> \in order
             /\ Again(prefix, j) \/ After(prefix, j, order)
  <2>1. j \in 1 .. Len(list) /\ 1 \in 1 .. n /\ \A i \in 1 .. j - 1 : i \in 1 .. n
    BY <1>1
  <2>2. prefix[j] = list[j] /\ prefix[1] = list[1]
    BY <1>1, <2>1
  <2>3. /\ <<Game[list[j]], Game[list[j]]>> \in order
        /\ Again(list, j) \/ After(list, j, order)
    BY <2>1 DEF FileOK
  <2>4. Again(list, j) => Again(prefix, j)
    BY <2>2 DEF Again
  <2>5. After(list, j, order) => After(prefix, j, order)
    BY <1>1, <2>1, <2>2 DEF After
  <2>6. QED
    BY <2>2, <2>3, <2>4, <2>5
<1>3. QED
  BY <1>1, <1>2 DEF FileOK, prefix

\* What is left of the history still orders the file.
LEMMA ListedOK ==
  ASSUME NEW list \in Seq(Paths), NEW order, FileOK(list, order)
  PROVE  FileOK(list, R!Listed(order, list, Paths))
<1> DEFINE now == R!Listed(order, list, Paths)
<1>1. \A i, j \in 1 .. Len(list) :
        <<Game[list[i]], Game[list[j]]>> \in order => <<Game[list[i]], Game[list[j]]>> \in now
  BY DEF R!Listed
<1>2. Len(list) \in Nat
  OBVIOUS
<1> HIDE DEF now
<1>3. \A j \in 1 .. Len(list) : After(list, j, order) => After(list, j, now)
  BY <1>1, <1>2 DEF After
<1>4. QED
  BY <1>1, <1>3 DEF FileOK, now

\* The games of a sorted list are a file in order.
LEMMA SortedFile ==
  ASSUME NEW list \in Seq(Paths), NEW order, SortedOK(list, order)
  PROVE  FileOK(list, order)
<1>1. Len(list) \in Nat
  OBVIOUS
<1>2. ASSUME NEW j \in 1 .. Len(list)
      PROVE  After(list, j, order)
  <2>1. \A i \in 1 .. j - 1 : i \in 1 .. Len(list) /\ i <= j /\ i # j
    BY <1>1
  <2>2. QED
    BY <2>1 DEF SortedOK, After
<1>3. \A j \in 1 .. Len(list) : <<Game[list[j]], Game[list[j]]>> \in order
  BY <1>1 DEF SortedOK
<1>4. QED
  BY <1>2, <1>3 DEF FileOK

\* The list after a game was started, in the new order of play.
LEMMA PlayedOK ==
  ASSUME RecentsInv, phase = "menu", NEW path \in card
  PROVE  FileOK(R!Added(R!RecentPath(path)), R!ToFront(Game[path]))
<1> DEFINE rp == R!RecentPath(path)
           game == Game[path]
           f == R!Added(rp)
           order == R!ToFront(game)
<1>1. /\ R!TypeOK /\ SortedOK(recents, played) /\ M3uHere /\ NoneTwice(recents)
      /\ path \in Paths /\ recents \in Seq(Paths) /\ Len(recents) \in Nat
      /\ \A i \in 1 .. Len(recents) : recents[i] \in Paths
  BY DEF RecentsInv, ListInv, OrderInv, OnceOK, R!TypeOK
<1>2. rp \in Paths /\ Game[rp] = game
  BY <1>1, RecentPathOK
<1>3. PICK from, n \in Nat : AddedFrom(rp, from, n)
  BY <1>1, <1>2, AddedSomewhere
<1>4. /\ f \in Seq(Paths) /\ Len(f) = n /\ f[1] = rp
      /\ \A i \in 2 .. n : /\ Was(from, i) \in 1 .. Len(recents)
                           /\ f[i] = recents[Was(from, i)]
  BY <1>1, <1>2, <1>3, AddedOK
<1>5. NoneTwice(f)
  BY <1>1, <1>2, <1>3, AddedOnce
<1>6. /\ \A a, b : <<a, b>> \in played /\ b # game => <<a, b>> \in order
      /\ \A b \in R!PlayedGames \cup {game} : <<game, b>> \in order
  BY ToFrontOK
<1> HIDE DEF f, order, rp
<1>7. ASSUME NEW j \in 2 .. n
      PROVE  Game[f[j]] \in R!PlayedGames /\ f[j] \in Paths
  <2>1. f[j] = recents[Was(from, j)] /\ Was(from, j) \in 1 .. Len(recents)
    BY <1>4
  <2>2. <<Game[f[j]], Game[f[j]]>> \in played /\ f[j] \in Paths
    BY <1>1, <2>1 DEF SortedOK
  <2>3. QED
    BY <2>2 DEF R!PlayedGames
<1>8. ASSUME NEW j \in 2 .. n, Game[f[j]] = game
      PROVE  Again(f, j)
  <2>1. f[j] # rp
    BY <1>4, <1>5 DEF NoneTwice
  <2>2. R!HasM3u(path) /\ game \in DOMAIN M3u
    BY <1>1, <1>2, <1>7, <1>8, <2>1, GameFile
  <2>3. rp = M3u[game]
    BY <2>2 DEF R!RecentPath, rp
  <2>4. QED
    BY <1>2, <1>4, <1>8, <2>2, <2>3 DEF Again
<1>9. ASSUME NEW j \in 2 .. n, Game[f[j]] # game, NEW i \in 1 .. j - 1
      PROVE  <<Game[f[i]], Game[f[j]]>> \in order /\ Game[f[i]] # Game[f[j]]
  <2>1. CASE i = 1
    BY <1>2, <1>4, <1>6, <1>7, <1>9, <2>1
  <2>2. CASE i \in 2 .. n
    <3>1. Was(from, i) < Was(from, j)
      BY <1>3, <1>9, <2>2 DEF Was
    <3>2. /\ Was(from, i) \in 1 .. Len(recents) /\ f[i] = recents[Was(from, i)]
          /\ Was(from, j) \in 1 .. Len(recents) /\ f[j] = recents[Was(from, j)]
      BY <1>4, <2>2
    <3>3. <<Game[f[i]], Game[f[j]]>> \in played /\ Game[f[i]] # Game[f[j]]
      BY <1>1, <3>1, <3>2 DEF SortedOK
    <3>4. QED
      BY <1>6, <1>9, <3>3
  <2>3. QED
    BY <2>1, <2>2
<1>10. ASSUME NEW j \in 1 .. n
       PROVE  <<Game[f[j]], Game[f[j]]>> \in order
  <2>1. CASE Game[f[j]] = game
    BY <1>6, <2>1
  <2>2. CASE Game[f[j]] # game
    <3>1. j \in 2 .. n
      BY <1>2, <1>4, <2>2
    <3>2. <<Game[f[j]], Game[f[j]]>> \in played
      BY <1>7, <3>1 DEF R!PlayedGames
    <3>3. QED
      BY <1>6, <2>2, <3>2
  <2>3. QED
    BY <2>1, <2>2
<1>11. ASSUME NEW j \in 1 .. n
       PROVE  Again(f, j) \/ After(f, j, order)
  <2>1. CASE j = 1
    BY <2>1 DEF After
  <2>2. CASE j \in 2 .. n
    BY <1>8, <1>9, <2>2 DEF After
  <2>3. QED
    BY <2>1, <2>2
<1>12. QED
  BY <1>4, <1>10, <1>11 DEF FileOK, f, order, rp

\* The one game that may leave the list has as many newer ones as the list has places, or one
\* fewer when the game that is played was listed by another path.
LEMMA DroppedOK ==
  ASSUME RecentsInv, NEW path \in Paths, R!Play(path)
  PROVE  R!NothingForgotten'
<1> DEFINE rp == R!RecentPath(path)
           game == Game[path]
           len == Len(recents)
<1>1. /\ R!TypeOK /\ SortedOK(recents, played) /\ M3uHere /\ NoneTwice(recents)
      /\ recents \in Seq(Paths) /\ len \in Nat /\ len <= MaxRecents
      /\ \A i \in 1 .. len : recents[i] \in Paths
      /\ \A g \in R!PlayedGames : IsListed(g)
  BY DEF R!Play, RecentsInv, ListInv, OrderInv, OnceOK, R!TypeOK
<1>2. /\ rp \in Paths /\ Game[rp] = game
      /\ recents' = R!Added(rp) /\ played' = R!ToFront(game) /\ phase' = "exit"
  BY RecentPathOK DEF R!Play, R!Save
<1>3. PICK from, n \in Nat : AddedFrom(rp, from, n)
  BY <1>1, <1>2, AddedSomewhere
<1>4. /\ Len(recents') = n /\ recents'[1] = rp
      /\ \A i \in 2 .. n : /\ Was(from, i) \in 1 .. len
                           /\ recents'[i] = recents[Was(from, i)]
  BY <1>1, <1>2, <1>3, AddedOK
<1>5. /\ \A a, b : <<a, b>> \in played /\ b # game => <<a, b>> \in played'
      /\ \A b \in R!PlayedGames \cup {game} : <<game, b>> \in played'
      /\ \A b : <<b, b>> \in played' => b = game \/ <<b, b>> \in played
  BY <1>2, ToFrontOK
<1>6. from \in 1 .. n /\ n <= MaxRecents /\ n > 0
      /\ \/ n = len /\ recents[from] = rp
         \/ n = R!Room /\ from = n
  BY <1>3 DEF AddedFrom
<1> HIDE DEF rp
<1>7. ASSUME NEW g \in R!PlayedGames'
      PROVE  \/ \E i \in 1 .. Len(recents') : Game[recents'[i]] = g
             \/ /\ Cardinality({h \in R!PlayedGames' \ {g} : <<h, g>> \in played'}) \in Nat
                /\ Cardinality({h \in R!PlayedGames' \ {g} : <<h, g>> \in played'}) >= MaxRecents
             \/ /\ R!TwoPlaces'
                /\ Cardinality({h \in R!PlayedGames' \ {g} : <<h, g>> \in played'}) >= MaxRecents - 1
  <2>1. CASE g = game
    BY <1>2, <1>4, <1>6, <2>1
  <2>2. CASE g # game
    <3>1. g \in R!PlayedGames
      BY <1>5, <2>2 DEF R!PlayedGames
    <3>2. PICK k \in 1 .. len : Game[recents[k]] = g
      BY <1>1, <3>1 DEF IsListed
    <3>3. CASE k < from
      <4>1. k + 1 \in 2 .. n /\ Was(from, k + 1) = k
        BY <1>6, <3>3 DEF Was
      <4>2. QED
        BY <1>4, <3>2, <4>1
    <3>4. CASE k > from
      <4>1. k \in 2 .. n /\ Was(from, k) = k
        BY <1>1, <1>6, <3>4 DEF Was, R!Room
      <4>2. QED
        BY <1>4, <3>2, <4>1
    <3>5. CASE k = from
      <4>1. len = MaxRecents /\ k = len
        BY <1>1, <1>2, <1>6, <2>2, <3>2, <3>5 DEF R!Room
      <4> DEFINE T == {h \in R!PlayedGames' \ {g} : <<h, g>> \in played'}
                 listed == {Game[recents[i]] : i \in 1 .. len}
                 F == [i \in 1 .. len |-> Game[recents[i]]]
      <4>2. IsFiniteSet(T)
        <5>1. IsFiniteSet(1 .. len) /\ F \in Surjection(1 .. len, listed)
          <6>1. IsFiniteSet(1 .. len)
            <7>1. len \in Int /\ 1 \in Int
              BY <1>1
            <7>2. QED
              BY <7>1, FS_Interval, Zenon
          <6>2. F \in [1 .. len -> listed] /\ \A t \in listed : \E i \in 1 .. len : F[i] = t
            OBVIOUS
          <6>3. QED
            BY <6>1, <6>2 DEF Surjection
        <5>2. IsFiniteSet(listed)
          BY <5>1, FS_Surjection
        <5>3. IsFiniteSet(listed \cup {game})
          BY <5>2, FS_AddElement
        <5>4. T \in SUBSET (listed \cup {game})
          BY <1>1, <1>5 DEF R!PlayedGames, IsListed
        <5>5. QED
          BY <5>3, <5>4, FS_Subset
      <4>3. Cardinality(T) \in Nat
        BY <4>2, FS_CardinalityType
      <4>4. game \in T
        <5>1. <<game, g>> \in played' /\ <<game, game>> \in played' /\ game # g
          BY <1>5, <2>2, <3>1
        <5>2. game \in R!PlayedGames'
          BY <1>2, <5>1 DEF R!PlayedGames
        <5>3. QED
          BY <5>1, <5>2
      <4>5. ASSUME NEW i \in 1 .. len - 1 PROVE Game[recents[i]] \in T
        <5>1. i \in 1 .. len /\ i <= len /\ i # len
          BY <1>1
        <5>2. /\ <<Game[recents[i]], g>> \in played
              /\ <<Game[recents[i]], Game[recents[i]]>> \in played
              /\ recents[i] \in Paths /\ Game[recents[i]] # g
          BY <1>1, <3>2, <4>1, <5>1 DEF SortedOK
        <5>3. <<Game[recents[i]], g>> \in played'
          BY <1>5, <2>2, <5>2
        <5>4. <<Game[recents[i]], Game[recents[i]]>> \in played'
          BY <1>5, <5>2
        <5>5. Game[recents[i]] \in R!PlayedGames'
          BY <5>2, <5>4 DEF R!PlayedGames
        <5>6. QED
          BY <5>2, <5>3, <5>5
      <4>6. \A i, j \in 1 .. len : Game[recents[i]] = Game[recents[j]] => i = j
        <5>1. ASSUME NEW i \in 1 .. len, NEW j \in 1 .. len, Game[recents[i]] = Game[recents[j]]
              PROVE  i = j
          <6>1. i <= j \/ j <= i
            BY <1>1
          <6>2. QED
            BY <1>1, <5>1, <6>1 DEF SortedOK
        <5>2. QED
          BY <5>1
      <4>7. \A m \in Nat : \A f \in Injection(1 .. m, T) : m <= Cardinality(T)
        <5>1. ASSUME NEW m \in Nat, NEW f \in Injection(1 .. m, T) PROVE m <= Cardinality(T)
          <6>1. Cardinality(1 .. m) = m
            <7>1. m \in Int /\ 1 \in Int
              OBVIOUS
            <7>2. Cardinality(1 .. m) = IF 1 > m THEN 0 ELSE m - 1 + 1
              BY <7>1, FS_Interval, Zenon
            <7>3. QED
              BY <7>2
          <6>2. Cardinality(1 .. m) <= Cardinality(T)
            BY <4>2, FS_Injection
          <6>3. QED
            BY <6>1, <6>2
        <5>2. QED
          BY <5>1
      \* The game that is played was not listed at all.
      <4>8. CASE \A i \in 1 .. len - 1 : Game[recents[i]] # game
        <5> DEFINE A == [i \in 1 .. len |-> IF i = len THEN game ELSE Game[recents[i]]]
        <5>1. A \in [1 .. len -> T]
          <6>1. \A i \in 1 .. len : i = len \/ i \in 1 .. len - 1
            BY <1>1
          <6>2. QED
            BY <4>4, <4>5, <6>1
        <5>2. ASSUME NEW i \in 1 .. len, NEW j \in 1 .. len, A[i] = A[j] PROVE i = j
          <6>1. \A k2 \in 1 .. len : k2 = len \/ k2 \in 1 .. len - 1
            BY <1>1
          <6>2. QED
            BY <4>6, <4>8, <5>2, <6>1
        <5>3. A \in Injection(1 .. len, T)
          BY <5>1, <5>2 DEF Injection, IsInjective
        <5>4. QED
          BY <1>1, <4>1, <4>3, <4>7, <5>3
      \* It was, by another path, and takes two places now.
      <4>9. CASE \E i \in 1 .. len - 1 : Game[recents[i]] = game
        <5>1. PICK i \in 1 .. len - 1 : Game[recents[i]] = game
          BY <4>9
        <5>2. i + 1 \in 2 .. n /\ Was(from, i + 1) = i /\ 1 \in 1 .. n
          BY <1>1, <1>6, <3>5, <4>1 DEF Was
        <5>3. Game[recents'[i + 1]] = game /\ Game[recents'[1]] = game
          BY <1>2, <1>4, <5>1, <5>2
        <5>4. R!TwoPlaces'
          BY <1>4, <1>6, <5>2, <5>3 DEF R!TwoPlaces
        <5> DEFINE B == [l \in 1 .. len - 1 |-> Game[recents[l]]]
        <5>5. B \in [1 .. len - 1 -> T]
          BY <4>5
        <5>6. ASSUME NEW l \in 1 .. len - 1, NEW j \in 1 .. len - 1, B[l] = B[j] PROVE l = j
          <6>1. l \in 1 .. len /\ j \in 1 .. len
            BY <1>1
          <6>2. QED
            BY <4>6, <5>6, <6>1
        <5>7. B \in Injection(1 .. len - 1, T)
          BY <5>5, <5>6 DEF Injection, IsInjective
        <5>8. len - 1 \in Nat
          BY <1>1, <4>1
        <5>9. len - 1 <= Cardinality(T)
          BY <4>7, <5>7, <5>8
        <5>10. QED
          BY <4>1, <5>4, <5>9
      <4>10. QED
        BY <4>8, <4>9
    <3>6. QED
      BY <1>6, <3>2, <3>3, <3>4, <3>5
  <2>3. QED
    BY <2>1, <2>2
<1>8. \A S : R!Cardinality(S) = Cardinality(S)
  BY DEF R!Cardinality, Cardinality
<1>9. MaxRecents \in Nat
  BY RecentGames DEF R!RecentsAssumption
<1>10. ASSUME NEW g \in R!PlayedGames'
       PROVE  \/ \E i \in 1 .. Len(recents') : Game[recents'[i]] = g
              \/ Cardinality({h \in R!PlayedGames' \ {g} : <<h, g>> \in played'})
                   >= MaxRecents - (IF phase' = "exit" /\ R!TwoPlaces' THEN 1 ELSE 0)
  <2> DEFINE C == Cardinality({h \in R!PlayedGames' \ {g} : <<h, g>> \in played'})
  <2>1. \/ \E i \in 1 .. Len(recents') : Game[recents'[i]] = g
        \/ C \in Nat /\ C >= MaxRecents
        \/ R!TwoPlaces' /\ C >= MaxRecents - 1
    BY <1>7
  <2>2. phase' = "exit"
    BY <1>2
  <2>3. \/ \E i \in 1 .. Len(recents') : Game[recents'[i]] = g
        \/ C >= MaxRecents - (IF phase' = "exit" /\ R!TwoPlaces' THEN 1 ELSE 0)
    <3> HIDE DEF C
    <3>1. C \in Nat /\ C >= MaxRecents => C >= MaxRecents - 1 /\ C >= MaxRecents - 0
      BY <1>9
    <3>2. CASE R!TwoPlaces'
      <4>1. (IF phase' = "exit" /\ R!TwoPlaces' THEN 1 ELSE 0) = 1
        BY <2>2, <3>2
      <4>2. QED
        BY <2>1, <3>1, <4>1
    <3>3. CASE ~R!TwoPlaces'
      <4>1. (IF phase' = "exit" /\ R!TwoPlaces' THEN 1 ELSE 0) = 0
        BY <3>3
      <4>2. QED
        BY <2>1, <3>1, <3>3, <4>1
    <3>4. QED
      BY <3>2, <3>3
  <2>4. QED
    BY <2>3
<1>11. QED
  BY <1>8, <1>10 DEF R!NothingForgotten

\* The launcher starts with the disc that was changed to, which is of the file's first game.
LEMMA LoadOK ==
  ASSUME RecentsInv, R!Load
  PROVE  SortedOK(recents, played)' /\ RoomOK' /\ RestOK' /\ ReadOK'
<1>1. /\ R!TypeOK /\ TopOK /\ DiscOK /\ FileOK(file, played)
      /\ file \in Seq(Paths) /\ Len(file) \in Nat /\ Len(file) <= MaxRecents
  BY DEF RecentsInv, ListInv, OrderInv, R!TypeOK
<1>2. /\ lines' = file /\ UNCHANGED <<file, synced, card, running, played>>
      /\ recents' = IF change_disc \in card THEN <<change_disc>> ELSE <<>>
  BY DEF R!Load
<1>3. CASE change_disc \notin card
  <2>1. recents' = <<>> /\ Len(recents') = 0
    BY <1>2, <1>3
  <2>2. SortedOK(recents, played)' /\ RoomOK'
    BY <1>1, <1>2, <2>1 DEF SortedOK, RoomOK
  <2>3. RestOK'
    BY <1>1, <1>2, <2>1 DEF RestOK, FileOK, Again, After
  <2>4. ReadOK'
    BY <1>1, <1>2, <2>1 DEF ReadOK
  <2>5. QED
    BY <2>2, <2>3, <2>4
<1>4. CASE change_disc \in card
  <2>1. change_disc \in Paths /\ change_disc # None
    BY <1>1, <1>4 DEF R!TypeOK
  <2> DEFINE game == Game[change_disc]
  <2>2. /\ Len(recents') = 1 /\ recents'[1] = change_disc
        /\ \A i \in 1 .. Len(recents') : i = 1
    BY <1>2, <1>4, <2>1
  <2>3. /\ Len(file) > 0 /\ file[1] \in card /\ Game[file[1]] = game
        /\ R!HasM3u(change_disc) /\ 1 \in 1 .. Len(file)
    BY <1>1, <2>1 DEF TopOK, IsTop, DiscOK
  <2>4. <<game, game>> \in played
    BY <1>1, <2>3 DEF FileOK
  <2>5. SortedOK(recents, played)'
    BY <1>2, <2>2, <2>4 DEF SortedOK
  <2>6. RoomOK'
    BY <1>1, <1>2, <2>2, <2>3 DEF RoomOK, R!HasM3u
  <2>7. ASSUME NEW j \in 1 .. Len(file)
        PROVE  \/ IsListed(Game[file[j]])'
               \/ Again(file, j)
               \/ /\ After(file, j, played)
                  /\ \A i \in 1 .. Len(recents') :
                       <<Game[recents'[i]], Game[file[j]]>> \in played
    <3>1. CASE Game[file[j]] = game
      BY <1>2, <2>2, <3>1 DEF IsListed
    <3>2. CASE Game[file[j]] # game /\ After(file, j, played)
      <4>1. j > 1 /\ 1 \in 1 .. j - 1
        BY <2>3, <3>2
      <4>2. <<game, Game[file[j]]>> \in played
        BY <2>3, <3>2, <4>1 DEF After
      <4>3. QED
        BY <2>2, <3>2, <4>2
    <3>3. QED
      BY <1>1, <3>1, <3>2 DEF FileOK
  <2>8. RestOK'
    <3>1. ASSUME NEW j \in 1 .. Len(lines')
          PROVE  /\ <<Game[lines'[j]], Game[lines'[j]]>> \in played'
                 /\ \/ \E i \in 1 .. Len(recents') : Game[recents'[i]] = Game[lines'[j]]
                    \/ Again(lines', j)
                    \/ /\ After(lines', j, played')
                       /\ \A i \in 1 .. Len(recents') :
                            <<Game[recents'[i]], Game[lines'[j]]>> \in played'
      <4>1. j \in 1 .. Len(file)
        BY <1>2
      <4>2. <<Game[file[j]], Game[file[j]]>> \in played
        BY <1>1, <4>1 DEF FileOK
      <4>3. QED
        BY <1>2, <2>7, <4>1, <4>2 DEF IsListed
    <3>2. QED
      BY <3>1 DEF RestOK, IsListed, Again, After
  <2>9. ReadOK'
    BY <1>2, <2>2, <2>3 DEF ReadOK
  <2>10. QED
    BY <2>5, <2>6, <2>8, <2>9
<1>5. QED
  BY <1>3, <1>4

\* A line is passed over when its file is gone or its game is listed, never for want of room.
LEMMA KeepsOK ==
  ASSUME RecentsInv, phase = "load", lines # <<>>
  PROVE  LET line == lines[1] IN
         /\ ~R!Keeps(recents, line) => line \notin card \/ IsListed(Game[line])
         /\ R!Keeps(recents, line) => line \in card /\ ~IsListed(Game[line])
<1> DEFINE line == lines[1]
<1>1. /\ R!TypeOK /\ M3uHere /\ UnreadOK /\ RoomOK
      /\ lines \in Seq(Paths) /\ Len(lines) \in Nat /\ Len(lines) > 0 /\ line \in Paths
      /\ recents \in Seq(Paths) /\ Len(recents) \in Nat
      /\ \A i \in 1 .. Len(recents) : recents[i] \in Paths
  BY DEF RecentsInv, ListInv, OrderInv, R!TypeOK
<1>2. ASSUME ~R!Keeps(recents, line), line \in card
      PROVE  IsListed(Game[line])
  <2>1. Len(recents) < MaxRecents => IsListed(Game[line])
    BY <1>2 DEF R!Keeps, IsListed
  <2>2. Len(recents) < MaxRecents \/ (Len(recents) = 1 /\ Game[line] = Game[recents[1]])
    BY <1>1 DEF RoomOK
  <2>3. QED
    BY <2>1, <2>2 DEF IsListed
<1>3. ASSUME R!Keeps(recents, line), IsListed(Game[line])
      PROVE  FALSE
  <2>1. PICK i \in 1 .. Len(recents) : Game[recents[i]] = Game[line]
    BY <1>3 DEF IsListed
  <2>2. ~R!HasM3u(line)
    BY <1>3, <2>1 DEF R!Keeps
  <2>3. recents[i] = line /\ ~R!HasM3u(recents[i])
    BY <1>1, <2>1, <2>2, GameFile
  <2>4. 1 \in 1 .. Len(lines)
    BY <1>1
  <2>5. QED
    BY <1>1, <2>3, <2>4 DEF UnreadOK
<1>4. QED
  BY <1>2, <1>3 DEF R!Keeps

\* A line that joins the list is of the game played next before those listed.
LEMMA ReadLineOrderOK ==
  ASSUME RecentsInv, R!ReadLine
  PROVE  SortedOK(recents, played)' /\ RoomOK' /\ RestOK' /\ ReadOK'
<1> DEFINE line == lines[1]
<1>1. /\ R!TypeOK /\ M3uHere /\ UnreadOK /\ SortedOK(recents, played) /\ RoomOK /\ RestOK /\ ReadOK
      /\ phase = "load" /\ lines # <<>> /\ lines \in Seq(Paths) /\ recents \in Seq(Paths)
      /\ lines' = Tail(lines)
      /\ UNCHANGED <<phase, file, synced, card, running, played>>
      /\ Len(recents) \in Nat
  BY DEF RecentsInv, ListInv, OrderInv, R!TypeOK, R!ReadLine
<1>2. /\ line = Head(lines) /\ line \in Paths
      /\ Len(lines) \in Nat /\ Len(lines) > 0 /\ Len(lines') = Len(lines) - 1
      /\ \A j \in 1 .. Len(lines') : lines'[j] = lines[j + 1] /\ j + 1 \in 1 .. Len(lines)
      /\ 1 \in 1 .. Len(lines)
  BY <1>1, TailOK
<1>3. /\ ~R!Keeps(recents, line) => line \notin card \/ IsListed(Game[line])
      /\ R!Keeps(recents, line) => line \in card /\ ~IsListed(Game[line])
  BY <1>1, KeepsOK
\* What the rest of the lines is worth once the first is gone.
<1>4. ASSUME NEW j \in 1 .. Len(lines'), After(lines, j + 1, played)
      PROVE  After(lines', j, played)
  <2>1. \A i \in 1 .. j - 1 : lines'[i] = lines[i + 1] /\ i + 1 \in 1 .. (j + 1) - 1
    BY <1>2
  <2>2. lines'[j] = lines[j + 1]
    BY <1>2
  <2>3. ASSUME NEW i \in 1 .. j - 1
        PROVE  /\ <<Game[lines'[i]], Game[lines'[j]]>> \in played
               /\ Game[lines'[i]] # Game[lines'[j]]
    <3>1. lines'[i] = lines[i + 1] /\ i + 1 \in 1 .. (j + 1) - 1
      BY <2>1
    <3>2. QED
      BY <1>4, <2>2, <3>1 DEF After
  <2>4. QED
    BY <2>3 DEF After
<1>5. \A j \in 1 .. Len(lines) : \A i \in 1 .. Len(lines') : i + 1 = j => lines[j] = lines'[i]
  BY <1>2
<1>6. \A j \in 1 .. Len(lines) : j = 1 \/ (j - 1 \in 1 .. Len(lines') /\ (j - 1) + 1 = j)
  BY <1>2
<1>7. CASE ~R!Keeps(recents, line)
  <2>1. recents' = recents
    BY <1>2, <1>7 DEF R!ReadLine
  <2>2. SortedOK(recents, played)'
    BY <1>1, <2>1
  <2>3. RoomOK'
    <3>1. Len(recents) + (Len(lines) - 1) <= MaxRecents
      <4>1. /\ Len(recents) \in Nat /\ Len(lines) \in Nat /\ MaxRecents \in Nat
            /\ \/ Len(recents) + Len(lines) <= MaxRecents
               \/ Len(lines) <= MaxRecents /\ Len(recents) = 1
        BY <1>1, <1>2 DEF RoomOK
      <4>2. \A a, b, m \in Nat : a + b <= m \/ (b <= m /\ a = 1) => a + (b - 1) <= m
        OBVIOUS
      <4>3. QED
        BY <4>1, <4>2
    <3>2. Len(recents') + Len(lines') <= MaxRecents
      BY <1>2, <2>1, <3>1
    <3>3. QED
      BY <3>2 DEF RoomOK
  <2>4. RestOK'
    <3>1. ASSUME NEW j \in 1 .. Len(lines')
          PROVE  /\ <<Game[lines'[j]], Game[lines'[j]]>> \in played
                 /\ \/ IsListed(Game[lines'[j]])
                    \/ /\ After(lines', j, played)
                       /\ \A i \in 1 .. Len(recents) :
                            <<Game[recents[i]], Game[lines'[j]]>> \in played
      <4>1. lines'[j] = lines[j + 1] /\ j + 1 \in 1 .. Len(lines)
        BY <1>2
      <4>2. Again(lines, j + 1) => IsListed(Game[lines[j + 1]])
        <5>1. Again(lines, j + 1) => line \in card /\ Game[lines[j + 1]] = Game[line]
          BY <1>1 DEF Again, M3uHere
        <5>2. QED
          BY <1>3, <1>7, <5>1
      <4>3. QED
        BY <1>1, <1>4, <4>1, <4>2 DEF RestOK
    <3>2. QED
      BY <1>1, <2>1, <3>1 DEF RestOK, IsListed, Again, After
  <2>5. ReadOK'
    <3>1. ASSUME NEW j \in 1 .. Len(file), file[j] \in card
          PROVE  IsListed(Game[file[j]]) \/ \E k \in 1 .. Len(lines') : lines'[k] = file[j]
      <4>1. CASE IsListed(Game[file[j]])
        BY <4>1
      <4>2. ASSUME NEW k \in 1 .. Len(lines), lines[k] = file[j]
            PROVE  IsListed(Game[file[j]]) \/ \E i \in 1 .. Len(lines') : lines'[i] = file[j]
        <5>1. CASE k = 1
          BY <1>3, <1>7, <3>1, <4>2, <5>1
        <5>2. CASE k # 1
          BY <1>5, <1>6, <4>2, <5>2
        <5>3. QED
          BY <5>1, <5>2
      <4>3. QED
        BY <1>1, <3>1, <4>1, <4>2 DEF ReadOK
    <3>2. \A k \in 1 .. Len(lines') : \E j \in 1 .. Len(file) : file[j] = lines'[k]
      BY <1>1, <1>2 DEF ReadOK
    <3>3. QED
      BY <1>1, <2>1, <3>1, <3>2 DEF ReadOK, IsListed
  <2>6. QED
    BY <2>2, <2>3, <2>4, <2>5
<1>8. CASE R!Keeps(recents, line)
  <2>1. recents' = Append(recents, line)
    BY <1>2, <1>8 DEF R!ReadLine
  <2>2. /\ recents' \in Seq(Paths) /\ Len(recents') = Len(recents) + 1
        /\ recents'[Len(recents) + 1] = line
        /\ \A i \in 1 .. Len(recents) : recents'[i] = recents[i]
        /\ \A i \in 1 .. Len(recents') : i \in 1 .. Len(recents) \/ i = Len(recents) + 1
    BY <1>1, <1>2, <2>1, AppendOK
  <2>3. /\ line \in card /\ ~IsListed(Game[line])
        /\ \A i \in 1 .. Len(recents) : Game[recents[i]] # Game[line]
    BY <1>3, <1>8 DEF IsListed
  <2>4. /\ <<Game[line], Game[line]>> \in played
        /\ \A i \in 1 .. Len(recents) : <<Game[recents[i]], Game[line]>> \in played
    BY <1>1, <1>2, <2>3 DEF RestOK, Again
  <2>5. \A g : IsListed(g) \/ g = Game[line] =>
               \E i \in 1 .. Len(recents') : Game[recents'[i]] = g
    <3>1. \A i \in 1 .. Len(recents) : i \in 1 .. Len(recents')
      BY <1>1, <2>2
    <3>2. Len(recents) + 1 \in 1 .. Len(recents')
      BY <1>1, <2>2
    <3>3. QED
      BY <2>2, <3>1, <3>2 DEF IsListed
  <2>6. SortedOK(recents, played)'
    <3>1. ASSUME NEW i \in 1 .. Len(recents'), NEW j \in 1 .. Len(recents'), i <= j
          PROVE  /\ <<Game[recents'[i]], Game[recents'[j]]>> \in played
                 /\ Game[recents'[i]] = Game[recents'[j]] => i = j
      <4>1. CASE j \in 1 .. Len(recents)
        <5>1. i \in 1 .. Len(recents)
          BY <1>1, <2>2, <3>1, <4>1
        <5>2. recents'[i] = recents[i] /\ recents'[j] = recents[j]
          BY <2>2, <4>1, <5>1
        <5>3. QED
          BY <1>1, <3>1, <4>1, <5>1, <5>2 DEF SortedOK
      <4>2. CASE i \in 1 .. Len(recents) /\ j = Len(recents) + 1
        BY <2>2, <2>3, <2>4, <4>2
      <4>3. CASE i = Len(recents) + 1 /\ j = Len(recents) + 1
        BY <2>2, <2>4, <4>3
      <4>4. QED
        BY <1>1, <2>2, <3>1, <4>1, <4>2, <4>3
    <3>2. QED
      BY <1>1, <3>1 DEF SortedOK
  <2>7. RoomOK'
    <3>1. ~(Len(recents) = 1 /\ Game[line] = Game[recents[1]])
      BY <2>3
    <3>2. Len(recents) + Len(lines) <= MaxRecents
      BY <1>1, <3>1 DEF RoomOK
    <3>3. QED
      BY <1>1, <1>2, <2>2, <3>2 DEF RoomOK
  <2>8. RestOK'
    <3>1. ASSUME NEW j \in 1 .. Len(lines')
          PROVE  /\ <<Game[lines'[j]], Game[lines'[j]]>> \in played
                 /\ \/ \E i \in 1 .. Len(recents') : Game[recents'[i]] = Game[lines'[j]]
                    \/ /\ After(lines', j, played)
                       /\ \A i \in 1 .. Len(recents') :
                            <<Game[recents'[i]], Game[lines'[j]]>> \in played
      <4>1. lines'[j] = lines[j + 1] /\ j + 1 \in 1 .. Len(lines)
        BY <1>2
      <4>2. Again(lines, j + 1) => Game[lines[j + 1]] = Game[line]
        BY DEF Again
      <4>3. After(lines, j + 1, played) => <<Game[line], Game[lines[j + 1]]>> \in played
        <5>1. 1 \in 1 .. (j + 1) - 1
          BY <1>2
        <5>2. QED
          BY <5>1 DEF After
      <4>4. <<Game[lines[j + 1]], Game[lines[j + 1]]>> \in played
        BY <1>1, <4>1 DEF RestOK
      <4>5. \/ IsListed(Game[lines[j + 1]])
            \/ Game[lines[j + 1]] = Game[line]
            \/ /\ After(lines, j + 1, played)
               /\ \A i \in 1 .. Len(recents) :
                    <<Game[recents[i]], Game[lines[j + 1]]>> \in played
        BY <1>1, <4>1, <4>2 DEF RestOK
      <4>6. (/\ After(lines, j + 1, played)
             /\ \A i \in 1 .. Len(recents) :
                  <<Game[recents[i]], Game[lines[j + 1]]>> \in played)
            => \A i \in 1 .. Len(recents') :
                 <<Game[recents'[i]], Game[lines[j + 1]]>> \in played
        BY <2>2, <4>3
      <4>7. (IsListed(Game[lines[j + 1]]) \/ Game[lines[j + 1]] = Game[line])
            => \E i \in 1 .. Len(recents') : Game[recents'[i]] = Game[lines'[j]]
        BY <2>5, <4>1
      <4>8. QED
        BY <1>4, <4>1, <4>4, <4>5, <4>6, <4>7
    <3>2. QED
      BY <1>1, <3>1 DEF RestOK, IsListed, Again, After
  <2>9. ReadOK'
    <3>1. ASSUME NEW j \in 1 .. Len(file), file[j] \in card
          PROVE  \/ \E i \in 1 .. Len(recents') : Game[recents'[i]] = Game[file[j]]
                 \/ \E k \in 1 .. Len(lines') : lines'[k] = file[j]
      <4>1. CASE IsListed(Game[file[j]])
        BY <2>5, <4>1
      <4>2. ASSUME NEW k \in 1 .. Len(lines), lines[k] = file[j]
            PROVE  \/ \E i \in 1 .. Len(recents') : Game[recents'[i]] = Game[file[j]]
                   \/ \E i \in 1 .. Len(lines') : lines'[i] = file[j]
        <5>1. CASE k = 1
          BY <2>5, <4>2, <5>1
        <5>2. CASE k # 1
          BY <1>5, <1>6, <4>2, <5>2
        <5>3. QED
          BY <5>1, <5>2
      <4>3. QED
        BY <1>1, <3>1, <4>1, <4>2 DEF ReadOK
    <3>2. \A k \in 1 .. Len(lines') : \E j \in 1 .. Len(file) : file[j] = lines'[k]
      BY <1>1, <1>2 DEF ReadOK
    <3>3. \A i \in 1 .. Len(recents') : \E j \in 1 .. Len(file) :
            file[j] \in card /\ Game[file[j]] = Game[recents'[i]]
      <4>1. \E j \in 1 .. Len(file) : file[j] = line
        BY <1>1, <1>2 DEF ReadOK
      <4>2. \A i \in 1 .. Len(recents) : \E j \in 1 .. Len(file) :
              file[j] \in card /\ Game[file[j]] = Game[recents[i]]
        BY <1>1 DEF ReadOK
      <4>3. \A i \in 1 .. Len(recents') :
              recents'[i] = line \/ \E k \in 1 .. Len(recents) : recents'[i] = recents[k]
        BY <2>2
      <4>4. QED
        BY <2>3, <4>1, <4>2, <4>3
    <3>4. QED
      BY <1>1, <3>1, <3>2, <3>3 DEF ReadOK, IsListed
  <2>10. QED
    BY <2>6, <2>7, <2>8, <2>9
<1>9. QED
  BY <1>7, <1>8

\* The list is what the file stands for, and so is the history.
LEMMA LoadedOK ==
  ASSUME RecentsInv, R!Loaded
  PROVE  /\ SortedOK(recents', played') /\ FileOK(file', played')
         /\ \A g \in R!PlayedGames' : IsListed(g)'
<1>1. /\ R!TypeOK /\ SortedOK(recents, played) /\ ReadOK
      /\ recents \in Seq(Paths) /\ file \in Seq(Paths) /\ Len(lines) = 0
      /\ recents' = recents /\ file' = recents /\ played' = R!Listed(played, file, card)
  BY DEF RecentsInv, ListInv, OrderInv, R!TypeOK, R!Loaded, R!Save
<1> DEFINE games == {Game[file[j]] : j \in {j \in 1 .. Len(file) : file[j] \in card}}
<1>2. played' = played \cap (games \X games)
  BY <1>1 DEF R!Listed
<1>3. \A i \in 1 .. Len(recents) : Game[recents[i]] \in games
  BY <1>1 DEF ReadOK
<1>4. ASSUME NEW g \in games
      PROVE  IsListed(g)
  <2>1. PICK j \in 1 .. Len(file) : file[j] \in card /\ Game[file[j]] = g
    OBVIOUS
  <2>2. ~ \E k \in 1 .. Len(lines) : lines[k] = file[j]
    BY <1>1
  <2>3. QED
    BY <1>1, <2>1, <2>2 DEF ReadOK
<1> HIDE DEF games
<1>5. SortedOK(recents', played')
  BY <1>1, <1>2, <1>3 DEF SortedOK
<1>6. FileOK(file', played')
  BY <1>1, <1>5, SortedFile
<1>7. ASSUME NEW g \in R!PlayedGames' PROVE IsListed(g)'
  <2>1. <<g, g>> \in played'
    BY DEF R!PlayedGames
  <2>2. IsListed(g)
    BY <1>2, <1>4, <2>1
  <2>3. QED
    BY <1>1, <2>2 DEF IsListed
<1>8. QED
  BY <1>5, <1>6, <1>7

\* Every step keeps the list in the order of play.
LEMMA NextRecentsInv ==
  ASSUME M3uStays
  PROVE  RecentsInv /\ [R!Next]_R!vars => RecentsInv'
<1> SUFFICES ASSUME RecentsInv, [R!Next]_R!vars
             PROVE  OrderInv' /\ R!NothingForgotten'
  BY NextListInv DEF RecentsInv
<1>0. /\ ListInv /\ OrderInv /\ R!NothingForgotten /\ R!TypeOK /\ DiscOK
      /\ M3uHere /\ TopOK /\ FileOK(file, played) /\ FileOK(synced.file, synced.played)
      /\ file \in Seq(Paths)
  BY DEF RecentsInv, ListInv, OrderInv, R!TypeOK
\* Once the list is left there is only the file to keep.
<1>1. ASSUME phase' \notin {"load", "menu", "exit"}, M3uHere', TopOK',
             FileOK(file', played'), FileOK(synced'.file, synced'.played)
      PROVE  OrderInv' /\ R!NothingForgotten'
  BY <1>1 DEF OrderInv, R!NothingForgotten
<1>2. CASE R!PowerOn
  BY <1>0, <1>1, <1>2 DEF R!PowerOn, M3uHere, TopOK, IsTop
<1>3. CASE R!Load
  <2>1. SortedOK(recents, played)' /\ RoomOK' /\ RestOK' /\ ReadOK'
    BY <1>3, LoadOK
  <2>2. QED
    BY <1>0, <1>3, <2>1 DEF R!Load, OrderInv, R!NothingForgotten, M3uHere, TopOK
<1>4. CASE R!ReadLine
  <2>1. SortedOK(recents, played)' /\ RoomOK' /\ RestOK' /\ ReadOK'
    BY <1>4, ReadLineOrderOK
  <2>2. change_disc' = None
    BY <1>0, <1>4 DEF R!ReadLine, DiscOK
  <2>3. QED
    BY <1>0, <1>4, <2>1, <2>2 DEF R!ReadLine, OrderInv, R!NothingForgotten, M3uHere, TopOK
<1>5. CASE R!Loaded
  <2>1. /\ SortedOK(recents', played') /\ FileOK(file', played')
        /\ \A g \in R!PlayedGames' : IsListed(g)'
    BY <1>5, LoadedOK
  <2>2. change_disc' = None
    BY <1>0, <1>5 DEF R!Loaded, DiscOK
  <2>3. OrderInv'
    BY <1>0, <1>5, <2>1, <2>2 DEF R!Loaded, OrderInv, M3uHere, TopOK
  <2>4. R!NothingForgotten'
    BY <2>1 DEF R!NothingForgotten, IsListed
  <2>5. QED
    BY <2>3, <2>4
<1>6. ASSUME NEW path \in Paths, R!Play(path) PROVE OrderInv' /\ R!NothingForgotten'
  <2>1. R!NothingForgotten'
    BY <1>6, DroppedOK
  <2>2. /\ phase = "menu" /\ phase' = "exit" /\ path \in card /\ running' = path
        /\ file' = R!Added(R!RecentPath(path)) /\ played' = R!ToFront(Game[path])
        /\ UNCHANGED <<lines, synced, card, change_disc>> /\ change_disc = None
    BY <1>0, <1>6 DEF R!Play, R!Save, DiscOK
  <2>3. FileOK(file', played')
    BY <2>2, PlayedOK
  <2>4. IsTop(running)'
    <3>1. R!RecentPath(path) \in card /\ R!RecentPath(path) \in Paths
          /\ Game[R!RecentPath(path)] = Game[path]
      BY <2>2, RecentPathOK DEF R!RecentPath, R!HasM3u
    <3>2. PICK from, n \in Nat : AddedFrom(R!RecentPath(path), from, n)
      BY <1>0, <3>1, AddedSomewhere
    <3>3. Len(file') > 0 /\ file'[1] = R!RecentPath(path)
      BY <1>0, <2>2, <3>1, <3>2, AddedOK
    <3>4. QED
      BY <2>2, <3>1, <3>3 DEF IsTop
  <2>5. QED
    BY <1>0, <2>1, <2>2, <2>3, <2>4 DEF OrderInv, M3uHere, TopOK
<1>7. CASE R!Run
  BY <1>0, <1>1, <1>7 DEF R!Run, M3uHere, TopOK, IsTop
<1>8. ASSUME NEW path \in Paths, R!ChangeDisc(path) PROVE OrderInv' /\ R!NothingForgotten'
  <2>1. TopOK'
    BY <1>0, <1>8 DEF R!ChangeDisc, TopOK, IsTop
  <2>2. QED
    BY <1>0, <1>1, <1>8, <2>1 DEF R!ChangeDisc, M3uHere
<1>9. CASE R!EndGame
  BY <1>0, <1>1, <1>9 DEF R!EndGame, M3uHere, TopOK, IsTop
<1>10. CASE R!PowerOff
  BY <1>0, <1>1, <1>10 DEF R!PowerOff, M3uHere, TopOK
<1>11. CASE R!EditCard
  <2>1. M3uHere'
    BY <1>0, <1>11 DEF R!EditCard, M3uHere, M3uStays
  <2>2. QED
    BY <1>0, <1>1, <1>11, <2>1 DEF R!EditCard, TopOK, DiscOK
<1>12. CASE R!PowerCut
  <2>1. PICK now : /\ now = synced \/ \E n \in 0 .. Len(file) :
                        now = [file |-> SubSeq(file, 1, n), played |-> played]
                   /\ file' = now.file /\ played' = R!Listed(now.played, now.file, Paths)
    BY <1>12 DEF R!PowerCut
  <2>2. now.file \in Seq(Paths) /\ FileOK(now.file, now.played)
    <3>1. CASE now = synced
      BY <1>0, <3>1 DEF R!TypeOK
    <3>2. ASSUME NEW n \in 0 .. Len(file),
                 now = [file |-> SubSeq(file, 1, n), played |-> played]
          PROVE  now.file \in Seq(Paths) /\ FileOK(now.file, now.played)
      <4>1. now.file = SubSeq(file, 1, n) /\ now.played = played
        BY <3>2
      <4>2. SubSeq(file, 1, n) \in Seq(Paths)
        BY <1>0
      <4>3. FileOK(SubSeq(file, 1, n), played)
        BY <1>0, PrefixOK
      <4>4. QED
        BY <4>1, <4>2, <4>3
    <3>3. QED
      BY <2>1, <3>1, <3>2
  <2>3. FileOK(file', played')
    BY <2>1, <2>2, ListedOK
  <2>4. /\ synced'.file = file' /\ synced'.played = played'
        /\ phase' = "down" /\ change_disc' = None /\ UNCHANGED card
    BY <1>12 DEF R!PowerCut
  <2>5. QED
    BY <1>0, <1>1, <2>3, <2>4 DEF M3uHere, TopOK
<1>13. CASE UNCHANGED R!vars
  BY <1>0, <1>13 DEF R!vars, OrderInv, R!NothingForgotten, R!TwoPlaces, M3uHere, TopOK, IsTop, RoomOK, RestOK,
                     ReadOK, IsListed, R!PlayedGames, R!HasM3u
<1>14. QED
  BY <1>2, <1>3, <1>4, <1>5, <1>6, <1>7, <1>8, <1>9, <1>10, <1>11, <1>12, <1>13 DEF R!Next

\* The games are listed in the order they were last played, as long as the .m3u of a game
\* stays on the card.
THEOREM RecentsNewestAtTop ==
  ASSUME M3uStays
  PROVE  R!Spec => []NewestAtTop
<1>1. RecentsInv => NewestAtTop
  BY DEF RecentsInv, OrderInv, SortedOK, NewestAtTop, R!NewestAtTop
<1>2. RecentsInv /\ [R!Next]_R!vars => RecentsInv'
  BY NextRecentsInv
<1>3. QED
  BY <1>1, <1>2, InitRecentsInv, PTL DEF R!Spec

\* A game that was played leaves the list only for as many other games, played after it, as the
\* list has room for (one fewer when the game just started takes two places), or because its
\* files are gone.
THEOREM RecentsNothingForgotten ==
  ASSUME M3uStays
  PROVE  R!Spec => []NothingForgotten
<1>1. RecentsInv => NothingForgotten
  BY DEF RecentsInv, NothingForgotten
<1>2. RecentsInv /\ [R!Next]_R!vars => RecentsInv'
  BY NextRecentsInv
<1>3. QED
  BY <1>1, <1>2, InitRecentsInv, PTL DEF R!Spec
=============================================================================
