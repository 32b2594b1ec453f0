------------------------------- MODULE Clock -------------------------------
(***************************************************************************)
(* The clock tool: a date is edited one field at a time, each field by     *)
(* itself, and a pass that redraws puts it right again with the length of  *)
(* February it worked out at its beginning.  A applies, B cancels.         *)
(***************************************************************************)
EXTENDS Naturals

CONSTANTS MIN_YEAR, MAX_YEAR,
          DEFAULT_YEAR,             \* what MIN_YEAR, the year of an unset clock, is shown as
          MAX_HOUR, MAX_MINUTE, MAX_SECOND

VARIABLES year, month, date, hour, minute, second,   \* *_selected
          february_days,
          cursor,
          dirty,      \* the next pass redraws in any case
          applied     \* what was given to date -s: << >> before that and after B

fields == <<year, month, date, hour, minute, second>>
vars == <<year, month, date, hour, minute, second, february_days, cursor, dirty, applied>>

Cursors == 0..5   \* CURSOR_YEAR .. CURSOR_SECOND

Leap(y) == (y % 4 = 0 /\ y % 100 # 0) \/ y % 400 = 0

\* The year that wraps and the year that replaces it have the same February.
ASSUME YearsAssumption ==
  /\ MIN_YEAR \in Nat /\ MAX_YEAR \in Nat /\ DEFAULT_YEAR \in MIN_YEAR + 1..MAX_YEAR
  /\ ~Leap(MAX_YEAR + 1) /\ ~Leap(MIN_YEAR) /\ ~Leap(DEFAULT_YEAR)
ASSUME TimesAssumption == MAX_HOUR \in Nat /\ MAX_MINUTE \in Nat /\ MAX_SECOND \in Nat

\* The calendar.
DaysIn(m, y) == CASE m = 2 -> IF Leap(y) THEN 29 ELSE 28
                  [] m \in {4, 6, 9, 11} -> 30
                  [] OTHER -> 31

IsTime(t) == /\ t[1] \in MIN_YEAR..MAX_YEAR
             /\ t[2] \in 1..12
             /\ t[3] \in 1..DaysIn(t[2], t[1])
             /\ t[4] \in 0..MAX_HOUR
             /\ t[5] \in 0..MAX_MINUTE
             /\ t[6] \in 0..MAX_SECOND

-----------------------------------------------------------------------------
(* The helpers.                                                            *)

LengthOf(m, feb) == CASE m = 2 -> feb [] m \in {4, 6, 9, 11} -> 30 [] OTHER -> 31

Down(value, first, last) == IF value = first THEN last ELSE value - 1

Fallback(y) == IF y = MIN_YEAR THEN DEFAULT_YEAR ELSE y

\* Mutant of Normalised: February is put right for the year of the last pass.
NormalisedStale(y, m, d, h, mi, s) ==
  LET month1 == IF m > 12 THEN 1 ELSE m
  IN  /\ february_days' = IF Leap(y) THEN 29 ELSE 28
      /\ year' = Fallback(IF y > MAX_YEAR \/ y < MIN_YEAR THEN MIN_YEAR ELSE y)
      /\ month' = month1
      /\ date' = IF d > LengthOf(month1, february_days) THEN 1 ELSE d
      /\ hour' = IF h > MAX_HOUR THEN 0 ELSE h
      /\ minute' = IF mi > MAX_MINUTE THEN 0 ELSE mi
      /\ second' = IF s > MAX_SECOND THEN 0 ELSE s

\* Check_leap_year, Dont_go_over_days, Dont_go_over_hour, FallbackToDefaultTime, in this order.
Normalised(y, m, d, h, mi, s) ==
  LET month1 == IF m > 12 THEN 1 ELSE m
      feb1 == IF Leap(y) THEN 29 ELSE 28
  IN  /\ february_days' = feb1
      /\ year' = Fallback(IF y > MAX_YEAR \/ y < MIN_YEAR THEN MIN_YEAR ELSE y)
      /\ month' = month1
      /\ date' = IF d > LengthOf(month1, feb1) THEN 1 ELSE d
      /\ hour' = IF h > MAX_HOUR THEN 0 ELSE h
      /\ minute' = IF mi > MAX_MINUTE THEN 0 ELSE mi
      /\ second' = IF s > MAX_SECOND THEN 0 ELSE s

-----------------------------------------------------------------------------
(* One pass of the loop: a key, then redrawing.                            *)

TypeOK ==
  /\ IsTime(fields)
  /\ february_days \in {28, 29}
  /\ cursor \in Cursors
  /\ dirty \in BOOLEAN
  /\ applied = << >> \/ IsTime(applied)

\* The time of the device, with the fallback; february_days is not worked out yet.
Init ==
  /\ year \in MIN_YEAR + 1..MAX_YEAR
  /\ month \in 1..12
  /\ date \in 1..DaysIn(month, year)
  /\ hour \in 0..MAX_HOUR
  /\ minute \in 0..MAX_MINUTE
  /\ second \in 0..MAX_SECOND
  /\ february_days = 28
  /\ cursor = 0
  /\ dirty = TRUE
  /\ applied = << >>

Quit == applied # << >>

PressUp ==
  /\ LET up(c, v) == IF cursor = c THEN v + 1 ELSE v
     IN  Normalised(up(0, year), up(1, month), up(2, date),
                    up(3, hour), up(4, minute), up(5, second))
  /\ dirty' = FALSE
  /\ UNCHANGED <<cursor, applied>>

\* The year goes down to 0 for all DecreaseTimeElement knows; the redraw stops it at MIN_YEAR.
PressDown ==
  /\ LET down(c, v, first, last) == IF cursor = c THEN Down(v, first, last) ELSE v
     IN  Normalised(down(0, year, 0, MAX_YEAR),
                    down(1, month, 1, 12),
                    down(2, date, 1, LengthOf(month, february_days)),
                    down(3, hour, 0, MAX_HOUR),
                    down(4, minute, 0, MAX_MINUTE),
                    down(5, second, 0, MAX_SECOND))
  /\ dirty' = FALSE
  /\ UNCHANGED <<cursor, applied>>

PressLeftRight ==
  /\ cursor' \in {(cursor + 5) % 6, (cursor + 1) % 6}
  /\ Normalised(year, month, date, hour, minute, second)
  /\ dirty' = FALSE
  /\ UNCHANGED applied

\* A pass without an editing key redraws when something else asks for it: the battery, a sleep,
\* the volume bar.
Redraw ==
  /\ Normalised(year, month, date, hour, minute, second)
  /\ dirty' = FALSE
  /\ UNCHANGED <<cursor, applied>>

\* The pass of A redraws only if it is dirty, and the loop ends with it.
PressA ==
  /\ \/ Normalised(year, month, date, hour, minute, second)
     \/ ~dirty /\ UNCHANGED <<year, month, date, hour, minute, second, february_days>>
  /\ applied' = <<year', month', date', hour', minute', second'>>
  /\ dirty' = FALSE
  /\ UNCHANGED cursor

Next == ~Quit /\ (PressUp \/ PressDown \/ PressLeftRight \/ Redraw \/ PressA)

Spec == Init /\ [][Next]_vars

-----------------------------------------------------------------------------

\* Whatever was pressed in whatever order, the time given to date -s exists
\* (clock.c:375, the command A builds).
AppliesADate == applied = << >> \/ IsTime(applied)

=============================================================================
