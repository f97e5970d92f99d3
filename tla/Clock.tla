-------------------------------- MODULE Clock --------------------------------
(***************************************************************************)
(* read_rtc and get_timestamp of cmos.c, beside the clock they read        *)
(* register by register.                                                   *)
(*                                                                         *)
(* The clock is hardware: it raises a flag before it counts a second, early*)
(* enough for a reader that found the flag down to finish.                 *)
(***************************************************************************)
EXTENDS Integers, Sequences, FiniteSets

CONSTANTS Starts,    \* <<moment, format>> the clock may be set to
          Window,    \* accesses between the flag and the second
          MaxTicks   \* bound: seconds that pass

ASSUME ClockAssumption == Window \in Nat /\ Window >= 6 /\ MaxTicks \in Nat

\* a moment is <<year, month, day, hour, minute, second>>; the registers are read
\* in the opposite order
Fields == 1 .. 6
CURRENT_YEAR == 2023

\* bits 2 and 1 of register B: binary and not BCD, 24 hours and not 12
Format == [binary : BOOLEAN, hours24 : BOOLEAN]

Leap(y) == y % 4 = 0 /\ (y % 100 # 0 \/ y % 400 = 0)
DaysOf(y, m) == IF m = 2 THEN (IF Leap(y) THEN 29 ELSE 28)
                ELSE IF m \in {4, 6, 9, 11} THEN 30 ELSE 31

\* the second after a moment: the first field from the right that is not at its
\* last value goes up, the ones after it start again
LastOf(t)  == <<9999, 12, DaysOf(t[1], t[2]), 23, 59, 59>>
FirstOf    == <<1970, 1, 1, 0, 0, 0>>
Second(t) ==
    LET up == CHOOSE k \in Fields : t[k] # LastOf(t)[k]
                                    /\ \A j \in Fields : j > k => t[j] = LastOf(t)[j]
    IN  [k \in Fields |-> IF k < up THEN t[k] ELSE IF k = up THEN t[k] + 1 ELSE FirstOf[k]]

VARIABLES now,      \* what the clock shows
          format,   \* and how
          flag,     \* update in progress
          left,     \* accesses before the next second may come
          ticks,
          pc,       \* 0: asks for the flag, 1 to 6: reads a field, 7: has them
          got,      \* the fields as read
          asked     \* what the clock showed at the last look at the flag
vars == <<now, format, flag, left, ticks, pc, got, asked>>

-----------------------------------------------------------------------------
(* The clock.                                                               *)

BCD(n) == 16 * (n \div 10) + (n % 10)
Shown(n, f) == IF f.binary THEN n ELSE BCD(n)

\* twelve hours: 12, 1 .. 11 twice, the second time with bit 7
Hour(h, f) ==
    IF f.hours24 THEN Shown(h, f)
    ELSE Shown(IF h % 12 = 0 THEN 12 ELSE h % 12, f) + (IF h >= 12 THEN 128 ELSE 0)

Register(k) == IF k = 1 THEN Shown(now[1] % 100, format)
               ELSE IF k = 4 THEN Hour(now[4], format) ELSE Shown(now[k], format)

Announce ==
    /\ ~flag /\ ticks < MaxTicks
    /\ flag' = TRUE /\ left' = Window
    /\ UNCHANGED <<now, format, ticks, pc, got, asked>>

Tick ==
    /\ flag /\ left = 0
    /\ now' = Second(now) /\ ticks' = ticks + 1 /\ flag' = FALSE
    /\ UNCHANGED <<format, left, pc, got, asked>>

-----------------------------------------------------------------------------
(* read_rtc, with interrupts off: one access to the clock at a time.        *)

Access == /\ left' = IF left = 0 THEN 0 ELSE left - 1
          /\ UNCHANGED <<now, format, flag, ticks>>

\* mutant: the registers are read whatever the flag says
GoAnyway == TRUE

\* mutant: the loop waits for an update, not for its end
GoOnFlag == flag

\* get_update_in_progress_flag was 0
Go == ~flag

ReadFlag ==
    /\ pc = 0 /\ pc' = IF Go THEN 1 ELSE 0
    /\ asked' = now
    /\ UNCHANGED got
    /\ Access

\* seconds first
ReadRegister ==
    /\ pc \in Fields /\ pc' = pc + 1
    /\ got' = [got EXCEPT ![7 - pc] = Register(7 - pc)]
    /\ UNCHANGED asked
    /\ Access

\* the caller has used what it read and asks again
Again ==
    /\ pc = 7 /\ pc' = 0
    /\ UNCHANGED <<now, format, flag, left, ticks, got, asked>>

Init ==
    /\ \E s \in Starts : now = s[1] /\ format = s[2]
    /\ flag = FALSE /\ left = 0 /\ ticks = 0
    /\ pc = 0 /\ got = FirstOf /\ asked = now

Next == Announce \/ Tick \/ ReadFlag \/ ReadRegister \/ Again

\* Interrupts are off and nothing else runs, so the reader's next access comes, and
\* the clock counts the second that it has announced; it need not announce one, and
\* MaxTicks bounds how many looks at the flag can fall into an update.
Spec == Init /\ [][Next]_vars /\ WF_vars(ReadFlag \/ ReadRegister) /\ WF_vars(Tick)

-----------------------------------------------------------------------------
(* What read_rtc makes of the registers, and get_timestamp of the result.   *)

\* the low seven bits of an hour; all of the other fields
Low(k, n) == IF k = 4 THEN n % 128 ELSE n
Plain(k, n) == IF format.binary THEN Low(k, n) ELSE (Low(k, n) % 16) + (Low(k, n) \div 16) * 10

HourRead(n) ==
    IF ~format.hours24 /\ n >= 128 THEN (Plain(4, n) + 12) % 24 ELSE Plain(4, n)

YearRead(n) == LET y == 2000 + Plain(1, n) IN IF y < CURRENT_YEAR THEN y + 100 ELSE y

Read == [k \in Fields |-> IF k = 1 THEN YearRead(got[1])
                          ELSE IF k = 4 THEN HourRead(got[4]) ELSE Plain(k, got[k])]

DaysTill == <<0, 31, 59, 90, 120, 151, 181, 212, 243, 273, 304, 334>>

\* mutant: a leap day counts from January
LeapYearsEarly(t) == (t[1] - 1969 + 1) \div 4

LeapYears(t) == (t[1] - 1969 + (IF t[2] > 2 THEN 1 ELSE 0)) \div 4

Days(t) == (t[1] - 1970) * 365 + LeapYears(t) + DaysTill[t[2]] + t[3] - 1

-----------------------------------------------------------------------------

\* The values read are all of one moment, that of the last look at the flag, in
\* whatever format the clock has them ("assume value from cmos is consistent",
\* cmos.c): no second passes between two registers.  Of a clock of twelve hours,
\* true but for the hours that start at noon and at midnight ("Convert 12 hour
\* clock to 24 hour clock", cmos.c).
ReadsOneMoment == pc = 7 => Read = asked

\* A read of the clock that has begun ends: the loop over the flag, in which the
\* whole machine waits with interrupts off, is left.
ReadEnds == pc \in 0 .. 6 ~> pc = 7

\* The days of the timestamp are the days since the first of January 1970
\* ("calculate days since epochs", cmos.c).  True until the 28th of February 2100.
DaysSinceEpoch ==
    pc = 7 => Days(Read) =
        Cardinality({t \in (1970 .. Read[1]) \X (1 .. 12) \X (1 .. 31) :
                        /\ t[3] <= DaysOf(t[1], t[2])
                        /\ \/ t[1] < Read[1]
                           \/ t[1] = Read[1] /\ t[2] < Read[2]
                           \/ t[1] = Read[1] /\ t[2] = Read[2] /\ t[3] < Read[3]})
=============================================================================
