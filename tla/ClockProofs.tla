----------------------------- MODULE ClockProofs -----------------------------
(* Theorems about Clock, for any moments it is set to and any Window that is *)
(* wide enough for the six registers.                                        *)
EXTENDS Clock, FiniteSetTheorems, WellFoundedInduction, TLAPS

Fits(t) ==
    /\ t \in [Fields -> Int]
    /\ t[2] \in 1 .. 12 /\ t[3] \in 1 .. DaysOf(t[1], t[2])
    /\ t[4] \in 0 .. 23 /\ t[5] \in 0 .. 59 /\ t[6] \in 0 .. 59

\* the years that read_rtc can tell apart: it has two digits and CURRENT_YEAR
LastYear == CURRENT_YEAR + 99

\* what register k shows of moment t
Shows(t, k) == IF k = 1 THEN Shown(t[1] % 100, format)
               ELSE IF k = 4 THEN Hour(t[4], format) ELSE Shown(t[k], format)

ClockType ==
    /\ Fits(now) /\ CURRENT_YEAR <= now[1] /\ now[1] + MaxTicks <= LastYear + ticks
    /\ Fits(asked) /\ asked[1] \in CURRENT_YEAR .. LastYear
    /\ format \in Format /\ flag \in BOOLEAN
    /\ left \in Nat /\ ticks \in 0 .. MaxTicks /\ (flag => ticks < MaxTicks)
    /\ pc \in 0 .. 7 /\ got \in [Fields -> Int]

\* The flag was down at the last look, so an update that was announced since has
\* accesses left for every register that is still to be read, and the second
\* that the reader began in lasts.
Lasts == pc \in Fields => now = asked /\ (flag => left >= 7 - pc)

\* the registers read so far are those of that moment
Reads == \A k \in Fields : k > 7 - pc => got[k] = Shows(asked, k)

ClockInv == ClockType /\ Lasts /\ Reads

\* A second later is a moment of the calendar, in the same year or the next.
LEMMA SecondFits ==
    ASSUME NEW t, Fits(t), t[1] < 9999
    PROVE  /\ Fits(Second(t))
           /\ Second(t)[1] \in {t[1], t[1] + 1}
  <1> DEFINE P(k) == t[k] # LastOf(t)[k] /\ \A j \in Fields : j > k => t[j] = LastOf(t)[j]
             up   == CHOOSE k \in Fields : P(k)
  <1>0. \A y, m \in Int : DaysOf(y, m) \in 28 .. 31
    BY DEF DaysOf
  <1>1. \E k \in Fields : P(k)
    BY DEF Fields, LastOf, Fits
  <1>2. up \in Fields /\ P(up)
    BY <1>1
  <1>3. Second(t) = [k \in Fields |-> IF k < up THEN t[k] ELSE IF k = up THEN t[k] + 1 ELSE FirstOf[k]]
    BY DEF Second
  <1> HIDE DEF up
  <1>4. Second(t) \in [Fields -> Int]
    BY <1>2, <1>3 DEF Fits, Fields, FirstOf
  <1>5. /\ LastOf(t)[2] = 12 /\ LastOf(t)[3] = DaysOf(t[1], t[2]) /\ LastOf(t)[4] = 23
        /\ LastOf(t)[5] = 59 /\ LastOf(t)[6] = 59
        /\ FirstOf[2] = 1 /\ FirstOf[3] = 1 /\ FirstOf[4] = 0 /\ FirstOf[5] = 0 /\ FirstOf[6] = 0
    BY DEF LastOf, FirstOf
  <1>6. /\ t[1] \in Int /\ t[2] \in 1 .. 12 /\ t[3] \in 1 .. DaysOf(t[1], t[2])
        /\ t[4] \in 0 .. 23 /\ t[5] \in 0 .. 59 /\ t[6] \in 0 .. 59
    BY DEF Fits, Fields
  <1>7. up = 1 \/ up = 2 \/ up \in {3, 4, 5, 6}
    BY <1>2 DEF Fields
  <1> DEFINE s == Second(t)
  <1>8. \A k \in Fields : s[k] = IF k < up THEN t[k] ELSE IF k = up THEN t[k] + 1 ELSE FirstOf[k]
    BY <1>3
  <1>9. 1 \in Fields /\ 2 \in Fields /\ 3 \in Fields /\ 4 \in Fields /\ 5 \in Fields /\ 6 \in Fields
    BY DEF Fields
  <1> HIDE DEF s
  <1>10. CASE up = 1
    BY <1>0, <1>4, <1>5, <1>6, <1>8, <1>9, <1>10 DEF s, Fits
  <1>11. CASE up = 2
    BY <1>0, <1>2, <1>4, <1>5, <1>6, <1>8, <1>9, <1>11 DEF s, Fits
  <1>12. CASE up \in {3, 4, 5, 6}
    <2>1. s[1] = t[1] /\ s[2] = t[2] /\ t[up] # LastOf(t)[up]
      BY <1>2, <1>8, <1>9, <1>12
    <2>2. s[3] \in 1 .. DaysOf(t[1], t[2])
      BY <1>0, <1>5, <1>6, <1>8, <1>9, <1>12, <2>1
    <2>3. s[4] \in 0 .. 23
      BY <1>5, <1>6, <1>8, <1>9, <1>12, <2>1
    <2>4. s[5] \in 0 .. 59 /\ s[6] \in 0 .. 59
      BY <1>5, <1>6, <1>8, <1>9, <1>12, <2>1
    <2> QED  BY <1>4, <1>6, <2>1, <2>2, <2>3, <2>4 DEF s, Fits
  <1> QED  BY <1>7, <1>10, <1>11, <1>12

\* A number of two digits survives its being shown.
LEMMA ShownBack ==
    ASSUME NEW n \in 0 .. 99
    PROVE  (BCD(n) % 16) + (BCD(n) \div 16) * 10 = n
  BY DEF BCD

\* What read_rtc makes of the registers of one moment is that moment, ...
LEMMA DateBack ==
    ASSUME NEW t, Fits(t), t[1] \in CURRENT_YEAR .. LastYear, format \in Format,
           got \in [Fields -> Int], \A k \in Fields : got[k] = Shows(t, k)
    PROVE  \A k \in Fields : k # 4 => Read[k] = t[k]
  <1>1. ASSUME NEW n \in 0 .. 99, NEW k, k # 4 PROVE Plain(k, Shown(n, format)) = n
    <2>1. \A m : Low(k, m) = m
      BY <1>1 DEF Low
    <2>2. CASE format.binary
      BY <2>1, <2>2 DEF Plain, Shown
    <2>3. CASE ~format.binary
      BY ShownBack, <2>1, <2>3 DEF Plain, Shown
    <2> QED  BY <2>2, <2>3
  <1>2. YearRead(got[1]) = t[1]
    <2>1. t[1] \in 2023 .. 2122 /\ got[1] = Shown(t[1] % 100, format)
      BY DEF Fields, Shows, CURRENT_YEAR, LastYear
    <2>2. Plain(1, got[1]) = t[1] % 100
      BY <1>1, <2>1
    <2> QED  BY <2>1, <2>2 DEF YearRead, CURRENT_YEAR
  <1>3. ASSUME NEW k \in Fields, k # 1, k # 4 PROVE Plain(k, got[k]) = t[k]
    <2>1. t[k] \in 0 .. 99
      BY <1>3 DEF Fits, Fields, DaysOf
    <2>2. got[k] = Shown(t[k], format)
      BY <1>3 DEF Shows
    <2> QED  BY <1>1, <1>3, <2>1, <2>2
  <1> QED  BY <1>2, <1>3 DEF Read

\* ... but for two of the hours on a clock of twelve.
LEMMA ReadBack ==
    ASSUME NEW t, Fits(t), t[1] \in CURRENT_YEAR .. LastYear, format \in Format,
           got \in [Fields -> Int], \A k \in Fields : got[k] = Shows(t, k),
           format.hours24 \/ t[4] % 12 # 0
    PROVE  Read = t
  <1>1. HourRead(got[4]) = t[4]
    <2>1. t[4] \in 0 .. 23 /\ got[4] = Hour(t[4], format)
      BY DEF Fits, Fields, Shows
    <2>2. ASSUME NEW n \in 0 .. 23, NEW b \in {0, 128}
          PROVE  /\ Plain(4, Shown(n, format) + b) = n
                 /\ Shown(n, format) + b >= 128 <=> b = 128
      <3>1. Shown(n, format) \in 0 .. 35
        BY DEF Shown, BCD
      <3>2. (Shown(n, format) + b) % 128 = Shown(n, format)
        BY <3>1
      <3>3. Low(4, Shown(n, format) + b) = Shown(n, format)
        BY <3>2 DEF Low
      <3>4. Plain(4, Shown(n, format) + b) = n
        BY ShownBack, <3>3 DEF Plain, Shown
      <3> QED  BY <3>1, <3>4
    <2>3. CASE format.hours24
      <3>1. got[4] = Shown(t[4], format) + 0
        BY <2>1, <2>3 DEF Hour, Shown, BCD
      <3> QED  BY <2>1, <2>2, <2>3, <3>1 DEF HourRead
    <2>4. CASE ~format.hours24
      <3> DEFINE h == t[4] % 12
                 b == IF t[4] >= 12 THEN 128 ELSE 0
      <3>1. h \in 1 .. 11 /\ b \in {0, 128} /\ h = IF t[4] >= 12 THEN t[4] - 12 ELSE t[4]
        BY <2>1, <2>4
      <3>2. got[4] = Shown(h, format) + b
        BY <2>1, <2>4, <3>1 DEF Hour
      <3> HIDE DEF h
      <3>3. Plain(4, got[4]) = h /\ (got[4] >= 128 <=> t[4] >= 12)
        BY <2>2, <3>1, <3>2
      <3>4. HourRead(got[4]) = IF t[4] >= 12 THEN (h + 12) % 24 ELSE h
        BY <2>4, <3>3 DEF HourRead
      <3> QED  BY <2>1, <3>1, <3>4
    <2> QED  BY <2>3, <2>4
  <1>2. \A k \in Fields : Read[k] = t[k]
    <2>1. \A k \in Fields : k # 4 => Read[k] = t[k]
      BY DateBack
    <2>2. Read[4] = t[4]
      BY <1>1 DEF Read, Fields
    <2> QED  BY <2>1, <2>2
  <1> QED  BY <1>2 DEF Read, Fits

\* A register shows its part of the moment it is.
LEMMA RegisterShows == \A k : Register(k) = Shows(now, k)
  BY DEF Register, Shows

\* What the clock may be set to: a moment that exists, in this century as read_rtc
\* counts it, now and MaxTicks seconds on.
StartsFit ==
    \A s \in Starts : /\ Fits(s[1]) /\ s[1][1] \in CURRENT_YEAR .. LastYear - MaxTicks
                      /\ s[2] \in Format

\* Every access and every tick keeps the invariant.
LEMMA ClockInductive ==
    ASSUME ClockInv, [Next]_vars
    PROVE  ClockInv'
  <1> USE ClockAssumption DEF ClockInv
  <1>1. CASE Announce
    <2>1. ClockType'
      BY <1>1 DEF Announce, ClockType, Fits
    <2>2. Lasts'
      BY <1>1 DEF Announce, Lasts, Fields, ClockType
    <2>3. Reads'
      BY <1>1 DEF Announce, Reads, Shows, Shown, Hour
    <2> QED  BY <2>1, <2>2, <2>3
  <1>2. CASE Tick
    <2>1. now[1] < 9999 /\ now[1] \in Int
      BY <1>2 DEF Tick, ClockType, Fits, Fields, LastYear, CURRENT_YEAR
    <2>2. Fits(now') /\ now'[1] \in {now[1], now[1] + 1}
      BY <1>2, <2>1, SecondFits DEF Tick, ClockType
    <2>3. pc \notin Fields
      BY <1>2 DEF Tick, Lasts, Fields, ClockType
    <2>4. ClockType'
      <3>1. /\ CURRENT_YEAR <= now'[1] /\ now'[1] + MaxTicks <= LastYear + ticks'
            /\ ticks' \in 0 .. MaxTicks
        BY <1>2, <2>1, <2>2 DEF Tick, ClockType, LastYear, CURRENT_YEAR
      <3>2. Fits(asked)'
        BY <1>2 DEF Tick, ClockType, Fits
      <3>3. Fits(now)'
        BY <2>2 DEF Fits
      <3> QED  BY <1>2, <3>1, <3>2, <3>3 DEF Tick, ClockType
    <2>5. Lasts'
      BY <1>2, <2>3 DEF Tick, Lasts
    <2>6. Reads'
      BY <1>2 DEF Tick, Reads, Shows, Shown, Hour
    <2> QED  BY <2>4, <2>5, <2>6
  <1>3. CASE ReadFlag
    <2>1. now[1] \in CURRENT_YEAR .. LastYear
      BY DEF ClockType, LastYear, CURRENT_YEAR, Fits, Fields
    <2>2. ClockType'
      BY <1>3, <2>1 DEF ReadFlag, Access, ClockType, Fits
    <2>3. Lasts'
      BY <1>3 DEF ReadFlag, Access, Lasts, Fields, Go
    <2>4. Reads'
      BY <1>3 DEF ReadFlag, Reads, Fields
    <2> QED  BY <2>2, <2>3, <2>4
  <1>4. CASE ReadRegister
    <2>1. pc \in Fields /\ now = asked /\ 7 - pc \in Fields
      BY <1>4 DEF ReadRegister, Lasts, Fields
    <2>2. Register(7 - pc) \in Int
      <3>1. now[7 - pc] \in Int /\ now[1] \in Int /\ now[4] \in Int
        BY <2>1 DEF ClockType, Fits, Fields
      <3> QED  BY <3>1 DEF Register, Shown, Hour, BCD
    <2>3. /\ got' \in [Fields -> Int] /\ got'[7 - pc] = Shows(asked, 7 - pc)
          /\ \A k \in Fields : k # 7 - pc => got'[k] = got[k]
      BY <1>4, <2>1, <2>2, RegisterShows DEF ReadRegister, ClockType
    <2>4. ClockType'
      BY <1>4, <2>3 DEF ReadRegister, Access, ClockType, Fits, Fields
    <2>5. Lasts'
      BY <1>4, <2>1 DEF ReadRegister, Access, Lasts, Fields, ClockType
    <2>6. Reads'
      <3>1. \A k : Shows(asked, k)' = Shows(asked, k)
        BY <1>4 DEF ReadRegister, Access, Shows, Shown, Hour
      <3>2. \A k \in Fields : k > 7 - pc' => k = 7 - pc \/ k > 7 - pc
        BY <1>4 DEF ReadRegister, Fields
      <3>3. \A k \in Fields : k > 7 - pc' => got'[k] = Shows(asked, k)
        BY <2>3, <3>2 DEF Reads
      <3> QED  BY <3>1, <3>3 DEF Reads
    <2> QED  BY <2>4, <2>5, <2>6
  <1>5. CASE Again
    <2>1. ClockType' /\ Lasts'
      BY <1>5 DEF Again, ClockType, Lasts, Fits, Fields
    <2>2. Reads'
      BY <1>5 DEF Again, Reads, Fields
    <2> QED  BY <2>1, <2>2
  <1>6. CASE UNCHANGED vars
    <2>1. ClockType' /\ Lasts'
      BY <1>6 DEF vars, ClockType, Lasts, Fits
    <2>2. Reads'
      BY <1>6 DEF vars, Reads, Shows, Shown, Hour
    <2> QED  BY <2>1, <2>2
  <1> QED  BY <1>1, <1>2, <1>3, <1>4, <1>5, <1>6 DEF Next

\* The invariant holds at every access.
LEMMA ClockAlways == ASSUME StartsFit PROVE Spec => []ClockInv
  <1>1. ASSUME Init PROVE ClockInv
    <2>1. PICK s \in Starts : now = s[1] /\ format = s[2]
      BY <1>1 DEF Init
    <2>2. Fits(now) /\ now[1] \in CURRENT_YEAR .. LastYear - MaxTicks /\ format \in Format
      BY <2>1 DEF StartsFit
    <2>3. FirstOf \in [Fields -> Int]
      BY DEF FirstOf, Fields
    <2>4. ClockType
      <3>1. now[1] \in Int /\ now[1] \in CURRENT_YEAR .. LastYear /\ 0 \in 0 .. MaxTicks
            /\ now[1] + MaxTicks <= LastYear + 0
        BY <2>2, ClockAssumption DEF LastYear, CURRENT_YEAR, Fits, Fields
      <3>2. left \in Nat /\ pc \in 0 .. 7
        BY <1>1 DEF Init
      <3>3. flag \in BOOLEAN /\ ~flag
        BY <1>1, Zenon DEF Init
      <3> QED  BY <1>1, <2>2, <2>3, <3>1, <3>2, <3>3 DEF Init, ClockType
    <2>5. Lasts /\ Reads
      BY <1>1 DEF Init, Lasts, Reads, Fields
    <2> QED  BY <2>4, <2>5 DEF ClockInv
  <1> QED  BY <1>1, ClockInductive, PTL DEF Spec

\* read_rtc gives the moment at which the update flag was seen down, whatever the
\* clock does while the six registers are read: in every format, but for the hours
\* that start at noon and at midnight on a clock of twelve hours.
THEOREM NoSecondPasses ==
    ASSUME StartsFit
    PROVE  Spec => [](pc = 7 /\ (format.hours24 \/ asked[4] % 12 # 0) => Read = asked)
  <1>1. ClockInv => (pc = 7 /\ (format.hours24 \/ asked[4] % 12 # 0) => Read = asked)
    BY ReadBack DEF ClockInv, ClockType, Reads, Fields
  <1> QED  BY <1>1, ClockAlways, PTL

\* So what is read is of one moment on every clock of twenty-four hours.
THEOREM ReadIsOfOneMoment ==
    ASSUME StartsFit, \A s \in Starts : s[2].hours24
    PROVE  Spec => []ReadsOneMoment
  <1> DEFINE Shows24 == format.hours24
  <1>1. Init => Shows24
    BY DEF Init
  <1>2. Shows24 /\ [Next]_vars => Shows24'
    BY DEF Next, Announce, Tick, ReadFlag, ReadRegister, Again, Access, vars
  <1>3. ClockInv /\ Shows24 => ReadsOneMoment
    BY ReadBack DEF ClockInv, ClockType, Reads, Fields, ReadsOneMoment
  <1> QED  BY <1>1, <1>2, <1>3, ClockAlways, PTL DEF Spec


(***************************************************************************)
(* The days of the timestamp, against the dates that there have been.      *)
(***************************************************************************)

\* What a is, and what goes on from each number to the next, goes on to b.
LEMMA FromTo ==
    ASSUME NEW a \in Nat, NEW b \in Nat, NEW D, a \in D, \A k \in a .. b - 1 : k \in D => k + 1 \in D
    PROVE  a .. b \subseteq D
  <1> DEFINE F == (a .. b) \ D
  <1> SUFFICES ASSUME F # {} PROVE FALSE
    OBVIOUS
  <1>1. F \subseteq Nat
    OBVIOUS
  <1>2. PICK d \in F : \A e \in F : <<e, d>> \notin OpToRel(<, Nat)
    <2> HIDE DEF F
    <2> QED  BY <1>1, NatLessThanWellFounded, WFMin
  <1>3. d # a /\ d - 1 \in a .. b - 1 /\ (d - 1) + 1 = d /\ d - 1 \in Nat /\ d \in Nat
    OBVIOUS
  <1>4. d - 1 \in F
    <2>1. d - 1 \notin D
      BY <1>2, <1>3
    <2> QED  BY <1>3, <2>1
  <1>5. <<d - 1, d>> \in OpToRel(<, Nat)
    <2>1. <<d - 1, d>> \in Nat \X Nat /\ <<d - 1, d>>[1] < <<d - 1, d>>[2]
      BY <1>3
    <2> QED  BY <2>1 DEF OpToRel
  <1> HIDE DEF F
  <1> QED  BY <1>2, <1>4, <1>5

\* the dates from 1970 on before a day
Before(y, m, d) ==
    {t \in (1970 .. y) \X (1 .. 12) \X (1 .. 31) :
        /\ t[3] <= DaysOf(t[1], t[2])
        /\ \/ t[1] < y
           \/ t[1] = y /\ t[2] < m
           \/ t[1] = y /\ t[2] = m /\ t[3] < d}

\* there are n dates before a day
Passed(y, m, d, n) == IsFiniteSet(Before(y, m, d)) /\ Cardinality(Before(y, m, d)) = n

\* A month has 28 to 31 days.
LEMMA DaysOfMonth == \A y, m : DaysOf(y, m) \in {28, 29, 30, 31}
  BY DEF DaysOf

\* One more date has passed on the day after.
LEMMA NextDay ==
    ASSUME NEW y \in Nat, y >= 1970, NEW m \in 1 .. 12, NEW d \in 1 .. 31, d <= DaysOf(y, m),
           NEW n \in Nat, Passed(y, m, d, n)
    PROVE  Passed(y, m, d + 1, n + 1)
  <1> DEFINE x == <<y, m, d>>
             S == Before(y, m, d)
             T == Before(y, m, d + 1)
  <1>1. x \in (1970 .. y) \X (1 .. 12) \X (1 .. 31) /\ x[1] = y /\ x[2] = m /\ x[3] = d
    OBVIOUS
  <1>2. x \notin S
    BY <1>1 DEF Before
  <1>3. T = S \cup {x}
    <2>1. x \in T
      BY <1>1 DEF Before
    <2>2. ASSUME NEW t \in S PROVE t \in T
      BY DEF Before
    <2>3. ASSUME NEW t \in T, t # x PROVE t \in S
      <3>1. t \in (1970 .. y) \X (1 .. 12) \X (1 .. 31)
        BY DEF Before
      <3>2. t = <<t[1], t[2], t[3]>> /\ t[3] \in 1 .. 31 /\ t[1] \in Int /\ t[2] \in Int
        BY <3>1
      <3>3. ~(t[1] = y /\ t[2] = m /\ t[3] = d)
        BY <2>3, <3>2
      <3> QED  BY <3>1, <3>2, <3>3 DEF Before
    <2> HIDE DEF S, T, x
    <2> QED  BY <2>1, <2>2, <2>3
  <1> HIDE DEF S, T, x
  <1>4. IsFiniteSet(S) /\ Cardinality(S) = n
    BY DEF Passed, S
  <1>5. IsFiniteSet(S \cup {x}) /\ Cardinality(S \cup {x}) = n + 1
    BY <1>2, <1>4, FS_AddElement
  <1> QED  BY <1>3, <1>5 DEF Passed, T

\* The days of one month, up to the day after its last.
LEMMA DaysInMonth ==
    ASSUME NEW y \in Nat, y >= 1970, NEW m \in 1 .. 12, NEW n \in Nat, Passed(y, m, 1, n),
           NEW d \in 1 .. DaysOf(y, m) + 1
    PROVE  Passed(y, m, d, n + d - 1)
  <1> DEFINE D == {k \in Nat : Passed(y, m, k, n + k - 1)}
             last == DaysOf(y, m) + 1
  <1>1. last \in Nat /\ last <= 32 /\ 1 \in Nat
    BY DaysOfMonth
  <1>2. 1 \in D
    <2>1. n + 1 - 1 = n
      OBVIOUS
    <2> QED  BY <2>1
  <1>3. \A k \in 1 .. last - 1 : k \in D => k + 1 \in D
    <2> SUFFICES ASSUME NEW k \in 1 .. last - 1, Passed(y, m, k, n + k - 1)
                 PROVE  Passed(y, m, k + 1, n + (k + 1) - 1)
      OBVIOUS
    <2>1. k \in 1 .. 31 /\ k <= DaysOf(y, m) /\ n + k - 1 \in Nat /\ (n + k - 1) + 1 = n + (k + 1) - 1
      BY <1>1, DaysOfMonth
    <2>2. Passed(y, m, k + 1, (n + k - 1) + 1)
      BY <2>1, NextDay
    <2> QED  BY <2>1, <2>2
  <1>4. 1 .. last \subseteq D
    <2> HIDE DEF D, last
    <2> QED  BY <1>1, <1>2, <1>3, FromTo
  <1> QED  BY <1>4

\* When a month begins, the days of the one before have passed.
LEMMA NextMonth ==
    ASSUME NEW y \in Nat, y >= 1970, NEW m \in 1 .. 12, NEW n \in Nat, Passed(y, m, 1, n)
    PROVE  IF m < 12 THEN Passed(y, m + 1, 1, n + DaysOf(y, m)) ELSE Passed(y + 1, 1, 1, n + DaysOf(y, m))
  <1> DEFINE last == DaysOf(y, m) + 1
  <1>1. last \in 1 .. last /\ n + last - 1 = n + DaysOf(y, m) /\ last \in Nat
    BY DaysOfMonth
  <1>2. Passed(y, m, last, n + DaysOf(y, m))
    <2>1. Passed(y, m, last, n + last - 1)
      BY <1>1, DaysInMonth
    <2> QED  BY <1>1, <2>1
  <1>3. CASE m < 12
    <2>1. Before(y, m, last) = Before(y, m + 1, 1)
      <3>1. ASSUME NEW t \in (1970 .. y) \X (1 .. 12) \X (1 .. 31), t[3] <= DaysOf(t[1], t[2])
            PROVE  (\/ t[1] < y
                    \/ t[1] = y /\ t[2] < m
                    \/ t[1] = y /\ t[2] = m /\ t[3] < last)
                   <=> (\/ t[1] < y
                        \/ t[1] = y /\ t[2] < m + 1
                        \/ t[1] = y /\ t[2] = m + 1 /\ t[3] < 1)
        <4>1. t[1] \in Int /\ t[2] \in 1 .. 12 /\ t[3] \in 1 .. 31
          OBVIOUS
        <4>2. t[1] = y /\ t[2] = m => t[3] < last
          BY <3>1, <4>1, DaysOfMonth
        <4> HIDE DEF last
        <4> QED  BY <4>1, <4>2
      <3> HIDE DEF last
      <3> QED  BY <3>1 DEF Before
    <2> QED  BY <1>2, <1>3, <2>1 DEF Passed
  <1>4. CASE ~(m < 12)
    <2>1. Before(y, m, last) = Before(y + 1, 1, 1)
      <3>1. ASSUME NEW t, t[3] <= DaysOf(t[1], t[2])
            PROVE  t \in (1970 .. y) \X (1 .. 12) \X (1 .. 31)
                       /\ (\/ t[1] < y
                           \/ t[1] = y /\ t[2] < m
                           \/ t[1] = y /\ t[2] = m /\ t[3] < last)
                   <=> t \in (1970 .. y + 1) \X (1 .. 12) \X (1 .. 31)
                       /\ (\/ t[1] < y + 1
                           \/ t[1] = y + 1 /\ t[2] < 1
                           \/ t[1] = y + 1 /\ t[2] = 1 /\ t[3] < 1)
        <4>1. CASE t \in (1970 .. y + 1) \X (1 .. 12) \X (1 .. 31)
          <5>1. t[1] \in 1970 .. y + 1 /\ t[2] \in 1 .. 12 /\ t[3] \in 1 .. 31
            BY <4>1
          <5>2. t[1] = y /\ t[2] = m => t[3] < last
            BY <3>1, <5>1, DaysOfMonth
          <5>3. t[1] # y + 1 => t \in (1970 .. y) \X (1 .. 12) \X (1 .. 31)
            BY <4>1, <5>1
          <5>4. m = 12
            BY <1>4
          <5> HIDE DEF last
          <5> QED  BY <4>1, <5>1, <5>2, <5>3, <5>4
        <4>2. CASE t \notin (1970 .. y + 1) \X (1 .. 12) \X (1 .. 31)
          <5>1. 1970 .. y \subseteq 1970 .. y + 1
            OBVIOUS
          <5>2. t \notin (1970 .. y) \X (1 .. 12) \X (1 .. 31)
            BY <4>2, <5>1
          <5> QED  BY <4>2, <5>2
        <4> QED  BY <4>1, <4>2
      <3> HIDE DEF last
      <3> QED  BY <3>1 DEF Before
    <2> QED  BY <1>2, <1>4, <2>1 DEF Passed
  <1> QED  BY <1>3, <1>4


\* a leap day in year y
LeapDay(y) == IF Leap(y) THEN 1 ELSE 0

\* The days the code adds for a month are those before it in its year.
LEMMA MonthBegins ==
    ASSUME NEW y \in Nat, y >= 1970, NEW n \in Nat, Passed(y, 1, 1, n)
    PROVE  /\ \A m \in 1 .. 12 : Passed(y, m, 1, n + DaysTill[m] + (IF m > 2 THEN LeapDay(y) ELSE 0))
           /\ Passed(y + 1, 1, 1, n + 365 + LeapDay(y))
  <1> DEFINE l == LeapDay(y)
  <1>0. l \in Nat
    BY DEF LeapDay
  <1>1. Passed(y, 2, 1, n + 31)
    <2>1. 1 \in 1 .. 12 /\ DaysOf(y, 1) = 31 /\ n \in Nat
      BY <1>0 DEF DaysOf, LeapDay
    <2>2. Passed(y, 2, 1, (n) + DaysOf(y, 1))
      <3> HIDE DEF l
      <3>1. IF 1 < 12 THEN Passed(y, 1 + 1, 1, (n) + DaysOf(y, 1))
                       ELSE Passed(y + 1, 1, 1, (n) + DaysOf(y, 1))
        BY <2>1, NextMonth
      <3>2. 1 + 1 = 2
        OBVIOUS
      <3> QED  BY <3>1, <3>2
    <2>3. (n) + DaysOf(y, 1) = n + 31
      <3> HIDE DEF l
      <3> QED  BY <1>0, <2>1
    <2> QED  BY <2>2, <2>3
  <1>2. Passed(y, 3, 1, n + 59 + l)
    <2>1. 2 \in 1 .. 12 /\ DaysOf(y, 2) = 28 + l /\ n + 31 \in Nat
      BY <1>0 DEF DaysOf, LeapDay
    <2>2. Passed(y, 3, 1, (n + 31) + DaysOf(y, 2))
      <3> HIDE DEF l
      <3>1. IF 2 < 12 THEN Passed(y, 2 + 1, 1, (n + 31) + DaysOf(y, 2))
                       ELSE Passed(y + 1, 1, 1, (n + 31) + DaysOf(y, 2))
        BY <1>1, <2>1, NextMonth
      <3>2. 2 + 1 = 3
        OBVIOUS
      <3> QED  BY <3>1, <3>2
    <2>3. (n + 31) + DaysOf(y, 2) = n + 59 + l
      <3> HIDE DEF l
      <3> QED  BY <1>0, <2>1
    <2> QED  BY <2>2, <2>3
  <1>3. Passed(y, 4, 1, n + 90 + l)
    <2>1. 3 \in 1 .. 12 /\ DaysOf(y, 3) = 31 /\ n + 59 + l \in Nat
      BY <1>0 DEF DaysOf, LeapDay
    <2>2. Passed(y, 4, 1, (n + 59 + l) + DaysOf(y, 3))
      <3> HIDE DEF l
      <3>1. IF 3 < 12 THEN Passed(y, 3 + 1, 1, (n + 59 + l) + DaysOf(y, 3))
                       ELSE Passed(y + 1, 1, 1, (n + 59 + l) + DaysOf(y, 3))
        BY <1>2, <2>1, NextMonth
      <3>2. 3 + 1 = 4
        OBVIOUS
      <3> QED  BY <3>1, <3>2
    <2>3. (n + 59 + l) + DaysOf(y, 3) = n + 90 + l
      <3> HIDE DEF l
      <3> QED  BY <1>0, <2>1
    <2> QED  BY <2>2, <2>3
  <1>4. Passed(y, 5, 1, n + 120 + l)
    <2>1. 4 \in 1 .. 12 /\ DaysOf(y, 4) = 30 /\ n + 90 + l \in Nat
      BY <1>0 DEF DaysOf, LeapDay
    <2>2. Passed(y, 5, 1, (n + 90 + l) + DaysOf(y, 4))
      <3> HIDE DEF l
      <3>1. IF 4 < 12 THEN Passed(y, 4 + 1, 1, (n + 90 + l) + DaysOf(y, 4))
                       ELSE Passed(y + 1, 1, 1, (n + 90 + l) + DaysOf(y, 4))
        BY <1>3, <2>1, NextMonth
      <3>2. 4 + 1 = 5
        OBVIOUS
      <3> QED  BY <3>1, <3>2
    <2>3. (n + 90 + l) + DaysOf(y, 4) = n + 120 + l
      <3> HIDE DEF l
      <3> QED  BY <1>0, <2>1
    <2> QED  BY <2>2, <2>3
  <1>5. Passed(y, 6, 1, n + 151 + l)
    <2>1. 5 \in 1 .. 12 /\ DaysOf(y, 5) = 31 /\ n + 120 + l \in Nat
      BY <1>0 DEF DaysOf, LeapDay
    <2>2. Passed(y, 6, 1, (n + 120 + l) + DaysOf(y, 5))
      <3> HIDE DEF l
      <3>1. IF 5 < 12 THEN Passed(y, 5 + 1, 1, (n + 120 + l) + DaysOf(y, 5))
                       ELSE Passed(y + 1, 1, 1, (n + 120 + l) + DaysOf(y, 5))
        BY <1>4, <2>1, NextMonth
      <3>2. 5 + 1 = 6
        OBVIOUS
      <3> QED  BY <3>1, <3>2
    <2>3. (n + 120 + l) + DaysOf(y, 5) = n + 151 + l
      <3> HIDE DEF l
      <3> QED  BY <1>0, <2>1
    <2> QED  BY <2>2, <2>3
  <1>6. Passed(y, 7, 1, n + 181 + l)
    <2>1. 6 \in 1 .. 12 /\ DaysOf(y, 6) = 30 /\ n + 151 + l \in Nat
      BY <1>0 DEF DaysOf, LeapDay
    <2>2. Passed(y, 7, 1, (n + 151 + l) + DaysOf(y, 6))
      <3> HIDE DEF l
      <3>1. IF 6 < 12 THEN Passed(y, 6 + 1, 1, (n + 151 + l) + DaysOf(y, 6))
                       ELSE Passed(y + 1, 1, 1, (n + 151 + l) + DaysOf(y, 6))
        BY <1>5, <2>1, NextMonth
      <3>2. 6 + 1 = 7
        OBVIOUS
      <3> QED  BY <3>1, <3>2
    <2>3. (n + 151 + l) + DaysOf(y, 6) = n + 181 + l
      <3> HIDE DEF l
      <3> QED  BY <1>0, <2>1
    <2> QED  BY <2>2, <2>3
  <1>7. Passed(y, 8, 1, n + 212 + l)
    <2>1. 7 \in 1 .. 12 /\ DaysOf(y, 7) = 31 /\ n + 181 + l \in Nat
      BY <1>0 DEF DaysOf, LeapDay
    <2>2. Passed(y, 8, 1, (n + 181 + l) + DaysOf(y, 7))
      <3> HIDE DEF l
      <3>1. IF 7 < 12 THEN Passed(y, 7 + 1, 1, (n + 181 + l) + DaysOf(y, 7))
                       ELSE Passed(y + 1, 1, 1, (n + 181 + l) + DaysOf(y, 7))
        BY <1>6, <2>1, NextMonth
      <3>2. 7 + 1 = 8
        OBVIOUS
      <3> QED  BY <3>1, <3>2
    <2>3. (n + 181 + l) + DaysOf(y, 7) = n + 212 + l
      <3> HIDE DEF l
      <3> QED  BY <1>0, <2>1
    <2> QED  BY <2>2, <2>3
  <1>8. Passed(y, 9, 1, n + 243 + l)
    <2>1. 8 \in 1 .. 12 /\ DaysOf(y, 8) = 31 /\ n + 212 + l \in Nat
      BY <1>0 DEF DaysOf, LeapDay
    <2>2. Passed(y, 9, 1, (n + 212 + l) + DaysOf(y, 8))
      <3> HIDE DEF l
      <3>1. IF 8 < 12 THEN Passed(y, 8 + 1, 1, (n + 212 + l) + DaysOf(y, 8))
                       ELSE Passed(y + 1, 1, 1, (n + 212 + l) + DaysOf(y, 8))
        BY <1>7, <2>1, NextMonth
      <3>2. 8 + 1 = 9
        OBVIOUS
      <3> QED  BY <3>1, <3>2
    <2>3. (n + 212 + l) + DaysOf(y, 8) = n + 243 + l
      <3> HIDE DEF l
      <3> QED  BY <1>0, <2>1
    <2> QED  BY <2>2, <2>3
  <1>9. Passed(y, 10, 1, n + 273 + l)
    <2>1. 9 \in 1 .. 12 /\ DaysOf(y, 9) = 30 /\ n + 243 + l \in Nat
      BY <1>0 DEF DaysOf, LeapDay
    <2>2. Passed(y, 10, 1, (n + 243 + l) + DaysOf(y, 9))
      <3> HIDE DEF l
      <3>1. IF 9 < 12 THEN Passed(y, 9 + 1, 1, (n + 243 + l) + DaysOf(y, 9))
                       ELSE Passed(y + 1, 1, 1, (n + 243 + l) + DaysOf(y, 9))
        BY <1>8, <2>1, NextMonth
      <3>2. 9 + 1 = 10
        OBVIOUS
      <3> QED  BY <3>1, <3>2
    <2>3. (n + 243 + l) + DaysOf(y, 9) = n + 273 + l
      <3> HIDE DEF l
      <3> QED  BY <1>0, <2>1
    <2> QED  BY <2>2, <2>3
  <1>10. Passed(y, 11, 1, n + 304 + l)
    <2>1. 10 \in 1 .. 12 /\ DaysOf(y, 10) = 31 /\ n + 273 + l \in Nat
      BY <1>0 DEF DaysOf, LeapDay
    <2>2. Passed(y, 11, 1, (n + 273 + l) + DaysOf(y, 10))
      <3> HIDE DEF l
      <3>1. IF 10 < 12 THEN Passed(y, 10 + 1, 1, (n + 273 + l) + DaysOf(y, 10))
                       ELSE Passed(y + 1, 1, 1, (n + 273 + l) + DaysOf(y, 10))
        BY <1>9, <2>1, NextMonth
      <3>2. 10 + 1 = 11
        OBVIOUS
      <3> QED  BY <3>1, <3>2
    <2>3. (n + 273 + l) + DaysOf(y, 10) = n + 304 + l
      <3> HIDE DEF l
      <3> QED  BY <1>0, <2>1
    <2> QED  BY <2>2, <2>3
  <1>11. Passed(y, 12, 1, n + 334 + l)
    <2>1. 11 \in 1 .. 12 /\ DaysOf(y, 11) = 30 /\ n + 304 + l \in Nat
      BY <1>0 DEF DaysOf, LeapDay
    <2>2. Passed(y, 12, 1, (n + 304 + l) + DaysOf(y, 11))
      <3> HIDE DEF l
      <3>1. IF 11 < 12 THEN Passed(y, 11 + 1, 1, (n + 304 + l) + DaysOf(y, 11))
                       ELSE Passed(y + 1, 1, 1, (n + 304 + l) + DaysOf(y, 11))
        BY <1>10, <2>1, NextMonth
      <3>2. 11 + 1 = 12
        OBVIOUS
      <3> QED  BY <3>1, <3>2
    <2>3. (n + 304 + l) + DaysOf(y, 11) = n + 334 + l
      <3> HIDE DEF l
      <3> QED  BY <1>0, <2>1
    <2> QED  BY <2>2, <2>3
  <1>12. Passed(y + 1, 1, 1, n + 365 + l)
    <2>1. 12 \in 1 .. 12 /\ DaysOf(y, 12) = 31 /\ n + 334 + l \in Nat
      BY <1>0 DEF DaysOf, LeapDay
    <2>2. Passed(y + 1, 1, 1, (n + 334 + l) + DaysOf(y, 12))
      <3> HIDE DEF l
      <3>1. IF 12 < 12 THEN Passed(y, 12 + 1, 1, (n + 334 + l) + DaysOf(y, 12))
                       ELSE Passed(y + 1, 1, 1, (n + 334 + l) + DaysOf(y, 12))
        BY <1>11, <2>1, NextMonth
      <3>2. 12 + 1 = 13
        OBVIOUS
      <3> QED  BY <3>1, <3>2
    <2>3. (n + 334 + l) + DaysOf(y, 12) = n + 365 + l
      <3> HIDE DEF l
      <3> QED  BY <1>0, <2>1
    <2> QED  BY <2>2, <2>3
  <1>13. ASSUME NEW m \in 1 .. 12 PROVE Passed(y, m, 1, n + DaysTill[m] + (IF m > 2 THEN l ELSE 0))
    <2> HIDE DEF l
    <2>1. n + DaysTill[m] + (IF m > 2 THEN l ELSE 0)
            = CASE m = 1 -> n [] m = 2 -> n + 31 [] m = 3 -> n + 59 + l [] m = 4 -> n + 90 + l
                [] m = 5 -> n + 120 + l [] m = 6 -> n + 151 + l [] m = 7 -> n + 181 + l
                [] m = 8 -> n + 212 + l [] m = 9 -> n + 243 + l [] m = 10 -> n + 273 + l
                [] m = 11 -> n + 304 + l [] m = 12 -> n + 334 + l
      BY <1>0 DEF DaysTill
    <2>2. m \in {1, 2, 3, 4, 5, 6, 7, 8, 9, 10, 11, 12}
      OBVIOUS
    <2> QED  BY <1>1, <1>2, <1>3, <1>4, <1>5, <1>6, <1>7, <1>8, <1>9, <1>10, <1>11, <2>1, <2>2
  <1> QED  BY <1>12, <1>13

\* Until 2099 a year is a leap year if four divides it.
LEMMA LeapEveryFour == \A y \in 1970 .. 2099 : Leap(y) <=> y % 4 = 0
  BY DEF Leap

\* The days the code adds for a year are those since 1970.
LEMMA YearBegins ==
    ASSUME NEW y \in 1970 .. 2099
    PROVE  Passed(y, 1, 1, (y - 1970) * 365 + (y - 1969) \div 4)
  <1> DEFINE D == {k \in Nat : Passed(k, 1, 1, (k - 1970) * 365 + (k - 1969) \div 4)}
  <1>1. 1970 \in D
    <2>1. Before(1970, 1, 1) = {}
      BY DEF Before
    <2>2. (1970 - 1970) * 365 + (1970 - 1969) \div 4 = 0
      OBVIOUS
    <2> QED  BY <2>1, <2>2, FS_EmptySet DEF Passed
  <1>2. \A k \in 1970 .. 2099 - 1 : k \in D => k + 1 \in D
    <2> SUFFICES ASSUME NEW k \in 1970 .. 2098, k \in D PROVE k + 1 \in D
      OBVIOUS
    <2> DEFINE n == (k - 1970) * 365 + (k - 1969) \div 4
    <2>1. n \in Nat /\ k \in Nat /\ k >= 1970
      OBVIOUS
    <2>2. Passed(k, 1, 1, n)
      OBVIOUS
    <2>3. Passed(k + 1, 1, 1, n + 365 + LeapDay(k))
      <3> HIDE DEF n, D
      <3> QED  BY <2>1, <2>2, MonthBegins
    <2>4. n + 365 + LeapDay(k) = ((k + 1) - 1970) * 365 + ((k + 1) - 1969) \div 4
      <3>1. LeapDay(k) = IF k % 4 = 0 THEN 1 ELSE 0
        BY LeapEveryFour DEF LeapDay
      <3>2. ((k + 1) - 1969) \div 4 = (k - 1969) \div 4 + (IF k % 4 = 0 THEN 1 ELSE 0)
        OBVIOUS
      <3> QED  BY <3>1, <3>2
    <2> QED  BY <2>3, <2>4
  <1>3. 1970 .. 2099 \subseteq D
    <2> HIDE DEF D
    <2> QED  BY <1>1, <1>2, FromTo
  <1> QED  BY <1>3

\* The days of the timestamp are the dates that have passed.
LEMMA DaysPassed ==
    ASSUME NEW t, Fits(t), t[1] \in 1970 .. 2099
    PROVE  Days(t) = Cardinality(Before(t[1], t[2], t[3]))
  <1> DEFINE y == t[1]
             m == t[2]
             d == t[3]
             n == (y - 1970) * 365 + (y - 1969) \div 4
             extra == IF m > 2 THEN LeapDay(y) ELSE 0
             k == n + DaysTill[m] + extra
  <1>1. y \in 1970 .. 2099 /\ y \in Nat /\ y >= 1970 /\ m \in 1 .. 12 /\ d \in 1 .. DaysOf(y, m) /\ d \in Nat
        /\ d \in 1 .. DaysOf(y, m) + 1
    BY DaysOfMonth DEF Fits
  <1>2. n \in Nat /\ DaysTill[m] \in Nat /\ extra \in Nat
    BY <1>1 DEF DaysTill, LeapDay
  <1>3. Passed(y, 1, 1, n)
    BY <1>1, YearBegins
  <1>4. Passed(y, m, 1, k)
    <2> HIDE DEF n, y, m
    <2> QED  BY <1>1, <1>2, <1>3, MonthBegins
  <1>5. Passed(y, m, d, k + d - 1)
    <2> HIDE DEF n, y, m, d, extra
    <2>1. k \in Nat
      BY <1>2
    <2> HIDE DEF k
    <2> QED  BY <1>1, <1>4, <2>1, DaysInMonth
  <1>6. LeapYears(t) = (y - 1969) \div 4 + extra
    <2>1. LeapDay(y) = IF y % 4 = 0 THEN 1 ELSE 0
      BY <1>1, LeapEveryFour DEF LeapDay
    <2>2. \A z \in 1970 .. 2099 :
             /\ (z - 1969 + 1) \div 4 = (z - 1969) \div 4 + (IF z % 4 = 0 THEN 1 ELSE 0)
             /\ (z - 1969 + 0) \div 4 = (z - 1969) \div 4 + 0
      OBVIOUS
    <2>3. LeapYears(t) = (y - 1969 + (IF m > 2 THEN 1 ELSE 0)) \div 4
      BY DEF LeapYears
    <2> HIDE DEF y, m
    <2> QED  BY <1>1, <2>1, <2>2, <2>3
  <1>7. Days(t) = k + d - 1
    <2>1. Days(t) = (y - 1970) * 365 + LeapYears(t) + DaysTill[m] + d - 1
      BY DEF Days
    <2>2. (y - 1969) \div 4 \in Int
      BY <1>1
    <2> HIDE DEF y, m, d, extra
    <2> QED  BY <1>1, <1>2, <1>6, <2>1, <2>2
  <1> QED  BY <1>5, <1>7 DEF Passed


\* The days that get_timestamp adds up are the days since the first of January
\* 1970, for every date that a clock of either kind may show before 2100, which the
\* code takes for a leap year.
THEOREM TimestampCountsDays ==
    ASSUME StartsFit, \A s \in Starts : s[1][1] <= 2099 - MaxTicks
    PROVE  Spec => []DaysSinceEpoch
  <1> DEFINE Century == now[1] + MaxTicks <= 2099 + ticks /\ asked[1] <= 2099
  <1>1. Init => Century
    <2> SUFFICES ASSUME Init PROVE Century
      OBVIOUS
    <2>1. PICK s \in Starts : now = s[1]
      BY DEF Init
    <2>2. now[1] \in Int /\ now[1] <= 2099 - MaxTicks /\ asked = now /\ ticks = 0
      BY <2>1 DEF Init, StartsFit, Fits, Fields
    <2> QED  BY <2>2, ClockAssumption
  <1>2. ClockInv /\ Century /\ [Next]_vars => Century'
    <2> SUFFICES ASSUME ClockInv, Century, [Next]_vars PROVE Century'
      OBVIOUS
    <2>1. now[1] \in Int /\ ticks \in 0 .. MaxTicks /\ MaxTicks \in Nat
      BY ClockAssumption DEF ClockInv, ClockType, Fits, Fields
    <2>2. CASE Tick
      <3>1. now[1] < 9999
        BY <2>1
      <3>2. Second(now)[1] \in {now[1], now[1] + 1}
        BY <3>1, SecondFits DEF ClockInv, ClockType
      <3> QED  BY <2>1, <2>2, <3>2 DEF Tick
    <2>3. CASE ReadFlag
      BY <2>1, <2>3 DEF ReadFlag, Access
    <2>4. CASE Announce \/ ReadRegister \/ Again \/ UNCHANGED vars
      BY <2>4 DEF Announce, ReadRegister, Access, Again, vars
    <2> QED  BY <2>2, <2>3, <2>4 DEF Next
  <1>3. ClockInv /\ Century => DaysSinceEpoch
    <2> SUFFICES ASSUME ClockInv, Century, pc = 7 PROVE DaysSinceEpoch
      BY DEF DaysSinceEpoch
    <2>1. Fits(asked) /\ asked[1] \in 1970 .. 2099
      BY DEF ClockInv, ClockType, CURRENT_YEAR, LastYear
    <2>2. Read[1] = asked[1] /\ Read[2] = asked[2] /\ Read[3] = asked[3]
      BY DateBack DEF ClockInv, ClockType, Reads, Fields
    <2>3. Days(asked) = Cardinality(Before(Read[1], Read[2], Read[3]))
      BY <2>1, <2>2, DaysPassed
    <2>4. Days(Read) = Days(asked)
      BY <2>2 DEF Days, LeapYears
    <2> QED  BY <2>3, <2>4 DEF DaysSinceEpoch, Before
  <1> QED  BY <1>1, <1>2, <1>3, ClockAlways, PTL DEF Spec
=============================================================================
