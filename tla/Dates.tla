------------------------------- MODULE Dates -------------------------------
(***************************************************************************)
(* Date objects of njs_date.c.  A time is <<days, milliseconds>> since     *)
(* 1970, as 64 bits do not fit TLC's integers; a date that is not valid    *)
(* has the time NaN.  Texts are sequences of digits, signs and words, a    *)
(* month or a day of the week being one word.                              *)
(*                                                                         *)
(* The rules of ECMAScript are stated in the second half, with a calendar  *)
(* that counts leap years, and every method is compared with them.         *)
(***************************************************************************)
EXTENDS Integers, Sequences, FiniteSets, FiniteSetsExt, SequencesExt

CONSTANTS Zones,      \* [standard, summer, from, to]: minutes west of UTC, and
                      \* the times between which summer is in force
          Times,      \* arguments of setTime()
          Years, Numbers,   \* years and other arguments of the setters
          MaxSteps,   \* bound of the methods that are called in a row
          NaN, Throws \* an argument that is no number, and one that throws

VARIABLES zone,       \* TZ, as localtime_r() sees it
          time,       \* time of the njs_date_t
          steps,
          agrees,     \* history: every result is what the standard says
          utcAgrees   \* history: so are those of the setUTC methods

vars == <<zone, time, steps, agrees, utcAgrees>>

DayMs == 86400000
Time(days, ms) == <<days + (ms \div DayMs), ms % DayMs>>
Later(t, minutes) == Time(t[1], t[2] + minutes * 60000)
Before(t, u) == t[1] < u[1] \/ (t[1] = u[1] /\ t[2] < u[2])

TimeClip(t) ==
    IF Before(t, <<-100000000, 0>>) \/ Before(<<100000000, 0>>, t) THEN NaN ELSE t

(* localtime_r(): what is subtracted from a UTC time to get the local one. *)
TzOffset(t) ==
    IF ~Before(t, zone.from) /\ Before(t, zone.to) THEN zone.summer ELSE zone.standard

-----------------------------------------------------------------------------
(* From days to years and months and back.                                 *)
Divides(k, y) == IF y % k = 0 THEN 1 ELSE 0
DaysInYear(y) == 365 + Divides(4, y) - Divides(100, y) + Divides(400, y)

DaysFromYear(y) ==
    365 * (y - 1970) + ((y - 1969) \div 4) - ((y - 1901) \div 100) + ((y - 1601) \div 400)

MonthDays(y) == <<31, 28 + DaysInYear(y) - 365, 31, 30, 31, 30, 31, 31, 30, 31, 30, 31>>

MakeDayInYear(year, month, date) ==                              \* mutant
    LET mn == month % 12
    IN  DaysFromYear(year + ((month - mn) \div 12))
        + FoldLeft(LAMBDA x, y : x + y, 0, SubSeq(MonthDays(year), 1, mn)) + date - 1

MakeDay(year, month, date) ==
    LET mn == month % 12
        ym == year + ((month - mn) \div 12)
    IN  DaysFromYear(ym) + FoldLeft(LAMBDA x, y : x + y, 0, SubSeq(MonthDays(ym), 1, mn)) + date - 1

(* The first guess divides by 365.2425, in parts that fit 32 bits.         *)
YearFromDays(d) ==
    LET guess   == 1970 + 400 * (d \div 146097) + (((d % 146097) * 400) \div 146097)
        from[y \in Int] == IF d < DaysFromYear(y) THEN from[y - 1]
                           ELSE IF d - DaysFromYear(y) < DaysInYear(y) THEN y
                           ELSE from[y + 1]
    IN  from[guess]

(* tm[1..7]: year, month, day, hours, minutes, seconds, milliseconds;      *)
(* the day of the week is tm[8].                                           *)
MakeDate(tm, local) ==
    LET t == Time(MakeDay(tm[1], tm[2], tm[3]), ((tm[4] * 60 + tm[5]) * 60 + tm[6]) * 1000 + tm[7])
    IN  TimeClip(IF local THEN Later(t, TzOffset(t)) ELSE t)

DestructDate(t0, local) ==
    LET t     == IF t0 = NaN THEN <<0, 0>> ELSE IF local THEN Later(t0, -TzOffset(t0)) ELSE t0
        y     == YearFromDays(t[1])
        split[d \in Nat, i \in 1..12] ==
            IF i = 12 \/ d < MonthDays(y)[i] THEN <<i - 1, d + 1>>
            ELSE split[d - MonthDays(y)[i], i + 1]
    IN  <<y>> \o split[t[1] - DaysFromYear(y), 1]
        \o <<t[2] \div 3600000, (t[2] \div 60000) % 60, (t[2] \div 1000) % 60, t[2] % 1000, (t[1] + 4) % 7>>

-----------------------------------------------------------------------------
(* njs_date_constructor() and njs_date_utc() with fields: the arguments    *)
(* that are missing stay 0, the day 1.                                     *)
FromFields(args, local) ==
    LET tm   == [i \in 1..7 |-> IF i <= Len(args) THEN args[i] ELSE IF i = 3 THEN 1 ELSE 0]
        full == IF tm[1] \in 0..99 THEN [tm EXCEPT ![1] = @ + 1900] ELSE tm
    IN  MakeDate(full, local)

(* The properties of Date.prototype: for each setter the first field and   *)
(* how many it may set; seconds and milliseconds swap local and UTC.       *)
Setters == [FullYear |-> <<1, 3>>, Month |-> <<2, 2>>, Date |-> <<3, 1>>, Hours |-> <<4, 4>>,
            Minutes |-> <<5, 3>>, Seconds |-> <<6, 2>>, Milliseconds |-> <<7, 1>>]
Getters == [FullYear |-> 1, Month |-> 2, Date |-> 3, Hours |-> 4, Minutes |-> 5, Seconds |-> 6,
            Milliseconds |-> 7, Day |-> 8]
GetsLocal(name, local) == IF name \in {"Seconds", "Milliseconds"} THEN ~local ELSE local

GetField(t, name, local) ==
    IF t = NaN THEN NaN ELSE DestructDate(t, GetsLocal(name, local))[Getters[name]]

(* Arguments are converted one after the other, which may throw; the       *)
(* first one that is no number ends the loop.                              *)
FirstBad(args, n) == {i \in 1..n : args[i] \in {NaN, Throws} /\ \A j \in 1..i - 1 : args[j] \notin {NaN, Throws}}

SetFields(t, name, args, local) ==
    LET since == Setters[name][1]
        left  == Min({Setters[name][2], Len(args)})
        tm    == DestructDate(t, local)
        bad   == FirstBad(args, left)
    IN  IF args = <<>> \/ (since # 1 /\ t = NaN) THEN NaN
        ELSE IF \E i \in bad : args[i] = Throws THEN t
        ELSE IF bad # {} THEN NaN
        ELSE MakeDate([i \in 1..8 |-> IF i \in since..since + left - 1 THEN args[i - since + 1] ELSE tm[i]],
                      TRUE)

-----------------------------------------------------------------------------
(* njs_date_string() and the conversions of njs_sprintf() it uses.         *)
Figures == <<"0", "1", "2", "3", "4", "5", "6", "7", "8", "9">>
Week    == <<"Sun", "Mon", "Tue", "Wed", "Thu", "Fri", "Sat">>
Months  == <<"Jan", "Feb", "Mar", "Apr", "May", "Jun", "Jul", "Aug", "Sep", "Oct", "Nov", "Dec">>
FigureOf == [f \in ToSet(Figures) |-> (CHOOSE i \in 1..10 : Figures[i] = f) - 1]

Number(n, width) ==
    LET a == IF n < 0 THEN -n ELSE n
        w == CHOOSE k \in width..9 : a < 10 ^ k /\ (k = width \/ a >= 10 ^ (k - 1))
    IN  (IF n < 0 THEN <<"-">> ELSE <<>>) \o [i \in 1..w |-> Figures[1 + ((a \div 10 ^ (w - i)) % 10)]]

Clock(tm) == Number(tm[4], 2) \o <<":">> \o Number(tm[5], 2) \o <<":">> \o Number(tm[6], 2)

IsoText(tm) ==
    (IF tm[1] \in 0..9999 THEN Number(tm[1], 4)
     ELSE (IF tm[1] > 0 THEN <<"+">> ELSE <<>>) \o Number(tm[1], 6))
    \o <<"-">> \o Number(tm[2] + 1, 2) \o <<"-">> \o Number(tm[3], 2)
    \o <<"T">> \o Clock(tm) \o <<".">> \o Number(tm[7], 3) \o <<"Z">>

UtcText(tm) ==
    <<Week[tm[8] + 1], ",", " ">> \o Number(tm[3], 2) \o <<" ", Months[tm[2] + 1], " ">>
    \o Number(tm[1], 4) \o <<" ">> \o Clock(tm) \o <<" ", "GMT">>

DateText(tm) ==
    <<Week[tm[8] + 1], " ", Months[tm[2] + 1], " ">> \o Number(tm[3], 2) \o <<" ">> \o Number(tm[1], 4)

ZoneText(east, minutes) ==
    <<" ", "GMT", IF east < 0 THEN "-" ELSE "+">> \o Number(minutes \div 60, 2) \o Number(minutes % 60, 2)

LocalText(tm, east) == DateText(tm) \o <<" ">> \o Clock(tm) \o ZoneText(east, IF east < 0 THEN -east ELSE east)

ToIsoString(t)   == IsoText(DestructDate(t, FALSE))
ToUtcString(t)   == UtcText(DestructDate(t, FALSE))
ToLocalString(t) == LocalText(DestructDate(t, TRUE), -TzOffset(t))
ToDateString(t) == DateText(DestructDate(t, TRUE))

-----------------------------------------------------------------------------
(* Parsing.  A step takes [p, tm], the place in the text s before end and  *)
(* the fields so far, and returns the next one, or Null.                   *)
Null == [p |-> 0, tm |-> <<>>]

NumberParse(s, at, end, field, size) ==
    IF at = Null \/ size = 0 \/ at.p + size > end \/ \E i \in 0..size - 1 : s[at.p + i] \notin ToSet(Figures)
    THEN Null
    ELSE [p |-> at.p + size,
          tm |-> [at.tm EXCEPT ![field] =
                     FoldLeft(LAMBDA n, c : n * 10 + FigureOf[c], 0, SubSeq(s, at.p, at.p + size - 1))]]

At(s, at, c) == at # Null /\ at.p <= Len(s) /\ s[at.p] = c
Skip(s, at, c) == IF At(s, at, c) THEN [at EXCEPT !.p = @ + 1] ELSE Null

SkipSpaces(s, at) ==
    IF ~At(s, at, " ") THEN Null
    ELSE [at EXCEPT !.p = CHOOSE q \in at.p + 1..Len(s) + 1 :
                             /\ q > Len(s) \/ s[q] # " "
                             /\ \A k \in at.p..q - 1 : s[k] = " "]

SkipWeekDay(s, at) ==
    LET spaces == {q \in at.p..Len(s) : s[q] = " "}
    IN  IF spaces = {} THEN Null ELSE [at EXCEPT !.p = Min(spaces)]

MonthParse(s, at) ==
    IF at = Null \/ at.p > Len(s) \/ s[at.p] \notin ToSet(Months) THEN Null
    ELSE [p |-> at.p + 1, tm |-> [at.tm EXCEPT ![2] = (CHOOSE i \in 1..12 : Months[i] = s[at.p]) - 1]]

(* Seconds may be missing.                                                 *)
SecondsParse(s, minutes, end) ==
    IF minutes = Null \/ minutes.p = end THEN minutes ELSE NumberParse(s, Skip(s, minutes, ":"), end, 6, 2)

MinutesParse(s, hours, end) ==
    SecondsParse(s, NumberParse(s, IF hours # Null /\ hours.p < end THEN Skip(s, hours, ":") ELSE Null, end, 5, 2), end)

TimeParse(s, at, end) == MinutesParse(s, NumberParse(s, at, end, 4, 2), end)

(* NaN also stands for -1, which the callers take for an error.            *)
GmtoffOf(sign, off) == IF sign = "+" THEN off ELSE IF off = 1 THEN NaN ELSE -off

GmtoffFields(s, at, min) ==
    IF at.p > Len(s) \/ s[at.p] \notin {"+", "-"} \/ min = Null THEN NaN
    ELSE GmtoffOf(s[at.p], min.tm[1] * 60 + min.tm[2])

GmtoffParse(s, at) ==
    GmtoffFields(s, at, NumberParse(s, NumberParse(s, [p |-> at.p + 1, tm |-> <<0, 0>>], Len(s) + 1, 1, 2),
                                    Len(s) + 1, 2, 2))

(* The fraction: one to three figures, and more that are read over.        *)
FractionOf(s, ms, end, size, utc) ==
    IF ms = Null \/ (ms.p < end /\ NumberParse(s, ms, end, 8, end - ms.p) = Null) THEN NaN
    ELSE MakeDate([ms.tm EXCEPT ![7] = @ * (CASE size = 1 -> 100 [] size = 2 -> 10 [] OTHER -> 1)], ~utc)

Fraction(s, at, end, utc) ==
    FractionOf(s, NumberParse(s, at, end, 7, Min({3, end - at.p})), end, Min({3, end - at.p}), utc)

(* A time zone, minutes east of UTC, is taken off the milliseconds.        *)
Shifted(at, off) == MakeDate([at.tm EXCEPT ![7] = -off * 60000], FALSE)

(* Each step of the ISO format ends the date, or goes on.                  *)
IsoTime(s, clock, end, utc) ==
    IF clock = Null THEN NaN ELSE IF clock.p = end THEN Shifted(clock, 0)
    ELSE IF s[clock.p] # "." THEN NaN ELSE Fraction(s, Skip(s, clock, "."), end, utc)

IsoDay(s, day, utc) ==
    IF day = Null THEN NaN ELSE IF day.p > Len(s) THEN Shifted(day, 0)
    ELSE IsoTime(s, TimeParse(s, Skip(s, day, "T"), IF utc THEN Len(s) ELSE Len(s) + 1),
                 IF utc THEN Len(s) ELSE Len(s) + 1, utc)

IsoMonth(s, named) ==
    IF named.p > Len(s) THEN Shifted(named, 0)
    ELSE IsoDay(s, NumberParse(s, Skip(s, named, "-"), Len(s) + 1, 3, 2), Last(s) = "Z")

Named(month) == [month EXCEPT !.tm[2] = @ - 1]

IsoYear(s, whole, month) ==
    IF whole = Null THEN NaN ELSE IF whole.p > Len(s) THEN Shifted(whole, 0)
    ELSE IF month = Null THEN NaN ELSE IsoMonth(s, Named(month))

(* A year of six figures, of which year has four and long the others.      *)
LongYear(s, long, y) ==
    IF long = Null \/ (s[1] = "-" /\ y = 0) THEN Null ELSE [long EXCEPT !.tm[1] = IF s[1] = "-" THEN -y ELSE y]

WholeYear(s, year, long) ==
    IF year.p > Len(s) \/ s[year.p] = "-" THEN year ELSE LongYear(s, long, year.tm[1] * 100 + long.tm[8])

IsoFrom(s, whole) == IsoYear(s, whole, NumberParse(s, Skip(s, whole, "-"), Len(s) + 1, 2, 2))

IsoParse(s, year) == IsoFrom(s, WholeYear(s, year, NumberParse(s, year, Len(s) + 1, 8, 2)))

(* A format with spaces between its parts: a part that failed, one that    *)
(* ends the text, and what comes after it.                                 *)
Ending(at) == IF at = Null THEN NaN ELSE Shifted(at, 0)

InZone(last, off) == IF off = NaN THEN NaN ELSE Shifted(last, off)

Rfc2822Last(s, last) ==
    IF last = Null \/ last.p > Len(s) THEN Ending(last)
    ELSE InZone(last, IF s[last.p] \in {"GMT", "UTC"} THEN 0 ELSE GmtoffParse(s, last))

JsLast(s, last) ==
    IF last = Null \/ last.p > Len(s) THEN Ending(last)
    ELSE IF ~At(s, last, "GMT") THEN NaN ELSE InZone(last, GmtoffParse(s, Skip(s, last, "GMT")))

ClockParse(s, clock, js) ==
    IF clock = Null \/ clock.p > Len(s) THEN Ending(clock)
    ELSE IF js THEN JsLast(s, SkipSpaces(s, clock)) ELSE Rfc2822Last(s, SkipSpaces(s, clock))

GapParse(s, gap, js) ==
    IF gap = Null \/ gap.p > Len(s) THEN Ending(gap) ELSE ClockParse(s, TimeParse(s, gap, Len(s) + 1), js)

YearParse(s, year, js) ==
    IF year = Null \/ year.p > Len(s) THEN Ending(year) ELSE GapParse(s, SkipSpaces(s, year), js)

Rfc2822Parse(s, day) ==
    YearParse(s, NumberParse(s, SkipSpaces(s, MonthParse(s, SkipSpaces(s, day))), Len(s) + 1, 1, 4), FALSE)

JsStringParse(s, month) ==
    YearParse(s, NumberParse(s, SkipSpaces(s, NumberParse(s, SkipSpaces(s, month), Len(s) + 1, 3, 2)), Len(s) + 1, 1, 4),
              TRUE)

(* A day or a month in the place at.                                       *)
DayOrMonth(s, at, day, month, else) ==
    IF at = Null THEN NaN
    ELSE IF day # Null THEN Rfc2822Parse(s, day)
    ELSE IF month # Null THEN JsStringParse(s, month)
    ELSE else

Dated(s, at, else) == DayOrMonth(s, at, NumberParse(s, at, Len(s) + 1, 3, 2), MonthParse(s, at), else)

FromStart(s, start, year, sign) ==
    IF year # Null THEN IsoParse(s, year)
    ELSE IF sign THEN NaN
    ELSE Dated(s, start, Dated(s, SkipSpaces(s, SkipWeekDay(s, start)), NaN))

StartParse(s, start, sign) == FromStart(s, start, NumberParse(s, start, Len(s) + 1, 1, 4), sign)

Signed(s) == s[1] \in {"+", "-"}

StringParse(s) ==
    IF s = <<>> THEN NaN
    ELSE StartParse(s, [p |-> IF Signed(s) THEN 2 ELSE 1, tm |-> <<0, 0, 1, 0, 0, 0, 0, 0>>], Signed(s))

-----------------------------------------------------------------------------
(* ECMAScript 5.1, chapter 15.9.1, with a calendar that counts.            *)
Leap(y) == y % 4 = 0 /\ (y % 100 # 0 \/ y % 400 = 0)
MonthLength(y, m) ==
    IF m = 1 THEN IF Leap(y) THEN 29 ELSE 28 ELSE IF m \in {3, 5, 8, 10} THEN 30 ELSE 31

StdDays(y, m, d) ==
    LET cycle == (y - 2000) \div 400
        rest  == y - 400 * cycle
    IN  10957 + 146097 * cycle + 365 * (rest - 2000) + Cardinality({k \in 2000..rest - 1 : Leap(k)})
        + MapThenSumSet(LAMBDA k : MonthLength(y, k), 0..m - 1) + d - 1

StdTime(f) ==
    Time(StdDays(f[1] + (f[2] \div 12), f[2] % 12, f[3]), f[4] * 3600000 + f[5] * 60000 + f[6] * 1000 + f[7])

(* The fields of a time: the only ones that are in range and lead to it.   *)
AreFields(f, t) ==
    /\ StdTime(f) = t
    /\ f[2] \in 0..11 /\ f[3] \in 1..MonthLength(f[1], f[2])
    /\ f[4] \in 0..23 /\ f[5] \in 0..59 /\ f[6] \in 0..59 /\ f[7] \in 0..999

(* UTC(t): summer time is looked up as if standard time were in force.     *)
StdUtc(t)  == Later(t, TzOffset(Later(t, zone.standard)))

(* The code looks it up as if t were UTC: wrong for hours around a switch. *)
NearSwitch(t) == TzOffset(t) # TzOffset(Later(t, zone.standard))

StdMake(f, local) == TimeClip(IF local THEN StdUtc(StdTime(f)) ELSE StdTime(f))
MadeAs(result, f, local) == result = StdMake(f, local) \/ (local /\ NearSwitch(StdTime(f)))

StdArgs(args, local) ==
    LET f == [i \in 1..7 |-> IF i > Len(args) THEN IF i = 3 THEN 1 ELSE 0
                             ELSE IF i = 1 /\ args[1] \in 0..99 THEN args[1] + 1900 ELSE args[i]]
    IN  f

(* What a setter changes, the other fields being those of the date.        *)
StdFields(t, name, args, local) ==
    LET old   == IF t = NaN THEN DestructDate(<<0, 0>>, FALSE) ELSE DestructDate(t, local)
        since == Setters[name][1]
    IN  [i \in 1..7 |-> IF i - since + 1 \in 1..Min({Len(args), Setters[name][2]})
                        THEN args[i - since + 1] ELSE old[i]]

(* Texts that toISOString() does not print: years and months alone, times  *)
(* without seconds, fractions of other lengths.                            *)
CutText(n, s, k) ==
    CASE n = "year"    -> SubSeq(s, 1, 4 + k)
      [] n = "month"   -> SubSeq(s, 1, 7 + k)
      [] n = "day"     -> SubSeq(s, 1, 10 + k)
      [] n = "minute"  -> SubSeq(s, 1, 16 + k) \o <<"Z">>
      [] n = "second"  -> SubSeq(s, 1, 19 + k) \o <<"Z">>
      [] n = "tenth"   -> SubSeq(s, 1, 21 + k) \o <<"Z">>
      [] n = "percent" -> SubSeq(s, 1, 22 + k) \o <<"Z">>
      [] n = "micro"   -> SubSeq(s, 1, 23 + k) \o <<"9", "9", "9", "Z">>
      [] n = "bare"    -> SubSeq(s, 1, 20 + k)
      [] n = "tee"     -> SubSeq(s, 1, 11 + k)

Cut(n, t) ==
    CASE n = "rfc" -> SubSeq(ToUtcString(t), 4, 21)
      [] n = "js"  -> ToDateString(t)
      [] OTHER     -> CutText(n, ToIsoString(t), Len(ToIsoString(t)) - 24)

CutFields(n, f) ==
    LET keep == CASE n = "year" -> 1 [] n = "month" -> 2 [] n \in {"day", "js"} -> 3
                  [] n = "minute" -> 5 [] n \in {"second", "rfc"} -> 6 [] OTHER -> 7
        cut  == [i \in 1..7 |-> IF i <= keep THEN f[i] ELSE IF i = 3 THEN 1 ELSE 0]
    IN  IF n = "tenth" THEN [cut EXCEPT ![7] = 100 * (@ \div 100)]
        ELSE IF n = "percent" THEN [cut EXCEPT ![7] = 10 * (@ \div 10)] ELSE cut

Cuts == {"year", "month", "day", "minute", "second", "tenth", "percent", "micro", "bare", "tee", "rfc", "js"}

StdParse(n, t) ==
    IF n \in {"bare", "tee"} THEN NaN ELSE TimeClip(StdTime(CutFields(n, DestructDate(t, n = "js"))))

-----------------------------------------------------------------------------
Result(t, ok) == time' = t /\ agrees' = (agrees /\ ok)

New(args) ==
    LET t == FromFields(args, TRUE)
    IN  Result(t, MadeAs(t, StdArgs(args, TRUE), TRUE)) /\ UNCHANGED utcAgrees

UTC(args) ==
    LET t == FromFields(args, FALSE)
    IN  Result(t, t = StdMake(StdArgs(args, FALSE), FALSE)) /\ UNCHANGED utcAgrees

SetTime(t) ==
    /\ Result(TimeClip(t), TRUE)
    /\ UNCHANGED utcAgrees

(* setHours() and its like, and the setUTC methods.                        *)
SetAs(t, name, args, local, used) ==
    IF /\ args # <<>> /\ \A i \in used : args[i] \notin {NaN, Throws}
       /\ time # NaN \/ name = "FullYear"
    THEN MadeAs(t, StdFields(time, name, args, local), local)
    ELSE t = IF \E i \in used : args[i] = Throws /\ \A j \in 1..i - 1 : args[j] # NaN THEN time ELSE NaN

SetTo(t, local, ok) == Result(t, ok \/ ~local) /\ utcAgrees' = (utcAgrees /\ (ok \/ local))

Set(name, args, local) ==
    LET t == SetFields(time, name, args, local)
    IN  SetTo(t, local, SetAs(t, name, args, local, {i \in DOMAIN args : i <= Setters[name][2]}))

(* Date.parse() of what the methods print gives the date back, without the *)
(* milliseconds where they are not printed.                                *)
Seconds(t) == <<t[1], t[2] - (t[2] % 1000)>>

Becomes(t, expected, ok) == Result(t, t = expected /\ ok)

Reparse ==
    /\ time # NaN
    /\ Becomes(StringParse(ToIsoString(time)), time,
               \A local \in BOOLEAN :
                  DestructDate(time, local)[1] \in 0..9999
                  => StringParse(IF local THEN ToLocalString(time) ELSE ToUtcString(time)) = Seconds(time))
    /\ UNCHANGED utcAgrees

Parse(n) ==
    /\ time # NaN
    /\ n \in {"rfc", "js"} => DestructDate(time, n = "js")[1] \in 0..9999
    /\ Becomes(StringParse(Cut(n, time)), StdParse(n, time), TRUE)
    /\ UNCHANGED utcAgrees

Arguments == UNION {[1..n -> Numbers] : n \in 0..2}

Init ==
    /\ zone \in Zones
    /\ time \in {TimeClip(t) : t \in Times}
    /\ steps = 0 /\ agrees = TRUE /\ utcAgrees = TRUE

Next ==
    /\ steps < MaxSteps
    /\ steps' = steps + 1 /\ UNCHANGED zone
    /\ \/ \E t \in Times : SetTime(t)
       \/ \E y \in Years, args \in Arguments :
             \/ {NaN, Throws} \cap ToSet(args) = {} /\ (New(<<y>> \o args) \/ UTC(<<y>> \o args))
             \/ \E local \in BOOLEAN : Set("FullYear", <<y>> \o args, local)
       \/ \E name \in DOMAIN Setters, args \in Arguments, local \in BOOLEAN : Set(name, args, local)
       \/ Reparse
       \/ \E n \in Cuts : Parse(n)

-----------------------------------------------------------------------------
(* Whatever dates are made, set, printed and parsed in a zone that has     *)
(* summer time: getters return the fields of the calendar, for every year  *)
(* that a date can have; constructors and setters normalise fields that    *)
(* are out of range; and a printed date is parsed to the same date.        *)
(* Excepted are local times within the offset of a switch and the setUTC   *)
(* methods (njs_destruct_date(), njs_make_date(), njs_date_string() and    *)
(* njs_date_string_parse()).                                               *)
DatesAsStandard ==
    /\ agrees
    /\ time # NaN =>
          \A local \in BOOLEAN :
             LET here == IF local THEN Later(time, -TzOffset(time)) ELSE time
                 get  == [name \in DOMAIN Getters |-> GetField(time, name, local)]
             IN  /\ AreFields(<<get.FullYear, get.Month, get.Date, get.Hours, get.Minutes, get.Seconds,
                                get.Milliseconds>>, here)
                 /\ get.Day = (here[1] + 4) % 7

(* njs_unit_test.c sets single UTC fields and expects the others to stay   *)
(* as they are.  The code puts the UTC fields together as local time.      *)
UtcSettersKeepUtcFields == utcAgrees

=============================================================================
