------------------------------- MODULE Clock -------------------------------
(***************************************************************************)
(* Game time, the calendar and the weather: GameTime (src/mud/time.cc),    *)
(* GameCalendar (calendar.cc) and WeatherRegion (weather.cc), driven once  *)
(* a tick by main (main.cc:643-662).  The time is written when the server  *)
(* saves and read when it starts, perhaps with an edited calendar; the     *)
(* weather is only ever read.                                              *)
(***************************************************************************)
EXTENDS Integers, Sequences, FiniteSets

CONSTANTS Calendars,    \* sequences of months [days, leap]
          Weathers,     \* sequences of states, each a sequence of [to, chance]
          TicksPerHour, Hours, SunUp, SunDown,
          Width,        \* 2^8: what the month is counted modulo
          Die,          \* 100: the sides of the die thrown for the weather
          WaitHours,    \* 1 .. 4: what the hours to the next change may be
          Ludicrous,    \* 500: the longest wait a weather file may ask for
          MaxStarts     \* bound on the starts of the server

VARIABLES months,    \* the calendar
          time,      \* MTime.time
          saved,     \* the file "time"
          birthday,  \* of a player created in this world, or Unborn
          region,    \* the states of the weather
          sky, wait, \* WeatherRegion::state, ticks
          announced, \* what was announced in this tick
          starts     \* how often the server has started

clockVars == <<months, time, saved, birthday, region, sky, wait, announced, starts>>

(* A calendar has a month with days that a byte can count up to, else      *)
(* clipTime would go round for ever; load has found that the states of the *)
(* weather lead only to each other.                                        *)
ASSUME ClockAssumption ==
    /\ TicksPerHour \in Nat \ {0} /\ Hours \in Nat \ {0} /\ Width \in Nat \ {0, 1}
    /\ Die \in Nat /\ WaitHours \subseteq Nat /\ Ludicrous \in Nat
    /\ \A c \in Calendars :
          /\ c \in Seq([days : Nat, leap : Nat])
          /\ \E m \in DOMAIN c : m < Width /\ c[m].days > 0
    /\ \A w \in Weathers :
          /\ w \in Seq(Seq([to : Nat, chance : Nat])) /\ w # <<>>
          /\ \A s \in DOMAIN w : \A i \in DOMAIN w[s] : w[s][i].to \in DOMAIN w

Unborn == [year |-> 0, month |-> 0, day |-> 0, hour |-> 0, ticks |-> 0]

(* daysInMonth                                                             *)
DaysInMonth(t) ==
    IF t.month \notin DOMAIN months THEN 0
    ELSE LET m == months[t.month]
         IN  IF m.leap # 0 /\ t.year % m.leap = 0 THEN m.days + 1 ELSE m.days

(* The loops of clipTime.  The days are taken off month after month; past  *)
(* the last month there are no days to take off, and the month, a byte, is *)
(* counted up until it is 1 again: the loop of the years finds nothing.    *)
ClipHours(t) ==
    LET hour == t.hour + t.ticks \div TicksPerHour
    IN  [t EXCEPT !.ticks = @ % TicksPerHour, !.hour = hour % Hours, !.day = @ + hour \div Hours]

MonthsOn(t, n) == [t EXCEPT !.month = (@ + n) % Width]
DaysPassed(t, n) ==
    Cardinality(UNION {{k} \X (1 .. DaysInMonth(MonthsOn(t, k))) : k \in 0 .. n - 1})
Turns(t, n) == [MonthsOn(t, n) EXCEPT !.day = @ - DaysPassed(t, n)]
InMonth(t) == t.day <= DaysInMonth(t)

(* Faulty: the loop makes one turn at most.                                *)
MutClipDays(t) == IF InMonth(t) THEN t ELSE Turns(t, 1)

(* The loop ends after the first turn that leaves a day of the month.      *)
ClipDays(t) ==
    Turns(t, CHOOSE n \in 0 .. Width * (t.day + 1) :
                 InMonth(Turns(t, n)) /\ \A k \in 0 .. n - 1 : ~InMonth(Turns(t, k)))

ClipMonths(t) ==
    IF t.month <= Len(months) THEN t
    ELSE [t EXCEPT !.month = ((@ - 1) % Len(months)) + 1, !.year = @ + (t.month - 1) \div Len(months)]

DayAtLeastOne(t)   == [t EXCEPT !.day = IF @ < 1 THEN 1 ELSE @]
MonthAtLeastOne(t) == [t EXCEPT !.month = IF @ < 1 THEN 1 ELSE @]

ClipTime(t) == MonthAtLeastOne(ClipMonths(DayAtLeastOne(ClipDays(ClipHours(t)))))

IsDay(t) == SunUp <= t.hour /\ t.hour < SunDown

-----------------------------------------------------------------------------
(* initialize: the calendar, the time, the weather.  The wait before the   *)
(* weather changes is cut to something sensible.                           *)
LoadWeather(w, s, n) == region' = w /\ sky' = s /\ wait' = (IF n > Ludicrous THEN Ludicrous ELSE n)

ClockInit ==
    /\ months \in Calendars
    /\ time = [year |-> 3, month |-> 1, day |-> 1, hour |-> 0, ticks |-> 0] /\ saved = time
    /\ birthday = Unborn
    /\ region \in Weathers /\ sky = 1 /\ wait = 0
    /\ announced = {} /\ starts = 1

(* WeatherRegion::update: the die falls into the range of a change, the    *)
(* ranges laid end to end, or behind them all: "don't change".             *)
RangesTo(changes, i) == Cardinality(UNION {{j} \X (1 .. changes[j].chance) : j \in 1 .. i})
Falls(changes, n) ==
    {changes[i].to : i \in {i \in DOMAIN changes : RangesTo(changes, i - 1) < n /\ n <= RangesTo(changes, i)}}

UpdateWeather ==
    /\ UNCHANGED region
    /\ IF wait # 0 THEN wait' = wait - 1 /\ UNCHANGED sky
       ELSE \E n \in 1 .. Die, h \in WaitHours :
              /\ wait' = h * TicksPerHour
              /\ IF Falls(region[sky], n) = {} THEN UNCHANGED sky ELSE sky' \in Falls(region[sky], n)

(* One tick of main: the weather, the time, what is announced of them.     *)
ClockTick ==
    /\ UpdateWeather
    /\ time' = ClipTime([time EXCEPT !.ticks = @ + 1])
    /\ announced' = (IF IsDay(time) /\ ~IsDay(time') THEN {"sunset"} ELSE {})
          \cup (IF ~IsDay(time) /\ IsDay(time') THEN {"sunrise"} ELSE {})
          \cup (IF time'.hour # time.hour THEN {"hour"} ELSE {})
    /\ UNCHANGED <<months, saved, birthday, starts>>

(* TelnetModeRealNewCharacter::create: so many years ago today, if there   *)
(* was such a day.                                                         *)
Create(years) ==
    /\ birthday = Unborn
    /\ birthday' = ClipTime([time EXCEPT !.year = @ - years])
    /\ UNCHANGED <<months, time, saved, region, sky, wait, announced, starts>>

(* _MTime::save; _MWeather::save does nothing.                             *)
SaveTime ==
    /\ saved' = time
    /\ UNCHANGED <<months, time, birthday, region, sky, wait, announced, starts>>

(* The server starts again, perhaps with other files.  decode does not     *)
(* clip what it reads.                                                     *)
Restart(c, w, s, n) ==
    /\ starts < MaxStarts /\ starts' = starts + 1
    /\ months' = c /\ time' = saved /\ LoadWeather(w, s, n)
    /\ announced' = {}
    /\ UNCHANGED <<saved, birthday>>

ClockNext ==
    \/ ClockTick \/ SaveTime
    \/ \E years \in 1 .. 2 : Create(years)
    \/ \E c \in Calendars, w \in Weathers : \E s \in DOMAIN w, n \in {0, Ludicrous + 1} : Restart(c, w, s, n)

ClockSpec == ClockInit /\ [][ClockNext]_clockVars

-----------------------------------------------------------------------------
(* After every tick the date is a day the calendar has, whatever calendar  *)
(* the server was started with and whatever date it was saved at, and the  *)
(* weather is a state of its region (time.cc:61-83, weather.cc:160-197):   *)
(* dateStr and getCurrentDesc index vectors with them.                     *)
Dated ==
    time' # time /\ starts' = starts =>
        /\ time'.month \in DOMAIN months
        /\ time'.day \in 1 .. DaysInMonth(time)' /\ time'.hour < Hours
        /\ sky' \in DOMAIN region
DateInCalendar == [][Dated]_clockVars

============================================================================
