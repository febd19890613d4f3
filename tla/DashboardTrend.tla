--------------------------- MODULE DashboardTrend ---------------------------
(***************************************************************************)
(* The figures of the dashboard overview that are computed from the rows   *)
(* of the broadcasts: the range of a period, the messages sent in it, and  *)
(* the trend, one bucket per hour or day of Asia/Bangkok.                  *)
(* Only functions of their arguments.                                      *)
(*                                                                         *)
(* An instant is a number of half hours, so that an hour has an inside;    *)
(* day 0 is the day in Bangkok that began seven hours before instant 0.    *)
(***************************************************************************)
EXTENDS Integers, Sequences, FiniteSetsExt, Functions

CONSTANT MonthStarts   \* the days in Bangkok on which a month begins

ASSUME MonthAssumption == MonthStarts \subseteq Int

Hour == 2
Day == 24 * Hour
BangkokOffset == 7 * Hour

Periods == {"today", "7d", "month"}
Queries == [period : Periods \cup {"none"}, days : {0, 7, 30, 90}]

(* The DTO of a query that names no period has one all the same. *)
ToDto(query) == IF query.period = "none" THEN [query EXCEPT !.period = "today"] ELSE query

ResolvePeriod(dto) ==
  CASE dto.period # "none" -> dto.period
    [] dto.period = "none" /\ dto.days = 7 -> "7d"
    [] dto.period = "none" /\ dto.days \in {30, 90} -> "month"
    [] OTHER -> "today"

(* Faulty form: midnight is that of UTC. *)
FaultyStartOf(unit, t) == (t \div unit) * unit

(* startOfBangkokDay, startOfBangkokHour *)
StartOf(unit, t) == ((t + BangkokOffset) \div unit) * unit - BangkokOffset

BangkokDay(t) == (t + BangkokOffset) \div Day

StartOfBangkokMonth(t) ==
  Max({m \in MonthStarts : m <= BangkokDay(t)}) * Day - BangkokOffset

(* The buckets of a range of days. *)
DaysOf(first, today) == (today - first) \div Day + 1

(* resolveDashboardRange *)
RangeOf(query, now) ==
  LET period == ResolvePeriod(ToDto(query))
      today  == StartOf(Day, now)
      first  == CASE period = "today" -> today
                  [] period = "7d" -> today - 6 * Day
                  [] period = "month" -> StartOfBangkokMonth(now)
  IN [start |-> first, end |-> today + Day,
      step |-> IF period = "today" THEN Hour ELSE Day,
      bucketCount |-> IF period = "today" THEN 24 ELSE DaysOf(first, today)]

(***************************************************************************)
(* What the overview says of a sequence of broadcasts.                     *)
(***************************************************************************)
Never == [known |-> FALSE]
At(t) == [known |-> TRUE, time |-> t]

BroadcastRows ==
  [status : STRING, sentAt : {Never} \cup [known : {TRUE}, time : Int],
   messageCount : Int, successCount : Int]

Within(range, time) == time.known /\ range.start <= time.time /\ time.time < range.end
SentIn(range, broadcasts) == {i \in DOMAIN broadcasts : Within(range, broadcasts[i].sentAt)}

SumOver(field, broadcasts, some) ==
  SumFunctionOnSet([i \in DOMAIN broadcasts |-> broadcasts[i][field]], some)

(* buildTrend: the query returns the broadcasts with sentAt in the range,  *)
(* the buckets take those whose hour or day begins where the bucket does.  *)
Bucket(broadcasts, range, k) ==
  {i \in SentIn(range, broadcasts) :
     StartOf(range.step, broadcasts[i].sentAt.time) = range.start + k * range.step}

BuildTrend(broadcasts, range) ==
  [k \in 0 .. range.bucketCount - 1 |->
     [sent |-> SumOver("messageCount", broadcasts, Bucket(broadcasts, range, k)),
      delivered |-> SumOver("successCount", broadcasts, Bucket(broadcasts, range, k))]]

(* buildOverview: the aggregate behind the tile with the sent messages. *)
Tiled(broadcasts) == {i \in DOMAIN broadcasts : broadcasts[i].status \in {"completed", "processing"}}

MessageSent(broadcasts, range) ==
  SumOver("successCount", broadcasts, SentIn(range, broadcasts) \cap Tiled(broadcasts))

(***************************************************************************)
(* The overview adds up.  The buckets of the trend are, together, the      *)
(* whole of the range: a broadcast that was sent in it is in one of them,  *)
(* at most one step after the bucket begins, whatever the time of day and  *)
(* the day of the month.  The tile with the sent messages is the sum of    *)
(* the trend, unless a broadcast that was delivered is marked failed.      *)
(***************************************************************************)
OverviewAddsUp(query, now, broadcasts) ==
  LET range == RangeOf(query, now)
      trend == BuildTrend(broadcasts, range)
      InTrend(field) == SumFunction([k \in DOMAIN trend |-> trend[k][field]])
      Sent == SentIn(range, broadcasts)
  IN /\ range.start <= now /\ now < range.end
     /\ range.start + range.bucketCount * range.step = range.end
     /\ InTrend("sent") = SumOver("messageCount", broadcasts, Sent)
     /\ InTrend("delivered") = MessageSent(broadcasts, range)
          + SumOver("successCount", broadcasts, Sent \ Tiled(broadcasts))
=============================================================================
