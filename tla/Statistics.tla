----------------------------- MODULE Statistics -----------------------------
(***************************************************************************)
(* What the statistics pages compute from a logbook and from the climbs of *)
(* a wall (web/src/lib/stats.ts, web/src/components/Stats.tsx and          *)
(* web/src/pages/Stats.tsx), next to what the numbers should be.           *)
(*                                                                         *)
(* Days are numbers, from a Monday; months have four weeks here.  Grades   *)
(* are their ranks, and None is a climb without one.                       *)
(***************************************************************************)
EXTENDS Integers, Sequences, FiniteSets, FiniteSetsExt, SequencesExt, Arrays

CONSTANTS
    Climb,           \* ids
    GradeOf, WallOf, \* functions of them
    Days,       \* on which there may be an entry
    Today,
    Weeks,      \* of the calendar: 26 in the code
    Months,     \* of the progression: 12
    MaxEntries, \* bounds the logbook
    None

VARIABLES
    book,     \* the logbook, in the order of the server's answer
    wall      \* of the address: None or a wall

vars == <<book, wall>>

Outcomes == {"attempt", "send", "flash"}
Walls == Range(WallOf)

Init ==
    /\ book = <<>>
    /\ wall = None

\* An entry is logged, anywhere in the order.
Log ==
    /\ Len(book) < MaxEntries                                          \* bound
    /\ \E c \in Climb, o \in Outcomes, d \in Days :
        \E i \in 1..Len(book) + 1 :
            book' = InsertAt(book, i, [climb |-> c, outcome |-> o, day |-> d])
    /\ UNCHANGED wall

SelectWall ==
    /\ wall' \in Walls \cup {None}
    /\ wall' # wall
    /\ UNCHANGED book

Next == Log \/ SelectWall

Spec == Init /\ [][Next]_vars

-----------------------------------------------------------------------------
(* The computations.                                                       *)

Filtered == Kept(book, {i \in DOMAIN book : wall \in {None, WallOf[book[i].climb]}})

Sent ==
    LET filtered == Filtered
    IN  Kept(filtered, {i \in DOMAIN filtered : filtered[i].outcome \in {"send", "flash"}})

Rank(grade) == IF grade = None THEN -1 ELSE grade

\* Ungraded climbs come last.
GradeBuckets(rows) ==
    Arranged(rows, [b \in rows |-> {a \in rows : a.grade # None /\ (b.grade = None \/ a.grade < b.grade)}])

\* Each climb that has been sent, with whether one of its entries is a flash.
SentRoutesOnce ==                                                      \* mutant
    FoldSeq(LAMBDA e, routes : {r \in routes : r.climb # e.climb}
                \cup {[climb |-> e.climb, flash |-> e.outcome = "flash"]}, {}, Sent)

SentRoutes ==
    FoldSeq(LAMBDA e, routes : {r \in routes : r.climb # e.climb}
                \cup {[climb |-> e.climb,
                       flash |-> e.outcome = "flash"
                                 \/ \E r \in routes : r.climb = e.climb /\ r.flash]}, {}, Sent)

Pyramid ==
    LET row(grade) ==
            LET routes == {r \in SentRoutes : GradeOf[r.climb] = grade}
                flashes == Cardinality({r \in routes : r.flash})
            IN  [grade |-> grade, sends |-> Cardinality(routes) - flashes, flashes |-> flashes]
    IN  GradeBuckets({row(GradeOf[r.climb]) : r \in SentRoutes})

MonthOf(day) == day \div 28

HardestLater(m) ==                                                     \* mutant
    FoldLeft(LAMBDA best, e : IF MonthOf(e.day) # m THEN best ELSE GradeOf[e.climb], None, Sent)

\* hardest_by_month, of each of the last months.
HardestIn(m) ==
    FoldLeft(LAMBDA best, e :
                IF MonthOf(e.day) = m /\ (best = None \/ Rank(GradeOf[e.climb]) > Rank(best))
                THEN GradeOf[e.climb] ELSE best, None, Sent)

HardestByMonth == [m \in MonthOf(Today) - Months + 1 .. MonthOf(Today) |-> HardestIn(m)]

HardestSend ==
    LET graded == {GradeOf[r.climb] : r \in SentRoutes} \ {None}
    IN  IF graded = {} THEN None ELSE Max(graded)

WeekStart(day) == day - (day % 7)

CountOn(day) ==
    LET filtered == Filtered
    IN  Cardinality({i \in DOMAIN filtered : filtered[i].day = day})

Calendar ==
    [i \in 0..7 * Weeks - 1 |->
        LET day == WeekStart(Today) - 7 * (Weeks - 1) + i
        IN  [day |-> day, count |-> CountOn(day)]]

ActiveWeeks == {WeekStart(e.day) : e \in Range(Filtered)}

LongestWithoutReset ==                                                 \* mutant
    FoldLeft(LAMBDA s, week :
                LET run == s.run + 1
                IN  [previous |-> week, run |-> run, longest |-> Max({s.longest, run})],
             [previous |-> None, run |-> 0, longest |-> 0],
             Ascending(ActiveWeeks)).longest

Longest ==
    FoldLeft(LAMBDA s, week :
                LET run == IF s.previous # None /\ week - s.previous = 7 THEN s.run + 1 ELSE 1
                IN  [previous |-> week, run |-> run, longest |-> Max({s.longest, run})],
             [previous |-> None, run |-> 0, longest |-> 0],
             Ascending(ActiveWeeks)).longest

\* The streak that this week is in, going back to the first week that has nothing in it.
Current ==
    Min({i \in 0..Cardinality(ActiveWeeks) : WeekStart(Today) - 7 * i \notin ActiveWeeks})

Totals ==
    LET filtered == Filtered
        count(outcome) == Cardinality({i \in DOMAIN filtered : filtered[i].outcome = outcome})
    IN  [sends |-> count("send"), flashes |-> count("flash"), attempts |-> count("attempt"),
         climbs |-> Cardinality(SentRoutes), days |-> Cardinality({e.day : e \in Range(Filtered)})]

LevelBelow(value, max) ==                                              \* mutant
    IF value <= 0 THEN 0 ELSE Min({4, (value * 4 - 1) \div Max({max, 1})})

\* heatColor: 0 for nothing, then four levels.
Level(value, max) ==
    IF value <= 0 THEN 0
    ELSE LET most == Max({max, 1}) IN Min({4, (value * 4 + most - 1) \div most})

\* CalendarHeatmap
MostCounted(calendar) == Max({1} \cup {calendar[i].count : i \in DOMAIN calendar})

\* BarChart of the pyramid: the parts of a bar, of the longest one.
Longer(bars) == Max({1} \cup {bars[i].sends + bars[i].flashes : i \in DOMAIN bars})

-----------------------------------------------------------------------------

TypeOK ==
    /\ \A e \in Range(book) : e.climb \in Climb /\ e.outcome \in Outcomes /\ e.day \in Days
    /\ wall \in Walls \cup {None}

\* A cell of the calendar is coloured if and only if there is an entry, the
\* busiest one the most, and no bar is longer than its track.
ColoursShowEntries ==
    LET calendar == Calendar
        most == MostCounted(calendar)
        level(i) == Level(calendar[i].count, most)
        bars == Pyramid
    IN  /\ \A i \in DOMAIN calendar :
            /\ level(i) \in 0..4
            /\ (level(i) = 0) = (calendar[i].count = 0)
            /\ calendar[i].count = most => level(i) = 4
        /\ \A i \in DOMAIN bars :
            /\ bars[i].sends >= 0 /\ bars[i].flashes >= 0
            /\ bars[i].sends + bars[i].flashes <= Longer(bars)

\* The streaks are the runs of weeks with an entry: the longest of them, and
\* the one that ends this week.
StreaksAreRuns ==
    LET runs == {r \in ActiveWeeks \X (1..MaxEntries) :
                    \A i \in 0..r[2] - 1 : r[1] + 7 * i \in ActiveWeeks}
        ending == {r \in runs : r[1] + 7 * (r[2] - 1) = WeekStart(Today)}
    IN  /\ Longest = Max({0} \cup {r[2] : r \in runs})
        /\ Current = Max({0} \cup {r[2] : r \in ending})

\* The pyramid counts every climb that has been sent once, as a flash if it has
\* been flashed, in the order of the grades: it agrees with the totals and with
\* the hardest send, whatever the order of the entries.
PyramidCountsClimbs ==
    LET p == Pyramid
        climbs(grade) == {c \in {e.climb : e \in Range(Sent)} : GradeOf[c] = grade}
        flashed(c) == \E e \in Range(Sent) : e.climb = c /\ e.outcome = "flash"
    IN  /\ \A i, j \in DOMAIN p : i < j => p[i].grade # None /\ (p[j].grade # None => p[i].grade < p[j].grade)
        /\ {p[i].grade : i \in DOMAIN p} = {GradeOf[e.climb] : e \in Range(Sent)}
        /\ \A i \in DOMAIN p :
            /\ p[i].flashes = Cardinality({c \in climbs(p[i].grade) : flashed(c)})
            /\ p[i].sends + p[i].flashes = Cardinality(climbs(p[i].grade))
        /\ Totals.climbs = Cardinality({e.climb : e \in Range(Sent)})
        /\ HardestSend = LET graded == {p[i].grade : i \in DOMAIN p} \ {None}
                         IN  IF graded = {} THEN None ELSE Max(graded)

\* A month shows the hardest climb that was sent in it, whatever the order of
\* the entries, and an ungraded one never hides a graded one.
MonthsShowHardest ==
    \A m \in DOMAIN HardestByMonth :
        LET graded == {GradeOf[e.climb] : e \in {e \in Range(Sent) : MonthOf(e.day) = m}} \ {None}
        IN  HardestByMonth[m] = IF graded = {} THEN None ELSE Max(graded)

=============================================================================
