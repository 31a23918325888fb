---------------------------- MODULE RoutineFile ----------------------------
(***************************************************************************)
(* The files of routines_dir: what load_routines takes from each, and when *)
(* the cron expression of a schedule fires.  A file is                     *)
(*   content   "text", or why it cannot be read: "none", "locked", "bytes" *)
(*             (no UTF-8), "nojson"                                        *)
(*   id, rest  whether its id, its action and enabled are what they must be*)
(*   keys      which of on_startup, cron and schedule it declares          *)
(*   cron      its expression, NoCron for one that croniter refuses: those *)
(*             that tell days of the month are left out                    *)
(*   schedule  its time, [hour, minute], a time of digits that are no      *)
(*             decimal numbers as `odd`, and days_of_week as a set         *)
(***************************************************************************)
EXTENDS Integers, Sequences

\* A cron expression of the files: a minute, an hour and days of the week, with
\* 0 for Sunday; all seven for "*".
Cron == [minute : 0..59, hour : 0..23, days : SUBSET (0..6)]
NoCron == [minute |-> 0, hour |-> 0, days |-> {}]

\* A moment of the week, its day as in Python: 0 for Monday.
Moment == [minute : 0..59, hour : 0..23, day : 0..6]

\* What cron calls the day that Python calls d.
CronDay(d) == (d + 1) % 7

\* croniter: the expression fires at that moment.
Fires(cron, moment) ==
  /\ cron.minute = moment.minute /\ cron.hour = moment.hour
  /\ CronDay(moment.day) \in cron.days

GoodSchedule(s) ==
  /\ ~s.odd /\ s.hour \in 0..23 /\ s.minute \in 0..59
  /\ s.days \subseteq 0..6

\* schedule_to_cron; no days_of_week is every day.
ScheduleToCron(s) ==
  [minute |-> s.minute, hour |-> s.hour,
   days |-> IF s.days = {} THEN 0..6 ELSE {CronDay(d) : d \in s.days}]

\* _resolve_cron: exactly one key, with a value that will do.
GoodTrigger(f) ==
  \/ f.keys = {"on_startup"}
  \/ f.keys = {"cron"} /\ f.cron # NoCron
  \/ f.keys = {"schedule"} /\ GoodSchedule(f.schedule)

CronOf(f) == IF f.keys = {"cron"} THEN f.cron ELSE ScheduleToCron(f.schedule)

\* When the routine of the file is due.
DueAt(f, moment) == f.keys # {"on_startup"} /\ Fires(CronOf(f), moment)

\* parse_routine: what it raises is RoutineError, but for a file that is not
\* UTF-8, and a time that isdigit takes for a number and int does not.
Escapes(f) ==
  \/ f.content = "bytes"
  \/ f.content = "text" /\ f.id /\ f.keys = {"schedule"} /\ f.schedule.odd
Valid(f) == f.content = "text" /\ f.id /\ f.rest /\ GoodTrigger(f)

\* load_routines: the files it takes; an exception that escapes leaves none.
Loads(files) == \A i \in DOMAIN files : ~Escapes(files[i])
Loaded(files) == IF Loads(files) THEN {i \in DOMAIN files : Valid(files[i])} ELSE {}

=============================================================================
