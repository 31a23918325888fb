-------------------------- MODULE RoutineFileProofs --------------------------
(* What holds of every schedule and of every file that is loaded. *)
EXTENDS RoutineFile, TLAPS

\* No two days of the week are the same day for cron.
LEMMA CronDayOneToOne ==
  ASSUME NEW d \in 0..6, NEW e \in 0..6
  PROVE  /\ CronDay(d) \in 0..6
         /\ CronDay(d) = CronDay(e) => d = e
BY DEF CronDay

\* A schedule fires at its time on the days it names, and on no other moment of
\* the week: the shift between the days of Python and those of cron
\* (schedule_to_cron) loses no day, and moves none.
THEOREM ScheduleKeepsItsDays ==
  ASSUME NEW s, GoodSchedule(s), NEW moment \in Moment
  PROVE  Fires(ScheduleToCron(s), moment)
           <=> /\ moment.minute = s.minute /\ moment.hour = s.hour
               /\ s.days = {} \/ moment.day \in s.days
<1> DEFINE cron == ScheduleToCron(s)
<1>1. moment.day \in 0..6
  BY DEF Moment
<1>2. CronDay(moment.day) \in 0..6
  BY <1>1, CronDayOneToOne
<1>3. cron.minute = s.minute /\ cron.hour = s.hour
  BY DEF ScheduleToCron
<1>4. CronDay(moment.day) \in cron.days <=> s.days = {} \/ moment.day \in s.days
  <2>1. CASE s.days = {}
    BY <2>1, <1>2 DEF ScheduleToCron
  <2>2. CASE s.days # {}
    <3>1. cron.days = {CronDay(d) : d \in s.days}
      BY <2>2 DEF ScheduleToCron
    <3>2. ASSUME CronDay(moment.day) \in cron.days
          PROVE  moment.day \in s.days
      <4>1. PICK d \in s.days : CronDay(moment.day) = CronDay(d)
        BY <3>1, <3>2
      <4>2. d \in 0..6
        BY <4>1 DEF GoodSchedule
      <4>3. moment.day = d
        BY <1>1, <4>1, <4>2, CronDayOneToOne
      <4> QED
        BY <4>1, <4>3
    <3>3. moment.day \in s.days => CronDay(moment.day) \in cron.days
      BY <3>1
    <3> QED
      BY <2>2, <3>2, <3>3
  <2> QED
    BY <2>1, <2>2
<1> QED
  BY <1>3, <1>4 DEF Fires

\* A file with a schedule that load_routines takes is due at some moment of the
\* week: what it refuses is all that would never fire.
THEOREM LoadedSchedulesAreDue ==
  ASSUME NEW f, Valid(f), f.keys = {"schedule"}
  PROVE  \E moment \in Moment : DueAt(f, moment)
<1> DEFINE s == f.schedule
<1>1. GoodSchedule(s)
  BY DEF Valid, GoodTrigger
<1>2. PICK d \in 0..6 : s.days = {} \/ d \in s.days
  BY <1>1 DEF GoodSchedule
<1> DEFINE moment == [minute |-> s.minute, hour |-> s.hour, day |-> d]
<1>3. moment \in Moment
  BY <1>1 DEF GoodSchedule, Moment
<1>4. Fires(ScheduleToCron(s), moment)
  <2>1. moment.minute = s.minute /\ moment.hour = s.hour /\ moment.day = d
    OBVIOUS
  <2> QED
    BY <1>1, <1>2, <1>3, <2>1, ScheduleKeepsItsDays
<1>5. DueAt(f, moment)
  BY <1>4 DEF DueAt, CronOf
<1> QED
  BY <1>3, <1>5

=============================================================================
