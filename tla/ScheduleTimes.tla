--------------------------- MODULE ScheduleTimes ---------------------------
(***************************************************************************)
(* When a schedule is due: the pure functions of manage_utils.c that the   *)
(* scheduler and the SQL functions next_time and next_time_ical use.       *)
(*                                                                         *)
(* A time is a natural number; 0 is both time_t 0 and the null time of     *)
(* libical, "no such time".  The rule of a schedule is the set of times    *)
(* libical's recurrence iterator produces, in order, from DTSTART and      *)
(* RRULE.  Time zones are left out: all times are in one zone.             *)
(***************************************************************************)
EXTENDS Integers, FiniteSetsExt

NoTime == 0

\* The "earliest" and "latest" time of a set, none for an empty one.
Earliest(S) == IF S = {} THEN NoTime ELSE Min(S)
Latest(S) == IF S = {} THEN NoTime ELSE Max(S)

\* Offset -1: latest before the reference.  Offset 0: earliest after it.
icalendar_next_time_from_rdates(rdates, ref_time, periods_offset) ==
    IF periods_offset = -1
    THEN Latest({t \in rdates : t < ref_time})
    ELSE Earliest({t \in rdates : t > ref_time})

(***************************************************************************)
(* The times of the rule that are not in EXDATE: the last one before the   *)
(* reference and the first one that is not before it, so that a rule time  *)
(* equal to the reference is the next time.  The RDATE times are compared  *)
(* with it by difference, also when the rule has no time left (0).         *)
(***************************************************************************)
icalendar_next_time_from_recurrence(rule, exdates, rdates, ref_time, offset) ==
    LET times == rule \ exdates
        rdates_time == icalendar_next_time_from_rdates(rdates, ref_time, offset)
        prev_time == Latest({t \in times : t < ref_time})
        next_recur == Earliest({t \in times : t >= ref_time})
    IN  IF offset = -1
        THEN IF rdates_time = NoTime \/ prev_time - rdates_time > 0
             THEN prev_time
             ELSE rdates_time
        ELSE IF rdates_time = NoTime \/ next_recur - rdates_time < 0
             THEN next_recur
             ELSE rdates_time

(***************************************************************************)
(* The older function on first_time and period, which the SQL function     *)
(* next_time calls.  (byday and period_months are left out.)               *)
(***************************************************************************)
next_time(first, period, now, periods_offset) ==
    IF first >= now THEN first
    ELSE IF period > 0
         THEN first + (((now - first) \div period) + 1 + periods_offset) * period
         ELSE IF periods_offset = -1 THEN first ELSE NoTime
=============================================================================
