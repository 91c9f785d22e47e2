----------------------------- MODULE StatusRules -----------------------------
(***************************************************************************)
(* The appointment statuses and the rules for changing them:              *)
(* src/src/features/appointments/statusRules.ts and statusMeta.ts.         *)
(* Statuses carry their database spelling.  "rescheduled" is a legacy      *)
(* value that can never be chosen, so no row of the model ever holds it.   *)
(* Instants are natural numbers; DayLength of them make a calendar day.    *)
(***************************************************************************)
EXTENDS Integers

CONSTANT DayLength

ASSUME DayLengthAssumption == DayLength \in Nat \ {0}

\* Statuses that occupy the calendar.
ActiveStatuses == {"pending", "confirmed", "checked_in", "in_progress"}

\* Recorded outcomes: leaving one of them is a correction of history.
CorrectionSources == {"completed", "no_show", "cancelled"}

\* Statuses that are a real past: such a row is never physically deleted.
HistoryStatuses == {"completed", "no_show", "checked_in", "in_progress"}

Statuses == ActiveStatuses \cup CorrectionSources

Day(t) == t \div DayLength

HasStarted(start, clock) == start <= clock

IsHistoryCorrection(from, to) == from # to /\ from \in CorrectionSources

\* May an appointment starting at `start` go from one status to another now?
\* `started` and `isToday` are the two facts about the clock the rule uses.
TransitionRule(from, to, started, isToday) ==
    \/ from = to
    \/ to = "pending" /\ from = "confirmed" /\ ~started
    \/ to = "confirmed" /\ (from = "cancelled" => ~started)
    \/ /\ to = "checked_in"
       /\ from \in {"pending", "confirmed"}
       /\ started \/ isToday
    \/ /\ to = "in_progress"
       /\ from \in {"confirmed", "checked_in"}
       /\ started \/ isToday
    \/ to = "completed" /\ from \in {"checked_in", "in_progress"}
    \/ to = "completed" /\ from \in {"pending", "confirmed", "no_show"} /\ started
    \/ to = "no_show" /\ from \in {"pending", "confirmed", "completed"} /\ started
    \/ to = "cancelled" /\ from \in {"pending", "confirmed"} /\ ~started

CheckStatusTransition(from, to, start, clock) ==
    TransitionRule(from, to, HasStarted(start, clock), Day(start) = Day(clock))

\* The workspace time zone could not be read: only what is allowed both long
\* before and long after the appointment passes.
TransitionWhateverTheTime(from, to) ==
    TransitionRule(from, to, FALSE, FALSE) /\ TransitionRule(from, to, TRUE, FALSE)

\* Statuses a new appointment may be entered with.
InitialRule(status, started, isToday) ==
    \/ status \in {"pending", "confirmed", "cancelled"}
    \/ status \in {"completed", "no_show"} /\ started
    \/ status \in {"checked_in", "in_progress"} /\ (started \/ isToday)

CheckInitialStatus(status, start, clock) ==
    InitialRule(status, HasStarted(start, clock), Day(start) = Day(clock))

InitialWhateverTheTime(status) ==
    InitialRule(status, FALSE, FALSE) /\ InitialRule(status, TRUE, FALSE)
=============================================================================
