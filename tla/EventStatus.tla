------------------------------ MODULE EventStatus ------------------------------
(***************************************************************************)
(* The execution statuses of an OpenCL event.  The numbers are those of    *)
(* CL/cl.h; the code relies on their order: a status only ever decreases   *)
(* on its way from CL_QUEUED to CL_COMPLETE, and every negative value is   *)
(* an error with which the command was terminated.                         *)
(***************************************************************************)
EXTENDS Integers

QUEUED    == 3
SUBMITTED == 2
RUNNING   == 1
COMPLETE  == 0

OUT_OF_RESOURCES              == -5
ERROR_FOR_EVENTS_IN_WAIT_LIST == -14

\* Two representatives of the error codes: one an action or the application
\* sets, and the one the queue handler sets for a failed wait list.
Errors == {OUT_OF_RESOURCES, ERROR_FOR_EVENTS_IN_WAIT_LIST}

Statuses == {QUEUED, SUBMITTED, RUNNING, COMPLETE} \cup Errors

\* How an action of a command or a user event can end: the one error stands for
\* every negative value.
Results == {COMPLETE, OUT_OF_RESOURCES}

\* The statuses a callback can be registered for.
CallbackTypes == {SUBMITTED, RUNNING, COMPLETE}

\* Mutant: errors are forgotten.
IsFinished_CompleteOnly(st) == st = COMPLETE

\* Event::isFinished
IsFinished(st) == st = COMPLETE \/ st < 0
=============================================================================
