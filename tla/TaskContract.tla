---------------------------- MODULE TaskContract ----------------------------
(***************************************************************************)
(* The task state machine of the repository's contracts                     *)
(* (stack_integration/contracts/models.py): the statuses of a task, the     *)
(* terminal ones, and the table of legal transitions that every ordinary    *)
(* status change is checked against.                                        *)
(***************************************************************************)

TaskStatus ==
  {"proposed", "ready", "leased", "running", "submitted", "reviewing",
   "changes_requested", "verified", "integrated", "reconciling",
   "awaiting_input", "blocked", "failed", "cancelled"}

TERMINAL_TASK_STATES == {"integrated", "failed", "cancelled"}

\* A record is a function over strings, so the table is one record: the
\* statuses that each status may be followed by.
ALLOWED_TASK_TRANSITIONS ==
  [proposed          |-> {"ready", "blocked", "cancelled"},
   ready             |-> {"leased", "blocked", "cancelled"},
   leased            |-> {"running", "reconciling", "cancelled"},
   running           |-> {"submitted", "failed", "reconciling", "cancelled"},
   submitted         |-> {"reviewing", "changes_requested"},
   reviewing         |-> {"changes_requested", "verified", "awaiting_input"},
   changes_requested |-> {"ready", "cancelled"},
   verified          |-> {"integrated", "blocked"},
   integrated        |-> {},
   reconciling       |-> {"ready", "awaiting_input", "failed"},
   awaiting_input    |-> {"ready", "cancelled"},
   blocked           |-> {"ready", "cancelled"},
   failed            |-> {},
   cancelled         |-> {}]

assert_task_transition(current, target) ==
  target \in ALLOWED_TASK_TRANSITIONS[current]

\* Statuses in which a worker must hold the task's lease (the set the
\* scheduler tests in transition and in reconcile_expired).
LeasedStatus == {"leased", "running"}

\* Statuses that let a dependent start (refresh_ready).
DoneStatus == {"verified", "integrated"}
=============================================================================
