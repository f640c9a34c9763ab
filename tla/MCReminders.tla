---------------------------- MODULE MCReminders ----------------------------
(* Model values for TLC: reminders, templates, handlers and ticks are      *)
(* interchangeable.                                                        *)
EXTENDS Reminders, TLC

Symmetry == Permutations(Reminder) \cup Permutations(Template)
              \cup Permutations(Handler) \cup Permutations(Tick)

=============================================================================
