-------------------------------- MODULE Event --------------------------------
(***************************************************************************)
(* System/Event.cpp on POSIX as a value: the Signaled flag that makes the  *)
(* event "statefull" and the threads blocked on its condition variable.    *)
(* Each method runs under the event's own pthread mutex, and               *)
(* pthread_cond_wait gives that mutex up as it blocks, so each of these    *)
(* is one step.                                                            *)
(***************************************************************************)

NewEvent == [signaled |-> FALSE, waiters |-> {}]

(* The flag is not set: only the threads already blocked are woken. *)
Signal_NotSticky(ev) == [ev EXCEPT !.waiters = {}]

(* Signal: set the flag and broadcast. *)
Signal(ev) == [signaled |-> TRUE, waiters |-> {}]

Reset(ev) == [ev EXCEPT !.signaled = FALSE]

(* Wait blocks only when the flag is not set... *)
Passes(ev) == ev.signaled

Blocked(ev, a) == [ev EXCEPT !.waiters = @ \cup {a}]

(* ...and once: the flag is tested by an if, not by a loop, so a thread    *)
(* that is no longer blocked returns whatever the flag says.               *)
Woken(ev, a) == a \notin ev.waiters

(* pthread_cond_(timed)wait comes back for a to return: at the timeout or  *)
(* because of a spurious wakeup.                                           *)
Unblocked(ev, a) == [ev EXCEPT !.waiters = @ \ {a}]

==============================================================================
