------------------------------ MODULE SynchWait ------------------------------
(***************************************************************************)
(* struct synch_wait of include/synch_wait.h: the mutex and condition      *)
(* variable one application thread sleeps on.  Every call holds the mutex  *)
(* from start to end except while it waits on the condition, so each       *)
(* operator below is one atomic step; sleep_on is two of them.             *)
(***************************************************************************)

Wait == [notified : BOOLEAN, dead : BOOLEAN, sleep : BOOLEAN]

wait_init == [notified |-> FALSE, dead |-> FALSE, sleep |-> FALSE]

\* Mutant: the sleepers are not told.
wait_exit_silent(w) == w

wait_exit(w) == [w EXCEPT !.dead = TRUE]

\* Mutant: nobody is notified who does not sleep yet.
wake_up_sleeping(w) == IF w.dead \/ ~w.sleep THEN w ELSE [w EXCEPT !.notified = TRUE]

\* Does nothing to a dead structure, nor to one already notified.
wake_up(w) == IF w.dead THEN w ELSE [w EXCEPT !.notified = TRUE]

\* sleep_on returns at once: the structure is dead, or it has been notified.
Returns(w) == w.dead \/ w.notified

\* The first step of sleep_on: blocked on the condition, or gone through.
sleep_on(w) == IF w.dead THEN w
               ELSE IF w.notified THEN [w EXCEPT !.notified = FALSE, !.sleep = FALSE]
               ELSE [w EXCEPT !.sleep = TRUE]

\* The second step, once signalled or broadcast to, or spuriously.  There is no loop
\* around the wait: whoever is woken clears the notification and returns.
Resume(w) == [w EXCEPT !.notified = FALSE, !.sleep = FALSE]
=============================================================================
