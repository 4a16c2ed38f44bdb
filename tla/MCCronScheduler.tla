--------------------------- MODULE MCCronScheduler ---------------------------
(***************************************************************************)
(* Instances of CronScheduler for TLC: the leap day of 2028, a Tuesday, in *)
(* a zone one hour ahead of UTC; and the last Sunday of March 2028.        *)
(***************************************************************************)
EXTENDS CronScheduler

CONSTANTS c1, leap, daily, never, nine

OneCron == {c1}

\* 0 9,10 29 2 7; */20 9 * 2,3 *; 0 0 30 2 *; 0 9 * * *
MCFields ==
  [e \in {leap, daily, never, nine} |->
     CASE e = leap -> [minute |-> Just(0), hour |-> Just(9) \cup Just(10), dom |-> Just(29),
                       month |-> Just(2), dow |-> Just(7)]
       [] e = daily -> [minute |-> {[Every EXCEPT !.step = 20]}, hour |-> Just(9),
                        dom |-> {Every}, month |-> {Span(2, 3, 1)}, dow |-> {Every}]
       [] e = never -> [minute |-> Just(0), hour |-> Just(0), dom |-> Just(30),
                        month |-> Just(2), dow |-> {Every}]
       [] e = nine -> [minute |-> Just(0), hour |-> Just(9), dom |-> {Every},
                       month |-> {Every}, dow |-> {Every}]]

ThreeExprs == {leap, daily, never}
OnlyNine == {nine}

LeapDay == {At(2028, 2, 28, 22, 59), At(2028, 2, 29, 8, 0), At(2028, 2, 29, 8, 20)}
SpringForward == {At(2028, 3, 25, 8, 0), At(2028, 3, 26, 7, 0), At(2028, 3, 26, 8, 0)}
SpringShift == At(2028, 3, 26, 1, 0)

\* What clients do to the loop and to each other; a restart; and what may go wrong.
Disturbed ==
  {{"edit", "disconnect"}, {"delete", "run now"}, {"crash"}, {"run now", "disconnect"},
   {"fault", "child"}}
Undisturbed == {{}}

\* Several things go wrong while a client runs the cron; an edit is cut off.
Faulty == {{"run now", "fault"}}
Edited == {{"edit", "disconnect"}}
=============================================================================
