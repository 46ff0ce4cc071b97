---------------------------- MODULE MCAgeReport ----------------------------
(* Clocks that run over the end of February, of a leap year, of a common    *)
(* year and of a century, and over the end of a year; birth dates at the    *)
(* edges of months, years and leap days.                                    *)
EXTENDS AgeReport

MCFirstDays == {Day(2028, 2, 26), Day(2027, 2, 26), Day(2100, 2, 26),
                Day(2027, 12, 29)}
MCBirths == {Day(2003, 2, 28), Day(2003, 3, 1), Day(2004, 2, 29),
             Day(2004, 3, 1), Day(2003, 12, 31), Day(2004, 1, 1)}
MCAges == {-1, 23, 24, 25, 96}
=============================================================================
