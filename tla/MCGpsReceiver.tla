---------------------------- MODULE MCGpsReceiver ----------------------------
(* Six environments of the GPS receiver, in one run.                        *)
EXTENDS GpsReceiver

Fixed == {Located}
AllForms == {Located, {"time"}, {}}

\* Three granules and more with a clock that is off and drifts.
Drift == [forms |-> Fixed, clocks |-> {Start - 1, Start, Start + 3, Start + 9},
          seconds |-> 16, losses |-> 0, records |-> 0, preempts |-> FALSE]

\* The same with sentences lost.
Gaps == [forms |-> Fixed, clocks |-> {Start, Start + 1}, seconds |-> 13,
         losses |-> 2, records |-> 0, preempts |-> FALSE]

\* Losses enough to run over the end of sbuff, with and without a fix.
Lossy == [forms |-> AllForms, clocks |-> {Start}, seconds |-> 2, losses |-> 4, records |-> 0,
          preempts |-> FALSE]

\* Records, over three granules.
Shared == [forms |-> Fixed, clocks |-> {Start - 1, Start, Start + 1}, seconds |-> 12,
           losses |-> 0, records |-> 3, preempts |-> FALSE]

\* A record copied field by field while gps_gprmc runs, where the year changes.
Torn == [forms |-> Fixed, clocks |-> {Start}, seconds |-> 3, losses |-> 0, records |-> 1,
         preempts |-> TRUE]

\* The same while the fix comes and goes.
Blind == [forms |-> AllForms, clocks |-> {Start}, seconds |-> 2, losses |-> 0, records |-> 1,
          preempts |-> TRUE]

Environments == {Drift, Gaps, Lossy, Shared, Torn, Blind}
=============================================================================
