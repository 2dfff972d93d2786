-------------------------- MODULE GpsReceiver_proofs --------------------------
(***************************************************************************)
(* The clock and the framing, for every calendar, buffer and environment:    *)
(* types, what a fix does to the clock, the order of the sentences, what     *)
(* losses cost, whole messages, how close the clock stays, and file names.   *)
(***************************************************************************)
EXTENDS GpsReceiver, FiniteSetTheorems, SequenceTheorems, TLAPS

-----------------------------------------------------------------------------
(* Arithmetic of the calendar                                              *)

\* Quotient and remainder, the arithmetic the calendar is built on.
LEMMA DivMod ==
    ASSUME NEW t \in Int, NEW d \in Nat \ {0}
    PROVE  /\ t \div d \in Int /\ (t % d) \in Int
           /\ t = d * (t \div d) + (t % d)
           /\ 0 <= (t % d) /\ (t % d) < d
OBVIOUS

\* The fields mktime normalises are integers, and so are those of gps_data.
LEMMA CalendarType ==
    ASSUME NEW t \in Int
    PROVE  /\ Calendar(t) \in [sec : Int, min : Int, hour : Int, mday : Int, mon : Int, year : Int]
           /\ Stamp(t) \in [sec : Int, min : Int, hour : Int, mday : Int, mon : Int, year : Int]
           /\ \A f \in TmTime : Calendar(t)[f] \in Int /\ Stamp(t)[f] \in Int
           /\ \A f \in TmTime \ {"mon"} : Stamp(t)[f] = Calendar(t)[f]
           /\ Stamp(t).mon = Calendar(t).mon + 1
<1> DEFINE second == t % DAY
           minutes == second \div SECS
           days == t \div DAY
           months == days \div DAYS
<1>1. /\ SECS \in Nat \ {0} /\ MINS \in Nat \ {0}
      /\ DAY \in Nat \ {0} /\ DAYS \in Nat \ {0} /\ MONTHS \in Nat \ {0}
  BY GpsAssumption
<1>2. days \in Int /\ second \in Int BY <1>1, DivMod
<1>3. Calendar(t) = [sec |-> (second % SECS), min |-> (minutes % MINS), hour |-> minutes \div MINS,
                     mday |-> (days % DAYS) + 1, mon |-> (months % MONTHS),
                     year |-> months \div MONTHS]
  BY DEF Calendar
<1> HIDE DEF days, second
<1>4. months \in Int /\ (days % DAYS) \in Int BY <1>1, <1>2, DivMod
<1>5. minutes \in Int /\ (second % SECS) \in Int BY <1>1, <1>2, DivMod
<1> HIDE DEF months, minutes
<1>6. months \div MONTHS \in Int /\ (months % MONTHS) \in Int BY <1>1, <1>4, DivMod
<1>7. minutes \div MINS \in Int /\ (minutes % MINS) \in Int BY <1>1, <1>5, DivMod
<1> DEFINE c == Calendar(t)
<1>8. c \in [sec : Int, min : Int, hour : Int, mday : Int, mon : Int, year : Int]
  BY <1>3, <1>4, <1>5, <1>6, <1>7
<1>9. Stamp(t) = [c EXCEPT !.mon = c.mon + 1] BY DEF Stamp
<1> HIDE DEF c
<1>10. /\ Stamp(t) \in [sec : Int, min : Int, hour : Int, mday : Int, mon : Int, year : Int]
       /\ \A f \in TmTime : c[f] \in Int /\ Stamp(t)[f] \in Int
       /\ \A f \in TmTime \ {"mon"} : Stamp(t)[f] = c[f]
       /\ Stamp(t).mon = c.mon + 1
  BY <1>8, <1>9 DEF TmTime
<1> QED BY <1>8, <1>10 DEF c

\* mktime takes the date of a second back to that second, for any lengths of the
\* minute, the hour, the day, the month and the year.
LEMMA MktimeInverse ==
    ASSUME NEW t \in Int
    PROVE  Mktime(Calendar(t)) = t
<1> DEFINE second == t % DAY
           minutes == second \div SECS
           hours == minutes \div MINS
           days == t \div DAY
           months == days \div DAYS
           years == months \div MONTHS
<1>1. /\ SECS \in Nat \ {0} /\ MINS \in Nat \ {0}
      /\ DAY \in Nat \ {0} /\ DAYS \in Nat \ {0} /\ MONTHS \in Nat \ {0}
  BY GpsAssumption
<1>2. days \in Int /\ second \in Int /\ t = DAY * days + second
  BY <1>1, DivMod
<1>3. Calendar(t) = [sec |-> (second % SECS), min |-> (minutes % MINS), hour |-> hours,
                     mday |-> (days % DAYS) + 1, mon |-> (months % MONTHS), year |-> years]
  BY DEF Calendar
<1> HIDE DEF days, second
<1>4. months \in Int /\ (days % DAYS) \in Int /\ days = DAYS * months + (days % DAYS)
  BY <1>1, <1>2, DivMod
<1>5. minutes \in Int /\ (second % SECS) \in Int /\ second = SECS * minutes + (second % SECS)
  BY <1>1, <1>2, DivMod
<1> HIDE DEF months, minutes
<1>6. years \in Int /\ (months % MONTHS) \in Int /\ months = MONTHS * years + (months % MONTHS)
  BY <1>1, <1>4, DivMod
<1>7. hours \in Int /\ (minutes % MINS) \in Int /\ minutes = MINS * hours + (minutes % MINS)
  BY <1>1, <1>5, DivMod
<1> HIDE DEF years, hours
<1>8. Mktime(Calendar(t)) = ((years * MONTHS + (months % MONTHS)) * DAYS
                             + ((days % DAYS) + 1) - 1) * DAY
                            + (hours * MINS + (minutes % MINS)) * SECS + (second % SECS)
  BY <1>3 DEF Mktime
<1>9. years * MONTHS + (months % MONTHS) = months BY <1>1, <1>6
<1>10. months * DAYS + ((days % DAYS) + 1) - 1 = days BY <1>1, <1>4
<1>11. hours * MINS + (minutes % MINS) = minutes BY <1>1, <1>7
<1>12. days * DAY \in Int /\ minutes * SECS \in Int /\ days * DAY = DAY * days
       /\ minutes * SECS = SECS * minutes
  BY <1>1, <1>2, <1>5
<1>13. days * DAY + minutes * SECS + (second % SECS) = t BY <1>2, <1>5, <1>12
<1> QED BY <1>8, <1>9, <1>10, <1>11, <1>13

\* Two seconds of one granule are less than a granule apart.
LEMMA GranuleClose ==
    ASSUME NEW t \in Int, NEW u \in Int, SameGranule(t, u)
    PROVE  Abs(t - u) < GRANULE
<1>1. GRANULE \in Nat \ {0} BY GpsAssumption
<1> DEFINE q == t \div GRANULE
<1>2. t \div GRANULE = u \div GRANULE BY DEF SameGranule
<1>3. /\ (t % GRANULE) \in Int /\ (u % GRANULE) \in Int /\ q \in Int
      /\ t = GRANULE * q + (t % GRANULE) /\ u = GRANULE * q + (u % GRANULE)
      /\ 0 <= (t % GRANULE) /\ (t % GRANULE) < GRANULE
      /\ 0 <= (u % GRANULE) /\ (u % GRANULE) < GRANULE
  BY <1>1, <1>2, DivMod
<1> HIDE DEF q
<1>4. GRANULE * q \in Int BY <1>1, <1>3
<1>5. t - u = (t % GRANULE) - (u % GRANULE) BY <1>3, <1>4
<1> QED BY <1>1, <1>3, <1>5 DEF Abs

-----------------------------------------------------------------------------
(* Type correctness                                                        *)

\* s_index is the length of the frame, and a copy under way is not complete.
\* Without them a step could leave sbuff, or copy a field there is not.
Within ==
    /\ s_index # -1 => Len(sbuff) = s_index
    /\ mesg = "copy" => copied < Len(Memory)

\* What the receiver sends in a second are eight pieces of two sentences.
LEMMA BurstType ==
    ASSUME NEW t \in Nat, NEW has \in SUBSET Located
    PROVE  /\ Burst(t, has) \in Seq(Piece) /\ Len(Burst(t, has)) = 8
           /\ \A i \in 1 .. 8 : Burst(t, has)[i] \in Piece
<1>1. ASSUME NEW i \in 1 .. 8
      PROVE  [c |-> Marks[((i - 1) % 4) + 1],
              s |-> [kind |-> Kinds[((i - 1) \div 4) + 1], t |-> t, has |-> has]] \in Piece
  <2>1. ((i - 1) % 4) + 1 \in 1 .. 4 /\ ((i - 1) \div 4) + 1 \in 1 .. 2 OBVIOUS
  <2>2. \A j \in 1 .. 4 : Marks[j] \in {"$", "fields", "*", "CR"} BY DEF Marks
  <2>3. \A j \in 1 .. 2 : Kinds[j] \in {"GGA", "RMC"} BY DEF Kinds
  <2> QED BY <2>1, <2>2, <2>3 DEF Piece, Sentence
<1> QED BY <1>1 DEF Burst

USE DEF lineVars, frameVars, timeVars, clockVars, recVars, mesgVars

\* The state gps.c starts in has its types.
LEMMA TypeInit == Init => TypeOK /\ Within
BY GpsAssumption, ScenesAssumption
   DEF Init, TypeOK, Within, NoSentence, Sentence, Zeroed, GpsData, Letters, Raw, Located, RmcPlaces,
       Fields, Position, TmTime, Memory

\* Time, the receiver and the line keep the types.
LEMMA EnvironmentType ==
    ASSUME TypeOK, Within, Tick \/ Transmit \/ Lose
    PROVE  TypeOK' /\ Within'
<1>1. CASE Tick
  BY <1>1 DEF Tick, TypeOK, Within
<1>2. CASE Transmit
  <2>1. PICK form \in scene.forms : line' = Burst(now, form) BY <1>2 DEF Transmit
  <2>2. form \in SUBSET Located BY ScenesAssumption DEF TypeOK
  <2>3. line' \in Seq(Piece) BY <2>1, <2>2, BurstType DEF TypeOK
  <2> QED BY <1>2, <2>3 DEF Transmit, TypeOK, Within
<1>3. CASE Lose
  <2>1. scene.losses \in Nat BY ScenesAssumption DEF TypeOK
  <2>2. losses' \in 0 .. scene.losses BY <1>3, <2>1 DEF Lose, TypeOK
  <2>3. line' \in Seq(Piece) BY <1>3 DEF Lose, TypeOK
  <2> QED BY <1>3, <2>2, <2>3 DEF Lose, TypeOK, Within
<1> QED BY <1>1, <1>2, <1>3

\* proc_gps keeps the types, and s_index is the length of an open frame.
LEMMA FrameType ==
    ASSUME TypeOK, Within, FrameStart \/ FrameSkip \/ FrameChar \/ FrameEnd
    PROVE  TypeOK' /\ Within'
<1>1. line # <<>> /\ line' = Tail(line) /\ line \in Seq(Piece)
  BY DEF FrameStart, FrameSkip, FrameChar, FrameEnd, Take, TypeOK
<1>2. line' \in Seq(Piece) /\ Head(line) \in Piece
  BY <1>1
<1>3. SBUFF \in Nat \ {0} BY GpsAssumption
<1>4. CASE FrameStart
  <2>1. sbuff' = <<Head(line)>> /\ s_index' = 1 BY <1>4 DEF FrameStart
  <2>2. sbuff' \in Seq(Piece) /\ Len(sbuff') = 1 BY <1>2, <2>1
  <2> QED BY <1>2, <1>3, <1>4, <2>1, <2>2 DEF FrameStart, Take, TypeOK, Within
<1>5. CASE FrameSkip
  BY <1>2, <1>5 DEF FrameSkip, Take, TypeOK, Within
<1>6. CASE FrameChar
  <2>1. CASE UNCHANGED <<sbuff, s_index>>
    BY <1>2, <1>6, <2>1 DEF FrameChar, Take, TypeOK, Within
  <2>2. CASE ~UNCHANGED <<sbuff, s_index>>
    <3>1. /\ s_index # -1 /\ s_index < SBUFF /\ s_index \in Nat
          /\ sbuff' = Append(sbuff, Head(line)) /\ s_index' = s_index + 1
      BY <1>6, <2>2, <1>3 DEF FrameChar, TypeOK
    <3>2. sbuff' \in Seq(Piece) /\ Len(sbuff') = Len(sbuff) + 1 /\ Len(sbuff) = s_index
      BY <1>2, <3>1 DEF TypeOK, Within
    <3> QED BY <1>2, <1>3, <1>6, <3>1, <3>2 DEF FrameChar, Take, TypeOK, Within
  <2> QED BY <2>1, <2>2
<1>7. CASE FrameEnd
  <2>1. s_index' = -1 /\ sbuff' = sbuff BY <1>7 DEF FrameEnd
  <2>2. CASE Accept
    <3>1. gps_checksum BY <1>7, <2>2 DEF FrameEnd, Accept, TypeOK
    <3>2. cmd' \in Sentence
      <4>1. sbuff[2] \in Piece BY <3>1 DEF gps_checksum, TypeOK
      <4> QED BY <2>2, <4>1 DEF Accept, Piece
    <3>3. gps' \in RmcPlaces \cup {"read", "gga"} BY <2>2 DEF Accept, RmcPlaces
    <3> QED BY <1>2, <1>7, <2>1, <2>2, <3>2, <3>3 DEF FrameEnd, Accept, Take, TypeOK, Within
  <2>3. CASE ~Accept
    <3>1. UNCHANGED <<cmd, taken, gps, torn, blind>> /\ crashed' \in {0, 1}
      BY <1>7, <2>3 DEF FrameEnd, TypeOK
    <3>2. UNCHANGED <<scene, now, adjusted, clockVars, due, losses, starLost, timeVars, gps_data,
                      mesgVars>>
      BY <1>7 DEF FrameEnd, Take
    <3> QED BY <1>2, <2>1, <3>1, <3>2 DEF TypeOK, Within
  <2> QED BY <2>2, <2>3
<1> QED BY <1>4, <1>5, <1>6, <1>7

\* What the statement gps_gprmc is at stores, and that it leaves the rest.
LEMMA WrittenIs ==
    ASSUME TypeOK
    PROVE  /\ gps = "clear" =>
                  \A f \in Fields : Written[f] = IF f \in TmTime THEN 0 ELSE gps_data[f]
           /\ gps = "time" =>
                  \A f \in Fields : Written[f] = IF "time" \in cmd.has /\ f \in {"hour", "min", "sec"}
                                                THEN Stamp(cmd.t)[f] ELSE gps_data[f]
           /\ gps = "date" =>
                  \A f \in Fields : Written[f] = IF "speed" \in cmd.has /\ f \in {"mday", "mon"}
                                                THEN Stamp(cmd.t)[f] ELSE gps_data[f]
           /\ gps = "ns" =>
                  \A f \in Fields : Written[f] = IF "position" \in cmd.has /\ f = "ns_d" THEN cmd.t
                                                ELSE IF "position" \in cmd.has /\ f = "ns_m10000"
                                                THEN Raw ELSE gps_data[f]
           /\ gps = "ew" =>
                  \A f \in Fields : Written[f] = IF "position" \in cmd.has /\ f = "ew_d" THEN cmd.t
                                                ELSE IF "position" \in cmd.has /\ f = "ew_m10000"
                                                THEN Raw ELSE gps_data[f]
           /\ gps \notin {"clear", "time", "date", "ns", "ew"} => Written = gps_data
           /\ DOMAIN Written = Fields
<1>0. DOMAIN gps_data = Fields BY DEF TypeOK, GpsData
<1>1. CASE gps = "clear"
  <2>1. Written = [f \in Fields |-> IF f \in TmTime THEN Zeroed[f] ELSE gps_data[f]]
    BY <1>1 DEF Written
  <2>2. \A f \in TmTime : Zeroed[f] = 0 BY DEF Zeroed, TmTime, Fields, Position, Minutes
  <2> QED BY <1>1, <2>1, <2>2
<1>2. CASE gps = "time"
  <2>1. CASE "time" \in cmd.has
    <3>1. Written = [f \in Fields |-> IF f \in {"hour", "min", "sec"} THEN Stamp(cmd.t)[f]
                                     ELSE gps_data[f]]
      BY <1>2, <2>1 DEF Written
    <3> QED BY <1>2, <2>1, <3>1
  <2>2. CASE "time" \notin cmd.has
    <3>1. Written = gps_data BY <1>2, <2>2 DEF Written
    <3> QED BY <1>0, <1>2, <2>2, <3>1
  <2> QED BY <2>1, <2>2
<1>3. CASE gps = "date"
  <2>1. CASE "speed" \in cmd.has
    <3>1. Written = [f \in Fields |-> IF f \in {"mday", "mon"} THEN Stamp(cmd.t)[f]
                                     ELSE gps_data[f]]
      BY <1>3, <2>1 DEF Written
    <3> QED BY <1>3, <2>1, <3>1
  <2>2. CASE "speed" \notin cmd.has
    <3>1. Written = gps_data BY <1>3, <2>2 DEF Written
    <3> QED BY <1>0, <1>3, <2>2, <3>1
  <2> QED BY <2>1, <2>2
<1>4. CASE gps = "ns"
  <2>1. CASE "position" \in cmd.has
    <3>1. Written = [f \in Fields |-> IF f \in {"ns_d", "ns_m10000"}
                                     THEN [ns_d |-> cmd.t, ns_m10000 |-> Raw][f] ELSE gps_data[f]]
      BY <1>4, <2>1 DEF Written
    <3> QED BY <1>4, <2>1, <3>1
  <2>2. CASE "position" \notin cmd.has
    <3>1. Written = gps_data BY <1>4, <2>2 DEF Written
    <3> QED BY <1>0, <1>4, <2>2, <3>1
  <2> QED BY <2>1, <2>2
<1>5. CASE gps = "ew"
  <2>1. CASE "position" \in cmd.has
    <3>1. Written = [f \in Fields |-> IF f \in {"ew_d", "ew_m10000"}
                                     THEN [ew_d |-> cmd.t, ew_m10000 |-> Raw][f] ELSE gps_data[f]]
      BY <1>5, <2>1 DEF Written
    <3> QED BY <1>5, <2>1, <3>1
  <2>2. CASE "position" \notin cmd.has
    <3>1. Written = gps_data BY <1>5, <2>2 DEF Written
    <3> QED BY <1>0, <1>5, <2>2, <3>1
  <2> QED BY <2>1, <2>2
<1>6. CASE gps \notin {"clear", "time", "date", "ns", "ew"}
  <2>1. Written = gps_data BY <1>6 DEF Written
  <2> QED BY <1>0, <1>6, <2>1
<1> QED BY <1>1, <1>2, <1>3, <1>4, <1>5, <1>6

\* What is stored has the types of the fields.
LEMMA WrittenType ==
    ASSUME TypeOK
    PROVE  Written \in GpsData
<1>1. gps_data \in GpsData /\ cmd.t \in Int BY DEF TypeOK, Sentence
<1>2. \A f \in TmTime : Stamp(cmd.t)[f] \in Int BY <1>1, CalendarType
<1>3. /\ \A f \in Fields \ {"status"} : gps_data[f] \in Int
      /\ gps_data["status"] \in Letters /\ Raw \in Int
  BY <1>1 DEF GpsData, Raw
<1>4. /\ {"hour", "min", "sec"} \subseteq TmTime /\ {"mday", "mon"} \subseteq TmTime
      /\ "status" \notin TmTime /\ "status" \in Fields
  BY DEF TmTime, Fields
<1>5. ASSUME NEW f \in Fields
      PROVE  /\ f # "status" => Written[f] \in Int
             /\ f = "status" => Written[f] = gps_data[f]
  <2>1. CASE gps = "clear" BY <1>3, <1>4, <2>1, WrittenIs
  <2>2. CASE gps = "time" BY <1>2, <1>3, <1>4, <2>2, WrittenIs
  <2>3. CASE gps = "date" BY <1>2, <1>3, <1>4, <2>3, WrittenIs
  <2>4. CASE gps = "ns" BY <1>1, <1>3, <1>4, <2>4, WrittenIs
  <2>5. CASE gps = "ew" BY <1>1, <1>3, <1>4, <2>5, WrittenIs
  <2>6. CASE gps \notin {"clear", "time", "date", "ns", "ew"} BY <1>3, <2>6, WrittenIs
  <2> QED BY <2>1, <2>2, <2>3, <2>4, <2>5, <2>6
<1>6. Written = [f \in Fields |-> Written[f]]
  <2>1. CASE gps \in {"clear", "time", "date", "ns", "ew"} BY <2>1, <1>1 DEF Written, GpsData
  <2>2. CASE gps \notin {"clear", "time", "date", "ns", "ew"}
    <3>1. Written = gps_data BY <2>2, WrittenIs
    <3> QED BY <1>1, <3>1 DEF GpsData
  <2> QED BY <2>1, <2>2
<1>7. Written \in [Fields -> Int \cup Letters] BY <1>3, <1>5, <1>6
<1> QED BY <1>3, <1>4, <1>5, <1>7 DEF GpsData

\* One field of gps_data, or of the message, replaced.
LEMMA FieldType ==
    ASSUME NEW d \in GpsData, NEW f \in Fields, NEW v,
           IF f = "status" THEN v \in Letters ELSE v \in Int
    PROVE  [d EXCEPT ![f] = v] \in GpsData
BY DEF GpsData, Fields

\* sscanf into tm_time keeps its type.
LEMMA RereadType ==
    ASSUME TypeOK, NEW F, Reread(F)
    PROVE  tm_time' \in [TmTime -> Int]
<1>1. cmd.t \in Int /\ tm_time \in [TmTime -> Int] BY DEF TypeOK, Sentence
<1>2. \A f \in TmTime : Stamp(cmd.t)[f] \in Int BY <1>1, CalendarType
<1> QED BY <1>1, <1>2 DEF Reread

\* gps_gpgga and gps_gprmc keep the types.
LEMMA ParseType ==
    ASSUME TypeOK, Within,
           gps_gpgga \/ RmcClear \/ RmcTime \/ RmcDate \/ RmcYear \/ RmcClock \/ RmcPosition
           \/ RmcStatus
    PROVE  TypeOK' /\ Within'
<1>1. cmd.t \in Nat /\ gps_data \in GpsData /\ tm_time \in [TmTime -> Int] /\ Written \in GpsData
  BY WrittenType DEF TypeOK, Sentence
<1>2. CASE gps_gpgga
  <2>1. gps_data.count \in Int BY <1>1 DEF GpsData, Fields
  <2>2. gps_data' \in GpsData
    <3>1. "count" \in Fields /\ "count" # "status" BY DEF Fields
    <3> QED BY <1>1, <1>2, <2>1, <3>1, FieldType DEF gps_gpgga
  <2> QED BY <1>2, <2>2 DEF gps_gpgga, GpsStep, TypeOK, Within
<1>3. CASE RmcClear
  BY <1>1, <1>3 DEF RmcClear, GpsStep, TypeOK, Within, RmcPlaces
<1>4. CASE RmcTime
  <2>1. tm_time' \in [TmTime -> Int] BY <1>4, RereadType DEF RmcTime
  <2> QED BY <1>1, <1>4, <2>1 DEF RmcTime, GpsStep, TypeOK, Within, RmcPlaces
<1>5. CASE RmcDate
  <2>1. tm_time' \in [TmTime -> Int] BY <1>5, RereadType DEF RmcDate
  <2> QED BY <1>1, <1>5, <2>1 DEF RmcDate, GpsStep, TypeOK, Within, RmcPlaces
<1>6. CASE RmcYear
  <2>1. PICK year \in IF "speed" \in cmd.has THEN {Stamp(cmd.t).year} ELSE Garbage :
            /\ gps_data' = [gps_data EXCEPT !.year = year]
            /\ tm_time' = [tm_time EXCEPT !.year = year]
    BY <1>6 DEF RmcYear
  <2>2. year \in Int BY <1>1, <2>1, CalendarType, GpsAssumption DEF TmTime
  <2>3. "year" \in Fields /\ "year" # "status" BY DEF Fields, TmTime
  <2>4. gps_data' \in GpsData BY <1>1, <2>1, <2>2, <2>3, FieldType
  <2>5. tm_time' \in [TmTime -> Int] BY <1>1, <2>1, <2>2
  <2>6. UNCHANGED <<scene, now, adjusted, lineVars, frameVars, mesgVars, torn, blind, crashed,
                    clockVars, tmg>> /\ gps' \in RmcPlaces
    BY <1>6 DEF RmcYear, GpsStep, RmcPlaces
  <2> QED BY <2>4, <2>5, <2>6 DEF TypeOK, Within
<1>7. CASE RmcClock
  <2>1. tmg' \in Int
    <3>1. \A f \in TmTime : [tm_time EXCEPT !.mon = tm_time.mon - 1][f] \in Int
      BY <1>1 DEF TmTime
    <3>2. /\ DAY \in Int /\ DAYS \in Int /\ MONTHS \in Int /\ SECS \in Int /\ MINS \in Int
      BY GpsAssumption
    <3> DEFINE tm == [tm_time EXCEPT !.mon = tm_time.mon - 1]
    <3>3. tmg' = Mktime(tm) BY <1>7 DEF RmcClock, Gmt
    <3>4. /\ tm.sec \in Int /\ tm.min \in Int /\ tm.hour \in Int
          /\ tm.mday \in Int /\ tm.mon \in Int /\ tm.year \in Int
      BY <3>1 DEF TmTime
    <3> HIDE DEF tm
    <3> QED BY <3>2, <3>3, <3>4 DEF Mktime
  <2>2. \A f \in TmTime : Calendar(tmg')[f] \in Int BY <2>1, CalendarType
  <2>3. tm_time' \in [TmTime -> Int] BY <1>7, <2>2 DEF RmcClock
  <2>4. clock' \in Int /\ synced' \in {0, 1}
    BY <1>7, <2>1 DEF RmcClock, SetClock, TypeOK
  <2> QED BY <1>7, <2>1, <2>3, <2>4 DEF RmcClock, GpsStep, TypeOK, Within, RmcPlaces
<1>8. CASE RmcPosition
  <2>1. gps_data' = Written
           \/ \E f \in Minutes, v \in Int : gps_data' = [gps_data EXCEPT ![f] = v]
    BY <1>1, <1>8 DEF RmcPosition, Minutes, Raw
  <2>2. gps_data' \in GpsData
    <3>1. \A f \in Minutes : f \in Fields /\ f # "status" BY DEF Minutes, Position, Fields
    <3> QED BY <1>1, <2>1, <3>1, FieldType
  <2>3. UNCHANGED <<scene, now, adjusted, lineVars, frameVars, mesgVars, torn, blind, crashed,
                    clockVars, timeVars>> /\ gps' \in RmcPlaces
    BY <1>8 DEF RmcPosition, GpsStep, RmcPlaces
  <2> QED BY <2>2, <2>3 DEF TypeOK, Within
<1>9. CASE RmcStatus
  <2>1. gps_data' \in GpsData
    <3>1. "status" \in Fields /\ "A" \in Letters /\ "V" \in Letters BY DEF Fields, Letters
    <3> QED BY <1>1, <1>9, <3>1, FieldType DEF RmcStatus
  <2> QED BY <1>9, <2>1 DEF RmcStatus, GpsStep, TypeOK, Within
<1> QED BY <1>2, <1>3, <1>4, <1>5, <1>6, <1>7, <1>8, <1>9

\* memcpy goes through the fields of gps_data.
LEMMA MemoryIs ==
    /\ Len(Memory) = 12
    /\ \A i \in 1 .. 12 : Memory[i] \in Fields
    /\ \A f \in Fields : \E i \in 1 .. 12 : Memory[i] = f
    /\ \A i, j \in 1 .. 12 : Memory[i] = Memory[j] => i = j
<1>1. Len(Memory) = 12 BY DEF Memory
<1>2. /\ Memory[1] = "sec" /\ Memory[2] = "min" /\ Memory[3] = "hour" /\ Memory[4] = "mday"
      /\ Memory[5] = "mon" /\ Memory[6] = "year" /\ Memory[7] = "ns_d"
      /\ Memory[8] = "ns_m10000" /\ Memory[9] = "ew_d" /\ Memory[10] = "ew_m10000"
      /\ Memory[11] = "status" /\ Memory[12] = "count"
  BY DEF Memory
<1>3. \A i \in 1 .. 12 : i \in {1, 2, 3, 4, 5, 6, 7, 8, 9, 10, 11, 12} OBVIOUS
<1>4. \A f \in Fields : f \in {"sec", "min", "hour", "mday", "mon", "year", "ns_d", "ns_m10000",
                             "ew_d", "ew_m10000", "status", "count"}
  BY DEF Fields, TmTime, Position, Minutes
<1>5. {"sec", "min", "hour", "mday", "mon", "year", "ns_d", "ns_m10000", "ew_d", "ew_m10000",
       "status", "count"} \subseteq Fields
  BY DEF Fields, TmTime, Position, Minutes
<1>6. \A i \in 1 .. 12 : Memory[i] \in Fields BY <1>2, <1>3, <1>5
<1>7. \A f \in Fields : \E i \in 1 .. 12 : Memory[i] = f BY <1>2, <1>4
<1>8. \A i, j \in 1 .. 12 : Memory[i] = Memory[j] => i = j BY <1>2, <1>3
<1> QED BY <1>1, <1>6, <1>7, <1>8

\* A step of memcpy: the field it copies, and from before or after the stores.
LEMMA CopySteps ==
    ASSUME TypeOK, Within, MesgCopy
    PROVE  /\ mesg = "copy" /\ copied \in 0 .. 11 /\ copied' = copied + 1
           /\ mesg' = IF copied = 11 THEN "send" ELSE "copy"
           /\ Memory[copied'] \in Fields
           /\ msg'[Memory[copied']] \in {gps_data[Memory[copied']], Written[Memory[copied']]}
           /\ \A f \in Fields \ {Memory[copied']} : msg'[f] = msg[f]
           /\ msg' \in GpsData
           /\ UNCHANGED <<gps, gps_data, torn, now, losses, blind, cmd>>
<1>1. mesg = "copy" /\ copied \in 0 .. 11 /\ copied' = copied + 1
  BY MemoryIs DEF MesgCopy, MesgStep, TypeOK, Within
<1>2. mesg' = IF copied = 11 THEN "send" ELSE "copy"
  BY <1>1, MemoryIs DEF MesgCopy, MesgStep
<1>3. UNCHANGED <<gps, gps_data, torn, now, losses, blind, cmd>> BY DEF MesgCopy, MesgStep
<1> DEFINE f == Memory[copied']
<1>4. f \in Fields
  <2>1. copied' \in 1 .. 12 BY <1>1
  <2> QED BY <2>1, MemoryIs
<1>5. PICK v \in {gps_data[f], Written[f]} : msg' = [msg EXCEPT ![f] = v] BY DEF MesgCopy
<1> HIDE DEF f
<1>6. msg \in GpsData /\ gps_data \in GpsData /\ Written \in GpsData BY WrittenType DEF TypeOK
<1>7. msg'[f] = v /\ \A g \in Fields \ {f} : msg'[g] = msg[g] BY <1>4, <1>5, <1>6 DEF GpsData
<1>8. IF f = "status" THEN v \in Letters ELSE v \in Int
  <2>1. gps_data.status \in Letters /\ Written.status \in Letters BY <1>6 DEF GpsData
  <2>2. f # "status" => gps_data[f] \in Int /\ Written[f] \in Int BY <1>4, <1>6 DEF GpsData
  <2> QED BY <1>5, <2>1, <2>2
<1>9. msg' \in GpsData BY <1>4, <1>5, <1>6, <1>8, FieldType
<1> QED BY <1>1, <1>2, <1>3, <1>4, <1>5, <1>7, <1>9 DEF f

\* MesgThread keeps the types.
LEMMA MesgType ==
    ASSUME TypeOK, Within, MesgThread
    PROVE  TypeOK' /\ Within'
<1>0. scene.records \in Nat /\ Len(Memory) = 12
  BY ScenesAssumption, MemoryIs DEF TypeOK
<1>1. CASE MesgRead
  BY <1>0, <1>1 DEF MesgRead, MesgStep, TypeOK, Within
<1>2. CASE MesgName
  BY <1>0, <1>2 DEF MesgName, MesgStep, TypeOK, Within
<1>3. CASE MesgCopy
  <2>1. /\ copied' \in 0 .. 12 /\ (mesg' = "copy" => copied' < 12) /\ mesg' \in {"copy", "send"}
        /\ msg' \in GpsData
    BY <1>3, CopySteps
  <2>2. UNCHANGED <<scene, now, adjusted, clockVars, lineVars, frameVars, gps, timeVars, gps_data,
                    blind, crashed, torn, recVars>>
    BY <1>3 DEF MesgCopy, MesgStep
  <2> QED BY <1>0, <2>1, <2>2 DEF TypeOK, Within
<1>4. CASE MesgSend
  <2>1. Zeroed \in GpsData
    BY DEF Zeroed, GpsData, Raw, Letters, Fields
  <2> QED BY <1>0, <1>4, <2>1 DEF MesgSend, MesgStep, TypeOK, Within
<1> QED BY <1>1, <1>2, <1>3, <1>4 DEF MesgThread

\* One step of any of the actors keeps the types.
LEMMA TypeStep == TypeOK /\ Within /\ [Next]_vars => (TypeOK /\ Within)'
<1> SUFFICES ASSUME TypeOK, Within, [Next]_vars PROVE TypeOK' /\ Within'
  OBVIOUS
<1>1. CASE UNCHANGED vars
  BY <1>1 DEF vars, TypeOK, Within
<1> QED BY <1>1, EnvironmentType, FrameType, ParseType, MesgType DEF Next, GpsThread

\* The framing keeps within sbuff, or the program has crashed, and the fields of
\* gps_data and of the message are what their types say, for every environment.
THEOREM TypeCorrect == Spec => []TypeOK
<1>1. Init => TypeOK /\ Within BY TypeInit
<1>2. TypeOK /\ Within /\ [Next]_vars => (TypeOK /\ Within)' BY TypeStep
<1> QED BY <1>1, <1>2, PTL DEF Spec

-----------------------------------------------------------------------------
(* A fix sets the clock                                                    *)

\* What gps_gprmc has put into tm_time of a sentence with a fix.
TimeRead == gps \in {"date", "year", "clock"} =>
    \A f \in {"hour", "min", "sec"} : tm_time[f] = Stamp(cmd.t)[f]
DateRead == gps \in {"year", "clock"} => \A f \in {"mday", "mon"} : tm_time[f] = Stamp(cmd.t)[f]
YearRead == gps = "clock" => tm_time.year = Stamp(cmd.t).year
FixRead == cmd.has = Located => TimeRead /\ DateRead /\ YearRead

\* The steps that leave GpsThread where it is leave what it has read.
LEMMA GpsIdle ==
    ASSUME FixRead, FixSetsClock, UNCHANGED <<gps, cmd, tm_time, tmg, gps_data>>,
           gps = "ns" => UNCHANGED clock
    PROVE  FixRead' /\ FixSetsClock'
BY DEF FixRead, FixSetsClock, TimeRead, DateRead, YearRead

\* gps_gprmc computes the second a sentence with a fix was sent in, whatever
\* sentences without a fix have left in tm_time, and the clock is then less than
\* a granule from it.
THEOREM ClockFollowsFix == Spec => []FixSetsClock
<1>1. Init => FixRead /\ FixSetsClock
  BY DEF Init, FixRead, FixSetsClock, TimeRead, DateRead, YearRead
<1>2. TypeOK /\ FixRead /\ FixSetsClock /\ [Next]_vars => (FixRead /\ FixSetsClock)'
  <2> SUFFICES ASSUME TypeOK, FixRead, FixSetsClock, [Next]_vars
               PROVE  FixRead' /\ FixSetsClock'
    OBVIOUS
  <2>1. CASE Tick \/ Transmit \/ Lose \/ MesgThread \/ UNCHANGED vars
    <3>1. UNCHANGED <<gps, cmd, tm_time, tmg, gps_data>> /\ (gps = "ns" => UNCHANGED clock)
      BY <2>1 DEF Tick, Transmit, Lose, MesgThread, MesgRead, MesgName, MesgCopy, MesgSend,
                  MesgStep, vars
    <3> QED BY <3>1, GpsIdle
  <2>2. CASE FrameStart \/ FrameSkip \/ FrameChar
    <3>1. UNCHANGED <<gps, cmd, tm_time, tmg, gps_data, clock>>
      BY <2>2 DEF FrameStart, FrameSkip, FrameChar, Take
    <3> QED BY <3>1, GpsIdle
  <2>3. CASE FrameEnd
    <3>1. gps' \in {"read", "gga", "clear"}
      BY <2>3 DEF FrameEnd, Take, Accept
    <3> QED BY <3>1 DEF FixRead, FixSetsClock, TimeRead, DateRead, YearRead
  <2>4. CASE gps_gpgga \/ RmcClear \/ RmcPosition \/ RmcStatus
    <3>1. gps' \notin {"date", "year", "clock", "ns"}
      BY <2>4 DEF gps_gpgga, RmcClear, RmcPosition, RmcStatus, GpsStep
    <3> QED BY <3>1 DEF FixRead, FixSetsClock, TimeRead, DateRead, YearRead
  <2>5. CASE RmcTime
    <3>1. gps' = "date" /\ cmd' = cmd BY <2>5 DEF RmcTime, GpsStep
    <3>2. cmd.has = Located => \A f \in {"hour", "min", "sec"} : tm_time'[f] = Stamp(cmd.t)[f]
      BY <2>5 DEF RmcTime, Reread, TmTime, Located
    <3> QED BY <3>1, <3>2 DEF FixRead, FixSetsClock, TimeRead, DateRead, YearRead
  <2>6. CASE RmcDate
    <3>1. gps = "date" /\ gps' = "year" /\ cmd' = cmd BY <2>6 DEF RmcDate, GpsStep
    <3>2. cmd.has = Located =>
              /\ \A f \in {"mday", "mon"} : tm_time'[f] = Stamp(cmd.t)[f]
              /\ \A f \in {"hour", "min", "sec"} : tm_time'[f] = tm_time[f]
      BY <2>6 DEF RmcDate, Reread, TmTime, Located
    <3> QED BY <3>1, <3>2 DEF FixRead, FixSetsClock, TimeRead, DateRead, YearRead
  <2>7. CASE RmcYear
    <3>1. gps = "year" /\ gps' = "clock" /\ cmd' = cmd BY <2>7 DEF RmcYear, GpsStep
    <3>2. cmd.has = Located => /\ tm_time'.year = Stamp(cmd.t).year
                               /\ \A f \in TmTime \ {"year"} : tm_time'[f] = tm_time[f]
      BY <2>7 DEF RmcYear, TypeOK, TmTime, Located
    <3>3. /\ \A f \in {"hour", "min", "sec"} : f \in TmTime \ {"year"}
          /\ \A f \in {"mday", "mon"} : f \in TmTime \ {"year"}
      BY DEF TmTime
    <3> QED BY <3>1, <3>2, <3>3 DEF FixRead, FixSetsClock, TimeRead, DateRead, YearRead
  <2>8. CASE RmcClock
    <3>1. gps = "clock" /\ gps' = "ns" /\ cmd' = cmd BY <2>8 DEF RmcClock, GpsStep
    <3>2. ASSUME cmd.has = Located PROVE tmg' = cmd.t /\ Abs(clock' - tmg') < GRANULE
      <4> DEFINE c == Calendar(cmd.t)
                 tm == [tm_time EXCEPT !.mon = tm_time.mon - 1]
      <4>1. cmd.t \in Int /\ tm_time \in [TmTime -> Int] BY DEF TypeOK, Sentence
      <4>2. /\ tm_time.sec = c.sec /\ tm_time.min = c.min /\ tm_time.hour = c.hour
            /\ tm_time.mday = c.mday /\ tm_time.mon = c.mon + 1 /\ tm_time.year = c.year
            /\ c.mon \in Int
        <5>1. \A f \in TmTime : tm_time[f] = Stamp(cmd.t)[f]
          BY <3>1, <3>2 DEF FixRead, TimeRead, DateRead, YearRead, TmTime
        <5>2. /\ \A f \in TmTime \ {"mon"} : Stamp(cmd.t)[f] = c[f]
              /\ Stamp(cmd.t).mon = c.mon + 1 /\ c.mon \in Int
          BY <4>1, CalendarType DEF TmTime
        <5> HIDE DEF c
        <5> QED BY <5>1, <5>2 DEF TmTime
      <4> HIDE DEF c
      <4>3. Mktime(c) = cmd.t BY <4>1, MktimeInverse DEF c
      <4>4. /\ tm.sec = c.sec /\ tm.min = c.min /\ tm.hour = c.hour
            /\ tm.mday = c.mday /\ tm.mon = c.mon /\ tm.year = c.year
        BY <4>1, <4>2 DEF TmTime
      <4>5. tmg' = Mktime(tm) BY <2>8 DEF RmcClock, Gmt
      <4> HIDE DEF tm
      <4>6. tmg' = Mktime(c) BY <4>4, <4>5 DEF Mktime
      <4>7. clock \in Int /\ clock' = IF ~SameGranule(clock, tmg') THEN tmg' ELSE clock
        BY <2>8 DEF RmcClock, SetClock, TypeOK
      <4>8. tmg' = cmd.t BY <4>3, <4>6
      <4>9. CASE SameGranule(clock, tmg')
        <5>1. clock' = clock BY <4>7, <4>9
        <5>2. Abs(clock - tmg') < GRANULE BY <4>1, <4>7, <4>8, <4>9, GranuleClose
        <5> QED BY <4>8, <5>1, <5>2
      <4>10. CASE ~SameGranule(clock, tmg')
        <5>1. clock' - tmg' = 0 BY <4>1, <4>7, <4>8, <4>10
        <5> QED BY <4>8, <5>1, GpsAssumption DEF Abs
      <4> QED BY <4>9, <4>10
    <3> QED BY <3>1, <3>2 DEF FixRead, FixSetsClock, TimeRead, DateRead, YearRead
  <2> QED BY <2>1, <2>2, <2>3, <2>4, <2>5, <2>6, <2>7, <2>8 DEF Next, GpsThread
<1> QED BY <1>1, <1>2, TypeCorrect, PTL DEF Spec

-----------------------------------------------------------------------------
(* Sentences are taken in order                                            *)

\* The piece is of a later sentence than the one taken last.
After(p) == cmd = NoSentence \/ Order(p.s) > Order(cmd)

\* The line holds sentences of this second, in order, an end behind its sentence.
LineOrder ==
    /\ \A i \in DOMAIN line : line[i].s.t = now /\ After(line[i])
    /\ \A i, j \in DOMAIN line : i < j =>
           /\ Order(line[i].s) <= Order(line[j].s)
           /\ line[i].c = "CR" => Order(line[i].s) < Order(line[j].s)

\* What is in an open frame is later than the sentence taken last and not later
\* than what is still on the line.
FrameOrder == s_index # -1 =>
    \A i \in DOMAIN sbuff :
        /\ After(sbuff[i]) /\ sbuff[i].s.t <= now
        /\ \A j \in DOMAIN line : Order(sbuff[i].s) <= Order(line[j].s)

\* Before the sentences of a second are sent everything is of an earlier one.
Earlier ==
    /\ cmd = NoSentence \/ cmd.t <= now
    /\ due = 1 => /\ line = <<>>
                  /\ cmd = NoSentence \/ cmd.t < now
                  /\ s_index # -1 => \A i \in DOMAIN sbuff : sbuff[i].s.t < now

InOrder == LineOrder /\ FrameOrder /\ Earlier

\* The order of a sentence lies in its second.
LEMMA OrderInt ==
    ASSUME NEW x \in Sentence
    PROVE  Order(x) \in Int /\ 2 * x.t <= Order(x) /\ Order(x) <= 2 * x.t + 1 /\ x.t \in Nat
BY DEF Order, Sentence

\* The pieces of one second: those of GGA before those of RMC, and a CR last.
LEMMA BurstOrder ==
    ASSUME NEW t \in Nat, NEW has \in SUBSET Located, NEW i \in 1 .. 8
    PROVE  /\ Burst(t, has)[i].s.t = t
           /\ Order(Burst(t, has)[i].s) = 2 * t + (IF i <= 4 THEN 0 ELSE 1)
           /\ Burst(t, has)[i].c = "CR" => i \in {4, 8}
<1>1. Burst(t, has)[i] = [c |-> Marks[((i - 1) % 4) + 1],
         s |-> [kind |-> Kinds[((i - 1) \div 4) + 1], t |-> t, has |-> has]]
  BY DEF Burst
<1>2. ((i - 1) \div 4) + 1 = IF i <= 4 THEN 1 ELSE 2 OBVIOUS
<1>3. ((i - 1) % 4) + 1 \in 1 .. 4 /\ (((i - 1) % 4) + 1 = 4 => i \in {4, 8}) OBVIOUS
<1>4. Kinds[1] = "GGA" /\ Kinds[2] = "RMC" BY DEF Kinds
<1>5. Marks[1] # "CR" /\ Marks[2] # "CR" /\ Marks[3] # "CR" BY DEF Marks
<1>6. Burst(t, has)[i].c = Marks[((i - 1) % 4) + 1] BY <1>1
<1>7. Burst(t, has)[i].c = "CR" => i \in {4, 8}
  <2> SUFFICES ASSUME Marks[((i - 1) % 4) + 1] = "CR" PROVE i \in {4, 8}
    BY <1>6
  <2> DEFINE k == ((i - 1) % 4) + 1
  <2>1. k \in 1 .. 4 /\ (k = 4 => i \in {4, 8}) BY <1>3
  <2>2. k # 1 /\ k # 2 /\ k # 3 BY <1>5
  <2> HIDE DEF k
  <2>3. k = 4 BY <2>1, <2>2
  <2> QED BY <2>1, <2>3
<1>8. Burst(t, has)[i].s.kind = IF i <= 4 THEN "GGA" ELSE "RMC" BY <1>1, <1>2, <1>4
<1>9. Burst(t, has)[i].s.t = t BY <1>1
<1> QED BY <1>7, <1>8, <1>9 DEF Order

\* What is left of a line when a piece was taken.
LEMMA TailOf ==
    ASSUME NEW q \in Seq(Piece), q # <<>>
    PROVE  /\ Head(q) = q[1] /\ 1 \in DOMAIN q /\ Head(q) \in Piece
           /\ \A i \in DOMAIN Tail(q) : /\ Tail(q)[i] = q[i + 1] /\ i + 1 \in DOMAIN q
                                        /\ i \in Nat /\ 1 < i + 1
OBVIOUS

\* Taking or losing a piece keeps the order of the rest.
LEMMA LineShortened ==
    ASSUME TypeOK, LineOrder, line # <<>>, line' = Tail(line), UNCHANGED <<now, cmd>>
    PROVE  LineOrder'
<1>1. \A i \in DOMAIN line' : line'[i] = line[i + 1] /\ i + 1 \in DOMAIN line /\ i \in Nat
  BY TailOf DEF TypeOK
<1>2. ASSUME NEW i \in DOMAIN line'
      PROVE  line'[i].s.t = now' /\ (cmd' = NoSentence \/ Order(line'[i].s) > Order(cmd'))
  <2>1. line[i + 1].s.t = now /\ (cmd = NoSentence \/ Order(line[i + 1].s) > Order(cmd))
    BY <1>1 DEF LineOrder, After
  <2> QED BY <1>1, <2>1
<1>3. ASSUME NEW i \in DOMAIN line', NEW j \in DOMAIN line', i < j
      PROVE  /\ Order(line'[i].s) <= Order(line'[j].s)
             /\ line'[i].c = "CR" => Order(line'[i].s) < Order(line'[j].s)
  <2>1. i + 1 < j + 1 BY <1>1, <1>3
  <2> QED BY <1>1, <2>1 DEF LineOrder
<1> QED BY <1>2, <1>3 DEF LineOrder, After

\* Every step keeps the sentences in order.
LEMMA OrderStep == TypeOK /\ Within /\ InOrder /\ [Next]_vars => InOrder'
<1> SUFFICES ASSUME TypeOK, Within, InOrder, [Next]_vars PROVE InOrder'
  OBVIOUS
<1>0. /\ line \in Seq(Piece) /\ sbuff \in Seq(Piece) /\ cmd \in Sentence /\ now \in Nat
      /\ \A i \in DOMAIN line : line[i] \in Piece /\ line[i].s \in Sentence
      /\ \A i \in DOMAIN sbuff : sbuff[i] \in Piece /\ sbuff[i].s \in Sentence
  <2>1. line \in Seq(Piece) /\ sbuff \in Seq(Piece) /\ cmd \in Sentence /\ now \in Nat
    BY DEF TypeOK
  <2>2. \A p \in Piece : p.s \in Sentence BY DEF Piece
  <2>3. /\ \A i \in DOMAIN line : line[i] \in Piece
        /\ \A i \in DOMAIN sbuff : sbuff[i] \in Piece
    BY <2>1
  <2> QED BY <2>1, <2>2, <2>3
<1>1. CASE UNCHANGED <<now, due, line, sbuff, s_index, cmd>>
  BY <1>1 DEF InOrder, LineOrder, FrameOrder, Earlier, After
<1>2. CASE Tick
  <2>1. now' = now + 1 /\ line = <<>> /\ UNCHANGED <<line, sbuff, s_index, cmd>>
    BY <1>2 DEF Tick
  <2>2. LineOrder' BY <2>1 DEF LineOrder
  <2>3. ASSUME s_index # -1, NEW i \in DOMAIN sbuff
        PROVE  /\ After(sbuff[i]) /\ sbuff[i].s.t <= now + 1 /\ sbuff[i].s.t < now + 1
    <3>1. After(sbuff[i]) /\ sbuff[i].s.t <= now BY <2>3 DEF InOrder, FrameOrder
    <3>2. sbuff[i].s.t \in Nat BY <1>0, OrderInt
    <3> QED BY <1>0, <3>1, <3>2
  <2>4. FrameOrder' BY <2>1, <2>3 DEF FrameOrder, After
  <2>5. cmd = NoSentence \/ (cmd.t <= now + 1 /\ cmd.t < now + 1)
    <3>1. cmd.t \in Nat BY <1>0, OrderInt
    <3> QED BY <1>0, <3>1 DEF InOrder, Earlier
  <2>6. Earlier' BY <2>1, <2>3, <2>5 DEF Earlier
  <2> QED BY <2>2, <2>4, <2>6 DEF InOrder
<1>3. CASE Transmit
  <2>1. PICK form \in scene.forms : line' = Burst(now, form) BY <1>3 DEF Transmit
  <2>2. form \in SUBSET Located BY ScenesAssumption DEF TypeOK
  <2>3. UNCHANGED <<now, cmd, sbuff, s_index>> /\ due = 1 /\ due' = 0 BY <1>3 DEF Transmit
  <2>4. DOMAIN line' = 1 .. 8 BY <2>1 DEF Burst
  <2>5. \A i \in 1 .. 8 : /\ line'[i].s.t = now
                          /\ Order(line'[i].s) = 2 * now + (IF i <= 4 THEN 0 ELSE 1)
                          /\ line'[i].c = "CR" => i \in {4, 8}
    <3> SUFFICES ASSUME NEW i \in 1 .. 8
                 PROVE  /\ Burst(now, form)[i].s.t = now
                        /\ Order(Burst(now, form)[i].s) = 2 * now + (IF i <= 4 THEN 0 ELSE 1)
                        /\ Burst(now, form)[i].c = "CR" => i \in {4, 8}
      BY <2>1
    <3>1. now \in Nat BY <1>0
    <3> QED BY ONLY <2>2, <3>1, i \in 1 .. 8, BurstOrder
  <2>6. cmd = NoSentence \/ Order(cmd) < 2 * now
    <3>1. cmd = NoSentence \/ cmd.t < now BY <2>3 DEF InOrder, Earlier
    <3>2. cmd.t \in Nat /\ Order(cmd) \in Int /\ Order(cmd) <= 2 * cmd.t + 1 BY <1>0, OrderInt
    <3> QED BY <1>0, <3>1, <3>2
  <2>7. ASSUME NEW i \in DOMAIN line'
        PROVE  line'[i].s.t = now' /\ (cmd' = NoSentence \/ Order(line'[i].s) > Order(cmd'))
    <3>1. Order(line'[i].s) >= 2 * now /\ Order(line'[i].s) \in Int BY <1>0, <2>4, <2>5
    <3>2. Order(cmd) \in Int BY <1>0, OrderInt
    <3>3. cmd = NoSentence \/ Order(line'[i].s) > Order(cmd) BY <1>0, <2>6, <3>1, <3>2
    <3> QED BY <2>3, <2>4, <2>5, <3>3
  <2>8. ASSUME NEW i \in DOMAIN line', NEW j \in DOMAIN line', i < j
        PROVE  /\ Order(line'[i].s) <= Order(line'[j].s)
               /\ line'[i].c = "CR" => Order(line'[i].s) < Order(line'[j].s)
    <3>1. i \in 1 .. 8 /\ j \in 1 .. 8 BY <2>4
    <3>2. Order(line'[i].s) <= Order(line'[j].s)
      <4>1. Order(line'[i].s) = 2 * now + (IF i <= 4 THEN 0 ELSE 1) BY <2>5, <3>1
      <4>2. Order(line'[j].s) = 2 * now + (IF j <= 4 THEN 0 ELSE 1) BY <2>5, <3>1
      <4> QED BY <1>0, <2>8, <3>1, <4>1, <4>2
    <3>3. ASSUME line'[i].c = "CR" PROVE Order(line'[i].s) < Order(line'[j].s)
      <4>1. i \in {4, 8} BY <2>5, <3>1, <3>3
      <4>2. i = 4 /\ j > 4 BY <2>8, <3>1, <4>1
      <4>3. Order(line'[i].s) = 2 * now + (IF i <= 4 THEN 0 ELSE 1) BY <2>5, <3>1
      <4>4. Order(line'[j].s) = 2 * now + (IF j <= 4 THEN 0 ELSE 1) BY <2>5, <3>1
      <4> QED BY <1>0, <3>1, <4>2, <4>3, <4>4
    <3> QED BY <3>2, <3>3
  <2>9. LineOrder' BY <2>7, <2>8 DEF LineOrder, After
  <2>10. ASSUME s_index # -1, NEW i \in DOMAIN sbuff, NEW j \in DOMAIN line'
         PROVE  Order(sbuff[i].s) <= Order(line'[j].s)
    <3>1. sbuff[i].s.t < now BY <2>3, <2>10 DEF InOrder, Earlier
    <3>2. /\ sbuff[i].s.t \in Nat /\ Order(sbuff[i].s) \in Int
          /\ Order(sbuff[i].s) <= 2 * sbuff[i].s.t + 1
      BY <1>0, OrderInt
    <3>3. Order(line'[j].s) >= 2 * now /\ Order(line'[j].s) \in Int BY <1>0, <2>4, <2>5
    <3> QED BY <1>0, <3>1, <3>2, <3>3
  <2>11. FrameOrder' BY <2>3, <2>10 DEF InOrder, FrameOrder, After
  <2>12. Earlier' BY <2>3 DEF InOrder, Earlier
  <2> QED BY <2>9, <2>11, <2>12 DEF InOrder
<1>4. ASSUME line # <<>>, line' = Tail(line), UNCHANGED <<now, due>>
      PROVE  /\ \A i \in DOMAIN line' : line'[i] = line[i + 1] /\ i + 1 \in DOMAIN line
             /\ Head(line) = line[1] /\ 1 \in DOMAIN line /\ due # 1
             /\ \A i \in DOMAIN line' : i + 1 \in Nat /\ 1 < i + 1
  BY <1>0, <1>4, TailOf DEF InOrder, Earlier
<1>5. CASE Lose \/ FrameSkip
  <2>1. line # <<>> /\ line' = Tail(line) /\ UNCHANGED <<now, due, sbuff, s_index, cmd>>
    BY <1>5 DEF Lose, FrameSkip, Take
  <2>2. LineOrder' BY <2>1, LineShortened DEF InOrder
  <2>3. FrameOrder' BY <1>4, <2>1 DEF InOrder, FrameOrder, After
  <2>4. Earlier' BY <1>4, <2>1 DEF InOrder, Earlier
  <2> QED BY <2>2, <2>3, <2>4 DEF InOrder
<1>6. CASE FrameStart
  <2>1. /\ line # <<>> /\ line' = Tail(line) /\ UNCHANGED <<now, due, cmd>>
        /\ sbuff' = <<Head(line)>> /\ s_index' = 1
    BY <1>6 DEF FrameStart, Take
  <2>2. LineOrder' BY <2>1, LineShortened DEF InOrder
  <2>3. DOMAIN sbuff' = {1} /\ sbuff'[1] = line[1] BY <1>4, <2>1
  <2>4. After(line[1]) /\ line[1].s.t = now BY <1>4, <2>1 DEF InOrder, LineOrder
  <2>5. \A j \in DOMAIN line' : Order(line[1].s) <= Order(line'[j].s)
    BY <1>4, <2>1 DEF InOrder, LineOrder
  <2>6. FrameOrder' BY <1>0, <2>1, <2>3, <2>4, <2>5 DEF FrameOrder, After
  <2>7. Earlier' BY <1>4, <2>1 DEF InOrder, Earlier
  <2> QED BY <2>2, <2>6, <2>7 DEF InOrder
<1>7. CASE FrameChar
  <2>1. /\ line # <<>> /\ line' = Tail(line) /\ UNCHANGED <<now, due, cmd>> /\ s_index # -1
        /\ (sbuff' = sbuff \/ sbuff' = Append(sbuff, Head(line)))
    BY <1>7 DEF FrameChar, Take
  <2>2. LineOrder' BY <2>1, LineShortened DEF InOrder
  <2>3. ASSUME NEW i \in DOMAIN sbuff'
        PROVE  (i \in DOMAIN sbuff /\ sbuff'[i] = sbuff[i]) \/ sbuff'[i] = line[1]
    <3>1. CASE sbuff' = sbuff BY <2>3, <3>1
    <3>2. CASE sbuff' = Append(sbuff, line[1])
      <4>1. line[1] \in Piece BY <1>0, <1>4, <2>1
      <4>2. DOMAIN sbuff' = 1 .. Len(sbuff) + 1 /\ DOMAIN sbuff = 1 .. Len(sbuff) /\ Len(sbuff) \in Nat
        BY <1>0, <3>2, <4>1
      <4>3. sbuff'[i] = IF i <= Len(sbuff) THEN sbuff[i] ELSE line[1]
        BY <1>0, <2>3, <3>2, <4>1, <4>2
      <4> QED BY <2>3, <4>2, <4>3
    <3> QED BY <1>4, <2>1, <3>1, <3>2
  <2>4. After(line[1]) /\ line[1].s.t = now BY <1>4, <2>1 DEF InOrder, LineOrder
  <2>5. \A j \in DOMAIN line' : Order(line[1].s) <= Order(line'[j].s)
    BY <1>4, <2>1 DEF InOrder, LineOrder
  <2>6. ASSUME NEW i \in DOMAIN sbuff
        PROVE  /\ After(sbuff[i]) /\ sbuff[i].s.t <= now
               /\ \A j \in DOMAIN line' : Order(sbuff[i].s) <= Order(line'[j].s)
    BY <1>4, <2>1 DEF InOrder, FrameOrder
  <2>7. FrameOrder' BY <1>0, <2>1, <2>3, <2>4, <2>5, <2>6 DEF FrameOrder, After
  <2>8. Earlier' BY <1>4, <2>1 DEF InOrder, Earlier
  <2> QED BY <2>2, <2>7, <2>8 DEF InOrder
<1>8. CASE FrameEnd
  <2>1. /\ line # <<>> /\ line' = Tail(line) /\ UNCHANGED <<now, due, sbuff>>
        /\ Head(line).c = "CR" /\ s_index # -1 /\ s_index' = -1
        /\ UNCHANGED cmd \/ (gps_checksum /\ cmd' = sbuff[2].s)
    BY <1>8 DEF FrameEnd, Take, Accept
  <2>2. FrameOrder' BY <2>1 DEF FrameOrder
  <2>3. CASE UNCHANGED cmd
    <3>1. LineOrder' BY <2>1, <2>3, LineShortened DEF InOrder
    <3>2. Earlier' BY <1>4, <2>1, <2>3 DEF InOrder, Earlier
    <3> QED BY <2>2, <3>1, <3>2 DEF InOrder
  <2>4. CASE gps_checksum /\ cmd' = sbuff[2].s
    <3>1. 2 \in DOMAIN sbuff BY <1>0, <2>4 DEF gps_checksum
    <3>2. sbuff[2].s.t <= now /\ Order(sbuff[2].s) <= Order(line[1].s)
      BY <1>4, <2>1, <3>1 DEF InOrder, FrameOrder
    <3>3. ASSUME NEW i \in DOMAIN line' PROVE line'[i].s.t = now /\ Order(line'[i].s) > Order(cmd')
      <4>1. line'[i].s.t = now /\ Order(line[1].s) < Order(line'[i].s)
        BY <1>4, <2>1 DEF InOrder, LineOrder
      <4>2. line'[i].s \in Sentence /\ line[1].s \in Sentence /\ sbuff[2].s \in Sentence
        BY <1>0, <1>4, <2>1, <3>1
      <4>3. Order(line'[i].s) \in Int /\ Order(line[1].s) \in Int /\ Order(sbuff[2].s) \in Int
        BY <4>2, OrderInt
      <4> QED BY <2>4, <3>2, <4>1, <4>3
    <3>4. \A i, j \in DOMAIN line' : i < j =>
             /\ Order(line'[i].s) <= Order(line'[j].s)
             /\ line'[i].c = "CR" => Order(line'[i].s) < Order(line'[j].s)
      <4> TAKE i, j \in DOMAIN line'
      <4> HAVE i < j
      <4>1. i \in Nat /\ j \in Nat BY <1>0, <2>1, TailOf
      <4>2. i + 1 < j + 1 BY <4>1
      <4> QED BY <1>4, <2>1, <4>2 DEF InOrder, LineOrder
    <3>5. LineOrder' BY <2>1, <3>3, <3>4 DEF LineOrder, After
    <3>6. Earlier' BY <1>4, <2>1, <2>4, <3>2 DEF Earlier
    <3> QED BY <2>2, <3>5, <3>6 DEF InOrder
  <2> QED BY <2>1, <2>3, <2>4
<1>9. CASE MesgThread \/ gps_gpgga \/ RmcClear \/ RmcTime \/ RmcDate \/ RmcYear \/ RmcClock
           \/ RmcPosition \/ RmcStatus \/ UNCHANGED vars
  <2>1. UNCHANGED <<now, due, line, sbuff, s_index, cmd>>
    BY <1>9 DEF MesgThread, MesgRead, MesgName, MesgCopy, MesgSend, MesgStep, GpsStep, gps_gpgga,
                RmcClear, RmcTime, RmcDate, RmcYear, RmcClock, RmcPosition, RmcStatus, vars
  <2> QED BY <1>1, <2>1
<1> QED BY <1>2, <1>3, <1>5, <1>6, <1>7, <1>8, <1>9 DEF Next, GpsThread

\* Whatever is lost on the line, and however often, proc_gps and gps_checksum
\* take no sentence twice and none after a later one.
THEOREM SentencesInOrder == Spec => SentenceOnce
<1>1. Init => TypeOK /\ Within /\ InOrder
  <2>1. Init => InOrder BY DEF Init, InOrder, LineOrder, FrameOrder, Earlier
  <2> QED BY <2>1, TypeInit
<1>2. TypeOK /\ Within /\ InOrder /\ [Next]_vars => (TypeOK /\ Within /\ InOrder)'
  BY OrderStep, TypeStep
<1>3. TypeOK /\ Within /\ InOrder /\ [Next]_vars =>
        [gps = "read" /\ gps' # "read" =>
          /\ cmd'.t <= now
          /\ Order(cmd') > Order(cmd) \/ cmd = NoSentence]_vars
  <2> SUFFICES ASSUME TypeOK, Within, InOrder, Next, gps = "read", gps' # "read"
               PROVE  cmd'.t <= now /\ (Order(cmd') > Order(cmd) \/ cmd = NoSentence)
    OBVIOUS
  <2>1. FrameEnd /\ Accept /\ gps_checksum
    BY DEF Next, GpsThread, Tick, Transmit, Lose, MesgThread, MesgRead, MesgName, MesgCopy,
           MesgSend, MesgStep, GpsStep, gps_gpgga, RmcClear, RmcTime, RmcDate, RmcYear, RmcClock,
           RmcPosition, RmcStatus, FrameStart, FrameSkip, FrameChar, FrameEnd
  <2>2. s_index # -1 /\ cmd' = sbuff[2].s BY <2>1 DEF FrameEnd, Accept
  <2>3. 2 \in DOMAIN sbuff BY <2>1 DEF gps_checksum, TypeOK
  <2>4. After(sbuff[2]) /\ sbuff[2].s.t <= now BY <2>2, <2>3 DEF InOrder, FrameOrder
  <2> QED BY <2>2, <2>4 DEF After
<1> QED BY <1>1, <1>2, <1>3, PTL DEF Spec, SentenceOnce

-----------------------------------------------------------------------------
(* The line and the frame                                                  *)

\* Of the eight pieces of a second, how many are gone from the line; how many of
\* them are of the sentence that is not complete; and the form of the sentences.
Passed == 8 - Len(line)
Place == Passed % 4
Form == IF line = <<>> THEN Located ELSE line[1].s.has

\* The line holds the rest of the burst, and nothing before it is sent.
LineRest ==
    /\ Len(line) <= 8
    /\ due = 1 => line = <<>> /\ gps = "read"
    /\ Form \in SUBSET Located
    /\ \A i \in DOMAIN line : line[i] = Burst(now, Form)[Passed + i]

\* The frame is what was sent of the sentence that is not complete.
Whole ==
    /\ s_index = Place
    /\ \A i \in 1 .. Place : sbuff[i] = Burst(now, Form)[Passed - Place + i]

\* The pieces of a second, one by one.
LEMMA BurstPieces ==
    ASSUME NEW t \in Nat, NEW has \in SUBSET Located, NEW i \in 1 .. 8
    PROVE  /\ Burst(t, has)[i].c = Marks[((i - 1) % 4) + 1]
           /\ Burst(t, has)[i].s = [kind |-> IF i <= 4 THEN "GGA" ELSE "RMC", t |-> t, has |-> has]
<1>1. Burst(t, has)[i] = [c |-> Marks[((i - 1) % 4) + 1],
         s |-> [kind |-> Kinds[((i - 1) \div 4) + 1], t |-> t, has |-> has]]
  BY DEF Burst
<1>2. ((i - 1) \div 4) + 1 = IF i <= 4 THEN 1 ELSE 2 OBVIOUS
<1>3. Kinds[1] = "GGA" /\ Kinds[2] = "RMC" BY DEF Kinds
<1> QED BY <1>1, <1>2, <1>3

\* Where the line is, in numbers.
LEMMA PlaceType ==
    ASSUME TypeOK, LineRest
    PROVE  /\ Len(line) \in 0 .. 8 /\ Passed \in 0 .. 8 /\ Place \in 0 .. 3
           /\ line = <<>> <=> Passed = 8
           /\ Passed \in {0, 4, 8} <=> Place = 0
<1> DEFINE n == Len(line)
<1>1. line \in Seq(Piece) /\ n <= 8 BY DEF TypeOK, LineRest
<1>2. n \in Nat /\ (line = <<>> <=> n = 0) BY <1>1, LenProperties, EmptySeq, Zenon
<1>3. Passed = 8 - n BY DEF Passed
<1> HIDE DEF n
<1>4. n \in 0 .. 8 /\ Passed \in 0 .. 8 /\ (n = 0 <=> Passed = 8) BY <1>1, <1>2, <1>3
<1>5. Place \in 0 .. 3 /\ (Passed \in {0, 4, 8} <=> Place = 0) BY <1>4 DEF Place
<1> QED BY <1>2, <1>4, <1>5, Zenon DEF n

\* The l pieces left of eight end with the last, and one more goes by.
LEMMA Remaining ==
    ASSUME NEW l \in 1 .. 8
    PROVE  /\ \A i \in 1 .. l : (8 - l) + i \in 1 .. 8
           /\ 8 - l \in 0 .. 7 /\ 8 - (l - 1) = (8 - l) + 1
OBVIOUS

\* A piece goes from the line: what it is, and where the line is then.
LEMMA PieceGone ==
    ASSUME TypeOK, LineRest, line # <<>>, line' = Tail(line), now' = now
    PROVE  /\ Passed \in 0 .. 7 /\ Passed' = Passed + 1
           /\ Place' = IF Place = 3 THEN 0 ELSE Place + 1
           /\ line' = <<>> <=> Passed = 7
           /\ line' # <<>> => Form' = Form
           /\ Head(line) = Burst(now, Form)[Passed + 1]
           /\ Head(line).c = Marks[Place + 1]
           /\ Head(line).s = [kind |-> IF Passed < 4 THEN "GGA" ELSE "RMC", t |-> now, has |-> Form]
           /\ due = 0 /\ due' = due => LineRest'
<1>1. /\ line \in Seq(Piece) /\ Head(line) = line[1] /\ 1 \in DOMAIN line
      /\ Len(line') = Len(line) - 1 /\ Len(line) \in 1 .. 8
      /\ \A i \in DOMAIN line' : line'[i] = line[i + 1] /\ i + 1 \in DOMAIN line /\ i \in Nat
  <2>1. line \in Seq(Piece) BY DEF TypeOK
  <2>2. Len(line') = Len(line) - 1 BY <2>1, HeadTailProperties
  <2>3. Len(line) # 0 BY <2>1, EmptySeq, Zenon
  <2>4. Len(line) \in 0 .. 8 BY PlaceType
  <2>5. Len(line) \in 1 .. 8 BY <2>3, <2>4
  <2> QED BY <2>1, <2>2, <2>5, TailOf
<1>2. Passed \in 0 .. 7 /\ Passed' = Passed + 1
  <2>1. Len(line) \in 1 .. 8 /\ Len(line') = Len(line) - 1 BY <1>1
  <2>2. Passed = 8 - Len(line) /\ Passed' = 8 - Len(line') BY Zenon DEF Passed
  <2>3. 8 - Len(line) \in 0 .. 7 /\ 8 - (Len(line) - 1) = (8 - Len(line)) + 1
    BY <2>1, Remaining, Zenon
  <2> QED BY <2>1, <2>2, <2>3, Zenon
<1>3. Place' = IF Place = 3 THEN 0 ELSE Place + 1 BY <1>2 DEF Place
<1>4. line' = <<>> <=> Passed = 7
  <2>1. line' \in Seq(Piece) BY <1>1
  <2> QED BY <1>1, <2>1 DEF Passed
<1>5. now \in Nat /\ Form \in SUBSET Located BY DEF TypeOK, LineRest
<1>0. \A j \in 1 .. 8 :
          /\ Burst(now, Form)[j].c = Marks[((j - 1) % 4) + 1]
          /\ Burst(now, Form)[j].s =
                 [kind |-> IF j <= 4 THEN "GGA" ELSE "RMC", t |-> now, has |-> Form]
  BY <1>5, BurstPieces, Zenon
<1>6. ASSUME NEW i \in DOMAIN line
      PROVE  /\ line[i] = Burst(now, Form)[Passed + i] /\ Passed + i \in 1 .. 8
             /\ line[i].s.has = Form
  <2>1. line[i] = Burst(now, Form)[Passed + i] BY DEF LineRest
  <2>2. Passed + i \in 1 .. 8
    <3>1. i \in 1 .. Len(line) BY <1>1
    <3>2. Len(line) \in 1 .. 8 BY <1>1
    <3>3. (8 - Len(line)) + i \in 1 .. 8 BY <3>1, <3>2, Remaining, Zenon
    <3> QED BY <3>3, Zenon DEF Passed
  <2>3. Burst(now, Form)[Passed + i].s.has = Form BY <1>0, <2>2
  <2> QED BY <2>1, <2>2, <2>3
<1>7. line' # <<>> => Form' = Form
  <2> SUFFICES ASSUME line' # <<>> PROVE Form' = Form
    OBVIOUS
  <2>1. 1 \in DOMAIN line' BY <1>1
  <2>2. line'[1].s.has = Form BY <1>1, <1>6, <2>1
  <2> QED BY <2>2 DEF Form
<1>8. Head(line) = Burst(now, Form)[Passed + 1] BY <1>1, <1>6
<1>9. Head(line).c = Marks[Place + 1]
  <2>1. Passed + 1 \in 1 .. 8 /\ (Passed + 1) - 1 = Passed BY <1>2
  <2>2. Burst(now, Form)[Passed + 1].c = Marks[(((Passed + 1) - 1) % 4) + 1]
    BY <1>0, <2>1, Zenon
  <2> QED BY <1>8, <2>1, <2>2 DEF Place
<1>10. Head(line).s = [kind |-> IF Passed < 4 THEN "GGA" ELSE "RMC", t |-> now, has |-> Form]
  <2>1. Passed + 1 \in 1 .. 8 /\ (Passed + 1 <= 4 <=> Passed < 4) BY <1>2
  <2>2. Burst(now, Form)[Passed + 1].s =
            [kind |-> IF Passed + 1 <= 4 THEN "GGA" ELSE "RMC", t |-> now, has |-> Form]
    BY <1>0, <2>1, Zenon
  <2> QED BY <1>8, <2>1, <2>2
<1>11. due = 0 /\ due' = due => LineRest'
  <2> SUFFICES ASSUME due' = 0 PROVE LineRest'
    OBVIOUS
  <2>1. Len(line') <= 8 BY <1>1
  <2>2. Form' \in SUBSET Located
    <3>1. CASE line' = <<>> BY <3>1 DEF Form
    <3>2. CASE line' # <<>> BY <1>5, <1>7, <3>2
    <3> QED BY <3>1, <3>2
  <2>3. ASSUME NEW i \in DOMAIN line' PROVE line'[i] = Burst(now', Form')[Passed' + i]
    <3>1. line' # <<>> BY <2>3
    <3>2. line'[i] = Burst(now, Form)[Passed + (i + 1)] BY <1>1, <1>6
    <3>3. Passed + (i + 1) = Passed' + i BY <1>1, <1>2
    <3> QED BY <1>7, <3>1, <3>2, <3>3
  <2> QED BY <2>1, <2>2, <2>3 DEF LineRest
<1> QED BY <1>2, <1>3, <1>4, <1>7, <1>8, <1>9, <1>10, <1>11

\* Every step leaves the rest of a burst on the line.
LEMMA LineStep == TypeOK /\ LineRest /\ [Next]_vars => LineRest'
<1> SUFFICES ASSUME TypeOK, LineRest, [Next]_vars PROVE LineRest'
  OBVIOUS
<1>1. due \in {0, 1} /\ now \in Nat BY DEF TypeOK
<1>2. CASE Tick
  <2>1. line' = <<>> /\ gps' = "read" BY <1>2 DEF Tick
  <2>2. Form' \in SUBSET Located BY <2>1 DEF Form
  <2>3. Len(line') <= 8 BY <2>1
  <2> QED BY <2>1, <2>2, <2>3 DEF LineRest
<1>3. CASE Transmit
  <2>1. PICK form \in scene.forms : line' = Burst(now, form) BY <1>3 DEF Transmit
  <2>2. form \in SUBSET Located BY ScenesAssumption DEF TypeOK
  <2>3. now' = now /\ due' = 0 BY <1>3 DEF Transmit
  <2>4. Len(line') = 8 /\ DOMAIN line' = 1 .. 8 BY <2>1 DEF Burst
  <2>5. Passed' = 0 BY <2>4 DEF Passed
  <2>6. Form' = form
    <3>0. 1 \in 1 .. 8 OBVIOUS
    <3>1. Burst(now, form)[1].s = [kind |-> IF 1 <= 4 THEN "GGA" ELSE "RMC", t |-> now, has |-> form]
      BY <1>1, <2>2, <3>0, BurstPieces, Zenon
    <3>2. line' # <<>> BY <2>4
    <3> QED BY <2>1, <3>1, <3>2 DEF Form
  <2>7. \A i \in DOMAIN line' : line'[i] = Burst(now', Form')[Passed' + i]
    BY <2>1, <2>3, <2>4, <2>5, <2>6
  <2> QED BY <2>2, <2>3, <2>4, <2>6, <2>7 DEF LineRest
<1>4. CASE Lose \/ FrameStart \/ FrameSkip \/ FrameChar \/ FrameEnd
  <2>1. line # <<>> /\ line' = Tail(line) /\ UNCHANGED <<now, due>>
    BY <1>4 DEF Lose, FrameStart, FrameSkip, FrameChar, FrameEnd, Take
  <2>2. due = 0 BY <1>1, <2>1 DEF LineRest
  <2> QED BY <2>1, <2>2, PieceGone
<1>5. CASE MesgThread \/ gps_gpgga \/ RmcClear \/ RmcTime \/ RmcDate \/ RmcYear \/ RmcClock
           \/ RmcPosition \/ RmcStatus \/ UNCHANGED vars
  <2>1. UNCHANGED <<now, due, line>> /\ (gps' = gps \/ gps # "read")
    BY <1>5 DEF MesgThread, MesgRead, MesgName, MesgCopy, MesgSend, MesgStep, GpsStep, gps_gpgga,
                RmcClear, RmcTime, RmcDate, RmcYear, RmcClock, RmcPosition, RmcStatus, vars
  <2> QED BY <2>1 DEF LineRest, Passed, Form
<1> QED BY <1>2, <1>3, <1>4, <1>5 DEF Next, GpsThread

\* proc_gps, by the piece it takes.
LEMMA FramePlace ==
    ASSUME TypeOK, LineRest
    PROVE  /\ FrameStart => Place = 0
           /\ FrameChar => Place \in {1, 2}
           /\ FrameEnd => Place = 3
           /\ FrameSkip => Place \in {1, 2, 3}
<1> SUFFICES ASSUME line # <<>>, line' = Tail(line), now' = now
             PROVE  /\ Head(line).c = "$" => Place = 0
                    /\ Head(line).c = "CR" => Place = 3
                    /\ Head(line).c \in {"fields", "*"} => Place \in {1, 2}
                    /\ Head(line).c \in {"fields", "*", "CR"} => Place \in {1, 2, 3}
  BY DEF FrameStart, FrameSkip, FrameChar, FrameEnd, Take
<1>1. Head(line).c = Marks[Place + 1] BY PieceGone
<1>2. Place \in {0, 1, 2, 3} BY PlaceType
<1>3. Marks[0 + 1] = "$" /\ Marks[1 + 1] = "fields" /\ Marks[2 + 1] = "*" /\ Marks[3 + 1] = "CR"
  BY DEF Marks
<1> QED BY <1>1, <1>2, <1>3, Zenon

\* A "$" begins a frame that is whole, and FrameChar keeps it so.
LEMMA WholeGrows ==
    ASSUME TypeOK, Within, LineRest, FrameStart \/ (FrameChar /\ Whole)
    PROVE  Whole' /\ crashed' = 0 /\ Place' \in 1 .. 3 /\ line' # <<>>
<1>1. /\ line # <<>> /\ line' = Tail(line) /\ now' = now /\ Head(line) \in Piece /\ crashed = 0
  BY TailOf DEF FrameStart, FrameChar, Take, TypeOK
<1>2. /\ Passed \in 0 .. 7 /\ Passed' = Passed + 1 /\ Place' = IF Place = 3 THEN 0 ELSE Place + 1
      /\ line' = <<>> <=> Passed = 7
      /\ line' # <<>> => Form' = Form
      /\ Head(line) = Burst(now, Form)[Passed + 1]
  BY <1>1, PieceGone
<1>3. CASE FrameStart
  <2>1. Place = 0 BY <1>3, FramePlace
  <2>2. Passed # 7 BY <2>1 DEF Place
  <2>3. Place' = 1 /\ line' # <<>> BY <1>2, <2>1, <2>2
  <2>4. s_index' = 1 /\ sbuff' = <<Head(line)>> /\ crashed' = 0
    BY <1>1, <1>3 DEF FrameStart
  <2>5. \A i \in 1 .. 1 : sbuff'[i] = Burst(now', Form')[Passed' - 1 + i]
    <3>1. sbuff'[1] = Burst(now, Form)[Passed + 1] BY <1>2, <2>4
    <3>2. Passed' - 1 + 1 = Passed + 1 BY <1>2
    <3> QED BY <1>1, <1>2, <2>3, <3>1, <3>2
  <2> QED BY <2>3, <2>4, <2>5 DEF Whole
<1>4. CASE FrameChar /\ Whole
  <2>1. Place \in {1, 2} BY <1>4, FramePlace
  <2>2. Passed # 7 BY <2>1 DEF Place
  <2>3. Place' = Place + 1 /\ line' # <<>> BY <1>2, <2>1, <2>2
  <2>4. s_index = Place /\ Len(sbuff) = Place /\ sbuff \in Seq(Piece)
    BY <1>4, <2>1 DEF Whole, Within, TypeOK
  <2>5. SBUFF \in Nat /\ SBUFF >= 3 BY GpsAssumption
  <2>6. s_index # SBUFF BY <2>1, <2>4, <2>5
  <2>7. sbuff' = Append(sbuff, Head(line)) /\ s_index' = s_index + 1 /\ crashed' = 0
    BY <1>1, <1>4, <2>6 DEF FrameChar
  <2>8. ASSUME NEW i \in 1 .. Place + 1
        PROVE  sbuff'[i] = Burst(now', Form')[Passed' - (Place + 1) + i]
    <3>1. Passed' - (Place + 1) + i = Passed - Place + i BY <1>2, <2>1
    <3>2. CASE i = Place + 1
      <4>1. sbuff'[i] = Head(line) BY <1>1, <2>4, <2>7, <3>2, AppendProperties
      <4>2. Passed - Place + i = Passed + 1 BY <1>2, <2>1, <3>2
      <4> QED BY <1>1, <1>2, <2>3, <3>1, <4>1, <4>2
    <3>3. CASE i # Place + 1
      <4>1. i \in 1 .. Place BY <2>1, <3>3
      <4>2. sbuff'[i] = sbuff[i] BY <1>1, <2>4, <2>7, <4>1, AppendProperties
      <4>3. sbuff[i] = Burst(now, Form)[Passed - Place + i] BY <1>4, <4>1 DEF Whole
      <4> QED BY <1>1, <1>2, <2>3, <3>1, <4>2, <4>3
    <3> QED BY <3>2, <3>3
  <2> QED BY <2>1, <2>3, <2>4, <2>7, <2>8 DEF Whole
<1> QED BY <1>3, <1>4

\* A frame that is whole at its CR is taken as what was sent.
LEMMA WholeTaken ==
    ASSUME TypeOK, Within, LineRest, FrameEnd, Whole
    PROVE  /\ Accept /\ crashed' = 0
           /\ cmd' = [kind |-> IF Passed < 4 THEN "GGA" ELSE "RMC", t |-> now, has |-> Form]
<1>1. Place = 3 BY FramePlace
<1>2. line # <<>> /\ line' = Tail(line) /\ now' = now /\ crashed = 0 BY DEF FrameEnd, Take
<1>3. Passed \in 0 .. 7 BY <1>2, PieceGone
<1>4. Passed \in {3, 7} BY <1>1, <1>3 DEF Place
<1>5. s_index = 3 /\ Len(sbuff) = 3 /\ sbuff \in Seq(Piece) BY <1>1 DEF Whole, Within, TypeOK
<1>6. \A i \in 1 .. 3 : sbuff[i] = Burst(now, Form)[Passed - 3 + i] BY <1>1 DEF Whole
<1>7. now \in Nat /\ Form \in SUBSET Located BY DEF TypeOK, LineRest
<1>8. \A j \in 1 .. 8 :
          /\ Burst(now, Form)[j].c = Marks[((j - 1) % 4) + 1]
          /\ Burst(now, Form)[j].s =
                 [kind |-> IF j <= 4 THEN "GGA" ELSE "RMC", t |-> now, has |-> Form]
  BY <1>7, BurstPieces, Zenon
<1>9. /\ sbuff[1].c = "$" /\ sbuff[2].c = "fields" /\ sbuff[3].c = "*"
      /\ sbuff[2].s = sbuff[3].s
      /\ sbuff[2].s = [kind |-> IF Passed < 4 THEN "GGA" ELSE "RMC", t |-> now, has |-> Form]
  <2>1. Marks[1] = "$" /\ Marks[2] = "fields" /\ Marks[3] = "*" BY DEF Marks
  <2>2. CASE Passed = 3 BY <1>6, <1>8, <2>1, <2>2
  <2>3. CASE Passed = 7 BY <1>6, <1>8, <2>1, <2>3
  <2> QED BY <1>4, <2>2, <2>3
<1>10. gps_checksum BY <1>5, <1>9 DEF gps_checksum
<1>11. DOMAIN sbuff = {1, 2, 3}
  <2>1. DOMAIN sbuff = 1 .. 3 BY <1>5
  <2> QED BY <2>1
<1>12. ~NoStar
  <2>1. 3 \in Holds("*") BY <1>9, <1>11 DEF Holds
  <2>2. Holds("fields") = {2} BY <1>9, <1>11 DEF Holds
  <2> QED BY <2>1, <2>2 DEF NoStar
<1> QED BY <1>2, <1>9, <1>10, <1>12 DEF FrameEnd, Accept

\* The steps that leave the line and the frame as they are.
Elsewhere ==
    \/ MesgThread \/ gps_gpgga \/ RmcClear \/ RmcTime \/ RmcDate \/ RmcYear \/ RmcClock
    \/ RmcPosition \/ RmcStatus \/ UNCHANGED vars

LEMMA ElsewhereKeeps ==
    ASSUME Elsewhere
    PROVE  /\ UNCHANGED <<scene, now, adjusted, due, losses, starLost, line, sbuff, s_index>>
           /\ UNCHANGED <<cmd, taken, blind, crashed>>
BY DEF Elsewhere, MesgThread, MesgRead, MesgName, MesgCopy, MesgSend, MesgStep, GpsStep, gps_gpgga,
       RmcClear, RmcTime, RmcDate, RmcYear, RmcClock, RmcPosition, RmcStatus, vars

\* What every step that takes a piece off the line does to it.
LEMMA TakeKeeps ==
    ASSUME FrameStart \/ FrameSkip \/ FrameChar \/ FrameEnd
    PROVE  /\ line # <<>> /\ line' = Tail(line) /\ crashed = 0 /\ gps = "read"
           /\ UNCHANGED <<scene, now, adjusted, clock, synced, due, losses, starLost>>
           /\ UNCHANGED <<timeVars, gps_data, mesgVars>>
BY DEF FrameStart, FrameSkip, FrameChar, FrameEnd, Take

-----------------------------------------------------------------------------
(* What a loss costs                                                       *)

\* The sentences that have gone by are taken or a loss pays for them, and so is
\* the one that is not complete if its frame is no longer whole.
Counted ==
    crashed = 0 =>
        taken + losses >= 2 * (now - Start)
                          + (IF due = 1 THEN 0
                             ELSE Passed \div 4 + (IF Place = 0 \/ Whole THEN 0 ELSE 1))

\* With one loss at most, and that not of a "*", the frame is whole or closed, or
\* it is what the loss has left of it: a sentence without its CR, or one without
\* its fields, which the checksum refuses.
Harmless ==
    \/ Place > 0 /\ Whole
    \/ Place = 0 /\ s_index = -1
    \/ /\ losses = 1
       /\ \/ s_index = -1
          \/ Place = 0 /\ s_index = 3
          \/ Place = 2 /\ s_index = 1
          \/ Place = 3 /\ s_index = 2 /\ sbuff[2].c = "*"

Contained == starLost = 1 \/ losses >= 2 \/ (crashed = 0 /\ Harmless)

\* Every step keeps the count.
LEMMA CountStep ==
    ASSUME TypeOK, Within, LineRest, Counted, [Next]_vars
    PROVE  Counted'
<1>1. /\ due \in {0, 1} /\ now \in Nat /\ Start \in Nat /\ taken \in Nat /\ losses \in Nat
      /\ crashed \in {0, 1}
  <2>1. scene.losses \in Nat BY ScenesAssumption DEF TypeOK
  <2> QED BY <2>1, GpsAssumption DEF TypeOK
<1>2. Passed \in 0 .. 8 /\ Place \in 0 .. 3 BY PlaceType
<1>3. CASE Tick
  <2>1. /\ due = 0 /\ due' = 1 /\ line = <<>> /\ now' = now + 1 /\ crashed = 0
        /\ UNCHANGED <<taken, losses>>
    BY <1>3 DEF Tick
  <2>2. Passed = 8 /\ Place = 0 BY <2>1, PlaceType
  <2>3. taken + losses >= 2 * (now - Start) + 2 BY <1>1, <2>1, <2>2 DEF Counted
  <2> QED BY <1>1, <2>1, <2>3 DEF Counted
<1>4. CASE Transmit
  <2>1. /\ due = 1 /\ due' = 0 /\ crashed = 0 /\ UNCHANGED <<now, taken, losses>>
        /\ \E form : line' = Burst(now, form)
    BY <1>4 DEF Transmit
  <2>2. Len(line') = 8 BY <2>1 DEF Burst
  <2>3. Passed' = 0 BY <2>2 DEF Passed
  <2>4. Place' = 0 /\ Passed' \div 4 = 0 BY <2>3 DEF Place
  <2> QED BY <1>1, <2>1, <2>4 DEF Counted
<1>5. CASE Lose \/ FrameStart \/ FrameSkip \/ FrameChar \/ FrameEnd
  <2>1. /\ line # <<>> /\ line' = Tail(line) /\ UNCHANGED <<now, due>> /\ crashed = 0
        /\ losses' = losses \/ losses' = losses + 1
    BY <1>5, TakeKeeps DEF Lose
  <2>2. /\ Passed \in 0 .. 7 /\ Passed' = Passed + 1
        /\ Place' = IF Place = 3 THEN 0 ELSE Place + 1
    BY <2>1, PieceGone
  <2>3. due = 0 BY <1>1, <2>1 DEF LineRest
  <2>4. Passed' \div 4 = Passed \div 4 + (IF Place = 3 THEN 1 ELSE 0) /\ Passed \div 4 \in Nat
    BY <2>2 DEF Place
  <2>5. taken' = taken \/ taken' = taken + 1
    BY <1>5 DEF Lose, FrameStart, FrameSkip, FrameChar, FrameEnd, Accept
  <2>6. PICK t \in {0, 1}, l \in {0, 1} : taken' = taken + t /\ losses' = losses + l
    BY <1>1, <2>1, <2>5
  <2> DEFINE more == t + l
             paid == taken + losses - 2 * (now - Start) - Passed \div 4
  <2>7. /\ paid \in Int /\ paid >= 0 /\ (Place # 0 /\ ~Whole => paid >= 1)
        /\ more \in Nat
    <3>1. paid >= (IF Place = 0 \/ Whole THEN 0 ELSE 1) /\ paid \in Int
      BY <1>1, <2>1, <2>3, <2>4 DEF Counted
    <3>2. more \in Nat OBVIOUS
    <3> HIDE DEF paid, more
    <3> QED BY <3>1, <3>2
  <2>8. (Lose => more >= 1) /\ (taken' = taken + 1 => more >= 1)
    <3>1. Lose => losses' = losses + 1 BY DEF Lose
    <3> QED BY <1>1, <2>6, <3>1
  <2>9. /\ more + paid >= 1 => taken' + losses' >= 2 * (now - Start) + Passed \div 4 + 1
        /\ taken' + losses' >= 2 * (now - Start) + Passed \div 4
    <3>1. taken' + losses' = taken + losses + more BY <1>1, <2>6
    <3>2. taken + losses + more = paid + more + 2 * (now - Start) + Passed \div 4
      BY <1>1, <2>4
    <3> HIDE DEF more, paid
    <3>3. PICK z : z = taken' + losses' OBVIOUS
    <3>4. z = paid + more + 2 * (now - Start) + Passed \div 4 BY <3>1, <3>2, <3>3
    <3>5. /\ more + paid >= 1 => z >= 2 * (now - Start) + Passed \div 4 + 1
          /\ z >= 2 * (now - Start) + Passed \div 4
      BY <1>1, <2>4, <2>7, <3>4
    <3> QED BY <3>3, <3>5
  <2> HIDE DEF paid, more
  <2>10. more + paid >= 1 \/ (Place # 3 /\ Whole')
    <3>1. CASE Lose BY <2>7, <2>8, <3>1
    <3>2. CASE FrameStart
      <4>1. Place = 0 /\ Whole' BY <3>2, FramePlace, WholeGrows
      <4> QED BY <4>1
    <3>3. CASE FrameSkip
      <4>1. Place \in {1, 2, 3} /\ s_index = -1 BY <3>3, FramePlace DEF FrameSkip
      <4>2. ~Whole BY <4>1 DEF Whole
      <4> QED BY <2>7, <4>1, <4>2
    <3>4. CASE FrameChar
      <4>1. Place \in {1, 2} BY <3>4, FramePlace
      <4>2. CASE Whole
        <5>1. Whole' BY <3>4, <4>2, WholeGrows
        <5> QED BY <4>1, <5>1
      <4>3. CASE ~Whole BY <2>7, <4>1, <4>3
      <4> QED BY <4>2, <4>3
    <3>5. CASE FrameEnd
      <4>1. Place = 3 BY <3>5, FramePlace
      <4>2. CASE Whole
        <5>1. taken' = taken + 1 BY <3>5, <4>2, WholeTaken DEF Accept
        <5> QED BY <2>7, <2>8, <5>1
      <4>3. CASE ~Whole BY <2>7, <4>1, <4>3
      <4> QED BY <4>2, <4>3
    <3> QED BY <1>5, <3>1, <3>2, <3>3, <3>4, <3>5
  <2>11. due' = 0 /\ now' = now BY <2>1, <2>3
  <2>12. CASE Place = 3
    <3>1. Place' = 0 /\ Passed' \div 4 = Passed \div 4 + 1 BY <2>2, <2>4, <2>12
    <3>2. taken' + losses' >= 2 * (now - Start) + Passed \div 4 + 1 BY <2>9, <2>10, <2>12
    <3> QED BY <1>1, <2>4, <2>11, <3>1, <3>2 DEF Counted
  <2>13. CASE Place # 3
    <3>1. Passed' \div 4 = Passed \div 4 BY <2>4, <2>13
    <3>2. CASE Whole' BY <1>1, <2>4, <2>9, <2>11, <3>1, <3>2 DEF Counted
    <3>3. CASE ~Whole'
      <4>1. taken' + losses' >= 2 * (now - Start) + Passed \div 4 + 1 BY <2>9, <2>10, <3>3
      <4> QED BY <1>1, <2>4, <2>5, <2>1, <2>11, <3>1, <4>1 DEF Counted
    <3> QED BY <3>2, <3>3
  <2> QED BY <2>12, <2>13
<1>6. CASE Elsewhere
  BY <1>6, ElsewhereKeeps DEF Counted, Passed, Place, Whole, Form
<1> QED BY <1>3, <1>4, <1>5, <1>6 DEF Next, GpsThread, Elsewhere

\* Every step keeps a loss contained.
LEMMA ContainedStep ==
    ASSUME TypeOK, Within, LineRest, Contained, [Next]_vars
    PROVE  Contained'
<1>1. due \in {0, 1} /\ losses \in Nat /\ starLost \in {0, 1} /\ sbuff \in Seq(Piece)
  <2>1. scene.losses \in Nat BY ScenesAssumption DEF TypeOK
  <2> QED BY <2>1 DEF TypeOK
<1>2. starLost = 1 => starLost' = 1
  BY TakeKeeps, ElsewhereKeeps DEF Next, GpsThread, Elsewhere, Tick, Transmit, Lose
<1>3. losses' = losses \/ losses' = losses + 1
  BY TakeKeeps, ElsewhereKeeps DEF Next, GpsThread, Elsewhere, Tick, Transmit, Lose
<1>4. losses >= 2 => losses' >= 2 BY <1>1, <1>3
<1> SUFFICES ASSUME starLost = 0, losses \in {0, 1}, crashed = 0, Harmless
             PROVE  Contained'
  BY <1>1, <1>2, <1>4 DEF Contained
<1>5. Place \in {0, 1, 2, 3} BY PlaceType
<1>6. CASE Tick \/ Transmit
  <2>1. line = <<>> BY <1>6 DEF Tick, Transmit, LineRest
  <2>2. Place = 0 BY <2>1, PlaceType
  <2>3. Place' = 0
    <3>1. CASE Tick BY <2>1, <2>2, <3>1 DEF Tick, Place, Passed
    <3>2. CASE Transmit
      <4>1. Len(line') = 8 BY <3>2 DEF Transmit, Burst
      <4> QED BY <4>1 DEF Place, Passed
    <3> QED BY <1>6, <3>1, <3>2
  <2>4. UNCHANGED <<losses, s_index, crashed>> BY <1>6 DEF Tick, Transmit
  <2> QED BY <2>2, <2>3, <2>4 DEF Harmless, Contained
<1>7. ASSUME line # <<>>, line' = Tail(line), now' = now
      PROVE  Place' = (IF Place = 3 THEN 0 ELSE Place + 1) /\ Head(line).c = Marks[Place + 1]
  BY <1>7, PieceGone
<1>8. CASE Lose
  <2>1. /\ line # <<>> /\ line' = Tail(line) /\ now' = now
        /\ losses' = losses + 1 /\ UNCHANGED <<s_index, sbuff, crashed>>
        /\ starLost' = IF Head(line).c = "*" THEN 1 ELSE starLost
    BY <1>8 DEF Lose
  <2>2. CASE losses = 1 BY <2>1, <2>2 DEF Contained
  <2>3. CASE losses = 0
    <3>1. losses' = 1 BY <2>1, <2>3
    <3>2. (Place > 0 /\ Whole) \/ (Place = 0 /\ s_index = -1) BY <2>3 DEF Harmless
    <3>3. CASE Place = 0 BY <2>1, <3>1, <3>2, <3>3 DEF Harmless, Contained
    <3>4. CASE Place = 1
      <4>1. s_index = 1 /\ Place' = 2 BY <1>7, <2>1, <3>2, <3>4 DEF Whole
      <4> QED BY <2>1, <3>1, <4>1 DEF Harmless, Contained
    <3>5. CASE Place = 2
      <4>1. Head(line).c = "*" BY <1>7, <2>1, <3>5 DEF Marks
      <4> QED BY <2>1, <4>1 DEF Contained
    <3>6. CASE Place = 3
      <4>1. s_index = 3 /\ Place' = 0 BY <1>7, <2>1, <3>2, <3>6 DEF Whole
      <4> QED BY <2>1, <3>1, <4>1 DEF Harmless, Contained
    <3> QED BY <1>5, <3>3, <3>4, <3>5, <3>6
  <2> QED BY <2>2, <2>3
<1>9. CASE FrameStart
  <2>1. Whole' /\ crashed' = 0 /\ Place' \in 1 .. 3 BY <1>9, WholeGrows
  <2> QED BY <2>1 DEF Harmless, Contained
<1>10. CASE FrameSkip
  <2>1. Place \in {1, 2, 3} /\ s_index = -1 BY <1>10, FramePlace DEF FrameSkip
  <2>2. ~Whole BY <2>1 DEF Whole
  <2>3. losses = 1 BY <2>1, <2>2 DEF Harmless
  <2>4. losses' = 1 /\ s_index' = -1 /\ crashed' = 0
    BY <1>10, <2>1, <2>3, TakeKeeps DEF FrameSkip
  <2> QED BY <2>4 DEF Harmless, Contained
<1>11. CASE FrameChar
  <2>1. /\ Place \in {1, 2} /\ s_index # -1 /\ line # <<>> /\ line' = Tail(line)
        /\ now' = now /\ losses' = losses
    BY <1>11, FramePlace, TakeKeeps DEF FrameChar
  <2>2. CASE Whole
    <3>1. Whole' /\ crashed' = 0 /\ Place' \in 1 .. 3 BY <1>11, <2>2, WholeGrows
    <3> QED BY <3>1 DEF Harmless, Contained
  <2>3. CASE ~Whole
    <3>1. losses = 1 /\ Place = 2 /\ s_index = 1 BY <2>1, <2>3 DEF Harmless
    <3>2. Place' = 3 /\ Head(line).c = "*" BY <1>7, <2>1, <3>1 DEF Marks
    <3>3. SBUFF \in Nat /\ SBUFF >= 3 BY GpsAssumption
    <3>4. s_index' = 2 /\ sbuff' = Append(sbuff, Head(line)) /\ crashed' = 0
      BY <1>11, <3>1, <3>3 DEF FrameChar
    <3>5. Len(sbuff) = 1 /\ Head(line) \in Piece BY <2>1, <3>1, TailOf DEF Within, TypeOK
    <3>6. sbuff'[2] = Head(line)
      <4>0. sbuff \in Seq(Piece) BY DEF TypeOK
      <4>1. Append(sbuff, Head(line))[Len(sbuff) + 1] = Head(line)
        BY <3>5, <4>0, AppendProperties, Zenon
      <4>2. Len(sbuff) + 1 = 2 BY <3>5
      <4> QED BY <3>4, <4>1, <4>2
    <3> QED BY <2>1, <3>1, <3>2, <3>4, <3>6 DEF Harmless, Contained
  <2> QED BY <2>2, <2>3
<1>12. CASE FrameEnd
  <2>1. /\ Place = 3 /\ s_index # -1 /\ s_index' = -1 /\ losses' = losses
        /\ line # <<>> /\ line' = Tail(line) /\ now' = now
    BY <1>12, FramePlace, TakeKeeps DEF FrameEnd
  <2>2. Place' = 0 BY <1>7, <2>1
  <2>3. crashed' = 0
    <3>1. CASE Whole BY <1>12, <3>1, WholeTaken
    <3>2. CASE ~Whole
      <4>1. s_index = 2 /\ sbuff[2].c = "*" BY <2>1, <3>2 DEF Harmless
      <4>2. Len(sbuff) = 2 BY <4>1 DEF Within
      <4>3. ~gps_checksum BY <4>2 DEF gps_checksum
      <4>4. 2 \in Holds("*") BY <1>1, <4>1, <4>2 DEF Holds
      <4> QED BY <1>12, <4>3, <4>4 DEF FrameEnd, NoStar
    <3> QED BY <3>1, <3>2
  <2> QED BY <2>1, <2>2, <2>3 DEF Harmless, Contained
<1>13. CASE Elsewhere
  BY <1>13, ElsewhereKeeps DEF Contained, Harmless, Passed, Place, Whole, Form
<1> QED BY <1>6, <1>8, <1>9, <1>10, <1>11, <1>12, <1>13 DEF Next, GpsThread, Elsewhere

\* The line, the count and the frame as the program starts.
LEMMA LineInit == Init => LineRest /\ Counted /\ Contained
<1> SUFFICES ASSUME Init PROVE LineRest /\ Counted /\ Contained
  OBVIOUS
<1>1. /\ line = <<>> /\ due = 1 /\ gps = "read" /\ now = Start /\ losses = 0 /\ taken = 0
      /\ s_index = -1 /\ crashed = 0
  BY DEF Init
<1>2. Form \in SUBSET Located BY <1>1 DEF Form
<1>3. LineRest BY <1>1, <1>2 DEF LineRest
<1>4. Passed = 8 BY <1>1 DEF Passed
<1>5. Place = 0 BY <1>4 DEF Place
<1>6. Counted BY <1>1, GpsAssumption DEF Counted
<1>7. Contained BY <1>1, <1>5 DEF Contained, Harmless
<1> QED BY <1>3, <1>6, <1>7

\* However many pieces are lost and whichever they are, each costs a sentence at
\* most, and one loss that is not of a "*" never crashes the program.
THEOREM LossesContained == Spec => []LossContained
<1>1. Init => TypeOK /\ Within /\ LineRest /\ Counted /\ Contained BY TypeInit, LineInit
<1>2. TypeOK /\ Within /\ LineRest /\ Counted /\ Contained /\ [Next]_vars =>
        (TypeOK /\ Within /\ LineRest /\ Counted /\ Contained)'
  BY TypeStep, LineStep, CountStep, ContainedStep
<1>3. TypeOK /\ LineRest /\ Counted /\ Contained => LossContained
  <2> SUFFICES ASSUME TypeOK, LineRest, Counted, Contained PROVE LossContained
    OBVIOUS
  <2>1. now \in Nat /\ Start \in Nat BY GpsAssumption DEF TypeOK
  <2>2. ASSUME crashed = 0, due = 0, line = <<>>
        PROVE  taken + losses >= Len(Kinds) * (now - Start + 1)
    <3>1. Passed = 8 /\ Place = 0 BY <2>2, PlaceType
    <3>2. taken + losses >= 2 * (now - Start) + 2 BY <2>1, <2>2, <3>1 DEF Counted
    <3>3. Len(Kinds) = 2 BY DEF Kinds
    <3> QED BY <2>1, <3>2, <3>3
  <2>3. crashed = 1 => starLost = 1 \/ losses >= 2 BY DEF Contained
  <2> QED BY <2>2, <2>3 DEF LossContained
<1> QED BY <1>1, <1>2, <1>3, PTL DEF Spec

-----------------------------------------------------------------------------
(* Messages are whole                                                      *)

\* The second a date is of.
SentIn(d) == Mktime([d EXCEPT !.mon = @ - 1])

\* With the status of a fix, the time and the position are of one sentence.
Agrees(d) == d.status = "A" => \A f \in Position : SentIn(d) = d[f]

\* What gps_gprmc has stored of a sentence with a fix, up to where it is.
TimeStored == gps \notin {"clear", "time"} =>
    \A f \in {"hour", "min", "sec"} : gps_data[f] = Stamp(cmd.t)[f]
DateStored == gps \notin {"clear", "time", "date"} =>
    \A f \in {"mday", "mon"} : gps_data[f] = Stamp(cmd.t)[f]
YearStored == gps \notin {"clear", "time", "date", "year"} => gps_data.year = Stamp(cmd.t).year
PlaceStored ==
    /\ gps \in {"ns_scale", "ew", "ew_scale", "status"} => gps_data.ns_d = cmd.t
    /\ gps \in {"ew", "ew_scale", "status"} => gps_data.ns_m10000 = cmd.t
    /\ gps \in {"ew_scale", "status"} => gps_data.ew_d = cmd.t
    /\ gps = "status" => gps_data.ew_m10000 = cmd.t
Stored == TimeStored /\ DateStored /\ YearStored /\ PlaceStored

\* gps_data is whole but while gps_gprmc runs.
DataWhole ==
    /\ gps \in RmcPlaces /\ cmd.has = Located => Stored
    /\ gps \notin RmcPlaces => Agrees(gps_data)

\* A copy that gps_gprmc has not disturbed is the beginning of gps_data, but for
\* the number of satellites, which gps_gpgga may change.
CopyWhole == torn = 0 =>
    /\ mesg = "copy" =>
           /\ gps \notin RmcPlaces
           /\ \A i \in 1 .. copied : Memory[i] # "count" => msg[Memory[i]] = gps_data[Memory[i]]
    /\ mesg = "send" => Agrees(msg)

\* A date read back is the second it was made of.
LEMMA SentBack ==
    ASSUME NEW d \in GpsData, NEW t \in Nat, \A f \in TmTime : d[f] = Stamp(t)[f]
    PROVE  SentIn(d) = t
<1> DEFINE c == Calendar(t)
           e == [d EXCEPT !.mon = d.mon - 1]
<1>1. /\ d.sec = c.sec /\ d.min = c.min /\ d.hour = c.hour /\ d.mday = c.mday
      /\ d.mon = c.mon + 1 /\ d.year = c.year /\ c.mon \in Int
  BY CalendarType DEF TmTime
<1>2. Mktime(c) = t BY MktimeInverse
<1> HIDE DEF c
<1>3. d \in [Fields -> Int \cup Letters] BY DEF GpsData
<1>4. /\ e.sec = d.sec /\ e.min = d.min /\ e.hour = d.hour /\ e.mday = d.mday
      /\ e.mon = d.mon - 1 /\ e.year = d.year
  BY <1>3 DEF Fields, TmTime
<1>5. SentIn(d) = Mktime(e) BY DEF SentIn
<1>6. d.mon - 1 = c.mon BY <1>1
<1> HIDE DEF e
<1>7. Mktime(e) = Mktime(c) BY <1>1, <1>4, <1>6 DEF Mktime
<1> QED BY <1>2, <1>5, <1>7

\* One field replaced leaves the others.
LEMMA FieldStored ==
    ASSUME NEW d \in GpsData, NEW f \in Fields, NEW v
    PROVE  /\ [d EXCEPT ![f] = v][f] = v
           /\ \A g \in Fields \ {f} : [d EXCEPT ![f] = v][g] = d[g]
BY DEF GpsData

\* The steps of GpsThread in gps_data, field by field.
LEMMA DataSteps ==
    ASSUME TypeOK
    PROVE  /\ gps_gpgga => /\ gps = "gga" /\ gps' = "read"
                           /\ \A f \in Fields \ {"count"} : gps_data'[f] = gps_data[f]
           /\ RmcClear => gps = "clear" /\ gps' = "time" /\ gps_data' = Written
           /\ RmcTime => gps = "time" /\ gps' = "date" /\ gps_data' = Written
           /\ RmcDate => gps = "date" /\ gps' = "year" /\ gps_data' = Written
           /\ RmcYear => /\ gps = "year" /\ gps' = "clock"
                         /\ \A f \in Fields \ {"year"} : gps_data'[f] = gps_data[f]
                         /\ cmd.has = Located => gps_data'.year = Stamp(cmd.t).year
           /\ RmcClock => gps = "clock" /\ gps' = "ns" /\ gps_data' = gps_data
           /\ RmcPosition =>
                  \/ gps = "ns" /\ gps' = "ns_scale" /\ gps_data' = Written
                  \/ /\ gps = "ns_scale" /\ gps' = "ew"
                     /\ \A f \in Fields \ {"ns_m10000"} : gps_data'[f] = gps_data[f]
                     /\ cmd.has = Located => gps_data'.ns_m10000 = cmd.t
                  \/ gps = "ew" /\ gps' = "ew_scale" /\ gps_data' = Written
                  \/ /\ gps = "ew_scale" /\ gps' = "status"
                     /\ \A f \in Fields \ {"ew_m10000"} : gps_data'[f] = gps_data[f]
                     /\ cmd.has = Located => gps_data'.ew_m10000 = cmd.t
           /\ RmcStatus => /\ gps = "status" /\ gps' = "read"
                           /\ \A f \in Fields \ {"status"} : gps_data'[f] = gps_data[f]
                           /\ gps_data'.status = IF cmd.has = Located THEN "A" ELSE "V"
<1>1. gps_data \in GpsData BY DEF TypeOK
<1>2. {"count", "year", "ns_m10000", "ew_m10000", "status"} \subseteq Fields
  BY DEF Fields, TmTime, Position, Minutes
<1>3. ASSUME gps_gpgga
      PROVE  /\ gps = "gga" /\ gps' = "read"
             /\ \A f \in Fields \ {"count"} : gps_data'[f] = gps_data[f]
  BY <1>1, <1>2, <1>3, FieldStored DEF gps_gpgga, GpsStep
<1>4. /\ RmcClear => gps = "clear" /\ gps' = "time" /\ gps_data' = Written
      /\ RmcTime => gps = "time" /\ gps' = "date" /\ gps_data' = Written
      /\ RmcDate => gps = "date" /\ gps' = "year" /\ gps_data' = Written
      /\ RmcClock => gps = "clock" /\ gps' = "ns" /\ gps_data' = gps_data
  BY DEF RmcClear, RmcTime, RmcDate, RmcClock, GpsStep
<1>5. ASSUME RmcYear
      PROVE  /\ gps = "year" /\ gps' = "clock"
             /\ \A f \in Fields \ {"year"} : gps_data'[f] = gps_data[f]
             /\ cmd.has = Located => gps_data'.year = Stamp(cmd.t).year
  <2>1. PICK year \in IF "speed" \in cmd.has THEN {Stamp(cmd.t).year} ELSE Garbage :
            gps_data' = [gps_data EXCEPT !.year = year]
    BY <1>5 DEF RmcYear
  <2>2. gps_data'.year = year /\ \A f \in Fields \ {"year"} : gps_data'[f] = gps_data[f]
    BY <1>1, <1>2, <2>1, FieldStored
  <2>3. cmd.has = Located => year = Stamp(cmd.t).year BY <2>1 DEF Located
  <2> QED BY <1>5, <2>2, <2>3 DEF RmcYear, GpsStep
<1>6. ASSUME RmcPosition
      PROVE  \/ gps = "ns" /\ gps' = "ns_scale" /\ gps_data' = Written
             \/ /\ gps = "ns_scale" /\ gps' = "ew"
                /\ \A f \in Fields \ {"ns_m10000"} : gps_data'[f] = gps_data[f]
                /\ cmd.has = Located => gps_data'.ns_m10000 = cmd.t
             \/ gps = "ew" /\ gps' = "ew_scale" /\ gps_data' = Written
             \/ /\ gps = "ew_scale" /\ gps' = "status"
                /\ \A f \in Fields \ {"ew_m10000"} : gps_data'[f] = gps_data[f]
                /\ cmd.has = Located => gps_data'.ew_m10000 = cmd.t
  <2> DEFINE minutes == IF "position" \in cmd.has THEN cmd.t ELSE Raw
  <2>1. cmd.has = Located => minutes = cmd.t BY DEF Located
  <2>2. \/ gps = "ns" /\ gps' = "ns_scale" /\ gps_data' = Written
        \/ /\ gps = "ns_scale" /\ gps' = "ew"
           /\ gps_data' = [gps_data EXCEPT !.ns_m10000 = minutes]
        \/ gps = "ew" /\ gps' = "ew_scale" /\ gps_data' = Written
        \/ /\ gps = "ew_scale" /\ gps' = "status"
           /\ gps_data' = [gps_data EXCEPT !.ew_m10000 = minutes]
    BY <1>6 DEF RmcPosition, GpsStep
  <2> HIDE DEF minutes
  <2>3. /\ gps_data' = [gps_data EXCEPT !.ns_m10000 = minutes] =>
               /\ gps_data'.ns_m10000 = minutes
               /\ \A f \in Fields \ {"ns_m10000"} : gps_data'[f] = gps_data[f]
        /\ gps_data' = [gps_data EXCEPT !.ew_m10000 = minutes] =>
               /\ gps_data'.ew_m10000 = minutes
               /\ \A f \in Fields \ {"ew_m10000"} : gps_data'[f] = gps_data[f]
    BY <1>1, <1>2, FieldStored
  <2> QED BY <2>1, <2>2, <2>3
<1>7. ASSUME RmcStatus
      PROVE  /\ gps = "status" /\ gps' = "read"
             /\ \A f \in Fields \ {"status"} : gps_data'[f] = gps_data[f]
             /\ gps_data'.status = IF cmd.has = Located THEN "A" ELSE "V"
  BY <1>1, <1>2, <1>7, FieldStored DEF RmcStatus, GpsStep
<1> QED BY <1>3, <1>4, <1>5, <1>6, <1>7

\* Dates that are equal are of one second.
LEMMA AgreesAlike ==
    ASSUME NEW d \in GpsData, NEW e \in GpsData, \A f \in Fields \ {"count"} : d[f] = e[f],
           Agrees(e)
    PROVE  Agrees(d)
<1>1. TmTime \subseteq Fields \ {"count"} /\ Position \subseteq Fields \ {"count"}
      /\ "status" \in Fields \ {"count"}
  BY DEF Fields, TmTime, Position, Minutes
<1> DEFINE D == [d EXCEPT !.mon = d.mon - 1]
           E == [e EXCEPT !.mon = e.mon - 1]
<1>2. /\ D.sec = E.sec /\ D.min = E.min /\ D.hour = E.hour /\ D.mday = E.mday
      /\ D.mon = E.mon /\ D.year = E.year
  <2>1. d \in [Fields -> Int \cup Letters] /\ e \in [Fields -> Int \cup Letters] BY DEF GpsData
  <2>2. /\ d.sec = e.sec /\ d.min = e.min /\ d.hour = e.hour /\ d.mday = e.mday
        /\ d.mon = e.mon /\ d.year = e.year
    BY <1>1 DEF TmTime
  <2> QED BY <2>1, <2>2 DEF Fields, TmTime
<1>3. SentIn(d) = Mktime(D) /\ SentIn(e) = Mktime(E) BY DEF SentIn
<1> HIDE DEF D, E
<1>4. SentIn(d) = SentIn(e) BY <1>2, <1>3 DEF Mktime
<1> QED BY <1>1, <1>4 DEF Agrees

\* gps_data is whole whenever gps_gprmc is not at work.
LEMMA DataStep == TypeOK /\ Within /\ DataWhole /\ [Next]_vars => DataWhole'
<1> SUFFICES ASSUME TypeOK, Within, DataWhole, [Next]_vars PROVE DataWhole'
  OBVIOUS
<1>1. gps_data' \in GpsData /\ gps_data \in GpsData /\ cmd.t \in Nat
  <2>1. TypeOK' BY TypeStep
  <2> QED BY <2>1 DEF TypeOK, Sentence
<1>2. CASE UNCHANGED <<gps, cmd, gps_data>>
  BY <1>2 DEF DataWhole, Stored, TimeStored, DateStored, YearStored, PlaceStored
<1>3. CASE FrameEnd
  <2>1. gps = "read" /\ gps' \in {"read", "gga", "clear"} /\ UNCHANGED gps_data
    BY <1>3 DEF FrameEnd, Take, Accept
  <2> QED BY <2>1 DEF DataWhole, Stored, TimeStored, DateStored, YearStored, PlaceStored, RmcPlaces
<1>4. ASSUME gps_gpgga \/ RmcClear \/ RmcTime \/ RmcDate \/ RmcYear \/ RmcClock \/ RmcPosition
             \/ RmcStatus
      PROVE  cmd' = cmd
  BY <1>4, ElsewhereKeeps DEF Elsewhere
<1>5. CASE gps_gpgga
  <2>1. gps \notin RmcPlaces /\ gps' \notin RmcPlaces BY <1>5, DataSteps DEF RmcPlaces
  <2>2. Agrees(gps_data) BY <2>1 DEF DataWhole
  <2>3. Agrees(gps_data') BY <1>1, <1>5, <2>2, DataSteps, AgreesAlike
  <2> QED BY <2>1, <2>3 DEF DataWhole
<1>6. CASE RmcClear \/ RmcTime \/ RmcDate \/ RmcYear \/ RmcClock \/ RmcPosition
  <2>1. cmd' = cmd /\ gps \in RmcPlaces /\ gps' \in RmcPlaces BY <1>4, <1>6, DataSteps DEF RmcPlaces
  <2> SUFFICES ASSUME cmd.has = Located PROVE Stored'
    BY <2>1 DEF DataWhole
  <2>2. TimeStored /\ DateStored /\ YearStored /\ PlaceStored BY <2>1 DEF DataWhole, Stored
  <2>3. /\ {"hour", "min", "sec"} \subseteq Fields /\ {"mday", "mon"} \subseteq Fields
        /\ {"year", "ns_d", "ns_m10000", "ew_d", "ew_m10000"} \subseteq Fields
        /\ "time" \in cmd.has /\ "speed" \in cmd.has /\ "position" \in cmd.has
    BY DEF Fields, TmTime, Position, Minutes, Located
  <2>4. CASE RmcClear
    BY <2>4, DataSteps DEF Stored, TimeStored, DateStored, YearStored, PlaceStored
  <2>5. CASE RmcTime
    <3>1. \A f \in {"hour", "min", "sec"} : gps_data'[f] = Stamp(cmd.t)[f]
      BY <2>3, <2>5, DataSteps, WrittenIs
    <3> QED BY <2>1, <2>5, <3>1, DataSteps
            DEF Stored, TimeStored, DateStored, YearStored, PlaceStored
  <2>6. CASE RmcDate
    <3>1. /\ \A f \in {"mday", "mon"} : gps_data'[f] = Stamp(cmd.t)[f]
          /\ \A f \in {"hour", "min", "sec"} : gps_data'[f] = gps_data[f]
      BY <2>3, <2>6, DataSteps, WrittenIs
    <3> QED BY <2>1, <2>2, <2>6, <3>1, DataSteps
            DEF Stored, TimeStored, DateStored, YearStored, PlaceStored
  <2>7. CASE RmcYear
    <3>1. /\ gps_data'.year = Stamp(cmd.t).year
          /\ \A f \in {"mday", "mon"} : gps_data'[f] = gps_data[f]
          /\ \A f \in {"hour", "min", "sec"} : gps_data'[f] = gps_data[f]
      BY <2>3, <2>7, DataSteps
    <3> QED BY <2>1, <2>2, <2>7, <3>1, DataSteps
            DEF Stored, TimeStored, DateStored, YearStored, PlaceStored
  <2>8. CASE RmcClock
    BY <2>1, <2>2, <2>8, DataSteps DEF Stored, TimeStored, DateStored, YearStored, PlaceStored
  <2>9. CASE RmcPosition
    <3>1. \A f \in Fields \ {"ns_d", "ns_m10000", "ew_d", "ew_m10000"} : gps_data'[f] = gps_data[f]
      BY <2>9, DataSteps, WrittenIs
    <3>2. (TimeStored /\ DateStored /\ YearStored)'
      <4>1. /\ gps \notin {"clear", "time", "date", "year"}
            /\ gps' \notin {"clear", "time", "date", "year"}
        BY <2>9, DataSteps
      <4> QED BY <2>1, <2>2, <2>3, <3>1, <4>1 DEF TimeStored, DateStored, YearStored
    <3>3. PlaceStored'
      <4>1. CASE gps = "ns"
        <5>1. gps' = "ns_scale" /\ gps_data'.ns_d = cmd.t BY <2>3, <2>9, <4>1, DataSteps, WrittenIs
        <5> QED BY <2>1, <5>1 DEF PlaceStored
      <4>2. CASE gps = "ns_scale"
        <5>1. gps' = "ew" /\ gps_data'.ns_d = gps_data.ns_d /\ gps_data'.ns_m10000 = cmd.t
          BY <2>3, <2>9, <4>2, DataSteps
        <5> QED BY <2>1, <2>2, <4>2, <5>1 DEF PlaceStored
      <4>3. CASE gps = "ew"
        <5>1. /\ gps' = "ew_scale" /\ gps_data'.ns_d = gps_data.ns_d
              /\ gps_data'.ns_m10000 = gps_data.ns_m10000 /\ gps_data'.ew_d = cmd.t
          BY <2>3, <2>9, <4>3, DataSteps, WrittenIs
        <5> QED BY <2>1, <2>2, <4>3, <5>1 DEF PlaceStored
      <4>4. CASE gps = "ew_scale"
        <5>1. /\ gps' = "status" /\ gps_data'.ns_d = gps_data.ns_d
              /\ gps_data'.ns_m10000 = gps_data.ns_m10000 /\ gps_data'.ew_d = gps_data.ew_d
              /\ gps_data'.ew_m10000 = cmd.t
          BY <2>3, <2>9, <4>4, DataSteps
        <5> QED BY <2>1, <2>2, <4>4, <5>1 DEF PlaceStored
      <4> QED BY <2>9, <4>1, <4>2, <4>3, <4>4, DataSteps
    <3> QED BY <3>2, <3>3 DEF Stored
  <2> QED BY <1>6, <2>4, <2>5, <2>6, <2>7, <2>8, <2>9
<1>7. CASE RmcStatus
  <2>1. gps = "status" /\ gps \in RmcPlaces /\ gps' \notin RmcPlaces BY <1>7, DataSteps DEF RmcPlaces
  <2>2. CASE cmd.has # Located
    <3>1. gps_data'.status = "V" BY <1>7, <2>2, DataSteps
    <3> QED BY <2>1, <3>1 DEF DataWhole, Agrees
  <2>3. CASE cmd.has = Located
    <3>1. Stored BY <2>1, <2>3 DEF DataWhole
    <3>2. /\ \A f \in TmTime : gps_data'[f] = Stamp(cmd.t)[f]
          /\ \A f \in Position : gps_data'[f] = cmd.t
      <4>1. /\ \A f \in TmTime : gps_data[f] = Stamp(cmd.t)[f]
            /\ \A f \in Position : gps_data[f] = cmd.t
        BY <2>1, <3>1 DEF Stored, TimeStored, DateStored, YearStored, PlaceStored, TmTime, Position,
                          Minutes
      <4>2. \A f \in TmTime \cup Position : f \in Fields \ {"status"}
        BY DEF Fields, TmTime, Position, Minutes
      <4> QED BY <1>7, <4>1, <4>2, DataSteps
    <3>3. SentIn(gps_data') = cmd.t BY <1>1, <3>2, SentBack
    <3> QED BY <2>1, <3>2, <3>3 DEF DataWhole, Agrees
  <2> QED BY <2>2, <2>3
<1>8. CASE Tick \/ Transmit \/ Lose \/ FrameStart \/ FrameSkip \/ FrameChar \/ MesgThread
           \/ UNCHANGED vars
  <2>1. UNCHANGED <<gps, cmd, gps_data>>
    BY <1>8 DEF Tick, Transmit, Lose, FrameStart, FrameSkip, FrameChar, Take, MesgThread,
                MesgRead, MesgName, MesgCopy, MesgSend, MesgStep, vars
  <2> QED BY <1>2, <2>1
<1> QED BY <1>3, <1>5, <1>6, <1>7, <1>8 DEF Next, GpsThread

\* A copy that was not disturbed is of a whole gps_data.
LEMMA CopyStep == TypeOK /\ Within /\ DataWhole /\ CopyWhole /\ [Next]_vars => CopyWhole'
<1> SUFFICES ASSUME TypeOK, Within, DataWhole, CopyWhole, [Next]_vars PROVE CopyWhole'
  OBVIOUS
<1>1. CASE MesgCopy
  <2> SUFFICES ASSUME torn = 0 PROVE CopyWhole'
    BY <1>1, CopySteps DEF CopyWhole
  <2> DEFINE f == Memory[copied']
  <2>1. /\ gps \notin RmcPlaces /\ mesg = "copy" /\ torn' = 0
        /\ copied \in 0 .. 11 /\ copied' = copied + 1 /\ UNCHANGED <<gps, gps_data>>
    BY <1>1, CopySteps DEF CopyWhole
  <2>2. msg'[f] = gps_data[f] /\ f \in Fields
    <3>1. Written = gps_data BY <2>1, WrittenIs DEF RmcPlaces
    <3> QED BY <1>1, <3>1, CopySteps
  <2>3. ASSUME NEW i \in 1 .. copied', Memory[i] # "count"
        PROVE  msg'[Memory[i]] = gps_data'[Memory[i]]
    <3>1. CASE i = copied' BY <2>1, <2>2, <3>1
    <3>2. CASE i # copied'
      <4>1. i \in 1 .. copied /\ i \in 1 .. 12 /\ copied' \in 1 .. 12 BY <2>1, <3>2
      <4>2. Memory[i] # f /\ Memory[i] \in Fields BY <3>2, <4>1, MemoryIs
      <4>3. msg'[Memory[i]] = msg[Memory[i]] BY <1>1, <4>2, CopySteps
      <4>4. msg[Memory[i]] = gps_data[Memory[i]] BY <2>1, <2>3, <4>1 DEF CopyWhole
      <4> QED BY <2>1, <4>3, <4>4
    <3> QED BY <3>1, <3>2
  <2>4. CASE copied = 11
    <3>1. mesg' = "send" /\ copied' = 12 BY <1>1, <2>1, <2>4, CopySteps
    <3>2. Agrees(gps_data) BY <2>1 DEF DataWhole
    <3>3. \A g \in Fields \ {"count"} : msg'[g] = gps_data[g]
      BY <2>1, <2>3, <3>1, MemoryIs
    <3>4. msg' \in GpsData /\ gps_data \in GpsData BY <1>1, CopySteps DEF TypeOK
    <3>5. Agrees(msg') BY <3>2, <3>3, <3>4, AgreesAlike
    <3> QED BY <3>1, <3>5 DEF CopyWhole
  <2>5. CASE copied # 11
    <3>1. mesg' = "copy" BY <1>1, <2>5, CopySteps
    <3> QED BY <2>1, <2>3, <3>1 DEF CopyWhole
  <2> QED BY <2>4, <2>5
<1>2. CASE MesgName
  <2>1. /\ mesg' = "copy" /\ copied' = 0 /\ gps' = gps
        /\ torn' = IF gps \in RmcPlaces THEN 1 ELSE 0
    BY <1>2 DEF MesgName, MesgStep
  <2>2. \A i \in 1 .. copied' : FALSE BY <2>1
  <2> QED BY <2>1, <2>2 DEF CopyWhole
<1>3. CASE MesgRead \/ MesgSend
  <2>1. mesg' \notin {"copy", "send"} BY <1>3 DEF MesgRead, MesgSend, MesgStep
  <2> QED BY <2>1 DEF CopyWhole
<1>4. CASE gps_gpgga
  <2>1. UNCHANGED <<mesg, msg, torn, copied>> /\ gps' \notin RmcPlaces
    BY <1>4 DEF gps_gpgga, GpsStep, RmcPlaces
  <2>2. ASSUME NEW i \in 1 .. copied, Memory[i] # "count"
        PROVE  gps_data'[Memory[i]] = gps_data[Memory[i]]
    <3>1. i \in 1 .. 12
      <4>1. copied \in 0 .. 12 BY MemoryIs DEF TypeOK
      <4> QED BY <4>1
    <3>2. Memory[i] \in Fields \ {"count"} BY <2>2, <3>1, MemoryIs
    <3> QED BY <1>4, <3>2, DataSteps
  <2> QED BY <2>1, <2>2 DEF CopyWhole
<1>5. CASE RmcClear \/ RmcTime \/ RmcDate \/ RmcYear \/ RmcClock \/ RmcPosition \/ RmcStatus
  <2>1. gps \in RmcPlaces BY <1>5, DataSteps DEF RmcPlaces
  <2>2. UNCHANGED <<mesg, msg, torn>>
    BY <1>5 DEF RmcClear, RmcTime, RmcDate, RmcYear, RmcClock, RmcPosition, RmcStatus, GpsStep
  <2> QED BY <2>1, <2>2 DEF CopyWhole
<1>6. CASE FrameEnd
  <2>1. UNCHANGED <<mesg, msg, copied, gps_data>> BY <1>6, TakeKeeps
  <2>2. \/ UNCHANGED <<gps, torn>>
        \/ /\ gps' \in {"gga", "clear"}
           /\ torn' = IF gps' = "clear" /\ mesg = "copy" THEN 1 ELSE torn
    BY <1>6 DEF FrameEnd, Accept
  <2>3. mesg = "copy" /\ torn' = 0 => torn = 0 /\ (gps' = gps \/ gps' \notin RmcPlaces)
    BY <2>2 DEF RmcPlaces
  <2>4. mesg # "copy" => torn' = torn BY <2>2
  <2> QED BY <2>1, <2>3, <2>4 DEF CopyWhole
<1>7. CASE Tick \/ Transmit \/ Lose \/ FrameStart \/ FrameSkip \/ FrameChar \/ UNCHANGED vars
  <2>1. UNCHANGED <<gps, gps_data, mesg, msg, copied, torn>>
    BY <1>7 DEF Tick, Transmit, Lose, FrameStart, FrameSkip, FrameChar, Take, vars
  <2> QED BY <2>1 DEF CopyWhole
<1> QED BY <1>1, <1>2, <1>3, <1>4, <1>5, <1>6, <1>7 DEF Next, GpsThread, MesgThread

\* What a field of gps_data, or of a message, may hold with nothing lost: that of
\* this second's sentence, of the last one's, or what it is between two stores.
Recent(d, f) ==
    /\ f \in TmTime => d[f] \in {0, Stamp(now - 1)[f], Stamp(now)[f]}
    /\ f \in Position => d[f] \in {now - 1, now} \cup (IF f \in Minutes THEN {Raw} ELSE {})
    /\ f = "status" => d[f] = "A"

\* gps_data is of this second's sentence.
Updated ==
    /\ \A f \in TmTime : gps_data[f] = Stamp(now)[f]
    /\ \A f \in Position : gps_data[f] = now
    /\ gps_data.status = "A"

\* As long as nothing is lost and there is a fix, gps_gprmc runs at the end of a
\* second, with its sentence, and gps_data is never older than a second.
Fresh == losses = 0 /\ blind = 0 =>
    /\ gps \in RmcPlaces => due = 0 /\ line = <<>> /\ cmd.t = now /\ cmd.has = Located
    /\ due = 0 /\ line = <<>> /\ gps \notin RmcPlaces => Updated
    /\ now > Start => \A f \in Fields : Recent(gps_data, f)

\* So are the fields of it that were copied.
CopyFresh == losses = 0 /\ blind = 0 /\ now > Start /\ mesg \in {"copy", "send"} =>
    /\ mesg = "send" => copied = 12
    /\ \A i \in 1 .. copied : Recent(msg, Memory[i])

\* What gps_gprmc stores is as recent.
LEMMA WrittenRecent ==
    ASSUME TypeOK, NEW f \in Fields, Recent(gps_data, f), gps \in RmcPlaces => cmd.t = now
    PROVE  Recent(Written, f)
<1>1. \/ Written[f] = gps_data[f]
      \/ f \in TmTime /\ Written[f] \in {0, Stamp(now)[f]}
      \/ f \in {"ns_d", "ew_d"} /\ Written[f] = now
      \/ f \in Minutes /\ Written[f] = Raw
  <2>1. {"hour", "min", "sec"} \subseteq TmTime /\ {"mday", "mon"} \subseteq TmTime
    BY DEF TmTime
  <2>2. CASE gps = "clear" BY <2>2, WrittenIs
  <2>3. CASE gps = "time" BY <2>1, <2>3, WrittenIs DEF RmcPlaces
  <2>4. CASE gps = "date" BY <2>1, <2>4, WrittenIs DEF RmcPlaces
  <2>5. CASE gps = "ns" BY <2>5, WrittenIs DEF RmcPlaces, Minutes
  <2>6. CASE gps = "ew" BY <2>6, WrittenIs DEF RmcPlaces, Minutes
  <2>7. CASE gps \notin {"clear", "time", "date", "ns", "ew"} BY <2>7, WrittenIs
  <2> QED BY <2>2, <2>3, <2>4, <2>5, <2>6, <2>7
<1>2. /\ \A g \in TmTime : g \notin Position /\ g # "status"
      /\ \A g \in Position : g \notin TmTime /\ g # "status"
      /\ \A g \in {"ns_d", "ew_d"} : g \in Position
      /\ \A g \in Minutes : g \in Position
  BY DEF TmTime, Position, Minutes
<1>3. CASE Written[f] = gps_data[f] BY <1>3 DEF Recent
<1>4. CASE f \in TmTime /\ Written[f] \in {0, Stamp(now)[f]} BY <1>2, <1>4 DEF Recent
<1>5. CASE f \in {"ns_d", "ew_d"} /\ Written[f] = now BY <1>2, <1>5 DEF Recent
<1>6. CASE f \in Minutes /\ Written[f] = Raw BY <1>2, <1>6 DEF Recent
<1> QED BY <1>1, <1>3, <1>4, <1>5, <1>6

\* A "*" that was lost is counted.
StarCounted == starLost = 1 => losses # 0

\* Losses are counted, and a sentence without a fix remembered.
LEMMA OnlyMore ==
    ASSUME TypeOK, [Next]_vars
    PROVE  /\ losses' = losses \/ losses' = losses + 1
           /\ losses' = 0 => losses = 0 /\ ~Lose
           /\ blind' = 0 => blind = 0
           /\ StarCounted => StarCounted'
<1>1. losses \in Nat
  <2>1. scene.losses \in Nat BY ScenesAssumption DEF TypeOK
  <2> QED BY <2>1 DEF TypeOK
<1>2. Lose => losses' = losses + 1 BY DEF Lose
<1>3. losses' = losses \/ losses' = losses + 1
  BY TakeKeeps, ElsewhereKeeps DEF Next, GpsThread, Elsewhere, Tick, Transmit, Lose
<1>4. blind' = blind \/ blind' = 1
  BY ElsewhereKeeps DEF Next, GpsThread, Elsewhere, Tick, Transmit, Lose, FrameStart, FrameSkip,
                        FrameChar, FrameEnd, Accept
<1>5. starLost' = starLost \/ Lose
  BY TakeKeeps, ElsewhereKeeps DEF Next, GpsThread, Elsewhere, Tick, Transmit
<1> QED BY <1>1, <1>2, <1>3, <1>4, <1>5 DEF StarCounted

\* With nothing lost a sentence is taken with every CR.
LEMMA NothingLost ==
    ASSUME TypeOK, Within, LineRest, Contained, StarCounted, losses = 0
    PROVE  /\ (FrameStart \/ FrameChar) => line' # <<>>
           /\ ~FrameSkip
           /\ FrameEnd => /\ Accept /\ crashed' = 0
                          /\ line' = <<>> => cmd'.kind = "RMC"
                          /\ cmd'.kind = "RMC" => line' = <<>>
                          /\ cmd'.t = now
<1>1. starLost = 0 /\ Harmless BY DEF StarCounted, Contained, TypeOK
<1>2. (Place > 0 /\ Whole) \/ (Place = 0 /\ s_index = -1) BY <1>1 DEF Harmless
<1>3. Place \in {0, 1, 2, 3} BY PlaceType
<1>4. FrameStart => line' # <<>> BY WholeGrows
<1>5. FrameChar => line' # <<>>
  <2> SUFFICES ASSUME FrameChar PROVE line' # <<>> OBVIOUS
  <2>1. Place \in {1, 2} BY FramePlace
  <2>2. Whole BY <1>2, <2>1
  <2> QED BY <2>2, WholeGrows
<1>6. ~FrameSkip
  <2> SUFFICES ASSUME FrameSkip PROVE FALSE OBVIOUS
  <2>1. Place \in {1, 2, 3} /\ s_index = -1 BY FramePlace DEF FrameSkip
  <2> QED BY <1>2, <2>1 DEF Whole
<1>7. ASSUME FrameEnd
      PROVE  /\ Accept /\ crashed' = 0
             /\ line' = <<>> => cmd'.kind = "RMC"
             /\ cmd'.kind = "RMC" => line' = <<>>
             /\ cmd'.t = now
  <2>1. Place = 3 BY <1>7, FramePlace
  <2>2. Whole BY <1>2, <2>1
  <2>3. line # <<>> /\ line' = Tail(line) /\ now' = now BY <1>7, TakeKeeps
  <2>4. Passed \in 0 .. 7 /\ (line' = <<>> <=> Passed = 7) BY <2>3, PieceGone
  <2>5. Passed \in {3, 7} BY <2>1, <2>4 DEF Place
  <2>6. /\ Accept /\ crashed' = 0
        /\ cmd' = [kind |-> IF Passed < 4 THEN "GGA" ELSE "RMC", t |-> now, has |-> Form]
    BY <1>7, <2>2, WholeTaken
  <2>7. cmd'.kind = (IF Passed < 4 THEN "GGA" ELSE "RMC") /\ cmd'.t = now BY <2>6
  <2> QED BY <2>4, <2>5, <2>6, <2>7
<1> QED BY <1>4, <1>5, <1>6, <1>7

\* gps_data stays fresh as long as nothing is lost and there is a fix.
LEMMA FreshStep ==
    ASSUME TypeOK, Within, LineRest, Contained, StarCounted, DataWhole, Fresh, [Next]_vars
    PROVE  Fresh'
<1> SUFFICES ASSUME losses' = 0, blind' = 0 PROVE Fresh'
  BY DEF Fresh
<1>1. losses = 0 /\ blind = 0 /\ ~Lose BY OnlyMore
<1>2. /\ gps \in RmcPlaces => due = 0 /\ line = <<>> /\ cmd.t = now /\ cmd.has = Located
      /\ due = 0 /\ line = <<>> /\ gps \notin RmcPlaces => Updated
      /\ now > Start => \A f \in Fields : Recent(gps_data, f)
  BY <1>1 DEF Fresh
<1>3. now \in Nat /\ Start \in Nat /\ due \in {0, 1} BY GpsAssumption DEF TypeOK
<1>4. CASE Tick
  <2>1. /\ due = 0 /\ line = <<>> /\ gps = "read" /\ now' = now + 1 /\ due' = 1
        /\ UNCHANGED <<gps, gps_data>>
    BY <1>4 DEF Tick
  <2>2. gps \notin RmcPlaces BY <2>1 DEF RmcPlaces
  <2>3. Updated BY <1>2, <2>1, <2>2
  <2>4. now' - 1 = now BY <1>3, <2>1
  <2>5. \A f \in Fields : Recent(gps_data, f)'
    BY <2>1, <2>3, <2>4 DEF Updated, Recent
  <2> QED BY <2>1, <2>2, <2>5 DEF Fresh
<1>5. CASE Transmit
  <2>1. /\ due = 1 /\ gps = "read" /\ UNCHANGED <<gps, gps_data, now>>
        /\ \E form : line' = Burst(now, form)
    BY <1>3, <1>5 DEF Transmit, LineRest
  <2>2. gps' \notin RmcPlaces BY <2>1 DEF RmcPlaces
  <2>3. line' # <<>> BY <2>1 DEF Burst
  <2> QED BY <1>2, <2>1, <2>2, <2>3 DEF Fresh, Recent
<1>6. CASE FrameStart \/ FrameSkip \/ FrameChar
  <2>1. line' # <<>> BY <1>1, <1>6, NothingLost
  <2>2. gps = "read" /\ UNCHANGED <<gps, gps_data, now>>
    BY <1>6, TakeKeeps DEF FrameStart, FrameSkip, FrameChar
  <2>3. gps' \notin RmcPlaces BY <2>2 DEF RmcPlaces
  <2> QED BY <1>2, <2>1, <2>2, <2>3 DEF Fresh, Recent
<1>7. CASE FrameEnd
  <2>1. /\ Accept /\ (line' = <<>> => cmd'.kind = "RMC") /\ (cmd'.kind = "RMC" => line' = <<>>)
        /\ cmd'.t = now
    BY <1>1, <1>7, NothingLost
  <2>2. UNCHANGED <<gps_data, now, due>> /\ line # <<>> BY <1>7, TakeKeeps
  <2>3. due = 0 BY <1>3, <2>2 DEF LineRest
  <2>4. gps' = (IF cmd'.kind = "GGA" THEN "gga" ELSE "clear") /\ cmd'.has = Located
    BY <2>1 DEF Accept
  <2>5. cmd'.kind \in {"GGA", "RMC"}
    <3>1. TypeOK' BY TypeStep
    <3> QED BY <3>1 DEF TypeOK, Sentence
  <2>6. /\ gps' \in RmcPlaces => due' = 0 /\ line' = <<>> /\ cmd'.t = now' /\ cmd'.has = Located
        /\ line' = <<>> => gps' \in RmcPlaces
    BY <2>1, <2>2, <2>3, <2>4, <2>5 DEF RmcPlaces
  <2> QED BY <1>2, <2>2, <2>6 DEF Fresh, Recent
<1>8. CASE gps_gpgga
  <2>1. UNCHANGED <<now, due, line>> BY <1>8, ElsewhereKeeps DEF Elsewhere
  <2>2. gps \notin RmcPlaces /\ gps' \notin RmcPlaces BY <1>8, DataSteps DEF RmcPlaces
  <2>3. /\ \A f \in TmTime \cup Position \cup {"status"} : f \in Fields \ {"count"}
        /\ "count" \notin TmTime /\ "count" \notin Position /\ "count" # "status"
    BY DEF Fields, TmTime, Position, Minutes
  <2>4. \A f \in Fields \ {"count"} : gps_data'[f] = gps_data[f] BY <1>8, DataSteps
  <2>5. Updated => Updated' BY <2>1, <2>3, <2>4 DEF Updated
  <2>6. ASSUME NEW f \in Fields, Recent(gps_data, f) PROVE Recent(gps_data, f)'
    <3>1. CASE f = "count" BY <2>3, <3>1 DEF Recent
    <3>2. CASE f # "count" BY <2>1, <2>4, <2>6, <3>2 DEF Recent
    <3> QED BY <3>1, <3>2
  <2> QED BY <1>2, <2>1, <2>2, <2>5, <2>6 DEF Fresh
<1>9. CASE RmcClear \/ RmcTime \/ RmcDate \/ RmcYear \/ RmcClock \/ RmcPosition
  <2>1. UNCHANGED <<now, due, line, cmd>> BY <1>9, ElsewhereKeeps DEF Elsewhere
  <2>2. gps \in RmcPlaces /\ gps' \in RmcPlaces BY <1>9, DataSteps DEF RmcPlaces
  <2>3. due = 0 /\ line = <<>> /\ cmd.t = now /\ cmd.has = Located BY <1>2, <2>2
  <2>4. ASSUME now > Start, NEW f \in Fields
        PROVE  Recent(gps_data, f)'
    <3>1. Recent(gps_data, f) BY <1>2, <2>4
    <3>2. Recent(Written, f) BY <2>3, <3>1, WrittenRecent
    <3>3. CASE gps_data' = Written BY <2>1, <3>2, <3>3 DEF Recent
    <3>4. CASE gps_data'[f] = gps_data[f] BY <2>1, <3>1, <3>4 DEF Recent
    <3>5. CASE f \in TmTime /\ gps_data'[f] = Stamp(cmd.t)[f]
      <4>1. f \notin Position /\ f # "status" BY <3>5 DEF TmTime, Position, Minutes
      <4> QED BY <2>1, <2>3, <3>5, <4>1 DEF Recent
    <3>6. CASE f \in Minutes /\ gps_data'[f] = cmd.t
      <4>1. f \notin TmTime /\ f # "status" BY <3>6 DEF TmTime, Minutes
      <4> QED BY <2>1, <2>3, <3>6, <4>1 DEF Recent
    <3>7. CASE RmcYear
      <4>1. "year" \in TmTime BY DEF TmTime
      <4> QED BY <2>3, <3>4, <3>5, <3>7, <4>1, DataSteps
    <3>8. CASE RmcPosition
      <4>1. "ns_m10000" \in Minutes /\ "ew_m10000" \in Minutes BY DEF Minutes
      <4> QED BY <2>3, <3>3, <3>4, <3>6, <3>8, <4>1, DataSteps
    <3>9. CASE RmcClear \/ RmcTime \/ RmcDate BY <3>3, <3>9, DataSteps
    <3>10. CASE RmcClock BY <3>4, <3>10, DataSteps
    <3> QED BY <1>9, <3>7, <3>8, <3>9, <3>10
  <2> QED BY <2>1, <2>2, <2>3, <2>4 DEF Fresh
<1>10. CASE RmcStatus
  <2>1. UNCHANGED <<now, due, line, cmd>> BY <1>10, ElsewhereKeeps DEF Elsewhere
  <2>2. gps = "status" /\ gps \in RmcPlaces /\ gps' \notin RmcPlaces
    BY <1>10, DataSteps DEF RmcPlaces
  <2>3. due = 0 /\ line = <<>> /\ cmd.t = now /\ cmd.has = Located BY <1>2, <2>2
  <2>4. Stored BY <2>2, <2>3 DEF DataWhole
  <2>5. Updated'
    <3>1. /\ \A f \in TmTime : gps_data[f] = Stamp(cmd.t)[f]
          /\ \A f \in Position : gps_data[f] = cmd.t
      BY <2>2, <2>4 DEF Stored, TimeStored, DateStored, YearStored, PlaceStored, TmTime, Position,
                        Minutes
    <3>2. \A f \in TmTime \cup Position : f \in Fields \ {"status"}
      BY DEF Fields, TmTime, Position, Minutes
    <3>3. /\ \A f \in TmTime : gps_data'[f] = Stamp(cmd.t)[f]
          /\ \A f \in Position : gps_data'[f] = cmd.t
      BY <1>10, <3>1, <3>2, DataSteps
    <3>4. gps_data'.status = "A" BY <1>10, <2>3, DataSteps
    <3> QED BY <2>1, <2>3, <3>3, <3>4 DEF Updated
  <2>6. \A f \in Fields : Recent(gps_data, f)'
    BY <2>5 DEF Updated, Recent
  <2> QED BY <2>2, <2>5, <2>6 DEF Fresh
<1>11. CASE MesgThread \/ UNCHANGED vars
  <2>1. UNCHANGED <<now, due, line, cmd, gps, gps_data>>
    BY <1>11 DEF MesgThread, MesgRead, MesgName, MesgCopy, MesgSend, MesgStep, vars
  <2> QED BY <1>2, <2>1 DEF Fresh, Updated, Recent
<1> QED BY <1>1, <1>4, <1>5, <1>6, <1>7, <1>8, <1>9, <1>10, <1>11 DEF Next, GpsThread

\* What is copied of a fresh gps_data is fresh.
LEMMA CopyFreshStep ==
    ASSUME TypeOK, Within, Fresh, CopyFresh, [Next]_vars
    PROVE  CopyFresh'
<1> SUFFICES ASSUME losses' = 0, blind' = 0, (now > Start)', mesg' \in {"copy", "send"}
             PROVE  CopyFresh'
  BY DEF CopyFresh
<1>1. losses = 0 /\ blind = 0 BY OnlyMore
<1>2. CASE MesgCopy
  <2>0. PICK n \in 1 .. 12 : n = copied'
    <3>1. copied' \in 1 .. 12 BY <1>2, CopySteps
    <3> QED BY <3>1
  <2> DEFINE f == Memory[n]
  <2>1. /\ mesg = "copy" /\ copied \in 0 .. 11 /\ copied' = copied + 1
        /\ mesg' = IF copied = 11 THEN "send" ELSE "copy"
        /\ now' = now /\ f \in Fields /\ msg'[f] \in {gps_data[f], Written[f]}
        /\ \A g \in Fields \ {f} : msg'[g] = msg[g]
    BY <1>2, <2>0, CopySteps
  <2>2. Recent(gps_data, f) BY <1>1, <2>1 DEF Fresh
  <2>3. gps \in RmcPlaces => cmd.t = now BY <1>1 DEF Fresh
  <2>4. Recent(Written, f) BY <2>1, <2>2, <2>3, WrittenRecent
  <2>5. Recent(msg, f)' BY <2>1, <2>2, <2>4 DEF Recent
  <2>6. ASSUME NEW i \in 1 .. copied' PROVE Recent(msg, Memory[i])'
    <3>1. CASE i = copied'
      <4>1. i = n BY <2>0, <3>1
      <4> QED BY <2>5, <4>1
    <3>2. CASE i # copied'
      <4>1. i \in 1 .. copied /\ i \in 1 .. 12 /\ copied' \in 1 .. 12 BY <2>1, <3>2
      <4>2. Memory[i] # f /\ Memory[i] \in Fields BY <2>0, <3>2, <4>1, MemoryIs
      <4>3. Recent(msg, Memory[i]) BY <1>1, <2>1, <4>1 DEF CopyFresh
      <4>4. msg'[Memory[i]] = msg[Memory[i]] BY <2>1, <4>2
      <4> QED BY <2>1, <4>3, <4>4 DEF Recent
    <3> QED BY <3>1, <3>2
  <2>7. mesg' = "send" => copied' = 12 BY <2>1
  <2> QED BY <2>6, <2>7 DEF CopyFresh
<1>3. CASE MesgName
  <2>1. mesg' = "copy" /\ copied' = 0 BY <1>3 DEF MesgName, MesgStep
  <2>2. \A i \in 1 .. copied' : FALSE BY <2>1
  <2> QED BY <2>1, <2>2 DEF CopyFresh
<1>4. CASE MesgRead \/ MesgSend BY <1>4 DEF MesgRead, MesgSend, MesgStep
<1>5. CASE Tick
  <2>1. mesg' \notin {"copy", "send"} BY <1>5 DEF Tick
  <2> QED BY <2>1
<1>6. CASE Transmit \/ Lose \/ GpsThread \/ UNCHANGED vars
  <2>1. UNCHANGED <<now, mesg, msg, copied>>
    BY <1>6, TakeKeeps DEF Transmit, Lose, GpsThread, gps_gpgga, RmcClear, RmcTime, RmcDate, RmcYear,
                           RmcClock, RmcPosition, RmcStatus, GpsStep, vars
  <2> QED BY <1>1, <2>1 DEF CopyFresh, Recent
<1> QED BY <1>2, <1>3, <1>4, <1>5, <1>6 DEF Next, MesgThread

\* A message copied while gps_gprmc did not run is of one sentence, and any other
\* is, with a fix and nothing lost, put together from the last two and zeros.
THEOREM MessagesWhole == Spec => []MessageWhole
<1> DEFINE Framed == TypeOK /\ Within /\ LineRest /\ Contained /\ StarCounted
           Kept == DataWhole /\ CopyWhole /\ Fresh /\ CopyFresh
<1>1. Init => Framed /\ Kept
  <2> SUFFICES ASSUME Init PROVE Framed /\ Kept
    OBVIOUS
  <2>1. Framed BY TypeInit, LineInit DEF Init, StarCounted
  <2>2. gps \notin RmcPlaces /\ mesg = "wait" /\ gps_data.status # "A" /\ due = 1 /\ now = Start
    BY DEF Init, RmcPlaces, Zeroed, Fields
  <2>3. ~(now > Start) BY <2>2, GpsAssumption
  <2>4. Kept BY <2>2, <2>3 DEF DataWhole, CopyWhole, Fresh, CopyFresh, Agrees
  <2> QED BY <2>1, <2>4
<1>2. Framed /\ Kept /\ [Next]_vars => (Framed /\ Kept)'
  BY TypeStep, LineStep, ContainedStep, OnlyMore, DataStep, CopyStep, FreshStep, CopyFreshStep
<1>3. Framed /\ Kept => MessageWhole
  <2> SUFFICES ASSUME Framed, Kept, mesg = "send" PROVE MessageWhole
    BY DEF MessageWhole
  <2>1. ASSUME torn = 0, msg.status = "A", NEW f \in Position
        PROVE  Mktime([msg EXCEPT !.mon = @ - 1]) = msg[f]
    BY <2>1 DEF CopyWhole, Agrees, SentIn
  <2>2. ASSUME blind = 0, losses = 0, now > Start
        PROVE  /\ \A f \in TmTime : msg[f] \in {0, Stamp(now - 1)[f], Stamp(now)[f]}
               /\ \A f \in Position :
                      msg[f] \in {now - 1, now} \cup (IF f \in Minutes THEN {Raw} ELSE {})
               /\ msg.status = "A"
    <3>1. \A i \in 1 .. 12 : Recent(msg, Memory[i]) BY <2>2 DEF CopyFresh
    <3>2. ASSUME NEW f \in Fields PROVE Recent(msg, f)
      <4>1. PICK i \in 1 .. 12 : Memory[i] = f BY MemoryIs
      <4> QED BY <3>1, <4>1
    <3>3. TmTime \subseteq Fields /\ Position \subseteq Fields /\ "status" \in Fields BY DEF Fields
    <3> QED BY <3>2, <3>3 DEF Recent
  <2> QED BY <2>1, <2>2 DEF MessageWhole
<1> QED BY <1>1, <1>2, <1>3, PTL DEF Spec

-----------------------------------------------------------------------------
(* An error of the clock is noticed                                        *)

\* A multiple of the granule decides where a quotient lies.
LEMMA DivAt ==
    ASSUME NEW t \in Int, NEW p \in Int
    PROVE  /\ t >= GRANULE * p => t \div GRANULE >= p
           /\ t < GRANULE * p => t \div GRANULE < p
<1> DEFINE q == t \div GRANULE
           r == t % GRANULE
<1>1. GRANULE \in Nat \ {0} BY GpsAssumption
<1>2. q \in Int /\ r \in Int /\ t = GRANULE * q + r /\ 0 <= r /\ r < GRANULE
  BY <1>1, DivMod
<1> HIDE DEF q, r
<1>3. GRANULE * p \in Int /\ GRANULE * q \in Int BY <1>1, <1>2
<1>4. ASSUME NEW x \in Int, NEW y \in Int, x < y
      PROVE  GRANULE * x + GRANULE <= GRANULE * y /\ GRANULE * x \in Int /\ GRANULE * y \in Int
  <2>1. PICK d \in Nat : y = x + 1 + d
    <3>1. y - x - 1 \in Nat /\ y = x + 1 + (y - x - 1) BY <1>4
    <3> QED BY <3>1
  <2>2. GRANULE * y = GRANULE * x + GRANULE + GRANULE * d BY <1>1, <2>1
  <2>3. GRANULE * d \in Nat /\ GRANULE * x \in Int BY <1>1
  <2> QED BY <1>1, <2>2, <2>3
<1>5. t >= GRANULE * p => q >= p
  <2> SUFFICES ASSUME q < p PROVE t < GRANULE * p BY <1>2, <1>3
  <2>1. GRANULE * q + GRANULE <= GRANULE * p BY <1>2, <1>4
  <2> QED BY <1>1, <1>2, <1>3, <2>1
<1>6. t < GRANULE * p => q < p
  <2> SUFFICES ASSUME q >= p PROVE t >= GRANULE * p BY <1>2, <1>3
  <2>1. CASE q = p BY <1>2, <1>3, <2>1
  <2>2. CASE p < q
    <3>1. GRANULE * p + GRANULE <= GRANULE * q BY <1>2, <1>4, <2>2
    <3> QED BY <1>1, <1>2, <1>3, <3>1
  <2> QED BY <1>2, <2>1, <2>2
<1> QED BY <1>5, <1>6 DEF q

\* Every place in a granule occurs among as many seconds as it has.
LEMMA PlaceOccurs ==
    ASSUME NEW a \in Int, NEW r \in 0 .. GRANULE - 1
    PROVE  LET s == a + 1 + ((r - a - 1) % GRANULE)
           IN  s \in a + 1 .. a + GRANULE /\ \E p \in Int : s = GRANULE * p + r
<1>1. GRANULE \in Nat \ {0} BY GpsAssumption
<1> DEFINE u == r - a - 1
           q == u \div GRANULE
           m == u % GRANULE
<1>2. u \in Int /\ r \in Int BY <1>1
<1>3. u = r - a - 1 OBVIOUS
<1> HIDE DEF u
<1>4. q \in Int /\ m \in Int /\ u = GRANULE * q + m /\ 0 <= m /\ m < GRANULE BY <1>1, <1>2, DivMod
<1> HIDE DEF q, m
<1>5. a + 1 + m \in a + 1 .. a + GRANULE BY <1>1, <1>4
<1>6. a + 1 + m = GRANULE * (-q) + r
  <2>1. GRANULE * (-q) = -(GRANULE * q) /\ GRANULE * q \in Int BY <1>1, <1>4
  <2> QED BY <1>2, <1>3, <1>4, <2>1
<1>7. -q \in Int BY <1>4
<1> QED BY <1>5, <1>6, <1>7 DEF m, u

\* Two places of one granule that are a second's are the same.
LEMMA PlaceUnique ==
    ASSUME NEW p \in Int, NEW q \in Int, NEW x \in 0 .. GRANULE - 1, NEW y \in 0 .. GRANULE - 1,
           GRANULE * p + x = GRANULE * q + y
    PROVE  x = y
<1>1. GRANULE \in Nat \ {0} /\ x \in Int /\ y \in Int BY GpsAssumption
<1> DEFINE t == GRANULE * p + x
<1>2. GRANULE * p \in Int /\ GRANULE * q \in Int
      /\ GRANULE * (p + 1) = GRANULE * p + GRANULE /\ GRANULE * (q + 1) = GRANULE * q + GRANULE
  BY <1>1
<1>3. /\ t \in Int /\ t >= GRANULE * p /\ t < GRANULE * (p + 1)
      /\ t >= GRANULE * q /\ t < GRANULE * (q + 1) /\ p + 1 \in Int /\ q + 1 \in Int
      /\ t = GRANULE * p + x /\ t = GRANULE * q + y
  BY <1>1, <1>2
<1> HIDE DEF t
<1>4. /\ t \div GRANULE >= p /\ t \div GRANULE < p + 1
      /\ t \div GRANULE >= q /\ t \div GRANULE < q + 1
  BY <1>3, DivAt
<1>5. t \div GRANULE \in Int BY <1>1, <1>3, DivMod
<1>6. p = q BY <1>4, <1>5
<1> QED BY <1>1, <1>2, <1>3, <1>6

\* The seconds a clock that is e off is in another granule than GPS time.
MissedAt(e, first, last) == {s \in first .. last : ~SameGranule(s + e, s)}

\* A clock e off is so at one place of the granule for each second it is off.
LEMMA GranuleLeft ==
    ASSUME NEW e \in Int, NEW j \in 1 .. GRANULE, NEW p \in Int, NEW s \in Int, j <= Abs(e),
           s = GRANULE * p + (IF e > 0 THEN GRANULE - j ELSE j - 1)
    PROVE  ~SameGranule(s + e, s)
<1>1. GRANULE \in Nat \ {0} /\ j \in Int BY GpsAssumption
<1>2. GRANULE * p \in Int /\ GRANULE * (p + 1) = GRANULE * p + GRANULE BY <1>1
<1>3. s >= GRANULE * p /\ s < GRANULE * (p + 1) /\ p + 1 \in Int BY <1>1, <1>2
<1>4. s \div GRANULE >= p /\ s \div GRANULE < p + 1 BY <1>3, DivAt
<1>5. s \div GRANULE \in Int BY <1>1, DivMod
<1>6. s \div GRANULE = p BY <1>4, <1>5
<1> DEFINE u == s + e
<1>7. u \in Int /\ u = s + e OBVIOUS
<1>8. (s + e) \div GRANULE = u \div GRANULE OBVIOUS
<1> HIDE DEF u
<1>9. u \div GRANULE \in Int BY <1>1, <1>7, DivMod
<1>10. CASE e > 0
  <2>1. u >= GRANULE * (p + 1) BY <1>1, <1>2, <1>7, <1>10 DEF Abs
  <2>2. u \div GRANULE >= p + 1 BY <1>3, <1>7, <2>1, DivAt
  <2> QED BY <1>6, <1>8, <1>9, <2>2 DEF SameGranule
<1>11. CASE ~(e > 0)
  <2>1. u < GRANULE * p BY <1>1, <1>2, <1>7, <1>11 DEF Abs
  <2>2. u \div GRANULE < p BY <1>7, <2>1, DivAt
  <2> QED BY <1>6, <1>8, <1>9, <2>2 DEF SameGranule
<1> QED BY <1>10, <1>11

\* A clock that is off is noticed, in as many seconds as a granule has, as often
\* as it is seconds off, or at every one.
LEMMA GranulesMissed ==
    ASSUME NEW e \in Int, NEW a \in Int, NEW k \in Nat, k <= GRANULE, k <= Abs(e)
    PROVE  /\ IsFiniteSet(MissedAt(e, a + 1, a + GRANULE))
           /\ Cardinality(MissedAt(e, a + 1, a + GRANULE)) \in Nat
           /\ Cardinality(MissedAt(e, a + 1, a + GRANULE)) >= k
<1> DEFINE S == MissedAt(e, a + 1, a + GRANULE)
           R(j) == IF e > 0 THEN GRANULE - j ELSE j - 1
           At(j) == a + 1 + ((R(j) - a - 1) % GRANULE)
<1>1. GRANULE \in Nat \ {0} /\ a + 1 \in Int /\ a + GRANULE \in Int BY GpsAssumption
<1>2. IsFiniteSet(a + 1 .. a + GRANULE) BY <1>1, FS_Interval, Zenon
<1>3. S \in SUBSET (a + 1 .. a + GRANULE) BY DEF MissedAt
<1>4. IsFiniteSet(S) BY <1>2, <1>3, FS_Subset, Zenon
<1>5. Cardinality(S) \in Nat BY <1>4, FS_CardinalityType, Zenon
<1>6. IsFiniteSet(1 .. k)
  <2>1. k \in Int /\ 1 \in Int OBVIOUS
  <2> QED BY <2>1, FS_Interval, Zenon
<1>7. Cardinality(1 .. k) = k
  <2>1. k \in Int /\ 1 \in Int OBVIOUS
  <2>2. Cardinality(1 .. k) = IF 1 > k THEN 0 ELSE k - 1 + 1 BY <2>1, FS_Interval, Zenon
  <2> QED BY <2>2
<1>8. ASSUME NEW j \in 1 .. k
      PROVE  /\ R(j) \in 0 .. GRANULE - 1 /\ j \in 1 .. GRANULE /\ j <= Abs(e)
  BY <1>1 DEF Abs
<1>9. ASSUME NEW j \in 1 .. k
      PROVE  At(j) \in a + 1 .. a + GRANULE /\ \E p \in Int : At(j) = GRANULE * p + R(j)
  <2>1. R(j) \in 0 .. GRANULE - 1 BY <1>8
  <2> HIDE DEF R
  <2> QED BY <2>1, PlaceOccurs
<1>10. ASSUME NEW j \in 1 .. k PROVE At(j) \in S
  <2>1. PICK p \in Int : At(j) = GRANULE * p + R(j) BY <1>9
  <2>2. At(j) \in a + 1 .. a + GRANULE BY <1>9
  <2>3. PICK s \in a + 1 .. a + GRANULE : s = At(j) BY <2>2
  <2> HIDE DEF At
  <2>4. s \in Int /\ s = GRANULE * p + R(j) BY <1>1, <2>1, <2>3
  <2>5. j \in 1 .. GRANULE /\ j <= Abs(e) BY <1>8
  <2>6. ~SameGranule(s + e, s) BY <2>4, <2>5, GranuleLeft
  <2> QED BY <2>3, <2>6 DEF MissedAt
<1>11. ASSUME NEW i \in 1 .. k, NEW j \in 1 .. k, At(i) = At(j) PROVE i = j
  <2>1. PICK p \in Int : At(i) = GRANULE * p + R(i) BY <1>9
  <2>2. PICK q \in Int : At(j) = GRANULE * q + R(j) BY <1>9
  <2>3. R(i) \in 0 .. GRANULE - 1 /\ R(j) \in 0 .. GRANULE - 1 BY <1>8
  <2>4. GRANULE * p + R(i) = GRANULE * q + R(j) BY <1>11, <2>1, <2>2
  <2>5. R(i) = R(j)
    <3> HIDE DEF R
    <3> QED BY <2>3, <2>4, PlaceUnique, Zenon
  <2> QED BY <1>1, <2>5
<1> HIDE DEF At, R, S
<1> DEFINE f == [j \in 1 .. k |-> At(j)]
<1>12. f \in [1 .. k -> S] BY <1>10
<1>13. \A i, j \in 1 .. k : f[i] = f[j] => i = j BY <1>11
<1> HIDE DEF f
<1>14. ~(Cardinality(S) < Cardinality(1 .. k))
  <2> SUFFICES ASSUME Cardinality(S) < Cardinality(1 .. k) PROVE FALSE OBVIOUS
  <2>1. \E i, j \in 1 .. k : i # j /\ f[i] = f[j]
    BY <1>4, <1>6, <1>12, FS_PigeonHole, Zenon
  <2> QED BY <1>13, <2>1
<1>15. Cardinality(S) >= k BY <1>5, <1>7, <1>14
<1> QED BY <1>4, <1>5, <1>15 DEF S

\* A clock e off that is right to the l losses, or to one second more because it
\* drifted since and no granule has shown it: o is 1 while the sentence that is
\* to show it is not to come, or not of this second.
RightAt(e, l, a, seen, o) ==
    \/ Abs(e) <= l
    \/ Abs(e) = l + 1 /\ MissedAt(e, a + 1, seen) = {} /\ o = 0

\* Before the first granule has passed, a clock that is not right has not drifted,
\* and every second that would have shown it was lost.
CloseAt(e, l, a, seen, o, sync, t) ==
    IF sync = 1 \/ t > Start + GRANULE
    THEN sync = 1 \/ l < GRANULE => RightAt(e, l, a, seen, o)
    ELSE a = Start /\ l >= Cardinality(MissedAt(e, Start, seen)) + o

\* One second more is missed at most, and none if the granules are the same.
LEMMA MissedMore ==
    ASSUME NEW e \in Int, NEW first \in Int, NEW last \in Int
    PROVE  LET M == MissedAt(e, first, last)
               L == MissedAt(e, first, last + 1)
           IN  /\ IsFiniteSet(M) /\ IsFiniteSet(L)
               /\ Cardinality(M) \in Nat /\ Cardinality(L) \in Nat
               /\ L \subseteq M \cup {last + 1}
               /\ Cardinality(L) <= Cardinality(M) + 1
               /\ SameGranule(last + 1 + e, last + 1) => L \subseteq M /\ Cardinality(L) <= Cardinality(M)
<1> DEFINE M == MissedAt(e, first, last)
           L == MissedAt(e, first, last + 1)
<1>1. last + 1 \in Int OBVIOUS
<1>2. IsFiniteSet(first .. last) /\ IsFiniteSet(first .. last + 1) BY <1>1, FS_Interval, Zenon
<1>3. M \in SUBSET (first .. last) /\ L \in SUBSET (first .. last + 1) BY DEF MissedAt
<1>4. IsFiniteSet(M) /\ IsFiniteSet(L) BY <1>2, <1>3, FS_Subset, Zenon
<1>5. L \subseteq M \cup {last + 1} BY DEF MissedAt
<1>6. SameGranule(last + 1 + e, last + 1) => L \subseteq M BY <1>5 DEF MissedAt
<1> HIDE DEF M, L
<1>7. Cardinality(M) \in Nat /\ Cardinality(L) \in Nat BY <1>4, FS_CardinalityType, Zenon
<1>8. Cardinality(L) <= Cardinality(M) + 1
  <2> DEFINE N == M \cup {last + 1}
  <2>1. IsFiniteSet(N) BY <1>4, FS_AddElement, Zenon
  <2>2. Cardinality(N) = IF last + 1 \in M THEN Cardinality(M) ELSE Cardinality(M) + 1
    BY <1>4, FS_AddElement, Zenon
  <2>3. L \in SUBSET N BY <1>5
  <2> HIDE DEF N
  <2>4. Cardinality(L) <= Cardinality(N) BY <2>1, <2>3, FS_Subset, Zenon
  <2> QED BY <1>7, <2>2, <2>4
<1>9. L \subseteq M => Cardinality(L) <= Cardinality(M) BY <1>4, FS_Subset, Zenon
<1> QED BY <1>4, <1>5, <1>6, <1>7, <1>8, <1>9 DEF M, L

\* A second that goes by without the clock being shown wrong, and a sentence that
\* is not to come, are each paid for by a loss.
LEMMA CloseGoes ==
    ASSUME NEW e, NEW l, NEW a, NEW seen, NEW o, NEW sync, NEW t, NEW l2, NEW seen2, NEW o2,
           CloseAt(e, l, a, seen, o, sync, t),
           e \in Int /\ l \in Nat /\ a \in Int /\ seen \in Int /\ o \in {0, 1} /\ t \in Int,
           l2 \in Nat /\ seen2 \in Int /\ o2 \in {0, 1},
           l2 = l \/ l2 = l + 1,
           seen2 = seen \/ seen2 = seen + 1,
           \/ o2 = 0
           \/ seen2 = seen /\ (l2 = l + 1 \/ o = 1),
           seen2 = seen \/ SameGranule(seen2 + e, seen2) \/ l2 = l + 1 \/ o = 1
    PROVE  CloseAt(e, l2, a, seen2, o2, sync, t)
<1>1. GRANULE \in Nat \ {0} /\ Start \in Int BY GpsAssumption
<1>2. a + 1 \in Int BY <1>1
<1>3. Abs(e) \in Nat BY DEF Abs
<1>4. CASE sync = 1 \/ t > Start + GRANULE
  <2> SUFFICES ASSUME sync = 1 \/ l2 < GRANULE PROVE RightAt(e, l2, a, seen2, o2)
    BY <1>4 DEF CloseAt
  <2>1. sync = 1 \/ l < GRANULE BY <1>1
  <2>2. RightAt(e, l, a, seen, o) BY <1>4, <2>1 DEF CloseAt
  <2>3. CASE Abs(e) <= l2 BY <2>3 DEF RightAt
  <2>4. CASE ~(Abs(e) <= l2)
    <3>1. ~(Abs(e) <= l) BY <1>3, <2>4
    <3>2. Abs(e) = l + 1 /\ MissedAt(e, a + 1, seen) = {} /\ o = 0 BY <2>2, <3>1 DEF RightAt
    <3>3. l2 = l BY <1>3, <2>4, <3>2
    <3>4. o2 = 0 /\ (seen2 = seen \/ SameGranule(seen2 + e, seen2)) BY <3>2, <3>3
    <3>5. MissedAt(e, a + 1, seen2) = {}
      <4>1. CASE seen2 = seen BY <3>2, <4>1
      <4>2. CASE seen2 = seen + 1 /\ SameGranule(seen2 + e, seen2)
        <5>1. SameGranule(seen + 1 + e, seen + 1) BY <4>2
        <5>2. MissedAt(e, a + 1, seen + 1) \subseteq MissedAt(e, a + 1, seen)
          BY <1>2, <5>1, MissedMore, Zenon
        <5> QED BY <3>2, <4>2, <5>2
      <4> QED BY <3>4, <4>1, <4>2
    <3> QED BY <3>2, <3>3, <3>4, <3>5 DEF RightAt
  <2> QED BY <2>3, <2>4
<1>5. CASE ~(sync = 1 \/ t > Start + GRANULE)
  <2>1. a = Start /\ l >= Cardinality(MissedAt(e, Start, seen)) + o BY <1>5 DEF CloseAt
  <2>2. PICK c \in Nat : c = Cardinality(MissedAt(e, Start, seen)) BY <1>1, MissedMore, Zenon
  <2>3. l >= c + o BY <2>1, <2>2
  <2>4. CASE seen2 = seen
    <3>1. l2 >= c + o2 BY <2>3, <2>4
    <3> QED BY <1>5, <2>1, <2>2, <2>4, <3>1 DEF CloseAt
  <2>5. CASE seen2 # seen
    <3>1. seen2 = seen + 1 /\ o2 = 0 BY <2>5
    <3>2. PICK d \in Nat : d = Cardinality(MissedAt(e, Start, seen + 1)) BY <1>1, MissedMore, Zenon
    <3>3. d <= c + 1 BY <1>1, <2>2, <3>2, MissedMore, Zenon
    <3>4. SameGranule(seen + 1 + e, seen + 1) => d <= c BY <1>1, <2>2, <3>2, MissedMore, Zenon
    <3>5. SameGranule(seen + 1 + e, seen + 1) \/ l2 = l + 1 \/ o = 1 BY <3>1
    <3>6. l2 >= d + o2 BY <2>3, <3>1, <3>3, <3>4, <3>5
    <3> QED BY <1>5, <2>1, <3>1, <3>2, <3>6 DEF CloseAt
  <2> QED BY <2>4, <2>5
<1> QED BY <1>4, <1>5

\* A second passes with all of the last one seen: a clock can drift only once a
\* whole granule has shown it right.
LEMMA CloseTick ==
    ASSUME NEW e, NEW l, NEW a, NEW t, NEW o, NEW sync, NEW e2, NEW a2, NEW t2,
           CloseAt(e, l, a, t, o, sync, t),
           e \in Int /\ l \in Nat /\ a \in Int /\ t \in Int /\ o \in {0, 1},
           e2 \in Int /\ a2 \in Int /\ t2 = t + 1,
           (e2 = e /\ a2 = a) \/ (t >= a + GRANULE /\ a2 = t /\ e2 \in {e - 1, e + 1})
    PROVE  CloseAt(e2, l, a2, t, 0, sync, t2)
<1>0. t2 = t + 1 OBVIOUS
<1>1. GRANULE \in Nat \ {0} /\ Start \in Int BY GpsAssumption
<1>2. Abs(e) \in Nat /\ Abs(e2) \in Nat BY DEF Abs
<1>3. ASSUME Abs(e) <= l, e2 # e PROVE RightAt(e2, l, a2, t, 0)
  <2>1. Abs(e2) <= Abs(e) + 1 BY <1>3 DEF Abs
  <2>2. Abs(e2) <= l \/ Abs(e2) = l + 1 BY <1>2, <1>3, <2>1
  <2>3. a2 + 1 .. t = {} BY <1>3
  <2>4. MissedAt(e2, a2 + 1, t) = {} BY <2>3 DEF MissedAt
  <2> QED BY <2>2, <2>4 DEF RightAt
<1>4. CASE sync = 1 \/ t > Start + GRANULE
  <2> SUFFICES ASSUME sync = 1 \/ l < GRANULE PROVE RightAt(e2, l, a2, t, 0)
    BY <1>0, <1>1, <1>4 DEF CloseAt
  <2>1. RightAt(e, l, a, t, o) BY <1>4 DEF CloseAt
  <2>2. CASE e2 = e /\ a2 = a BY <2>1, <2>2 DEF RightAt
  <2>3. CASE ~(e2 = e /\ a2 = a)
    <3>1. t >= a + GRANULE /\ a2 = t /\ e2 \in {e - 1, e + 1} BY <2>3
    <3>2. Abs(e) <= l
      <4> SUFFICES ASSUME ~(Abs(e) <= l) PROVE FALSE OBVIOUS
      <4>1. Abs(e) = l + 1 /\ MissedAt(e, a + 1, t) = {} BY <2>1 DEF RightAt
      <4>2. MissedAt(e, a + 1, a + GRANULE) \subseteq MissedAt(e, a + 1, t)
        BY <1>1, <3>1 DEF MissedAt
      <4>3. MissedAt(e, a + 1, a + GRANULE) = {} BY <4>1, <4>2
      <4>4. 1 <= GRANULE /\ 1 <= Abs(e) /\ 1 \in Nat BY <1>1, <4>1
      <4>5. Cardinality(MissedAt(e, a + 1, a + GRANULE)) >= 1 BY <4>4, GranulesMissed, Zenon
      <4>6. Cardinality({}) = 0 BY FS_EmptySet, Zenon
      <4>7. Cardinality(MissedAt(e, a + 1, a + GRANULE)) = 0 BY <4>3, <4>6
      <4> QED BY <4>5, <4>7
    <3>3. e2 # e BY <3>1
    <3> QED BY <1>3, <3>2, <3>3
  <2> QED BY <2>2, <2>3
<1>5. CASE ~(sync = 1 \/ t > Start + GRANULE)
  <2>1. a = Start /\ l >= Cardinality(MissedAt(e, Start, t)) + o BY <1>5 DEF CloseAt
  <2> DEFINE c == Cardinality(MissedAt(e, Start, t))
  <2>2. c \in Nat /\ IsFiniteSet(MissedAt(e, Start, t)) BY <1>1, MissedMore, Zenon
  <2>3. CASE t + 1 > Start + GRANULE
    <3> SUFFICES ASSUME l < GRANULE PROVE RightAt(e2, l, a2, t, 0)
      BY <1>5, <2>3 DEF CloseAt
    <3>1. t = Start + GRANULE BY <1>1, <1>5, <2>3
    <3>2. Abs(e) <= l
      <4> SUFFICES ASSUME ~(Abs(e) <= l) PROVE FALSE OBVIOUS
      <4> DEFINE S == MissedAt(e, Start + 1, Start + GRANULE)
      <4>1. l + 1 \in Nat /\ l + 1 <= GRANULE /\ l + 1 <= Abs(e) BY <1>1, <1>2
      <4>2. Cardinality(S) \in Nat /\ Cardinality(S) >= l + 1
        BY <1>1, <4>1, GranulesMissed, Zenon
      <4>3. S \in SUBSET MissedAt(e, Start, t) BY <1>1, <3>1 DEF MissedAt
      <4> HIDE DEF S
      <4>4. Cardinality(S) <= c BY <2>2, <4>3, FS_Subset, Zenon
      <4>5. l >= c BY <2>1, <2>2
      <4> HIDE DEF c
      <4> QED BY <2>2, <4>2, <4>4, <4>5
    <3>3. CASE e2 = e BY <3>2, <3>3 DEF RightAt
    <3>4. CASE e2 # e BY <1>3, <3>2, <3>4
    <3> QED BY <3>3, <3>4
  <2>4. CASE ~(t + 1 > Start + GRANULE)
    <3>1. e2 = e /\ a2 = a BY <1>1, <2>1, <2>4
    <3>2. l >= c + 0 BY <2>1, <2>2
    <3>3. ~(sync = 1 \/ t + 1 > Start + GRANULE) BY <1>5, <2>4
    <3> QED BY <2>1, <3>1, <3>2, <3>3 DEF CloseAt
  <2> QED BY <2>3, <2>4
<1> QED BY <1>4, <1>5

-----------------------------------------------------------------------------
(* How old a sentence can be                                               *)

\* A sentence of second t, in second n: every second it is late is paid for by a
\* loss, and so is the next (w) if nothing is to come any more in this one.
AgeWithin(t, n, w, l) == t <= n /\ n - t + w <= l
Waits == IF due = 0 /\ line = <<>> THEN 1 ELSE 0
Aged ==
    /\ s_index # -1 => \A i \in DOMAIN sbuff : AgeWithin(sbuff[i].s.t, now, Waits, losses)
    /\ gps \in RmcPlaces => AgeWithin(cmd.t, now, 0, losses)

\* gps_gprmc runs with a fix as long as no sentence without was taken.
HasFix == blind = 0 /\ gps \in RmcPlaces => cmd.has = Located

\* What age and losses allow.
LEMMA AgeGoes ==
    ASSUME NEW t \in Nat, NEW n \in Nat, NEW l \in Nat, NEW w \in {0, 1}, AgeWithin(t, n, w, l)
    PROVE  /\ AgeWithin(t, n, 0, l)
           /\ \A v \in {0, 1} : AgeWithin(t, n, v, l + 1)
           /\ w = 1 => AgeWithin(t, n + 1, 0, l)
BY DEF AgeWithin

\* Every step keeps the age of what is in the frame, and of what was taken.
LEMMA AgedStep ==
    ASSUME TypeOK, Within, LineRest, Aged, [Next]_vars
    PROVE  Aged'
<1>1. now \in Nat /\ losses \in Nat /\ due \in {0, 1} /\ sbuff \in Seq(Piece) /\ line \in Seq(Piece)
  <2>1. scene.losses \in Nat BY ScenesAssumption DEF TypeOK
  <2> QED BY <2>1 DEF TypeOK
<1>2. \A i \in DOMAIN sbuff : sbuff[i] \in Piece /\ sbuff[i].s.t \in Nat
  <2>1. \A i \in DOMAIN sbuff : sbuff[i] \in Piece BY <1>1
  <2> QED BY <2>1 DEF Piece, Sentence
<1>3. cmd.t \in Nat BY DEF TypeOK, Sentence
<1>4. Waits \in {0, 1} BY DEF Waits
<1>5. ASSUME s_index # -1, NEW i \in DOMAIN sbuff
      PROVE  /\ AgeWithin(sbuff[i].s.t, now, Waits, losses)
             /\ AgeWithin(sbuff[i].s.t, now, 0, losses)
             /\ AgeWithin(sbuff[i].s.t, now, 0, losses + 1)
             /\ AgeWithin(sbuff[i].s.t, now, 1, losses + 1)
             /\ Waits = 1 => AgeWithin(sbuff[i].s.t, now + 1, 0, losses)
  <2>1. AgeWithin(sbuff[i].s.t, now, Waits, losses) BY <1>5 DEF Aged
  <2>2. sbuff[i].s.t \in Nat BY <1>2
  <2>3. 0 \in {0, 1} /\ 1 \in {0, 1} OBVIOUS
  <2> QED BY <1>1, <1>4, <2>1, <2>2, <2>3, AgeGoes, Zenon
<1>6. CASE Tick
  <2>1. /\ gps' = "read" /\ due = 0 /\ line = <<>> /\ due' = 1 /\ now' = now + 1
        /\ UNCHANGED <<sbuff, s_index, losses>>
    BY <1>6 DEF Tick
  <2>2. Waits = 1 /\ Waits' = 0 /\ gps' \notin RmcPlaces BY <2>1 DEF Waits, RmcPlaces
  <2> QED BY <1>5, <2>1, <2>2 DEF Aged
<1>7. CASE Transmit
  <2>1. /\ due = 1 /\ UNCHANGED <<now, sbuff, s_index, losses, gps, cmd>>
        /\ \E form : line' = Burst(now, form)
    BY <1>7 DEF Transmit
  <2>2. line' # <<>> BY <2>1 DEF Burst
  <2>3. Waits' = 0 BY <2>2 DEF Waits
  <2> QED BY <1>5, <2>1, <2>3 DEF Aged
<1>8. CASE Lose
  <2>1. UNCHANGED <<now, sbuff, s_index, gps, cmd>> /\ losses' = losses + 1 BY <1>8 DEF Lose
  <2>2. Waits' \in {0, 1} BY DEF Waits
  <2>3. gps \in RmcPlaces => AgeWithin(cmd.t, now, 0, losses + 1)
    <3>1. 0 \in {0, 1} OBVIOUS
    <3> QED BY <1>1, <1>3, <3>1, AgeGoes, Zenon DEF Aged
  <2> QED BY <1>5, <2>1, <2>2, <2>3 DEF Aged
<1>9. AgeWithin(now, now, 0, losses) BY <1>1 DEF AgeWithin
<1>10. ASSUME FrameStart \/ FrameSkip \/ FrameChar \/ FrameEnd
       PROVE  /\ UNCHANGED <<now, losses>> /\ gps = "read" /\ due = 0 /\ Waits = 0
              /\ Head(line).s.t = now /\ (Place # 3 => line' # <<>>) /\ Head(line) \in Piece
  <2>1. line # <<>> /\ line' = Tail(line) /\ UNCHANGED <<now, losses>> /\ gps = "read"
    BY <1>10, TakeKeeps
  <2>2. due = 0 BY <1>1, <2>1 DEF LineRest
  <2>3. /\ Passed \in 0 .. 7 /\ (line' = <<>> <=> Passed = 7)
        /\ Head(line) = Burst(now, Form)[Passed + 1]
    BY <2>1, PieceGone
  <2>4. Place # 3 => line' # <<>> BY <2>3 DEF Place
  <2>5. Form \in SUBSET Located BY DEF LineRest
  <2>6. PICK i \in 1 .. 8 : i = Passed + 1 BY <2>3
  <2>7. Burst(now, Form)[i].s.t = now
    <3>1. Burst(now, Form)[i].s = [kind |-> IF i <= 4 THEN "GGA" ELSE "RMC", t |-> now, has |-> Form]
      BY <1>1, <2>5, BurstPieces, Zenon
    <3> QED BY <3>1
  <2>8. Waits = 0 BY <2>1 DEF Waits
  <2>9. Head(line) \in Piece BY <1>1, <2>1, TailOf
  <2> QED BY <2>1, <2>2, <2>3, <2>4, <2>6, <2>7, <2>8, <2>9
<1>11. CASE FrameStart
  <2>1. sbuff' = <<Head(line)>> /\ gps' = gps BY <1>11 DEF FrameStart
  <2>2. Place = 0 BY <1>11, FramePlace
  <2>3. Waits' = 0 /\ gps' \notin RmcPlaces BY <1>10, <1>11, <2>1, <2>2 DEF Waits, RmcPlaces
  <2>4. DOMAIN sbuff' = {1} /\ sbuff'[1] = Head(line) BY <2>1
  <2> QED BY <1>9, <1>10, <1>11, <2>3, <2>4 DEF Aged
<1>12. CASE FrameSkip
  <2>1. s_index' = -1 /\ gps' = gps BY <1>12 DEF FrameSkip
  <2> QED BY <1>10, <1>12, <2>1 DEF Aged, RmcPlaces
<1>13. CASE FrameChar
  <2>1. /\ s_index # -1 /\ gps' = gps
        /\ sbuff' = sbuff \/ sbuff' = Append(sbuff, Head(line))
    BY <1>13 DEF FrameChar
  <2>2. Place \in {1, 2} BY <1>13, FramePlace
  <2>3. Waits' = 0 /\ gps' \notin RmcPlaces BY <1>10, <1>13, <2>1, <2>2 DEF Waits, RmcPlaces
  <2>4. ASSUME NEW i \in DOMAIN sbuff'
        PROVE  (i \in DOMAIN sbuff /\ sbuff'[i] = sbuff[i]) \/ sbuff'[i] = Head(line)
    <3>1. CASE sbuff' = sbuff BY <2>4, <3>1
    <3>2. CASE sbuff' = Append(sbuff, Head(line))
      <4>1. Head(line) \in Piece BY <1>10, <1>13
      <4>2. DOMAIN sbuff' = 1 .. Len(sbuff) + 1 /\ DOMAIN sbuff = 1 .. Len(sbuff) /\ Len(sbuff) \in Nat
        BY <1>1, <3>2, <4>1
      <4>3. sbuff'[i] = IF i <= Len(sbuff) THEN sbuff[i] ELSE Head(line)
        BY <1>1, <2>4, <3>2, <4>1, <4>2
      <4> QED BY <2>4, <4>2, <4>3
    <3> QED BY <2>1, <3>1, <3>2
  <2>5. ASSUME NEW i \in DOMAIN sbuff' PROVE AgeWithin(sbuff'[i].s.t, now, 0, losses)
    <3>1. CASE i \in DOMAIN sbuff /\ sbuff'[i] = sbuff[i] BY <1>5, <2>1, <3>1
    <3>2. CASE sbuff'[i] = Head(line) BY <1>9, <1>10, <1>13, <3>2
    <3> QED BY <2>4, <3>1, <3>2
  <2> QED BY <1>10, <1>13, <2>3, <2>5 DEF Aged
<1>14. CASE FrameEnd
  <2>1. /\ s_index # -1 /\ s_index' = -1
        /\ UNCHANGED gps \/ (gps_checksum /\ cmd' = sbuff[2].s)
    BY <1>14 DEF FrameEnd, Accept
  <2>2. CASE UNCHANGED gps BY <1>10, <1>14, <2>1, <2>2 DEF Aged, RmcPlaces
  <2>3. CASE gps_checksum /\ cmd' = sbuff[2].s
    <3>1. 2 \in DOMAIN sbuff BY <1>1, <2>3 DEF gps_checksum
    <3>2. AgeWithin(sbuff[2].s.t, now, 0, losses) BY <1>5, <2>1, <3>1
    <3> QED BY <1>10, <1>14, <2>1, <2>3, <3>2 DEF Aged
  <2> QED BY <2>1, <2>2, <2>3
<1>15. CASE Elsewhere
  <2>1. UNCHANGED <<now, due, losses, line, sbuff, s_index, cmd>> BY <1>15, ElsewhereKeeps
  <2>2. Waits' = Waits BY <2>1 DEF Waits
  <2>3. gps' \in RmcPlaces => gps \in RmcPlaces
    BY <1>15 DEF Elsewhere, MesgThread, MesgRead, MesgName, MesgCopy, MesgSend, MesgStep, GpsStep,
                 gps_gpgga, RmcClear, RmcTime, RmcDate, RmcYear, RmcClock, RmcPosition, RmcStatus, vars,
                 RmcPlaces
  <2> QED BY <2>1, <2>2, <2>3 DEF Aged
<1> QED BY <1>6, <1>7, <1>8, <1>11, <1>12, <1>13, <1>14, <1>15 DEF Next, GpsThread, Elsewhere

\* Every step keeps that gps_gprmc has a fix.
LEMMA FixStep == HasFix /\ [Next]_vars => HasFix'
<1> SUFFICES ASSUME HasFix, [Next]_vars PROVE HasFix'
  OBVIOUS
<1>1. CASE FrameEnd
  <2>1. gps = "read" BY <1>1 DEF FrameEnd, Take
  <2>2. \/ gps' = gps
        \/ blind' = IF cmd'.has = Located THEN blind ELSE 1
    BY <1>1 DEF FrameEnd, Accept
  <2> QED BY <2>1, <2>2 DEF HasFix, RmcPlaces
<1>2. CASE Elsewhere
  <2>1. UNCHANGED <<blind, cmd>> BY <1>2, ElsewhereKeeps
  <2>2. gps' \in RmcPlaces => gps \in RmcPlaces
    BY <1>2 DEF Elsewhere, MesgThread, MesgRead, MesgName, MesgCopy, MesgSend, MesgStep, GpsStep,
                gps_gpgga, RmcClear, RmcTime, RmcDate, RmcYear, RmcClock, RmcPosition, RmcStatus, vars,
                RmcPlaces
  <2> QED BY <2>1, <2>2 DEF HasFix
<1>3. CASE Tick \/ Transmit \/ Lose \/ FrameStart \/ FrameSkip \/ FrameChar
  <2>1. UNCHANGED <<blind, cmd, gps>>
    BY <1>3 DEF Tick, Transmit, Lose, FrameStart, FrameSkip, FrameChar
  <2> QED BY <2>1 DEF HasFix
<1> QED BY <1>1, <1>2, <1>3 DEF Next, GpsThread, Elsewhere

-----------------------------------------------------------------------------
(* The clock tracks GPS time                                               *)

\* Where gps_gprmc has not compared the clock yet, how far off the clock is, and
\* the last second it was, or could have been, compared in.
Reading == {"clear", "time", "date", "year", "clock"}
Off == clock - now
Seen == IF due = 0 /\ line = <<>> /\ gps \notin Reading THEN now ELSE now - 1

\* The RMC sentence of this second, once it has begun, will be compared.
ToCome ==
    /\ due = 0 /\ Passed \in 5 .. 7 => Whole
    /\ gps \in Reading /\ line = <<>> => cmd.t = now
Owing == IF ToCome THEN 0 ELSE 1

Close == blind = 0 => CloseAt(Off, losses, adjusted, Seen, Owing, synced, now)

\* Every step keeps the clock close: what it costs in seconds not seen is paid
\* for by what was lost.
LEMMA CloseStep ==
    ASSUME TypeOK, Within, LineRest, Aged, HasFix, Close, FixSetsClock', [Next]_vars
    PROVE  Close'
<1> SUFFICES ASSUME blind' = 0
             PROVE  CloseAt(Off', losses', adjusted', Seen', Owing', synced', now')
  BY DEF Close
<1>1. blind = 0 BY OnlyMore
<1>2. CloseAt(Off, losses, adjusted, Seen, Owing, synced, now) BY <1>1 DEF Close
<1>3. /\ now \in Nat /\ losses \in Nat /\ due \in {0, 1} /\ clock \in Int /\ adjusted \in Nat
      /\ line \in Seq(Piece)
  <2>1. scene.losses \in Nat BY ScenesAssumption DEF TypeOK
  <2> QED BY <2>1 DEF TypeOK
<1>4. Off \in Int /\ Seen \in Int /\ Owing \in {0, 1} /\ Owing' \in {0, 1} /\ now - 1 \in Int
  BY <1>3 DEF Off, Seen, Owing
<1>5. ASSUME UNCHANGED <<clock, now, adjusted, synced>>,
             losses' = losses \/ losses' = losses + 1,
             Seen' = Seen \/ Seen' = Seen + 1,
             \/ Owing' = 0
             \/ Seen' = Seen /\ (losses' = losses + 1 \/ Owing = 1),
             Seen' = Seen \/ SameGranule(Seen + 1 + Off, Seen + 1) \/ losses' = losses + 1 \/ Owing = 1
      PROVE  CloseAt(Off', losses', adjusted', Seen', Owing', synced', now')
  <2>1. PICK e \in Int, s \in Int, o \in {0, 1} : e = Off /\ s = Seen /\ o = Owing BY <1>4
  <2>2. PICK k \in Nat, a \in Int, t \in Int : k = losses /\ a = adjusted /\ t = now BY <1>3
  <2>3. PICK y : y = synced OBVIOUS
  <2>4. PICK l \in Nat, u \in Int, n \in {0, 1} : l = losses' /\ u = Seen' /\ n = Owing'
    <3>1. losses' \in Nat /\ Seen' \in Int BY <1>3, <1>4, <1>5
    <3> QED BY <1>4, <3>1
  <2>5. CloseAt(e, k, a, s, o, y, t) BY <1>2, <2>1, <2>2, <2>3
  <2>6. /\ l = k \/ l = k + 1
        /\ u = s \/ u = s + 1
        /\ n = 0 \/ (u = s /\ (l = k + 1 \/ o = 1))
        /\ u = s \/ SameGranule(u + e, u) \/ l = k + 1 \/ o = 1
    BY <1>5, <2>1, <2>4, <2>2
  <2>7. CloseAt(e, l, a, u, n, y, t) BY <2>5, <2>6, CloseGoes, Zenon
  <2>8. Off' = e BY <1>5, <2>1 DEF Off
  <2> QED BY <1>5, <2>1, <2>4, <2>7, <2>8, <2>2, <2>3
<1>6. CASE Tick
  <2>1. /\ due = 0 /\ line = <<>> /\ gps = "read" /\ due' = 1 /\ now' = now + 1
        /\ UNCHANGED <<losses, synced, gps, line>>
        /\ \/ clock' = clock + 1 /\ adjusted' = adjusted
           \/ now >= adjusted + GRANULE /\ clock' \in {clock, clock + 2} /\ adjusted' = now
    BY <1>6 DEF Tick
  <2>2. Seen = now /\ Seen' = now
    <3>1. gps \notin Reading BY <2>1 DEF Reading
    <3> QED BY <1>3, <2>1, <3>1 DEF Seen
  <2>3. Owing' = 0 BY <2>1 DEF Owing, ToCome, Reading
  <2>4. PICK e \in Int : e = Off'
    <3>1. Off' \in Int BY <1>3, <2>1 DEF Off
    <3> QED BY <3>1
  <2>5. PICK a \in Int : a = adjusted' BY <1>3, <2>1
  <2>6. (e = Off /\ a = adjusted) \/ (now >= adjusted + GRANULE /\ a = now /\ e \in {Off - 1, Off + 1})
    BY <1>3, <2>1, <2>4, <2>5 DEF Off
  <2>7. adjusted \in Int /\ now \in Int BY <1>3
  <2>8. CloseAt(e, losses, a, now, 0, synced, now + 1)
    <3>1. PICK f \in Int, o \in {0, 1} : f = Off /\ o = Owing BY <1>4
    <3>2. PICK k \in Nat, b \in Int, t \in Int : k = losses /\ b = adjusted /\ t = now BY <1>3
    <3>3. PICK y : y = synced OBVIOUS
    <3>4. CloseAt(f, k, b, t, o, y, t) BY <1>2, <2>2, <3>1, <3>2, <3>3
    <3>5. (e = f /\ a = b) \/ (t >= b + GRANULE /\ a = t /\ e \in {f - 1, f + 1})
      BY <2>6, <3>1, <3>2
    <3>6. PICK v : v = t + 1 OBVIOUS
    <3>7. CloseAt(e, k, a, t, 0, y, v) BY <3>4, <3>5, <3>6, CloseTick
    <3> QED BY <3>6, <3>7, <3>2, <3>3
  <2> QED BY <2>1, <2>2, <2>3, <2>4, <2>5, <2>8
<1>7. ASSUME UNCHANGED <<clock, now, adjusted, synced, losses>>, Seen' = Seen,
             Owing' = 0 \/ Owing = 1
      PROVE  CloseAt(Off', losses', adjusted', Seen', Owing', synced', now')
  BY <1>5, <1>7
<1>8. CASE Transmit
  <2>1. /\ due = 1 /\ UNCHANGED <<clock, now, adjusted, synced, losses, gps>>
        /\ \E form : line' = Burst(now, form)
    BY <1>8 DEF Transmit
  <2>2. Len(line') = 8 /\ line' # <<>> BY <2>1 DEF Burst
  <2>3. Seen' = now - 1 /\ Seen = now - 1 BY <2>1, <2>2 DEF Seen
  <2>4. Passed' = 0 BY <2>2 DEF Passed
  <2>5. Owing' = 0 BY <2>2, <2>4 DEF Owing, ToCome
  <2> QED BY <1>7, <2>1, <2>3, <2>5
<1>9. ASSUME line # <<>>, line' = Tail(line), UNCHANGED <<now, due>>
      PROVE  /\ due = 0 /\ Seen = now - 1 /\ Place \in {0, 1, 2, 3}
             /\ line' # <<>> \/ gps' \in Reading => Seen' = Seen
             /\ line' = <<>> /\ gps' \notin Reading => Seen' = Seen + 1
             /\ line' = <<>> => Passed = 7 /\ Place = 3 /\ ~(Passed' \in 5 .. 7)
             /\ Place = 3 => ~(Passed' \in 5 .. 7)
             /\ Passed' \in 5 .. 7 => Place = 0 \/ Passed \in 5 .. 7
             /\ Passed \in 0 .. 7
  <2>1. due = 0 BY <1>3, <1>9 DEF LineRest
  <2>2. Passed \in 0 .. 7 /\ Passed' = Passed + 1 /\ (line' = <<>> <=> Passed = 7)
    BY <1>9, PieceGone
  <2>3. Seen = now - 1 BY <1>9 DEF Seen
  <2>4. line' # <<>> \/ gps' \in Reading => Seen' = now - 1 BY <1>9 DEF Seen
  <2>5. line' = <<>> /\ gps' \notin Reading => Seen' = now BY <1>9, <2>1 DEF Seen
  <2>6. PICK p \in 0 .. 7 : p = Passed BY <2>2
  <2>7. Passed' = p + 1 BY <2>2, <2>6
  <2>8. Place = p % 4 BY <2>6 DEF Place
  <2>9. line' = <<>> <=> p = 7 BY <2>2, <2>6
  <2>10. now = now - 1 + 1 BY <1>3
  <2>11. Place \in {0, 1, 2, 3} BY <2>8
  <2>12. /\ p = 7 => Place = 3
         /\ Place = 3 => ~(p + 1 \in 5 .. 7)
         /\ p + 1 \in 5 .. 7 => Place = 0 \/ p \in 5 .. 7
         /\ p = 7 => ~(p + 1 \in 5 .. 7)
    BY <2>8
  <2> QED BY <2>1, <2>3, <2>4, <2>5, <2>6, <2>7, <2>9, <2>10, <2>11, <2>12
<1>11. CASE Lose
  <2>1. /\ line # <<>> /\ line' = Tail(line) /\ UNCHANGED <<now, due, clock, adjusted, synced, gps>>
        /\ losses' = losses + 1
    BY <1>11 DEF Lose
  <2>2. CASE line' # <<>> \/ gps' \in Reading
    <3>1. Seen' = Seen BY <1>9, <2>1, <2>2
    <3> QED BY <1>5, <2>1, <3>1
  <2>3. CASE line' = <<>> /\ gps' \notin Reading
    <3>1. Seen' = Seen + 1 /\ Owing' = 0 BY <1>9, <2>1, <2>3 DEF Owing, ToCome
    <3> QED BY <1>5, <2>1, <3>1
  <2> QED BY <2>2, <2>3
<1>12. ASSUME FrameStart \/ FrameSkip \/ FrameChar \/ FrameEnd
       PROVE  /\ line # <<>> /\ line' = Tail(line) /\ gps = "read" /\ gps \notin Reading
              /\ UNCHANGED <<now, due, clock, adjusted, synced, losses>>
  BY <1>12, TakeKeeps DEF Reading
<1>13. ASSUME FrameStart \/ FrameSkip \/ FrameChar \/ FrameEnd, Owing = 1
       PROVE  CloseAt(Off', losses', adjusted', Seen', Owing', synced', now')
  <2>1. CASE line' # <<>> \/ gps' \in Reading
    <3>1. Seen' = Seen BY <1>9, <1>12, <1>13, <2>1
    <3> QED BY <1>7, <1>12, <1>13, <3>1
  <2>2. CASE line' = <<>> /\ gps' \notin Reading
    <3>1. Seen' = Seen + 1 /\ Owing' = 0 BY <1>9, <1>12, <1>13, <2>2 DEF Owing, ToCome
    <3> QED BY <1>5, <1>12, <1>13, <3>1
  <2> QED BY <2>1, <2>2
<1>14. ASSUME FrameStart \/ FrameSkip \/ FrameChar, line' # <<>>, Passed' \in 5 .. 7 => Whole'
       PROVE  CloseAt(Off', losses', adjusted', Seen', Owing', synced', now')
  <2>1. Seen' = Seen BY <1>9, <1>12, <1>14
  <2>2. gps' \notin Reading BY <1>12, <1>14 DEF FrameStart, FrameSkip, FrameChar
  <2>3. Owing' = 0 BY <1>14, <2>2 DEF Owing, ToCome
  <2> QED BY <1>7, <1>12, <1>14, <2>1, <2>3
<1>15. CASE FrameStart
  <2>1. Whole' /\ line' # <<>> BY <1>15, WholeGrows
  <2> QED BY <1>14, <1>15, <2>1
<1>16. CASE FrameSkip \/ FrameChar
  <2>1. CASE Owing = 1 BY <1>13, <1>16, <2>1
  <2>2. CASE Owing # 1
    <3>1. ToCome BY <2>2 DEF Owing
    <3>2. Passed \in 5 .. 7 => Whole BY <1>9, <1>12, <1>16, <3>1 DEF ToCome
    <3>3. Place \in {1, 2, 3} /\ (FrameSkip => s_index = -1) BY <1>16, FramePlace DEF FrameSkip
    <3>4. FrameSkip => ~Whole BY <3>3 DEF Whole
    <3>5. CASE Passed \in 5 .. 7
      <4>1. FrameChar /\ Whole BY <1>16, <3>2, <3>4, <3>5
      <4>2. Whole' /\ line' # <<>> BY <4>1, WholeGrows
      <4> QED BY <1>14, <4>1, <4>2
    <3>6. CASE ~(Passed \in 5 .. 7)
      <4>1. ~(Passed' \in 5 .. 7) /\ Passed # 7 BY <1>9, <1>12, <1>16, <3>3, <3>6
      <4>2. line' # <<>> BY <1>9, <1>12, <1>16, <4>1
      <4> QED BY <1>14, <1>16, <4>1, <4>2
    <3> QED BY <3>5, <3>6
  <2> QED BY <2>1, <2>2
<1>17. CASE FrameEnd
  <2>1. CASE Owing = 1 BY <1>13, <1>17, <2>1
  <2>2. CASE Owing # 1
    <3>1. ToCome BY <2>2 DEF Owing
    <3>2. Place = 3 /\ ~(Passed' \in 5 .. 7) BY <1>9, <1>12, <1>17, FramePlace
    <3>3. CASE line' # <<>>
      <4>1. Seen' = Seen /\ Owing' = 0 BY <1>9, <1>12, <1>17, <3>2, <3>3 DEF Owing, ToCome
      <4> QED BY <1>7, <1>12, <1>17, <4>1
    <3>4. CASE line' = <<>>
      <4>1. Passed = 7 /\ due = 0 BY <1>9, <1>12, <1>17, <3>4
      <4>2. Whole BY <3>1, <4>1 DEF ToCome
      <4>3. /\ Accept
            /\ cmd' = [kind |-> IF Passed < 4 THEN "GGA" ELSE "RMC", t |-> now, has |-> Form]
        BY <1>17, <4>2, WholeTaken
      <4>4. cmd'.kind = "RMC" /\ cmd'.t = now BY <4>1, <4>3
      <4>5. gps' = "clear" BY <4>3, <4>4 DEF Accept
      <4>6. gps' \in Reading BY <4>5 DEF Reading
      <4>7. Seen' = Seen BY <1>9, <1>12, <1>17, <4>6
      <4>8. Owing' = 0 BY <1>12, <1>17, <3>2, <4>4 DEF Owing, ToCome
      <4> QED BY <1>7, <1>12, <1>17, <4>7, <4>8
    <3> QED BY <3>3, <3>4
  <2> QED BY <2>1, <2>2
<1>18. CASE gps_gpgga \/ RmcClear \/ RmcTime \/ RmcDate \/ RmcYear \/ RmcPosition \/ RmcStatus
            \/ MesgThread \/ UNCHANGED vars
  <2>1. UNCHANGED <<now, adjusted, due, losses, line, sbuff, s_index, cmd>>
    BY <1>18, ElsewhereKeeps DEF Elsewhere
  <2>2. UNCHANGED <<clock, synced>> /\ (gps' \in Reading <=> gps \in Reading)
    BY <1>18 DEF MesgThread, MesgRead, MesgName, MesgCopy, MesgSend, MesgStep, GpsStep, gps_gpgga,
                 RmcClear, RmcTime, RmcDate, RmcYear, RmcPosition, RmcStatus, vars, Reading
  <2>3. Seen' = Seen BY <2>1, <2>2 DEF Seen
  <2>4. Owing' = Owing BY <2>1, <2>2 DEF Owing, ToCome, Passed, Place, Whole, Form
  <2> QED BY <1>4, <1>7, <2>1, <2>2, <2>3, <2>4
<1>19. CASE RmcClock
  <2>1. /\ gps = "clock" /\ gps' = "ns"
        /\ UNCHANGED <<now, adjusted, due, losses, line, sbuff, s_index, cmd>>
    BY <1>19, ElsewhereKeeps DEF Elsewhere, RmcClock, GpsStep
  <2>2. gps \in RmcPlaces /\ gps \in Reading /\ gps' \notin Reading BY <2>1 DEF RmcPlaces, Reading
  <2>3. cmd.has = Located /\ AgeWithin(cmd.t, now, 0, losses) BY <1>1, <2>2 DEF HasFix, Aged
  <2>4. tmg' = cmd.t BY <2>1, <2>3 DEF FixSetsClock
  <2>5. /\ clock' = IF ~SameGranule(clock, cmd.t) THEN cmd.t ELSE clock
        /\ synced' = IF clock' = cmd.t THEN 1 ELSE synced
    BY <1>19, <2>4 DEF RmcClock, SetClock
  <2>6. cmd.t \in Nat BY DEF TypeOK, Sentence
  <2>7. CASE clock' = cmd.t
    <3>1. synced' = 1 BY <2>5, <2>7
    <3>2. Off' = cmd.t - now BY <2>1, <2>7 DEF Off
    <3>3. Abs(cmd.t - now) <= losses BY <1>3, <2>3, <2>6 DEF Abs, AgeWithin
    <3> QED BY <2>1, <3>1, <3>2, <3>3 DEF CloseAt, RightAt
  <2>8. CASE clock' # cmd.t
    <3>1. SameGranule(clock, cmd.t) /\ UNCHANGED <<clock, synced>> BY <2>5, <2>8
    <3>2. due = 0 BY <1>3, <2>1 DEF LineRest
    <3>3. Seen = now - 1 BY <2>2 DEF Seen
    <3>4. CASE line # <<>>
      <4>1. Seen' = Seen BY <2>1, <3>3, <3>4 DEF Seen
      <4>2. Owing' = Owing BY <2>1, <2>2, <3>4 DEF Owing, ToCome, Passed, Place, Whole, Form
      <4> QED BY <1>4, <1>7, <2>1, <3>1, <4>1, <4>2
    <3>5. CASE line = <<>>
      <4>1. Seen' = Seen + 1 /\ Seen + 1 = now /\ Seen + 1 + Off = clock
        BY <1>3, <2>1, <2>2, <3>2, <3>3, <3>5 DEF Seen, Off
      <4>2. Passed = 8 BY <3>5, PlaceType
      <4>3. Passed' = Passed BY <2>1 DEF Passed
      <4>4. Owing' = 0 BY <2>2, <4>2, <4>3 DEF Owing, ToCome
      <4>5. cmd.t # now => Owing = 1 BY <2>2, <3>5 DEF Owing, ToCome
      <4>6. cmd.t = now => SameGranule(Seen + 1 + Off, Seen + 1) BY <3>1, <4>1
      <4> QED BY <1>5, <2>1, <3>1, <4>1, <4>4, <4>5, <4>6
    <3> QED BY <3>4, <3>5
  <2> QED BY <2>7, <2>8
<1> QED BY <1>6, <1>8, <1>11, <1>15, <1>16, <1>17, <1>18, <1>19 DEF Next, GpsThread

\* The clock, the age of the sentences and the fix as the program starts.
LEMMA CloseInit == Init => Aged /\ HasFix /\ Close
<1> SUFFICES ASSUME Init PROVE Aged /\ HasFix /\ Close
  OBVIOUS
<1>1. /\ line = <<>> /\ due = 1 /\ gps = "read" /\ now = Start /\ losses = 0 /\ s_index = -1
      /\ adjusted = Start /\ synced = (IF clock = Start THEN 1 ELSE 0)
  BY DEF Init
<1>2. clock \in Int /\ Start \in Nat /\ GRANULE \in Nat \ {0}
  BY GpsAssumption, ScenesAssumption DEF Init
<1>3. gps \notin RmcPlaces /\ gps \notin Reading BY <1>1 DEF RmcPlaces, Reading
<1>4. Aged /\ HasFix BY <1>1, <1>3 DEF Aged, HasFix
<1>5. Seen = Start - 1 /\ Owing = 0 BY <1>1, <1>3 DEF Seen, Owing, ToCome
<1>6. CASE clock = Start
  <2>1. Off = 0 /\ synced = 1 BY <1>1, <1>2, <1>6 DEF Off
  <2>2. Abs(0) <= 0 BY DEF Abs
  <2> QED BY <1>1, <1>4, <2>1, <2>2 DEF Close, CloseAt, RightAt
<1>7. CASE clock # Start
  <2>1. synced = 0 /\ ~(Start > Start + GRANULE) BY <1>1, <1>2, <1>7
  <2>2. Start .. Start - 1 = {} BY <1>2
  <2>3. MissedAt(Off, Start, Seen) = {} BY <1>5, <2>2 DEF MissedAt
  <2>4. Cardinality({}) = 0 BY FS_EmptySet, Zenon
  <2>5. 0 >= Cardinality({}) + 0 BY <2>4
  <2> QED BY <1>1, <1>4, <1>5, <2>1, <2>3, <2>5 DEF Close, CloseAt
<1> QED BY <1>6, <1>7

\* Whatever the drift, the losses and the first error of the clock: it is right to
\* one second and one for each loss once it was right, or a granule has passed.
THEOREM ClockTracksGps == Spec => []TracksGps
<1> DEFINE Framed == TypeOK /\ Within /\ LineRest
           Tracked == Aged /\ HasFix /\ Close
<1>1. Init => Framed /\ Tracked BY TypeInit, LineInit, CloseInit
<1>2. Framed /\ Tracked /\ FixSetsClock' /\ [Next]_vars => (Framed /\ Tracked)'
  BY TypeStep, LineStep, AgedStep, FixStep, CloseStep
<1>3. Framed /\ Tracked => TracksGps
  <2> SUFFICES ASSUME Framed, Tracked, blind = 0,
                      synced = 1 \/ (now > Start + GRANULE /\ losses < GRANULE)
               PROVE  Abs(clock - now) <= 1 + losses
    BY DEF TracksGps
  <2>1. clock \in Int /\ now \in Int /\ losses \in Nat
    <3>1. scene.losses \in Nat BY ScenesAssumption DEF TypeOK
    <3> QED BY <3>1 DEF TypeOK
  <2>2. RightAt(Off, losses, adjusted, Seen, Owing) BY DEF Close, CloseAt
  <2>3. Abs(Off) <= losses \/ Abs(Off) = losses + 1 BY <2>2 DEF RightAt
  <2>4. Abs(Off) \in Nat /\ Off = clock - now BY <2>1 DEF Abs, Off
  <2> QED BY <2>1, <2>3, <2>4
<1> QED BY <1>1, <1>2, <1>3, ClockFollowsFix, PTL DEF Spec

-----------------------------------------------------------------------------
(* No record overwrites another                                            *)

\* The second in a file name, against that of a trigger and the losses so far:
\* MesgThread is a second late at most, and the clock one and the losses fast.
NameBy(n, last, l) == n <= last + 2 + l
FarEnough(l) == T_ACQ >= 4 + 2 * l

\* The names are of triggers up to the last one, and up to the one before while
\* MesgThread has the last one to name.
Named == blind = 0 =>
    /\ synced = 0 \/ records = 0 => names = {}
    /\ \A n \in names : /\ NameBy(n, lastTrigger, losses)
                        /\ mesg = "name" => NameBy(n, lastTrigger - T_ACQ, losses)
    /\ mesg = "name" => records # 0 /\ (now = lastTrigger \/ now = lastTrigger + 1)
    /\ FarEnough(losses) => overwrote = 0

\* What another loss, and another trigger, leave of a bound.
LEMMA NameGoes ==
    ASSUME NEW n \in Int, NEW last \in Int, NEW l \in Nat, NameBy(n, last, l)
    PROVE  /\ NameBy(n, last, l + 1)
           /\ \A t \in Int : t >= last + T_ACQ => NameBy(n, t, l) /\ NameBy(n, t - T_ACQ, l)
<1>1. T_ACQ \in Nat BY GpsAssumption
<1> QED BY <1>1 DEF NameBy

\* Every step keeps the names apart.
LEMMA NamedStep ==
    ASSUME TypeOK, TracksGps, Named, [Next]_vars
    PROVE  Named'
<1> SUFFICES ASSUME blind' = 0 PROVE Named'
  BY DEF Named
<1>1. blind = 0 BY OnlyMore
<1>2. /\ synced = 0 \/ records = 0 => names = {}
      /\ \A n \in names : /\ NameBy(n, lastTrigger, losses)
                          /\ mesg = "name" => NameBy(n, lastTrigger - T_ACQ, losses)
      /\ mesg = "name" => records # 0 /\ (now = lastTrigger \/ now = lastTrigger + 1)
      /\ FarEnough(losses) => overwrote = 0
  BY <1>1 DEF Named
<1>3. /\ now \in Nat /\ losses \in Nat /\ lastTrigger \in Nat /\ names \subseteq Int /\ clock \in Int
      /\ synced \in {0, 1} /\ records \in Nat /\ T_ACQ \in Nat /\ lastTrigger - T_ACQ \in Int
  <2>1. scene.losses \in Nat /\ scene.records \in Nat BY ScenesAssumption DEF TypeOK
  <2> QED BY <2>1, GpsAssumption DEF TypeOK
<1>4. CASE Tick
  <2>1. /\ UNCHANGED <<synced, records, names, lastTrigger, losses, mesg, overwrote>>
        /\ now' = now + 1 /\ (mesg = "name" => lastTrigger = now)
    BY <1>4 DEF Tick
  <2> QED BY <1>2, <1>3, <2>1 DEF Named
<1>5. CASE Lose
  <2>1. /\ UNCHANGED <<synced, records, names, lastTrigger, mesg, overwrote, now>>
        /\ losses' = losses + 1
    BY <1>5 DEF Lose
  <2>2. FarEnough(losses + 1) => FarEnough(losses) BY <1>3 DEF FarEnough
  <2>3. ASSUME NEW n \in names
        PROVE  /\ NameBy(n, lastTrigger, losses + 1)
               /\ mesg = "name" => NameBy(n, lastTrigger - T_ACQ, losses + 1)
    <3>1. n \in Int /\ lastTrigger \in Int BY <1>3
    <3>2. NameBy(n, lastTrigger, losses + 1) BY <1>2, <1>3, <3>1, NameGoes, Zenon
    <3>3. mesg = "name" => NameBy(n, lastTrigger - T_ACQ, losses + 1)
      BY <1>2, <1>3, <3>1, NameGoes, Zenon
    <3> QED BY <3>2, <3>3
  <2> QED BY <1>2, <2>1, <2>2, <2>3 DEF Named
<1>6. CASE MesgRead
  <2>1. /\ UNCHANGED <<synced, names, losses, overwrote, now>>
        /\ mesg' = "name" /\ lastTrigger' = now /\ records' = records + 1
        /\ records > 0 => now >= lastTrigger + T_ACQ
    BY <1>6 DEF MesgRead, MesgStep
  <2>2. ASSUME NEW n \in names
        PROVE  NameBy(n, now, losses) /\ NameBy(n, now - T_ACQ, losses)
    <3>1. records > 0 BY <1>2, <1>3
    <3>2. n \in Int /\ lastTrigger \in Int /\ now \in Int /\ now >= lastTrigger + T_ACQ
      BY <1>3, <2>1, <3>1
    <3> QED BY <1>2, <1>3, <3>2, NameGoes, Zenon
  <2>3. records' # 0 BY <1>3, <2>1
  <2> QED BY <1>2, <2>1, <2>2, <2>3 DEF Named
<1>7. CASE MesgName
  <2>1. /\ UNCHANGED <<synced, losses, now, lastTrigger, records>>
        /\ mesg = "name" /\ mesg' = "copy"
        /\ names' = IF synced = 1 THEN names \cup {clock} ELSE names
        /\ overwrote' = IF clock \in names THEN 1 ELSE overwrote
    BY <1>7 DEF MesgName, MesgStep
  <2>2. now = lastTrigger \/ now = lastTrigger + 1 BY <1>2, <2>1
  <2>3. CASE synced = 0
    <3>1. names = {} /\ names' = {} /\ overwrote' = overwrote BY <1>2, <2>1, <2>3
    <3> QED BY <1>2, <2>1, <3>1 DEF Named
  <2>4. CASE synced = 1
    <3>1. Abs(clock - now) <= 1 + losses BY <1>1, <2>4 DEF TracksGps
    <3>2. clock <= now + 1 + losses /\ clock >= now - 1 - losses BY <1>3, <3>1 DEF Abs
    <3>3. NameBy(clock, lastTrigger, losses) BY <1>3, <2>2, <3>2 DEF NameBy
    <3>4. FarEnough(losses) => clock \notin names
      <4> SUFFICES ASSUME FarEnough(losses), clock \in names PROVE FALSE OBVIOUS
      <4>1. NameBy(clock, lastTrigger - T_ACQ, losses) BY <1>2, <2>1
      <4> QED BY <1>3, <2>2, <3>2, <4>1 DEF NameBy, FarEnough
    <3>5. records # 0 BY <1>2, <2>1
    <3> QED BY <1>2, <2>1, <2>4, <3>3, <3>4, <3>5 DEF Named
  <2> QED BY <1>3, <2>3, <2>4
<1>8. CASE MesgCopy \/ MesgSend
  <2>1. UNCHANGED <<synced, records, names, lastTrigger, losses, overwrote, now>> /\ mesg' # "name"
    BY <1>8 DEF MesgCopy, MesgSend, MesgStep
  <2> QED BY <1>2, <2>1 DEF Named
<1>9. CASE Transmit \/ GpsThread \/ UNCHANGED vars
  <2>1. UNCHANGED <<records, names, lastTrigger, losses, mesg, overwrote, now>>
    BY <1>9, TakeKeeps DEF Transmit, GpsThread, gps_gpgga, RmcClear, RmcTime, RmcDate, RmcYear, RmcClock,
                           RmcPosition, RmcStatus, GpsStep, vars
  <2>2. synced' = synced \/ synced' = 1
    BY <1>9, TakeKeeps DEF Transmit, GpsThread, gps_gpgga, RmcClear, RmcTime, RmcDate, RmcYear, RmcClock,
                           RmcPosition, RmcStatus, SetClock, vars
  <2> QED BY <1>2, <2>1, <2>2 DEF Named
<1> QED BY <1>4, <1>5, <1>6, <1>7, <1>8, <1>9 DEF Next, MesgThread

\* As long as the triggers are further apart than the clock can be off, no record
\* is written over an earlier one, whatever the drift and the losses.
THEOREM FilesKept == Spec => []NoOverwrite
<1>1. Init => Named BY DEF Init, Named
<1>2. TypeOK /\ TracksGps /\ Named /\ [Next]_vars => Named' BY NamedStep
<1>3. Named => NoOverwrite BY DEF Named, NoOverwrite, FarEnough
<1> QED BY <1>1, <1>2, <1>3, TypeCorrect, ClockTracksGps, PTL DEF Spec

===============================================================================
