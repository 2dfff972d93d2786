----------------------------- MODULE GpsReceiver -----------------------------
(***************************************************************************)
(* gps.c as the program runs it: GpsThread puts sentences together from the *)
(* serial line, takes the time and the position out of them into gps_data,  *)
(* and sets the system clock.  MesgThread (app.c) uses both without a lock: *)
(* at every trigger it names a file by the second of the system clock and   *)
(* copies gps_data into a message for the PC.                               *)
(*                                                                         *)
(* On the line a sentence is four pieces: "$", the fields, "*" with the     *)
(* checksum, and CR (the LF behind it is never looked at).  A piece may be  *)
(* lost.  Fields are abstracted to the second t they were sent in and to    *)
(* which of them are filled in.  A date is counted in DAYS days of DAY      *)
(* seconds to each of MONTHS months, so that mktime is linear.              *)
(*                                                                         *)
(* gps_data is accessed a field at a time.  A statement of gps_gprmc that    *)
(* stores several fields is one step here, and a copy made while it is at    *)
(* it takes each of them from before or after.  The height and the letters   *)
(* of the hemispheres, which are stored like the status, are left out.       *)
(***************************************************************************)
EXTENDS Integers, Sequences, FiniteSets

CONSTANTS
    SECS, MINS,         \* 60 seconds to a minute, 60 minutes to an hour
    DAY, DAYS, MONTHS,  \* 86400, about 30, 12
    GRANULE,            \* 64: what 0xffffffc0 leaves out of a comparison
    SBUFF,              \* pieces that fit into sbuff
    Garbage,            \* what a year that was never set may hold
    T_ACQ,              \* least distance of two triggers
    Start,              \* the second a run begins in
    Scenes              \* the environments of a run, with their bounds

\* A receiver fills in all fields, or the time only, or none, as long as it
\* has no fix.  (The date may be there, but the speed is what is tested.)
Located == {"time", "speed", "position"}

\* sbuff has 256 characters and a sentence 82, so that one fits without its CR.
ASSUME GpsAssumption ==
    /\ SECS \in Nat \ {0} /\ MINS \in Nat \ {0}
    /\ DAY \in Nat \ {0} /\ DAYS \in Nat \ {0} /\ MONTHS \in Nat \ {0}
    /\ GRANULE \in Nat \ {0} /\ SBUFF \in Nat /\ SBUFF >= 3 /\ T_ACQ \in Nat
    /\ Garbage \subseteq Int /\ Start \in Nat

\* An environment: the sentences the receiver sends, what the system clock may
\* show first, how many seconds, losses and records there are, and whether the
\* scheduler may stop GpsThread within gps_gprmc for MesgThread to copy gps_data.
Scene == [forms : SUBSET SUBSET Located, clocks : SUBSET Int, seconds : Nat,
          losses : Nat, records : Nat, preempts : BOOLEAN]

ASSUME ScenesAssumption == \A sc \in Scenes :
    /\ DOMAIN sc = {"forms", "clocks", "seconds", "losses", "records", "preempts"}
    /\ sc.forms \subseteq SUBSET Located /\ sc.clocks \subseteq Int
    /\ sc.seconds \in Nat /\ sc.losses \in Nat /\ sc.records \in Nat
    /\ sc.preempts \in BOOLEAN

VARIABLES
    scene,       \* the environment of this behaviour
    now,         \* GPS time
    clock,       \* the system clock, in seconds
    adjusted,    \* when the clock last gained or lost a second by itself
    due,         \* 1 while the sentences of this second are to be sent
    losses,      \* pieces lost on the line
    starLost,    \* 1 once a "*" was among them
    line,        \* pieces in the serial port
    sbuff, s_index,
    cmd,         \* cmd_list: the sentence accepted last
    taken,       \* how many were accepted
    gps,         \* where GpsThread is
    tm_time,     \* the static of gps.c: time and date for mktime
    tmg,         \* the result of mktime
    gps_data,
    mesg,        \* where MesgThread is
    copied,      \* fields of gps_data it has copied
    msg,         \* the message in s_pMesgBuff
    torn,        \* gps_data was being written while it was copied
    lastTrigger, records,
    names,       \* files named while the clock was right, by the second
    overwrote,   \* 1 once a file was opened again for another record
    synced,      \* 1 once the clock was set, or known to be right
    blind,       \* 1 once a sentence without a fix was taken
    crashed      \* 1 once a null pointer was used or sbuff was left

lineVars == <<due, losses, starLost, line>>
frameVars == <<sbuff, s_index, cmd, taken>>
timeVars == <<tm_time, tmg>>
clockVars == <<clock, synced>>
recVars == <<lastTrigger, records, names, overwrote>>
mesgVars == <<mesg, copied, msg, recVars>>
vars == <<scene, now, adjusted, clockVars, lineVars, frameVars, gps, timeVars, gps_data,
          mesgVars, torn, blind, crashed>>

-----------------------------------------------------------------------------
(* The calendar: mktime, and the fields it normalises                      *)

Mktime(tm) ==
    ((tm.year * MONTHS + tm.mon) * DAYS + tm.mday - 1) * DAY
    + (tm.hour * MINS + tm.min) * SECS + tm.sec

Calendar(t) ==
    LET second == t % DAY
        minutes == second \div SECS
        days == t \div DAY
        months == days \div DAYS
    IN  [sec |-> second % SECS, min |-> minutes % MINS, hour |-> minutes \div MINS,
         mday |-> (days % DAYS) + 1, mon |-> months % MONTHS, year |-> months \div MONTHS]

-----------------------------------------------------------------------------

Sentence == [kind : {"GGA", "RMC"}, t : Nat, has : SUBSET Located]
Piece == [c : {"$", "fields", "*", "CR"}, s : Sentence]

\* What the receiver sends in a second, in this order.
Kinds == <<"GGA", "RMC">>
Marks == <<"$", "fields", "*", "CR">>
Burst(t, has) ==
    [i \in 1 .. 8 |-> [c |-> Marks[((i - 1) % 4) + 1],
                       s |-> [kind |-> Kinds[((i - 1) \div 4) + 1], t |-> t, has |-> has]]]

\* gps_data, in the order of memory.  A field of the position is the second of
\* the sentence it is from, or Raw, a number that is no part of a position.
Raw == -1
TmTime == {"sec", "min", "hour", "mday", "mon", "year"}
Minutes == {"ns_m10000", "ew_m10000"}
Position == {"ns_d", "ew_d"} \cup Minutes
Fields == TmTime \cup Position \cup {"status", "count"}
Memory == <<"sec", "min", "hour", "mday", "mon", "year", "ns_d", "ns_m10000", "ew_d",
            "ew_m10000", "status", "count">>

Letters == {"0", "A", "V"}
GpsData == {d \in [Fields -> Int \cup Letters] :
                d.status \in Letters /\ \A f \in Fields \ {"status"} : d[f] \in Int}
Zeroed == [f \in Fields |-> IF f = "status" THEN "0" ELSE IF f \in Position THEN Raw ELSE 0]

RmcPlaces == {"clear", "time", "date", "year", "clock", "ns", "ns_scale", "ew", "ew_scale",
              "status"}

NoSentence == [kind |-> "GGA", t |-> 0, has |-> Located]

\* GpsThread stays within the places of gps.c and sbuff within its size.
TypeOK ==
    /\ scene \in Scenes /\ now \in Nat /\ clock \in Int /\ adjusted \in Nat /\ synced \in {0, 1}
    /\ due \in {0, 1} /\ losses \in 0 .. scene.losses /\ starLost \in {0, 1} /\ line \in Seq(Piece)
    /\ sbuff \in Seq(Piece) /\ Len(sbuff) <= SBUFF
    /\ s_index \in {-1} \cup 1 .. SBUFF /\ cmd \in Sentence /\ taken \in Nat
    /\ gps \in RmcPlaces \cup {"read", "gga"}
    /\ tm_time \in [TmTime -> Int] /\ tmg \in Int
    /\ gps_data \in GpsData /\ msg \in GpsData
    /\ mesg \in {"wait", "name", "copy", "send"} /\ copied \in 0 .. Len(Memory)
    /\ torn \in {0, 1} /\ lastTrigger \in Nat /\ records \in 0 .. scene.records
    /\ names \subseteq Int /\ overwrote \in {0, 1}
    /\ blind \in {0, 1} /\ crashed \in {0, 1}

Init ==
    /\ scene \in Scenes /\ now = Start /\ clock \in scene.clocks /\ adjusted = Start
    /\ synced = IF clock = Start THEN 1 ELSE 0
    /\ due = 1 /\ losses = 0 /\ starLost = 0 /\ line = <<>>
    /\ sbuff = <<>> /\ s_index = -1 /\ cmd = NoSentence /\ taken = 0 /\ gps = "read"
    /\ tm_time = [f \in TmTime |-> 0] /\ tmg = 0
    /\ gps_data = Zeroed
    /\ mesg = "wait" /\ copied = 0 /\ msg = Zeroed /\ torn = 0
    /\ lastTrigger = 0 /\ records = 0 /\ names = {} /\ overwrote = 0
    /\ blind = 0 /\ crashed = 0

-----------------------------------------------------------------------------
(* External: GPS time, the crystal of the board, the receiver and the line  *)

\* A second passes.  GpsThread has dealt with the sentences of the last one
\* (9600 baud), MesgThread names its file within a second of the trigger and
\* copies gps_data at once, and the clock gains or loses at most a second in
\* GRANULE.
Tick ==
    /\ crashed = 0
    /\ now < Start + scene.seconds
    /\ due = 0 /\ line = <<>> /\ gps = "read"
    /\ mesg = "wait" \/ (mesg = "name" /\ lastTrigger = now)
    /\ now' = now + 1 /\ due' = 1
    /\ \/ clock' = clock + 1 /\ UNCHANGED adjusted
       \/ /\ now >= adjusted + GRANULE
          /\ clock' \in {clock, clock + 2}
          /\ adjusted' = now
    /\ UNCHANGED <<scene, synced, losses, starLost, line, frameVars, gps, timeVars,
                   gps_data, mesgVars, torn, blind, crashed>>

Transmit ==
    /\ crashed = 0 /\ due = 1
    /\ due' = 0
    /\ \E form \in scene.forms : line' = Burst(now, form)
    /\ UNCHANGED <<scene, now, adjusted, clockVars, losses, starLost, frameVars, gps, timeVars,
                   gps_data, mesgVars, torn, blind, crashed>>

Lose ==
    /\ crashed = 0 /\ line # <<>> /\ losses < scene.losses
    /\ line' = Tail(line)
    /\ losses' = losses + 1
    /\ starLost' = IF Head(line).c = "*" THEN 1 ELSE starLost
    /\ UNCHANGED <<scene, now, adjusted, clockVars, due, frameVars, gps, timeVars, gps_data,
                   mesgVars, torn, blind, crashed>>

-----------------------------------------------------------------------------
(* GpsThread: fgets, and proc_gps with what it returns                      *)

\* proc_gps takes the next piece of the line.
Take(c) ==
    /\ crashed = 0 /\ gps = "read" /\ line # <<>>
    /\ Head(line).c \in c
    /\ line' = Tail(line)
    /\ UNCHANGED <<scene, now, adjusted, clockVars, due, losses, starLost, timeVars, gps_data,
                   mesgVars>>

\* Mutant: a "$" within a frame does not begin another one.
FrameStartOnce ==
    /\ Take({"$"})
    /\ s_index' = IF s_index = -1 THEN 1 ELSE s_index
    /\ sbuff' = IF s_index = -1 THEN <<Head(line)>> ELSE sbuff
    /\ UNCHANGED <<cmd, taken, gps, torn, blind, crashed>>

FrameStart ==
    /\ Take({"$"})
    /\ s_index' = 1
    /\ sbuff' = <<Head(line)>>
    /\ UNCHANGED <<cmd, taken, gps, torn, blind, crashed>>

FrameSkip ==
    /\ Take({"fields", "*", "CR"})
    /\ s_index = -1
    /\ UNCHANGED <<frameVars, gps, torn, blind, crashed>>

\* sbuff[s_index] = buff[i]; s_index++: nothing keeps it within sbuff.
FrameChar ==
    /\ Take({"fields", "*"})
    /\ s_index # -1
    /\ \/ /\ s_index < SBUFF
          /\ sbuff' = Append(sbuff, Head(line))
          /\ s_index' = s_index + 1
          /\ UNCHANGED crashed
       \/ /\ s_index = SBUFF
          /\ crashed' = 1
          /\ UNCHANGED <<sbuff, s_index>>
    /\ UNCHANGED <<cmd, taken, gps, torn, blind>>

Holds(c) == {i \in DOMAIN sbuff : sbuff[i].c = c}

\* The exclusive or of what is before the first "*" is what the "*" was sent with.
gps_checksum ==
    /\ Len(sbuff) >= 3
    /\ sbuff[2].c = "fields" /\ sbuff[3].c = "*"
    /\ sbuff[2].s = sbuff[3].s

\* strchr finds no "*": gps_checksum, or gps_proc_frame behind the last comma.
NoStar ==
    \/ Holds("*") = {}
    \/ gps_checksum /\ \E i \in Holds("fields") : \A j \in Holds("*") : j < i

Accept ==
    /\ cmd' = sbuff[2].s /\ taken' = taken + 1
    /\ gps' = IF cmd'.kind = "GGA" THEN "gga" ELSE "clear"
    /\ blind' = IF cmd'.has = Located THEN blind ELSE 1
    /\ torn' = IF gps' = "clear" /\ mesg = "copy" THEN 1 ELSE torn

\* Mutant: the index is left, so the next CR ends the same frame again.
FrameEndKeeps ==
    /\ Take({"CR"})
    /\ s_index # -1
    /\ \/ ~NoStar /\ gps_checksum /\ Accept /\ UNCHANGED crashed
       \/ ~NoStar /\ ~gps_checksum /\ UNCHANGED <<cmd, taken, gps, torn, blind, crashed>>
       \/ NoStar /\ crashed' = 1 /\ UNCHANGED <<cmd, taken, gps, torn, blind>>
    /\ UNCHANGED <<sbuff, s_index>>

FrameEnd ==
    /\ Take({"CR"})
    /\ s_index # -1
    /\ s_index' = -1
    /\ \/ ~NoStar /\ gps_checksum /\ Accept /\ UNCHANGED crashed
       \/ ~NoStar /\ ~gps_checksum /\ UNCHANGED <<cmd, taken, gps, torn, blind, crashed>>
       \/ NoStar /\ crashed' = 1 /\ UNCHANGED <<cmd, taken, gps, torn, blind>>
    /\ UNCHANGED sbuff

-----------------------------------------------------------------------------
(* gps_gpgga and gps_gprmc                                                 *)

\* A date as gps_data keeps it.
Stamp(t) == [Calendar(t) EXCEPT !.mon = @ + 1]

\* gps_data when the statement GpsThread is at has made all of its stores: the
\* memset, or sscanf of a field of the sentence that is filled in.
Written ==
    LET Put(F, v) == [f \in Fields |-> IF f \in F THEN v[f] ELSE gps_data[f]]
    IN  CASE gps = "clear" -> Put(TmTime, Zeroed)
          [] gps = "time" /\ "time" \in cmd.has -> Put({"hour", "min", "sec"}, Stamp(cmd.t))
          [] gps = "date" /\ "speed" \in cmd.has -> Put({"mday", "mon"}, Stamp(cmd.t))
          [] gps = "ns" /\ "position" \in cmd.has ->
                 Put({"ns_d", "ns_m10000"}, [ns_d |-> cmd.t, ns_m10000 |-> Raw])
          [] gps = "ew" /\ "position" \in cmd.has ->
                 Put({"ew_d", "ew_m10000"}, [ew_d |-> cmd.t, ew_m10000 |-> Raw])
          [] OTHER -> gps_data

GpsStep(from, to) ==
    /\ crashed = 0 /\ gps = from /\ gps' = to
    /\ UNCHANGED <<scene, now, adjusted, lineVars, frameVars, mesgVars, torn, blind, crashed>>

\* The number of satellites is there when the position is.
gps_gpgga ==
    /\ GpsStep("gga", "read")
    /\ gps_data' = [gps_data EXCEPT !.count = IF "position" \in cmd.has THEN cmd.t ELSE @]
    /\ UNCHANGED <<clockVars, timeVars>>

\* memset of the time in gps_data.
RmcClear ==
    /\ GpsStep("clear", "time")
    /\ gps_data' = Written
    /\ UNCHANGED <<clockVars, timeVars>>

\* sscanf once more, of the same fields, into tm_time.
Reread(F) == tm_time' = [f \in TmTime |-> IF f \in F THEN Stamp(cmd.t)[f] ELSE tm_time[f]]

\* Mutant: the time is read into tm_time only.
RmcTimeOnce ==
    /\ GpsStep("time", "date")
    /\ Reread(IF "time" \in cmd.has THEN {"hour", "min", "sec"} ELSE {})
    /\ UNCHANGED <<clockVars, tmg, gps_data>>

RmcTime ==
    /\ GpsStep("time", "date")
    /\ gps_data' = Written
    /\ Reread(IF "time" \in cmd.has THEN {"hour", "min", "sec"} ELSE {})
    /\ UNCHANGED <<clockVars, tmg>>

\* The date is read if there is a speed.
RmcDate ==
    /\ GpsStep("date", "year")
    /\ gps_data' = Written
    /\ Reread(IF "speed" \in cmd.has THEN {"mday", "mon"} ELSE {})
    /\ UNCHANGED <<clockVars, tmg>>

\* The year is stored afterwards.  Without a speed it is not initialised.
RmcYear ==
    /\ GpsStep("year", "clock")
    /\ \E year \in IF "speed" \in cmd.has THEN {Stamp(cmd.t).year} ELSE Garbage :
           /\ gps_data' = [gps_data EXCEPT !.year = year]
           /\ tm_time' = [tm_time EXCEPT !.year = year]
    /\ UNCHANGED <<clockVars, tmg>>

Abs(n) == IF n < 0 THEN -n ELSE n

\* What is equal but for the low bits.
SameGranule(t, u) == t \div GRANULE = u \div GRANULE

Gmt(mon) == Mktime([tm_time EXCEPT !.mon = mon])

\* settimeofday with tmg, if it is called for.
SetClock(differs) ==
    /\ clock' = IF differs THEN tmg' ELSE clock
    /\ synced' = IF clock' = tmg' THEN 1 ELSE synced

\* Mutant: the month is not counted from zero.
RmcClockMonth ==
    /\ GpsStep("clock", "ns")
    /\ tmg' = Gmt(tm_time.mon)
    /\ tm_time' = [f \in TmTime |-> Calendar(tmg')[f]]
    /\ SetClock(~SameGranule(clock, tmg'))
    /\ UNCHANGED gps_data

\* Mutant: the clock is set when it is a granule off, as the comment has it.
RmcClockFar ==
    /\ GpsStep("clock", "ns")
    /\ tmg' = Gmt(tm_time.mon - 1)
    /\ tm_time' = [f \in TmTime |-> Calendar(tmg')[f]]
    /\ SetClock(Abs(clock - tmg') >= GRANULE)
    /\ UNCHANGED gps_data

\* tm_mon -= 1, mktime, which normalises tm_time, and settimeofday.
RmcClock ==
    /\ GpsStep("clock", "ns")
    /\ tmg' = Gmt(tm_time.mon - 1)
    /\ tm_time' = [f \in TmTime |-> Calendar(tmg')[f]]
    /\ SetClock(~SameGranule(clock, tmg'))
    /\ UNCHANGED gps_data

\* Latitude and longitude: the minutes are read, and then multiplied and
\* completed, read or not.
RmcPosition ==
    /\ LET minutes == IF "position" \in cmd.has THEN cmd.t ELSE Raw
       IN  \/ GpsStep("ns", "ns_scale") /\ gps_data' = Written
           \/ GpsStep("ns_scale", "ew") /\ gps_data' = [gps_data EXCEPT !.ns_m10000 = minutes]
           \/ GpsStep("ew", "ew_scale") /\ gps_data' = Written
           \/ GpsStep("ew_scale", "status") /\ gps_data' = [gps_data EXCEPT !.ew_m10000 = minutes]
    /\ UNCHANGED <<clockVars, timeVars>>

RmcStatus ==
    /\ GpsStep("status", "read")
    /\ gps_data' = [gps_data EXCEPT !.status = IF cmd.has = Located THEN "A" ELSE "V"]
    /\ UNCHANGED <<clockVars, timeVars>>

GpsThread ==
    \/ FrameStart \/ FrameSkip \/ FrameChar \/ FrameEnd
    \/ gps_gpgga \/ RmcClear \/ RmcTime \/ RmcDate \/ RmcYear \/ RmcClock \/ RmcPosition
    \/ RmcStatus

-----------------------------------------------------------------------------
(* MesgThread, as far as it uses the clock and gps_data                     *)

MesgStep(from, to) ==
    /\ crashed = 0 /\ mesg = from /\ mesg' = to
    /\ UNCHANGED <<scene, now, adjusted, clockVars, lineVars, frameVars, gps, timeVars, gps_data,
                   blind, crashed>>

\* read of the counter interrupt: the PL triggers every T_ACQ seconds.
MesgRead ==
    /\ MesgStep("wait", "name")
    /\ records < scene.records
    /\ records > 0 => now >= lastTrigger + T_ACQ
    /\ lastTrigger' = now /\ records' = records + 1
    /\ UNCHANGED <<copied, msg, torn, names, overwrote>>

\* Mutant: the file is named by the time of day.
MesgNameOfDay ==
    /\ MesgStep("name", "copy")
    /\ names' = IF synced = 1 THEN names \cup {clock % DAY} ELSE names
    /\ overwrote' = IF clock % DAY \in names THEN 1 ELSE overwrote
    /\ copied' = 0 /\ torn' = IF gps \in RmcPlaces THEN 1 ELSE 0
    /\ UNCHANGED <<msg, lastTrigger, records>>

\* gettimeofday and fopen: an older file of that name is truncated.
MesgName ==
    /\ MesgStep("name", "copy")
    /\ names' = IF synced = 1 THEN names \cup {clock} ELSE names
    /\ overwrote' = IF clock \in names THEN 1 ELSE overwrote
    /\ copied' = 0 /\ torn' = IF gps \in RmcPlaces THEN 1 ELSE 0
    /\ UNCHANGED <<msg, lastTrigger, records>>

\* memcpy of gps_data, a field at a time.  Of the stores GpsThread is at it may
\* find any made.
MesgCopy ==
    /\ MesgStep("copy", IF copied + 1 = Len(Memory) THEN "send" ELSE "copy")
    /\ scene.preempts \/ gps \notin RmcPlaces
    /\ copied' = copied + 1
    /\ LET f == Memory[copied']
       IN  \E v \in {gps_data[f], Written[f]} : msg' = [msg EXCEPT ![f] = v]
    /\ UNCHANGED <<torn, recVars>>

\* What is left in s_pMesgBuff is overwritten before it is sent again.
MesgSend ==
    /\ MesgStep("send", "wait")
    /\ msg' = Zeroed /\ copied' = 0 /\ torn' = 0
    /\ UNCHANGED recVars

MesgThread == MesgRead \/ MesgName \/ MesgCopy \/ MesgSend

Next == Tick \/ Transmit \/ Lose \/ GpsThread \/ MesgThread

Spec == Init /\ [][Next]_vars

-----------------------------------------------------------------------------
(* What makes it correct                                                   *)

Order(s) == 2 * s.t + (IF s.kind = "RMC" THEN 1 ELSE 0)

\* Whatever is lost on the line, a sentence is taken whole, once and in the
\* order sent: proc_gps and gps_checksum never make one of two, or one again.
SentenceOnce ==
    [][gps = "read" /\ gps' # "read" =>
          /\ cmd'.t <= now
          /\ Order(cmd') > Order(cmd) \/ cmd = NoSentence]_vars

\* A piece lost costs one sentence at most, the one it is of or the one whose
\* end it was, and it takes the loss of a "*" or two losses to crash.
LossContained ==
    /\ crashed = 0 /\ due = 0 /\ line = <<>> /\ gps = "read" =>
           taken + losses >= Len(Kinds) * (now - Start + 1)
    /\ crashed = 1 => starLost = 1 \/ losses >= 2

\* A sentence with a fix gives mktime the time it was sent in, whatever
\* tm_time was left as, and leaves the clock less than GRANULE away from it.
FixSetsClock ==
    gps = "ns" /\ cmd.has = Located => tmg = cmd.t /\ Abs(clock - tmg) < GRANULE

\* Once the clock was right, or set, and in any case after one granule, the
\* comparison of granules keeps it right to one second, and one more for every
\* piece lost: it notices any error when the next granule begins.  (A clock that
\* was never right stays as it is for as long as no sentence arrives.)
TracksGps ==
    /\ blind = 0
    /\ synced = 1 \/ (now > Start + GRANULE /\ losses < GRANULE)
    => Abs(clock - now) <= 1 + losses

\* A record never truncates the file of an earlier one, if the clock was right
\* when the earlier one was named and the triggers are as far apart as a clock
\* that is fast at one and slow at the next makes necessary.
NoOverwrite == blind = 0 /\ T_ACQ >= 4 + 2 * losses => overwrote = 0

\* A message copied while gps_gprmc did not run, with the status of a fix, has
\* the time and the position of one sentence.  One copied meanwhile is, as long
\* as there is a fix, put together field by field from the last two sentences,
\* from zeros where the time was cleared and from minutes not yet multiplied:
\* degrees and status are always those of a fix, but nothing keeps the fields of
\* a date, a time or a position together.
MessageWhole == mesg = "send" =>
    /\ torn = 0 /\ msg.status = "A" =>
           \A f \in Position : Mktime([msg EXCEPT !.mon = @ - 1]) = msg[f]
    /\ blind = 0 /\ losses = 0 /\ now > Start =>
           /\ \A f \in TmTime : msg[f] \in {0, Stamp(now - 1)[f], Stamp(now)[f]}
           /\ \A f \in Position :
                  msg[f] \in {now - 1, now} \cup (IF f \in Minutes THEN {Raw} ELSE {})
           /\ msg.status = "A"
=============================================================================
