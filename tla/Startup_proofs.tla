--------------------------- MODULE Startup_proofs ---------------------------
(***************************************************************************)
(* Proofs about the start-up: types, and that a board that runs is linked to *)
(* one session of the PC, for every set of orders, faults and numbers of     *)
(* faults and hang-ups.                                                      *)
(***************************************************************************)
EXTENDS Startup, SequenceTheorems, TLAPS

\* A session connects once to a port, and a backlog is in the order of sessions.
OnceInv ==
    /\ \A i, j \in DOMAIN plan : plan[i] = plan[j] => i = j
    /\ \A p \in Port :
           /\ \A i, j \in DOMAIN queue[p] : i < j => queue[p][i] < queue[p][j]
           /\ \/ acq[p] # session /\ \A i \in DOMAIN queue[p] : queue[p][i] # session
              \/ \A i \in DOMAIN plan : plan[i] # p

\* Until main is in its loop the PC is in one session, and everything that waits
\* or is accepted is of it.
OneSession ==
    main # "loop" => \A p \in Port : /\ acq[p] \in {0, session}
                                     /\ \A i \in DOMAIN queue[p] : queue[p][i] = session

\* Up to the port main accepts on, what is not accepted has failed; from it on,
\* only InitNetLink can have failed.
Accepting ==
    /\ \A i \in 1 .. n - 1 : acq[Ports[i]] = 0 <=> Ports[i] \in unlinked
    /\ \A i \in n .. 3 : /\ acq[Ports[i]] = 0
                         /\ Ports[i] \in unlinked <=> sock[Ports[i]] # "listening"

\* Without an error of InitNetLink the sockets come to listen one after another,
\* and an error is of the port main was at and of those behind it.  Then a
\* connection is accepted on one after another, but for those that failed.
Progress ==
    /\ main \in {"open", "mem", "bind", "listen", "ended"} =>
           unlinked = {} /\ \A p \in Port : acq[p] = 0
    /\ main \in {"bind", "listen"} => \A i \in 1 .. n - 1 : sock[Ports[i]] = "listening"
    /\ main \in {"open", "mem", "ended"} => \A p \in Port : sock[p] # "listening"
    /\ main \in {"bind", "listen"} => \A i \in n .. 3 : sock[Ports[i]] # "listening"
    /\ main = "accept" => Accepting
    /\ main \in {"mesgthread", "gpsthread"} => \A p \in Port : acq[p] = 0 <=> p \in unlinked

\* The three ports, by their names.
LEMMA PortNames ==
    /\ Port = {"data", "cmd", "mesg"}
    /\ DOMAIN Ports = 1 .. 3
    /\ \A i \in 1 .. 3 : Ports[i] \in Port
    /\ \A i, j \in 1 .. 3 : Ports[i] = Ports[j] => i = j
    /\ \A p \in Port : \E i \in 1 .. 3 : p = Ports[i]
<1>1. DOMAIN Ports = 1 .. 3 /\ Ports[1] = "data" /\ Ports[2] = "cmd" /\ Ports[3] = "mesg"
  BY DEF Ports
<1>2. \A i \in 1 .. 3 : i = 1 \/ i = 2 \/ i = 3
  OBVIOUS
<1>3. Port = {"data", "cmd", "mesg"}
  <2>1. ASSUME NEW p \in Port PROVE p \in {"data", "cmd", "mesg"}
    BY <1>1, <1>2 DEF Port
  <2>2. Ports[1] \in Port /\ Ports[2] \in Port /\ Ports[3] \in Port
    BY DEF Port
  <2> QED
    BY <2>1, <2>2, <1>1
<1>4. \A i \in 1 .. 3 : Ports[i] \in Port
  BY DEF Port
<1>5. \A p \in Port : \E i \in 1 .. 3 : p = Ports[i]
  BY DEF Port
<1>6. \A i, j \in 1 .. 3 : Ports[i] = Ports[j] => i = j
  BY <1>1, <1>2
<1> QED
  BY <1>1, <1>3, <1>4, <1>5, <1>6

\* The ports an error of InitNetLink leaves out.
LEMMA BehindPorts ==
    ASSUME n \in 1 .. 3
    PROVE /\ Behind \subseteq Port
          /\ \A i \in 1 .. 3 : Ports[i] \in Behind <=> i \in n .. 3
<1>1. n .. 3 \subseteq 1 .. 3
  OBVIOUS
<1> QED
  BY <1>1, PortNames DEF Behind

\* Taking the first from a sequence.
LEMMA Rest ==
    ASSUME NEW S, NEW s \in Seq(S), s # <<>>
    PROVE /\ Head(s) = s[1] /\ s[1] \in S /\ Tail(s) \in Seq(S)
          /\ DOMAIN s = 1 .. Len(s) /\ Len(s) \in Nat \ {0}
          /\ DOMAIN Tail(s) = 1 .. Len(s) - 1
          /\ \A i \in DOMAIN Tail(s) : Tail(s)[i] = s[i + 1] /\ i + 1 \in DOMAIN s
<1>1. Len(s) \in Nat \ {0} /\ DOMAIN s = 1 .. Len(s)
  BY EmptySeq, LenProperties
<1>2. Tail(s) \in Seq(S) /\ Len(Tail(s)) = Len(s) - 1
  BY HeadTailProperties
<1>3. DOMAIN Tail(s) = 1 .. Len(s) - 1
  BY <1>2, LenProperties
<1>4. \A i \in DOMAIN Tail(s) : Tail(s)[i] = s[i + 1] /\ i + 1 \in DOMAIN s
  BY <1>1, <1>2, <1>3, HeadTailProperties
<1>5. s[1] \in S
  <2>1. 1 \in 1 .. Len(s)
    BY <1>1
  <2> QED
    BY <2>1, ElementOfSeq
<1>6. Head(s) = s[1]
  OBVIOUS
<1> QED
  BY <1>1, <1>2, <1>3, <1>4, <1>5, <1>6

\* What the PC is still to connect to is taken from an order it has.
LEMMA NewPlan ==
    ASSUME NEW o \in Orders
    PROVE o \in Seq(Port) /\ DOMAIN o = 1 .. 3 /\ \A i, j \in DOMAIN o : o[i] = o[j] => i = j
<1>1. o \in [1 .. 3 -> Port] /\ \A i, j \in 1 .. 3 : o[i] = o[j] => i = j
  BY StartupAssumption
<1>2. o \in Seq(Port)
  <2>1. \E k \in Nat : o \in [1 .. k -> Port]
    BY <1>1
  <2> QED
    BY <2>1, SeqDef, Zenon
<1> QED
  BY <1>1, <1>2

\* After the end of the program nothing is left of its sockets.
LEMMA EndClears ==
    ASSUME TypeOK, OnceInv, End, faults' \in 0 .. MaxFaults
    PROVE TypeOK' /\ OnceInv' /\ OneSession' /\ Progress'
<1>1. /\ main' = "ended" /\ unlinked' = {} /\ n' = 0 /\ mem' = 0 /\ fi' = 0
      /\ threads' = {} /\ told' = 0 /\ hangs' = hangs /\ armed' = armed
      /\ sock' = [p \in Port |-> "none"]
      /\ acq' = [p \in Port |-> 0] /\ queue' = [p \in Port |-> <<>>]
  BY DEF End, Fresh
<1>2. session' \in Nat \ {0} /\ plan' \in Seq(Port)
      /\ \A i, j \in DOMAIN plan' : plan'[i] = plan'[j] => i = j
  <2>1. CASE UNCHANGED <<session, plan>>
    BY <2>1 DEF TypeOK, OnceInv
  <2>2. CASE session' = session + 1 /\ plan' \in Orders
    BY <2>2, NewPlan DEF TypeOK
  <2> QED
    BY <2>1, <2>2 DEF End
<1>3. \A p \in Port : queue'[p] = <<>> /\ acq'[p] = 0
  BY <1>1
<1>4. \A S : <<>> \in Seq(S) /\ DOMAIN <<>> = {}
  OBVIOUS
<1>5. /\ queue' \in [Port -> Seq(1 .. session')] /\ acq' \in [Port -> 0 .. session']
      /\ waiting' \subseteq Port /\ sock' \in [Port -> {"none", "socket", "bound", "listening"}]
  BY <1>1, <1>2, <1>4 DEF End, TypeOK
<1>6. TypeOK'
  BY <1>1, <1>2, <1>3, <1>4, <1>5 DEF TypeOK, Places, Devices
<1>7. OnceInv'
  BY <1>2, <1>3, <1>4 DEF OnceInv
<1>8. OneSession' /\ Progress'
  BY <1>1, <1>3, <1>4 DEF OneSession, Progress, Accepting
<1> QED
  BY <1>6, <1>7, <1>8

\* Steps that leave the connections and the PC alone keep what is said of them.
LEMMA QuietOnce ==
    ASSUME OnceInv, UNCHANGED <<acq, queue, session, plan>>
    PROVE OnceInv'
  BY DEF OnceInv

\* The types and the order of sessions are kept by every step.
LEMMA TypesKept ==
    ASSUME TypeOK, OnceInv, [Next]_vars
    PROVE TypeOK' /\ OnceInv'
<1> USE StartupAssumption DEF boardVars, pcVars, Devices
<1>1. ASSUME End, UNCHANGED faults PROVE TypeOK' /\ OnceInv'
  BY <1>1, EndClears DEF TypeOK
<1>2. ASSUME NEW c, Fault(c) PROVE faults' \in 0 .. MaxFaults
  BY <1>2 DEF Fault, TypeOK
<1>3. ASSUME NEW c, Fault(c), End PROVE TypeOK' /\ OnceInv'
  BY <1>2, <1>3, EndClears
<1>4. CASE OpenDevice
  <2>1. CASE Fault("open") /\ End
    BY <2>1, <1>3
  <2>2. CASE n' = n + 1 /\ n < Devices
             /\ UNCHANGED <<main, mem, fi, sock, acq, threads, told, armed, unlinked, queue, waiting,
                            pcVars, faults>>
    <3>1. n' \in 0 .. 4 /\ main = "open"
      BY <2>2, <1>4 DEF OpenDevice, TypeOK
    <3> QED
      BY <3>1, <2>2, QuietOnce DEF TypeOK, Places
  <2> QED
    BY <2>1, <2>2, <1>4 DEF OpenDevice
<1>5. CASE InitMem
  <2>1. faults' \in 0 .. MaxFaults /\ mem' \in {0, 1}
    BY <1>5, <1>2 DEF InitMem, TypeOK
  <2> QED
    BY <2>1, <1>5, QuietOnce DEF InitMem, Go, TypeOK, Places
<1>6. CASE InitGps
  <2>1. CASE Fault("gps") /\ End
    BY <2>1, <1>3
  <2>2. CASE /\ Go("mem", "bind")
             /\ \/ set_opt(0) /\ fi' = 1
                \/ (Fault("gps") \/ set_opt(-1)) /\ UNCHANGED fi
             /\ n' = 1
             /\ UNCHANGED <<mem, sock, acq, threads, told, unlinked>>
    <3>1. faults' \in 0 .. MaxFaults
      BY <2>2, <1>2 DEF set_opt, TypeOK
    <3>2. fi' \in {0, 1} /\ n' = 1 /\ UNCHANGED <<mem, sock, acq, threads, told, unlinked>>
      BY <2>2 DEF TypeOK
    <3> QED
      BY <3>1, <3>2, <2>2, QuietOnce, PortNames DEF Go, TypeOK, Places
  <2> QED
    BY <2>1, <2>2, <1>6 DEF InitGps
<1>7. CASE NetBind
  <2>1. faults' \in 0 .. MaxFaults /\ unlinked' \subseteq Port /\ n' \in 1 .. 3
    <3>1. faults' \in 0 .. MaxFaults
      <4>1. Fault("net") \/ UNCHANGED faults
        BY <1>7 DEF NetBind
      <4> QED
        BY <4>1, <1>2 DEF TypeOK
    <3>2. n \in 1 .. 3
      BY <1>7, PortNames DEF NetBind, Go, TypeOK
    <3>3. unlinked' \subseteq Port
      BY <1>7, <3>2, BehindPorts DEF NetBind, TypeOK
    <3> QED
      BY <1>7, <3>1, <3>2, <3>3 DEF NetBind
  <2>2. sock' \in [Port -> {"none", "socket", "bound", "listening"}]
    BY <1>7 DEF NetBind, TypeOK
  <2>3. main' \in {"listen", "accept"} /\ UNCHANGED <<armed, queue, waiting, pcVars>>
    BY <1>7 DEF NetBind, Go
  <2>4. UNCHANGED <<mem, fi, acq, threads, told>>
    BY <1>7 DEF NetBind
  <2> QED
    BY <2>1, <2>2, <2>3, <2>4, QuietOnce, PortNames DEF TypeOK, Places
<1>8. CASE NetListen
  <2>1. faults' \in 0 .. MaxFaults /\ unlinked' \subseteq Port /\ n' \in 1 .. 3
    <3>1. faults' \in 0 .. MaxFaults
      <4>1. Fault("net") \/ UNCHANGED faults
        BY <1>8 DEF NetListen
      <4> QED
        BY <4>1, <1>2 DEF TypeOK
    <3>2. n \in 1 .. 3
      BY <1>8, PortNames DEF NetListen, Go, TypeOK
    <3>3. unlinked' \subseteq Port
      BY <1>8, <3>2, BehindPorts DEF NetListen, TypeOK
    <3> QED
      BY <1>8, <3>1, <3>2, <3>3 DEF NetListen
  <2>2. sock' \in [Port -> {"none", "socket", "bound", "listening"}]
    BY <1>8 DEF NetListen, TypeOK
  <2>3. main' \in {"bind", "accept"} /\ UNCHANGED <<armed, queue, waiting, pcVars>>
    BY <1>8 DEF NetListen, Go
  <2>4. UNCHANGED <<mem, fi, acq, threads, told>>
    BY <1>8 DEF NetListen
  <2> QED
    BY <2>1, <2>2, <2>3, <2>4, QuietOnce, PortNames DEF TypeOK, Places
<1>9. CASE AcceptLink
  <2> DEFINE p == Ports[n]
  <2>1. n \in 1 .. 3 /\ p \in Port
    BY <1>9, PortNames DEF AcceptLink, TypeOK
  <2>2. /\ main' \in {"accept", "mesgthread"} /\ n' \in 0 .. 3
        /\ main' = "accept" => n' \in 1 .. 3
        /\ UNCHANGED <<mem, fi, sock, threads, told, armed, waiting, session, plan, hangs>>
        /\ unlinked' \subseteq Port /\ faults' \in 0 .. MaxFaults
    <3>1. /\ main' \in {"accept", "mesgthread"} /\ n' \in 0 .. 3
          /\ main' = "accept" => n' \in 1 .. 3
          /\ UNCHANGED <<mem, fi, sock, threads, told, armed, waiting, session, plan, hangs>>
      BY <1>9, <2>1 DEF AcceptLink, Accepted
    <3>2. /\ unlinked' = unlinked \/ unlinked' = unlinked \cup {p}
          /\ UNCHANGED faults \/ Fault("accept")
      BY <1>9 DEF AcceptLink
    <3>3. unlinked' \subseteq Port /\ faults' \in 0 .. MaxFaults
      BY <3>2, <2>1, <1>2 DEF TypeOK
    <3> QED
      BY <3>1, <3>3
  <2>3. CASE UNCHANGED <<acq, queue>>
    BY <2>2, <2>3, QuietOnce, PortNames DEF TypeOK, Places
  <2>4. CASE /\ queue[p] # <<>>
             /\ acq' = [acq EXCEPT ![p] = Head(queue[p])]
             /\ queue' = [queue EXCEPT ![p] = Tail(queue[p])]
    <3>1. queue[p] \in Seq(1 .. session)
      BY <2>1 DEF TypeOK
    <3>2. /\ Head(queue[p]) = queue[p][1] /\ queue[p][1] \in 1 .. session
          /\ Tail(queue[p]) \in Seq(1 .. session)
          /\ DOMAIN queue[p] = 1 .. Len(queue[p]) /\ Len(queue[p]) \in Nat \ {0}
          /\ DOMAIN Tail(queue[p]) = 1 .. Len(queue[p]) - 1
          /\ \A i \in DOMAIN Tail(queue[p]) :
                 Tail(queue[p])[i] = queue[p][i + 1] /\ i + 1 \in DOMAIN queue[p]
      <4>1. queue[p] # <<>>
        BY <2>4
      <4> HIDE DEF p
      <4> QED
        BY <4>1, <3>1, Rest, Zenon
    <3>3. queue' \in [Port -> Seq(1 .. session)] /\ acq' \in [Port -> 0 .. session]
      <4>1. Head(queue[p]) \in 0 .. session
        BY <3>2 DEF TypeOK
      <4> QED
        BY <2>4, <3>2, <4>1 DEF TypeOK
    <3>4. /\ acq'[p] = queue[p][1] /\ queue'[p] = Tail(queue[p])
          /\ \A q \in Port \ {p} : acq'[q] = acq[q] /\ queue'[q] = queue[q]
      BY <2>1, <2>4, <3>2 DEF TypeOK
    <3>5. \A i, j \in DOMAIN queue[p] : i < j => queue[p][i] < queue[p][j]
      BY <2>1 DEF OnceInv
    <3>6. /\ \A i \in DOMAIN Tail(queue[p]) : Tail(queue[p])[i] > queue[p][1]
          /\ \A i, j \in DOMAIN Tail(queue[p]) :
                 i < j => Tail(queue[p])[i] < Tail(queue[p])[j]
      <4>1. \A i \in DOMAIN queue[p] : queue[p][i] \in 1 .. session
        BY <3>1, <3>2, ElementOfSeq
      <4>2. ASSUME NEW i \in DOMAIN Tail(queue[p]), NEW j \in DOMAIN Tail(queue[p]), i < j
            PROVE Tail(queue[p])[i] < Tail(queue[p])[j]
        <5>1. i + 1 \in DOMAIN queue[p] /\ j + 1 \in DOMAIN queue[p] /\ i + 1 < j + 1
          BY <3>2, <4>2
        <5> QED
          BY <5>1, <3>2, <3>5
      <4>3. ASSUME NEW i \in DOMAIN Tail(queue[p])
            PROVE Tail(queue[p])[i] > queue[p][1]
        <5>1. i + 1 \in DOMAIN queue[p] /\ 1 \in DOMAIN queue[p] /\ 1 < i + 1
          BY <3>2
        <5>2. queue[p][1] < queue[p][i + 1]
          BY <5>1, <3>5
        <5>3. queue[p][1] \in Nat /\ queue[p][i + 1] \in Nat
          <6>1. queue[p][1] \in 1 .. session /\ queue[p][i + 1] \in 1 .. session
            BY <5>1, <4>1
          <6> QED
            BY <6>1
        <5> QED
          BY <5>2, <5>3, <3>2
      <4> QED
        BY <4>2, <4>3
    <3>7. TypeOK'
      <4>1. \A q \in Port : acq'[q] # 0 => \A i \in DOMAIN queue'[q] : queue'[q][i] > acq'[q]
        BY <3>4, <3>6 DEF TypeOK
      <4>2. /\ main' \in Places /\ n' \in 0 .. Devices
            /\ main' \in {"bind", "listen", "accept"} => n' \in DOMAIN Ports
        BY <2>2, PortNames DEF Places, Devices
      <4>3. session' = session /\ UNCHANGED <<mem, fi, sock, threads, told, armed>>
            /\ UNCHANGED <<waiting, plan, hangs>>
            /\ unlinked' \subseteq Port /\ faults' \in 0 .. MaxFaults
        BY <2>2
      <4>4. queue' \in [Port -> Seq(1 .. session')] /\ acq' \in [Port -> 0 .. session']
        BY <3>3, <4>3
      <4> QED
        BY <4>1, <4>2, <4>3, <4>4, Zenon DEF TypeOK
    <3>8. OnceInv'
      <4>1. \A i, j \in DOMAIN plan' : plan'[i] = plan'[j] => i = j
        BY <2>2 DEF OnceInv
      <4>2. ASSUME NEW q \in Port
            PROVE /\ \A i, j \in DOMAIN queue'[q] : i < j => queue'[q][i] < queue'[q][j]
                  /\ \/ acq'[q] # session' /\ \A i \in DOMAIN queue'[q] : queue'[q][i] # session'
                     \/ \A i \in DOMAIN plan' : plan'[i] # q
        <5>1. CASE q = p
          <6>1. CASE \A i \in DOMAIN plan : plan[i] # p
            BY <6>1, <5>1, <2>2, <3>4, <3>6
          <6>2. CASE \A i \in DOMAIN queue[p] : queue[p][i] # session
            <7>1. queue[p][1] # session /\ \A i \in DOMAIN Tail(queue[p]) : Tail(queue[p])[i] # session
              BY <6>2, <3>2
            <7> QED
              BY <7>1, <5>1, <2>2, <3>4, <3>6
          <6> QED
            BY <6>1, <6>2, <2>1 DEF OnceInv
        <5>2. CASE q # p
          BY <5>2, <3>4, <2>2 DEF OnceInv
        <5> QED
          BY <5>1, <5>2
      <4> QED
        BY <4>1, <4>2 DEF OnceInv
    <3> QED
      BY <3>7, <3>8
  <2> QED
    BY <2>3, <2>4, <1>9 DEF AcceptLink
<1>10. CASE CreateThreads
  <2>1. ASSUME NEW t \in {"mesg", "gps"}, NEW f \in Places, NEW g \in {"gpsthread", "loop"},
               CreateThread(t, f, g)
        PROVE TypeOK' /\ OnceInv'
    <3>1. CASE Fault("thread") /\ End
      BY <3>1, <1>3
    <3>2. CASE Go(f, g) /\ threads' = threads \cup {t}
               /\ UNCHANGED <<n, mem, fi, sock, acq, told, unlinked, faults>>
      BY <3>2, QuietOnce DEF Go, TypeOK, Places
    <3> QED
      BY <3>1, <3>2, <2>1 DEF CreateThread
  <2> QED
    BY <2>1, <1>10 DEF CreateThreads, Places
<1>11. CASE GpsFgets \/ BankRead
  BY <1>11, <1>1 DEF GpsFgets, BankRead
<1>12. CASE MesgSend
  <2>1. CASE End
    BY <2>1, <1>12, <1>1 DEF MesgSend
  <2>2. CASE told' = 1 /\ UNCHANGED <<main, n, mem, fi, sock, acq, threads, armed, unlinked,
                                      queue, waiting, pcVars, faults>>
    BY <2>2, QuietOnce DEF TypeOK
  <2> QED
    BY <2>1, <2>2, <1>12 DEF MesgSend
<1>18. CASE Command
  <2>1. armed' \in {0, 1} /\ UNCHANGED <<boardVars, queue, waiting, pcVars, faults>>
    BY <1>18 DEF Command
  <2> QED
    BY <2>1, QuietOnce DEF TypeOK
<1>13. CASE Connect
  <2> DEFINE p == Head(plan)
  <2>1. /\ plan \in Seq(Port) /\ plan # <<>> /\ p \in Port /\ p = plan[1]
        /\ DOMAIN plan = 1 .. Len(plan) /\ Len(plan) \in Nat \ {0}
        /\ plan' = Tail(plan) /\ plan' \in Seq(Port)
        /\ DOMAIN plan' = 1 .. Len(plan) - 1
        /\ \A i \in DOMAIN plan' : plan'[i] = plan[i + 1]
    BY <1>13, Rest DEF Connect, TypeOK
  <2>2. /\ queue[p] \in Seq(1 .. session) /\ session \in 1 .. session /\ session \in Nat
        /\ queue'[p] = Append(queue[p], session)
        /\ queue' = [queue EXCEPT ![p] = Append(queue[p], session)]
        /\ \A q \in Port \ {p} : queue'[q] = queue[q]
    BY <1>13, <2>1 DEF Connect, TypeOK
  <2>3. /\ Append(queue[p], session) \in Seq(1 .. session)
        /\ Len(queue[p]) \in Nat /\ DOMAIN queue[p] = 1 .. Len(queue[p])
        /\ DOMAIN Append(queue[p], session) = 1 .. Len(queue[p]) + 1
        /\ \A i \in DOMAIN queue[p] : Append(queue[p], session)[i] = queue[p][i]
        /\ Append(queue[p], session)[Len(queue[p]) + 1] = session
    BY <2>2
  <2>4. 1 \in DOMAIN plan
    BY <2>1
  <2>5. acq[p] # session /\ \A i \in DOMAIN queue[p] : queue[p][i] # session
    BY <2>1, <2>4 DEF OnceInv
  <2>6. UNCHANGED <<boardVars, armed, waiting, session, hangs, faults>>
    BY <1>13 DEF Connect
  <2>7. /\ acq[p] < session
        /\ \A i \in DOMAIN queue[p] : queue[p][i] < session /\ queue[p][i] \in Nat
    BY <2>1, <2>2, <2>5 DEF TypeOK
  <2>8. queue' \in [Port -> Seq(1 .. session)]
    BY <2>2, <2>3 DEF TypeOK
  <2>9. TypeOK'
    <3>1. ASSUME NEW q \in Port, acq[q] # 0, NEW i \in DOMAIN queue'[q]
          PROVE queue'[q][i] > acq[q]
      <4>1. CASE q = p
        <5>1. CASE i \in DOMAIN queue[p]
          BY <5>1, <4>1, <3>1, <2>2, <2>3 DEF TypeOK
        <5>2. CASE i = Len(queue[p]) + 1
          <6>1. queue'[q][i] = session
            BY <5>2, <4>1, <2>2, <2>3
          <6>2. acq[q] \in Nat
            BY <2>2 DEF TypeOK
          <6> QED
            BY <6>1, <6>2, <4>1, <2>2, <2>7
        <5> QED
          BY <5>1, <5>2, <4>1, <3>1, <2>2, <2>3
      <4>2. CASE q # p
        BY <4>2, <3>1, <2>2 DEF TypeOK
      <4> QED
        BY <4>1, <4>2
    <3> QED
      BY <3>1, <2>1, <2>6, <2>8 DEF TypeOK
  <2>10. OnceInv'
    <3>1. \A i, j \in DOMAIN plan' : plan'[i] = plan'[j] => i = j
      <4>1. ASSUME NEW i \in DOMAIN plan', NEW j \in DOMAIN plan', plan'[i] = plan'[j]
            PROVE i = j
        <5>1. i + 1 \in DOMAIN plan /\ j + 1 \in DOMAIN plan /\ plan[i + 1] = plan[j + 1]
          BY <4>1, <2>1
        <5>2. i + 1 = j + 1
          BY <5>1 DEF OnceInv
        <5> QED
          BY <5>2, <2>1
      <4> QED
        BY <4>1
    <3>2. \A i \in DOMAIN plan' : plan'[i] # p
      <4>1. ASSUME NEW i \in DOMAIN plan', plan'[i] = p PROVE FALSE
        <5>1. i + 1 \in DOMAIN plan /\ plan[i + 1] = plan[1] /\ i + 1 # 1
          BY <4>1, <2>1
        <5> QED
          BY <5>1, <2>4 DEF OnceInv
      <4> QED
        BY <4>1
    <3>3. \A i, j \in DOMAIN queue'[p] : i < j => queue'[p][i] < queue'[p][j]
      <4>1. ASSUME NEW i \in DOMAIN queue'[p], NEW j \in DOMAIN queue'[p], i < j
            PROVE queue'[p][i] < queue'[p][j]
        <5>1. i \in DOMAIN queue[p] /\ queue'[p][i] = queue[p][i]
          BY <4>1, <2>2, <2>3
        <5>2. CASE j \in DOMAIN queue[p]
          BY <5>1, <5>2, <4>1, <2>1, <2>2, <2>3 DEF OnceInv
        <5>3. CASE j = Len(queue[p]) + 1
          BY <5>1, <5>3, <2>2, <2>3, <2>7
        <5> QED
          BY <5>2, <5>3, <2>2, <2>3
      <4> QED
        BY <4>1
    <3>4. ASSUME NEW q \in Port, q # p
          PROVE /\ \A i, j \in DOMAIN queue'[q] : i < j => queue'[q][i] < queue'[q][j]
                /\ \/ acq'[q] # session' /\ \A i \in DOMAIN queue'[q] : queue'[q][i] # session'
                   \/ \A i \in DOMAIN plan' : plan'[i] # q
      <4>1. queue'[q] = queue[q] /\ acq'[q] = acq[q] /\ session' = session
        BY <3>4, <2>2, <2>6
      <4>2. (\A i \in DOMAIN plan : plan[i] # q) => (\A i \in DOMAIN plan' : plan'[i] # q)
        <5>1. \A i \in DOMAIN plan' : i + 1 \in DOMAIN plan
          BY <2>1
        <5> QED
          BY <5>1, <2>1
      <4> QED
        BY <4>1, <4>2, <3>4 DEF OnceInv
    <3> QED
      BY <3>1, <3>2, <3>3, <3>4 DEF OnceInv
  <2> QED
    BY <2>9, <2>10
<1>14. CASE HangUp
  <2>1. /\ session' = session + 1 /\ plan' \in Orders /\ hangs' \in 0 .. MaxHangs
        /\ UNCHANGED <<boardVars, armed, queue, waiting, faults>>
    BY <1>14 DEF HangUp, TypeOK
  <2>2. session \in Nat \ {0} /\ session' \in Nat \ {0} /\ 1 .. session \subseteq 1 .. session'
        /\ 0 .. session \subseteq 0 .. session'
    BY <2>1 DEF TypeOK
  <2>3. queue' \in [Port -> Seq(1 .. session')] /\ acq' \in [Port -> 0 .. session']
    <3>1. \A p \in Port : queue[p] \in Seq(1 .. session')
      BY <2>2, SeqMonotonic DEF TypeOK
    <3> QED
      BY <3>1, <2>1, <2>2 DEF TypeOK
  <2>4. TypeOK'
    BY <2>1, <2>2, <2>3, NewPlan DEF TypeOK
  <2>5. ASSUME NEW p \in Port
        PROVE acq'[p] # session' /\ \A i \in DOMAIN queue'[p] : queue'[p][i] # session'
    <3>1. acq[p] \in 0 .. session /\ \A i \in DOMAIN queue[p] : queue[p][i] \in 1 .. session
      BY DEF TypeOK
    <3> QED
      BY <3>1, <2>1, <2>2
  <2> QED
    BY <2>1, <2>4, <2>5, NewPlan DEF OnceInv
<1>15. CASE Expire
  BY <1>15, QuietOnce DEF Expire, TypeOK
<1>16. CASE Restart
  <2>1. /\ main' = "open" /\ n' = 0 /\ mem' = 0 /\ fi' = 0 /\ threads' = {} /\ told' = 0
        /\ unlinked' = {} /\ sock' = [p \in Port |-> "none"] /\ acq' = [p \in Port |-> 0]
        /\ UNCHANGED <<armed, queue, waiting, session, plan, hangs, faults>>
    BY <1>16 DEF Restart, Fresh
  <2>2. TypeOK'
    BY <2>1 DEF TypeOK, Places
  <2>3. \A p \in Port : acq'[p] # session'
    BY <2>1 DEF TypeOK
  <2> QED
    BY <2>1, <2>2, <2>3 DEF OnceInv
<1>17. CASE UNCHANGED vars
  BY <1>17, QuietOnce DEF vars, TypeOK
<1> QED
  BY <1>4, <1>5, <1>6, <1>7, <1>8, <1>9, <1>10, <1>11, <1>12, <1>13, <1>14, <1>15, <1>16, <1>17, <1>18
     DEF Next, Main

\* The first states.
LEMMA InitHolds ==
    ASSUME Init
    PROVE TypeOK /\ OnceInv /\ OneSession /\ Progress /\ LinkedWhenRunning
<1>1. \A S : <<>> \in Seq(S) /\ DOMAIN <<>> = {}
  OBVIOUS
<1>2. plan \in Orders /\ session = 1
  BY DEF Init
<1>3. \A p \in Port : queue[p] = <<>> /\ acq[p] = 0
  BY DEF Init
<1>4. queue \in [Port -> Seq(1 .. session)] /\ acq \in [Port -> 0 .. session]
  BY <1>1, <1>2 DEF Init
<1>5. TypeOK
  BY <1>1, <1>2, <1>3, <1>4, NewPlan, StartupAssumption DEF Init, TypeOK, Places, Devices
<1>6. OnceInv
  BY <1>1, <1>2, <1>3, NewPlan DEF OnceInv
<1>7. OneSession /\ Progress /\ LinkedWhenRunning
  BY <1>1, <1>3 DEF Init, OneSession, Progress, Accepting, LinkedWhenRunning
<1> QED
  BY <1>5, <1>6, <1>7

\* Type correctness: main stays within its devices and its ports, and what waits
\* on a port is of a later session than what was accepted there, whatever fails
\* and whenever the PC hangs up.
THEOREM TypeCorrect == Spec => []TypeOK
<1>1. Init => TypeOK /\ OnceInv
  BY InitHolds
<1>2. TypeOK /\ OnceInv /\ [Next]_vars => (TypeOK /\ OnceInv)'
  BY TypesKept
<1> QED
  BY <1>1, <1>2, PTL DEF Spec

-----------------------------------------------------------------------------
(* A PC that does not give up while the board starts                       *)

\* A step of main before its loop that leaves the connections alone.
LEMMA QuietSession ==
    ASSUME OneSession, main # "loop", UNCHANGED <<acq, queue, session>>
    PROVE OneSession'
  BY DEF OneSession

\* An error of InitNetLink at a port: it and those behind it do not listen.
LEMMA Stopped ==
    ASSUME TypeOK, Progress, n \in 1 .. 3, main \in {"bind", "listen"},
           NEW how \in {"none", "socket"}, sock' = [sock EXCEPT ![Ports[n]] = how],
           main' = "accept", n' = 1, unlinked' = unlinked \cup Behind, UNCHANGED acq,
           \A i \in n + 1 .. 3 : sock[Ports[i]] # "listening"
    PROVE Progress'
<1>1. unlinked' = Behind /\ \A p \in Port : acq'[p] = 0
  BY DEF Progress, Accepting
<1>2. ASSUME NEW i \in 1 .. 3
      PROVE acq'[Ports[i]] = 0 /\ (Ports[i] \in unlinked' <=> sock'[Ports[i]] # "listening")
  <2>1. Ports[i] \in Port /\ Ports[n] \in Port /\ (Ports[i] = Ports[n] => i = n)
    BY PortNames
  <2>2. Ports[i] \in unlinked' <=> i \in n .. 3
    BY <1>1, BehindPorts
  <2>3. CASE i = n
    BY <2>1, <2>2, <2>3, <1>1 DEF TypeOK
  <2>4. CASE i # n
    <3>1. sock'[Ports[i]] = sock[Ports[i]]
      BY <2>1, <2>4 DEF TypeOK
    <3>2. CASE i < n
      BY <3>1, <3>2, <2>1, <2>2, <1>1 DEF Progress, Accepting
    <3>3. CASE i > n
      BY <3>1, <3>3, <2>1, <2>2, <1>1
    <3> QED
      BY <3>2, <3>3, <2>4
  <2> QED
    BY <2>3, <2>4
<1> QED
  BY <1>2 DEF Progress, Accepting

\* How far main is with its sockets, and that all it has accepted is of one
\* session, is kept by every step if the PC hangs up in the loop only.
LEMMA LinksKept ==
    ASSUME "start" \notin HangsIn,
           TypeOK, OnceInv, OneSession, Progress, LinkedWhenRunning, [Next]_vars
    PROVE OneSession' /\ Progress' /\ LinkedWhenRunning'
<1> USE DEF boardVars, pcVars
<1>1. ASSUME NEW c, End, UNCHANGED faults \/ Fault(c)
      PROVE OneSession' /\ Progress' /\ LinkedWhenRunning'
  <2>1. faults' \in 0 .. MaxFaults
    BY <1>1, StartupAssumption DEF Fault, TypeOK
  <2>2. OneSession' /\ Progress'
    BY <1>1, <2>1, EndClears
  <2>3. main' = "ended"
    BY <1>1 DEF End
  <2> QED
    BY <2>2, <2>3 DEF LinkedWhenRunning
<1>2. CASE OpenDevice
  <2>1. CASE Fault("open") /\ End
    BY <2>1, <1>1
  <2>2. CASE UNCHANGED <<main, mem, fi, sock, acq, threads, told, armed, unlinked, queue, waiting,
                         pcVars, faults>>
    BY <2>2, <1>2, QuietSession DEF OpenDevice, Progress, Accepting, LinkedWhenRunning
  <2> QED
    BY <2>1, <2>2, <1>2 DEF OpenDevice
<1>3. CASE InitMem
  BY <1>3, QuietSession DEF InitMem, Go, Progress, Accepting, LinkedWhenRunning
<1>4. CASE InitGps
  <2>1. CASE Fault("gps") /\ End
    BY <2>1, <1>1
  <2>2. CASE /\ Go("mem", "bind") /\ n' = 1
             /\ UNCHANGED <<mem, sock, acq, threads, told, unlinked>>
    <3>1. main = "mem" /\ main' = "bind" /\ UNCHANGED <<queue, session>>
      BY <2>2 DEF Go
    <3>2. \A i \in 1 .. 3 : sock'[Ports[i]] # "listening"
      BY <2>2, <3>1, PortNames DEF Progress, Accepting
    <3> QED
      BY <2>2, <3>1, <3>2, QuietSession DEF Progress, Accepting, LinkedWhenRunning
  <2> QED
    BY <2>1, <2>2, <1>4 DEF InitGps
<1>5. CASE NetBind
  <2>1. n \in 1 .. 3 /\ main = "bind"
    BY <1>5, PortNames DEF NetBind, Go, TypeOK
  <2>2. OneSession'
    BY <1>5, <2>1, QuietSession DEF NetBind, Go
  <2>3. main' # "loop" /\ UNCHANGED acq
    BY <1>5 DEF NetBind, Go
  <2>4. CASE /\ main' = "accept" /\ n' = 1 /\ unlinked' = unlinked \cup Behind
             /\ sock' = [sock EXCEPT ![Ports[n]] = "socket"]
    <3>1. \A i \in n + 1 .. 3 : sock[Ports[i]] # "listening"
      BY <2>1 DEF Progress, Accepting
    <3>2. Progress'
      BY <3>1, <2>1, <2>3, <2>4, Stopped
    <3> QED
      BY <3>2, <2>2, <2>3 DEF LinkedWhenRunning
  <2>5. CASE /\ main' = "listen" /\ sock' = [sock EXCEPT ![Ports[n]] = "bound"]
             /\ UNCHANGED <<n, unlinked>>
    <3>1. ASSUME NEW i \in 1 .. n - 1 PROVE sock'[Ports[i]] = "listening"
      <4>1. i \in 1 .. 3 /\ i # n
        BY <2>1
      <4>2. Ports[i] # Ports[n] /\ Ports[i] \in Port
        BY <4>1, <2>1, PortNames
      <4>3. sock[Ports[i]] = "listening"
        BY <3>1, <2>1 DEF Progress, Accepting
      <4> QED
        BY <4>2, <4>3, <2>5 DEF TypeOK
    <3>2. unlinked = {} /\ \A p \in Port : acq[p] = 0
      BY <2>1 DEF Progress, Accepting
    <3>3. ASSUME NEW i \in n .. 3 PROVE sock'[Ports[i]] # "listening"
      <4>1. i \in 1 .. 3 /\ Ports[i] \in Port /\ Ports[n] \in Port
        BY <2>1, PortNames
      <4>2. sock[Ports[i]] # "listening"
        BY <3>3, <2>1 DEF Progress, Accepting
      <4> QED
        BY <4>1, <4>2, <2>5 DEF TypeOK
    <3> QED
      BY <3>1, <3>2, <3>3, <2>2, <2>3, <2>5 DEF Progress, Accepting, LinkedWhenRunning
  <2> QED
    BY <2>4, <2>5, <1>5 DEF NetBind, Go
<1>6. CASE NetListen
  <2>1. n \in 1 .. 3 /\ main = "listen"
    BY <1>6, PortNames DEF NetListen, Go, TypeOK
  <2>2. OneSession'
    BY <1>6, <2>1, QuietSession DEF NetListen, Go
  <2>3. main' # "loop" /\ UNCHANGED acq
    BY <1>6 DEF NetListen, Go
  <2>4. CASE /\ main' = "accept" /\ n' = 1 /\ unlinked' = unlinked \cup Behind
             /\ sock' = [sock EXCEPT ![Ports[n]] = "none"]
    <3>1. \A i \in n + 1 .. 3 : sock[Ports[i]] # "listening"
      BY <2>1 DEF Progress, Accepting
    <3>2. Progress'
      BY <3>1, <2>1, <2>3, <2>4, Stopped
    <3> QED
      BY <3>2, <2>2, <2>3 DEF LinkedWhenRunning
  <2>5. CASE /\ main' = IF n = 3 THEN "accept" ELSE "bind"
             /\ sock' = [sock EXCEPT ![Ports[n]] = "listening"]
             /\ n' = IF n = 3 THEN 1 ELSE n + 1
             /\ UNCHANGED unlinked
    <3>1. ASSUME NEW i \in 1 .. n PROVE sock'[Ports[i]] = "listening"
      <4>1. i \in 1 .. 3
        BY <2>1
      <4>2. Ports[i] \in Port /\ Ports[n] \in Port
        BY <4>1, <2>1, PortNames
      <4>3. i # n => sock[Ports[i]] = "listening"
        BY <3>1, <2>1 DEF Progress, Accepting
      <4> QED
        BY <4>2, <4>3, <2>5 DEF TypeOK
    <3>4. unlinked = {} /\ \A p \in Port : acq[p] = 0
      BY <2>1 DEF Progress, Accepting
    <3>2. CASE n = 3
      <4>1. \A i \in 1 .. 3 : sock'[Ports[i]] = "listening" /\ acq'[Ports[i]] = 0
        BY <3>1, <3>2, <3>4, <2>3, PortNames
      <4>2. main' = "accept" /\ n' = 1 /\ unlinked' = {}
        BY <2>5, <3>2, <3>4
      <4> QED
        BY <4>1, <4>2, <2>2 DEF Progress, Accepting, LinkedWhenRunning
    <3>3. CASE n # 3
      <4>1. n' - 1 = n /\ main' = "bind"
        BY <3>3, <2>1, <2>5
      <4>2. ASSUME NEW i \in n' .. 3 PROVE sock'[Ports[i]] # "listening"
        <5>1. i \in 1 .. 3 /\ i \in n .. 3 /\ i # n
          BY <4>1, <2>1, <2>5, <3>3
        <5>2. Ports[i] # Ports[n] /\ Ports[i] \in Port /\ Ports[n] \in Port
          BY <5>1, <2>1, PortNames
        <5>3. sock[Ports[i]] # "listening"
          BY <5>1, <2>1 DEF Progress, Accepting
        <5> QED
          BY <5>2, <5>3, <2>5 DEF TypeOK
      <4> QED
        BY <4>1, <4>2, <3>1, <3>4, <2>2, <2>3, <2>5 DEF Progress, Accepting, LinkedWhenRunning
    <3> QED
      BY <3>2, <3>3
  <2> QED
    BY <2>4, <2>5, <1>6 DEF NetListen, Go
<1>7. CASE AcceptLink
  <2> DEFINE p == Ports[n]
  <2>1. n \in 1 .. 3 /\ p \in Port /\ main = "accept"
    BY <1>7, PortNames DEF AcceptLink, TypeOK
  <2>2. /\ main' = IF n = 3 THEN "mesgthread" ELSE "accept"
        /\ n' = IF n = 3 THEN 0 ELSE n + 1
        /\ UNCHANGED <<sock, session>>
    BY <1>7 DEF AcceptLink, Accepted
  <2>8. \A i \in n .. 3 : /\ acq[Ports[i]] = 0
                          /\ Ports[i] \in unlinked <=> sock[Ports[i]] # "listening"
    <3>1. Accepting
      BY <2>1 DEF Progress
    <3> QED
      BY <3>1 DEF Accepting
  <2>5. ASSUME \A q \in Port : q # p => /\ acq'[q] = acq[q]
                                        /\ q \in unlinked' <=> q \in unlinked,
               acq'[p] = 0 <=> p \in unlinked'
        PROVE Progress' /\ LinkedWhenRunning'
    <3>1. ASSUME NEW i \in 1 .. n PROVE acq'[Ports[i]] = 0 <=> Ports[i] \in unlinked'
      <4>1. i \in 1 .. 3 /\ Ports[i] \in Port
        BY <2>1, PortNames
      <4>2. CASE i = n
        BY <4>2, <2>5
      <4>3. CASE i # n
        <5>1. i \in 1 .. n - 1 /\ Ports[i] # p
          BY <4>1, <4>3, <2>1, PortNames
        <5> QED
          BY <5>1, <4>1, <2>1, <2>5 DEF Progress, Accepting
      <4> QED
        BY <4>2, <4>3
    <3>2. CASE n = 3
      <4>1. \A q \in Port : acq'[q] = 0 <=> q \in unlinked'
        BY <3>1, <3>2, PortNames
      <4> QED
        BY <4>1, <3>2, <2>2 DEF Progress, Accepting, LinkedWhenRunning
    <3>3. CASE n # 3
      <4>1. n' = n + 1 /\ n' - 1 = n /\ main' = "accept"
        BY <3>3, <2>1, <2>2
      <4>2. ASSUME NEW i \in n' .. 3
            PROVE /\ acq'[Ports[i]] = 0
                  /\ Ports[i] \in unlinked' <=> sock'[Ports[i]] # "listening"
        <5>1. i \in 1 .. 3 /\ i \in n .. 3 /\ i # n
          BY <4>1, <2>1
        <5>2. Ports[i] \in Port /\ Ports[i] # p
          BY <5>1, <2>1, PortNames
        <5>3. acq[Ports[i]] = 0 /\ (Ports[i] \in unlinked <=> sock[Ports[i]] # "listening")
          BY <5>1, <2>8, Zenon
        <5> QED
          BY <5>2, <5>3, <2>2, <2>5
      <4> QED
        BY <4>1, <4>2, <3>1 DEF Progress, Accepting, LinkedWhenRunning
    <3> QED
      BY <3>2, <3>3
  <2>6. acq[p] = 0 /\ (p \in unlinked <=> sock[p] # "listening")
    <3>1. n \in n .. 3
      BY <2>1
    <3> QED
      BY <3>1, <2>8, Zenon
  <2>3. CASE sock[p] # "listening" /\ UNCHANGED <<acq, queue, unlinked>>
    BY <2>1, <2>2, <2>3, <2>5, <2>6, QuietSession
  <2>7. CASE unlinked' = unlinked \cup {p} /\ UNCHANGED <<acq, queue>>
    <3>1. /\ acq'[p] = 0 /\ p \in unlinked'
          /\ \A q \in Port : q # p => acq'[q] = acq[q] /\ (q \in unlinked' <=> q \in unlinked)
      BY <2>6, <2>7
    <3> QED
      BY <3>1, <2>1, <2>2, <2>5, <2>7, QuietSession
  <2>4. CASE /\ queue[p] # <<>> /\ sock[p] = "listening" /\ UNCHANGED unlinked
             /\ acq' = [acq EXCEPT ![p] = Head(queue[p])]
             /\ queue' = [queue EXCEPT ![p] = Tail(queue[p])]
    <3>1. /\ Head(queue[p]) = queue[p][1] /\ 1 \in DOMAIN queue[p]
          /\ \A i \in DOMAIN Tail(queue[p]) :
                 Tail(queue[p])[i] = queue[p][i + 1] /\ i + 1 \in DOMAIN queue[p]
      <4>1. queue[p] # <<>> /\ queue[p] \in Seq(1 .. session)
        BY <2>1, <2>4 DEF TypeOK
      <4> HIDE DEF p
      <4>2. /\ Head(queue[p]) = queue[p][1]
            /\ DOMAIN queue[p] = 1 .. Len(queue[p]) /\ Len(queue[p]) \in Nat \ {0}
            /\ \A i \in DOMAIN Tail(queue[p]) :
                   Tail(queue[p])[i] = queue[p][i + 1] /\ i + 1 \in DOMAIN queue[p]
        BY <4>1, Rest, Zenon
      <4> QED
        BY <4>2
    <3>2. \A i \in DOMAIN queue[p] : queue[p][i] = session
      BY <2>1 DEF OneSession
    <3>3. Head(queue[p]) = session /\ \A i \in DOMAIN Tail(queue[p]) : Tail(queue[p])[i] = session
      BY <3>1, <3>2
    <3>4. /\ acq'[p] = session /\ queue'[p] = Tail(queue[p]) /\ session # 0
          /\ \A q \in Port \ {p} : acq'[q] = acq[q] /\ queue'[q] = queue[q]
      BY <2>1, <2>4, <3>3 DEF TypeOK
    <3>5. OneSession'
      <4>1. ASSUME NEW q \in Port
            PROVE acq'[q] \in {0, session} /\ \A i \in DOMAIN queue'[q] : queue'[q][i] = session
        <5>1. CASE q = p
          BY <5>1, <3>3, <3>4
        <5>2. CASE q # p
          BY <5>2, <3>4, <2>1 DEF OneSession
        <5> QED
          BY <5>1, <5>2
      <4> QED
        BY <4>1, <2>2 DEF OneSession
    <3>7. Progress' /\ LinkedWhenRunning'
      <4>1. acq'[p] # 0 /\ p \notin unlinked'
        BY <3>4, <2>4, <2>6
      <4> QED
        BY <4>1, <3>4, <2>4, <2>5
    <3> QED
      BY <3>5, <3>7
  <2> QED
    BY <2>3, <2>4, <2>7, <1>7 DEF AcceptLink
<1>8. CASE CreateThreads
  <2>1. CASE Fault("thread") /\ End
    BY <2>1, <1>1
  <2>2. CASE Go("mesgthread", "gpsthread") /\ UNCHANGED <<n, sock, acq, unlinked>>
    BY <2>2, QuietSession DEF Go, Progress, Accepting, LinkedWhenRunning
  <2>3. CASE Go("gpsthread", "loop") /\ UNCHANGED <<n, sock, acq, unlinked>>
    <3>1. \A p \in Port : (acq[p] = 0 <=> p \in unlinked) /\ acq[p] \in {0, session}
      BY <2>3 DEF Go, Progress, Accepting, OneSession
    <3> QED
      BY <2>3, <3>1 DEF Go, Progress, Accepting, LinkedWhenRunning, OneSession
  <2> QED
    BY <2>1, <2>2, <2>3, <1>8 DEF CreateThreads, CreateThread
<1>9. CASE GpsFgets \/ BankRead
  BY <1>9, <1>1 DEF GpsFgets, BankRead
<1>10. CASE MesgSend
  <2>1. CASE End
    BY <2>1, <1>10, <1>1 DEF MesgSend
  <2>2. CASE UNCHANGED <<main, n, mem, fi, sock, acq, threads, armed, unlinked,
                           queue, waiting, pcVars>>
    BY <2>2 DEF OneSession, Progress, Accepting, LinkedWhenRunning
  <2> QED
    BY <2>1, <2>2, <1>10 DEF MesgSend
<1>16. CASE Command
  <2>1. UNCHANGED <<boardVars, queue, waiting, pcVars, faults>>
    BY <1>16 DEF Command
  <2> QED
    BY <2>1 DEF OneSession, Progress, Accepting, LinkedWhenRunning
<1>11. CASE Connect
  <2> DEFINE p == Head(plan)
  <2>1. /\ p \in Port
        /\ queue'[p] = Append(queue[p], session) /\ queue[p] \in Seq(1 .. session)
        /\ \A q \in Port \ {p} : queue'[q] = queue[q]
        /\ UNCHANGED <<boardVars, session>>
    <3>1. plan \in Seq(Port) /\ plan # <<>> /\ queue \in [Port -> Seq(1 .. session)]
      BY <1>11 DEF Connect, TypeOK
    <3>2. p \in Port
      BY <3>1
    <3> QED
      BY <1>11, <3>1, <3>2 DEF Connect
  <2>2. \A i \in DOMAIN queue'[p] : \/ i \in DOMAIN queue[p] /\ queue'[p][i] = queue[p][i]
                                    \/ queue'[p][i] = session
    <3>1. /\ DOMAIN queue'[p] = 1 .. Len(queue[p]) + 1 /\ Len(queue[p]) \in Nat
          /\ DOMAIN queue[p] = 1 .. Len(queue[p])
          /\ queue'[p][Len(queue[p]) + 1] = session
          /\ \A i \in DOMAIN queue[p] : queue'[p][i] = queue[p][i]
      BY <2>1
    <3> QED
      BY <3>1
  <2>3. OneSession'
    BY <2>1, <2>2 DEF OneSession
  <2> QED
    BY <2>1, <2>3 DEF Progress, Accepting, LinkedWhenRunning
<1>12. CASE HangUp
  <2>1. main = "loop"
    BY <1>12, StartupAssumption DEF HangUp, Phase
  <2>2. UNCHANGED boardVars
    BY <1>12 DEF HangUp
  <2> QED
    BY <2>1, <2>2 DEF OneSession, Progress, Accepting, LinkedWhenRunning
<1>13. CASE Expire
  BY <1>13 DEF Expire, OneSession, Progress, Accepting, LinkedWhenRunning
<1>14. CASE Restart
  <2>1. main = "ended" /\ main' = "open" /\ UNCHANGED <<queue, session>>
        /\ acq' = [p \in Port |-> 0] /\ unlinked' = {} /\ sock' = [p \in Port |-> "none"]
    BY <1>14 DEF Restart, Fresh
  <2> QED
    BY <2>1 DEF OneSession, Progress, Accepting, LinkedWhenRunning
<1>15. CASE UNCHANGED vars
  BY <1>15 DEF vars, OneSession, Progress, Accepting, LinkedWhenRunning
<1> QED
  BY <1>2, <1>3, <1>4, <1>5, <1>6, <1>7, <1>8, <1>9, <1>10, <1>11, <1>12, <1>13, <1>14, <1>15,
     <1>16 DEF Next, Main

\* In its loop the board has a connection on every port but those whose calls
\* failed in InitNetLink or AcceptLink, and all are of one session of the PC: in
\* whatever order the PC connects, whatever else fails, and however often either
\* side went away before.  The PC must not give up while the board is starting.
THEOREM RunsLinked == "start" \notin HangsIn /\ Spec => []LinkedWhenRunning
<1> SUFFICES ASSUME "start" \notin HangsIn PROVE Spec => []LinkedWhenRunning
  OBVIOUS
<1> DEFINE Inv == TypeOK /\ OnceInv /\ OneSession /\ Progress /\ LinkedWhenRunning
<1>1. Init => Inv
  BY InitHolds
<1>2. Inv /\ [Next]_vars => Inv'
  BY TypesKept, LinksKept
<1> QED
  BY <1>1, <1>2, PTL DEF Spec
=============================================================================
