------------------------------- MODULE Startup -------------------------------
(***************************************************************************)
(* How the board and the PC come together: main() up to its loop, with       *)
(* InitMem, InitGps, InitNetLink and AcceptLink, whose results it ignores,   *)
(* and what becomes of the three connections when either side goes away.     *)
(* The board listens on three ports and accepts one connection on each, in a *)
(* fixed order and once; the PC connects in an order of its own.  A PC that  *)
(* hangs up and comes again is another session.  TCP is external: a backlog  *)
(* for each listening port, the error and the signal of a send to a peer     *)
(* that has gone, and the wait of a port whose connection the board closed.  *)
(* The PL outlives the program: what a START armed stays armed.              *)
(***************************************************************************)
EXTENDS Integers, Sequences, FiniteSets

CONSTANTS
    Orders,       \* the orders the PC connects in
    Faults,       \* the calls that may fail: open, mem, gps, net, accept, thread
    HangsIn,      \* when the PC may hang up: start, loop
    Patient,      \* TRUE if the board is started again only when the ports are free
    MaxFaults, MaxHangs

Ports == <<"data", "cmd", "mesg">>   \* in the order of InitNetLink and AcceptLink
Port == {Ports[i] : i \in 1 .. 3}
Devices == 4                         \* axi_csr0, bram0, counter_irq0, data_irq0

\* The PC connects once to each port.
ASSUME StartupAssumption ==
    /\ \A o \in Orders : /\ o \in [1 .. 3 -> Port]
                         /\ \A i, j \in 1 .. 3 : o[i] = o[j] => i = j
    /\ Faults \subseteq {"open", "mem", "gps", "net", "accept", "thread"}
    /\ HangsIn \subseteq {"start", "loop"} /\ Patient \in BOOLEAN
    /\ MaxFaults \in Nat /\ MaxHangs \in Nat

VARIABLES
    main,      \* where main is
    n,         \* devices opened, or the port it is at
    mem, fi,   \* 1 if the banks are mapped, if the serial port is open
    sock,      \* the listening sockets
    queue,     \* sessions whose connection is not accepted yet
    acq,       \* the session accepted on a port, 0 if none
    threads,   \* threads that run: mesg, gps
    told,      \* 1 once a send has met a closed connection
    armed,     \* CSR_REC_EN of the PL
    waiting,   \* ports whose old connections keep them from being bound
    session,   \* the session of the PC
    plan,      \* ports the PC is still to connect to
    faults, hangs,
    unlinked   \* ports a call of which failed, and those behind it in InitNetLink

boardVars == <<main, n, mem, fi, sock, acq, threads, told, unlinked>>
pcVars == <<session, plan, hangs>>
vars == <<boardVars, armed, queue, waiting, pcVars, faults>>

Places == {"open", "mem", "gps", "bind", "listen", "accept", "mesgthread", "gpsthread",
           "loop", "ended"}
Phase == IF main = "loop" THEN "loop" ELSE "start"

\* main is at a place of its code, within its devices or its ports; no socket
\* is accepted twice and no connection is made by a session to come.
TypeOK ==
    /\ main \in Places /\ n \in 0 .. Devices /\ mem \in {0, 1} /\ fi \in {0, 1}
    /\ main \in {"bind", "listen", "accept"} => n \in DOMAIN Ports
    /\ sock \in [Port -> {"none", "socket", "bound", "listening"}]
    /\ session \in Nat \ {0}
    /\ queue \in [Port -> Seq(1 .. session)] /\ acq \in [Port -> 0 .. session]
    /\ \A p \in Port : acq[p] # 0 => \A i \in DOMAIN queue[p] : queue[p][i] > acq[p]
    /\ threads \subseteq {"mesg", "gps"} /\ told \in {0, 1} /\ armed \in {0, 1}
    /\ waiting \subseteq Port /\ plan \in Seq(Port)
    /\ faults \in 0 .. MaxFaults /\ hangs \in 0 .. MaxHangs /\ unlinked \subseteq Port

Fresh ==
    /\ n' = 0 /\ mem' = 0 /\ fi' = 0
    /\ sock' = [p \in Port |-> "none"] /\ acq' = [p \in Port |-> 0]
    /\ threads' = {} /\ told' = 0 /\ unlinked' = {}

Init ==
    /\ main = "open" /\ n = 0 /\ mem = 0 /\ fi = 0
    /\ sock = [p \in Port |-> "none"] /\ acq = [p \in Port |-> 0]
    /\ threads = {} /\ told = 0 /\ armed = 0 /\ unlinked = {}
    /\ queue = [p \in Port |-> <<>>] /\ waiting = {}
    /\ session = 1 /\ plan \in Orders /\ faults = 0 /\ hangs = 0

-----------------------------------------------------------------------------
(* The end of the program, by a return from main or by a signal             *)

Linked(p) == acq[p] = session

\* The kernel closes every socket.  A connection whose other end is there was
\* closed by the board first and keeps its port; what was in a backlog is
\* refused.  A PC that was connected begins a session of its own again.
End ==
    /\ main' = "ended"
    /\ waiting' = waiting \cup {p \in Port : Linked(p)}
    /\ queue' = [p \in Port |-> <<>>]
    /\ IF \E p \in Port : Linked(p) \/ \E i \in DOMAIN queue[p] : queue[p][i] = session
       THEN session' = session + 1 /\ plan' \in Orders
       ELSE UNCHANGED <<session, plan>>
    /\ Fresh
    /\ UNCHANGED <<hangs, armed>>

Fault(call) == call \in Faults /\ faults < MaxFaults /\ faults' = faults + 1

Go(from, to) ==
    /\ main = from /\ main' = to
    /\ UNCHANGED <<armed, queue, waiting, pcVars>>

-----------------------------------------------------------------------------
(* main                                                                    *)

OpenDevice ==
    /\ main = "open" /\ n < Devices
    /\ \/ /\ n' = n + 1
          /\ UNCHANGED <<main, mem, fi, sock, acq, threads, told, armed, unlinked, queue,
                         waiting, pcVars, faults>>
       \/ Fault("open") /\ End

\* open and mmap of the two banks.
InitMem ==
    /\ Go("open", "mem") /\ n = Devices
    /\ \/ mem' = 1 /\ UNCHANGED faults
       \/ Fault("mem") /\ UNCHANGED mem
    /\ UNCHANGED <<n, fi, sock, acq, threads, told, unlinked>>

\* All that is told of set_opt is whether a call of it failed.
set_opt(result) ==
    \/ result = 0 /\ UNCHANGED faults
    \/ result = -1 /\ Fault("gps")

\* open, set_opt and fdopen of the serial port.  When fdopen fails, fclose is
\* called with the null pointer it returned.
InitGps ==
    \/ /\ Go("mem", "bind")
       /\ \/ set_opt(0) /\ fi' = 1
          \/ (Fault("gps") \/ set_opt(-1)) /\ UNCHANGED fi
       /\ n' = 1
       /\ UNCHANGED <<mem, sock, acq, threads, told, unlinked>>
    \/ main = "mem" /\ Fault("gps") /\ End

\* The port main is at and the ones behind it.
Behind == {Ports[i] : i \in n .. 3}

\* socket and bind; without SO_REUSEADDR a port that waits cannot be bound.  An
\* error leaves InitNetLink, and the sockets behind it are not made.
NetBind ==
    LET p == Ports[n]
    IN  /\ \/ /\ Go("bind", "listen")
              /\ p \notin waiting
              /\ sock' = [sock EXCEPT ![p] = "bound"]
              /\ UNCHANGED <<n, unlinked, faults>>
           \/ /\ Go("bind", "accept")
              /\ \/ p \in waiting /\ UNCHANGED faults
                 \/ Fault("net")
              /\ sock' = [sock EXCEPT ![p] = "socket"]
              /\ n' = 1 /\ unlinked' = unlinked \cup Behind
        /\ UNCHANGED <<mem, fi, acq, threads, told>>

\* Mutant: the socket begins to listen when it is its turn to be accepted from.
NetListenLate ==
    LET p == Ports[n]
    IN  /\ Go("listen", IF n = 3 THEN "accept" ELSE "bind")
        /\ sock' = [sock EXCEPT ![p] = IF n = 1 THEN "listening" ELSE "bound"]
        /\ n' = IF n = 3 THEN 1 ELSE n + 1
        /\ UNCHANGED <<mem, fi, acq, threads, told, unlinked, faults>>

\* Mutant: there is one socket more.
NetListenOver ==
    LET p == Ports[n]
    IN  /\ Go("listen", IF n = 4 THEN "accept" ELSE "bind")
        /\ sock' = [sock EXCEPT ![p] = "listening"]
        /\ n' = IF n = 4 THEN 1 ELSE n + 1
        /\ UNCHANGED <<mem, fi, acq, threads, told, unlinked, faults>>

NetListen ==
    LET p == Ports[n]
    IN  /\ \/ /\ Go("listen", IF n = 3 THEN "accept" ELSE "bind")
              /\ sock' = [sock EXCEPT ![p] = "listening"]
              /\ n' = IF n = 3 THEN 1 ELSE n + 1
              /\ UNCHANGED <<unlinked, faults>>
           \/ /\ Go("listen", "accept") /\ Fault("net")
              /\ sock' = [sock EXCEPT ![p] = "none"]
              /\ n' = 1 /\ unlinked' = unlinked \cup Behind
        /\ UNCHANGED <<mem, fi, acq, threads, told>>

Accepted ==
    /\ main' = IF n = 3 THEN "mesgthread" ELSE "accept"
    /\ n' = IF n = 3 THEN 0 ELSE n + 1
    /\ UNCHANGED <<mem, fi, sock, threads, told, armed, waiting, pcVars>>

\* Mutant: the listening sockets do not block (FIONBIO with 1).
AcceptNoWait ==
    LET p == Ports[n]
    IN  /\ main = "accept"
        /\ IF queue[p] # <<>>
           THEN /\ acq' = [acq EXCEPT ![p] = Head(queue[p])]
                /\ queue' = [queue EXCEPT ![p] = Tail(queue[p])]
           ELSE UNCHANGED <<acq, queue>>
        /\ Accepted
        /\ UNCHANGED <<unlinked, faults>>

\* accept waits for a connection; on a socket that does not listen it fails at
\* once, and on one that listens it may (no descriptor is free).  What the
\* accept of one port returns decides nothing about the next port, and main
\* ignores it.  The connection may be of a PC that has hung up meanwhile.
AcceptLink ==
    LET p == Ports[n]
    IN  /\ main = "accept"
        /\ \/ /\ sock[p] = "listening" /\ queue[p] # <<>>
              /\ acq' = [acq EXCEPT ![p] = Head(queue[p])]
              /\ queue' = [queue EXCEPT ![p] = Tail(queue[p])]
              /\ UNCHANGED <<unlinked, faults>>
           \/ sock[p] # "listening" /\ UNCHANGED <<acq, queue, unlinked, faults>>
           \/ /\ sock[p] = "listening" /\ Fault("accept")
              /\ unlinked' = unlinked \cup {p}
              /\ UNCHANGED <<acq, queue>>
        /\ Accepted

CreateThread(thread, from, to) ==
    \/ /\ Go(from, to)
       /\ threads' = threads \cup {thread}
       /\ UNCHANGED <<n, mem, fi, sock, acq, told, unlinked, faults>>
    \/ main = from /\ Fault("thread") /\ End

CreateThreads ==
    \/ CreateThread("mesg", "mesgthread", "gpsthread")
    \/ CreateThread("gps", "gpsthread", "loop")

-----------------------------------------------------------------------------
(* The threads                                                             *)

\* GpsThread uses the file InitGps did not open.
GpsFgets ==
    /\ "gps" \in threads /\ fi = 0
    /\ End
    /\ UNCHANGED faults

\* The PL has filled a bank, and DeliverData_s reads one InitMem did not map.
BankRead ==
    /\ main = "loop" /\ mem = 0 /\ armed = 1
    /\ End
    /\ UNCHANGED faults

\* A trigger, which only an armed PL takes: MesgThread sends.  After the PC has
\* gone a first send is answered by a reset, and the next one raises SIGPIPE,
\* which nothing handles.
MesgSend ==
    /\ "mesg" \in threads /\ armed = 1
    /\ acq["mesg"] \notin {0, session}
    /\ \/ /\ told = 0 /\ told' = 1
          /\ UNCHANGED <<main, n, mem, fi, sock, acq, threads, armed, unlinked, queue, waiting,
                         pcVars>>
       \/ told = 1 /\ End
    /\ UNCHANGED faults

\* A START or a STOP of the PC whose command connection was accepted.  recvfrom
\* on the connection of a PC that has gone returns 0, and App does nothing.
Command ==
    /\ main = "loop" /\ Linked("cmd")
    /\ armed' \in {0, 1}
    /\ UNCHANGED <<boardVars, queue, waiting, pcVars, faults>>

-----------------------------------------------------------------------------
(* External: the PC, the kernel and whoever starts the program              *)

Connect ==
    /\ plan # <<>> /\ sock[Head(plan)] = "listening"
    /\ queue' = [queue EXCEPT ![Head(plan)] = Append(@, session)]
    /\ plan' = Tail(plan)
    /\ UNCHANGED <<boardVars, armed, waiting, session, hangs, faults>>

HangUp ==
    /\ hangs < MaxHangs /\ Phase \in HangsIn /\ Len(plan) < 3
    /\ hangs' = hangs + 1
    /\ session' = session + 1 /\ plan' \in Orders
    /\ UNCHANGED <<boardVars, armed, queue, waiting, faults>>

Expire ==
    /\ waiting # {}
    /\ waiting' = {}
    /\ UNCHANGED <<boardVars, armed, queue, pcVars, faults>>

Restart ==
    /\ main = "ended"
    /\ Patient => waiting = {}
    /\ main' = "open" /\ Fresh
    /\ UNCHANGED <<armed, queue, waiting, pcVars, faults>>

Main == OpenDevice \/ InitMem \/ InitGps \/ NetBind \/ NetListen \/ AcceptLink \/ CreateThreads

Next ==
    \/ Main \/ GpsFgets \/ BankRead \/ MesgSend \/ Command
    \/ Connect \/ HangUp \/ Expire \/ Restart

\* main and the threads run, an armed PL triggers again and again and fills its
\* banks, the PC goes on trying to connect, ports become free, and the program
\* is started again when it has ended.  Nobody need send a command.
Spec ==
    /\ Init /\ [][Next]_vars
    /\ WF_vars(Main) /\ WF_vars(GpsFgets) /\ WF_vars(BankRead) /\ WF_vars(MesgSend)
    /\ WF_vars(Connect) /\ WF_vars(Expire) /\ WF_vars(Restart)

-----------------------------------------------------------------------------
(* What makes it correct                                                   *)

\* Whatever order the PC connects in, when main is in its loop the ports without
\* a connection are those whose calls failed in InitNetLink or AcceptLink, and
\* the connections it has are all of one session of the PC.
LinkedWhenRunning ==
    main = "loop" =>
        /\ \A p \in Port : acq[p] = 0 <=> p \in unlinked
        /\ \A p, q \in Port \ unlinked : acq[p] = acq[q]

\* main polls a command connection whose PC has gone, and no trigger will end
\* the program: App's recvfrom returns 0 for ever and nothing accepts again.
Deaf == main = "loop" /\ armed = 0 /\ acq["cmd"] \notin {0, session}

\* The board and the PC never wait for one another for ever: after faults that
\* end the program, and after the PC has hung up on an armed PL, they find each
\* other again.  What leaves the board without its PC is a failed call of
\* InitNetLink or AcceptLink, which main ignores, and a PC that hangs up while
\* the PL is not armed.
LinksComeUp ==
    <>[](unlinked # {} \/ Deaf \/ (main = "loop" /\ \A p \in Port : Linked(p)))
=============================================================================
