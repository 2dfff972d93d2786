------------------------------ MODULE MCStartup ------------------------------
(* Every order of connecting, with every fault.                              *)
EXTENDS Startup

AllOrders == {o \in [1 .. 3 -> Port] : \A i, j \in 1 .. 3 : i # j => o[i] # o[j]}
AllFaults == {"open", "mem", "gps", "net", "accept", "thread"}
=============================================================================
