------------------------------ MODULE RegDevice ------------------------------
(***************************************************************************)
(* The register drivers axi_csr.c and bram.c, which are the same code over  *)
(* another address range: SIZE words that programs reach by lseek to a word *)
(* index, read and write.  Every open maps the range and every release      *)
(* unmaps it, in one device structure that all files share; the mutex and   *)
(* the reference counts that would keep a second program out are commented  *)
(* out in both drivers.                                                     *)
(***************************************************************************)
EXTENDS Integers

CONSTANTS
    Files,     \* files that programs open
    Sharing,   \* whether programs have the device open at the same time
    SIZE,      \* dev_addrsize: 14 words in axi_csr.c, 80 in bram.c
    ULONG,     \* read and write take f_pos as an unsigned long: 2^32
    Values,    \* words
    Zero,      \* the word that the range holds at first
    Offsets,   \* offsets given to lseek
    MaxPos,    \* bound of a run: the farthest position
    Maps,      \* mappings that ioremap_nocache can hand out
    NULL       \* dev_virtaddr before the first open

ASSUME RegDeviceAssumption ==
    /\ Sharing \in BOOLEAN
    /\ SIZE \in Nat \ {0} /\ MaxPos \in Nat
    /\ ULONG \in Nat /\ ULONG >= SIZE
    /\ Offsets \subseteq Int
    /\ Zero \in Values
    /\ NULL \notin Maps

VARIABLES
    isOpen,    \* open files
    pos,       \* f_pos of every file
    mem,       \* the words behind the range
    virt,      \* dev_virtaddr: the mapping made last
    live,      \* mappings that exist
    region,    \* 1 while the range is reserved
    buf,       \* the word in the buffer that a file's program reads into
    fault      \* 1 once an address that is not mapped was used or unmapped

mapVars == <<isOpen, virt, live, region>>
vars == <<mapVars, pos, mem, buf, fault>>

Index == 0 .. SIZE - 1

\* Positions are indices, never negative; words are words.
TypeOK ==
    /\ isOpen \subseteq Files /\ pos \in [Files -> Nat]
    /\ mem \in [Index -> Values] /\ buf \in [Files -> Values]
    /\ virt \in Maps \cup {NULL} /\ live \subseteq Maps
    /\ region \in {0, 1} /\ fault \in {0, 1}

Init ==
    /\ isOpen = {} /\ pos = [f \in Files |-> 0]
    /\ mem = [i \in Index |-> Zero] /\ buf = [f \in Files |-> Zero]
    /\ virt = NULL /\ live = {} /\ region = 0 /\ fault = 0

\* A range that is reserved already is reported, and mapped all the same.  That
\* ioremap_nocache has a mapping to give is assumed: its result is not tested.
open(f) ==
    /\ f \notin isOpen
    /\ isOpen' = isOpen \cup {f}
    /\ pos' = [pos EXCEPT ![f] = 0]
    /\ region' = 1
    /\ \E m \in Maps \ live : virt' = m /\ live' = live \cup {m}
    /\ UNCHANGED <<mem, buf, fault>>

\* An access through dev_virtaddr, or its iounmap.
UseMapping == fault' = IF virt \in live THEN fault ELSE 1

\* Mutant: the mapping is left behind.
releaseKeepsMap(f) ==
    /\ f \in isOpen
    /\ isOpen' = isOpen \ {f}
    /\ region' = 0
    /\ UNCHANGED <<pos, mem, virt, live, buf, fault>>

\* The mapping made last is undone, whoever made it, and kept in dev_virtaddr.
release(f) ==
    /\ f \in isOpen
    /\ isOpen' = isOpen \ {f}
    /\ UseMapping
    /\ live' = live \ {virt}
    /\ region' = 0
    /\ UNCHANGED <<pos, mem, virt, buf>>

\* The word that read and write address: f_pos has 64 bits, their copy 32, so
\* that a position of ULONG is the first word again.
Index32(f) == pos[f] % ULONG

\* One word at f_pos, which does not move.
read(f) ==
    /\ f \in isOpen
    /\ Index32(f) < SIZE
    /\ UseMapping
    /\ buf' = [buf EXCEPT ![f] = mem[Index32(f)]]
    /\ UNCHANGED <<mapVars, pos, mem>>

write(f, v) ==
    /\ f \in isOpen
    /\ Index32(f) < SIZE
    /\ UseMapping
    /\ mem' = [mem EXCEPT ![Index32(f)] = v]
    /\ UNCHANGED <<mapVars, pos, buf>>

\* Beyond the range, read and write return 0 and leave everything alone.
BeyondRange(f) ==
    /\ f \in isOpen
    /\ Index32(f) >= SIZE
    /\ UNCHANGED vars

\* The new position for SEEK_SET, SEEK_CUR and SEEK_END.
NewPos(f, off) == [set |-> off, cur |-> pos[f] + off, end |-> SIZE - off]

\* Mutant: a negative position is accepted.
lseekUnchecked(f, off, whence) ==
    /\ f \in isOpen
    /\ pos' = [pos EXCEPT ![f] = NewPos(f, off)[whence]]
    /\ UNCHANGED <<mapVars, mem, buf, fault>>

\* -EINVAL for a negative position; one beyond the range is accepted.
lseek(f, off, whence) ==
    /\ f \in isOpen
    /\ NewPos(f, off)[whence] >= 0
    /\ pos' = [pos EXCEPT ![f] = NewPos(f, off)[whence]]
    /\ UNCHANGED <<mapVars, mem, buf, fault>>

\* The code keeps no program out: where Sharing is FALSE, programs are assumed
\* to take turns.
Next ==
    \E f \in Files :
        \/ open(f) /\ (Sharing \/ isOpen = {})
        \/ release(f)
        \/ read(f)
        \/ \E v \in Values : write(f, v)
        \/ BeyondRange(f)
        \/ \E off \in Offsets, whence \in {"set", "cur", "end"} :
               lseek(f, off, whence) /\ pos'[f] <= MaxPos

Spec == Init /\ [][Next]_vars

-----------------------------------------------------------------------------
(* Properties                                                              *)

\* While a file is open, the address that its reads and writes use is mapped
\* and the range is reserved; nothing unmapped was ever used; and a device that
\* nobody has open holds no mapping and no reservation (open, release).
MappedWhileOpen ==
    /\ fault = 0
    /\ isOpen # {} => virt \in live /\ region = 1
    /\ isOpen = {} => live = {} /\ region = 0
=============================================================================
