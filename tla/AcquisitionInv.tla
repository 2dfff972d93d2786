---------------------------- MODULE AcquisitionInv ----------------------------
(***************************************************************************)
(* The inductive invariant of the acquisition when every assumption on the  *)
(* environment holds: why the unlocked statics of app.c are enough.  A      *)
(* record goes through three phases, and in each of them only one of the    *)
(* two threads writes what the other reads.                                 *)
(***************************************************************************)
EXTENDS Acquisition

\* MesgThread has a trigger to handle; the PL has filled no bank yet.
Setup == cntIrq = 1 \/ mesg \notin {"read", "send"}
\* The main thread delivers the record.
Run == ~Setup /\ s_ucIsReady = 1
\* The record is delivered.
Rest == ~Setup /\ s_ucIsReady = 0

Latest == IF plChunk % 2 = 1 THEN "A" ELSE "B"   \* the bank filled last
Chunk(pos) == [rec |-> plRec, pos |-> pos, total |-> plLen]
Counted == {"test", "inc", "incstore"}           \* before s_uiFlag++ is done
Chosen == {"size", "small", "medium", "medium2", "large", "large2"}

SetupInv ==
    /\ mesg # "stores" => todo = {}
    /\ cntIrq = 1 => mesg = "read" /\ s_ucIsReady = 0
    /\ mesg = "stores" => /\ "ready" \in todo <=> s_ucIsReady = 0
                          /\ "flag" \notin todo => s_uiFlag = 0
                          /\ "total" \notin todo => s_ulTotalLen = 0
    /\ mesg \in {"fclose", "fnull", "fopen", "fwrite"} =>
           s_ucIsReady = 1 /\ s_uiFlag = 0 /\ s_ulTotalLen = 0
    /\ Setup => /\ plBusy = 1 /\ plChunk = 0 /\ plPos = 0
                /\ dataIrq = 0 /\ sent = 0
                /\ main \notin DeliverPlaces
    /\ announced = IF cntIrq = 0 /\ mesg = "read" THEN plRec ELSE plRec - 1

\* Between two banks: what was delivered, and the bank that may be waiting.
BetweenBanks ==
    /\ sent < plLen
    /\ main \in {"add", "addstore"} => s_ulTotalLen + BRAM_SIZE = sent
    /\ main = "addstore" => tmp = s_ulTotalLen
    /\ main \notin {"add", "addstore"} => s_ulTotalLen = sent
    /\ dataIrq = 0 => plBusy = 1 /\ plPos = sent /\ s_uiFlag = plChunk
    /\ dataIrq = 1 => /\ s_uiFlag + 1 = plChunk
                      /\ bank[Latest] = Chunk(sent)
                      /\ plBusy = 1 => plPos = sent + BRAM_SIZE /\ plPos < plLen
                      /\ plBusy = 0 => plLen <= sent + BRAM_SIZE

\* The main thread holds a bank: it is the one filled last.
InBank ==
    /\ dataIrq = 0 /\ plChunk > 0
    /\ s_ulTotalLen < plLen
    /\ bank[Latest] = Chunk(s_ulTotalLen)
    /\ plBusy = 1 => plPos = s_ulTotalLen + BRAM_SIZE /\ plPos < plLen
    /\ plBusy = 0 => plLen <= s_ulTotalLen + BRAM_SIZE
    /\ main \in Counted => s_uiFlag + 1 = plChunk
    /\ main = "incstore" => tmp = s_uiFlag
    /\ main \notin Counted => s_uiFlag = plChunk
    /\ main \in Chosen => s_puiAddr = Latest
    /\ main \notin {"medium2", "large2"} => sent = s_ulTotalLen
    /\ main \in {"medium2", "large2"} => sent = s_ulTotalLen + PACKAGE_SIZE
    /\ main = "small" => plLen <= s_ulTotalLen + PACKAGE_SIZE
    /\ main \in {"medium", "medium2"} => /\ plLen > s_ulTotalLen + PACKAGE_SIZE
                                         /\ plLen <= s_ulTotalLen + BRAM_SIZE
    /\ main \in {"large", "large2"} => plLen > s_ulTotalLen + BRAM_SIZE

RunInv ==
    Run => /\ main \notin ReadsBank \cup {"done"} => BetweenBanks
           /\ main \in ReadsBank => InBank
           /\ main = "done" => sent = plLen /\ plBusy = 0 /\ dataIrq = 0

RestInv ==
    /\ Rest => plBusy = 0 /\ dataIrq = 0 /\ sent = plLen
    /\ main \in DeliverPlaces \cup {"read"} => s_ucIsReady = 1

\* The piece of data last delivered: it ends where the delivery of this record
\* has come to, or at the end of the record before.
SegInv ==
    /\ sent > 0 => seg.rec = plRec /\ seg.pos + seg.len = sent /\ seg.total = plLen
    /\ sent = 0 => /\ seg.rec = IF plRec = 0 THEN 0 ELSE plRec - 1
                   /\ seg.pos + seg.len = seg.total
    /\ plRec > 0 <=> plLen > 0

\* While a record is under way no START or STOP is, and the length the main
\* thread counts to is the length of the record.
Active == Setup \/ s_ucIsReady = 1 \/ mesg = "send"

ConfigInv ==
    /\ Active => main \notin HandlerPlaces /\ cmdQ \in Seq({"OTHER"})
    /\ Active => plLen = s_ulSampleLength /\ plLen > 0
    /\ main \in {"header", "header2", "regs", "length", "flag", "recen"} => ini \in Configs
    /\ main # "length" => regLen = s_ulSampleLength
    /\ main = "length" => regLen = ini.len
    /\ recEn = 1 \/ main \in {"length", "flag", "recen"} => regLen > 0
    /\ regLen < ULONG_MOD
    /\ main \in {"regs", "length"} => s_puiConfigBuf = ini
    /\ main \notin {"header2", "regs", "length"} => s_puiConfigBuf.len = s_ulSampleLength

\* The FILE that s_pSdHPFd points to is open whenever it is used, and is the
\* file of this record while the record is delivered.
CardInv ==
    /\ crashed = 0
    /\ main \in {"remove", "close"} => s_pSdHPFd \in openFiles
    /\ mesg \in {"fclose", "fwrite"} => s_pSdHPFd \in openFiles
    /\ main # "null" /\ mesg # "fnull" => s_pSdHPFd \in openFiles \cup {NULL}
    /\ mesg = "fwrite" => s_pSdHPFd = plRec
    /\ s_uiSavePC = 0 /\ Run => /\ s_pSdHPFd = plRec
                                /\ s_pSdHPFd \in openFiles
                                /\ fileHdr.len = plLen

OrderlyInv ==
    /\ SetupInv /\ RunInv /\ RestInv /\ SegInv /\ ConfigInv /\ CardInv
=============================================================================
