--------------------------------- MODULE T1 ---------------------------------
(***************************************************************************)
(* The T=1 block protocol of the e-com reader driver (ecom/cjt1.c):        *)
(* cjT1SendCmd exchanges one command APDU for one response APDU with the   *)
(* reader.  This module is the driver alone; what arrives from the reader  *)
(* is any result of cjIoReceiveBlock, and every cjIoSendBlock may fail.    *)
(* Module T1Link composes it with a reader and a faulty line.              *)
(*                                                                         *)
(* A block is a record: its PCB is decoded into a type and the bits the    *)
(* driver reads, its information field is a sequence, and its LRC is       *)
(* reduced to the flag "rc": does it match the other bytes?                *)
(*                                                                         *)
(* Definitions that no other definition uses (FlipUnmasked, ...) are faulty*)
(* variants of the one that follows them: plausible bugs, kept to show     *)
(* that the properties would notice them.                                  *)
(***************************************************************************)
EXTENDS Integers, Sequences

CONSTANTS
  Byte,        \* bytes of commands and responses, kept abstract
  Commands,    \* the command APDUs an application may send
  MaxRspLens,  \* sizes of the application's response buffer ( *lenr)
  RxBlocks,    \* the well-formed blocks the reader may send
  RspBound,    \* bound: response bytes the reader sends for one command
  IfscInit,    \* t1.ifsc after cjIoOpen (0xFF in the code)
  ErrLimit,    \* errcntr and rerrcntr limit (3 in the code)
  WtxLimit     \* wtxcntr limit (200 in the code)

VARIABLES
  ns, nr,      \* CJ_T1_INFO: N(S) of the next own and N(R) of the next foreign I-block
  ifsc,        \* CJ_T1_INFO: information field size of the reader
  wtx,         \* CJ_T1_INFO: multiple of BWT the next receive waits, 0 for one BWT
  pc,          \* "idle", "recv" (the while loop) or "abort" (after S(ABORT))
  cmd,         \* apdu->cmd[0 .. cmdlen-1]
  maxRspLen,   \* apdu->maxRspLen
  sendptr,     \* bytes of cmd that were put into I-blocks
  more,        \* more data to send
  lastiicc,    \* it is the reader's turn to send I-blocks
  errcntr, rerrcntr, wtxcntr,
  rsplen,      \* bytes received, also the ones that did not fit
  rsp,         \* the bytes copied into the application's buffer
  block,       \* the last I-block built
  ret,         \* CJ_EXIT_* result of the last call
  tx           \* the blocks the last step sent, for the composition

link == <<ns, nr, ifsc, wtx>>
apdu == <<cmd, maxRspLen, sendptr, more, block>>
counters == <<errcntr, rerrcntr, wtxcntr>>
response == <<lastiicc, rsplen, rsp>>
vars == <<link, apdu, counters, response, pc, ret, tx>>

Bit == {0, 1}
FlipUnmasked(b) == b + 1
Flip(b) == 1 - b
MinOf(a, b) == IF a <= b THEN a ELSE b

-----------------------------------------------------------------------------
(* Blocks.                                                                 *)

IBlocks == [type : {"I"}, n : Bit, more : BOOLEAN, data : Seq(Byte), rc : BOOLEAN]
RBlocks == [type : {"R"}, n : Bit, err : {"ok", "edc", "other"}]
\* "WTX0" is the reader's own S(WTX) without a value; "DROPPED" stands for
\* E6, F6 and every other PCB that no branch of the loop names.
SBlocks == [type : {"S"}, dir : {"request", "response"},
            cmd : {"RESYNCH", "IFS", "ABORT", "WTX", "WTX0", "KEY", "CARD", "DROPPED"},
            param : Nat]
Blocks  == IBlocks \cup RBlocks \cup SBlocks

ASSUME T1Assumption ==
  /\ Commands \subseteq Seq(Byte)
  /\ MaxRspLens \subseteq Nat
  /\ RxBlocks \subseteq Blocks
  /\ RspBound \in Nat
  /\ IfscInit \in Nat \ {0}
  /\ ErrLimit \in Nat
  /\ WtxLimit \in Nat

cjT1IBlock(n, m, data) ==
  [type |-> "I", n |-> n, more |-> m, data |-> data, rc |-> TRUE]

RBlockUnnumbered(err) == [type |-> "R", n |-> 0, err |-> err]

\* "Bug workaround": R_OK is 0x80 whatever N(R) is.
cjT1RBlock(err) ==
  [type |-> "R", n |-> IF err = "ok" THEN 0 ELSE nr, err |-> err]

\* An S(WTX) response of value 0 has the form without a value.
cjT1SBlock(c, dir, param) ==
  [type |-> "S", dir |-> dir,
   cmd |-> IF c = "WTX" /\ param = 0 THEN "WTX0" ELSE c, param |-> param]

-----------------------------------------------------------------------------
TypeOK ==
  /\ ns \in Bit /\ nr \in Bit /\ ifsc \in Nat /\ wtx \in Nat
  /\ pc \in {"idle", "recv", "abort"}
  /\ cmd \in Seq(Byte) /\ maxRspLen \in Nat /\ sendptr \in Nat
  /\ more \in BOOLEAN /\ lastiicc \in BOOLEAN
  /\ errcntr \in Nat /\ rerrcntr \in Nat /\ wtxcntr \in Nat
  /\ rsplen \in Nat /\ rsp \in Seq(Byte)
  /\ block \in IBlocks
  /\ ret \in {"OK", "UNDEF_ERROR", "BAD_PARAM", "IO_ERROR", "PROTOCOL_ERROR",
             "TIMEOUT", "NONE"}
  /\ tx \in Seq(Blocks)

\* The CJ_INFO as cjIoOpen leaves it.
Init ==
  /\ ns = 0 /\ nr = 0 /\ ifsc = IfscInit /\ wtx = 0
  /\ pc = "idle" /\ cmd = <<>> /\ maxRspLen = 0 /\ sendptr = 0
  /\ more = FALSE /\ lastiicc = FALSE
  /\ errcntr = 0 /\ rerrcntr = 0 /\ wtxcntr = 0
  /\ rsplen = 0 /\ rsp = <<>>
  /\ block = cjT1IBlock(0, FALSE, <<>>)
  /\ ret = "NONE" /\ tx = <<>>

-----------------------------------------------------------------------------
(* Ways to leave a pass through the loop.                                  *)

Return(r) == pc' = "idle" /\ ret' = r /\ tx' = <<>>

\* cjIoSendBlock(b), then back to the receive; a failed write ends the call.
SendBlock(b) ==
  \/ tx' = <<b>> /\ UNCHANGED <<pc, ret>>
  \/ Return("IO_ERROR")

NextIBlockWholeLength(n, c, from) ==
  LET sendlen == MinOf(Len(c) - from, ifsc)
      m == Len(c) > ifsc
  IN  /\ more' = m
      /\ sendptr' = from + sendlen
      /\ block' = cjT1IBlock(n, m, SubSeq(c, from + 1, from + sendlen))

\* The next piece of the command as an I-block numbered n, and sendptr/more.
NextIBlock(n, c, from) ==
  LET sendlen == MinOf(Len(c) - from, ifsc)
      m == sendlen # Len(c) - from
  IN  /\ more' = m
      /\ sendptr' = from + sendlen
      /\ block' = cjT1IBlock(n, m, SubSeq(c, from + 1, from + sendlen))

\* Entry of cjT1SendCmd: the first I-block.
SendCmd(c, max) ==
  /\ pc = "idle"
  /\ cmd' = c /\ maxRspLen' = max
  /\ NextIBlock(ns, c, 0)
  /\ errcntr' = 0 /\ rerrcntr' = 0 /\ wtxcntr' = 0
  /\ lastiicc' = FALSE /\ rsplen' = 0 /\ rsp' = <<>>
  /\ UNCHANGED link
  /\ \/ pc' = "recv" /\ ret' = ret /\ tx' = <<block'>>
     \/ Return("IO_ERROR")

\* cjIoReceiveBlock consumes the waiting time extension.
Receiving == pc = "recv" /\ wtx' = 0

TooManyEarly(n) == n >= ErrLimit
TooMany(n) == n > ErrLimit

\* A receive error or timeout ("other"), or a block with a wrong length or
\* LRC ("edc"): ask for a repetition, at most ErrLimit times in a row.
RecvBad(err) ==
  /\ Receiving
  /\ errcntr' = errcntr + 1
  /\ \/ TooMany(errcntr') /\ Return("IO_ERROR")
     \/ ~TooMany(errcntr') /\ SendBlock(cjT1RBlock(err))
  /\ UNCHANGED <<ns, nr, ifsc, apdu, rerrcntr, wtxcntr, response>>

\* cjIoReceiveBlock found more bytes than the block buffer holds.
RecvTooLong ==
  /\ Receiving
  /\ Return("BAD_PARAM")
  /\ UNCHANGED <<ns, nr, ifsc, apdu, counters, response>>

\* Only the low nibble of an R-block's PCB decides.
AsksForRepetition(b) == b.err # "ok"

\* An R-block.
RecvR(b) ==
  LET rerr == rerrcntr + 1 IN
  /\ Receiving
  /\ b.type = "R"
  /\ errcntr' = 0
  /\ UNCHANGED <<nr, ifsc, cmd, maxRspLen, wtxcntr, response>>
  /\ \/ /\ TooMany(rerr)
        /\ rerrcntr' = rerr
        /\ Return("IO_ERROR")
        /\ UNCHANGED <<ns, sendptr, more, block>>
     \/ /\ ~TooMany(rerr) /\ lastiicc
        /\ rerrcntr' = rerr
        /\ SendBlock(cjT1RBlock("ok"))
        /\ UNCHANGED <<ns, sendptr, more, block>>
     \* resend the I-block, N(S) patched into its PCB but not into its LRC
     \/ /\ ~TooMany(rerr) /\ ~lastiicc /\ AsksForRepetition(b)
        /\ rerrcntr' = rerr
        /\ block' = [block EXCEPT !.n = ns, !.rc = (block.rc <=> block.n = ns)]
        /\ SendBlock(block')
        /\ UNCHANGED <<ns, sendptr, more>>
     \/ /\ ~TooMany(rerr) /\ ~lastiicc /\ ~AsksForRepetition(b) /\ ~more
        /\ rerrcntr' = rerr
        /\ Return("PROTOCOL_ERROR")
        /\ UNCHANGED <<ns, sendptr, more, block>>
     \/ /\ ~TooMany(rerr) /\ ~lastiicc /\ ~AsksForRepetition(b) /\ more
        /\ ns' = Flip(ns)
        /\ NextIBlock(ns', cmd, sendptr)
        /\ \/ tx' = <<block'>> /\ rerrcntr' = 0 /\ UNCHANGED <<pc, ret>>
           \/ Return("IO_ERROR") /\ rerrcntr' = rerr

\* The memcpy of the response: only while everything received fits.
CopiedBeforeCheck(data, len) == IF rsplen <= maxRspLen THEN rsp \o data ELSE rsp
Copied(data, len) == IF len <= maxRspLen THEN rsp \o data ELSE rsp

\* An I-block.  The first one acknowledges the command's last I-block.
RecvI(b) ==
  LET len == rsplen + Len(b.data) IN
  /\ Receiving
  /\ b.type = "I"
  /\ errcntr' = 0 /\ rerrcntr' = 0 /\ lastiicc' = TRUE
  /\ ns' = IF lastiicc THEN ns ELSE Flip(ns)
  /\ UNCHANGED <<ifsc, apdu, wtxcntr>>
  /\ \/ /\ b.n # nr
        /\ SendBlock(cjT1RBlock("other"))
        /\ UNCHANGED <<nr, rsplen, rsp>>
     \/ /\ b.n = nr
        /\ nr' = Flip(nr)
        /\ rsplen' = len
        /\ rsp' = Copied(b.data, len)
        /\ \/ b.more /\ SendBlock(cjT1RBlock("ok"))
           \/ ~b.more /\ len < 2 /\ Return("PROTOCOL_ERROR")
           \/ ~b.more /\ len >= 2 /\ len > maxRspLen /\ Return("BAD_PARAM")
           \/ ~b.more /\ len >= 2 /\ len <= maxRspLen /\ Return("OK")

\* A valid block that is neither R nor I clears both error counters.
RecvS(b, c) ==
  /\ Receiving
  /\ b.type = "S" /\ b.dir = "request" /\ b.cmd = c
  /\ errcntr' = 0 /\ rerrcntr' = 0
  /\ UNCHANGED <<apdu, response>>

\* S(IFS request): answered first, stored only after a successful send.
RecvIfs(b) ==
  /\ RecvS(b, "IFS")
  /\ SendBlock(cjT1SBlock("IFS", "response", b.param))
  /\ ifsc' = IF tx' = <<>> THEN ifsc ELSE b.param
  /\ UNCHANGED <<ns, nr, wtxcntr>>

\* S(ABORT request): answered, one more block is read, the command fails.
RecvAbort(b) ==
  /\ RecvS(b, "ABORT")
  /\ \/ pc' = "abort" /\ tx' = <<cjT1SBlock("ABORT", "response", 0)>> /\ UNCHANGED ret
     \/ Return("IO_ERROR")
  /\ UNCHANGED <<ns, nr, ifsc, wtxcntr>>

RecvAfterAbort ==
  /\ pc = "abort" /\ wtx' = 0
  /\ \E r \in {"UNDEF_ERROR", "TIMEOUT", "PROTOCOL_ERROR", "BAD_PARAM"} : Return(r)
  /\ UNCHANGED <<ns, nr, ifsc, apdu, counters, response>>

\* S(WTX request) for w further BWTs (the form without a value asks for one).
\* Only an overrun by the form without a value moves N(S).
RecvWtx(b) ==
  LET w == IF b.cmd = "WTX0" THEN 1 ELSE b.param IN
  /\ pc = "recv" /\ b.type = "S" /\ b.dir = "request" /\ b.cmd \in {"WTX", "WTX0"}
  /\ errcntr' = 0 /\ rerrcntr' = 0
  /\ wtxcntr' = wtxcntr + w
  /\ \/ /\ wtxcntr' > WtxLimit
        /\ Return("PROTOCOL_ERROR")
        /\ ns' = IF b.cmd = "WTX0" /\ ~lastiicc THEN Flip(ns) ELSE ns
        /\ wtx' = 0
     \/ /\ wtxcntr' <= WtxLimit
        /\ SendBlock(cjT1SBlock(b.cmd, "response", b.param))
        /\ wtx' = IF tx' = <<>> THEN 0 ELSE w
        /\ ns' = ns
  /\ UNCHANGED <<nr, ifsc, apdu, response>>

\* S(RESYNCH request): both sequence numbers restart in the middle of the call.
RecvResynch(b) ==
  /\ RecvS(b, "RESYNCH")
  /\ SendBlock(cjT1SBlock("RESYNCH", "response", 0))
  /\ ns' = IF tx' = <<>> THEN ns ELSE 0
  /\ nr' = IF tx' = <<>> THEN nr ELSE 0
  /\ UNCHANGED <<ifsc, wtxcntr>>

\* S(KEY pressed) and S(CARD inserted or removed): just acknowledged.
RecvKeyOrCard(b) ==
  /\ \E c \in {"KEY", "CARD"} : RecvS(b, c) /\ SendBlock(cjT1SBlock(c, "response", 0))
  /\ UNCHANGED <<ns, nr, ifsc, wtxcntr>>

\* S-blocks to throw away, responses nobody asked for among them: the loop
\* just receives again, its error counters cleared.
RecvDropped(b) ==
  /\ Receiving
  /\ b.type = "S" /\ (b.dir = "response" \/ b.cmd = "DROPPED")
  /\ errcntr' = 0 /\ rerrcntr' = 0
  /\ tx' = <<>>
  /\ UNCHANGED <<ns, nr, ifsc, apdu, response, wtxcntr, pc, ret>>

\* One pass through the loop for a block whose length and LRC are right.
RecvBlock(b) ==
  \/ RecvR(b)
  \/ RecvI(b)
  \/ RecvIfs(b)
  \/ RecvAbort(b)
  \/ RecvWtx(b)
  \/ RecvResynch(b)
  \/ RecvKeyOrCard(b)
  \/ RecvDropped(b)

Next ==
  \/ \E c \in Commands, max \in MaxRspLens : SendCmd(c, max)
  \/ RecvBad("other")
  \/ RecvBad("edc")
  \/ RecvTooLong
  \/ RecvAfterAbort
  \/ \E b \in RxBlocks :
       /\ b.type = "I" => rsplen + Len(b.data) <= RspBound
       /\ RecvBlock(b)

Spec == Init /\ [][Next]_vars

-----------------------------------------------------------------------------
\* No block of the reader is written beyond the application's response
\* buffer, a response that fits is there in full, and one that does not fit is
\* never reported as a success (the memcpy guard of cjT1SendCmd).
ResponseBuffer ==
  /\ Len(rsp) <= maxRspLen
  /\ rsplen <= maxRspLen => Len(rsp) = rsplen
  /\ rsplen > maxRspLen => ret # "OK" \/ pc # "idle"

\* The I-block that a retransmission sends is always the slice of the command
\* that ends at sendptr, and the chaining bit is set exactly while bytes are
\* left, whatever S(IFS) requests changed ifsc to in between.
SendWindow ==
  pc # "idle" =>
    /\ sendptr <= Len(cmd)
    /\ block.data = SubSeq(cmd, sendptr - Len(block.data) + 1, sendptr)
    /\ block.more = more
    /\ more <=> sendptr < Len(cmd)
=============================================================================
