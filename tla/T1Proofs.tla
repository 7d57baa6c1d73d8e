------------------------------ MODULE T1Proofs ------------------------------
(***************************************************************************)
(* Proofs about the e-com T=1 driver of module T1, for every command,      *)
(* buffer size and reader.                                                 *)
(***************************************************************************)
EXTENDS T1Link, SequenceTheorems, TLAPS

\* The inductive invariant: each part needs the types, and nothing else.
IInv == TypeOK /\ ResponseBuffer /\ SendWindow

USE T1Assumption

\* The I-block cut from the command at `from` keeps the send window: it is a
\* slice that ends at the new sendptr, and no byte is skipped or sent twice.
LEMMA NextIBlockWindow ==
  ASSUME TypeOK, NEW n \in Bit, NEW c \in Seq(Byte), NEW from \in Nat, from <= Len(c),
         NextIBlock(n, c, from)
  PROVE  /\ more' \in BOOLEAN /\ sendptr' \in Nat /\ block' \in IBlocks
         /\ sendptr' <= Len(c)
         /\ block'.data = SubSeq(c, sendptr' - Len(block'.data) + 1, sendptr')
         /\ block'.more = more'
         /\ more' <=> sendptr' < Len(c)
<1> DEFINE sendlen == MinOf(Len(c) - from, ifsc)
           piece == SubSeq(c, from + 1, from + sendlen)
<1>1. sendlen \in Nat /\ from + sendlen <= Len(c) /\ ifsc \in Nat /\ Len(c) \in Nat
  BY DEF MinOf, TypeOK
<1>2. piece \in Seq(Byte) /\ Len(piece) = sendlen
  BY <1>1
<1> HIDE DEF sendlen, piece
<1>3. /\ more' = (sendlen # Len(c) - from)
      /\ sendptr' = from + sendlen
      /\ block' = [type |-> "I", n |-> n, more |-> more', data |-> piece, rc |-> TRUE]
  BY DEF NextIBlock, cjT1IBlock, sendlen, piece
<1>4. block' \in IBlocks /\ more' \in BOOLEAN /\ sendptr' \in Nat
  BY <1>1, <1>2, <1>3 DEF IBlocks
<1>5. block'.data = piece /\ block'.more = more'
  BY <1>3
<1>6. sendptr' - Len(piece) + 1 = from + 1
  BY <1>1, <1>2, <1>3
<1>7. block'.data = SubSeq(c, sendptr' - Len(block'.data) + 1, sendptr')
  BY <1>3, <1>5, <1>6 DEF piece
<1>8. sendptr' <= Len(c) /\ (sendptr' < Len(c) <=> sendlen # Len(c) - from)
  BY <1>1, <1>3
<1>9. more' <=> sendptr' < Len(c)
  BY <1>3, <1>8
<1>10. QED
  BY <1>4, <1>5, <1>7, <1>8, <1>9

\* Whatever a pass through the loop sends, it leaves pc, ret and tx typed.
LEMMA SendBlockType ==
  ASSUME TypeOK, NEW b \in Blocks, SendBlock(b)
  PROVE  /\ tx' \in Seq(Blocks)
         /\ ret' \in {"OK", "UNDEF_ERROR", "BAD_PARAM", "IO_ERROR", "PROTOCOL_ERROR",
                      "TIMEOUT", "NONE"}
         /\ pc' = "idle" \/ pc' = pc
         /\ pc # "idle" /\ pc' = "idle" => ret' = "IO_ERROR"
<1>1. <<b>> \in Seq(Blocks) /\ <<>> \in Seq(Blocks)
  OBVIOUS
<1>2. CASE tx' = <<b>> /\ UNCHANGED <<pc, ret>>
  BY <1>1, <1>2 DEF TypeOK
<1>3. CASE Return("IO_ERROR")
  BY <1>1, <1>3 DEF Return
<1>4. QED
  BY <1>2, <1>3 DEF SendBlock

LEMMA RBlockType ==
  ASSUME TypeOK, NEW err \in {"ok", "edc", "other"}
  PROVE  cjT1RBlock(err) \in Blocks
BY DEF cjT1RBlock, Blocks, RBlocks, TypeOK, Bit

LEMMA SBlockType ==
  ASSUME NEW c \in {"RESYNCH", "IFS", "ABORT", "WTX", "WTX0", "KEY", "CARD"}, NEW p \in Nat
  PROVE  cjT1SBlock(c, "response", p) \in Blocks
BY DEF cjT1SBlock, Blocks, SBlocks

\* The type field of a block tells which of the three records it is.
LEMMA BlockKinds ==
  ASSUME NEW b \in Blocks
  PROVE  /\ b.type = "I" => b \in IBlocks
         /\ b.type = "R" => b \in RBlocks
         /\ b.type = "S" => b \in SBlocks
BY DEF Blocks, IBlocks, RBlocks, SBlocks

LEMMA FlipType == \A b \in Bit : Flip(b) \in Bit
BY DEF Flip, Bit

Result == {"OK", "UNDEF_ERROR", "BAD_PARAM", "IO_ERROR", "PROTOCOL_ERROR", "TIMEOUT", "NONE"}

\* A return gives the loop's outputs their types.
LEMMA ReturnType ==
  ASSUME NEW r \in Result, Return(r)
  PROVE  pc' = "idle" /\ ret' = r /\ tx' \in Seq(Blocks)
BY DEF Return

\* Every pass through the loop keeps the variables' types.
LEMMA TypeStep == IInv /\ [Next]_vars => TypeOK'
<1> SUFFICES ASSUME TypeOK, SendWindow, [Next]_vars PROVE TypeOK'
  BY DEF IInv
<1> USE FlipType
<1>1. ASSUME NEW c \in Commands, NEW max \in MaxRspLens, SendCmd(c, max)
      PROVE  TypeOK'
  <2>1. c \in Seq(Byte) /\ max \in Nat /\ 0 \in Nat /\ 0 <= Len(c) /\ ns \in Bit
    BY DEF TypeOK
  <2>2. more' \in BOOLEAN /\ sendptr' \in Nat /\ block' \in IBlocks
    BY <1>1, <2>1, NextIBlockWindow DEF SendCmd
  <2>3. <<block'>> \in Seq(Blocks) /\ <<>> \in Seq(Blocks) /\ <<>> \in Seq(Byte)
    BY <2>2 DEF Blocks
  <2>4. tx' \in Seq(Blocks) /\ pc' \in {"idle", "recv"} /\ ret' \in {ret, "IO_ERROR"}
    BY <1>1, <2>3 DEF SendCmd, Return
  <2>5. QED
    BY <1>1, <2>1, <2>2, <2>3, <2>4 DEF SendCmd, TypeOK, link
<1>2. ASSUME NEW err \in {"edc", "other"}, RecvBad(err)
      PROVE  TypeOK'
  <2>1. CASE Return("IO_ERROR")
    BY <1>2, <2>1, ReturnType DEF RecvBad, Receiving, TypeOK, apdu, response, Result
  <2>2. CASE SendBlock(cjT1RBlock(err))
    <3>1. cjT1RBlock(err) \in Blocks
      BY RBlockType
    <3>2. QED
      BY <1>2, <2>2, <3>1, SendBlockType DEF RecvBad, Receiving, TypeOK, apdu, response
  <2>3. QED
    BY <1>2, <2>1, <2>2 DEF RecvBad
<1>3. CASE RecvTooLong
  BY <1>3, ReturnType DEF RecvTooLong, Receiving, TypeOK, apdu, counters, response, Result
<1>4. CASE RecvAfterAbort
  <2>1. PICK r \in {"UNDEF_ERROR", "TIMEOUT", "PROTOCOL_ERROR", "BAD_PARAM"} : Return(r)
    BY <1>4 DEF RecvAfterAbort
  <2>2. QED
    BY <1>4, <2>1, ReturnType DEF RecvAfterAbort, TypeOK, apdu, counters, response, Result
<1>5. ASSUME NEW b \in Blocks, RecvR(b)
      PROVE  TypeOK'
  <2>1. /\ nr' = nr /\ ifsc' = ifsc /\ cmd' = cmd /\ maxRspLen' = maxRspLen
        /\ wtxcntr' = wtxcntr /\ lastiicc' = lastiicc /\ rsplen' = rsplen /\ rsp' = rsp
        /\ errcntr' = 0 /\ wtx' = 0 /\ rerrcntr + 1 \in Nat /\ pc = "recv"
    BY <1>5, SMTT(30) DEF RecvR, Receiving, response, TypeOK
  <2>2. CASE Return("IO_ERROR") /\ rerrcntr' = rerrcntr + 1 /\ UNCHANGED <<ns, sendptr, more, block>>
    BY <2>1, <2>2, ReturnType DEF TypeOK, Result
  <2>3. CASE SendBlock(cjT1RBlock("ok")) /\ rerrcntr' = rerrcntr + 1
             /\ UNCHANGED <<ns, sendptr, more, block>>
    BY <2>1, <2>3, SendBlockType, RBlockType DEF TypeOK
  <2>4. CASE /\ rerrcntr' = rerrcntr + 1
             /\ block' = [block EXCEPT !.n = ns, !.rc = (block.rc <=> block.n = ns)]
             /\ SendBlock(block') /\ UNCHANGED <<ns, sendptr, more>>
    <3>1. block' \in IBlocks
      <4>1. block \in IBlocks /\ ns \in Bit /\ (block.rc <=> block.n = ns) \in BOOLEAN
        BY DEF TypeOK
      <4>2. QED
        BY <2>4, <4>1 DEF IBlocks
    <3>2. block' \in Blocks
      BY <3>1 DEF Blocks
    <3>3. QED
      BY <2>1, <2>4, <3>1, <3>2, SendBlockType DEF TypeOK
  <2>5. CASE rerrcntr' = rerrcntr + 1 /\ Return("PROTOCOL_ERROR")
             /\ UNCHANGED <<ns, sendptr, more, block>>
    BY <2>1, <2>5, ReturnType DEF TypeOK, Result
  <2>6. CASE /\ ns' = Flip(ns) /\ NextIBlock(ns', cmd, sendptr)
             /\ \/ tx' = <<block'>> /\ rerrcntr' = 0 /\ UNCHANGED <<pc, ret>>
                \/ Return("IO_ERROR") /\ rerrcntr' = rerrcntr + 1
    <3>1. ns' \in Bit /\ cmd \in Seq(Byte) /\ sendptr \in Nat /\ sendptr <= Len(cmd)
      BY <2>1, <2>6 DEF TypeOK, SendWindow
    <3>2. more' \in BOOLEAN /\ sendptr' \in Nat /\ block' \in IBlocks
      BY <2>6, <3>1, NextIBlockWindow
    <3>3. <<block'>> \in Seq(Blocks) /\ <<>> \in Seq(Blocks)
      BY <3>2 DEF Blocks
    <3>4. /\ tx' \in Seq(Blocks) /\ rerrcntr' \in Nat
          /\ pc' \in {"idle", "recv"} /\ ret' \in {ret, "IO_ERROR"}
      <4>1. CASE tx' = <<block'>> /\ rerrcntr' = 0 /\ UNCHANGED <<pc, ret>>
        BY <2>1, <3>3, <4>1
      <4>2. CASE Return("IO_ERROR") /\ rerrcntr' = rerrcntr + 1
        BY <2>1, <3>3, <4>2 DEF Return
      <4>3. QED
        BY <2>6, <4>1, <4>2
    <3>5. QED
      BY <2>1, <3>1, <3>2, <3>4 DEF TypeOK
  <2>7. QED
    BY <1>5, <2>2, <2>3, <2>4, <2>5, <2>6 DEF RecvR
<1>6. ASSUME NEW b \in Blocks, RecvI(b)
      PROVE  TypeOK'
  <2>1. b \in IBlocks /\ b.data \in Seq(Byte) /\ b.more \in BOOLEAN
    BY <1>6, BlockKinds DEF RecvI, IBlocks
  <2>2. /\ ifsc' = ifsc /\ wtxcntr' = wtxcntr /\ UNCHANGED apdu
        /\ errcntr' = 0 /\ rerrcntr' = 0 /\ lastiicc' = TRUE /\ wtx' = 0
        /\ ns' \in Bit /\ pc = "recv"
    BY <1>6 DEF RecvI, Receiving, TypeOK
  <2>3. CASE SendBlock(cjT1RBlock("other")) /\ UNCHANGED <<nr, rsplen, rsp>>
    BY <2>2, <2>3, SendBlockType, RBlockType DEF TypeOK, apdu
  <2>4. CASE /\ nr' = Flip(nr) /\ rsplen' = rsplen + Len(b.data)
             /\ rsp' = IF rsplen + Len(b.data) <= maxRspLen THEN rsp \o b.data ELSE rsp
             /\ \/ SendBlock(cjT1RBlock("ok"))
                \/ Return("PROTOCOL_ERROR") \/ Return("BAD_PARAM") \/ Return("OK")
    <3>1. nr' \in Bit /\ rsplen' \in Nat /\ rsp' \in Seq(Byte)
      BY <2>1, <2>4 DEF TypeOK
    <3>2. tx' \in Seq(Blocks) /\ ret' \in Result /\ pc' \in {"idle", "recv"}
      BY <2>2, <2>4, SendBlockType, RBlockType, ReturnType DEF Result
    <3>3. QED
      BY <2>2, <3>1, <3>2 DEF TypeOK, apdu, Result
  <2>5. QED
    BY <1>6, <2>3, <2>4 DEF RecvI, Copied
<1>7. ASSUME NEW b \in Blocks, RecvIfs(b) \/ RecvResynch(b) \/ RecvKeyOrCard(b)
      PROVE  TypeOK'
  <2>1. b \in SBlocks /\ b.param \in Nat
    BY <1>7, BlockKinds DEF RecvIfs, RecvResynch, RecvKeyOrCard, RecvS, SBlocks
  <2>2. PICK c \in {"IFS", "RESYNCH", "KEY", "CARD"}, p \in Nat :
          RecvS(b, c) /\ SendBlock(cjT1SBlock(c, "response", p))
    BY <1>7, <2>1 DEF RecvIfs, RecvResynch, RecvKeyOrCard
  <2>3. /\ tx' \in Seq(Blocks) /\ ret' \in Result /\ pc' \in {"idle", "recv"}
        /\ wtx' = 0 /\ errcntr' = 0 /\ rerrcntr' = 0 /\ UNCHANGED <<apdu, response>>
    <3>1. cjT1SBlock(c, "response", p) \in Blocks
      BY SBlockType
    <3>2. QED
      BY <2>2, <3>1, SendBlockType DEF RecvS, Receiving, Result
  <2>4. ns' \in Bit /\ nr' \in Bit /\ ifsc' \in Nat /\ wtxcntr' = wtxcntr
    BY <1>7, <2>1 DEF RecvIfs, RecvResynch, RecvKeyOrCard, TypeOK, Bit
  <2>5. QED
    BY <2>3, <2>4 DEF TypeOK, apdu, response, Result
<1>8. ASSUME NEW b \in Blocks, RecvAbort(b)
      PROVE  TypeOK'
  <2>1. <<cjT1SBlock("ABORT", "response", 0)>> \in Seq(Blocks) /\ <<>> \in Seq(Blocks)
    BY SBlockType
  <2>2. QED
    BY <1>8, <2>1 DEF RecvAbort, RecvS, Receiving, Return, TypeOK, apdu, response
<1>9. ASSUME NEW b \in Blocks, RecvWtx(b)
      PROVE  TypeOK'
  <2>1. b \in SBlocks /\ b.param \in Nat /\ b.cmd \in {"WTX", "WTX0"}
    BY <1>9, BlockKinds DEF RecvWtx, SBlocks
  <2>2. /\ wtxcntr' \in Nat /\ wtx' \in Nat /\ ns' \in Bit
        /\ errcntr' = 0 /\ rerrcntr' = 0 /\ UNCHANGED <<nr, ifsc, apdu, response>>
    BY <1>9, <2>1 DEF RecvWtx, TypeOK
  <2>3. tx' \in Seq(Blocks) /\ ret' \in Result /\ pc' \in {"idle", "recv"}
    <3>1. cjT1SBlock(b.cmd, "response", b.param) \in Blocks
      BY <2>1, SBlockType
    <3>2. QED
      BY <1>9, <3>1, SendBlockType, ReturnType DEF RecvWtx, Result
  <2>4. QED
    BY <2>2, <2>3 DEF TypeOK, apdu, response, Result
<1>10. ASSUME NEW b \in Blocks, RecvDropped(b)
       PROVE  TypeOK'
  BY <1>10 DEF RecvDropped, Receiving, TypeOK, apdu, response
<1>11. CASE UNCHANGED vars
  BY <1>11 DEF vars, link, apdu, counters, response, TypeOK
<1>12. QED
  BY <1>1, <1>2, <1>3, <1>4, <1>5, <1>6, <1>7, <1>8, <1>9, <1>10, <1>11 DEF Next, RecvBlock

\* A step that keeps the command, its I-block and the response as they are,
\* and does not return success, keeps the buffer and the send window.
LEMMA QuietStep ==
  ASSUME ResponseBuffer, SendWindow, UNCHANGED <<apdu, rsplen, rsp>>,
         pc # "idle", pc' = "idle" => ret' # "OK"
  PROVE  ResponseBuffer' /\ SendWindow'
BY DEF ResponseBuffer, SendWindow, apdu

\* Every pass through the loop keeps the response buffer and the send window.
LEMMA WindowStep == IInv /\ [Next]_vars => ResponseBuffer' /\ SendWindow'
<1> SUFFICES ASSUME TypeOK, ResponseBuffer, SendWindow, [Next]_vars
             PROVE  ResponseBuffer' /\ SendWindow'
  BY DEF IInv
<1>1. ASSUME NEW c \in Commands, NEW max \in MaxRspLens, SendCmd(c, max)
      PROVE  ResponseBuffer' /\ SendWindow'
  <2>1. c \in Seq(Byte) /\ max \in Nat /\ 0 \in Nat /\ 0 <= Len(c) /\ ns \in Bit
    BY DEF TypeOK
  <2>2. /\ sendptr' <= Len(c)
        /\ block'.data = SubSeq(c, sendptr' - Len(block'.data) + 1, sendptr')
        /\ block'.more = more'
        /\ more' <=> sendptr' < Len(c)
    BY <1>1, <2>1, NextIBlockWindow DEF SendCmd
  <2>3. cmd' = c /\ maxRspLen' = max /\ rsplen' = 0 /\ rsp' = <<>>
    BY <1>1 DEF SendCmd
  <2>4. QED
    BY <2>1, <2>2, <2>3 DEF ResponseBuffer, SendWindow
<1>2. ASSUME NEW b \in Blocks, RecvI(b)
      PROVE  ResponseBuffer' /\ SendWindow'
  <2> DEFINE len == rsplen + Len(b.data)
  <2>1. /\ b.data \in Seq(Byte) /\ len \in Nat /\ len >= rsplen
        /\ rsp \in Seq(Byte) /\ maxRspLen \in Nat /\ rsplen \in Nat
    BY <1>2, BlockKinds DEF RecvI, IBlocks, TypeOK
  <2>2. UNCHANGED apdu /\ pc = "recv"
    BY <1>2 DEF RecvI, Receiving
  <2>3. SendWindow'
    BY <2>2 DEF SendWindow, apdu
  <2>4. CASE SendBlock(cjT1RBlock("other")) /\ UNCHANGED <<rsplen, rsp>>
    BY <2>2, <2>4, QuietStep, SendBlockType, RBlockType
  <2>5. CASE /\ rsplen' = len
             /\ rsp' = IF len <= maxRspLen THEN rsp \o b.data ELSE rsp
             /\ \/ SendBlock(cjT1RBlock("ok"))
                \/ Return("PROTOCOL_ERROR") \/ Return("BAD_PARAM")
                \/ len <= maxRspLen /\ Return("OK")
    <3>1. maxRspLen' = maxRspLen
      BY <2>2 DEF apdu
    <3>2. len > maxRspLen => ret' # "OK" \/ pc' # "idle"
      BY <2>1, <2>2, <2>5, SendBlockType, RBlockType DEF Return
    <3>3. CASE len <= maxRspLen
      <4>1. Len(rsp) = rsplen
        BY <2>1, <3>3 DEF ResponseBuffer
      <4>2. rsp' = rsp \o b.data /\ Len(rsp \o b.data) = len
        BY <2>1, <2>5, <3>3, <4>1
      <4>3. QED
        BY <2>1, <2>3, <2>5, <3>1, <3>3, <4>2 DEF ResponseBuffer
    <3>4. CASE len > maxRspLen
      <4> HIDE DEF len
      <4>1. rsp' = rsp /\ rsplen' = len /\ maxRspLen' = maxRspLen
        BY <2>1, <2>5, <3>1, <3>4
      <4>2. Len(rsp) <= maxRspLen
        BY DEF ResponseBuffer
      <4>3. QED
        BY <2>1, <3>2, <3>4, <4>1, <4>2, <2>3 DEF ResponseBuffer
    <3>5. QED
      BY <2>1, <3>3, <3>4
  <2>6. QED
    BY <1>2, <2>4, <2>5 DEF RecvI, Copied
<1>3. ASSUME NEW b \in Blocks, RecvR(b)
      PROVE  ResponseBuffer' /\ SendWindow'
  <2>1. /\ cmd' = cmd /\ maxRspLen' = maxRspLen /\ rsplen' = rsplen /\ rsp' = rsp
        /\ pc = "recv"
    BY <1>3 DEF RecvR, Receiving, response
  <2>2. pc' = "idle" => ret' # "OK"
    <3>1. ASSUME NEW x, SendBlock(x) PROVE pc' = "idle" => ret' # "OK"
      BY <2>1, <3>1 DEF SendBlock, Return
    <3>2. QED
      BY <1>3, <2>1, <3>1 DEF RecvR, Return
  <2>3. ResponseBuffer'
    BY <2>1, <2>2 DEF ResponseBuffer
  <2>4. SendWindow'
    <3>1. CASE UNCHANGED <<sendptr, more, block>>
      BY <2>1, <3>1 DEF SendWindow
    <3>2. CASE /\ block' = [block EXCEPT !.n = ns, !.rc = (block.rc <=> block.n = ns)]
               /\ UNCHANGED <<sendptr, more>>
      <4>1. block'.data = block.data /\ block'.more = block.more
        BY <3>2 DEF TypeOK, IBlocks
      <4>2. QED
        BY <2>1, <3>2, <4>1 DEF SendWindow
    <3>3. CASE ns' = Flip(ns) /\ NextIBlock(ns', cmd, sendptr)
      <4>1. ns' \in Bit /\ cmd \in Seq(Byte) /\ sendptr \in Nat /\ sendptr <= Len(cmd)
        BY <2>1, <3>3, FlipType DEF TypeOK, SendWindow
      <4>2. QED
        BY <2>1, <3>3, <4>1, NextIBlockWindow DEF SendWindow
    <3>4. QED
      BY <1>3, <3>1, <3>2, <3>3 DEF RecvR
  <2>5. QED
    BY <2>3, <2>4
\* All other passes through the loop are quiet.
<1>4. ASSUME NEW err \in {"edc", "other"}, RecvBad(err)
      PROVE  ResponseBuffer' /\ SendWindow'
  BY <1>4, QuietStep DEF RecvBad, Receiving, response, SendBlock, Return
<1>5. CASE RecvTooLong
  BY <1>5, QuietStep DEF RecvTooLong, Receiving, response, Return
<1>6. CASE RecvAfterAbort
  BY <1>6, QuietStep DEF RecvAfterAbort, response, Return
<1>7. ASSUME NEW b \in Blocks,
             RecvIfs(b) \/ RecvResynch(b) \/ RecvKeyOrCard(b) \/ RecvAbort(b)
      PROVE  ResponseBuffer' /\ SendWindow'
  BY <1>7, QuietStep DEF RecvIfs, RecvResynch, RecvKeyOrCard, RecvAbort, RecvS,
     Receiving, response, SendBlock, Return
<1>8. ASSUME NEW b \in Blocks, RecvWtx(b) \/ RecvDropped(b)
      PROVE  ResponseBuffer' /\ SendWindow'
  BY <1>8, QuietStep DEF RecvWtx, RecvDropped, Receiving, response, SendBlock, Return
<1>9. CASE UNCHANGED vars
  BY <1>9 DEF vars, apdu, response, ResponseBuffer, SendWindow
<1>10. QED
  BY <1>1, <1>2, <1>3, <1>4, <1>5, <1>6, <1>7, <1>8, <1>9 DEF Next, RecvBlock

\* The invariant holds in every behaviour of the driver, whatever the reader
\* sends: no S(IFS), R-block, timeout or repetition leads out of it.
THEOREM T1Invariant == Spec => []IInv
<1>1. Init => IInv
  <2>1. SUFFICES ASSUME Init PROVE IInv
    OBVIOUS
  <2>2. cjT1IBlock(0, FALSE, <<>>) \in IBlocks /\ <<>> \in Seq(Blocks) /\ <<>> \in Seq(Byte)
    BY DEF cjT1IBlock, IBlocks, Bit
  <2>3. TypeOK
    BY <2>1, <2>2 DEF Init, TypeOK, Bit
  <2>4. QED
    BY <2>1, <2>3 DEF Init, IInv, ResponseBuffer, SendWindow
<1>2. IInv /\ [Next]_vars => IInv'
  BY TypeStep, WindowStep DEF IInv
<1>3. QED
  BY <1>1, <1>2, PTL DEF Spec

\* The driver's variables keep their types.
THEOREM T1TypeCorrect == Spec => []TypeOK
BY T1Invariant, PTL DEF IInv

\* cjT1SendCmd never writes beyond the application's buffer, leaves no gap in
\* it, and never reports success for a response that did not fit.
THEOREM T1ResponseBuffer == Spec => []ResponseBuffer
BY T1Invariant, PTL DEF IInv

\* The I-block cjT1SendCmd keeps for repetition is always the slice of the
\* command before sendptr, for every sequence of S(IFS) requests.
THEOREM T1SendWindow == Spec => []SendWindow
BY T1Invariant, PTL DEF IInv
-----------------------------------------------------------------------------
(***************************************************************************)
(* The exchange with the reader (module T1Link).                           *)
(*                                                                         *)
(* What holds whatever happens on the line: the reader takes the bytes of  *)
(* the commands in their order (OrderOK).                                  *)
(***************************************************************************)
Units == Int \X Nat
LinkI == [type : {"I"}, n : Bit, more : BOOLEAN, data : Seq(Units) \ {<<>>}, rc : {TRUE}]
LinkBlocks == LinkI \cup RBlocks \cup SBlocks

Resynch == cjT1SBlock("RESYNCH", "request", 0)
Resynched == cjT1SBlock("RESYNCH", "response", 0)
Sessions == {"closed", "opening", "open", "eject", "leaked"}

LinkTypes ==
  /\ ns \in Bit /\ nr \in Bit /\ ifsc \in Nat \ {0}
  /\ pc \in {"idle", "recv", "abort"} /\ ret \in Result
  /\ session \in Sessions /\ device \in {"kernel", "libusb"}
  /\ toReader \in Seq(LinkBlocks \cup {BadBlock}) /\ toHost \in Seq(LinkBlocks \cup {BadBlock})
  /\ rns \in Bit /\ rnr \in Bit /\ rbuf \in Seq(Units) /\ rout \in Seq(Units)
  /\ rlast \in LinkBlocks \cup {BadBlock} /\ rkeep \in LinkBlocks \cup {BadBlock}
  /\ rnext = <<>> \/ (rnext = <<rnext[1]>> /\ rnext[1] \in LinkI \cup RBlocks)
  /\ calls \in Seq(Seq(Units)) /\ executed \in Seq([cmd : Seq(Units), rsp : Seq(Units)])
  /\ damaged \in Nat /\ missing \in 0 .. MaxMissing /\ requests \in Nat

\* In a call: the I-block is the slice of the command before sendptr.
Call == Len(calls)
Numbered(s, k, from) == \A i \in 1 .. Len(s) : s[i] = <<k, from + i>>
Pos == sendptr - Len(block.data)

HostOK ==
  /\ session = "open" /\ pc = "idle" => ret \in {"OK", "BAD_PARAM", "NONE"}
  /\ pc # "idle" =>
       /\ session \in {"open", "eject"} /\ calls # <<>>
       /\ maxRspLen \in Nat /\ rsplen \in Nat /\ rsp \in Seq(Units)
       /\ errcntr \in Nat /\ rerrcntr \in Nat /\ wtxcntr \in Nat
       /\ more \in BOOLEAN /\ lastiicc \in BOOLEAN
       /\ cmd = calls[Call] /\ Numbered(cmd, Call, 0)
       /\ sendptr \in Nat /\ sendptr <= Len(cmd)
       /\ block \in LinkI /\ Pos \in Nat /\ Numbered(block.data, Call, Pos)
       /\ block.more = more /\ (more <=> sendptr < Len(cmd))
       /\ pc = "recv" /\ ~lastiicc => block.n = ns

\* A request waits for its answer exactly while a block is held back, and
\* after an I-block that is not the last there are bytes left to send.
Kept == IF rnext = <<>> THEN rkeep ELSE rnext[1]
ReaderOK ==
  /\ Kept.type = "I" /\ Kept.more => Len(Kept.data) < Len(rout)
  /\ rkeep.type = "S" <=> rnext # <<>>
  /\ rkeep.type = "S" => rkeep \in Requests
  /\ rlast.type = "S" => rlast = rkeep
  /\ \A i \in 1 .. Len(toHost) : toHost[i].type = "S" => toHost[i] \in Requests \cup {Resynched}

-----------------------------------------------------------------------------
\* The bytes in their order.  An I-block stands for its last byte.
Last(s) == s[Len(s)]
End(b) == Last(b.data)
Before(u, v) == u[1] < v[1] \/ (u[1] = v[1] /\ u[2] < v[2])
NotAfter(u, v) == u = v \/ Before(u, v)

IsI(b) == b.type = "I"
IsResynch(b) == b.type = "S" /\ b.cmd = "RESYNCH"

\* What the reader has still to receive: the line, and the I-block of the
\* driver as long as it may be sent again.
Resendable == pc = "recv" /\ ~lastiicc
Queue == IF Resendable THEN Append(toReader, block) ELSE toReader

\* The I-blocks of queue q come in the order of the commands, of which there
\* are k; one that comes again has the same number, and S(RESYNCH) is never
\* between the two.
InOrder(q, k) ==
  /\ \A i \in 1 .. Len(q) : IsI(q[i]) => End(q[i])[1] <= k
  /\ \A i, j \in 1 .. Len(q) : i < j /\ IsI(q[i]) /\ IsI(q[j]) =>
       NotAfter(End(q[i]), End(q[j])) /\ (End(q[i]) = End(q[j]) => q[i].n = q[j].n)
  /\ \A i, l, j \in 1 .. Len(q) : i < l /\ l < j /\ IsI(q[i]) /\ IsResynch(q[l]) /\ IsI(q[j]) =>
       Before(End(q[i]), End(q[j]))

\* The bytes that a reader with N(R) = r may have taken last, if q is still to
\* come: nothing older comes, and nothing that it would take again.
Takeable(q, k, r) ==
  {u \in Units :
     /\ u[1] <= k
     /\ \A i \in 1 .. Len(q) : IsI(q[i]) =>
          NotAfter(u, End(q[i])) /\ (q[i].n = r => Before(u, End(q[i])))
     /\ \A l, i \in 1 .. Len(q) : l < i /\ IsResynch(q[l]) /\ IsI(q[i]) => Before(u, End(q[i]))}
Seen == Takeable(Queue, Call, rnr)

TakenOK ==
  /\ rbuf # <<>> => Last(rbuf) \in Seen
  /\ \A i \in 1 .. Len(executed) :
       LET c == executed[i].cmd
       IN  c # <<>> /\ Last(c) \in Seen /\ (rbuf # <<>> => Before(Last(c), Last(rbuf)))
  /\ \A i, j \in 1 .. Len(executed) : i < j => Before(Last(executed[i].cmd), Last(executed[j].cmd))

OrderOK == InOrder(Queue, Call) /\ TakenOK

-----------------------------------------------------------------------------
\* What holds as long as no block is missing: one block is under way.  The
\* driver's R_OK has no number (the "bug workaround" of cjT1RBlock), so that
\* the reader cannot tell which I-block it acknowledges; a response of more
\* than two blocks is therefore left out.
ShortResponses == \A n \in RspLens : n <= 2 * ReaderIfs

Reports(b) == b.type = "R" /\ b.err # "ok"
RAsks(b) == Reports(b) /\ b.n = nr
IsError(b) == b = ReaderError

OpeningLine ==
  \/ /\ toHost = <<>>
     /\ \E d \in {Detach, BadBlock}, r \in {Resynch, BadBlock} : toReader = <<d, r>>
  \/ /\ \E r \in {Resynch, BadBlock} : toReader = <<r>>
     /\ toHost # <<>> => Head(toHost) # Resynched
  \/ /\ toReader = <<>> /\ toHost # <<>>
     /\ Head(toHost) = Resynched =>
          /\ toHost = <<Resynched>> /\ rns = 0 /\ rnr = 0 /\ ns = 0 /\ nr = 0
          /\ rbuf = <<>> /\ rkeep = BadBlock /\ rlast = BadBlock

\* In a call one block is on its way back ...
ComesBack == toReader = <<>> /\ rlast # BadBlock /\ toHost \in {<<BadBlock>>, <<rlast>>}

\* ... or out.
GoesOut ==
  /\ toHost = <<>> /\ toReader = <<toReader[1]>>
  /\ toReader[1] \in {BadBlock, block} \cup RBlocks \cup SBlocks
  /\ toReader[1].type = "S" => /\ rlast.type = "S" /\ toReader[1] # Detach
                               /\ toReader[1].cmd # "RESYNCH"

LineOK ==
  /\ session = "opening" => ns = 0 /\ nr = 0 /\ OpeningLine
  /\ session = "closed" /\ ~Kernel => toReader = <<>> /\ toHost = <<>>
  /\ session \in {"open", "eject"} =>
       IF pc = "idle" THEN toReader = <<>> /\ toHost = <<>> ELSE ComesBack \/ GoesOut

\* The phases of a call in an open session.
NothingKept ==
  /\ rnext = <<>> /\ rlast.type # "S"
  /\ rkeep.type = "I" => ~rkeep.more /\ rkeep.n # nr

Between == ns = rnr /\ nr = rns /\ rbuf = <<>> /\ NothingKept

\* The reader waits for the I-block.
Sending ==
  /\ ~lastiicc /\ ns = rnr /\ nr = rns /\ NothingKept /\ rsplen = 0 /\ rsp = <<>>
  /\ Len(rbuf) = Pos /\ Numbered(rbuf, Call, 0)
SendingLine ==
  \/ toReader # <<>> /\ toReader[1] \in {BadBlock, block}
  \/ toReader # <<>> /\ RAsks(toReader[1]) /\ IsError(rlast)
  \/ toHost # <<>> /\ IsError(rlast)

\* The reader has sent b, or holds it back.
Sent(b) ==
  \/ rnext = <<>> /\ rkeep = b /\ (rlast = b \/ IsError(rlast))
  \/ rnext = <<b>> /\ rlast = rkeep

\* The reader has it, and wants the next one.
Wants(n) == [type |-> "R", n |-> n, err |-> "ok"]
Taken ==
  /\ ~lastiicc /\ more /\ ns # rnr /\ nr = rns /\ rsplen = 0 /\ rsp = <<>>
  /\ Len(rbuf) = sendptr /\ Numbered(rbuf, Call, 0)
  /\ Sent(Wants(rnr))
TakenLine ==
  toReader # <<>> => toReader[1] = block \/ RAsks(toReader[1]) \/ toReader[1].type \in {"S", "BAD"}

\* The reader has executed the command; what the driver has of the response.
Response == executed[Len(executed)].rsp
Received == rsplen <= maxRspLen => rsp = SubSeq(Response, 1, rsplen)
Answered ==
  /\ ~more /\ rbuf = <<>> /\ executed # <<>> /\ executed[Len(executed)].cmd = cmd
  /\ Len(Response) \in RspLens

\* The reader has sent a block of the response: the first or the last one.
Replying ==
  /\ Answered /\ nr # rns
  /\ IF lastiicc THEN ns = rnr /\ Len(rout) <= ReaderIfs ELSE ns # rnr /\ rsplen = 0
  /\ rsplen < Len(Response) /\ rout = SubSeq(Response, rsplen + 1, Len(Response))
  /\ Received
  /\ Sent(ReaderIBlock(nr, rout))
ReplyingLine ==
  toReader # <<>> => \/ toReader[1] = block /\ ~lastiicc
                     \/ RAsks(toReader[1]) \/ toReader[1].type \in {"S", "BAD"}
                     \/ toReader[1] = Wants(0) /\ lastiicc

\* The driver has the first one, and wants the next.
Chained ==
  /\ Answered /\ nr = rns /\ ns = rnr /\ lastiicc /\ rnext = <<>>
  /\ rout = Response /\ ReaderIfs < Len(rout) /\ rsplen = ReaderIfs
  /\ Received
  /\ rkeep = ReaderIBlock(Flip(nr), rout) /\ (rlast = rkeep \/ IsError(rlast))
ChainedLine ==
  /\ toReader # <<>> => RAsks(toReader[1]) \/ toReader[1] \in {BadBlock, Wants(0)}
  /\ toHost # <<>> => IsError(rlast)

Phase ==
  \/ Sending /\ SendingLine
  \/ Taken /\ TakenLine
  \/ Replying /\ ReplyingLine
  \/ Chained /\ ChainedLine

PhaseOK ==
  session = "open" =>
    /\ pc = "idle" => Between
    /\ pc = "recv" => Phase
    /\ pc = "recv" /\ toReader # <<>> /\ toReader[1].type = "S" => toReader[1].cmd # "ABORT"
    /\ pc = "abort" /\ toReader # <<>> => toReader[1].type \in {"S", "BAD"}

\* The errors in a row are damaged blocks.
ErrorDue ==
  \/ toReader = <<BadBlock>>
  \/ Reports(rlast) /\ toHost # <<>>
  \/ Reports(rlast) /\ toReader # <<>> /\ RAsks(toReader[1])

CountersOK ==
  session = "open" /\ pc = "recv" =>
    /\ errcntr <= damaged /\ (toHost = <<BadBlock>> => errcntr < damaged)
    /\ rerrcntr <= damaged /\ (ErrorDue => rerrcntr < damaged)

HIDE T1Assumption

-----------------------------------------------------------------------------
(* Blocks.                                                                 *)

LEMMA LimitFacts ==
  /\ ErrLimit \in Nat /\ WtxLimit \in Nat /\ MaxRspLens \subseteq Nat
  /\ IfscInit \in Nat \ {0} /\ ReaderIfs \in Nat /\ ReaderIfs > 0
  /\ \A n \in CmdLens : n \in Nat /\ n > 0
  /\ \A n \in RspLens : n \in Nat /\ n >= 2
BY T1Assumption, LinkAssumption

LEMMA BitFacts ==
  /\ 0 \in Bit
  /\ \A b \in Bit : Flip(b) \in Bit /\ Flip(b) # b /\ Flip(Flip(b)) = b
  /\ \A a, b \in Bit : a # b <=> a = Flip(b)
BY DEF Bit, Flip

LEMMA KindFacts ==
  /\ \A b \in LinkI : /\ b.type = "I" /\ b.n \in Bit /\ b.more \in BOOLEAN /\ b.rc = TRUE
                      /\ b.data \in Seq(Units) /\ b.data # <<>>
  /\ \A b \in RBlocks : b.type = "R" /\ b.n \in Bit /\ b.err \in {"ok", "edc", "other"}
  /\ \A b \in SBlocks : b.type = "S" /\ b.dir \in {"request", "response"} /\ b.param \in Nat
  /\ BadBlock.type = "BAD"
<1>1. \A b \in LinkI : /\ b.type = "I" /\ b.n \in Bit /\ b.more \in BOOLEAN /\ b.rc = TRUE
                       /\ b.data \in Seq(Units) /\ b.data # <<>>
  BY DEF LinkI
<1>2. \A b \in RBlocks : b.type = "R" /\ b.n \in Bit /\ b.err \in {"ok", "edc", "other"}
  BY DEF RBlocks
<1>3. \A b \in SBlocks : b.type = "S" /\ b.dir \in {"request", "response"} /\ b.param \in Nat
  BY DEF SBlocks
<1>4. BadBlock.type = "BAD"
  BY DEF BadBlock
<1>5. QED
  BY <1>1, <1>2, <1>3, <1>4

\* The type tells the kind, and nothing is two kinds.
LEMMA TypeTells ==
  ASSUME NEW b \in LinkBlocks \cup {BadBlock}
  PROVE  /\ b.type = "I" <=> b \in LinkI
         /\ b.type = "R" <=> b \in RBlocks
         /\ b.type = "S" <=> b \in SBlocks
         /\ b.type = "BAD" <=> b = BadBlock
         /\ b.type \in {"I", "R", "S", "BAD"}
BY KindFacts DEF LinkBlocks

LEMMA RBlockFacts ==
  ASSUME NEW n \in Bit, NEW e \in {"ok", "edc", "other"}
  PROVE  /\ [type |-> "R", n |-> n, err |-> e] \in RBlocks
         /\ [type |-> "R", n |-> n, err |-> e].n = n
         /\ [type |-> "R", n |-> n, err |-> e].err = e
BY DEF RBlocks

LEMMA SBlockFacts ==
  ASSUME NEW c \in {"RESYNCH", "IFS", "ABORT", "WTX", "WTX0", "KEY", "CARD"},
         NEW d \in {"request", "response"}, NEW p \in Nat
  PROVE  /\ cjT1SBlock(c, d, p) \in SBlocks
         /\ cjT1SBlock(c, d, p).dir = d /\ cjT1SBlock(c, d, p).param = p
         /\ cjT1SBlock(c, d, p).cmd = IF c = "WTX" /\ p = 0 THEN "WTX0" ELSE c
BY DEF cjT1SBlock, SBlocks

LEMMA SpecialFacts ==
  /\ Detach \in SBlocks /\ Detach.type = "S" /\ Detach.cmd = "IFS" /\ Detach.dir = "request"
  /\ Resynch \in SBlocks /\ Resynch.type = "S" /\ Resynch.cmd = "RESYNCH" /\ Resynch.dir = "request"
  /\ Resynched \in SBlocks /\ Resynched.type = "S" /\ Resynched.cmd = "RESYNCH"
  /\ Resynched.dir = "response" /\ Resynched # Resynch
BY DEF Detach, Resynch, Resynched, cjT1SBlock, SBlocks

LEMMA RequestFacts ==
  ASSUME NEW q \in Requests
  PROVE  /\ q \in SBlocks /\ q.type = "S" /\ q.dir = "request" /\ q # Resynched /\ q.param \in Nat
         /\ q.cmd \in {"IFS", "ABORT", "WTX", "WTX0", "KEY", "CARD"}
         /\ q.cmd = "IFS" => q.param \in Nat \ {0}
<1>1. /\ q \in SBlocks /\ q.dir = "request"
      /\ q.cmd \in {"IFS", "ABORT", "WTX", "WTX0", "KEY", "CARD"}
      /\ q.cmd = "IFS" => q.param > 0
  BY LinkAssumption
<1>2. q.param \in Nat /\ q.type = "S"
  BY <1>1, KindFacts
<1>3. QED
  BY <1>1, <1>2, SpecialFacts

LEMMA LastFacts == ASSUME NEW s \in Seq(Units), s # <<>> PROVE Last(s) \in Units
BY DEF Last

LEMMA EndFacts ==
  ASSUME NEW b \in LinkI PROVE End(b) \in Units /\ End(b)[1] \in Int /\ End(b)[2] \in Nat
<1>1. End(b) \in Units
  BY KindFacts, LastFacts DEF End
<1>2. QED
  BY <1>1 DEF Units

-----------------------------------------------------------------------------
(* The order of the bytes.                                                 *)

LEMMA BeforeFacts ==
  /\ \A u, v, w \in Units : Before(u, v) /\ Before(v, w) => Before(u, w)
  /\ \A u, v, w \in Units : NotAfter(u, v) /\ Before(v, w) => Before(u, w)
  /\ \A u, v, w \in Units : Before(u, v) /\ NotAfter(v, w) => Before(u, w)
  /\ \A u, v, w \in Units : NotAfter(u, v) /\ NotAfter(v, w) => NotAfter(u, w)
  /\ \A u \in Units : ~Before(u, u)
<1>1. \A u \in Units : u[1] \in Int /\ u[2] \in Int
  BY DEF Units
<1>2. \A u, v, w \in Units : Before(u, v) /\ Before(v, w) => Before(u, w)
  BY <1>1 DEF Before
<1>3. \A u \in Units : ~Before(u, u)
  BY <1>1 DEF Before
<1>4. QED
  BY <1>2, <1>3 DEF NotAfter

Line == LinkBlocks \cup {BadBlock}
Neutral(b) == ~IsI(b) /\ ~IsResynch(b)

\* Queue p has what q has, or less, in the same order, possibly repeated.
ComesFrom(p, q, f) ==
  /\ \A i \in 1 .. Len(p) : Neutral(p[i]) \/ (f[i] \in 1 .. Len(q) /\ p[i] = q[f[i]])
  /\ \A i, j \in 1 .. Len(p) : i < j /\ ~Neutral(p[i]) /\ ~Neutral(p[j]) => f[i] <= f[j]

LEMMA OrderKept ==
  ASSUME NEW p \in Seq(Line), NEW q \in Seq(Line), NEW f, ComesFrom(p, q, f),
         NEW k \in Nat, NEW m \in Nat, k <= m, NEW r \in Bit
  PROVE  /\ InOrder(q, k) => InOrder(p, m)
         /\ Takeable(q, k, r) \subseteq Takeable(p, m, r)
<1> DEFINE D == 1 .. Len(p)
           G == 1 .. Len(q)
<1>1. \A i \in D : IsI(p[i]) \/ IsResynch(p[i]) => f[i] \in G /\ p[i] = q[f[i]]
  BY DEF ComesFrom, Neutral
<1>2. \A i, j \in D : i < j /\ (IsI(p[i]) \/ IsResynch(p[i])) /\ (IsI(p[j]) \/ IsResynch(p[j]))
        => f[i] <= f[j]
  BY DEF ComesFrom, Neutral
<1>3. \A i \in D : IsI(p[i]) => End(p[i]) \in Units /\ End(p[i])[1] \in Int
  <2>1. \A i \in D : p[i] \in Line
    OBVIOUS
  <2>2. QED
    BY <2>1, TypeTells, EndFacts DEF IsI, Line
<1>4. \A i \in D : ~(IsI(p[i]) /\ IsResynch(p[i]))
  BY DEF IsI, IsResynch
<1>5. G \subseteq Int
  OBVIOUS
<1>6. ASSUME InOrder(q, k) PROVE InOrder(p, m)
  <2>1. ASSUME NEW i \in D, IsI(p[i]) PROVE End(p[i])[1] <= m
    <3>1. f[i] \in G /\ p[i] = q[f[i]]
      BY <1>1, <2>1
    <3>2. End(q[f[i]])[1] <= k
      BY <1>6, <2>1, <3>1 DEF InOrder
    <3>3. QED
      BY <1>3, <2>1, <3>1, <3>2
  <2>2. ASSUME NEW i \in D, NEW j \in D, i < j, IsI(p[i]), IsI(p[j])
        PROVE  NotAfter(End(p[i]), End(p[j])) /\ (End(p[i]) = End(p[j]) => p[i].n = p[j].n)
    <3>1. f[i] <= f[j] /\ f[i] \in G /\ f[j] \in G /\ p[i] = q[f[i]] /\ p[j] = q[f[j]]
      BY <1>1, <1>2, <2>2
    <3>2. CASE f[i] = f[j]
      BY <3>1, <3>2 DEF NotAfter
    <3>3. CASE f[i] < f[j]
      BY <1>6, <2>2, <3>1, <3>3 DEF InOrder
    <3>4. QED
      BY <1>5, <3>1, <3>2, <3>3
  <2>3. ASSUME NEW i \in D, NEW l \in D, NEW j \in D, i < l, l < j,
               IsI(p[i]), IsResynch(p[l]), IsI(p[j])
        PROVE  Before(End(p[i]), End(p[j]))
    <3>1. /\ f[i] <= f[l] /\ f[l] <= f[j] /\ f[i] \in G /\ f[j] \in G /\ f[l] \in G
          /\ p[i] = q[f[i]] /\ p[j] = q[f[j]] /\ p[l] = q[f[l]]
      BY <1>1, <1>2, <2>3
    <3>2. f[i] # f[l] /\ f[l] # f[j]
      BY <1>4, <2>3, <3>1
    <3>3. f[i] < f[l] /\ f[l] < f[j]
      BY <1>5, <3>1, <3>2
    <3>4. QED
      BY <1>6, <2>3, <3>1, <3>3 DEF InOrder
  <2>4. QED
    BY <2>1, <2>2, <2>3 DEF InOrder
<1>7. ASSUME NEW u \in Takeable(q, k, r) PROVE u \in Takeable(p, m, r)
  <2>1. u \in Units /\ u[1] <= m
    <3>1. u \in Units /\ u[1] <= k
      BY DEF Takeable
    <3>2. QED
      BY <3>1 DEF Units
  <2>2. ASSUME NEW i \in D, IsI(p[i])
        PROVE  NotAfter(u, End(p[i])) /\ (p[i].n = r => Before(u, End(p[i])))
    <3>1. f[i] \in G /\ p[i] = q[f[i]]
      BY <1>1, <2>2
    <3>2. QED
      BY <2>2, <3>1 DEF Takeable
  <2>3. ASSUME NEW l \in D, NEW i \in D, l < i, IsResynch(p[l]), IsI(p[i])
        PROVE  Before(u, End(p[i]))
    <3>1. f[l] <= f[i] /\ f[i] \in G /\ f[l] \in G /\ p[i] = q[f[i]] /\ p[l] = q[f[l]]
      BY <1>1, <1>2, <2>3
    <3>2. f[l] # f[i]
      BY <1>4, <2>3, <3>1
    <3>3. f[l] < f[i]
      BY <1>5, <3>1, <3>2
    <3>4. QED
      BY <2>3, <3>1, <3>3 DEF Takeable
  <2>4. QED
    BY <2>1, <2>2, <2>3 DEF Takeable
<1>8. QED
  BY <1>6, <1>7

\* A block that is younger than all before it is sent.
LEMMA OrderGrows ==
  ASSUME NEW q \in Seq(Line), NEW b \in LinkI, NEW k \in Nat, NEW m \in Nat, k <= m, NEW r \in Bit,
         End(b)[1] <= m,
         \A i \in 1 .. Len(q) : IsI(q[i]) => Before(End(q[i]), End(b)),
         \A u \in Takeable(q, k, r) : Before(u, End(b))
  PROVE  /\ InOrder(q, k) => InOrder(Append(q, b), m)
         /\ Takeable(q, k, r) \subseteq Takeable(Append(q, b), m, r)
<1> DEFINE p == Append(q, b)
           n == Len(q)
<1>1. /\ n \in Nat /\ Len(p) = n + 1 /\ p[n + 1] = b
      /\ \A i \in 1 .. n : p[i] = q[i] /\ q[i] \in Line
  OBVIOUS
<1> HIDE DEF p, n
<1>2. \A i \in 1 .. n + 1 : i = n + 1 \/ i \in 1 .. n
  BY <1>1
<1>3. \A i \in 1 .. n : IsI(q[i]) => End(q[i])[1] \in Int
  BY <1>1, TypeTells, EndFacts DEF IsI, Line
<1>4. ~IsResynch(b)
  BY KindFacts DEF IsResynch
<1>5. \A i \in 1 .. n : IsI(q[i]) => Before(End(q[i]), End(b))
  BY DEF n
<1>6. \A u, v \in Units : u = v => ~Before(u, v)
  BY BeforeFacts
<1>7. \A i \in 1 .. n : IsI(q[i]) => End(q[i]) \in Units
  BY <1>1, TypeTells, EndFacts DEF IsI, Line
<1>8. End(b) \in Units
  BY EndFacts
<1>9. ASSUME InOrder(q, k) PROVE InOrder(p, m)
  <2>1. \A i \in 1 .. Len(p) : IsI(p[i]) => End(p[i])[1] <= m
    BY <1>1, <1>2, <1>3, <1>9 DEF InOrder, n
  <2>2. ASSUME NEW i \in 1 .. Len(p), NEW j \in 1 .. Len(p), i < j, IsI(p[i]), IsI(p[j])
        PROVE  NotAfter(End(p[i]), End(p[j])) /\ (End(p[i]) = End(p[j]) => p[i].n = p[j].n)
    <3>1. i \in 1 .. n
      BY <1>1, <2>2
    <3>2. CASE j = n + 1
      BY <1>1, <1>5, <1>6, <1>7, <1>8, <2>2, <3>1, <3>2 DEF NotAfter
    <3>3. CASE j \in 1 .. n
      BY <1>1, <1>9, <2>2, <3>1, <3>3 DEF InOrder, n
    <3>4. QED
      BY <1>1, <1>2, <3>2, <3>3
  <2>3. ASSUME NEW i \in 1 .. Len(p), NEW l \in 1 .. Len(p), NEW j \in 1 .. Len(p), i < l, l < j,
               IsI(p[i]), IsResynch(p[l]), IsI(p[j])
        PROVE  Before(End(p[i]), End(p[j]))
    <3>1. i \in 1 .. n /\ l \in 1 .. n
      BY <1>1, <2>3
    <3>2. CASE j = n + 1
      BY <1>1, <1>5, <2>3, <3>1, <3>2
    <3>3. CASE j \in 1 .. n
      BY <1>1, <1>9, <2>3, <3>1, <3>3 DEF InOrder, n
    <3>4. QED
      BY <1>1, <1>2, <3>2, <3>3
  <2>4. QED
    BY <2>1, <2>2, <2>3 DEF InOrder
<1>10. ASSUME NEW u \in Takeable(q, k, r) PROVE u \in Takeable(p, m, r)
  <2>1. u \in Units /\ u[1] <= m
    <3>1. u \in Units /\ u[1] <= k
      BY DEF Takeable
    <3>2. QED
      BY <3>1 DEF Units
  <2>2. Before(u, End(b))
    OBVIOUS
  <2>3. ASSUME NEW i \in 1 .. Len(p), IsI(p[i])
        PROVE  NotAfter(u, End(p[i])) /\ (p[i].n = r => Before(u, End(p[i])))
    <3>1. CASE i = n + 1
      BY <1>1, <2>2, <3>1 DEF NotAfter
    <3>2. CASE i \in 1 .. n
      BY <1>1, <2>3, <3>2 DEF Takeable, n
    <3>3. QED
      BY <1>1, <1>2, <3>1, <3>2
  <2>4. ASSUME NEW l \in 1 .. Len(p), NEW i \in 1 .. Len(p), l < i, IsResynch(p[l]), IsI(p[i])
        PROVE  Before(u, End(p[i]))
    <3>1. l \in 1 .. n
      BY <1>1, <2>4
    <3>2. CASE i = n + 1
      BY <1>1, <2>2, <3>2
    <3>3. CASE i \in 1 .. n
      BY <1>1, <2>4, <3>1, <3>3 DEF Takeable, n
    <3>4. QED
      BY <1>1, <1>2, <3>2, <3>3
  <2>5. QED
    BY <2>1, <2>3, <2>4 DEF Takeable
<1>11. QED
  BY <1>9, <1>10 DEF p

LEMMA TailFacts ==
  ASSUME NEW q \in Seq(Line), q # <<>>
  PROVE  /\ Tail(q) \in Seq(Line) /\ Len(Tail(q)) = Len(q) - 1 /\ Len(q) \in Nat /\ Len(q) > 0
         /\ Head(q) = q[1] /\ q[1] \in Line
         /\ \A i \in 1 .. Len(q) - 1 : Tail(q)[i] = q[i + 1] /\ i + 1 \in 1 .. Len(q)
<1>1. Len(q) \in Nat /\ Len(q) > 0
  OBVIOUS
<1>2. Tail(q) \in Seq(Line) /\ Len(Tail(q)) = Len(q) - 1 /\ Head(q) = q[1] /\ q[1] \in Line
  BY <1>1
<1>3. \A i \in 1 .. Len(q) - 1 : Tail(q)[i] = q[i + 1] /\ i + 1 \in 1 .. Len(q)
  BY <1>1, <1>2
<1>4. QED
  BY <1>1, <1>2, <1>3

\* The reader takes the block it waits for.
LEMMA OrderTakes ==
  ASSUME NEW q \in Seq(Line), q # <<>>, NEW k \in Nat, InOrder(q, k),
         NEW r \in Bit, q[1] \in LinkI, q[1].n = r
  PROVE  /\ End(q[1]) \in Takeable(Tail(q), k, Flip(r))
         /\ Takeable(q, k, r) \subseteq Takeable(Tail(q), k, Flip(r))
         /\ \A u \in Takeable(q, k, r) : Before(u, End(q[1]))
<1> DEFINE p == Tail(q)
           n == Len(q)
           e == End(q[1])
<1>1. n \in Nat /\ n > 0 /\ Len(p) = n - 1 /\ p \in Seq(Line)
  BY TailFacts
<1>2. \A i \in 1 .. n - 1 : p[i] = q[i + 1] /\ i + 1 \in 1 .. n /\ 1 < i + 1 /\ q[i + 1] \in Line
  BY TailFacts
<1>3. e \in Units /\ e[1] <= k /\ IsI(q[1]) /\ 1 \in 1 .. n
  BY <1>1, EndFacts, KindFacts DEF InOrder, IsI
<1> HIDE DEF p, n, e
<1>4. \A i \in 2 .. n : IsI(q[i]) => /\ NotAfter(e, End(q[i])) /\ End(q[i]) \in Units
                                     /\ e = End(q[i]) => q[i].n = r
  <2>1. \A i \in 2 .. n : 1 < i /\ i \in 1 .. n /\ q[i] \in Line
    BY <1>1 DEF n
  <2>2. \A i \in 2 .. n : IsI(q[i]) => End(q[i]) \in Units
    BY <2>1, TypeTells, EndFacts DEF IsI, Line
  <2>3. QED
    BY <1>3, <2>1, <2>2 DEF InOrder, n, e
<1>5. \A l, i \in 2 .. n : l < i /\ IsResynch(q[l]) /\ IsI(q[i]) => Before(e, End(q[i]))
  <2>1. \A i \in 2 .. n : 1 < i /\ i \in 1 .. n
    BY <1>1
  <2>2. QED
    BY <1>3, <2>1 DEF InOrder, n, e
<1>6. \A i \in 1 .. n - 1 : p[i] = q[i + 1] /\ i + 1 \in 2 .. n
  BY <1>1, <1>2
<1>7. e \in Takeable(p, k, Flip(r))
  <2>1. ASSUME NEW i \in 1 .. Len(p), IsI(p[i])
        PROVE  NotAfter(e, End(p[i])) /\ (p[i].n = Flip(r) => Before(e, End(p[i])))
    BY <1>1, <1>4, <1>6, <2>1, BitFacts DEF NotAfter
  <2>2. ASSUME NEW l \in 1 .. Len(p), NEW i \in 1 .. Len(p), l < i, IsResynch(p[l]), IsI(p[i])
        PROVE  Before(e, End(p[i]))
    <3>1. l + 1 < i + 1
      BY <2>2
    <3>2. QED
      BY <1>1, <1>5, <1>6, <2>2, <3>1
  <2>3. QED
    BY <1>3, <2>1, <2>2 DEF Takeable
<1>8. \A u \in Takeable(q, k, r) : u \in Units /\ u[1] <= k /\ Before(u, e)
  BY <1>3 DEF Takeable, n, e
<1>9. ASSUME NEW u \in Takeable(q, k, r) PROVE u \in Takeable(p, k, Flip(r))
  <2>1. \A i \in 2 .. n : IsI(q[i]) => Before(u, End(q[i]))
    BY <1>3, <1>4, <1>8, BeforeFacts
  <2>2. \A i \in 1 .. Len(p) : IsI(p[i]) => Before(u, End(p[i]))
    BY <1>1, <1>6, <2>1
  <2>3. QED
    BY <1>8, <2>2 DEF Takeable, NotAfter
<1>10. QED
  BY <1>7, <1>8, <1>9 DEF p, e

\* The reader resynchronises.
LEMMA OrderResets ==
  ASSUME NEW q \in Seq(Line), q # <<>>, NEW k \in Nat, NEW r \in Bit, IsResynch(q[1])
  PROVE  Takeable(q, k, r) \subseteq Takeable(Tail(q), k, 0)
<1> DEFINE p == Tail(q)
           n == Len(q)
<1>1. n \in Nat /\ n > 0 /\ Len(p) = n - 1
  BY TailFacts
<1>2. \A i \in 1 .. n - 1 : p[i] = q[i + 1] /\ i + 1 \in 1 .. n /\ 1 < i + 1
  BY TailFacts
<1> HIDE DEF p, n
<1>3. ASSUME NEW u \in Takeable(q, k, r) PROVE u \in Takeable(p, k, 0)
  <2>1. \A i \in 1 .. n : 1 < i /\ IsI(q[i]) => Before(u, End(q[i]))
    <3>1. 1 \in 1 .. n
      BY <1>1
    <3>2. QED
      BY <3>1 DEF Takeable, n
  <2>2. \A i \in 1 .. Len(p) : IsI(p[i]) => Before(u, End(p[i]))
    BY <1>1, <1>2, <2>1
  <2>3. QED
    BY <2>2 DEF Takeable, NotAfter
<1>4. QED
  BY <1>3 DEF p

-----------------------------------------------------------------------------
(* The driver: what a pass through the loop comes down to.                 *)

ROk == [type |-> "R", n |-> 0, err |-> "ok"]
RErr(e) == [type |-> "R", n |-> nr, err |-> e]
AfterI == IF lastiicc THEN ns ELSE Flip(ns)

HAsks(x) ==
  /\ x = BadBlock /\ errcntr' = errcntr + 1
  /\ \E e \in {"edc", "other"} : tx' = <<RErr(e)>>
  /\ UNCHANGED <<pc, ret, ns, nr, ifsc, apdu, rerrcntr, wtxcntr, response>>

HAcks(x) ==
  /\ x.type = "R" /\ lastiicc
  /\ errcntr' = 0 /\ rerrcntr' = rerrcntr + 1 /\ tx' = <<ROk>>
  /\ UNCHANGED <<pc, ret, ns, nr, ifsc, apdu, wtxcntr, response>>

HResends(x) ==
  /\ x.type = "R" /\ x.err # "ok" /\ ~lastiicc
  /\ errcntr' = 0 /\ rerrcntr' = rerrcntr + 1 /\ tx' = <<block>>
  /\ UNCHANGED <<pc, ret, ns, nr, ifsc, apdu, wtxcntr, response>>

HNext(x) ==
  /\ x.type = "R" /\ x.err = "ok" /\ ~lastiicc /\ more
  /\ ns' = Flip(ns) /\ NextIBlock(ns', cmd, sendptr)
  /\ errcntr' = 0 /\ rerrcntr' = 0 /\ tx' = <<block'>>
  /\ UNCHANGED <<pc, ret, nr, ifsc, cmd, maxRspLen, wtxcntr, response>>

HTurns ==
  /\ lastiicc' = TRUE /\ ns' = AfterI /\ errcntr' = 0 /\ rerrcntr' = 0
  /\ UNCHANGED <<ifsc, apdu, wtxcntr>>

HRefuses(x) ==
  /\ x.type = "I" /\ x.n # nr /\ HTurns /\ tx' = <<RErr("other")>>
  /\ UNCHANGED <<pc, ret, nr, rsplen, rsp>>

HReads(x) ==
  /\ x.type = "I" /\ x.n = nr /\ HTurns
  /\ nr' = Flip(nr) /\ rsplen' = rsplen + Len(x.data)
  /\ rsp' = IF rsplen + Len(x.data) <= maxRspLen THEN rsp \o x.data ELSE rsp

HPart(x) == HReads(x) /\ x.more /\ tx' = <<ROk>> /\ UNCHANGED <<pc, ret>>

HLast(x) ==
  /\ HReads(x) /\ ~x.more /\ pc' = "idle" /\ tx' = <<>>
  /\ \/ rsplen' < 2 /\ ret' = "PROTOCOL_ERROR"
     \/ rsplen' >= 2 /\ rsplen' > maxRspLen /\ ret' = "BAD_PARAM"
     \/ rsplen' >= 2 /\ rsplen' <= maxRspLen /\ ret' = "OK"

HAnswers(x) ==
  /\ x \in Requests /\ ifsc' \in Nat \ {0} /\ errcntr' = 0 /\ rerrcntr' = 0 /\ wtxcntr' \in Nat
  /\ \E r \in SBlocks : /\ tx' = <<r>> /\ r.dir = "response" /\ r.cmd # "RESYNCH"
                        /\ r.cmd = "ABORT" <=> x.cmd = "ABORT"
  /\ pc' = IF x.cmd = "ABORT" THEN "abort" ELSE "recv"
  /\ UNCHANGED <<ret, ns, nr, apdu, response>>

HDrops(x) ==
  /\ x = Resynched /\ errcntr' = 0 /\ rerrcntr' = 0 /\ tx' = <<>>
  /\ UNCHANGED <<pc, ret, ns, nr, ifsc, apdu, wtxcntr, response>>

\* Why a call failed.
Blame(x) ==
  \/ x = BadBlock /\ errcntr' = errcntr + 1 /\ rerrcntr' = rerrcntr /\ ret' = "IO_ERROR"
  \/ /\ x.type = "R" /\ errcntr' = 0 /\ rerrcntr' = rerrcntr + 1
     /\ ret' = "IO_ERROR" \/ (ret' = "PROTOCOL_ERROR" /\ x.err = "ok" /\ ~lastiicc /\ ~more)
  \/ errcntr' = 0 /\ rerrcntr' = 0 /\ (ret' = "IO_ERROR" \/ (wtxcntr' \in Nat /\ wtxcntr' > WtxLimit))
  \/ ret' \in {"UNDEF_ERROR", "TIMEOUT"}

HFails(x) ==
  /\ pc' = "idle" /\ tx' = <<>> /\ ret' \in {"IO_ERROR", "PROTOCOL_ERROR", "UNDEF_ERROR", "TIMEOUT"}
  /\ ns' \in Bit /\ nr' \in Bit /\ ifsc' \in Nat \ {0}
  /\ Blame(x) /\ (pc = "recv" \/ ret' \in {"UNDEF_ERROR", "TIMEOUT"})

HGoes(x) ==
  HAsks(x) \/ HAcks(x) \/ HResends(x) \/ HNext(x) \/ HRefuses(x) \/ HPart(x) \/ HDrops(x)

Pass(x) ==
  \/ x = BadBlock /\ \E e \in {"edc", "other"} : RecvBad(e)
  \/ x # BadBlock /\ RecvBlock(x)
  \/ RecvAfterAbort /\ ret' \in {"UNDEF_ERROR", "TIMEOUT"}

LEMMA RBlockIs ==
  /\ cjT1RBlock("ok") = ROk
  /\ \A e \in {"edc", "other"} : cjT1RBlock(e) = RErr(e)
BY DEF cjT1RBlock, ROk, RErr

\* The number patched into a block for repetition is the one it has.
LEMMA Repatched ==
  ASSUME NEW b \in LinkI, NEW n, b.n = n
  PROVE  [b EXCEPT !.n = n, !.rc = (b.rc <=> b.n = n)] = b
<1>1. b.rc = TRUE
  BY KindFacts
<1>2. (b.rc <=> b.n = n) = TRUE
  BY <1>1
<1> DEFINE t == (b.rc <=> b.n = n)
<1>3. t = b.rc /\ n = b.n
  BY <1>1, <1>2
<1> HIDE DEF t
<1>4. [b EXCEPT !.n = n, !.rc = t] = b
  BY <1>3 DEF LinkI
<1>5. QED
  BY <1>4 DEF t

LEMMA PassBad ==
  ASSUME LinkTypes, HostOK, NEW e \in {"edc", "other"}, RecvBad(e)
  PROVE  pc = "recv" /\ (HAsks(BadBlock) \/ HFails(BadBlock))
<1>1. /\ pc = "recv" /\ errcntr' = errcntr + 1
      /\ UNCHANGED <<ns, nr, ifsc, apdu, rerrcntr, wtxcntr, response>>
      /\ Return("IO_ERROR") \/ SendBlock(cjT1RBlock(e))
  BY DEF RecvBad, Receiving
<1>2. CASE Return("IO_ERROR")
  BY <1>1, <1>2 DEF HFails, Blame, Return, LinkTypes
<1>3. CASE tx' = <<cjT1RBlock(e)>> /\ UNCHANGED <<pc, ret>>
  <2>1. tx' = <<RErr(e)>>
    BY <1>3, RBlockIs
  <2>2. QED
    BY <1>1, <1>3, <2>1 DEF HAsks
<1>4. QED
  BY <1>1, <1>2, <1>3 DEF SendBlock

LEMMA PassR ==
  ASSUME LinkTypes, HostOK, NEW x \in RBlocks, RecvR(x)
  PROVE  pc = "recv" /\ (HAcks(x) \/ HResends(x) \/ HNext(x) \/ HFails(x))
<1>1. /\ pc = "recv" /\ x.type = "R" /\ errcntr' = 0
      /\ UNCHANGED <<nr, ifsc, cmd, maxRspLen, wtxcntr, response>>
  BY DEF RecvR, Receiving
<1>2. ns \in Bit /\ nr \in Bit /\ ifsc \in Nat \ {0} /\ Flip(ns) \in Bit
  BY BitFacts DEF LinkTypes
<1>3. CASE /\ TooMany(rerrcntr + 1) /\ rerrcntr' = rerrcntr + 1 /\ Return("IO_ERROR")
           /\ UNCHANGED <<ns, sendptr, more, block>>
  BY <1>1, <1>2, <1>3 DEF HFails, Blame, Return
<1>4. CASE /\ lastiicc /\ rerrcntr' = rerrcntr + 1 /\ SendBlock(cjT1RBlock("ok"))
           /\ UNCHANGED <<ns, sendptr, more, block>>
  <2>1. CASE Return("IO_ERROR")
    BY <1>1, <1>2, <1>4, <2>1 DEF HFails, Blame, Return
  <2>2. CASE tx' = <<cjT1RBlock("ok")>> /\ UNCHANGED <<pc, ret>>
    <3>1. tx' = <<ROk>>
      BY <2>2, RBlockIs
    <3>2. QED
      BY <1>1, <1>4, <2>2, <3>1 DEF HAcks, apdu
  <2>3. QED
    BY <1>4, <2>1, <2>2 DEF SendBlock
<1>5. CASE /\ ~lastiicc /\ AsksForRepetition(x) /\ rerrcntr' = rerrcntr + 1
           /\ block' = [block EXCEPT !.n = ns, !.rc = (block.rc <=> block.n = ns)]
           /\ SendBlock(block') /\ UNCHANGED <<ns, sendptr, more>>
  <2>1. block \in LinkI /\ block.n = ns
    BY <1>1, <1>5 DEF HostOK
  <2>2. block' = block
    BY <1>5, <2>1, Repatched
  <2>3. CASE Return("IO_ERROR")
    BY <1>1, <1>2, <1>5, <2>3 DEF HFails, Blame, Return
  <2>4. CASE tx' = <<block'>> /\ UNCHANGED <<pc, ret>>
    <3>1. tx' = <<block>>
      BY <2>2, <2>4
    <3>2. QED
      BY <1>1, <1>5, <2>2, <2>4, <3>1 DEF HResends, apdu, AsksForRepetition
  <2>5. QED
    BY <1>5, <2>3, <2>4 DEF SendBlock
<1>6. CASE /\ ~lastiicc /\ ~AsksForRepetition(x) /\ ~more /\ rerrcntr' = rerrcntr + 1
           /\ Return("PROTOCOL_ERROR") /\ UNCHANGED <<ns, sendptr, more, block>>
  BY <1>1, <1>2, <1>6 DEF HFails, Blame, Return, AsksForRepetition
<1>7. CASE /\ ~lastiicc /\ ~AsksForRepetition(x) /\ more /\ ns' = Flip(ns)
           /\ NextIBlock(ns', cmd, sendptr)
           /\ \/ tx' = <<block'>> /\ rerrcntr' = 0 /\ UNCHANGED <<pc, ret>>
              \/ Return("IO_ERROR") /\ rerrcntr' = rerrcntr + 1
  <2>1. CASE tx' = <<block'>> /\ rerrcntr' = 0 /\ UNCHANGED <<pc, ret>>
    BY <1>1, <1>7, <2>1 DEF HNext, AsksForRepetition
  <2>2. CASE Return("IO_ERROR") /\ rerrcntr' = rerrcntr + 1
    BY <1>1, <1>2, <1>7, <2>2 DEF HFails, Blame, Return
  <2>3. QED
    BY <1>7, <2>1, <2>2
<1>8. QED
  BY <1>1, <1>3, <1>4, <1>5, <1>6, <1>7 DEF RecvR

LEMMA PassI ==
  ASSUME LinkTypes, HostOK, NEW x \in LinkI, RecvI(x)
  PROVE  pc = "recv" /\ (HRefuses(x) \/ HPart(x) \/ HLast(x) \/ HFails(x))
<1>1. /\ pc = "recv" /\ x.type = "I" /\ errcntr' = 0 /\ rerrcntr' = 0 /\ lastiicc' = TRUE
      /\ ns' = AfterI /\ UNCHANGED <<ifsc, apdu, wtxcntr>>
  BY DEF RecvI, Receiving, AfterI
<1>2. HTurns
  BY <1>1 DEF HTurns
<1>3. ns \in Bit /\ nr \in Bit /\ ifsc \in Nat \ {0} /\ Flip(ns) \in Bit /\ Flip(nr) \in Bit
  BY BitFacts DEF LinkTypes
<1>4. ns' \in Bit /\ ifsc' \in Nat \ {0}
  BY <1>1, <1>3 DEF AfterI
<1>5. CASE x.n # nr /\ SendBlock(cjT1RBlock("other")) /\ UNCHANGED <<nr, rsplen, rsp>>
  <2>1. CASE Return("IO_ERROR")
    BY <1>1, <1>3, <1>4, <1>5, <2>1 DEF HFails, Blame, Return
  <2>2. CASE tx' = <<cjT1RBlock("other")>> /\ UNCHANGED <<pc, ret>>
    <3>1. tx' = <<RErr("other")>>
      BY <2>2, RBlockIs
    <3>2. QED
      BY <1>1, <1>2, <1>5, <2>2, <3>1 DEF HRefuses
  <2>3. QED
    BY <1>5, <2>1, <2>2 DEF SendBlock
<1>6. CASE /\ x.n = nr /\ nr' = Flip(nr) /\ rsplen' = rsplen + Len(x.data)
           /\ rsp' = Copied(x.data, rsplen + Len(x.data))
           /\ \/ x.more /\ SendBlock(cjT1RBlock("ok"))
              \/ ~x.more /\ rsplen' < 2 /\ Return("PROTOCOL_ERROR")
              \/ ~x.more /\ rsplen' >= 2 /\ rsplen' > maxRspLen /\ Return("BAD_PARAM")
              \/ ~x.more /\ rsplen' >= 2 /\ rsplen' <= maxRspLen /\ Return("OK")
  <2>1. HReads(x)
    BY <1>1, <1>2, <1>6 DEF HReads, Copied
  <2>2. nr' \in Bit
    BY <1>3, <1>6
  <2>3. CASE ~x.more
    BY <1>1, <1>6, <2>1, <2>3 DEF HLast, Return
  <2>4. CASE x.more /\ Return("IO_ERROR")
    BY <1>1, <1>4, <2>2, <2>4 DEF HFails, Blame, Return
  <2>5. CASE x.more /\ tx' = <<cjT1RBlock("ok")>> /\ UNCHANGED <<pc, ret>>
    <3>1. tx' = <<ROk>>
      BY <2>5, RBlockIs
    <3>2. QED
      BY <1>1, <2>1, <2>5, <3>1 DEF HPart
  <2>6. QED
    BY <1>6, <2>3, <2>4, <2>5 DEF SendBlock
<1>7. QED
  BY <1>5, <1>6 DEF RecvI

LEMMA PassS ==
  ASSUME LinkTypes, HostOK, NEW x \in Requests \cup {Resynched},
         RecvIfs(x) \/ RecvAbort(x) \/ RecvWtx(x) \/ RecvResynch(x) \/ RecvKeyOrCard(x) \/ RecvDropped(x)
  PROVE  pc = "recv" /\ (HAnswers(x) \/ HDrops(x) \/ HFails(x))
<1>1. ns \in Bit /\ nr \in Bit /\ ifsc \in Nat \ {0} /\ Flip(ns) \in Bit
  BY BitFacts DEF LinkTypes
<1>2. x \in Requests => x.cmd # "RESYNCH" /\ x.cmd # "DROPPED" /\ x.dir = "request" /\ x.param \in Nat
  BY RequestFacts
<1>3. x \notin Requests => x = Resynched /\ x.dir = "response"
  BY SpecialFacts
<1>4. CASE RecvDropped(x)
  BY <1>2, <1>3, <1>4 DEF RecvDropped, Receiving, HDrops
<1>5. CASE RecvResynch(x)
  BY <1>2, <1>3, <1>5 DEF RecvResynch, RecvS
<1>6. ASSUME NEW c, RecvS(x, c)
      PROVE  /\ pc = "recv" /\ x \in Requests /\ x.cmd = c /\ errcntr' = 0 /\ rerrcntr' = 0
             /\ UNCHANGED <<apdu, response>>
  BY <1>3, <1>6 DEF RecvS, Receiving
<1>7. ASSUME NEW c \in {"IFS", "ABORT", "WTX", "WTX0", "KEY", "CARD"}, NEW p \in Nat, c # "WTX" \/ p # 0
      PROVE  /\ cjT1SBlock(c, "response", p) \in SBlocks
             /\ cjT1SBlock(c, "response", p).dir = "response" /\ cjT1SBlock(c, "response", p).cmd = c
  <2>1. /\ cjT1SBlock(c, "response", p) \in SBlocks
        /\ cjT1SBlock(c, "response", p).dir = "response"
        /\ cjT1SBlock(c, "response", p).cmd = IF c = "WTX" /\ p = 0 THEN "WTX0" ELSE c
    BY SBlockFacts
  <2>2. QED
    BY <1>7, <2>1
<1>8. pc = "recv" => wtxcntr \in Nat
  BY DEF HostOK
<1>9. CASE RecvIfs(x)
  <2>1. /\ pc = "recv" /\ x \in Requests /\ x.cmd = "IFS" /\ errcntr' = 0 /\ rerrcntr' = 0
        /\ UNCHANGED <<apdu, response, ns, nr, wtxcntr>>
    BY <1>6, <1>9 DEF RecvIfs
  <2>2. x.param \in Nat \ {0}
    BY <2>1, RequestFacts
  <2>3. CASE Return("IO_ERROR")
    BY <1>1, <1>9, <2>1, <2>3 DEF HFails, Blame, Return, RecvIfs
  <2>4. CASE tx' = <<cjT1SBlock("IFS", "response", x.param)>> /\ UNCHANGED <<pc, ret>>
    <3> DEFINE r == cjT1SBlock("IFS", "response", x.param)
    <3>1. r \in SBlocks /\ r.dir = "response" /\ r.cmd = "IFS"
      BY <1>7, <2>2
    <3>2. tx' = <<r>> /\ tx' # <<>>
      BY <2>4
    <3>3. ifsc' = x.param
      BY <1>9, <3>2 DEF RecvIfs
    <3> HIDE DEF r
    <3>4. QED
      BY <1>8, <2>1, <2>2, <2>4, <3>1, <3>2, <3>3 DEF HAnswers
  <2>5. QED
    BY <1>9, <2>1, <2>3, <2>4 DEF RecvIfs, SendBlock
<1>10. CASE RecvAbort(x)
  <2>1. /\ pc = "recv" /\ x \in Requests /\ x.cmd = "ABORT" /\ errcntr' = 0 /\ rerrcntr' = 0
        /\ UNCHANGED <<apdu, response, ns, nr, ifsc, wtxcntr>>
    BY <1>6, <1>10 DEF RecvAbort
  <2>2. CASE Return("IO_ERROR")
    BY <1>1, <2>1, <2>2 DEF HFails, Blame, Return
  <2>3. CASE pc' = "abort" /\ tx' = <<cjT1SBlock("ABORT", "response", 0)>> /\ UNCHANGED ret
    <3> DEFINE r == cjT1SBlock("ABORT", "response", 0)
    <3>1. r \in SBlocks /\ r.dir = "response" /\ r.cmd = "ABORT"
      BY <1>7
    <3>2. tx' = <<r>>
      BY <2>3
    <3> HIDE DEF r
    <3>3. QED
      BY <1>1, <1>8, <2>1, <2>3, <3>1, <3>2 DEF HAnswers
  <2>4. QED
    BY <1>10, <2>1, <2>2, <2>3 DEF RecvAbort
<1>11. CASE RecvWtx(x)
  <2> DEFINE w == IF x.cmd = "WTX0" THEN 1 ELSE x.param
  <2>1. /\ pc = "recv" /\ x \in Requests /\ x.cmd \in {"WTX", "WTX0"} /\ errcntr' = 0 /\ rerrcntr' = 0
        /\ UNCHANGED <<apdu, response, nr, ifsc>> /\ wtxcntr' = wtxcntr + w
    BY <1>3, <1>11 DEF RecvWtx
  <2>2. w \in Nat /\ x.param \in Nat
    BY <1>2, <2>1
  <2>3. wtxcntr' \in Nat
    BY <1>8, <2>1, <2>2
  <2> HIDE DEF w
  <2>4. CASE wtxcntr' > WtxLimit
    <3>1. Return("PROTOCOL_ERROR") /\ ns' \in Bit
      BY <1>1, <1>11, <2>3, <2>4, LimitFacts DEF RecvWtx
    <3>2. QED
      BY <1>1, <2>1, <2>3, <2>4, <3>1 DEF HFails, Blame, Return
  <2>5. CASE ~(wtxcntr' > WtxLimit)
    <3>1. SendBlock(cjT1SBlock(x.cmd, "response", x.param)) /\ ns' = ns
      BY <1>11, <2>5 DEF RecvWtx
    <3>2. CASE Return("IO_ERROR")
      BY <1>1, <2>1, <3>1, <3>2 DEF HFails, Blame, Return
    <3>3. CASE tx' = <<cjT1SBlock(x.cmd, "response", x.param)>> /\ UNCHANGED <<pc, ret>>
      <4> DEFINE r == cjT1SBlock(x.cmd, "response", x.param)
      <4>1. r \in SBlocks /\ r.dir = "response" /\ r.cmd \in {"WTX", "WTX0"}
        BY <2>1, <2>2, SBlockFacts
      <4>2. tx' = <<r>>
        BY <3>3
      <4> HIDE DEF r
      <4>3. QED
        BY <1>1, <2>1, <2>3, <3>1, <3>3, <4>1, <4>2 DEF HAnswers
    <3>4. QED
      BY <2>1, <3>1, <3>2, <3>3 DEF SendBlock
  <2>6. QED
    BY <2>4, <2>5
<1>12. CASE RecvKeyOrCard(x)
  <2>1. PICK c \in {"KEY", "CARD"} : RecvS(x, c) /\ SendBlock(cjT1SBlock(c, "response", 0))
    BY <1>12 DEF RecvKeyOrCard
  <2>2. /\ pc = "recv" /\ x \in Requests /\ x.cmd = c /\ errcntr' = 0 /\ rerrcntr' = 0
        /\ UNCHANGED <<apdu, response, ns, nr, ifsc, wtxcntr>>
    BY <1>6, <1>12, <2>1 DEF RecvKeyOrCard
  <2>3. CASE Return("IO_ERROR")
    BY <1>1, <2>2, <2>3 DEF HFails, Blame, Return
  <2>4. CASE tx' = <<cjT1SBlock(c, "response", 0)>> /\ UNCHANGED <<pc, ret>>
    <3> DEFINE r == cjT1SBlock(c, "response", 0)
    <3>1. r \in SBlocks /\ r.dir = "response" /\ r.cmd = c
      BY <1>7
    <3>2. tx' = <<r>>
      BY <2>4
    <3> HIDE DEF r
    <3>3. QED
      BY <1>1, <1>8, <2>2, <2>4, <3>1, <3>2 DEF HAnswers
  <2>5. QED
    BY <2>1, <2>2, <2>3, <2>4 DEF SendBlock
<1>13. QED
  BY <1>4, <1>5, <1>9, <1>10, <1>11, <1>12

LEMMA PassFacts ==
  ASSUME LinkTypes, HostOK, NEW x \in Line, x.type = "S" => x \in Requests \cup {Resynched}, Pass(x)
  PROVE  \/ pc = "recv" /\ (HGoes(x) \/ HAnswers(x) \/ HLast(x))
         \/ pc # "idle" /\ HFails(x)
<1>1. CASE RecvAfterAbort /\ ret' \in {"UNDEF_ERROR", "TIMEOUT"}
  BY <1>1, BitFacts DEF RecvAfterAbort, HFails, Blame, Return, LinkTypes
<1>2. CASE x = BadBlock /\ \E e \in {"edc", "other"} : RecvBad(e)
  BY <1>2, PassBad DEF HGoes
<1>3. CASE x # BadBlock /\ RecvBlock(x)
  <2>1. x.type \in {"I", "R", "S"} /\ (x.type = "I" => x \in LinkI) /\ (x.type = "R" => x \in RBlocks)
    BY <1>3, TypeTells DEF Line
  <2>2. CASE x.type = "I"
    <3>1. RecvI(x)
      BY <1>3, <2>2 DEF RecvBlock, RecvR, RecvIfs, RecvAbort, RecvWtx, RecvResynch, RecvKeyOrCard,
                        RecvDropped, RecvS
    <3>2. QED
      BY <2>1, <2>2, <3>1, PassI DEF HGoes
  <2>3. CASE x.type = "R"
    <3>1. RecvR(x)
      BY <1>3, <2>3 DEF RecvBlock, RecvI, RecvIfs, RecvAbort, RecvWtx, RecvResynch, RecvKeyOrCard,
                        RecvDropped, RecvS
    <3>2. QED
      BY <2>1, <2>3, <3>1, PassR DEF HGoes
  <2>4. CASE x.type = "S"
    <3>1. RecvIfs(x) \/ RecvAbort(x) \/ RecvWtx(x) \/ RecvResynch(x) \/ RecvKeyOrCard(x) \/ RecvDropped(x)
      BY <1>3, <2>4 DEF RecvBlock, RecvI, RecvR
    <3>2. QED
      BY <2>4, <3>1, PassS DEF HGoes
  <2>5. QED
    BY <2>1, <2>2, <2>3, <2>4
<1>4. QED
  BY <1>1, <1>2, <1>3 DEF Pass

\* A slice of the numbered command.
LEMMA SliceFacts ==
  ASSUME NEW s \in Seq(Units), NEW k, Numbered(s, k, 0), NEW a \in Nat, NEW b \in Nat, a <= b, b <= Len(s)
  PROVE  /\ SubSeq(s, a + 1, b) \in Seq(Units) /\ Len(SubSeq(s, a + 1, b)) = b - a
         /\ Numbered(SubSeq(s, a + 1, b), k, a)
<1> DEFINE t == SubSeq(s, a + 1, b)
<1>1. t \in Seq(Units) /\ Len(t) = b - a
  OBVIOUS
<1>2. \A i \in 1 .. b - a : t[i] = s[a + i] /\ a + i \in 1 .. Len(s)
  OBVIOUS
<1> HIDE DEF t
<1>3. \A i \in 1 .. Len(t) : t[i] = <<k, a + i>>
  <2> SUFFICES ASSUME NEW i \in 1 .. Len(t) PROVE t[i] = <<k, a + i>>
    OBVIOUS
  <2>1. t[i] = s[a + i] /\ a + i \in 1 .. Len(s)
    BY <1>1, <1>2
  <2>2. s[a + i] = <<k, 0 + (a + i)>>
    BY <2>1 DEF Numbered
  <2>3. QED
    BY <2>1, <2>2
<1>4. QED
  BY <1>1, <1>3 DEF t, Numbered

LEMMA NextBlock ==
  ASSUME NEW c \in Seq(Units), NEW k, Numbered(c, k, 0), NEW from \in Nat, from < Len(c),
         ifsc \in Nat \ {0}, NEW n \in Bit, NextIBlock(n, c, from)
  PROVE  /\ block' \in LinkI /\ block'.n = n /\ block'.more = more' /\ more' \in BOOLEAN
         /\ sendptr' \in Nat /\ sendptr' <= Len(c) /\ sendptr' > from
         /\ Len(block'.data) = sendptr' - from /\ Numbered(block'.data, k, from)
         /\ more' <=> sendptr' < Len(c)
<1> DEFINE l == MinOf(Len(c) - from, ifsc)
           d == SubSeq(c, from + 1, from + l)
           m == l # Len(c) - from
<1>1. /\ more' = m /\ sendptr' = from + l /\ block' = cjT1IBlock(n, m, d)
  BY DEF NextIBlock
<1>2. Len(c) \in Nat
  OBVIOUS
<1>3. l \in Nat /\ l > 0 /\ from + l <= Len(c)
  BY <1>2 DEF MinOf
<1>4. m <=> from + l < Len(c)
  BY <1>2, <1>3
<1> HIDE DEF l
<1>5. d \in Seq(Units) /\ Len(d) = l /\ Numbered(d, k, from)
  BY <1>3, SliceFacts
<1>6. d # <<>>
  BY <1>3, <1>5
<1> HIDE DEF d, m
<1>7. /\ block'.n = n /\ block'.more = m /\ block'.data = d
  BY <1>1 DEF cjT1IBlock
<1>8. m \in BOOLEAN
  BY DEF m
<1>9. block' \in LinkI
  BY <1>1, <1>5, <1>6, <1>8 DEF cjT1IBlock, LinkI
<1>10. sendptr' \in Nat /\ sendptr' <= Len(c) /\ sendptr' > from /\ sendptr' - from = l
  BY <1>1, <1>3
<1>11. QED
  BY <1>1, <1>4, <1>5, <1>7, <1>8, <1>9, <1>10

-----------------------------------------------------------------------------
(* The host: what its steps do to the line.                                *)

LGoes(rest) ==
  /\ pc' # "idle" /\ session' = session /\ damaged' = damaged
  /\ toReader' = toReader \o tx' /\ toHost' \in {rest, <<>>}
  /\ UNCHANGED <<reader, executed, requests>>

LEnds(rest) ==
  /\ pc' = "idle"
  /\ \/ /\ session = "eject" /\ session' = "closed" /\ toHost' = <<>>
        /\ toReader' = IF Kernel THEN Append(toReader, Detach) ELSE <<>>
     \/ /\ session = "open" /\ session' = IF ret' \in {"OK", "BAD_PARAM"} THEN "open" ELSE "eject"
        /\ toHost' = rest /\ toReader' = toReader
  /\ damaged' = IF WriteFailed THEN damaged + 1 ELSE damaged
  /\ UNCHANGED <<reader, executed, requests>>

LEMMA HostGoes ==
  ASSUME LinkTypes, session \in {"open", "eject"}, NEW rest, HostStep(rest), pc' # "idle"
  PROVE  LGoes(rest)
<1>1. session' = session /\ session # "closed"
  BY DEF HostStep, AfterCall
<1>2. ~WriteFailed
  BY DEF WriteFailed
<1>3. toReader' = toReader \o tx' /\ toHost' \in {rest, <<>>}
  BY <1>1 DEF HostStep, AfterSend
<1>4. QED
  BY <1>1, <1>2, <1>3 DEF HostStep, LGoes

LEMMA HostEnds ==
  ASSUME LinkTypes, session \in {"open", "eject"}, NEW rest, HostStep(rest), pc' = "idle", tx' = <<>>
  PROVE  LEnds(rest)
<1>1. toReader \o tx' = toReader
  BY DEF LinkTypes
<1>2. AfterSend(rest) = rest
  BY DEF AfterSend
<1>3. /\ session' = AfterCall
      /\ IF session' # "closed" THEN toReader' = toReader \o tx' /\ toHost' = AfterSend(rest)
         ELSE toReader' = (IF Kernel THEN Append(toReader, Detach) ELSE <<>>) /\ toHost' = <<>>
      /\ damaged' = IF WriteFailed THEN damaged + 1 ELSE damaged
      /\ UNCHANGED <<reader, executed, requests>>
  BY DEF HostStep
<1>4. CASE session = "eject"
  <2>1. session' = "closed"
    BY <1>3, <1>4 DEF AfterCall
  <2>2. QED
    BY <1>3, <1>4, <2>1 DEF LEnds
<1>5. CASE session = "open"
  <2>1. session' = IF ret' \in {"OK", "BAD_PARAM"} THEN "open" ELSE "eject"
    BY <1>3, <1>5 DEF AfterCall
  <2>2. session' # "closed"
    BY <2>1
  <2>3. QED
    BY <1>1, <1>2, <1>3, <1>5, <2>1, <2>2 DEF LEnds
<1>6. QED
  BY <1>4, <1>5

HSubmits(c, max) ==
  /\ session \in {"open", "eject"} /\ pc = "idle"
  /\ c # <<>> /\ Numbered(c, Call + 1, 0) /\ calls' = Append(calls, c)
  /\ cmd' = c /\ maxRspLen' = max /\ NextIBlock(ns, c, 0)
  /\ errcntr' = 0 /\ rerrcntr' = 0 /\ wtxcntr' = 0 /\ lastiicc' = FALSE /\ rsplen' = 0 /\ rsp' = <<>>
  /\ \/ pc' = "recv" /\ tx' = <<block'>> /\ ret' = ret /\ LGoes(toHost)
     \/ pc' = "idle" /\ tx' = <<>> /\ ret' = "IO_ERROR" /\ LEnds(toHost)
  /\ UNCHANGED <<ns, nr, ifsc, missing, device>>

LEMMA CommandFacts ==
  ASSUME NEW k \in Nat, NEW n \in Nat, n > 0
  PROVE  CommandBytes(k, n) \in Seq(Units) /\ CommandBytes(k, n) # <<>> /\ Numbered(CommandBytes(k, n), k, 0)
<1> DEFINE c == CommandBytes(k, n)
<1>1. c = [i \in 1 .. n |-> <<k, i>>]
  BY DEF CommandBytes
<1>2. \A i \in 1 .. n : <<k, i>> \in Units
  BY DEF Units
<1>3. c \in Seq(Units) /\ Len(c) = n /\ \A i \in 1 .. n : c[i] = <<k, i>>
  BY <1>1, <1>2
<1> HIDE DEF c
<1>4. Numbered(c, k, 0)
  <2> SUFFICES ASSUME NEW i \in 1 .. Len(c) PROVE c[i] = <<k, 0 + i>>
    BY DEF Numbered
  <2>1. 0 + i = i
    BY <1>3
  <2>2. QED
    BY <1>3, <2>1
<1>5. QED
  BY <1>3, <1>4 DEF c

LEMMA Submitting ==
  ASSUME LinkTypes, HostSend \/ HostEject, UNCHANGED device
  PROVE  \E c \in Seq(Units), max \in Nat : HSubmits(c, max) /\ (session = "open" => max \in MaxRspLens)
<1>1. Call \in Nat /\ calls \in Seq(Seq(Units))
  BY DEF LinkTypes, Call
<1>2. PICK n \in Nat, max \in Nat :
        /\ n > 0 /\ SendCmd(CommandBytes(Call + 1, n), max) /\ (session = "open" => max \in MaxRspLens)
        /\ calls' = Append(calls, CommandBytes(Call + 1, n))
        /\ session \in {"open", "eject"} /\ HostStep(toHost) /\ UNCHANGED missing
  <2>1. CASE HostSend
    BY <2>1, LimitFacts DEF HostSend, Call
  <2>2. CASE HostEject
    BY <2>2 DEF HostEject, Call
  <2>3. QED
    BY <2>1, <2>2
<1> DEFINE c == CommandBytes(Call + 1, n)
<1>3. c \in Seq(Units) /\ c # <<>> /\ Numbered(c, Call + 1, 0)
  BY <1>1, <1>2, CommandFacts
<1>4. SendCmd(c, max) /\ calls' = Append(calls, c)
  BY <1>2
<1> HIDE DEF c
<1>5. /\ pc = "idle" /\ cmd' = c /\ maxRspLen' = max /\ NextIBlock(ns, c, 0)
      /\ errcntr' = 0 /\ rerrcntr' = 0 /\ wtxcntr' = 0 /\ lastiicc' = FALSE /\ rsplen' = 0 /\ rsp' = <<>>
      /\ UNCHANGED <<ns, nr, ifsc>>
      /\ \/ pc' = "recv" /\ ret' = ret /\ tx' = <<block'>>
         \/ Return("IO_ERROR")
  BY <1>4 DEF SendCmd, link
<1>6. CASE pc' = "recv" /\ ret' = ret /\ tx' = <<block'>>
  <2>1. LGoes(toHost)
    BY <1>2, <1>6, HostGoes
  <2>2. HSubmits(c, max)
    BY <1>2, <1>3, <1>4, <1>5, <1>6, <2>1 DEF HSubmits
  <2>3. QED
    BY <1>2, <1>3, <2>2
<1>7. CASE Return("IO_ERROR")
  <2>1. pc' = "idle" /\ tx' = <<>> /\ ret' = "IO_ERROR"
    BY <1>7 DEF Return
  <2>2. LEnds(toHost)
    BY <1>2, <2>1, HostEnds
  <2>3. HSubmits(c, max)
    BY <1>2, <1>3, <1>4, <1>5, <2>1, <2>2 DEF HSubmits
  <2>4. QED
    BY <1>2, <1>3, <2>3
<1>8. QED
  BY <1>5, <1>6, <1>7

\* A pass through the loop, with the block x it reads and what it leaves.
Passes(x, rest) ==
  /\ session \in {"open", "eject"} /\ pc # "idle" /\ x \in Line
  /\ x.type = "S" => x \in Requests \cup {Resynched}
  /\ \/ /\ pc = "recv" /\ LGoes(rest)
        /\ HGoes(x) \/ HAnswers(x)
     \/ /\ LEnds(rest)
        /\ (pc = "recv" /\ HLast(x)) \/ HFails(x)
  /\ UNCHANGED <<calls, device>>

LEMMA Passing ==
  ASSUME LinkTypes, HostOK, session \in {"open", "eject"}, NEW x \in Line, NEW rest,
         x.type = "S" => x \in Requests \cup {Resynched},
         Pass(x), HostStep(rest), UNCHANGED <<calls, device>>
  PROVE  Passes(x, rest)
<1>1. CASE pc = "recv" /\ (HGoes(x) \/ HAnswers(x))
  <2>1. pc' # "idle"
    BY <1>1 DEF HGoes, HAsks, HAcks, HResends, HNext, HRefuses, HPart, HDrops, HAnswers
  <2>2. LGoes(rest)
    BY <2>1, HostGoes
  <2>3. QED
    BY <1>1, <2>2 DEF Passes
<1>2. CASE (pc = "recv" /\ HLast(x)) \/ (pc # "idle" /\ HFails(x))
  <2>1. pc' = "idle" /\ tx' = <<>>
    BY <1>2 DEF HLast, HFails
  <2>2. LEnds(rest)
    BY <2>1, HostEnds
  <2>3. pc # "idle"
    BY <1>2
  <2>4. QED
    BY <1>2, <2>2, <2>3 DEF Passes
<1>3. QED
  BY <1>1, <1>2, PassFacts

LEMMA LineFacts ==
  ASSUME LinkTypes
  PROVE  /\ toReader \in Seq(Line) /\ toHost \in Seq(Line) /\ Call \in Nat /\ calls \in Seq(Seq(Units))
         /\ LinkI \subseteq Line /\ RBlocks \subseteq Line /\ SBlocks \subseteq Line /\ BadBlock \in Line
         /\ Requests \subseteq Line /\ Detach \in Line /\ Resynch \in Line /\ Resynched \in Line
BY RequestFacts, SpecialFacts DEF LinkTypes, Line, LinkBlocks, Call

LEMMA Receiving1 ==
  ASSUME LinkTypes, HostOK, ReaderOK, HostReceive, UNCHANGED device
  PROVE  toHost # <<>> /\ Passes(toHost[1], Tail(toHost)) /\ UNCHANGED missing
<1>1. toHost # <<>> /\ toHost \in Seq(Line)
  BY LineFacts DEF HostReceive
<1>2. Head(toHost) = toHost[1] /\ toHost[1] \in Line /\ 1 \in 1 .. Len(toHost)
  BY <1>1, TailFacts
<1>3. toHost[1].type = "S" => toHost[1] \in Requests \cup {Resynched}
  BY <1>2 DEF ReaderOK
<1>4. Pass(toHost[1])
  BY <1>2 DEF HostReceive, Pass
<1>5. session \in {"open", "eject"} /\ HostStep(Tail(toHost)) /\ UNCHANGED <<calls, missing>>
  BY DEF HostReceive
<1> DEFINE x == toHost[1]
           rest == Tail(toHost)
<1> HIDE DEF x, rest
<1>6. x \in Line /\ (x.type = "S" => x \in Requests \cup {Resynched}) /\ Pass(x) /\ HostStep(rest)
  BY <1>2, <1>3, <1>4, <1>5 DEF x, rest
<1>7. Passes(x, rest)
  BY <1>5, <1>6, Passing
<1>8. QED
  BY <1>1, <1>5, <1>7 DEF x, rest

LEMMA TimingOut ==
  ASSUME LinkTypes, HostOK, HostTimeout, UNCHANGED device
  PROVE  /\ toHost = <<>> /\ Passes(BadBlock, <<>>) /\ Kernel
         /\ missing' = IF toReader = <<>> THEN missing ELSE missing + 1
         /\ missing' <= MaxMissing
<1>1. Pass(BadBlock)
  BY DEF HostTimeout, Pass
<1>2. BadBlock \in Line /\ BadBlock.type # "S"
  BY KindFacts DEF Line
<1>3. Passes(BadBlock, <<>>)
  <2>1. session \in {"open", "eject"} /\ HostStep(<<>>) /\ UNCHANGED calls
    BY DEF HostTimeout
  <2> DEFINE rest == <<>>
  <2>2. HostStep(rest)
    BY <2>1
  <2> HIDE DEF rest
  <2>3. Passes(BadBlock, rest)
    BY <1>1, <1>2, <2>1, <2>2, Passing
  <2>4. QED
    BY <2>3 DEF rest
<1>4. QED
  BY <1>3 DEF HostTimeout

-----------------------------------------------------------------------------
(* The reader: what its steps come down to.                                *)

LEMMA ReplyFacts ==
  ASSUME NEW n \in Bit, NEW out \in Seq(Units), out # <<>>
  PROVE  LET b == ReaderIBlock(n, out)
         IN  /\ b \in LinkI /\ b.type = "I" /\ b.n = n /\ b # BadBlock
             /\ b.more <=> ReaderIfs < Len(out)
             /\ b.more => Len(b.data) = ReaderIfs /\ b.data = SubSeq(out, 1, ReaderIfs)
             /\ ~b.more => b.data = out
<1> DEFINE len == MinOf(Len(out), ReaderIfs)
           d == SubSeq(out, 1, len)
           m == len < Len(out)
           b == ReaderIBlock(n, out)
<1>1. b = cjT1IBlock(n, m, d)
  BY DEF ReaderIBlock
<1>2. Len(out) \in Nat /\ Len(out) > 0 /\ ReaderIfs \in Nat /\ ReaderIfs > 0
  BY LimitFacts
<1>3. /\ len \in Nat /\ len > 0 /\ len <= Len(out)
      /\ m <=> ReaderIfs < Len(out)
      /\ m => len = ReaderIfs
      /\ ~m => len = Len(out)
  BY <1>2 DEF MinOf
<1> HIDE DEF len
<1>4. d \in Seq(Units) /\ Len(d) = len /\ d # <<>> /\ (len = Len(out) => d = out)
  <2>1. d \in Seq(Units) /\ Len(d) = len
    BY <1>2, <1>3
  <2>2. d # <<>>
    BY <1>3, <2>1
  <2>3. ASSUME len = Len(out) PROVE d = out
    BY <2>3
  <2>4. QED
    BY <2>1, <2>2, <2>3
<1>5. m => d = SubSeq(out, 1, ReaderIfs)
  BY <1>3
<1>6. m \in BOOLEAN
  OBVIOUS
<1> HIDE DEF d, m
<1>7. b.type = "I" /\ b.n = n /\ b.more = m /\ b.data = d
  BY <1>1 DEF cjT1IBlock
<1>8. b \in LinkI
  BY <1>1, <1>4, <1>6 DEF cjT1IBlock, LinkI
<1>9. b # BadBlock
  BY <1>7, KindFacts
<1> HIDE DEF b
<1>10. QED
  BY <1>3, <1>4, <1>5, <1>7, <1>8, <1>9 DEF b

LEMMA ResponseFacts ==
  ASSUME NEW e \in Nat, NEW n \in RspLens
  PROVE  ResponseBytes(e, n) \in Seq(Units) /\ Len(ResponseBytes(e, n)) = n /\ n \in Nat /\ n >= 2
<1> DEFINE c == ResponseBytes(e, n)
<1>1. c = [i \in 1 .. n |-> <<-e, i>>]
  BY DEF ResponseBytes
<1>2. n \in Nat /\ n >= 2
  BY LimitFacts
<1>3. \A i \in 1 .. n : <<-e, i>> \in Units
  BY <1>2 DEF Units
<1>4. QED
  BY <1>1, <1>2, <1>3

LEMMA ErrorFacts ==
  ASSUME LinkTypes
  PROVE  /\ ReaderError \in RBlocks /\ ReaderError.type = "R" /\ ReaderError.n = rnr
         /\ ReaderError.err = "edc" /\ ReaderError # BadBlock
BY KindFacts DEF ReaderError, LinkTypes, RBlocks

\* It sends y again; nothing else happens.
REchoes(y) == Reply(y) /\ UNCHANGED <<rns, rnr, rbuf, rout, rkeep, rnext, executed, requests>>

ROnBad(b) ==
  /\ b = BadBlock
  /\ REchoes(IF rlast.type = "S" THEN rlast ELSE ReaderError)

ROnOld(b) ==
  /\ b \in LinkI /\ b.n # rnr
  /\ REchoes(IF rkeep # BadBlock THEN rkeep ELSE ReaderError)

RTakes(b) ==
  /\ b \in LinkI /\ b.n = rnr /\ b.more
  /\ rnr' = Flip(rnr) /\ rbuf' = rbuf \o b.data
  /\ ReplyOrAsk([type |-> "R", n |-> Flip(rnr), err |-> "ok"])
  /\ UNCHANGED <<rns, rout, executed>>

RExecutes(b, r) ==
  /\ b \in LinkI /\ b.n = rnr /\ ~b.more /\ Len(r) \in RspLens
  /\ rnr' = Flip(rnr) /\ rbuf' = <<>> /\ rns' = Flip(rns) /\ rout' = r
  /\ executed' = Append(executed, [cmd |-> rbuf \o b.data, rsp |-> r])
  /\ ReplyOrAsk(ReaderIBlock(rns, r))

RGoesOn(b) ==
  /\ b \in RBlocks /\ Acknowledges(b) /\ rkeep \in LinkI /\ rkeep.more
  /\ rns' = Flip(rns) /\ rout' = SubSeq(rout, Len(rkeep.data) + 1, Len(rout))
  /\ ReplyOrAsk(ReaderIBlock(rns, rout'))
  /\ UNCHANGED <<rnr, rbuf, executed>>

ROnR(b) ==
  /\ b \in RBlocks /\ ~(Acknowledges(b) /\ rkeep.more)
  /\ LET again == IF b.err = "ok" THEN rkeep ELSE rlast
     IN  REchoes(IF Acknowledges(b) \/ again = BadBlock THEN ReaderError ELSE again)

RResets(b) ==
  /\ b \in SBlocks /\ b.cmd = "RESYNCH"
  /\ rns' = 0 /\ rnr' = 0 /\ rbuf' = <<>> /\ rout' = <<>> /\ rnext' = <<>>
  /\ rkeep' = BadBlock /\ rlast' = BadBlock /\ toHost' = Append(toHost, Resynched)
  /\ UNCHANGED <<executed, requests>>

RResumes(b) ==
  /\ b \in SBlocks /\ b.cmd # "RESYNCH" /\ b # Detach /\ rnext # <<>>
  /\ ReplyOrAsk(rnext[1])
  /\ rbuf' = IF b.cmd = "ABORT" THEN <<>> ELSE rbuf
  /\ UNCHANGED <<rns, rnr, rout, executed>>

RIgnores(b) ==
  /\ b \in SBlocks /\ b.cmd # "RESYNCH" /\ (b = Detach \/ rnext = <<>>)
  /\ UNCHANGED <<reader, toHost, requests, executed>>

RReads ==
  /\ toReader # <<>> /\ toReader' = Tail(toReader)
  /\ UNCHANGED <<vars, session, calls, damaged, missing, device>>

RSteps(b) ==
  \/ ROnBad(b) \/ ROnOld(b) \/ RTakes(b) \/ (\E r \in Seq(Units) : RExecutes(b, r))
  \/ RGoesOn(b) \/ ROnR(b) \/ RResets(b) \/ RResumes(b) \/ RIgnores(b)

LEMMA Reading ==
  ASSUME LinkTypes, ReaderStep, UNCHANGED device
  PROVE  RReads /\ RSteps(toReader[1]) /\ toReader[1] \in Line
<1>1. RReads
  BY DEF ReaderStep, RReads
<1>2. toReader \in Seq(Line) /\ toReader # <<>>
  BY LineFacts DEF ReaderStep
<1> DEFINE b == toReader[1]
<1>3. b = Head(toReader) /\ b \in Line
  BY <1>2, TailFacts
<1>4. ReaderBad(b) \/ ReaderI(b) \/ ReaderR(b) \/ ReaderS(b)
  BY <1>3 DEF ReaderStep
<1> HIDE DEF b
<1>5. /\ b.type = "I" <=> b \in LinkI
      /\ b.type = "R" <=> b \in RBlocks
      /\ b.type = "S" <=> b \in SBlocks
      /\ b.type = "I" => b.rc = TRUE
      /\ BadBlock.type = "BAD"
  BY <1>3, TypeTells, KindFacts DEF Line
<1>6. CASE ReaderBad(b)
  <2>1. b = BadBlock
    BY <1>5, <1>6 DEF ReaderBad
  <2>2. (IF rlast # BadBlock /\ rlast.type = "S" THEN rlast ELSE ReaderError)
          = (IF rlast.type = "S" THEN rlast ELSE ReaderError)
    BY <1>5
  <2>3. ROnBad(b)
    BY <1>6, <2>1, <2>2 DEF ReaderBad, ROnBad, REchoes
  <2>4. QED
    BY <1>1, <1>3, <2>3 DEF RSteps, b
<1>7. CASE ReaderI(b)
  <2>1. b \in LinkI
    BY <1>5, <1>7 DEF ReaderI
  <2>2. CASE b.n # rnr
    <3>1. ROnOld(b)
      BY <1>7, <2>1, <2>2 DEF ReaderI, ROnOld, REchoes
    <3>2. QED
      BY <1>1, <1>3, <3>1 DEF RSteps, b
  <2>3. CASE b.n = rnr /\ b.more
    <3>1. /\ rnr' = Flip(rnr) /\ rbuf' = rbuf \o b.data
          /\ ReplyOrAsk([type |-> "R", n |-> rnr', err |-> "ok"])
          /\ UNCHANGED <<rns, rout, executed>>
      BY <1>7, <2>3 DEF ReaderI
    <3>2. ReplyOrAsk([type |-> "R", n |-> Flip(rnr), err |-> "ok"])
      BY <3>1
    <3>3. RTakes(b)
      BY <2>1, <2>3, <3>1, <3>2 DEF RTakes
    <3>4. QED
      BY <1>1, <1>3, <3>3 DEF RSteps, b
  <2>4. CASE b.n = rnr /\ ~b.more
    <3>1. /\ rnr' = Flip(rnr) /\ rbuf' = <<>> /\ rns' = Flip(rns)
          /\ \E n \in RspLens :
               LET r == ResponseBytes(Len(executed) + 1, n)
               IN  /\ executed' = Append(executed, [cmd |-> rbuf \o b.data, rsp |-> r])
                   /\ rout' = r
                   /\ ReplyOrAsk(ReaderIBlock(rns, r))
      BY <1>7, <2>4 DEF ReaderI
    <3>2. PICK n \in RspLens :
            /\ executed' = Append(executed, [cmd |-> rbuf \o b.data, rsp |-> ResponseBytes(Len(executed) + 1, n)])
            /\ rout' = ResponseBytes(Len(executed) + 1, n)
            /\ ReplyOrAsk(ReaderIBlock(rns, ResponseBytes(Len(executed) + 1, n)))
      BY <3>1
    <3>3. Len(executed) + 1 \in Nat
      BY DEF LinkTypes
    <3> DEFINE r == ResponseBytes(Len(executed) + 1, n)
    <3>4. r \in Seq(Units) /\ Len(r) \in RspLens
      BY <3>3, ResponseFacts
    <3>5. RExecutes(b, r)
      BY <2>1, <2>4, <3>1, <3>2, <3>4 DEF RExecutes
    <3>6. QED
      BY <1>1, <1>3, <3>4, <3>5 DEF RSteps, b
  <2>5. QED
    BY <2>2, <2>3, <2>4
<1>8. CASE ReaderR(b)
  <2>1. b \in RBlocks /\ UNCHANGED <<rnr, rbuf, executed>>
    BY <1>5, <1>8 DEF ReaderR
  <2>2. CASE Acknowledges(b) /\ rkeep.more
    <3>1. rkeep.type = "I" /\ rkeep \in Line
      BY <2>2 DEF Acknowledges, LinkTypes, Line
    <3>2. rkeep \in LinkI
      BY <3>1, TypeTells DEF Line
    <3>3. /\ rns' = Flip(rns) /\ rout' = SubSeq(rout, Len(rkeep.data) + 1, Len(rout))
          /\ ReplyOrAsk(ReaderIBlock(rns, rout'))
      BY <1>8, <2>2 DEF ReaderR
    <3>4. RGoesOn(b)
      BY <2>1, <2>2, <3>2, <3>3 DEF RGoesOn
    <3>5. QED
      BY <1>1, <1>3, <3>4 DEF RSteps, b
  <2>3. CASE ~(Acknowledges(b) /\ rkeep.more)
    <3>1. ROnR(b)
      BY <1>8, <2>1, <2>3 DEF ReaderR, ROnR, REchoes
    <3>2. QED
      BY <1>1, <1>3, <3>1 DEF RSteps, b
  <2>4. QED
    BY <2>2, <2>3
<1>9. CASE ReaderS(b)
  <2>1. b \in SBlocks
    BY <1>5, <1>9 DEF ReaderS
  <2>2. RResets(b) \/ RResumes(b) \/ RIgnores(b)
    BY <1>9, <2>1 DEF ReaderS, RResets, RResumes, RIgnores, Resynched
  <2>3. QED
    BY <1>1, <1>3, <2>2 DEF RSteps, b
<1>10. QED
  BY <1>4, <1>6, <1>7, <1>8, <1>9

-----------------------------------------------------------------------------
(* The types are kept.                                                     *)

Basics == LinkTypes /\ HostOK /\ ReaderOK

LEMMA HostTypes ==
  ASSUME LinkTypes, NEW rest \in Seq(Line), LGoes(rest) \/ LEnds(rest), tx' \in Seq(Line),
         ns' \in Bit, nr' \in Bit, ifsc' \in Nat \ {0}, pc' \in {"idle", "recv", "abort"}, ret' \in Result,
         calls' \in Seq(Seq(Units)), missing' \in 0 .. MaxMissing, device' = device
  PROVE  LinkTypes'
<1>1. toReader \in Seq(Line) /\ Detach \in Line
  BY LineFacts
<1>2. toReader' \in Seq(Line) /\ toHost' \in Seq(Line)
  <2>1. toReader \o tx' \in Seq(Line) /\ Append(toReader, Detach) \in Seq(Line) /\ <<>> \in Seq(Line)
    BY <1>1
  <2>2. toReader' \in {toReader, toReader \o tx', Append(toReader, Detach), <<>>} /\ toHost' \in {rest, <<>>}
    BY DEF LGoes, LEnds
  <2>3. QED
    BY <1>1, <2>1, <2>2
<1>3. session' \in Sessions /\ damaged' \in Nat
  <2>1. session \in Sessions /\ damaged \in Nat
    BY DEF LinkTypes
  <2>2. session' \in {session, "closed", "open", "eject"} /\ damaged' \in {damaged, damaged + 1}
    BY DEF LGoes, LEnds
  <2>3. QED
    BY <2>1, <2>2 DEF Sessions
<1>4. UNCHANGED <<reader, executed, requests>>
  BY DEF LGoes, LEnds
<1>5. UNCHANGED <<rns, rnr, rbuf, rout, rlast, rkeep, rnext>>
  BY <1>4 DEF reader
<1>6. QED
  BY <1>2, <1>3, <1>4, <1>5 DEF LinkTypes, Line

LEMMA ReaderKept ==
  ASSUME LinkTypes, ReaderOK, UNCHANGED reader,
         toHost' \in {toHost, Tail(toHost), <<>>, <<BadBlock>> \o Tail(toHost)}, toHost # <<>> \/ toHost' = <<>>
  PROVE  ReaderOK'
<1>1. UNCHANGED <<rns, rnr, rbuf, rout, rlast, rkeep, rnext>>
  BY DEF reader
<1>2. Kept' = Kept
  BY <1>1 DEF Kept
<1>3. \A i \in 1 .. Len(toHost') : toHost'[i].type = "S" => toHost'[i] \in Requests \cup {Resynched}
  <2>1. CASE toHost' = <<>>
    BY <2>1
  <2>2. CASE toHost # <<>>
    <3>1. toHost \in Seq(Line)
      BY LineFacts
    <3>2. \A i \in 1 .. Len(toHost) : toHost[i].type = "S" => toHost[i] \in Requests \cup {Resynched}
      BY DEF ReaderOK
    <3>3. CASE toHost' = toHost
      BY <3>2, <3>3
    <3>4. CASE toHost' = Tail(toHost)
      BY <2>2, <3>1, <3>2, <3>4, TailFacts
    <3>5. CASE toHost' = <<BadBlock>> \o Tail(toHost)
      <4> DEFINE t == Tail(toHost)
      <4>1. t \in Seq(Line) /\ Len(t) = Len(toHost) - 1
        BY <2>2, <3>1, TailFacts
      <4>2. \A i \in 1 .. Len(t) : t[i].type = "S" => t[i] \in Requests \cup {Resynched}
        BY <2>2, <3>1, <3>2, TailFacts
      <4> HIDE DEF t
      <4>3. /\ Len(<<BadBlock>> \o t) = Len(t) + 1 /\ (<<BadBlock>> \o t)[1] = BadBlock
            /\ \A i \in 2 .. Len(t) + 1 : (<<BadBlock>> \o t)[i] = t[i - 1]
        BY <4>1
      <4>4. toHost' = <<BadBlock>> \o t
        BY <3>5 DEF t
      <4>5. QED
        BY <4>1, <4>2, <4>3, <4>4, KindFacts
    <3>6. QED
      BY <2>1, <3>3, <3>4, <3>5
  <2>3. QED
    BY <2>1, <2>2
<1>4. QED
  BY <1>1, <1>2, <1>3 DEF ReaderOK

LEMMA HostReader ==
  ASSUME LinkTypes, ReaderOK, NEW rest, LGoes(rest) \/ LEnds(rest),
         rest \in {toHost, Tail(toHost), <<>>}, toHost # <<>> \/ rest = <<>>
  PROVE  ReaderOK'
<1>1. toHost' \in {rest, <<>>} /\ UNCHANGED reader
  BY DEF LGoes, LEnds
<1>2. QED
  BY <1>1, ReaderKept

\* A call goes on with the I-block it has.
LEMMA CallGoes ==
  ASSUME HostOK, pc = "recv", pc' # "idle", session' = session, UNCHANGED <<apdu, calls>>,
         errcntr' \in Nat, rerrcntr' \in Nat, wtxcntr' \in Nat, rsplen' \in Nat, rsp' \in Seq(Units),
         lastiicc' = TRUE \/ (lastiicc' = lastiicc /\ ns' = ns)
  PROVE  HostOK'
<1>1. UNCHANGED <<cmd, maxRspLen, sendptr, more, block>>
  BY DEF apdu
<1>2. Call' = Call
  BY DEF Call
<1>3. Pos' = Pos
  BY <1>1 DEF Pos
<1>4. pc # "idle"
  OBVIOUS
<1>5. lastiicc' \in BOOLEAN
  BY <1>4 DEF HostOK
<1>6. QED
  BY <1>1, <1>2, <1>3, <1>4, <1>5 DEF HostOK

LEMMA SubmitBlock ==
  ASSUME LinkTypes, NEW c \in Seq(Units), NEW max \in Nat, HSubmits(c, max)
  PROVE  /\ block' \in LinkI /\ block'.n = ns /\ block'.more = more' /\ more' \in BOOLEAN
         /\ sendptr' \in Nat /\ sendptr' <= Len(c) /\ sendptr' > 0
         /\ Len(block'.data) = sendptr' /\ Numbered(block'.data, Call + 1, 0)
         /\ more' <=> sendptr' < Len(c)
         /\ Call' = Call + 1 /\ calls'[Call + 1] = c /\ calls' \in Seq(Seq(Units)) /\ calls' # <<>>
<1>1. /\ c # <<>> /\ Numbered(c, Call + 1, 0) /\ calls' = Append(calls, c)
      /\ NextIBlock(ns, c, 0) /\ ns \in Bit /\ ifsc \in Nat \ {0} /\ calls \in Seq(Seq(Units))
  BY DEF HSubmits, LinkTypes
<1>2. Len(c) > 0 /\ Len(c) \in Nat
  BY <1>1
<1>3. /\ block' \in LinkI /\ block'.n = ns /\ block'.more = more' /\ more' \in BOOLEAN
      /\ sendptr' \in Nat /\ sendptr' <= Len(c) /\ sendptr' > 0
      /\ Len(block'.data) = sendptr' - 0 /\ Numbered(block'.data, Call + 1, 0)
      /\ more' <=> sendptr' < Len(c)
  BY <1>1, <1>2, NextBlock
<1>4. Call' = Call + 1 /\ calls'[Call + 1] = c /\ calls' \in Seq(Seq(Units)) /\ calls' # <<>>
  BY <1>1 DEF Call
<1>5. Len(block'.data) = sendptr'
  <2> DEFINE d == Len(block'.data)
             p == sendptr'
  <2>1. d = p - 0 /\ p \in Nat
    BY <1>3
  <2> HIDE DEF d, p
  <2>2. d = p
    BY <2>1
  <2>3. QED
    BY <2>2 DEF d, p
<1>6. QED
  BY <1>3, <1>4, <1>5

LEMMA SubmitBasics ==
  ASSUME Basics, NEW c \in Seq(Units), NEW max \in Nat, HSubmits(c, max)
  PROVE  Basics'
<1>1. LinkTypes /\ HostOK /\ ReaderOK
  BY DEF Basics
<1>2. /\ block' \in LinkI /\ block'.n = ns /\ block'.more = more' /\ more' \in BOOLEAN
      /\ sendptr' \in Nat /\ sendptr' <= Len(c) /\ sendptr' > 0
      /\ Len(block'.data) = sendptr' /\ Numbered(block'.data, Call + 1, 0)
      /\ more' <=> sendptr' < Len(c)
      /\ Call' = Call + 1 /\ calls'[Call + 1] = c /\ calls' \in Seq(Seq(Units)) /\ calls' # <<>>
  BY <1>1, SubmitBlock
<1>3. /\ UNCHANGED <<ns, nr, ifsc, missing, device>> /\ ns \in Bit /\ nr \in Bit /\ ifsc \in Nat \ {0}
      /\ missing \in 0 .. MaxMissing /\ ret \in Result /\ toHost \in Seq(Line)
  BY <1>1, LineFacts DEF HSubmits, LinkTypes
<1>4. CASE pc' = "recv" /\ tx' = <<block'>> /\ ret' = ret /\ LGoes(toHost)
  <2>1. tx' \in Seq(Line)
    BY <1>1, <1>2, <1>4, LineFacts
  <2>2. LinkTypes'
    BY <1>1, <1>2, <1>3, <1>4, <2>1, HostTypes
  <2>3. ReaderOK'
    BY <1>1, <1>4, HostReader
  <2>4. HostOK'
    <3>1. session' = session /\ session \in {"open", "eject"}
      BY <1>4 DEF LGoes, HSubmits
    <3>2. /\ cmd' = c /\ maxRspLen' = max /\ Numbered(c, Call + 1, 0)
          /\ errcntr' = 0 /\ rerrcntr' = 0 /\ wtxcntr' = 0 /\ lastiicc' = FALSE /\ rsplen' = 0 /\ rsp' = <<>>
      BY DEF HSubmits
    <3>3. Pos' = 0
      <4>1. Pos' = sendptr' - Len(block'.data)
        BY DEF Pos
      <4> DEFINE d == Len(block'.data)
                 p == sendptr'
      <4>2. Pos' = p - d /\ d = p /\ p \in Nat
        BY <1>2, <4>1
      <4> HIDE DEF d, p
      <4>3. QED
        BY <4>2
    <3>4. rsp' \in Seq(Units) /\ lastiicc' \in BOOLEAN
      <4>1. rsp' \in Seq(Units)
        BY <3>2
      <4>2. lastiicc' \in BOOLEAN
        BY <3>2
      <4>3. QED
        BY <4>1, <4>2
    <3>5. Numbered(cmd', Call', 0) /\ Numbered(block'.data, Call', Pos') /\ cmd' = calls'[Call']
      BY <1>2, <3>2, <3>3
    <3>6. QED
      BY <1>2, <1>3, <1>4, <3>1, <3>2, <3>3, <3>4, <3>5 DEF HostOK
  <2>5. QED
    BY <2>2, <2>3, <2>4 DEF Basics
<1>5. CASE pc' = "idle" /\ tx' = <<>> /\ ret' = "IO_ERROR" /\ LEnds(toHost)
  <2>1. tx' \in Seq(Line) /\ ret' \in Result
    BY <1>5 DEF Result
  <2>2. LinkTypes'
    BY <1>1, <1>2, <1>3, <1>5, <2>1, HostTypes
  <2>3. ReaderOK'
    BY <1>1, <1>5, HostReader
  <2>4. HostOK'
    BY <1>5 DEF HostOK, LEnds
  <2>5. QED
    BY <2>2, <2>3, <2>4 DEF Basics
<1>6. QED
  BY <1>4, <1>5 DEF HSubmits

LEMMA CallFacts ==
  ASSUME LinkTypes, HostOK, pc # "idle"
  PROVE  /\ cmd = calls[Call] /\ calls # <<>> /\ cmd \in Seq(Units) /\ Numbered(cmd, Call, 0)
         /\ Call \in 1 .. Len(calls) /\ Call \in Nat
         /\ sendptr \in Nat /\ (more => sendptr < Len(cmd)) /\ session \in {"open", "eject"}
<1>1. /\ cmd = calls[Call] /\ calls # <<>> /\ Numbered(cmd, Call, 0) /\ sendptr \in Nat
      /\ (more => sendptr < Len(cmd)) /\ session \in {"open", "eject"}
  BY DEF HostOK
<1>2. calls \in Seq(Seq(Units))
  BY DEF LinkTypes
<1>3. Call \in 1 .. Len(calls) /\ Call \in Nat
  BY <1>1, <1>2 DEF Call
<1>4. cmd \in Seq(Units)
  BY <1>1, <1>2, <1>3
<1>5. QED
  BY <1>1, <1>3, <1>4

\* What is written out by a pass that goes on.
LEMMA PassWrites ==
  ASSUME LinkTypes, HostOK, pc = "recv", NEW x \in Line, HGoes(x) \/ HAnswers(x)
  PROVE  /\ tx' \in Seq(Line) /\ pc' \in {"recv", "abort"} /\ ret' = ret
         /\ ns' \in Bit /\ nr' \in Bit /\ ifsc' \in Nat \ {0}
         /\ HNext(x) => block' \in LinkI
<1>1. ns \in Bit /\ nr \in Bit /\ ifsc \in Nat \ {0} /\ Flip(ns) \in Bit /\ Flip(nr) \in Bit /\ AfterI \in Bit
  BY BitFacts DEF LinkTypes, AfterI
<1>2. block \in LinkI
  BY DEF HostOK
<1>3. ROk \in Line /\ \A e \in {"edc", "other"} : RErr(e) \in Line
  BY <1>1, BitFacts, RBlockFacts, LineFacts DEF ROk, RErr
<1>4. LinkI \subseteq Line /\ SBlocks \subseteq Line
  BY LineFacts
<1>5. CASE HNext(x)
  <2>1. /\ cmd \in Seq(Units) /\ Numbered(cmd, Call, 0) /\ sendptr \in Nat /\ sendptr < Len(cmd)
    BY <1>5, CallFacts DEF HNext
  <2>2. NextIBlock(ns', cmd, sendptr) /\ ns' = Flip(ns) /\ tx' = <<block'>>
    BY <1>5 DEF HNext
  <2>3. block' \in LinkI
    BY <1>1, <2>1, <2>2, NextBlock
  <2>4. QED
    BY <1>1, <1>4, <1>5, <2>2, <2>3 DEF HNext
<1>6. CASE HAnswers(x)
  <2>1. PICK r \in SBlocks : tx' = <<r>>
    BY <1>6 DEF HAnswers
  <2>2. tx' \in Seq(Line)
    BY <1>4, <2>1
  <2>3. QED
    BY <1>1, <1>5, <1>6, <2>2 DEF HAnswers
<1>7. CASE HAsks(x) \/ HAcks(x)
  <2>1. \E y \in Line : tx' = <<y>>
    BY <1>3, <1>7 DEF HAsks, HAcks
  <2>2. QED
    BY <1>1, <1>5, <1>7, <2>1 DEF HAsks, HAcks
<1>8. CASE HResends(x)
  <2>1. tx' \in Seq(Line)
    BY <1>2, <1>4, <1>8 DEF HResends
  <2>2. QED
    BY <1>1, <1>5, <1>8, <2>1 DEF HResends
<1>9. CASE HDrops(x)
  BY <1>1, <1>5, <1>9 DEF HDrops
<1>10. CASE HRefuses(x)
  <2>1. tx' \in Seq(Line)
    BY <1>3, <1>10 DEF HRefuses
  <2>2. QED
    BY <1>1, <1>5, <1>10, <2>1 DEF HRefuses, HTurns
<1>11. CASE HPart(x)
  <2>1. tx' \in Seq(Line)
    BY <1>3, <1>11 DEF HPart
  <2>2. QED
    BY <1>1, <1>5, <1>11, <2>1 DEF HPart, HReads, HTurns
<1>12. QED
  BY <1>5, <1>6, <1>7, <1>8, <1>9, <1>10, <1>11 DEF HGoes

LEMMA PassCall ==
  ASSUME LinkTypes, HostOK, pc = "recv", NEW x \in Line, HGoes(x) \/ HAnswers(x), pc' # "idle",
         session' = session, UNCHANGED calls
  PROVE  HostOK'
<1>1. /\ errcntr \in Nat /\ rerrcntr \in Nat /\ wtxcntr \in Nat /\ rsplen \in Nat /\ rsp \in Seq(Units)
      /\ maxRspLen \in Nat /\ lastiicc \in BOOLEAN
  BY DEF HostOK
<1>2. CASE HNext(x)
  <2>1. /\ cmd \in Seq(Units) /\ Numbered(cmd, Call, 0) /\ sendptr \in Nat /\ sendptr < Len(cmd)
        /\ session \in {"open", "eject"} /\ calls # <<>> /\ cmd = calls[Call]
    BY <1>2, CallFacts DEF HNext
  <2>2. NextIBlock(ns', cmd, sendptr) /\ ns' = Flip(ns) /\ ifsc \in Nat \ {0} /\ ns' \in Bit
    BY <1>2, BitFacts DEF HNext, LinkTypes
  <2>3. /\ block' \in LinkI /\ block'.n = ns' /\ block'.more = more' /\ more' \in BOOLEAN
        /\ sendptr' \in Nat /\ sendptr' <= Len(cmd) /\ sendptr' > sendptr
        /\ Len(block'.data) = sendptr' - sendptr /\ Numbered(block'.data, Call, sendptr)
        /\ more' <=> sendptr' < Len(cmd)
    BY <2>1, <2>2, NextBlock
  <2>4. Pos' = sendptr /\ Call' = Call
    <3>1. Pos' = sendptr' - Len(block'.data) /\ Call' = Call
      BY DEF Pos, Call
    <3> DEFINE d == Len(block'.data)
               p == sendptr'
    <3>2. Pos' = p - d /\ d = p - sendptr /\ p \in Nat /\ sendptr \in Nat
      BY <2>1, <2>3, <3>1
    <3> HIDE DEF d, p
    <3>3. QED
      BY <3>1, <3>2
  <2>5. UNCHANGED <<cmd, maxRspLen, wtxcntr, lastiicc, rsplen, rsp>> /\ errcntr' = 0 /\ rerrcntr' = 0
    BY <1>2 DEF HNext, response
  <2>6. Numbered(cmd', Call', 0) /\ Numbered(block'.data, Call', Pos') /\ cmd' = calls'[Call']
    BY <2>1, <2>3, <2>4, <2>5
  <2>7. QED
    BY <1>1, <2>1, <2>3, <2>4, <2>5, <2>6 DEF HostOK
<1>3. CASE ~HNext(x)
  <2>1. UNCHANGED apdu
    BY <1>3 DEF HGoes, HAsks, HAcks, HResends, HRefuses, HPart, HReads, HTurns, HDrops, HAnswers
  <2>2. lastiicc' = TRUE \/ (lastiicc' = lastiicc /\ ns' = ns)
    BY <1>3 DEF HGoes, HAsks, HAcks, HResends, HRefuses, HPart, HReads, HTurns, HDrops, HAnswers, response
  <2>3. errcntr' \in Nat /\ rerrcntr' \in Nat /\ wtxcntr' \in Nat
    BY <1>1, <1>3 DEF HGoes, HAsks, HAcks, HResends, HRefuses, HPart, HReads, HTurns, HDrops, HAnswers
  <2>4. rsplen' \in Nat /\ rsp' \in Seq(Units)
    <3>1. CASE HPart(x)
      <4>1. x \in LinkI
        BY <3>1, TypeTells DEF HPart, HReads, Line
      <4>2. x.data \in Seq(Units)
        BY <4>1, KindFacts
      <4>3. rsplen' = rsplen + Len(x.data) /\ rsp' \in {rsp, rsp \o x.data}
        BY <3>1 DEF HPart, HReads
      <4>4. rsp \o x.data \in Seq(Units) /\ Len(x.data) \in Nat
        BY <1>1, <4>2
      <4>5. rsp' \in Seq(Units)
        BY <1>1, <4>3, <4>4
      <4>6. rsplen' \in Nat
        <5> DEFINE d == Len(x.data)
        <5>1. rsplen' = rsplen + d /\ d \in Nat /\ rsplen \in Nat
          BY <1>1, <4>3, <4>4
        <5> HIDE DEF d
        <5>2. QED
          BY <5>1
      <4>7. QED
        BY <4>5, <4>6
    <3>2. CASE ~HPart(x)
      BY <1>1, <1>3, <3>2 DEF HGoes, HAsks, HAcks, HResends, HRefuses, HDrops, HAnswers, response
    <3>3. QED
      BY <3>1, <3>2
  <2>5. QED
    BY <2>1, <2>2, <2>3, <2>4, CallGoes
<1>4. QED
  BY <1>2, <1>3

LEMMA PassBasics ==
  ASSUME Basics, NEW x, NEW rest \in {Tail(toHost), <<>>}, toHost # <<>> \/ rest = <<>>,
         Passes(x, rest), missing' \in 0 .. MaxMissing
  PROVE  Basics'
<1>1. LinkTypes /\ HostOK /\ ReaderOK /\ x \in Line /\ UNCHANGED <<calls, device>>
  BY DEF Basics, Passes
<1>2. rest \in Seq(Line)
  <2>1. toHost \in Seq(Line)
    BY <1>1, LineFacts
  <2>2. CASE toHost # <<>>
    <3>1. Tail(toHost) \in Seq(Line) /\ <<>> \in Seq(Line)
      BY <2>1, <2>2, TailFacts
    <3>2. QED
      BY <3>1
  <2>3. CASE rest = <<>>
    BY <2>3
  <2>4. QED
    BY <2>2, <2>3
<1>3. calls' \in Seq(Seq(Units)) /\ ret \in Result
  BY <1>1 DEF LinkTypes
<1>4. CASE pc = "recv" /\ LGoes(rest) /\ (HGoes(x) \/ HAnswers(x))
  <2>1. /\ tx' \in Seq(Line) /\ pc' \in {"recv", "abort"} /\ ret' = ret
        /\ ns' \in Bit /\ nr' \in Bit /\ ifsc' \in Nat \ {0}
    BY <1>1, <1>4, PassWrites
  <2>2. LinkTypes'
    BY <1>1, <1>2, <1>3, <1>4, <2>1, HostTypes
  <2>3. HostOK'
    BY <1>1, <1>4, <2>1, PassCall DEF LGoes
  <2>4. ReaderOK'
    BY <1>1, <1>4, HostReader
  <2>5. QED
    BY <2>2, <2>3, <2>4 DEF Basics
<1>5. CASE LEnds(rest) /\ ((pc = "recv" /\ HLast(x)) \/ HFails(x))
  <2>1. /\ tx' = <<>> /\ pc' = "idle" /\ ret' \in Result
        /\ ns' \in Bit /\ nr' \in Bit /\ ifsc' \in Nat \ {0}
    <3>1. CASE HLast(x)
      BY <1>1, <3>1, BitFacts DEF HLast, HReads, HTurns, AfterI, LinkTypes, Result
    <3>2. CASE HFails(x)
      BY <3>2 DEF HFails, Result
    <3>3. QED
      BY <1>5, <3>1, <3>2
  <2>2. tx' \in Seq(Line)
    BY <2>1
  <2>3. LinkTypes'
    BY <1>1, <1>2, <1>3, <1>5, <2>1, <2>2, HostTypes
  <2>4. HostOK'
    BY <1>5, <2>1 DEF HostOK, LEnds
  <2>5. ReaderOK'
    BY <1>1, <1>5, HostReader
  <2>6. QED
    BY <2>3, <2>4, <2>5 DEF Basics
<1>6. QED
  BY <1>4, <1>5 DEF Passes

\* Block y goes out, or a request that holds it back.
Sends(y, z) ==
  /\ toHost' = Append(toHost, z) /\ rlast' = z /\ rkeep' = z /\ requests' \in Nat /\ z \in LinkBlocks
  /\ \/ z = y /\ rnext' = <<>>
     \/ z \in Requests /\ rnext' = <<y>>

LEMMA Sending1 ==
  ASSUME LinkTypes, NEW y \in LinkI \cup RBlocks, ReplyOrAsk(y)
  PROVE  \E z : Sends(y, z)
<1>1. requests \in Nat
  BY DEF LinkTypes
<1>2. CASE Reply(y) /\ rkeep' = y /\ rnext' = <<>> /\ UNCHANGED requests
  <2>1. Sends(y, y)
    BY <1>1, <1>2 DEF Sends, Reply, LinkBlocks
  <2>2. QED
    BY <2>1
<1>3. CASE \E q \in Requests :
             /\ requests < MaxRequests /\ missing + requests < MaxIncidents
             /\ requests' = requests + 1
             /\ Reply(q) /\ rkeep' = q /\ rnext' = <<y>>
  <2>1. PICK q \in Requests : requests' = requests + 1 /\ Reply(q) /\ rkeep' = q /\ rnext' = <<y>>
    BY <1>3
  <2>2. q \in LinkBlocks
    BY RequestFacts DEF LinkBlocks
  <2>3. Sends(y, q)
    BY <1>1, <2>1, <2>2 DEF Sends, Reply
  <2>4. QED
    BY <2>3
<1>4. QED
  BY <1>2, <1>3 DEF ReplyOrAsk

LEMMA AppendHost ==
  ASSUME LinkTypes, ReaderOK, NEW z \in LinkBlocks, z.type = "S" => z \in Requests \cup {Resynched},
         toHost' = Append(toHost, z)
  PROVE  /\ toHost' \in Seq(Line)
         /\ \A i \in 1 .. Len(toHost') : toHost'[i].type = "S" => toHost'[i] \in Requests \cup {Resynched}
<1>1. toHost \in Seq(Line) /\ z \in Line
  BY LineFacts DEF Line
<1>2. /\ Len(toHost') = Len(toHost) + 1 /\ toHost'[Len(toHost) + 1] = z /\ Len(toHost) \in Nat
      /\ \A i \in 1 .. Len(toHost) : toHost'[i] = toHost[i]
      /\ toHost' \in Seq(Line)
  BY <1>1
<1>3. \A i \in 1 .. Len(toHost) : toHost[i].type = "S" => toHost[i] \in Requests \cup {Resynched}
  BY DEF ReaderOK
<1>4. \A i \in 1 .. Len(toHost) + 1 : i = Len(toHost) + 1 \/ i \in 1 .. Len(toHost)
  BY <1>2
<1>5. QED
  BY <1>2, <1>3, <1>4

LEMMA SendsBasics ==
  ASSUME LinkTypes, ReaderOK, RReads, NEW y \in LinkI \cup RBlocks, NEW z, Sends(y, z),
         rns' \in Bit, rnr' \in Bit, rbuf' \in Seq(Units), rout' \in Seq(Units),
         executed' \in Seq([cmd : Seq(Units), rsp : Seq(Units)]),
         y.type = "I" /\ y.more => Len(y.data) < Len(rout')
  PROVE  LinkTypes' /\ ReaderOK'
<1>1. z \in LinkBlocks /\ rlast' = z /\ rkeep' = z /\ toHost' = Append(toHost, z) /\ requests' \in Nat
  BY DEF Sends
<1>2. y.type # "S" /\ y.type \in {"I", "R"}
  BY KindFacts
<1>3. z.type = "S" => z \in Requests \cup {Resynched}
  BY <1>2 DEF Sends
<1>4. /\ toHost' \in Seq(Line)
      /\ \A i \in 1 .. Len(toHost') : toHost'[i].type = "S" => toHost'[i] \in Requests \cup {Resynched}
  BY <1>1, <1>3, AppendHost
<1>5. toReader' \in Seq(Line)
  BY LineFacts, TailFacts DEF RReads
<1>6. UNCHANGED <<ns, nr, ifsc, pc, ret, session, device, calls, damaged, missing>>
  BY DEF RReads, vars, link
<1>7. rnext' = <<>> \/ (rnext' = <<rnext'[1]>> /\ rnext'[1] \in LinkI \cup RBlocks)
  BY DEF Sends
<1>8. LinkTypes'
  BY <1>1, <1>4, <1>5, <1>6, <1>7 DEF LinkTypes, Line
<1>9. CASE z = y /\ rnext' = <<>>
  <2>1. Kept' = y
    BY <1>1, <1>9 DEF Kept
  <2>2. QED
    BY <1>1, <1>2, <1>4, <1>8, <1>9, <2>1 DEF ReaderOK
<1>10. CASE z \in Requests /\ rnext' = <<y>>
  <2>1. rnext' # <<>> /\ rnext'[1] = y /\ z.type = "S"
    BY <1>10, RequestFacts
  <2>2. Kept' = y
    BY <2>1 DEF Kept
  <2>3. QED
    BY <1>1, <1>2, <1>4, <1>8, <1>10, <2>1, <2>2 DEF ReaderOK
<1>11. QED
  BY <1>9, <1>10 DEF Sends

\* What the reader sends again.
LEMMA EchoedFacts ==
  ASSUME LinkTypes, ReaderOK, NEW b, NEW y, REchoes(y),
         \/ ROnBad(b) /\ y = (IF rlast.type = "S" THEN rlast ELSE ReaderError)
         \/ y \in {rkeep, rlast, ReaderError} /\ y # BadBlock
  PROVE  y \in LinkBlocks /\ (y.type = "S" => y = rkeep /\ y \in Requests)
<1>1. rlast \in LinkBlocks \cup {BadBlock} /\ rkeep \in LinkBlocks \cup {BadBlock}
  BY DEF LinkTypes
<1>2. ReaderError \in LinkBlocks /\ ReaderError.type # "S" /\ BadBlock.type # "S"
  BY ErrorFacts, KindFacts DEF LinkBlocks
<1>3. QED
  BY <1>1, <1>2 DEF ReaderOK

LEMMA EchoBasics ==
  ASSUME LinkTypes, ReaderOK, RReads, NEW y \in LinkBlocks, y.type = "S" => y = rkeep /\ y \in Requests,
         REchoes(y)
  PROVE  LinkTypes' /\ ReaderOK'
<1>1. toHost' = Append(toHost, y) /\ rlast' = y
      /\ UNCHANGED <<rns, rnr, rbuf, rout, rkeep, rnext, executed, requests>>
  BY DEF REchoes, Reply
<1>2. /\ toHost' \in Seq(Line)
      /\ \A i \in 1 .. Len(toHost') : toHost'[i].type = "S" => toHost'[i] \in Requests \cup {Resynched}
  BY <1>1, AppendHost
<1>3. toReader' \in Seq(Line)
  BY LineFacts, TailFacts DEF RReads
<1>4. UNCHANGED <<ns, nr, ifsc, pc, ret, session, device, calls, damaged, missing>>
  BY DEF RReads, vars, link
<1>5. LinkTypes'
  BY <1>1, <1>2, <1>3, <1>4 DEF LinkTypes, Line
<1>6. Kept' = Kept
  BY <1>1 DEF Kept
<1>7. ReaderOK'
  BY <1>1, <1>2, <1>6 DEF ReaderOK
<1>8. QED
  BY <1>5, <1>7

LEMMA EchoSteps ==
  ASSUME LinkTypes, ReaderOK, NEW b, ROnBad(b) \/ ROnOld(b) \/ ROnR(b)
  PROVE  \E y \in LinkBlocks : REchoes(y) /\ (y.type = "S" => y = rkeep /\ y \in Requests)
<1>1. CASE ROnBad(b)
  <2> DEFINE y == IF rlast.type = "S" THEN rlast ELSE ReaderError
  <2>1. REchoes(y)
    BY <1>1 DEF ROnBad
  <2>2. y \in LinkBlocks /\ (y.type = "S" => y = rkeep /\ y \in Requests)
    BY <1>1, <2>1, EchoedFacts
  <2>3. QED
    BY <2>1, <2>2
<1>2. CASE ROnOld(b)
  <2> DEFINE y == IF rkeep # BadBlock THEN rkeep ELSE ReaderError
  <2>1. REchoes(y)
    BY <1>2 DEF ROnOld
  <2>2. y \in {rkeep, rlast, ReaderError} /\ y # BadBlock
    BY ErrorFacts
  <2>3. y \in LinkBlocks /\ (y.type = "S" => y = rkeep /\ y \in Requests)
    BY <2>1, <2>2, EchoedFacts
  <2>4. QED
    BY <2>1, <2>3
<1>3. CASE ROnR(b)
  <2> DEFINE again == IF b.err = "ok" THEN rkeep ELSE rlast
             y == IF Acknowledges(b) \/ again = BadBlock THEN ReaderError ELSE again
  <2>1. REchoes(y)
    BY <1>3 DEF ROnR
  <2>2. y \in {rkeep, rlast, ReaderError} /\ y # BadBlock
    BY ErrorFacts
  <2>3. y \in LinkBlocks /\ (y.type = "S" => y = rkeep /\ y \in Requests)
    BY <2>1, <2>2, EchoedFacts
  <2>4. QED
    BY <2>1, <2>3
<1>4. QED
  BY <1>1, <1>2, <1>3

LEMMA ReadBasics ==
  ASSUME LinkTypes, ReaderOK, RReads, RSteps(toReader[1])
  PROVE  LinkTypes' /\ ReaderOK'
<1> DEFINE b == toReader[1]
<1> HIDE DEF b
<1>0. RSteps(b)
  BY DEF b
<1>1. /\ rns \in Bit /\ rnr \in Bit /\ Flip(rns) \in Bit /\ Flip(rnr) \in Bit
      /\ rbuf \in Seq(Units) /\ rout \in Seq(Units) /\ <<>> \in Seq(Units)
      /\ executed \in Seq([cmd : Seq(Units), rsp : Seq(Units)])
  BY BitFacts DEF LinkTypes
<1>2. CASE ROnBad(b) \/ ROnOld(b) \/ ROnR(b)
  BY <1>2, EchoSteps, EchoBasics
<1>3. CASE RTakes(b)
  <2>1. b.data \in Seq(Units)
    BY <1>3, KindFacts DEF RTakes
  <2> DEFINE y == [type |-> "R", n |-> Flip(rnr), err |-> "ok"]
  <2>2. y \in RBlocks
    BY <1>1, RBlockFacts
  <2>3. y.type = "R"
    OBVIOUS
  <2>4. ReplyOrAsk(y)
    BY <1>3 DEF RTakes
  <2>5. rns' \in Bit /\ rnr' \in Bit /\ rbuf' \in Seq(Units) /\ rout' \in Seq(Units) /\ executed' = executed
    BY <1>1, <1>3, <2>1 DEF RTakes
  <2> HIDE DEF y
  <2>6. PICK z : Sends(y, z)
    BY <2>2, <2>4, Sending1
  <2>7. QED
    BY <1>1, <2>2, <2>3, <2>5, <2>6, SendsBasics
<1>4. ASSUME NEW r \in Seq(Units), RExecutes(b, r) PROVE LinkTypes' /\ ReaderOK'
  <2>1. b.data \in Seq(Units) /\ Len(r) >= 2 /\ Len(r) \in Nat
    BY <1>4, KindFacts, LimitFacts DEF RExecutes
  <2>2. r # <<>>
    BY <2>1
  <2> DEFINE y == ReaderIBlock(rns, r)
  <2>3. y \in LinkI /\ (y.more => Len(y.data) = ReaderIfs /\ ReaderIfs < Len(r))
    BY <1>1, <2>2, ReplyFacts
  <2>4. ReplyOrAsk(y)
    BY <1>4 DEF RExecutes
  <2>5. [cmd |-> rbuf \o b.data, rsp |-> r] \in [cmd : Seq(Units), rsp : Seq(Units)]
    BY <1>1, <2>1
  <2>6. executed' \in Seq([cmd : Seq(Units), rsp : Seq(Units)])
    BY <1>1, <1>4, <2>5 DEF RExecutes
  <2>7. rns' \in Bit /\ rnr' \in Bit /\ rbuf' \in Seq(Units) /\ rout' \in Seq(Units) /\ rout' = r
    BY <1>1, <1>4 DEF RExecutes
  <2> HIDE DEF y
  <2>8. PICK z : Sends(y, z)
    BY <2>3, <2>4, Sending1
  <2>9. y.more => Len(y.data) < Len(rout')
    BY <2>3, <2>7
  <2>10. QED
    BY <2>3, <2>6, <2>7, <2>8, <2>9, SendsBasics
<1>5. CASE RGoesOn(b)
  <2>1. /\ rkeep \in LinkI /\ rkeep.more /\ rout' = SubSeq(rout, Len(rkeep.data) + 1, Len(rout))
        /\ ReplyOrAsk(ReaderIBlock(rns, rout')) /\ rns' = Flip(rns) /\ UNCHANGED <<rnr, rbuf, executed>>
    BY <1>5 DEF RGoesOn
  <2>2. rkeep.type = "I" /\ rkeep.data \in Seq(Units)
    BY <2>1, KindFacts
  <2>3. Len(rkeep.data) < Len(rout) /\ Len(rkeep.data) \in Nat
    <3>1. rnext = <<>>
      BY <2>2 DEF ReaderOK
    <3>2. Kept = rkeep
      BY <3>1 DEF Kept
    <3>3. QED
      BY <2>1, <2>2, <3>2 DEF ReaderOK
  <2>4. rout' \in Seq(Units) /\ rout' # <<>>
    <3> DEFINE l == Len(rkeep.data)
    <3>1. l \in Nat /\ l < Len(rout) /\ rout' = SubSeq(rout, l + 1, Len(rout))
      BY <2>1, <2>3
    <3> HIDE DEF l
    <3>2. rout' \in Seq(Units) /\ Len(rout') = Len(rout) - l
      BY <1>1, <3>1
    <3>3. Len(rout) \in Nat
      BY <1>1
    <3>4. Len(rout') # 0
      BY <3>1, <3>2, <3>3
    <3>5. QED
      BY <3>2, <3>4
  <2> DEFINE y == ReaderIBlock(rns, rout')
  <2>5. y \in LinkI /\ (y.more => Len(y.data) = ReaderIfs /\ ReaderIfs < Len(rout'))
    BY <1>1, <2>4, ReplyFacts
  <2>6. ReplyOrAsk(y)
    BY <2>1
  <2> HIDE DEF y
  <2>7. PICK z : Sends(y, z)
    BY <2>5, <2>6, Sending1
  <2>8. y.more => Len(y.data) < Len(rout')
    BY <2>5
  <2>9. QED
    BY <1>1, <2>1, <2>4, <2>5, <2>7, <2>8, SendsBasics
<1>6. CASE RResets(b)
  <2>1. /\ rns' = 0 /\ rnr' = 0 /\ rbuf' = <<>> /\ rout' = <<>> /\ rnext' = <<>>
        /\ rkeep' = BadBlock /\ rlast' = BadBlock /\ toHost' = Append(toHost, Resynched)
        /\ UNCHANGED <<executed, requests>>
    BY <1>6 DEF RResets
  <2>2. /\ toHost' \in Seq(Line)
        /\ \A i \in 1 .. Len(toHost') : toHost'[i].type = "S" => toHost'[i] \in Requests \cup {Resynched}
    BY <2>1, AppendHost, SpecialFacts DEF LinkBlocks
  <2>3. toReader' \in Seq(Line)
    BY LineFacts, TailFacts DEF RReads
  <2>4. UNCHANGED <<ns, nr, ifsc, pc, ret, session, device, calls, damaged, missing>>
    BY DEF RReads, vars, link
  <2>5. rbuf' \in Seq(Units) /\ rout' \in Seq(Units) /\ rns' \in Bit /\ rnr' \in Bit
    BY <2>1, BitFacts
  <2>6. LinkTypes'
    BY <2>1, <2>2, <2>3, <2>4, <2>5 DEF LinkTypes, Line
  <2>7. Kept' = BadBlock
    BY <2>1 DEF Kept
  <2>8. ReaderOK'
    BY <2>1, <2>2, <2>7, KindFacts DEF ReaderOK
  <2>9. QED
    BY <2>6, <2>8
<1>7. CASE RResumes(b)
  <2>1. rnext[1] \in LinkI \cup RBlocks /\ ReplyOrAsk(rnext[1]) /\ Kept = rnext[1]
    BY <1>7 DEF RResumes, LinkTypes, Kept
  <2>2. rns' \in Bit /\ rnr' \in Bit /\ rbuf' \in Seq(Units) /\ rout' = rout /\ executed' = executed
    BY <1>1, <1>7 DEF RResumes
  <2> DEFINE y == rnext[1]
  <2>3. y \in LinkI \cup RBlocks /\ ReplyOrAsk(y) /\ (y.type = "I" /\ y.more => Len(y.data) < Len(rout'))
    BY <2>1, <2>2 DEF ReaderOK
  <2> HIDE DEF y
  <2>4. PICK z : Sends(y, z)
    BY <2>3, Sending1
  <2>5. QED
    BY <1>1, <2>2, <2>3, <2>4, SendsBasics
<1>8. CASE RIgnores(b)
  <2>1. UNCHANGED <<reader, toHost, executed, requests>>
    BY <1>8 DEF RIgnores
  <2>2. UNCHANGED <<rns, rnr, rbuf, rout, rlast, rkeep, rnext>>
    BY <2>1 DEF reader
  <2>3. toReader' \in Seq(Line)
    BY LineFacts, TailFacts DEF RReads
  <2>4. UNCHANGED <<ns, nr, ifsc, pc, ret, session, device, calls, damaged, missing>>
    BY DEF RReads, vars, link
  <2>5. LinkTypes'
    BY <2>1, <2>2, <2>3, <2>4 DEF LinkTypes, Line
  <2>6. Kept' = Kept
    BY <2>2 DEF Kept
  <2>7. ReaderOK'
    BY <2>1, <2>2, <2>6 DEF ReaderOK
  <2>8. QED
    BY <2>5, <2>7
<1>9. QED
  BY <1>0, <1>2, <1>3, <1>4, <1>5, <1>6, <1>7, <1>8 DEF RSteps

\* The line and the steps around a session.
LineActs ==
  \/ HostClose \/ HostOpen \/ HostOpened \/ Damage \/ Lose \/ Done

LEMMA CallUntouched ==
  ASSUME HostOK, UNCHANGED <<vars, session, calls>>
  PROVE  HostOK'
<1>1. UNCHANGED <<ns, pc, ret, maxRspLen, rsplen, rsp, errcntr, rerrcntr, wtxcntr, more, lastiicc, cmd,
                  sendptr, block, session>>
  BY DEF vars, link, apdu, counters, response
<1>2. Call' = Call /\ Pos' = Pos
  BY <1>1 DEF Call, Pos
<1>3. QED
  BY <1>1, <1>2 DEF HostOK

LEMMA OtherBasics ==
  ASSUME Basics, LineActs \/ UNCHANGED linkVars, UNCHANGED device
  PROVE  Basics'
<1>1. LinkTypes /\ HostOK /\ ReaderOK
  BY DEF Basics
<1>2. /\ toReader \in Seq(Line) /\ toHost \in Seq(Line) /\ damaged \in Nat /\ missing \in 0 .. MaxMissing
      /\ MaxMissing \in Nat /\ <<>> \in Seq(Line)
  BY <1>1, LineFacts, LinkAssumption DEF LinkTypes
<1>3. UNCHANGED <<reader, calls, executed, requests>>
  BY DEF LineActs, HostClose, HostOpen, HostOpened, Damage, Lose, Done, linkVars
<1>4. UNCHANGED <<rns, rnr, rbuf, rout, rlast, rkeep, rnext>>
  BY <1>3 DEF reader
<1>5. ASSUME toReader' \in Seq(Line), toHost' \in {toHost, Tail(toHost), <<>>, <<BadBlock>> \o Tail(toHost)},
             toHost # <<>> \/ toHost' = <<>>, ns' \in Bit, nr' \in Bit, ifsc' \in Nat \ {0}, pc' = pc,
             ret' \in Result, session' \in Sessions, damaged' \in Nat, missing' \in 0 .. MaxMissing
      PROVE  LinkTypes' /\ ReaderOK'
  <2>1. ReaderOK'
    BY <1>1, <1>3, <1>5, ReaderKept
  <2>2. toHost' \in Seq(Line)
    <3>1. CASE toHost' = <<>>
      BY <1>2, <3>1
    <3>2. CASE toHost # <<>>
      <4>1. Tail(toHost) \in Seq(Line)
        BY <1>2, <3>2, TailFacts
      <4>2. BadBlock \in Line
        BY <1>1, LineFacts
      <4>3. <<BadBlock>> \o Tail(toHost) \in Seq(Line)
        BY <4>1, <4>2
      <4>4. QED
        BY <1>2, <1>5, <4>1, <4>3
    <3>3. QED
      BY <1>5, <3>1, <3>2
  <2>3. QED
    BY <1>1, <1>3, <1>4, <1>5, <2>1, <2>2 DEF LinkTypes, Line
<1>6. /\ ns \in Bit /\ nr \in Bit /\ ifsc \in Nat \ {0} /\ ret \in Result /\ session \in Sessions
  BY <1>1 DEF LinkTypes
<1>7. ASSUME UNCHANGED vars PROVE UNCHANGED <<ns, nr, ifsc, pc, ret>>
  BY <1>7 DEF vars, link
<1>8. ASSUME UNCHANGED vars, session' = session PROVE HostOK'
  BY <1>1, <1>3, <1>8, CallUntouched
<1>9. CASE HostClose
  <2>1. UNCHANGED <<vars, toReader, toHost, damaged, missing>> /\ session' = "eject" /\ pc = "idle"
    BY <1>9 DEF HostClose
  <2>2. UNCHANGED <<ns, nr, ifsc, pc, ret>>
    BY <1>7, <2>1
  <2>3. toHost # <<>> \/ toHost' = <<>>
    BY <2>1
  <2>4. LinkTypes' /\ ReaderOK'
    BY <1>2, <1>5, <1>6, <2>1, <2>2, <2>3 DEF Sessions
  <2>5. HostOK'
    BY <2>1, <2>2 DEF HostOK
  <2>6. QED
    BY <2>4, <2>5 DEF Basics
<1>10. CASE HostOpen
  <2>1. /\ session = "closed" /\ session' = "opening" /\ ns' = 0 /\ nr' = 0 /\ ifsc' = IfscInit
        /\ toReader' = toReader \o <<Detach, Resynch>> /\ toHost' \in {toHost, <<>>}
        /\ missing' \in {missing, missing + 1} /\ missing' <= MaxMissing /\ UNCHANGED <<pc, ret, damaged>>
    BY <1>10 DEF HostOpen, AfterSend, Resynch
  <2>2. toReader' \in Seq(Line)
    <3>1. Detach \in Line /\ Resynch \in Line
      BY <1>1, LineFacts
    <3>2. <<Detach, Resynch>> \in Seq(Line)
      BY <3>1
    <3>3. QED
      BY <1>2, <2>1, <3>2
  <2>3. missing' \in 0 .. MaxMissing /\ ns' \in Bit /\ nr' \in Bit /\ ifsc' \in Nat \ {0}
    BY <1>2, <2>1, LimitFacts, BitFacts
  <2>4. toHost # <<>> \/ toHost' = <<>>
    BY <2>1
  <2>5. pc = "idle"
    BY <1>1, <2>1 DEF HostOK, LinkTypes
  <2>6. LinkTypes' /\ ReaderOK'
    BY <1>2, <1>5, <1>6, <2>1, <2>2, <2>3, <2>4 DEF Sessions
  <2>7. HostOK'
    BY <2>1, <2>5 DEF HostOK
  <2>8. QED
    BY <2>6, <2>7 DEF Basics
<1>11. CASE HostOpened
  <2>1. /\ session = "opening" /\ ret' = "NONE" /\ session' \in {"open", "closed", "leaked"}
        /\ (toHost # <<>> /\ toHost' = Tail(toHost)) \/ (toHost = <<>> /\ toHost' = toHost)
        /\ UNCHANGED <<ns, nr, ifsc, pc, toReader, damaged, missing>>
    BY <1>11 DEF HostOpened
  <2>2. pc = "idle"
    BY <1>1, <2>1 DEF HostOK, LinkTypes
  <2>3. LinkTypes' /\ ReaderOK'
    BY <1>2, <1>5, <1>6, <2>1 DEF Sessions, Result
  <2>4. HostOK'
    BY <2>1, <2>2 DEF HostOK
  <2>5. QED
    BY <2>3, <2>4 DEF Basics
<1>12. CASE Damage \/ Lose
  <2>1. /\ UNCHANGED <<vars, session>>
        /\ damaged' \in {damaged, damaged + 1}
        /\ (missing' = missing + 1 /\ missing < MaxMissing) \/ missing' = missing
        /\ \/ toReader # <<>> /\ toReader' \in {Tail(toReader), <<BadBlock>> \o Tail(toReader)} /\ toHost' = toHost
           \/ toHost # <<>> /\ toHost' \in {Tail(toHost), <<BadBlock>> \o Tail(toHost)} /\ toReader' = toReader
    BY <1>12 DEF Damage, Lose
  <2>2. damaged' \in Nat /\ missing' \in 0 .. MaxMissing /\ UNCHANGED <<ns, nr, ifsc, pc, ret>>
    BY <1>2, <1>7, <2>1
  <2>3. toReader' \in Seq(Line)
    <3>1. CASE toReader # <<>>
      <4>1. Tail(toReader) \in Seq(Line) /\ BadBlock \in Line
        BY <1>1, <1>2, <3>1, TailFacts, LineFacts
      <4>2. <<BadBlock>> \o Tail(toReader) \in Seq(Line)
        BY <4>1
      <4>3. QED
        BY <1>2, <2>1, <4>1, <4>2
    <3>2. CASE toReader' = toReader
      BY <1>2, <3>2
    <3>3. QED
      BY <2>1, <3>1, <3>2
  <2>4. toHost # <<>> \/ toHost' = <<>>
    BY <2>1
  <2>5. LinkTypes' /\ ReaderOK'
    BY <1>5, <1>6, <2>1, <2>2, <2>3, <2>4
  <2>6. HostOK'
    BY <1>8, <2>1
  <2>7. QED
    BY <2>5, <2>6 DEF Basics
<1>13. CASE Done \/ UNCHANGED linkVars
  <2>1. UNCHANGED <<vars, session, toReader, toHost, damaged, missing>>
    BY <1>13 DEF Done, linkVars
  <2>2. UNCHANGED <<ns, nr, ifsc, pc, ret>>
    BY <1>7, <2>1
  <2>3. toHost # <<>> \/ toHost' = <<>>
    BY <2>1
  <2>4. LinkTypes' /\ ReaderOK'
    BY <1>2, <1>5, <1>6, <2>1, <2>2, <2>3
  <2>5. HostOK'
    BY <1>8, <2>1
  <2>6. QED
    BY <2>4, <2>5 DEF Basics
<1>14. QED
  BY <1>9, <1>10, <1>11, <1>12, <1>13 DEF LineActs

\* The steps, one by one, as the lemmas above describe them.
Moves ==
  \/ \E c \in Seq(Units), max \in Nat : HSubmits(c, max) /\ (session = "open" => max \in MaxRspLens)
  \/ toHost # <<>> /\ Passes(toHost[1], Tail(toHost)) /\ UNCHANGED missing
  \/ /\ toHost = <<>> /\ Passes(BadBlock, <<>>) /\ Kernel /\ missing' <= MaxMissing
     /\ missing' = IF toReader = <<>> THEN missing ELSE missing + 1
  \/ RReads /\ RSteps(toReader[1]) /\ toReader[1] \in Line
  \/ LineActs /\ UNCHANGED device
  \/ UNCHANGED linkVars

LEMMA Moving ==
  ASSUME Basics, [LinkNext]_linkVars
  PROVE  Moves
<1>1. LinkTypes /\ HostOK /\ ReaderOK
  BY DEF Basics
<1>2. CASE (HostSend \/ HostEject) /\ UNCHANGED device
  BY <1>1, <1>2, Submitting DEF Moves
<1>3. CASE HostReceive /\ UNCHANGED device
  BY <1>1, <1>3, Receiving1 DEF Moves
<1>4. CASE HostTimeout /\ UNCHANGED device
  BY <1>1, <1>4, TimingOut DEF Moves
<1>5. CASE ReaderStep /\ UNCHANGED device
  BY <1>1, <1>5, Reading DEF Moves
<1>6. CASE LineActs /\ UNCHANGED device
  BY <1>6 DEF Moves
<1>7. CASE UNCHANGED linkVars
  BY <1>7 DEF Moves
<1>8. QED
  BY <1>2, <1>3, <1>4, <1>5, <1>6, <1>7 DEF LinkNext, LineActs

LEMMA BasicsKept == Basics /\ [LinkNext]_linkVars => Basics'
<1> SUFFICES ASSUME Basics, [LinkNext]_linkVars PROVE Basics'
  OBVIOUS
<1>1. LinkTypes /\ HostOK /\ ReaderOK /\ missing \in 0 .. MaxMissing /\ MaxMissing \in Nat
  BY LinkAssumption DEF Basics, LinkTypes
<1>2. Moves
  BY Moving
<1>3. CASE \E c \in Seq(Units), max \in Nat : HSubmits(c, max)
  BY <1>3, SubmitBasics
<1>4. CASE toHost # <<>> /\ Passes(toHost[1], Tail(toHost)) /\ UNCHANGED missing
  BY <1>1, <1>4, PassBasics
<1>5. CASE /\ toHost = <<>> /\ Passes(BadBlock, <<>>) /\ missing' <= MaxMissing
           /\ missing' = IF toReader = <<>> THEN missing ELSE missing + 1
  <2>1. missing' \in 0 .. MaxMissing
    BY <1>1, <1>5
  <2> DEFINE rest == <<>>
  <2>2. Passes(BadBlock, rest) /\ rest \in {Tail(toHost), <<>>} /\ (toHost # <<>> \/ rest = <<>>)
    BY <1>5
  <2> HIDE DEF rest
  <2>3. QED
    BY <2>1, <2>2, PassBasics
<1>6. CASE RReads /\ RSteps(toReader[1])
  <2>1. LinkTypes' /\ ReaderOK'
    BY <1>1, <1>6, ReadBasics
  <2>2. HostOK'
    BY <1>1, <1>6, CallUntouched DEF RReads
  <2>3. QED
    BY <2>1, <2>2 DEF Basics
<1>7. CASE LineActs /\ UNCHANGED device
  BY <1>7, OtherBasics
<1>8. CASE UNCHANGED linkVars
  <2>1. UNCHANGED device
    BY <1>8 DEF linkVars
  <2>2. QED
    BY <1>8, <2>1, OtherBasics
<1>9. QED
  BY <1>2, <1>3, <1>4, <1>5, <1>6, <1>7, <1>8 DEF Moves

-----------------------------------------------------------------------------
(* The order is kept.                                                      *)

Follows(p, q) == \E f : ComesFrom(p, q, f)

LEMMA AppendFacts ==
  ASSUME NEW t \in Seq(Line), NEW b \in Line
  PROVE  /\ Append(t, b) \in Seq(Line) /\ Len(Append(t, b)) = Len(t) + 1 /\ Append(t, b)[Len(t) + 1] = b
         /\ Len(t) \in Nat /\ Append(t, b) # <<>>
         /\ \A i \in 1 .. Len(t) : Append(t, b)[i] = t[i]
         /\ \A i \in 1 .. Len(t) + 1 : i \in 1 .. Len(t) \/ i = Len(t) + 1
<1>1. Append(t, b) \in Seq(Line) /\ Len(Append(t, b)) = Len(t) + 1 /\ Append(t, b)[Len(t) + 1] = b
      /\ Len(t) \in Nat /\ \A i \in 1 .. Len(t) : Append(t, b)[i] = t[i]
  OBVIOUS
<1>2. Append(t, b) # <<>>
  BY <1>1
<1>3. \A i \in 1 .. Len(t) + 1 : i \in 1 .. Len(t) \/ i = Len(t) + 1
  BY <1>1
<1>4. QED
  BY <1>1, <1>2, <1>3

\* Queues of the same length, or one shorter: block by block.
LEMMA FollowsSame ==
  ASSUME NEW p \in Seq(Line), NEW q \in Seq(Line), Len(p) <= Len(q),
         \A i \in 1 .. Len(p) : Neutral(p[i]) \/ p[i] = q[i]
  PROVE  Follows(p, q)
<1> DEFINE f == [i \in 1 .. Len(p) |-> i]
<1>1. \A i \in 1 .. Len(p) : f[i] = i /\ i \in 1 .. Len(q)
  OBVIOUS
<1> HIDE DEF f
<1>2. \A i \in 1 .. Len(p) : Neutral(p[i]) \/ (f[i] \in 1 .. Len(q) /\ p[i] = q[f[i]])
  BY <1>1
<1>3. \A i, j \in 1 .. Len(p) : i < j => f[i] <= f[j]
  BY <1>1
<1>4. ComesFrom(p, q, f)
  BY <1>2, <1>3 DEF ComesFrom
<1>5. QED
  BY <1>4 DEF Follows

LEMMA FollowsTail ==
  ASSUME NEW q \in Seq(Line), q # <<>>
  PROVE  Tail(q) \in Seq(Line) /\ Follows(Tail(q), q)
<1> DEFINE p == Tail(q)
           f == [i \in 1 .. Len(p) |-> i + 1]
<1>1. p \in Seq(Line) /\ Len(p) = Len(q) - 1 /\ \A i \in 1 .. Len(p) : p[i] = q[i + 1] /\ i + 1 \in 1 .. Len(q)
  BY TailFacts
<1> HIDE DEF p
<1>2. \A i \in 1 .. Len(p) : f[i] = i + 1
  OBVIOUS
<1> HIDE DEF f
<1>3. \A i \in 1 .. Len(p) : Neutral(p[i]) \/ (f[i] \in 1 .. Len(q) /\ p[i] = q[f[i]])
  BY <1>1, <1>2
<1>4. \A i, j \in 1 .. Len(p) : i < j => f[i] <= f[j]
  BY <1>2
<1>5. ComesFrom(p, q, f)
  BY <1>3, <1>4 DEF ComesFrom
<1>6. QED
  BY <1>1, <1>5 DEF Follows, p

\* The neutral block r goes out; b waits behind it or not.
LEMMA FollowsNeutral ==
  ASSUME NEW t \in Seq(Line), NEW r \in Line, Neutral(r), NEW b \in Line
  PROVE  /\ Follows(Append(t, r), t)
         /\ Follows(Append(t, r), Append(t, b))
         /\ Follows(Append(Append(t, r), b), Append(t, b))
         /\ Follows(t, Append(t, b))
<1> DEFINE a == Append(t, r)
           c == Append(t, b)
           d == Append(a, b)
           n == Len(t)
<1>1. /\ n \in Nat /\ a \in Seq(Line) /\ Len(a) = n + 1 /\ a[n + 1] = r
      /\ \A i \in 1 .. n : a[i] = t[i]
      /\ \A i \in 1 .. n + 1 : i \in 1 .. n \/ i = n + 1
  BY AppendFacts
<1>2. /\ c \in Seq(Line) /\ Len(c) = n + 1 /\ c[n + 1] = b
      /\ \A i \in 1 .. n : c[i] = t[i]
  BY AppendFacts
<1> HIDE DEF a
<1>3. /\ d \in Seq(Line) /\ Len(d) = n + 2 /\ d[n + 2] = b
      /\ \A i \in 1 .. n + 1 : d[i] = a[i]
  <2>1. Len(d) = Len(a) + 1 /\ d[Len(a) + 1] = b /\ d \in Seq(Line) /\ \A i \in 1 .. Len(a) : d[i] = a[i]
    BY <1>1, AppendFacts
  <2>2. (n + 1) + 1 = n + 2
    BY <1>1
  <2>3. QED
    BY <1>1, <2>1, <2>2
<1> HIDE DEF c, d
<1>4. Follows(a, t)
  <2> DEFINE f == [i \in 1 .. n + 1 |-> i]
  <2>1. \A i \in 1 .. n + 1 : f[i] = i
    OBVIOUS
  <2> HIDE DEF f, n
  <2>2. \A i \in 1 .. n + 1 : Neutral(a[i]) \/ (f[i] \in 1 .. n /\ a[i] = t[f[i]])
    BY <1>1, <2>1
  <2>3. \A i, j \in 1 .. n + 1 : i < j => f[i] <= f[j]
    BY <1>1, <2>1
  <2>4. ComesFrom(a, t, f)
    BY <1>1, <2>2, <2>3 DEF ComesFrom, n
  <2>5. QED
    BY <2>4 DEF Follows
<1>5. Follows(a, c)
  <2>1. \A i \in 1 .. Len(a) : Neutral(a[i]) \/ a[i] = c[i]
    BY <1>1, <1>2
  <2>2. Len(a) <= Len(c)
    BY <1>1, <1>2
  <2>3. QED
    BY <1>1, <1>2, <2>1, <2>2, FollowsSame
<1>6. Follows(t, c)
  <2>1. \A i \in 1 .. Len(t) : Neutral(t[i]) \/ t[i] = c[i]
    BY <1>2
  <2>2. Len(t) <= Len(c)
    BY <1>1, <1>2
  <2>3. QED
    BY <1>2, <2>1, <2>2, FollowsSame
<1>7. Follows(d, c)
  <2> DEFINE f == [i \in 1 .. n + 2 |-> IF i = n + 2 THEN n + 1 ELSE i]
  <2>1. \A i \in 1 .. n + 2 : f[i] = IF i = n + 2 THEN n + 1 ELSE i
    OBVIOUS
  <2> HIDE DEF f, n
  <2>2. ASSUME NEW i \in 1 .. n + 2 PROVE Neutral(d[i]) \/ (f[i] \in 1 .. n + 1 /\ d[i] = c[f[i]])
    <3>1. CASE i = n + 2
      BY <1>1, <1>2, <1>3, <2>1, <3>1
    <3>2. CASE i = n + 1
      BY <1>1, <1>3, <3>2
    <3>3. CASE i \in 1 .. n
      BY <1>1, <1>2, <1>3, <2>1, <3>3
    <3>4. QED
      BY <1>1, <3>1, <3>2, <3>3
  <2>3. \A i, j \in 1 .. n + 2 : i < j => f[i] <= f[j]
    BY <1>1, <2>1
  <2>4. ComesFrom(d, c, f)
    BY <1>2, <1>3, <2>2, <2>3 DEF ComesFrom
  <2>5. QED
    BY <2>4 DEF Follows
<1>8. QED
  BY <1>4, <1>5, <1>6, <1>7 DEF a, c, d

\* b goes out, and may go out again.
LEMMA FollowsTwice ==
  ASSUME NEW t \in Seq(Line), NEW b \in Line
  PROVE  Append(Append(t, b), b) \in Seq(Line) /\ Follows(Append(Append(t, b), b), Append(t, b))
<1> DEFINE c == Append(t, b)
           d == Append(c, b)
           n == Len(t)
<1>1. /\ n \in Nat /\ c \in Seq(Line) /\ Len(c) = n + 1 /\ c[n + 1] = b
      /\ \A i \in 1 .. n : c[i] = t[i]
  BY AppendFacts
<1> HIDE DEF c
<1>2. /\ d \in Seq(Line) /\ Len(d) = n + 2 /\ d[n + 2] = b
      /\ \A i \in 1 .. n + 1 : d[i] = c[i]
  <2>1. Len(d) = Len(c) + 1 /\ d[Len(c) + 1] = b /\ d \in Seq(Line) /\ \A i \in 1 .. Len(c) : d[i] = c[i]
    BY <1>1, AppendFacts
  <2>2. (n + 1) + 1 = n + 2
    BY <1>1
  <2>3. QED
    BY <1>1, <2>1, <2>2
<1> HIDE DEF d
<1> DEFINE f == [i \in 1 .. n + 2 |-> IF i = n + 2 THEN n + 1 ELSE i]
<1>3. \A i \in 1 .. n + 2 : f[i] = IF i = n + 2 THEN n + 1 ELSE i
  OBVIOUS
<1> HIDE DEF f, n
<1>4. ASSUME NEW i \in 1 .. n + 2 PROVE f[i] \in 1 .. n + 1 /\ d[i] = c[f[i]]
  <2>1. CASE i = n + 2
    BY <1>1, <1>2, <1>3, <2>1
  <2>2. CASE i \in 1 .. n + 1
    BY <1>1, <1>2, <1>3, <2>2
  <2>3. QED
    BY <1>1, <2>1, <2>2
<1>5. \A i, j \in 1 .. n + 2 : i < j => f[i] <= f[j]
  BY <1>1, <1>3
<1>6. ComesFrom(d, c, f)
  BY <1>1, <1>2, <1>4, <1>5 DEF ComesFrom
<1>7. QED
  BY <1>2, <1>6 DEF Follows, c, d

\* A new block b goes out in the place of the old one, and may go out again.
LEMMA FollowsNext ==
  ASSUME NEW t \in Seq(Line), NEW o \in Line, NEW b \in Line
  PROVE  Follows(Append(Append(t, b), b), Append(Append(t, o), b))
<1> DEFINE c == Append(t, b)
           d == Append(c, b)
           g == Append(t, o)
           h == Append(g, b)
           n == Len(t)
<1>1. /\ n \in Nat /\ c \in Seq(Line) /\ Len(c) = n + 1 /\ c[n + 1] = b
      /\ \A i \in 1 .. n : c[i] = t[i]
  BY AppendFacts
<1>2. /\ g \in Seq(Line) /\ Len(g) = n + 1 /\ \A i \in 1 .. n : g[i] = t[i]
  BY AppendFacts
<1> HIDE DEF c, g
<1>3. (n + 1) + 1 = n + 2
  BY <1>1
<1>4. /\ d \in Seq(Line) /\ Len(d) = n + 2 /\ d[n + 2] = b
      /\ \A i \in 1 .. n + 1 : d[i] = c[i]
  <2>1. Len(d) = Len(c) + 1 /\ d[Len(c) + 1] = b /\ d \in Seq(Line) /\ \A i \in 1 .. Len(c) : d[i] = c[i]
    BY <1>1, AppendFacts
  <2>2. QED
    BY <1>1, <1>3, <2>1
<1>5. /\ h \in Seq(Line) /\ Len(h) = n + 2 /\ h[n + 2] = b
      /\ \A i \in 1 .. n + 1 : h[i] = g[i]
  <2>1. Len(h) = Len(g) + 1 /\ h[Len(g) + 1] = b /\ h \in Seq(Line) /\ \A i \in 1 .. Len(g) : h[i] = g[i]
    BY <1>2, AppendFacts
  <2>2. QED
    BY <1>2, <1>3, <2>1
<1> HIDE DEF d, h
<1> DEFINE f == [i \in 1 .. n + 2 |-> IF i = n + 1 THEN n + 2 ELSE i]
<1>6. \A i \in 1 .. n + 2 : f[i] = IF i = n + 1 THEN n + 2 ELSE i
  OBVIOUS
<1> HIDE DEF f, n
<1>7. ASSUME NEW i \in 1 .. n + 2 PROVE f[i] \in 1 .. n + 2 /\ d[i] = h[f[i]]
  <2>1. CASE i = n + 2
    BY <1>1, <1>4, <1>5, <1>6, <2>1
  <2>2. CASE i = n + 1
    BY <1>1, <1>4, <1>5, <1>6, <2>2
  <2>3. CASE i \in 1 .. n
    BY <1>1, <1>2, <1>4, <1>5, <1>6, <2>3
  <2>4. QED
    BY <1>1, <2>1, <2>2, <2>3
<1>8. \A i, j \in 1 .. n + 2 : i < j => f[i] <= f[j]
  BY <1>1, <1>6
<1>9. ComesFrom(d, h, f)
  BY <1>4, <1>5, <1>7, <1>8 DEF ComesFrom
<1>10. QED
  BY <1>9 DEF Follows, c, d, g, h

LEMMA OrderFollows ==
  ASSUME LinkTypes, OrderOK, Queue \in Seq(Line), Queue' \in Seq(Line), Follows(Queue', Queue),
         Call' \in Nat, Call <= Call', rnr' = rnr, rbuf' \in {rbuf, <<>>}, executed' = executed
  PROVE  OrderOK'
<1>1. PICK f : ComesFrom(Queue', Queue, f)
  BY DEF Follows
<1>2. Call \in Nat /\ rnr \in Bit
  BY LineFacts DEF LinkTypes
<1> DEFINE q == Queue
           p == Queue'
           k == Call
           m == Call'
<1>3. q \in Seq(Line) /\ p \in Seq(Line) /\ ComesFrom(p, q, f) /\ k \in Nat /\ m \in Nat /\ k <= m /\ InOrder(q, k)
  BY <1>1, <1>2 DEF OrderOK
<1> HIDE DEF p, q, k, m
<1>4. InOrder(p, m) /\ Takeable(q, k, rnr) \subseteq Takeable(p, m, rnr)
  BY <1>2, <1>3, OrderKept
<1>5. InOrder(Queue, Call)'
  BY <1>4 DEF p, m
<1>6. Seen \subseteq Seen'
  <2>1. Seen = Takeable(q, k, rnr) /\ Seen' = Takeable(p, m, rnr)
    BY DEF Seen, q, k, p, m
  <2>2. QED
    BY <1>4, <2>1
<1>7. TakenOK'
  BY <1>6 DEF TakenOK, OrderOK
<1>8. QED
  BY <1>5, <1>7 DEF OrderOK

LEMMA QueueFacts ==
  ASSUME LinkTypes, HostOK
  PROVE  /\ Queue \in Seq(Line) /\ (Resendable => block \in LinkI /\ block.n = ns)
         /\ toReader # <<>> =>
              /\ Queue # <<>> /\ Queue[1] = toReader[1]
              /\ Tail(Queue) = IF Resendable THEN Append(Tail(toReader), block) ELSE Tail(toReader)
<1>1. toReader \in Seq(Line) /\ LinkI \subseteq Line
  BY LineFacts
<1>2. Resendable => block \in LinkI /\ block.n = ns
  BY DEF Resendable, HostOK
<1>3. Queue \in Seq(Line)
  <2>1. CASE Resendable
    BY <1>1, <1>2, <2>1, AppendFacts DEF Queue
  <2>2. CASE ~Resendable
    BY <1>1, <2>2 DEF Queue
  <2>3. QED
    BY <2>1, <2>2
<1>4. ASSUME toReader # <<>>
      PROVE  /\ Queue # <<>> /\ Queue[1] = toReader[1]
             /\ Tail(Queue) = IF Resendable THEN Append(Tail(toReader), block) ELSE Tail(toReader)
  <2>1. CASE Resendable
    <3>1. Queue = Append(toReader, block) /\ block \in Line
      BY <1>1, <1>2, <2>1 DEF Queue
    <3>2. Queue # <<>> /\ Queue[1] = toReader[1]
      <4>1. 1 \in 1 .. Len(toReader)
        BY <1>1, <1>4
      <4>2. QED
        BY <1>1, <3>1, <4>1, AppendFacts
    <3>3. Tail(Append(toReader, block)) = Append(Tail(toReader), block)
      BY <1>1, <1>4, <3>1
    <3>4. QED
      BY <2>1, <3>1, <3>2, <3>3
  <2>2. CASE ~Resendable
    BY <1>4, <2>2 DEF Queue
  <2>3. QED
    BY <2>1, <2>2
<1>5. QED
  BY <1>2, <1>3, <1>4

LEMMA EndIs ==
  ASSUME NEW b \in LinkI, NEW k \in Int, NEW from \in Nat, Numbered(b.data, k, from)
  PROVE  End(b) = <<k, from + Len(b.data)>> /\ Len(b.data) \in Nat /\ Len(b.data) > 0
<1> DEFINE d == b.data
           n == Len(b.data)
<1>1. d \in Seq(Units) /\ d # <<>>
  BY KindFacts
<1>2. n = Len(d) /\ End(b) = d[n] /\ Numbered(d, k, from)
  BY DEF End, Last
<1> HIDE DEF d, n
<1>3. n \in Nat /\ n > 0
  BY <1>1, <1>2
<1>4. d[n] = <<k, from + n>>
  BY <1>2, <1>3 DEF Numbered
<1>5. QED
  BY <1>2, <1>3, <1>4 DEF n

\* New in the queue is block b, younger than all there is.
LEMMA OrderSends ==
  ASSUME LinkTypes, OrderOK, Queue \in Seq(Line), NEW b \in LinkI, Call' \in Nat, Call <= Call',
         End(b)[1] <= Call',
         \A i \in 1 .. Len(Queue) : IsI(Queue[i]) => Before(End(Queue[i]), End(b)),
         \A u \in Seen : Before(u, End(b)),
         Queue' = Append(Append(toReader, b), b), Queue \in {toReader, Append(toReader, block)},
         block \in Line \/ Queue = toReader,
         rnr' = rnr, rbuf' = rbuf, executed' = executed
  PROVE  OrderOK'
<1>1. /\ Call \in Nat /\ rnr \in Bit /\ toReader \in Seq(Line) /\ b \in Line
  BY LineFacts DEF LinkTypes
<1> DEFINE q == Queue
           t == toReader
           g == Append(q, b)
           p == Append(Append(t, b), b)
           k == Call
           m == Call'
<1>2. g \in Seq(Line) /\ p \in Seq(Line)
  BY <1>1, AppendFacts
<1>3. Follows(p, g)
  <2>1. CASE Queue = toReader
    <3>1. g = Append(toReader, b)
      BY <2>1
    <3>2. QED
      BY <1>1, <3>1, FollowsTwice
  <2>2. CASE Queue = Append(toReader, block) /\ block \in Line
    <3>1. g = Append(Append(toReader, block), b)
      BY <2>2
    <3>2. QED
      BY <1>1, <2>2, <3>1, FollowsNext
  <2>3. QED
    BY <2>1, <2>2
<1>4. InOrder(q, k) /\ q \in Seq(Line) /\ k \in Nat /\ m \in Nat /\ k <= m /\ m <= m
  BY <1>1 DEF OrderOK
<1>5. Seen = Takeable(q, k, rnr)
  BY DEF Seen
<1>6. /\ \A i \in 1 .. Len(q) : IsI(q[i]) => Before(End(q[i]), End(b))
      /\ \A u \in Takeable(q, k, rnr) : Before(u, End(b))
      /\ End(b)[1] <= m
  BY <1>5
<1>7. InOrder(Queue, Call)' = InOrder(p, m) /\ Seen' = Takeable(p, m, rnr)
  BY DEF Seen
<1> HIDE DEF g, p, q, k, m, t
<1>8. InOrder(g, m) /\ Takeable(q, k, rnr) \subseteq Takeable(g, m, rnr)
  BY <1>1, <1>4, <1>6, OrderGrows DEF g
<1>9. PICK f : ComesFrom(p, g, f)
  BY <1>3 DEF Follows
<1>10. InOrder(p, m) /\ Takeable(g, m, rnr) \subseteq Takeable(p, m, rnr)
  BY <1>1, <1>2, <1>4, <1>8, <1>9, OrderKept
<1>11. Seen \subseteq Seen' /\ InOrder(Queue, Call)'
  BY <1>5, <1>7, <1>8, <1>10
<1>12. TakenOK'
  BY <1>11 DEF TakenOK, OrderOK
<1>13. QED
  BY <1>11, <1>12 DEF OrderOK

LEMMA SeenFacts ==
  ASSUME NEW u \in Seen
  PROVE  /\ u \in Units /\ u[1] <= Call
         /\ \A i \in 1 .. Len(Queue) : IsI(Queue[i]) => NotAfter(u, End(Queue[i]))
BY DEF Seen, Takeable

\* A call ends: what is still under way stays as it is, or is gone.
LEMMA OrderEnds ==
  ASSUME LinkTypes, HostOK, OrderOK, NEW rest, LEnds(rest), Call' \in Nat, Call <= Call'
  PROVE  OrderOK'
<1>1. toReader \in Seq(Line) /\ Queue \in Seq(Line) /\ LinkI \subseteq Line /\ Detach \in Line
  BY LineFacts, QueueFacts
<1>2. Neutral(Detach)
  BY SpecialFacts DEF Neutral, IsI, IsResynch
<1>3. Queue' = toReader'
  BY DEF LEnds, Queue, Resendable
<1>4. toReader' \in {toReader, Append(toReader, Detach), <<>>}
  BY DEF LEnds
<1>5. UNCHANGED <<rnr, rbuf, executed>>
  BY DEF LEnds, reader
<1>6. /\ Follows(toReader, Queue) /\ Follows(Append(toReader, Detach), Queue) /\ Follows(<<>>, Queue)
      /\ Append(toReader, Detach) \in Seq(Line) /\ <<>> \in Seq(Line)
  <2>1. Follows(<<>>, Queue) /\ <<>> \in Seq(Line)
    <3> DEFINE e == <<>>
    <3>1. e \in Seq(Line) /\ Len(e) = 0 /\ Len(Queue) \in Nat
      BY <1>1
    <3> HIDE DEF e
    <3>2. Len(e) <= Len(Queue) /\ \A i \in 1 .. Len(e) : Neutral(e[i]) \/ e[i] = Queue[i]
      BY <3>1
    <3>3. Follows(e, Queue)
      BY <1>1, <3>1, <3>2, FollowsSame
    <3>4. QED
      BY <3>1, <3>3 DEF e
  <2>2. Append(toReader, Detach) \in Seq(Line)
    BY <1>1, AppendFacts
  <2>3. CASE Resendable
    <3>1. Queue = Append(toReader, block) /\ block \in Line
      BY <1>1, <2>3, QueueFacts DEF Queue
    <3>2. QED
      BY <1>1, <1>2, <2>1, <2>2, <3>1, FollowsNeutral
  <2>4. CASE ~Resendable
    <3>1. Queue = toReader
      BY <2>4 DEF Queue
    <3>2. Follows(Append(toReader, Detach), toReader)
      BY <1>1, <1>2, FollowsNeutral
    <3>3. Follows(toReader, toReader)
      <4>1. Len(toReader) <= Len(toReader)
        BY <1>1
      <4>2. QED
        BY <1>1, <4>1, FollowsSame
    <3>4. QED
      BY <2>1, <2>2, <3>1, <3>2, <3>3
  <2>5. QED
    BY <2>3, <2>4
<1>7. Queue' \in Seq(Line) /\ Follows(Queue', Queue)
  BY <1>1, <1>3, <1>4, <1>6
<1>8. QED
  BY <1>1, <1>5, <1>7, OrderFollows

LEMMA SubmitOrder ==
  ASSUME Basics, OrderOK, NEW c \in Seq(Units), NEW max \in Nat, HSubmits(c, max)
  PROVE  OrderOK'
<1>1. LinkTypes /\ HostOK /\ toReader \in Seq(Line) /\ Call \in Nat
  BY LineFacts DEF Basics
<1>2. /\ block' \in LinkI /\ Len(block'.data) = sendptr' /\ Numbered(block'.data, Call + 1, 0) /\ Call' = Call + 1
  BY <1>1, SubmitBlock
<1>3. Call' \in Nat /\ Call <= Call'
  BY <1>1, <1>2
<1>4. CASE pc' = "idle" /\ LEnds(toHost)
  BY <1>1, <1>3, <1>4, OrderEnds
<1>5. CASE pc' = "recv" /\ tx' = <<block'>> /\ LGoes(toHost)
  <2>1. Queue = toReader
    BY DEF HSubmits, Queue, Resendable
  <2>2. toReader' = Append(toReader, block')
    BY <1>1, <1>5 DEF LGoes
  <2>3. Queue' = Append(Append(toReader, block'), block')
    <3>1. Resendable'
      BY <1>5 DEF HSubmits, Resendable
    <3>2. QED
      BY <2>2, <3>1 DEF Queue
  <2>4. End(block') = <<Call + 1, 0 + Len(block'.data)>>
    BY <1>1, <1>2, EndIs
  <2>5. End(block')[1] = Call + 1
    BY <2>4
  <2>6. \A i \in 1 .. Len(Queue) : IsI(Queue[i]) => Before(End(Queue[i]), End(block'))
    <3>1. \A i \in 1 .. Len(Queue) : IsI(Queue[i]) => End(Queue[i])[1] <= Call /\ Queue[i] \in Line
      BY <1>1, <2>1 DEF OrderOK, InOrder
    <3>2. \A i \in 1 .. Len(Queue) : IsI(Queue[i]) => End(Queue[i])[1] \in Int
      BY <3>1, TypeTells, EndFacts DEF IsI, Line
    <3>3. QED
      BY <1>1, <2>5, <3>1, <3>2 DEF Before
  <2>7. \A u \in Seen : Before(u, End(block'))
    <3>1. \A u \in Seen : u[1] \in Int /\ u[1] <= Call
      BY SeenFacts DEF Units
    <3>2. QED
      BY <1>1, <2>5, <3>1 DEF Before
  <2>8. UNCHANGED <<rnr, rbuf, executed>>
    BY <1>5 DEF LGoes, reader
  <2>9. End(block')[1] <= Call'
    BY <1>1, <1>2, <2>5
  <2> DEFINE b == block'
  <2>10. /\ b \in LinkI /\ End(b)[1] <= Call' /\ Queue' = Append(Append(toReader, b), b)
         /\ \A i \in 1 .. Len(Queue) : IsI(Queue[i]) => Before(End(Queue[i]), End(b))
         /\ \A u \in Seen : Before(u, End(b))
    BY <1>2, <2>3, <2>6, <2>7, <2>9
  <2> HIDE DEF b
  <2>11. QED
    BY <1>1, <1>3, <2>1, <2>8, <2>10, OrderSends
<1>6. QED
  BY <1>4, <1>5 DEF HSubmits

LEMMA PassOrder ==
  ASSUME Basics, OrderOK, NEW x, NEW rest, Passes(x, rest)
  PROVE  OrderOK'
<1>1. LinkTypes /\ HostOK /\ toReader \in Seq(Line) /\ Call \in Nat /\ Queue \in Seq(Line) /\ LinkI \subseteq Line
  BY LineFacts, QueueFacts DEF Basics
<1>2. Call' = Call /\ Call' \in Nat /\ Call <= Call'
  BY <1>1 DEF Passes, Call
<1>3. CASE LEnds(rest)
  BY <1>1, <1>2, <1>3, OrderEnds
<1>4. ASSUME pc = "recv", LGoes(rest), HNext(x) PROVE OrderOK'
  <2>1. /\ cmd \in Seq(Units) /\ Numbered(cmd, Call, 0) /\ sendptr \in Nat /\ sendptr < Len(cmd)
    BY <1>1, <1>4, CallFacts DEF HNext
  <2>2. NextIBlock(ns', cmd, sendptr) /\ ns' = Flip(ns) /\ ifsc \in Nat \ {0} /\ ns' \in Bit
    BY <1>1, <1>4, BitFacts DEF HNext, LinkTypes
  <2>3. /\ block' \in LinkI /\ Numbered(block'.data, Call, sendptr)
    BY <2>1, <2>2, NextBlock
  <2>4. /\ block \in LinkI /\ Numbered(block.data, Call, Pos) /\ Pos \in Nat /\ Resendable
    BY <1>4 DEF HNext, HostOK, Resendable, Basics
  <2>5. End(block) = <<Call, Pos + Len(block.data)>> /\ Len(block.data) \in Nat
    BY <1>1, <2>4, EndIs
  <2>6. End(block) = <<Call, sendptr>>
    <3> DEFINE d == Len(block.data)
    <3>1. Pos = sendptr - d /\ d \in Nat /\ End(block) = <<Call, Pos + d>>
      BY <2>5 DEF Pos
    <3> HIDE DEF d
    <3>2. Pos + d = sendptr
      BY <2>1, <3>1
    <3>3. QED
      BY <3>1, <3>2
  <2>7. End(block') = <<Call, sendptr + Len(block'.data)>> /\ Len(block'.data) \in Nat /\ Len(block'.data) > 0
    BY <1>1, <2>1, <2>3, EndIs
  <2>8. Before(End(block), End(block'))
    <3> DEFINE d == Len(block'.data)
    <3>1. End(block') = <<Call, sendptr + d>> /\ d \in Nat /\ d > 0
      BY <2>7
    <3> HIDE DEF d
    <3>2. QED
      BY <1>1, <2>1, <2>6, <3>1 DEF Before
  <2>9. End(block) \in Units /\ End(block') \in Units
    BY <2>3, <2>4, EndFacts
  <2>10. Queue = Append(toReader, block) /\ block \in Line
    BY <1>1, <2>4 DEF Queue
  <2> DEFINE n == Len(toReader) + 1
  <2>11. Queue[n] = block /\ n = Len(Queue) /\ n \in 1 .. Len(Queue) /\ IsI(block) /\ n \in Nat
    <3>1. Queue[n] = block /\ n = Len(Queue) /\ n \in Nat /\ n > 0
      BY <1>1, <2>10, AppendFacts
    <3>2. QED
      BY <2>4, <3>1, KindFacts DEF IsI
  <2> HIDE DEF n
  <2>12. \A i \in 1 .. Len(Queue) : IsI(Queue[i]) => NotAfter(End(Queue[i]), End(block)) /\ End(Queue[i]) \in Units
    <3>1. \A i \in 1 .. Len(Queue) : Queue[i] \in Line
      BY <1>1
    <3>2. \A i \in 1 .. Len(Queue) : IsI(Queue[i]) => End(Queue[i]) \in Units
      BY <3>1, TypeTells, EndFacts DEF IsI, Line
    <3>3. \A i \in 1 .. Len(Queue) : i = n \/ i < n
      BY <2>11
    <3>4. QED
      BY <2>11, <3>2, <3>3 DEF OrderOK, InOrder, NotAfter
  <2>13. \A i \in 1 .. Len(Queue) : IsI(Queue[i]) => Before(End(Queue[i]), End(block'))
    BY <2>8, <2>9, <2>12, BeforeFacts
  <2>14. \A u \in Seen : Before(u, End(block'))
    <3>1. \A u \in Seen : u \in Units /\ NotAfter(u, End(block))
      BY <2>11, SeenFacts
    <3>2. QED
      BY <2>8, <2>9, <3>1, BeforeFacts
  <2>15. toReader' = Append(toReader, block')
    BY <1>1, <1>4 DEF LGoes, HNext
  <2>16. Queue' = Append(Append(toReader, block'), block')
    <3>1. Resendable'
      BY <1>4, <2>4 DEF HNext, Resendable, response
    <3>2. QED
      BY <2>15, <3>1 DEF Queue
  <2>17. UNCHANGED <<rnr, rbuf, executed>>
    BY <1>4 DEF LGoes, reader
  <2>18. End(block')[1] <= Call'
    BY <1>1, <1>2, <2>7
  <2> DEFINE b == block'
  <2>19. /\ b \in LinkI /\ End(b)[1] <= Call' /\ Queue' = Append(Append(toReader, b), b)
         /\ \A i \in 1 .. Len(Queue) : IsI(Queue[i]) => Before(End(Queue[i]), End(b))
         /\ \A u \in Seen : Before(u, End(b))
    BY <2>3, <2>13, <2>14, <2>16, <2>18
  <2> HIDE DEF b
  <2>20. QED
    BY <1>1, <1>2, <2>10, <2>17, <2>19, OrderSends
<1>5. ASSUME pc = "recv", LGoes(rest), ~HNext(x), HGoes(x) \/ HAnswers(x) PROVE OrderOK'
  <2>1. UNCHANGED <<rnr, rbuf, executed>> /\ toReader' = toReader \o tx'
    BY <1>5 DEF LGoes, reader
  <2>2. block' = block
    BY <1>5 DEF HGoes, HAsks, HAcks, HResends, HRefuses, HPart, HReads, HTurns, HDrops, HAnswers, apdu
  <2>3. block \in LinkI /\ block \in Line
    BY <1>1, <1>5 DEF HostOK
  <2>4. Resendable' => Resendable
    BY <1>5 DEF HGoes, HAsks, HAcks, HResends, HRefuses, HPart, HReads, HTurns, HDrops, HAnswers, response,
                Resendable
  <2>5. ASSUME NEW r \in Line, Neutral(r), tx' = <<r>> PROVE OrderOK'
    <3>1. toReader' = Append(toReader, r)
      BY <1>1, <2>1, <2>5
    <3>2. /\ Queue' \in {Append(toReader, r), Append(Append(toReader, r), block)}
          /\ Queue' = Append(Append(toReader, r), block) => Resendable \/ Queue' = Append(toReader, r)
      BY <2>2, <2>4, <3>1 DEF Queue
    <3>3. Queue = IF Resendable THEN Append(toReader, block) ELSE toReader
      BY DEF Queue
    <3>4. /\ Follows(Append(toReader, r), toReader)
          /\ Follows(Append(toReader, r), Append(toReader, block))
          /\ Follows(Append(Append(toReader, r), block), Append(toReader, block))
      BY <1>1, <2>3, <2>5, FollowsNeutral
    <3>5. Append(toReader, r) \in Seq(Line) /\ Append(Append(toReader, r), block) \in Seq(Line)
      BY <1>1, <2>3, <2>5, AppendFacts
    <3>6. Queue' \in Seq(Line) /\ Follows(Queue', Queue)
      BY <3>2, <3>3, <3>4, <3>5
    <3>7. QED
      BY <1>1, <1>2, <2>1, <3>6, OrderFollows
  <2>6. /\ ROk \in RBlocks /\ \A e \in {"edc", "other"} : RErr(e) \in RBlocks
    BY <1>1, BitFacts, RBlockFacts DEF ROk, RErr, LinkTypes
  <2>7. \A r \in RBlocks : r \in Line /\ Neutral(r)
    BY <1>1, LineFacts, KindFacts DEF Neutral, IsI, IsResynch
  <2>8. \A r \in SBlocks : r.cmd # "RESYNCH" => r \in Line /\ Neutral(r)
    BY <1>1, LineFacts, KindFacts DEF Neutral, IsI, IsResynch
  <2>9. CASE HAnswers(x)
    <3>1. PICK r \in SBlocks : tx' = <<r>> /\ r.cmd # "RESYNCH"
      BY <2>9 DEF HAnswers
    <3>2. QED
      BY <2>5, <2>8, <3>1
  <2>10. CASE HAsks(x) \/ HAcks(x) \/ HRefuses(x) \/ HPart(x)
    <3>1. \E r \in RBlocks : tx' = <<r>>
      BY <2>6, <2>10 DEF HAsks, HAcks, HRefuses, HPart
    <3>2. QED
      BY <2>5, <2>7, <3>1
  <2>11. CASE HDrops(x)
    <3>1. toReader' = toReader
      BY <1>1, <2>1, <2>11 DEF HDrops
    <3>2. Queue' = Queue
      BY <2>2, <2>11, <3>1 DEF HDrops, Queue, Resendable, response
    <3>3. Follows(Queue', Queue)
      <4>1. Len(Queue) <= Len(Queue)
        BY <1>1
      <4>2. QED
        BY <1>1, <3>2, <4>1, FollowsSame
    <3>4. QED
      BY <1>1, <1>2, <2>1, <3>2, <3>3, OrderFollows
  <2>12. CASE HResends(x)
    <3>1. toReader' = Append(toReader, block) /\ Resendable /\ Resendable'
      BY <1>1, <1>5, <2>1, <2>12 DEF HResends, Resendable, response
    <3>2. Queue = Append(toReader, block) /\ Queue' = Append(Append(toReader, block), block)
      BY <2>2, <3>1 DEF Queue
    <3>3. Queue' \in Seq(Line) /\ Follows(Queue', Queue)
      BY <1>1, <2>3, <3>2, FollowsTwice
    <3>4. QED
      BY <1>1, <1>2, <2>1, <3>3, OrderFollows
  <2>13. QED
    BY <1>5, <2>9, <2>10, <2>11, <2>12 DEF HGoes
<1>6. QED
  BY <1>3, <1>4, <1>5 DEF Passes

LEMMA TakeOrder ==
  ASSUME LinkTypes, HostOK, OrderOK, RReads, NEW b, b = toReader[1], b \in LinkI, b.n = rnr, rnr' = Flip(rnr),
         \/ rbuf' = rbuf \o b.data /\ executed' = executed
         \/ rbuf' = <<>> /\ \E r : executed' = Append(executed, [cmd |-> rbuf \o b.data, rsp |-> r])
  PROVE  OrderOK'
<1>1. Queue \in Seq(Line) /\ Queue # <<>> /\ Queue[1] = b
  BY QueueFacts DEF RReads
<1>2. Queue' = Tail(Queue) /\ Call' = Call
  <2>1. UNCHANGED <<pc, lastiicc, block, calls>> /\ toReader' = Tail(toReader) /\ toReader # <<>>
    BY DEF RReads, vars, response, apdu
  <2>2. Resendable' = Resendable
    BY <2>1 DEF Resendable
  <2>3. Queue' = IF Resendable THEN Append(Tail(toReader), block) ELSE Tail(toReader)
    BY <2>1, <2>2 DEF Queue
  <2>4. QED
    BY <2>1, <2>3, QueueFacts DEF Call
<1> DEFINE q == Queue
           k == Call
           e == End(b)
<1>3. /\ q \in Seq(Line) /\ q # <<>> /\ q[1] = b /\ k \in Nat /\ InOrder(q, k) /\ rnr \in Bit
      /\ Seen = Takeable(q, k, rnr) /\ Seen' = Takeable(Tail(q), k, Flip(rnr))
      /\ InOrder(Queue, Call)' = InOrder(Tail(q), k)
  BY <1>1, <1>2, LineFacts DEF OrderOK, Seen, LinkTypes
<1> HIDE DEF q, k
<1>4. /\ e \in Takeable(Tail(q), k, Flip(rnr))
      /\ Takeable(q, k, rnr) \subseteq Takeable(Tail(q), k, Flip(rnr))
      /\ \A u \in Takeable(q, k, rnr) : Before(u, e)
  BY <1>3, OrderTakes
<1>5. InOrder(Queue, Call)'
  <2>1. Tail(q) \in Seq(Line) /\ Follows(Tail(q), q)
    BY <1>3, FollowsTail
  <2>2. PICK f : ComesFrom(Tail(q), q, f)
    BY <2>1 DEF Follows
  <2>3. k <= k
    BY <1>3
  <2>4. InOrder(Tail(q), k)
    BY <1>3, <2>1, <2>2, <2>3, OrderKept
  <2>5. QED
    BY <1>3, <2>4
<1>6. e \in Seen' /\ Seen \subseteq Seen' /\ \A u \in Seen : Before(u, e)
  BY <1>3, <1>4
<1>7. rbuf \o b.data # <<>> /\ Last(rbuf \o b.data) = e
  <2> DEFINE d == b.data
  <2>1. d \in Seq(Units) /\ d # <<>> /\ rbuf \in Seq(Units) /\ e = Last(d)
    BY KindFacts DEF LinkTypes, End
  <2> HIDE DEF d
  <2>2. Len(d) \in Nat /\ Len(d) > 0 /\ Len(rbuf) \in Nat /\ Len(rbuf \o d) = Len(rbuf) + Len(d)
    BY <2>1
  <2>3. (rbuf \o d)[Len(rbuf) + Len(d)] = d[Len(d)]
    BY <2>1, <2>2
  <2>4. rbuf \o d # <<>>
    BY <2>1, <2>2
  <2>5. QED
    BY <2>1, <2>2, <2>3, <2>4 DEF Last, d
<1> HIDE DEF e
<1>8. /\ \A i \in 1 .. Len(executed) : executed[i].cmd # <<>> /\ Last(executed[i].cmd) \in Seen
      /\ \A i, j \in 1 .. Len(executed) : i < j => Before(Last(executed[i].cmd), Last(executed[j].cmd))
  BY DEF OrderOK, TakenOK
<1>9. CASE rbuf' = rbuf \o b.data /\ executed' = executed
  <2>1. rbuf' # <<>> /\ Last(rbuf') = e
    BY <1>7, <1>9
  <2>2. TakenOK'
    BY <1>6, <1>8, <1>9, <2>1 DEF TakenOK
  <2>3. QED
    BY <1>5, <2>2 DEF OrderOK
<1>10. CASE rbuf' = <<>> /\ \E r : executed' = Append(executed, [cmd |-> rbuf \o b.data, rsp |-> r])
  <2>1. PICK r : executed' = Append(executed, [cmd |-> rbuf \o b.data, rsp |-> r])
    BY <1>10
  <2> DEFINE x == [cmd |-> rbuf \o b.data, rsp |-> r]
             n == Len(executed)
  <2>2. x.cmd # <<>> /\ Last(x.cmd) = e
    BY <1>7
  <2> HIDE DEF x
  <2>3. executed' = Append(executed, x)
    BY <2>1 DEF x
  <2>4. executed \in Seq([cmd : Seq(Units), rsp : Seq(Units)])
    BY DEF LinkTypes
  <2>5. /\ n \in Nat /\ Len(executed') = n + 1 /\ executed'[n + 1] = x
        /\ \A i \in 1 .. n : executed'[i] = executed[i]
    BY <2>3, <2>4
  <2> HIDE DEF n
  <2>6. \A i \in 1 .. n + 1 : i \in 1 .. n \/ i = n + 1
    BY <2>5
  <2>7. /\ \A i \in 1 .. n : executed[i].cmd # <<>> /\ Last(executed[i].cmd) \in Seen
        /\ \A i, j \in 1 .. n : i < j => Before(Last(executed[i].cmd), Last(executed[j].cmd))
    BY <1>8 DEF n
  <2>8. \A i \in 1 .. n + 1 : executed'[i].cmd # <<>> /\ Last(executed'[i].cmd) \in Seen'
    BY <1>6, <2>2, <2>5, <2>6, <2>7
  <2>9. ASSUME NEW i \in 1 .. n + 1, NEW j \in 1 .. n + 1, i < j
        PROVE  Before(Last(executed'[i].cmd), Last(executed'[j].cmd))
    <3>1. i \in 1 .. n
      BY <2>5, <2>9
    <3>2. CASE j = n + 1
      BY <1>6, <2>2, <2>5, <2>7, <3>1, <3>2
    <3>3. CASE j \in 1 .. n
      BY <2>5, <2>7, <2>9, <3>1, <3>3
    <3>4. QED
      BY <2>6, <3>2, <3>3
  <2>10. TakenOK'
    BY <1>10, <2>5, <2>8, <2>9 DEF TakenOK
  <2>11. QED
    BY <1>5, <2>10 DEF OrderOK
<1>11. QED
  BY <1>9, <1>10

LEMMA ReadOrder ==
  ASSUME Basics, OrderOK, RReads, RSteps(toReader[1])
  PROVE  OrderOK'
<1>1. LinkTypes /\ HostOK /\ Queue \in Seq(Line) /\ Queue # <<>> /\ Queue[1] = toReader[1] /\ Call \in Nat
  BY QueueFacts, LineFacts DEF RReads, Basics
<1>2. Queue' = Tail(Queue) /\ Call' = Call
  <2>1. UNCHANGED <<pc, lastiicc, block, calls>> /\ toReader' = Tail(toReader) /\ toReader # <<>>
    BY DEF RReads, vars, response, apdu
  <2>2. Resendable' = Resendable
    BY <2>1 DEF Resendable
  <2>3. Queue' = IF Resendable THEN Append(Tail(toReader), block) ELSE Tail(toReader)
    BY <2>1, <2>2 DEF Queue
  <2>4. QED
    BY <1>1, <2>1, <2>3, QueueFacts DEF Call
<1>3. Tail(Queue) \in Seq(Line) /\ Follows(Tail(Queue), Queue)
  BY <1>1, FollowsTail
<1>4. Call' \in Nat /\ Call <= Call' /\ Queue' \in Seq(Line) /\ Follows(Queue', Queue)
  BY <1>1, <1>2, <1>3
<1> DEFINE b == toReader[1]
<1> HIDE DEF b
<1>5. RSteps(b) /\ b = toReader[1]
  BY DEF b
<1>6. CASE RTakes(b) \/ \E r \in Seq(Units) : RExecutes(b, r)
  <2>1. /\ b \in LinkI /\ b.n = rnr /\ rnr' = Flip(rnr)
        /\ \/ rbuf' = rbuf \o b.data /\ executed' = executed
           \/ rbuf' = <<>> /\ \E r : executed' = Append(executed, [cmd |-> rbuf \o b.data, rsp |-> r])
    BY <1>6 DEF RTakes, RExecutes
  <2>2. QED
    BY <1>1, <1>5, <2>1, TakeOrder
<1>7. CASE RResets(b)
  <2>1. IsResynch(b) /\ rnr' = 0 /\ rbuf' = <<>> /\ executed' = executed
    BY <1>7, KindFacts DEF RResets, IsResynch
  <2> DEFINE q == Queue
             k == Call
  <2>2. /\ q \in Seq(Line) /\ q # <<>> /\ IsResynch(q[1]) /\ k \in Nat /\ InOrder(q, k) /\ rnr \in Bit
        /\ Seen = Takeable(q, k, rnr) /\ Seen' = Takeable(Tail(q), k, 0)
        /\ InOrder(Queue, Call)' = InOrder(Tail(q), k)
        /\ Tail(q) \in Seq(Line) /\ Follows(Tail(q), q)
    BY <1>1, <1>2, <1>3, <1>5, <2>1 DEF OrderOK, Seen, LinkTypes
  <2> HIDE DEF q, k
  <2>3. Takeable(q, k, rnr) \subseteq Takeable(Tail(q), k, 0)
    BY <2>2, OrderResets
  <2>4. PICK f : ComesFrom(Tail(q), q, f)
    BY <2>2 DEF Follows
  <2>5. k <= k
    BY <2>2
  <2>6. InOrder(Tail(q), k)
    BY <2>2, <2>4, <2>5, OrderKept
  <2>7. Seen \subseteq Seen' /\ InOrder(Queue, Call)'
    BY <2>2, <2>3, <2>6
  <2>8. TakenOK'
    BY <2>1, <2>7 DEF TakenOK, OrderOK
  <2>9. QED
    BY <2>7, <2>8 DEF OrderOK
<1>8. CASE ROnBad(b) \/ ROnOld(b) \/ ROnR(b) \/ RGoesOn(b) \/ RResumes(b) \/ RIgnores(b)
  <2>1. rnr' = rnr /\ rbuf' \in {rbuf, <<>>} /\ executed' = executed
    <3>1. CASE ROnBad(b) \/ ROnOld(b) \/ ROnR(b)
      BY <3>1 DEF ROnBad, ROnOld, ROnR, REchoes
    <3>2. CASE RGoesOn(b) \/ RResumes(b) \/ RIgnores(b)
      BY <3>2 DEF RGoesOn, RResumes, RIgnores, reader
    <3>3. QED
      BY <1>8, <3>1, <3>2
  <2>2. QED
    BY <1>1, <1>4, <2>1, OrderFollows
<1>9. QED
  BY <1>5, <1>6, <1>7, <1>8 DEF RSteps

\* S(RESYNCH) goes out.
LEMMA OrderResynch ==
  ASSUME NEW q \in Seq(Line), NEW k \in Nat, NEW r \in Bit
  PROVE  /\ InOrder(q, k) => InOrder(q \o <<Detach, Resynch>>, k)
         /\ Takeable(q, k, r) \subseteq Takeable(q \o <<Detach, Resynch>>, k, r)
<1> DEFINE p == q \o <<Detach, Resynch>>
           n == Len(q)
<1>1. /\ n \in Nat /\ Len(p) = n + 2 /\ p[n + 1] = Detach /\ p[n + 2] = Resynch
      /\ \A i \in 1 .. n : p[i] = q[i]
  OBVIOUS
<1> HIDE DEF p
<1>2. ~IsI(Detach) /\ ~IsI(Resynch)
  BY SpecialFacts DEF IsI
<1>3. \A i \in 1 .. Len(p) : IsI(p[i]) => i \in 1 .. n /\ p[i] = q[i]
  BY <1>1, <1>2
<1>4. \A i, j \in 1 .. Len(p) : j \in 1 .. n /\ i < j => i \in 1 .. n /\ p[i] = q[i]
  BY <1>1
<1> HIDE DEF n
<1>5. ASSUME InOrder(q, k) PROVE InOrder(p, k)
  <2>1. \A i \in 1 .. Len(p) : IsI(p[i]) => End(p[i])[1] <= k
    BY <1>3, <1>5 DEF InOrder, n
  <2>2. \A i, j \in 1 .. Len(p) : i < j /\ IsI(p[i]) /\ IsI(p[j]) =>
          NotAfter(End(p[i]), End(p[j])) /\ (End(p[i]) = End(p[j]) => p[i].n = p[j].n)
    BY <1>3, <1>5 DEF InOrder, n
  <2>3. ASSUME NEW i \in 1 .. Len(p), NEW l \in 1 .. Len(p), NEW j \in 1 .. Len(p), i < l, l < j,
               IsI(p[i]), IsResynch(p[l]), IsI(p[j])
        PROVE  Before(End(p[i]), End(p[j]))
    <3>1. /\ i \in 1 .. n /\ l \in 1 .. n /\ j \in 1 .. n /\ p[i] = q[i] /\ p[l] = q[l] /\ p[j] = q[j]
      BY <1>3, <1>4, <2>3
    <3>2. QED
      BY <1>5, <2>3, <3>1 DEF InOrder, n
  <2>4. QED
    BY <2>1, <2>2, <2>3 DEF InOrder
<1>6. ASSUME NEW u \in Takeable(q, k, r) PROVE u \in Takeable(p, k, r)
  <2>1. u \in Units /\ u[1] <= k
    BY DEF Takeable
  <2>2. \A i \in 1 .. Len(p) : IsI(p[i]) =>
          NotAfter(u, End(p[i])) /\ (p[i].n = r => Before(u, End(p[i])))
    BY <1>3 DEF Takeable, n
  <2>3. ASSUME NEW l \in 1 .. Len(p), NEW i \in 1 .. Len(p), l < i, IsResynch(p[l]), IsI(p[i])
        PROVE  Before(u, End(p[i]))
    <3>1. i \in 1 .. n /\ l \in 1 .. n /\ p[l] = q[l] /\ p[i] = q[i]
      BY <1>3, <1>4, <2>3
    <3>2. QED
      BY <2>3, <3>1 DEF Takeable, n
  <2>4. QED
    BY <2>1, <2>2, <2>3 DEF Takeable
<1>7. QED
  BY <1>5, <1>6 DEF p

LEMMA OtherOrder ==
  ASSUME Basics, OrderOK, LineActs \/ UNCHANGED linkVars
  PROVE  OrderOK'
<1>1. /\ LinkTypes /\ HostOK /\ toReader \in Seq(Line) /\ Queue \in Seq(Line) /\ Call \in Nat /\ BadBlock \in Line
      /\ rnr \in Bit /\ LinkI \subseteq Line
  BY QueueFacts, LineFacts DEF Basics, LinkTypes
<1>2. UNCHANGED <<reader, calls, executed>>
  BY DEF LineActs, HostClose, HostOpen, HostOpened, Damage, Lose, Done, linkVars
<1>3. UNCHANGED <<rnr, rbuf, executed>> /\ Call' = Call /\ Call' \in Nat /\ Call <= Call'
  BY <1>1, <1>2 DEF reader, Call
<1>4. UNCHANGED <<pc, lastiicc, block>>
  <2>1. CASE HostOpen \/ HostOpened
    BY <2>1 DEF HostOpen, HostOpened, apdu, response
  <2>2. CASE UNCHANGED vars
    BY <2>2 DEF vars, apdu, response
  <2>3. QED
    BY <2>1, <2>2 DEF LineActs, HostClose, Damage, Lose, Done, linkVars
<1>5. Resendable' = Resendable
  BY <1>4 DEF Resendable
<1>6. CASE toReader' = toReader
  <2>1. Queue' = Queue
    BY <1>4, <1>5, <1>6 DEF Queue
  <2>2. Follows(Queue', Queue)
    <3>1. Len(Queue) <= Len(Queue)
      BY <1>1
    <3>2. QED
      BY <1>1, <2>1, <3>1, FollowsSame
  <2>3. QED
    BY <1>1, <1>3, <2>1, <2>2, OrderFollows
<1>7. CASE toReader # <<>> /\ toReader' = Tail(toReader)
  <2>1. Queue' = Tail(Queue) /\ Queue # <<>>
    BY <1>1, <1>4, <1>5, <1>7, QueueFacts DEF Queue
  <2>2. Queue' \in Seq(Line) /\ Follows(Queue', Queue)
    BY <1>1, <2>1, FollowsTail
  <2>3. QED
    BY <1>1, <1>3, <2>2, OrderFollows
<1>8. CASE toReader # <<>> /\ toReader' = <<BadBlock>> \o Tail(toReader)
  <2> DEFINE t == toReader
             s == <<BadBlock>> \o Tail(t)
             n == Len(t)
  <2>1. n \in Nat /\ n > 0 /\ Tail(t) \in Seq(Line) /\ Len(Tail(t)) = n - 1 /\ \A i \in 1 .. n - 1 : Tail(t)[i] = t[i + 1]
    BY <1>1, <1>8, TailFacts
  <2>2. s \in Seq(Line) /\ Len(s) = n /\ s[1] = BadBlock /\ \A i \in 2 .. n : s[i] = t[i]
    <3> DEFINE tt == Tail(t)
    <3>1. tt \in Seq(Line) /\ Len(tt) = n - 1 /\ \A i \in 1 .. n - 1 : tt[i] = t[i + 1]
      BY <2>1
    <3> HIDE DEF tt, n, t
    <3>2. <<BadBlock>> \o tt \in Seq(Line) /\ Len(<<BadBlock>> \o tt) = n /\ (<<BadBlock>> \o tt)[1] = BadBlock
      BY <1>1, <2>1, <3>1
    <3>3. \A i \in 2 .. n : (<<BadBlock>> \o tt)[i] = tt[i - 1] /\ i - 1 \in 1 .. n - 1 /\ (i - 1) + 1 = i
      BY <1>1, <2>1, <3>1
    <3>4. QED
      BY <3>1, <3>2, <3>3 DEF tt
  <2>3. Neutral(BadBlock)
    BY KindFacts DEF Neutral, IsI, IsResynch
  <2> HIDE DEF s, n
  <2>4. toReader' = s
    BY <1>8 DEF s
  <2>5. \A i \in 1 .. n : i = 1 \/ i \in 2 .. n
    BY <2>1
  <2>6. Queue' \in Seq(Line) /\ Follows(Queue', Queue)
    <3>1. CASE Resendable
      <4>1. Queue = Append(t, block) /\ Queue' = Append(s, block) /\ block \in Line
        BY <1>1, <1>4, <1>5, <2>4, <3>1, QueueFacts DEF Queue
      <4>2. /\ Queue' \in Seq(Line) /\ Len(Queue') = n + 1 /\ Queue'[n + 1] = block
            /\ \A i \in 1 .. n : Queue'[i] = s[i]
        BY <2>2, <4>1, AppendFacts
      <4>3. /\ Len(Queue) = n + 1 /\ Queue[n + 1] = block /\ \A i \in 1 .. n : Queue[i] = t[i]
        BY <1>1, <4>1, AppendFacts DEF n
      <4>4. \A i \in 1 .. n + 1 : i \in 1 .. n \/ i = n + 1
        BY <2>1
      <4>5. \A i \in 1 .. Len(Queue') : Neutral(Queue'[i]) \/ Queue'[i] = Queue[i]
        BY <2>2, <2>3, <2>5, <4>2, <4>3, <4>4
      <4>6. Len(Queue') <= Len(Queue)
        BY <2>1, <4>2, <4>3
      <4>7. QED
        BY <1>1, <4>2, <4>5, <4>6, FollowsSame
    <3>2. CASE ~Resendable
      <4>1. Queue = t /\ Queue' = s
        BY <1>5, <2>4, <3>2 DEF Queue
      <4>2. \A i \in 1 .. Len(Queue') : Neutral(Queue'[i]) \/ Queue'[i] = Queue[i]
        BY <2>2, <2>3, <2>5, <4>1
      <4>3. Len(Queue') <= Len(Queue)
        BY <2>1, <2>2, <4>1 DEF n
      <4>4. QED
        BY <1>1, <2>2, <4>1, <4>2, <4>3, FollowsSame
    <3>3. QED
      BY <3>1, <3>2
  <2>7. QED
    BY <1>1, <1>3, <2>6, OrderFollows
<1>9. CASE HostOpen
  <2>1. toReader' = toReader \o <<Detach, Resynch>> /\ session = "closed"
    BY <1>9 DEF HostOpen, Resynch
  <2>2. ~Resendable
    BY <1>1, <2>1 DEF HostOK, Resendable, LinkTypes
  <2>3. Queue = toReader /\ Queue' = toReader \o <<Detach, Resynch>>
    BY <1>5, <2>1, <2>2 DEF Queue
  <2> DEFINE q == Queue
             k == Call
             p == q \o <<Detach, Resynch>>
  <2>4. q \in Seq(Line) /\ k \in Nat /\ Queue' = p /\ Call' = k /\ InOrder(q, k)
    BY <1>1, <1>3, <2>3 DEF OrderOK
  <2>5. InOrder(Queue, Call)' = InOrder(p, k) /\ Seen' = Takeable(p, k, rnr) /\ Seen = Takeable(q, k, rnr)
    BY <1>3, <2>4 DEF Seen
  <2> HIDE DEF q, k
  <2>6. InOrder(p, k) /\ Takeable(q, k, rnr) \subseteq Takeable(p, k, rnr)
    BY <1>1, <2>4, OrderResynch
  <2>7. Seen \subseteq Seen' /\ InOrder(Queue, Call)'
    BY <2>5, <2>6
  <2>8. TakenOK'
    BY <1>3, <2>7 DEF TakenOK, OrderOK
  <2>9. QED
    BY <2>7, <2>8 DEF OrderOK
<1>10. QED
  BY <1>6, <1>7, <1>8, <1>9 DEF LineActs, HostClose, HostOpened, Damage, Lose, Done, linkVars

LEMMA OrderStep == Basics /\ OrderOK /\ [LinkNext]_linkVars => OrderOK'
<1> SUFFICES ASSUME Basics, OrderOK, [LinkNext]_linkVars PROVE OrderOK'
  OBVIOUS
<1>1. Moves
  BY Moving
<1>2. CASE \E c \in Seq(Units), max \in Nat : HSubmits(c, max)
  BY <1>2, SubmitOrder
<1>3. CASE \E x, rest : Passes(x, rest)
  BY <1>3, PassOrder
<1>4. CASE RReads /\ RSteps(toReader[1])
  BY <1>4, ReadOrder
<1>5. CASE LineActs \/ UNCHANGED linkVars
  BY <1>5, OtherOrder
<1>6. QED
  BY <1>1, <1>2, <1>3, <1>4, <1>5 DEF Moves

LEMMA LinkInitially == LinkInit => Basics /\ OrderOK
<1> SUFFICES ASSUME LinkInit PROVE Basics /\ OrderOK
  OBVIOUS
<1>1. /\ ns = 0 /\ nr = 0 /\ ifsc = IfscInit /\ pc = "idle" /\ ret = "NONE" /\ device \in Devices
      /\ session = "closed" /\ toReader = <<>> /\ toHost = <<>>
      /\ rns = 0 /\ rnr = 0 /\ rbuf = <<>> /\ rout = <<>>
      /\ rlast = BadBlock /\ rkeep = BadBlock /\ rnext = <<>>
      /\ calls = <<>> /\ executed = <<>> /\ damaged = 0 /\ missing = 0 /\ requests = 0
  BY DEF LinkInit, Init
<1>2. LinkTypes
  BY <1>1, BitFacts, LimitFacts, LinkAssumption DEF LinkTypes, Result, Sessions
<1>3. HostOK /\ ReaderOK
  BY <1>1, KindFacts DEF HostOK, ReaderOK, Kept
<1>4. Queue = <<>> /\ Call = 0
  BY <1>1 DEF Queue, Resendable, Call
<1>5. InOrder(Queue, Call)
  BY <1>4 DEF InOrder
<1>6. TakenOK
  BY <1>1 DEF TakenOK
<1>7. QED
  BY <1>2, <1>3, <1>5, <1>6 DEF Basics, OrderOK

\* The reader executes no command a second time: what it executes ends with a
\* byte of a later command, or a later byte of the same one, than anything it
\* executed before.
ExecutedInOrder ==
  \A i, j \in 1 .. Len(executed) :
    i < j => Before(Last(executed[i].cmd), Last(executed[j].cmd))

\* Whatever is damaged, lost, late or repeated on the line, and however often
\* a session is opened and closed, the reader never executes a command that it
\* has executed before (cjT1SendCmd repeats blocks, never commands).
THEOREM LinkNeverRepeats == LinkSpec => []ExecutedInOrder
<1>1. Basics /\ OrderOK /\ [LinkNext]_linkVars => (Basics /\ OrderOK)'
  BY BasicsKept, OrderStep
<1>2. Basics /\ OrderOK => ExecutedInOrder
  BY DEF OrderOK, TakenOK, ExecutedInOrder
<1>3. QED
  BY <1>1, <1>2, LinkInitially, PTL DEF LinkSpec

-----------------------------------------------------------------------------
(* As long as no block is missing.                                         *)

LEMMA PairFacts ==
  ASSUME NEW d, NEW r
  PROVE  /\ <<d, r>> # <<>> /\ <<d, r>>[1] = d /\ Tail(<<d, r>>) = <<r>> /\ Head(<<d, r>>) = d
         /\ <<d>> # <<>> /\ <<d>>[1] = d /\ Tail(<<d>>) = <<>> /\ Head(<<d>>) = d /\ Len(<<d>>) = 1
         /\ Append(<<>>, d) = <<d>> /\ <<>> \o <<d>> = <<d>> /\ <<>> \o <<d, r>> = <<d, r>>
         /\ <<d>> \o <<>> = <<d>>
<1>1. <<d, r>> # <<>> /\ <<d, r>>[1] = d /\ Head(<<d, r>>) = d
  OBVIOUS
<1>2. Tail(<<d, r>>) = <<r>>
  OBVIOUS
<1>3. <<d>> # <<>> /\ <<d>>[1] = d /\ Tail(<<d>>) = <<>> /\ Head(<<d>>) = d /\ Len(<<d>>) = 1
  OBVIOUS
<1>4. Append(<<>>, d) = <<d>>
  OBVIOUS
<1>5. <<>> \o <<d>> = <<d>> /\ <<d>> \o <<>> = <<d>>
  OBVIOUS
<1>6. <<>> \o <<d, r>> = <<d, r>>
  OBVIOUS
<1>7. QED
  BY <1>1, <1>2, <1>3, <1>4, <1>5, <1>6

LEMMA BackFacts ==
  ASSUME ComesBack
  PROVE  /\ toReader = <<>> /\ toHost # <<>> /\ toHost = <<toHost[1]>> /\ Tail(toHost) = <<>>
         /\ rlast # BadBlock /\ toHost[1] \in {BadBlock, rlast}
<1>1. CASE toHost = <<BadBlock>>
  BY <1>1, PairFacts DEF ComesBack
<1>2. CASE toHost = <<rlast>>
  BY <1>2, PairFacts DEF ComesBack
<1>3. QED
  BY <1>1, <1>2 DEF ComesBack

LEMMA OutFacts ==
  ASSUME GoesOut
  PROVE  /\ toHost = <<>> /\ toReader # <<>> /\ toReader = <<toReader[1]>> /\ Tail(toReader) = <<>>
         /\ toReader[1] \in {BadBlock, block} \cup RBlocks \cup SBlocks
<1>1. toReader = <<toReader[1]>>
  BY DEF GoesOut
<1> DEFINE b == toReader[1]
<1>2. <<b>> # <<>> /\ Tail(<<b>>) = <<>>
  BY PairFacts
<1>3. toReader = <<b>>
  BY <1>1
<1> HIDE DEF b
<1>4. toReader # <<>> /\ Tail(toReader) = <<>>
  BY <1>2, <1>3
<1>5. QED
  BY <1>1, <1>4 DEF GoesOut, b

\* A block r of the driver goes out.
LEMMA GoneOut ==
  ASSUME toHost' = <<>>, NEW r, toReader' = <<r>>, r \in {BadBlock, block'} \cup RBlocks \cup SBlocks,
         r.type = "S" => rlast'.type = "S" /\ r # Detach /\ r.cmd # "RESYNCH"
  PROVE  GoesOut' /\ toReader'[1] = r /\ toReader' # <<>>
<1>1. toReader'[1] = r /\ toReader' # <<>>
  BY PairFacts
<1>2. QED
  BY <1>1 DEF GoesOut

LEMMA SubmitLine ==
  ASSUME Basics, LineOK, NEW c \in Seq(Units), NEW max \in Nat, HSubmits(c, max)
  PROVE  LineOK' /\ (pc' = "recv" => toReader' = <<block'>> /\ toHost' = <<>>)
<1>1. LinkTypes /\ toReader = <<>> /\ toHost = <<>>
  BY DEF Basics, LineOK, HSubmits
<1>2. block' \in LinkI /\ block'.type = "I"
  BY <1>1, SubmitBlock, KindFacts
<1>3. CASE pc' = "recv" /\ tx' = <<block'>> /\ LGoes(toHost)
  <2>1. toHost' = <<>> /\ toReader' = <<block'>> /\ session' = session /\ session \in {"open", "eject"}
    BY <1>1, <1>3, PairFacts DEF LGoes, HSubmits
  <2>2. GoesOut'
    BY <1>2, <2>1, GoneOut
  <2>3. QED
    BY <1>3, <2>1, <2>2 DEF LineOK
<1>4. CASE pc' = "idle" /\ LEnds(toHost)
  <2>1. Kernel' = Kernel
    BY DEF HSubmits, Kernel
  <2>2. QED
    BY <1>1, <1>4, <2>1 DEF LEnds, LineOK
<1>5. QED
  BY <1>3, <1>4 DEF HSubmits

\* The one block that goes out after a pass.
LEMMA PassSends ==
  ASSUME Basics, pc = "recv", NEW x \in Line, x # Resynched, HGoes(x) \/ HAnswers(x)
  PROVE  \E r : /\ tx' = <<r>> /\ r \in {block'} \cup RBlocks \cup SBlocks
                /\ r.type = "S" => x \in Requests /\ r # Detach /\ r.cmd # "RESYNCH"
<1>1. LinkTypes /\ HostOK
  BY DEF Basics
<1>2. ROk \in RBlocks /\ \A e \in {"edc", "other"} : RErr(e) \in RBlocks
  BY <1>1, BitFacts, RBlockFacts DEF ROk, RErr, LinkTypes
<1>3. \A r \in RBlocks : r.type # "S"
  BY KindFacts
<1>4. CASE HAsks(x) \/ HAcks(x) \/ HRefuses(x) \/ HPart(x)
  <2>1. \E r \in RBlocks : tx' = <<r>>
    BY <1>2, <1>4 DEF HAsks, HAcks, HRefuses, HPart
  <2>2. QED
    BY <1>3, <2>1
<1>5. CASE HResends(x)
  <2>1. block \in LinkI /\ tx' = <<block>> /\ block' = block
    BY <1>1, <1>5 DEF HostOK, HResends, apdu
  <2>2. QED
    BY <2>1, KindFacts
<1>6. CASE HNext(x)
  <2>1. block' \in LinkI /\ tx' = <<block'>>
    BY <1>1, <1>6, PassWrites DEF HNext, HGoes
  <2>2. QED
    BY <2>1, KindFacts
<1>7. CASE HAnswers(x)
  <2>1. PICK r \in SBlocks : tx' = <<r>> /\ r.dir = "response" /\ r.cmd # "RESYNCH"
    BY <1>7 DEF HAnswers
  <2>2. r # Detach /\ x \in Requests
    BY <1>7, <2>1, SpecialFacts DEF HAnswers
  <2>3. QED
    BY <2>1, <2>2
<1>8. QED
  BY <1>4, <1>5, <1>6, <1>7 DEF HGoes, HDrops

LEMMA PassLine ==
  ASSUME Basics, LineOK, toHost # <<>>, Passes(toHost[1], Tail(toHost))
  PROVE  LineOK' /\ ComesBack /\ (pc' # "idle" => GoesOut' /\ tx' = toReader' /\ toHost' = <<>>)
<1>1. LinkTypes /\ HostOK /\ ReaderOK /\ session \in {"open", "eject"} /\ pc # "idle"
  BY DEF Basics, Passes
<1>2. ComesBack
  BY <1>1 DEF LineOK, GoesOut
<1>3. toReader = <<>> /\ Tail(toHost) = <<>> /\ toHost[1] \in {BadBlock, rlast}
  BY <1>2, BackFacts
<1> DEFINE x == toHost[1]
<1>4. x # Resynched /\ (x \in Requests => rlast.type = "S") /\ x \in Line
  <2>1. x = BadBlock => x # Resynched /\ x \notin Requests
    BY SpecialFacts, KindFacts, RequestFacts
  <2>2. x = rlast => x # Resynched /\ (x \in Requests => rlast.type = "S")
    BY <1>1, SpecialFacts, RequestFacts DEF ReaderOK
  <2>3. QED
    BY <1>3, <2>1, <2>2 DEF Passes
<1>5. CASE pc = "recv" /\ LGoes(<<>>) /\ (HGoes(x) \/ HAnswers(x))
  <2>1. PICK r : /\ tx' = <<r>> /\ r \in {block'} \cup RBlocks \cup SBlocks
                 /\ r.type = "S" => x \in Requests /\ r # Detach /\ r.cmd # "RESYNCH"
    BY <1>4, <1>5, PassSends
  <2>2. toHost' = <<>> /\ toReader' = <<r>> /\ session' = session /\ rlast' = rlast /\ pc' # "idle"
    BY <1>3, <1>5, <2>1, PairFacts DEF LGoes, reader
  <2>3. GoesOut'
    BY <1>4, <2>1, <2>2, GoneOut
  <2>4. LineOK'
    BY <1>1, <2>2, <2>3 DEF LineOK
  <2>5. QED
    BY <1>2, <2>1, <2>2, <2>3, <2>4
<1>6. CASE LEnds(<<>>)
  <2>1. Kernel' = Kernel
    BY DEF Passes, Kernel
  <2>2. pc' = "idle"
    BY <1>6 DEF LEnds
  <2>3. LineOK'
    BY <1>1, <1>3, <1>6, <2>1 DEF LEnds, LineOK
  <2>4. QED
    BY <1>2, <2>2, <2>3
<1>7. QED
  BY <1>3, <1>5, <1>6 DEF Passes

\* What a step of the reader sends in the middle of a session.
LEMMA ReadSends ==
  ASSUME LinkTypes, ReaderOK, NEW b, RSteps(b), ~RResets(b), ~RIgnores(b), toHost = <<>>
  PROVE  toHost' = <<rlast'>> /\ rlast' # BadBlock /\ rlast' # Resynched
<1>1. ASSUME NEW y \in LinkI \cup RBlocks, ReplyOrAsk(y)
      PROVE  toHost' = <<rlast'>> /\ rlast' # BadBlock /\ rlast' # Resynched
  <2>1. PICK z : Sends(y, z)
    BY <1>1, Sending1
  <2>2. toHost' = <<z>> /\ rlast' = z
    BY <2>1, PairFacts DEF Sends
  <2>3. y # BadBlock /\ y # Resynched
    BY KindFacts, SpecialFacts
  <2>4. z # BadBlock /\ z # Resynched
    BY <2>1, <2>3, RequestFacts, KindFacts DEF Sends
  <2>5. QED
    BY <2>2, <2>4
<1>2. CASE ROnBad(b) \/ ROnOld(b) \/ ROnR(b)
  <2>1. PICK y \in LinkBlocks : REchoes(y) /\ (y.type = "S" => y = rkeep /\ y \in Requests)
    BY <1>2, EchoSteps
  <2>2. toHost' = <<y>> /\ rlast' = y
    BY <2>1, PairFacts DEF REchoes, Reply
  <2>3. y # BadBlock /\ y # Resynched
    BY <2>1, KindFacts, SpecialFacts, RequestFacts DEF LinkBlocks
  <2>4. QED
    BY <2>2, <2>3
<1>3. rnr \in Bit /\ rns \in Bit /\ Flip(rnr) \in Bit
  BY BitFacts DEF LinkTypes
<1>4. CASE RTakes(b)
  <2> DEFINE y == [type |-> "R", n |-> Flip(rnr), err |-> "ok"]
  <2>1. y \in RBlocks /\ ReplyOrAsk(y)
    BY <1>3, <1>4, RBlockFacts DEF RTakes
  <2> HIDE DEF y
  <2>2. QED
    BY <1>1, <2>1
<1>5. CASE \E r \in Seq(Units) : RExecutes(b, r)
  <2>1. PICK r \in Seq(Units) : RExecutes(b, r)
    BY <1>5
  <2>2. Len(r) >= 2 /\ Len(r) \in Nat
    BY <2>1, LimitFacts DEF RExecutes
  <2>3. r # <<>>
    BY <2>2
  <2>4. ReaderIBlock(rns, r) \in LinkI /\ ReplyOrAsk(ReaderIBlock(rns, r))
    BY <1>3, <2>1, <2>3, ReplyFacts DEF RExecutes
  <2>5. QED
    BY <1>1, <2>4
<1>6. CASE RGoesOn(b)
  <2>1. /\ rkeep \in LinkI /\ rkeep.more /\ rout' = SubSeq(rout, Len(rkeep.data) + 1, Len(rout))
        /\ ReplyOrAsk(ReaderIBlock(rns, rout'))
    BY <1>6 DEF RGoesOn
  <2>2. Len(rkeep.data) < Len(rout) /\ Len(rkeep.data) \in Nat /\ rout \in Seq(Units)
    <3>1. rkeep.type = "I" /\ rkeep.data \in Seq(Units)
      BY <2>1, KindFacts
    <3>2. rnext = <<>>
      BY <3>1 DEF ReaderOK
    <3>3. Kept = rkeep
      BY <3>2 DEF Kept
    <3>4. QED
      BY <2>1, <3>1, <3>3 DEF ReaderOK, LinkTypes
  <2>3. rout' \in Seq(Units) /\ rout' # <<>>
    <3> DEFINE l == Len(rkeep.data)
    <3>1. l \in Nat /\ l < Len(rout) /\ rout' = SubSeq(rout, l + 1, Len(rout)) /\ Len(rout) \in Nat
      BY <2>1, <2>2
    <3> HIDE DEF l
    <3>2. rout' \in Seq(Units) /\ Len(rout') = Len(rout) - l
      BY <2>2, <3>1
    <3>3. Len(rout') # 0
      BY <3>1, <3>2
    <3>4. QED
      BY <3>2, <3>3
  <2>4. ReaderIBlock(rns, rout') \in LinkI
    BY <1>3, <2>3, ReplyFacts
  <2>5. QED
    BY <1>1, <2>1, <2>4
<1>7. CASE RResumes(b)
  <2>1. rnext[1] \in LinkI \cup RBlocks /\ ReplyOrAsk(rnext[1])
    BY <1>7 DEF RResumes, LinkTypes
  <2>2. QED
    BY <1>1, <2>1
<1>8. QED
  BY <1>2, <1>4, <1>5, <1>6, <1>7 DEF RSteps

LEMMA PairConcat == ASSUME NEW d, NEW r PROVE <<d>> \o <<r>> = <<d, r>>
<1> DEFINE s == <<d>> \o <<r>>
           t == <<d, r>>
<1>1. s \in Seq({d, r}) /\ Len(s) = 2 /\ s[1] = d /\ s[2] = r
  OBVIOUS
<1>2. t \in Seq({d, r}) /\ Len(t) = 2 /\ t[1] = d /\ t[2] = r
  OBVIOUS
<1> HIDE DEF s, t
<1>3. \A i \in 1 .. Len(s) : s[i] = t[i]
  BY <1>1, <1>2
<1>4. s = t
  BY <1>1, <1>2, <1>3, SeqEqual
<1>5. QED
  BY <1>4 DEF s, t

LEMMA ReadLine ==
  ASSUME Basics, LineOK, session \in {"open", "eject"}, RReads, RSteps(toReader[1])
  PROVE  /\ pc # "idle" /\ GoesOut /\ ComesBack' /\ LineOK' /\ toReader' = <<>> /\ toHost' = <<rlast'>>
         /\ ~RResets(toReader[1]) /\ ~RIgnores(toReader[1])
<1>1. LinkTypes /\ HostOK /\ ReaderOK /\ toReader # <<>> /\ toReader' = Tail(toReader)
  BY DEF Basics, RReads
<1>2. pc # "idle" /\ GoesOut
  BY <1>1 DEF LineOK, ComesBack
<1>3. Tail(toReader) = <<>> /\ toHost = <<>>
  BY <1>2, OutFacts
<1> DEFINE b == toReader[1]
<1>4. b.type = "S" => rlast.type = "S" /\ b # Detach /\ b.cmd # "RESYNCH"
  BY <1>2 DEF GoesOut
<1>5. RSteps(b)
  OBVIOUS
<1> HIDE DEF b
<1>6. ~RResets(b)
  BY <1>4, KindFacts DEF RResets
<1>7. ~RIgnores(b)
  BY <1>1, <1>4, KindFacts DEF RIgnores, ReaderOK
<1>8. toHost' = <<rlast'>> /\ rlast' # BadBlock
  BY <1>1, <1>3, <1>5, <1>6, <1>7, ReadSends
<1>9. ComesBack' /\ toReader' = <<>>
  BY <1>1, <1>3, <1>8 DEF ComesBack
<1>10. pc' = pc /\ session' = session
  BY DEF RReads, vars
<1>11. LineOK'
  BY <1>2, <1>9, <1>10 DEF LineOK
<1>12. QED
  BY <1>2, <1>6, <1>7, <1>8, <1>9, <1>11 DEF b

LEMMA OpeningRead ==
  ASSUME Basics, ns = 0, nr = 0, OpeningLine, RReads, RSteps(toReader[1])
  PROVE  OpeningLine'
<1>1. LinkTypes /\ ReaderOK /\ toReader # <<>> /\ toReader' = Tail(toReader) /\ toHost \in Seq(Line)
  BY LineFacts DEF Basics, RReads
<1>2. ns' = 0 /\ nr' = 0
  BY DEF RReads, vars, link
<1>3. Detach \in SBlocks /\ Resynch \in SBlocks /\ Detach.cmd # "RESYNCH" /\ Resynch.cmd = "RESYNCH"
  BY SpecialFacts
<1>4. BadBlock \notin LinkI /\ BadBlock \notin RBlocks /\ BadBlock \notin SBlocks
      /\ \A s \in SBlocks : s \notin LinkI /\ s \notin RBlocks /\ s # BadBlock
  BY KindFacts
<1>5. ASSUME ROnBad(BadBlock) PROVE \E y \in LinkBlocks : toHost' = Append(toHost, y) /\ y # Resynched
  <2>1. PICK y \in LinkBlocks : REchoes(y) /\ (y.type = "S" => y = rkeep /\ y \in Requests)
    BY <1>1, <1>5, EchoSteps
  <2>2. y # Resynched
    BY <2>1, SpecialFacts, RequestFacts
  <2>3. QED
    BY <2>1, <2>2 DEF REchoes, Reply
<1>6. RSteps(BadBlock) => ROnBad(BadBlock)
  BY <1>4 DEF RSteps, ROnBad, ROnOld, RTakes, RExecutes, RGoesOn, ROnR, RResets, RResumes, RIgnores
<1>7. RSteps(Detach) => UNCHANGED toHost
  BY <1>3, <1>4 DEF RSteps, ROnBad, ROnOld, RTakes, RExecutes, RGoesOn, ROnR, RResets, RResumes, RIgnores
<1>8. RSteps(Resynch) => RResets(Resynch)
  BY <1>3, <1>4 DEF RSteps, ROnBad, ROnOld, RTakes, RExecutes, RGoesOn, ROnR, RResets, RResumes, RIgnores
<1>9. ASSUME NEW y, toHost # <<>> PROVE Append(toHost, y) # <<>> /\ Head(Append(toHost, y)) = Head(toHost)
  BY <1>1, <1>9
<1>10. CASE toHost = <<>> /\ \E d \in {Detach, BadBlock}, r \in {Resynch, BadBlock} : toReader = <<d, r>>
  <2>1. PICK d \in {Detach, BadBlock}, r \in {Resynch, BadBlock} : toReader = <<d, r>>
    BY <1>10
  <2>2. toReader' = <<r>> /\ RSteps(d)
    BY <1>1, <2>1, PairFacts
  <2>3. toHost' # <<>> => Head(toHost') # Resynched
    <3>1. CASE d = Detach
      BY <1>7, <1>10, <2>2, <3>1
    <3>2. CASE d = BadBlock
      BY <1>5, <1>6, <1>10, <2>2, <3>2, PairFacts
    <3>3. QED
      BY <3>1, <3>2
  <2>4. QED
    BY <2>1, <2>2, <2>3 DEF OpeningLine
<1>11. CASE /\ \E r \in {Resynch, BadBlock} : toReader = <<r>>
            /\ toHost # <<>> => Head(toHost) # Resynched
  <2>1. PICK r \in {Resynch, BadBlock} : toReader = <<r>>
    BY <1>11
  <2>2. toReader' = <<>> /\ RSteps(r)
    BY <1>1, <2>1, PairFacts
  <2>3. CASE r = BadBlock
    <3>1. PICK y \in LinkBlocks : toHost' = Append(toHost, y) /\ y # Resynched
      BY <1>5, <1>6, <2>2, <2>3
    <3>2. toHost' # <<>> /\ Head(toHost') # Resynched
      BY <1>9, <1>11, <3>1, PairFacts
    <3>3. QED
      BY <2>2, <3>2 DEF OpeningLine
  <2>4. CASE r = Resynch
    <3>1. /\ rns' = 0 /\ rnr' = 0 /\ rbuf' = <<>> /\ rkeep' = BadBlock /\ rlast' = BadBlock
          /\ toHost' = Append(toHost, Resynched)
      BY <1>8, <2>2, <2>4 DEF RResets
    <3>2. CASE toHost = <<>>
      <4>1. toHost' = <<Resynched>> /\ toHost' # <<>>
        BY <3>1, <3>2, PairFacts
      <4>2. QED
        BY <1>2, <2>2, <3>1, <4>1 DEF OpeningLine
    <3>3. CASE toHost # <<>>
      <4>1. toHost' # <<>> /\ Head(toHost') # Resynched
        BY <1>9, <1>11, <3>1, <3>3
      <4>2. QED
        BY <2>2, <4>1 DEF OpeningLine
    <3>4. QED
      BY <3>2, <3>3
  <2>5. QED
    BY <2>1, <2>3, <2>4
<1>12. QED
  BY <1>1, <1>10, <1>11 DEF OpeningLine

LEMMA OtherLine ==
  ASSUME Basics, LineOK, LineActs, UNCHANGED device, missing = 0, missing' = 0
  PROVE  LineOK' /\ ~Lose
<1>1. /\ LinkTypes /\ HostOK /\ ReaderOK /\ Kernel' = Kernel
  BY DEF Basics, Kernel
<1>2. ~Lose
  BY DEF Lose
<1>3. CASE HostClose
  <2>1. session = "open" /\ pc = "idle" /\ session' = "eject" /\ UNCHANGED <<toReader, toHost, pc>>
    BY <1>3 DEF HostClose, vars
  <2>2. QED
    BY <1>2, <2>1 DEF LineOK
<1>4. CASE HostOpen
  <2>1. /\ session = "closed" /\ session' = "opening" /\ ns' = 0 /\ nr' = 0 /\ toReader = <<>>
        /\ toReader' = toReader \o <<Detach, Resynch>> /\ tx' = <<Detach, Resynch>>
    BY <1>4 DEF HostOpen, Resynch
  <2>2. tx' # <<>> /\ toReader' = <<Detach, Resynch>>
    BY <2>1, PairFacts
  <2>3. toHost' = <<>>
    <3>1. CASE Kernel
      BY <1>4, <2>2, <3>1 DEF HostOpen, AfterSend
    <3>2. CASE ~Kernel
      BY <1>4, <2>1, <3>2 DEF HostOpen, AfterSend, LineOK
    <3>3. QED
      BY <3>1, <3>2
  <2>4. OpeningLine'
    BY <2>2, <2>3 DEF OpeningLine
  <2>5. QED
    BY <1>2, <2>1, <2>4 DEF LineOK
<1>5. CASE HostOpened
  <2>1. session = "opening" /\ OpeningLine /\ pc = "idle" /\ UNCHANGED <<pc, toReader>>
    BY <1>1, <1>5 DEF HostOpened, LineOK, HostOK, LinkTypes
  <2>2. CASE session' = "open"
    <3>1. toHost # <<>> /\ Head(toHost) = Resynched /\ toHost' = Tail(toHost)
      BY <1>5, <2>2 DEF HostOpened, Resynched
    <3>2. toReader = <<>> /\ toHost = <<Resynched>>
      BY <2>1, <3>1 DEF OpeningLine
    <3>3. toReader' = <<>> /\ toHost' = <<>>
      BY <2>1, <3>1, <3>2, PairFacts
    <3>4. QED
      BY <1>2, <2>1, <2>2, <3>3 DEF LineOK
  <2>3. CASE session' # "open"
    <3>1. session' = "leaked" \/ (session' = "closed" /\ Kernel)
      BY <1>5, <2>3 DEF HostOpened
    <3>2. QED
      BY <1>1, <1>2, <3>1 DEF LineOK
  <2>4. QED
    BY <2>2, <2>3
<1>6. CASE Done
  <2>1. UNCHANGED <<session, pc, toReader, toHost>> /\ session \in {"leaked", "closed"}
    BY <1>6 DEF Done, linkVars, vars
  <2>2. QED
    BY <1>1, <1>2, <2>1 DEF LineOK
<1>7. CASE Damage
  <2>1. /\ UNCHANGED <<session, pc, ns, nr, block, rns, rnr, rbuf, rkeep, rlast>>
        /\ \/ toReader # <<>> /\ toReader' = <<BadBlock>> \o Tail(toReader) /\ toHost' = toHost
           \/ toHost # <<>> /\ toHost' = <<BadBlock>> \o Tail(toHost) /\ toReader' = toReader
    BY <1>7 DEF Damage, vars, link, apdu, reader
  <2>2. ASSUME session \in {"open", "eject"}, pc # "idle" PROVE ComesBack' \/ GoesOut'
    <3>1. CASE ComesBack
      <4>1. toReader = <<>> /\ Tail(toHost) = <<>> /\ rlast # BadBlock
        BY <3>1, BackFacts
      <4>2. toHost' = <<BadBlock>> /\ toReader' = <<>>
        BY <2>1, <4>1, PairFacts
      <4>3. QED
        BY <2>1, <4>1, <4>2 DEF ComesBack
    <3>2. CASE GoesOut
      <4>1. toHost = <<>> /\ Tail(toReader) = <<>>
        BY <3>2, OutFacts
      <4>2. toHost' = <<>> /\ toReader' = <<BadBlock>> /\ BadBlock.type # "S"
        <5>1. toHost' = <<>> /\ toReader' = <<BadBlock>>
          BY <2>1, <4>1, PairFacts
        <5>2. QED
          BY <5>1, KindFacts
      <4>3. QED
        BY <4>2, GoneOut
    <3>3. QED
      BY <2>2, <3>1, <3>2 DEF LineOK
  <2>3. ASSUME session = "opening" PROVE OpeningLine'
    <3>1. OpeningLine
      BY <2>3 DEF LineOK
    <3>2. CASE toHost = <<>> /\ \E d \in {Detach, BadBlock}, r \in {Resynch, BadBlock} : toReader = <<d, r>>
      <4>1. PICK d \in {Detach, BadBlock}, r \in {Resynch, BadBlock} : toReader = <<d, r>>
        BY <3>2
      <4>2. toReader' = <<BadBlock>> \o <<r>> /\ toHost' = <<>>
        BY <2>1, <3>2, <4>1, PairFacts
      <4>3. <<BadBlock>> \o <<r>> = <<BadBlock, r>>
        BY PairConcat
      <4>4. QED
        BY <4>2, <4>3 DEF OpeningLine
    <3>3. CASE /\ \E r \in {Resynch, BadBlock} : toReader = <<r>>
               /\ toHost # <<>> => Head(toHost) # Resynched
      <4>1. PICK r \in {Resynch, BadBlock} : toReader = <<r>>
        BY <3>3
      <4>2. CASE toReader' = <<BadBlock>> \o Tail(toReader) /\ toHost' = toHost
        <5>1. toReader' = <<BadBlock>>
          BY <4>1, <4>2, PairFacts
        <5>2. QED
          BY <3>3, <4>2, <5>1 DEF OpeningLine
      <4>3. CASE toHost # <<>> /\ toHost' = <<BadBlock>> \o Tail(toHost) /\ toReader' = toReader
        <5>1. toHost \in Seq(Line) /\ Tail(toHost) \in Seq(Line)
          BY <1>1, <4>3, LineFacts, TailFacts
        <5>2. Head(<<BadBlock>> \o Tail(toHost)) = BadBlock
          BY <5>1
        <5>3. Head(toHost') # Resynched
          BY <4>3, <5>2, KindFacts, SpecialFacts
        <5>4. QED
          BY <4>1, <4>3, <5>3 DEF OpeningLine
      <4>4. QED
        BY <2>1, <4>2, <4>3
    <3>4. CASE toReader = <<>> /\ toHost # <<>>
      <4>1. toHost' = <<BadBlock>> \o Tail(toHost) /\ toReader' = <<>>
        BY <2>1, <3>4
      <4>2. toHost \in Seq(Line) /\ Tail(toHost) \in Seq(Line)
        BY <1>1, <3>4, LineFacts, TailFacts
      <4>3. Head(<<BadBlock>> \o Tail(toHost)) = BadBlock /\ <<BadBlock>> \o Tail(toHost) # <<>>
        BY <4>2
      <4>4. Head(toHost') # Resynched /\ toHost' # <<>>
        BY <4>1, <4>3, KindFacts, SpecialFacts
      <4>5. QED
        BY <4>1, <4>4 DEF OpeningLine
    <3>5. QED
      BY <3>1, <3>2, <3>3, <3>4 DEF OpeningLine
  <2>4. ASSUME session \in {"open", "eject"}, pc = "idle" PROVE FALSE
    BY <2>1, <2>4 DEF LineOK
  <2>5. ASSUME session = "closed", ~Kernel PROVE FALSE
    BY <2>1, <2>5 DEF LineOK
  <2>6. LineOK'
    BY <1>1, <2>1, <2>2, <2>3, <2>4, <2>5 DEF LineOK
  <2>7. QED
    BY <1>2, <2>6
<1>8. QED
  BY <1>2, <1>3, <1>4, <1>5, <1>6, <1>7 DEF LineActs

\* The steps of the link while no block is missing.
CalmMoves ==
  \/ \E c \in Seq(Units), max \in Nat : HSubmits(c, max)
  \/ toHost # <<>> /\ Passes(toHost[1], Tail(toHost))
  \/ RReads /\ RSteps(toReader[1])
  \/ HostClose \/ HostOpen \/ HostOpened \/ Damage
  \/ UNCHANGED linkVars

LEMMA CalmMoving ==
  ASSUME Basics, LineOK, [LinkNext]_linkVars, missing = 0, missing' = 0
  PROVE  CalmMoves /\ UNCHANGED device
<1>1. Moves
  BY Moving
<1>2. UNCHANGED device
  BY DEF LinkNext, linkVars
<1>3. CASE /\ toHost = <<>> /\ Passes(BadBlock, <<>>)
           /\ missing' = IF toReader = <<>> THEN missing ELSE missing + 1
  <2>1. session \in {"open", "eject"} /\ pc # "idle" /\ toReader = <<>>
    BY <1>3 DEF Passes
  <2>2. CASE ComesBack
    BY <1>3, <2>2, BackFacts
  <2>3. CASE GoesOut
    BY <2>1, <2>3, OutFacts
  <2>4. QED
    BY <2>1, <2>2, <2>3 DEF LineOK
<1>4. CASE LineActs
  BY <1>2, <1>4, OtherLine DEF LineActs, CalmMoves, Done
<1>5. QED
  BY <1>1, <1>2, <1>3, <1>4 DEF Moves, CalmMoves

LEMMA LineStep ==
  ASSUME Basics, LineOK, CalmMoves, UNCHANGED device, missing = 0, missing' = 0
  PROVE  LineOK'
<1>1. CASE \E c \in Seq(Units), max \in Nat : HSubmits(c, max)
  BY <1>1, SubmitLine
<1>2. CASE toHost # <<>> /\ Passes(toHost[1], Tail(toHost))
  BY <1>2, PassLine
<1>3. CASE RReads /\ RSteps(toReader[1])
  <2>1. Kernel' = Kernel /\ UNCHANGED <<session, ns, nr>> /\ toReader # <<>>
    BY <1>3 DEF RReads, vars, link, Kernel
  <2>2. CASE session \in {"open", "eject"}
    BY <1>3, <2>2, ReadLine
  <2>3. CASE session = "opening"
    <3>1. ns = 0 /\ nr = 0 /\ OpeningLine
      BY <2>3 DEF LineOK
    <3>2. OpeningLine'
      BY <1>3, <3>1, OpeningRead
    <3>3. QED
      BY <2>1, <2>3, <3>1, <3>2 DEF LineOK
  <2>4. CASE session \notin {"open", "eject", "opening"}
    BY <2>1, <2>4 DEF LineOK
  <2>5. QED
    BY <2>2, <2>3, <2>4
<1>4. CASE HostClose \/ HostOpen \/ HostOpened \/ Damage
  BY <1>4, OtherLine DEF LineActs
<1>5. CASE UNCHANGED linkVars
  <2>1. UNCHANGED <<session, pc, toReader, toHost, device, ns, nr, block, rns, rnr, rbuf, rkeep, rlast>>
    BY <1>5 DEF linkVars, vars, link, apdu, reader
  <2>2. /\ OpeningLine' = OpeningLine /\ ComesBack' = ComesBack /\ GoesOut' = GoesOut /\ Kernel' = Kernel
    BY <2>1 DEF OpeningLine, ComesBack, GoesOut, Kernel
  <2>3. QED
    BY <2>1, <2>2 DEF LineOK
<1>6. QED
  BY <1>1, <1>2, <1>3, <1>4, <1>5 DEF CalmMoves

-----------------------------------------------------------------------------
(* The phases of a call: steps of the reader.                              *)

SentAfter(w) ==
  \/ rnext' = <<>> /\ rkeep' = w /\ (rlast' = w \/ rlast' = ReaderError')
  \/ rnext' = <<w>> /\ rlast' = rkeep'

LEMMA SendsSent ==
  ASSUME NEW y \in LinkI \cup RBlocks, ~Reports(y), NEW z, Sends(y, z)
  PROVE  SentAfter(y) /\ ~Reports(rlast')
BY RequestFacts DEF Sends, SentAfter, Reports

LEMMA SentFacts ==
  ASSUME LinkTypes, ReaderOK, NEW w \in LinkI \cup RBlocks, Sent(w)
  PROVE  /\ rkeep # BadBlock /\ rlast # BadBlock
         /\ rnext = <<>> => rkeep = w /\ rlast \in {w, ReaderError}
         /\ rnext # <<>> => rlast = rkeep /\ rlast.type = "S" /\ rnext[1] = w
         /\ w.type # "S"
<1>1. w # BadBlock /\ w.type # "S"
  BY KindFacts
<1>2. ReaderError # BadBlock /\ ReaderError.type # "S"
  BY ErrorFacts
<1>3. CASE rnext = <<>> /\ rkeep = w /\ (rlast = w \/ IsError(rlast))
  BY <1>1, <1>2, <1>3 DEF IsError
<1>4. CASE rnext = <<w>> /\ rlast = rkeep
  <2>1. rnext # <<>> /\ rnext[1] = w
    BY <1>4, PairFacts
  <2>2. rlast.type = "S" /\ rlast # BadBlock
    BY <1>4, <2>1, KindFacts DEF ReaderOK
  <2>3. QED
    BY <1>1, <1>4, <2>1, <2>2
<1>5. QED
  BY <1>3, <1>4 DEF Sent

LEMMA SentRepeated ==
  ASSUME LinkTypes, ReaderOK, NEW w \in LinkI \cup RBlocks, Sent(w), NEW y, REchoes(y),
         y \in {rlast, rkeep} \/ (rlast.type # "S" /\ y = ReaderError)
  PROVE  SentAfter(w)
<1>1. rlast' = y /\ rnext' = rnext /\ rkeep' = rkeep /\ ReaderError' = ReaderError
  BY DEF REchoes, Reply, ReaderError
<1>2. CASE rnext = <<>>
  <2>1. rkeep = w /\ rlast \in {w, ReaderError}
    BY <1>2, SentFacts
  <2>2. QED
    BY <1>1, <1>2, <2>1 DEF SentAfter
<1>3. CASE rnext # <<>>
  <2>1. rnext = <<w>> /\ rlast = rkeep /\ rlast.type = "S"
    BY <1>3, SentFacts DEF Sent
  <2>2. QED
    BY <1>1, <2>1 DEF SentAfter
<1>4. QED
  BY <1>2, <1>3

\* What the reader may do with a block b.
LEMMA StepsBy ==
  ASSUME NEW b, RSteps(b), ~RResets(b), ~RIgnores(b)
  PROVE  /\ b = BadBlock => ROnBad(b)
         /\ b \in LinkI => ROnOld(b) \/ RTakes(b) \/ (\E r \in Seq(Units) : RExecutes(b, r))
         /\ b \in RBlocks => RGoesOn(b) \/ ROnR(b)
         /\ b \in SBlocks => RResumes(b)
<1>1. b \in LinkI \/ b \in RBlocks \/ b \in SBlocks \/ b = BadBlock
  BY DEF RSteps, ROnBad, ROnOld, RTakes, RExecutes, RGoesOn, ROnR, RResumes
<1>2. /\ b = BadBlock => b \notin LinkI /\ b \notin RBlocks /\ b \notin SBlocks
      /\ b \in LinkI => b \notin RBlocks /\ b \notin SBlocks
      /\ b \in RBlocks => b \notin SBlocks
  BY KindFacts
<1>3. CASE b = BadBlock
  BY <1>2, <1>3 DEF RSteps, ROnBad, ROnOld, RTakes, RExecutes, RGoesOn, ROnR, RResumes
<1>4. CASE b \in LinkI
  BY <1>2, <1>4 DEF RSteps, ROnBad, RGoesOn, ROnR, RResumes
<1>5. CASE b \in RBlocks
  BY <1>2, <1>5 DEF RSteps, ROnBad, ROnOld, RTakes, RExecutes, RResumes
<1>6. CASE b \in SBlocks
  BY <1>2, <1>6 DEF RSteps, ROnBad, ROnOld, RTakes, RExecutes, RGoesOn, ROnR
<1>7. QED
  BY <1>1, <1>2, <1>3, <1>4, <1>5, <1>6

\* The reader has sent w and waits: whatever comes is no reason to go on.
Waits(b, w) ==
  \/ b = BadBlock
  \/ b \in LinkI /\ b.n # rnr
  \/ b \in RBlocks /\ (w.type = "I" => IF b.err = "ok" THEN ~w.more ELSE b.n = w.n)
  \/ b \in SBlocks /\ b.cmd # "ABORT"

LEMMA SentKept ==
  ASSUME LinkTypes, ReaderOK, NEW w \in LinkI \cup RBlocks, ~Reports(w), Sent(w),
         NEW b, Waits(b, w), RSteps(b), ~RResets(b), ~RIgnores(b)
  PROVE  /\ SentAfter(w) /\ UNCHANGED <<rns, rnr, rbuf, rout, executed>>
         /\ Reports(rlast') => b = BadBlock \/ (Reports(rlast) /\ Reports(b))
<1>1. /\ rkeep # BadBlock /\ rlast # BadBlock
      /\ rnext = <<>> => rkeep = w /\ rlast \in {w, ReaderError}
      /\ rnext # <<>> => rlast = rkeep /\ rlast.type = "S" /\ rnext[1] = w
  BY SentFacts
<1>2. ~Reports(rkeep)
  BY <1>1 DEF Reports
<1>3. ASSUME NEW y, REchoes(y) PROVE UNCHANGED <<rns, rnr, rbuf, rout, executed>> /\ rlast' = y
  BY <1>3 DEF REchoes, Reply
<1>4. CASE b = BadBlock
  <2>1. ROnBad(b)
    BY <1>4, StepsBy
  <2> DEFINE y == IF rlast.type = "S" THEN rlast ELSE ReaderError
  <2>2. REchoes(y)
    BY <2>1 DEF ROnBad
  <2>3. y \in {rlast, rkeep} \/ (rlast.type # "S" /\ y = ReaderError)
    OBVIOUS
  <2> HIDE DEF y
  <2>4. SentAfter(w)
    BY <2>2, <2>3, SentRepeated
  <2>5. QED
    BY <1>3, <1>4, <2>2, <2>4
<1>5. CASE b \in LinkI /\ b.n # rnr
  <2>1. ROnOld(b)
    BY <1>5, StepsBy DEF RTakes, RExecutes
  <2>2. REchoes(rkeep)
    BY <1>1, <2>1 DEF ROnOld
  <2>3. SentAfter(w)
    BY <2>2, SentRepeated
  <2>4. QED
    BY <1>2, <1>3, <2>2, <2>3
<1>6. CASE b \in RBlocks /\ (w.type = "I" => IF b.err = "ok" THEN ~w.more ELSE b.n = w.n)
  <2>1. ~Acknowledges(b)
    BY <1>1, <1>6 DEF Acknowledges
  <2>2. ROnR(b)
    BY <1>6, <2>1, StepsBy DEF RGoesOn
  <2>3. REchoes(IF b.err = "ok" THEN rkeep ELSE rlast)
    BY <1>1, <2>1, <2>2 DEF ROnR
  <2>4. b.type = "R"
    BY <1>6, KindFacts
  <2>5. CASE b.err = "ok"
    <3>1. REchoes(rkeep)
      BY <2>3, <2>5
    <3>2. SentAfter(w)
      BY <3>1, SentRepeated
    <3>3. QED
      BY <1>2, <1>3, <3>1, <3>2
  <2>6. CASE b.err # "ok"
    <3>1. REchoes(rlast)
      BY <2>3, <2>6
    <3>2. SentAfter(w)
      BY <3>1, SentRepeated
    <3>3. QED
      BY <1>3, <2>4, <2>6, <3>1, <3>2 DEF Reports
  <2>7. QED
    BY <2>5, <2>6
<1>7. CASE b \in SBlocks /\ b.cmd # "ABORT"
  <2>1. RResumes(b)
    BY <1>7, StepsBy
  <2>2. ReplyOrAsk(w) /\ UNCHANGED <<rns, rnr, rbuf, rout, executed>>
    BY <1>1, <1>7, <2>1 DEF RResumes
  <2>3. PICK z : Sends(w, z)
    BY <2>2, Sending1
  <2>4. SentAfter(w) /\ ~Reports(rlast')
    BY <2>3, SendsSent
  <2>5. QED
    BY <2>2, <2>4
<1>8. QED
  BY <1>4, <1>5, <1>6, <1>7 DEF Waits

LEMMA NumberedConcat ==
  ASSUME NEW s \in Seq(Units), NEW t \in Seq(Units), NEW k, NEW n \in Nat, Len(s) = n,
         Numbered(s, k, 0), Numbered(t, k, n)
  PROVE  /\ s \o t \in Seq(Units) /\ Len(s \o t) = n + Len(t) /\ Numbered(s \o t, k, 0)
<1> DEFINE u == s \o t
<1>1. u \in Seq(Units) /\ Len(u) = n + Len(t) /\ Len(t) \in Nat
  OBVIOUS
<1>2. /\ \A i \in 1 .. n : u[i] = s[i]
      /\ \A i \in 1 .. Len(t) : u[n + i] = t[i]
  OBVIOUS
<1> HIDE DEF u
<1>3. ASSUME NEW i \in 1 .. Len(u) PROVE u[i] = <<k, 0 + i>>
  <2>1. CASE i \in 1 .. n
    BY <1>2, <2>1 DEF Numbered
  <2>2. CASE i - n \in 1 .. Len(t)
    <3> DEFINE j == i - n
    <3>1. j \in 1 .. Len(t) /\ i = n + j /\ 0 + i = n + j
      BY <1>1, <2>2
    <3> HIDE DEF j
    <3>2. u[i] = t[j] /\ t[j] = <<k, n + j>>
      BY <1>2, <3>1 DEF Numbered
    <3>3. QED
      BY <3>1, <3>2
  <2>3. QED
    BY <1>1, <2>1, <2>2
<1>4. QED
  BY <1>1, <1>3 DEF u, Numbered

LEMMA HostWaits ==
  ASSUME RReads
  PROVE  /\ UNCHANGED <<ns, nr, pc, cmd, maxRspLen, sendptr, more, block, lastiicc, rsplen, rsp, ret,
                        errcntr, rerrcntr, wtxcntr, calls, session, damaged, missing>>
         /\ Pos' = Pos /\ Call' = Call
BY DEF RReads, vars, link, apdu, response, counters, Pos, Call

\* The reader takes the I-block it waits for.
LEMMA BlockTaken ==
  ASSUME Basics, pc = "recv", Sending, RReads, RTakes(block)
  PROVE  Taken' /\ ~Reports(rlast')
<1>1. LinkTypes /\ HostOK
  BY DEF Basics
<1>2. /\ ~lastiicc /\ ns = rnr /\ nr = rns /\ rsplen = 0 /\ rsp = <<>>
      /\ Len(rbuf) = Pos /\ Numbered(rbuf, Call, 0)
  BY DEF Sending
<1>3. /\ block \in LinkI /\ Pos \in Nat /\ Numbered(block.data, Call, Pos) /\ block.more = more
      /\ sendptr \in Nat /\ rbuf \in Seq(Units) /\ rnr \in Bit
  BY <1>1 DEF HostOK, LinkTypes
<1>4. block.data \in Seq(Units) /\ more
  BY <1>3, KindFacts DEF RTakes
<1>5. /\ rnr' = Flip(rnr) /\ rbuf' = rbuf \o block.data /\ UNCHANGED <<rns, rout, executed>>
      /\ ReplyOrAsk(Wants(Flip(rnr)))
  BY DEF RTakes, Wants
<1>6. Len(rbuf') = sendptr /\ Numbered(rbuf', Call, 0)
  <2> DEFINE d == block.data
             p == Pos
  <2>1. d \in Seq(Units) /\ p \in Nat /\ Len(rbuf) = p /\ Numbered(d, Call, p) /\ rbuf' = rbuf \o d
    BY <1>2, <1>3, <1>4, <1>5
  <2>2. sendptr = p + Len(d) /\ Len(d) \in Nat
    BY <1>3, <1>4 DEF Pos
  <2> HIDE DEF d, p
  <2>3. QED
    BY <1>2, <1>3, <2>1, <2>2, NumberedConcat
<1>7. Wants(Flip(rnr)) \in RBlocks /\ ~Reports(Wants(Flip(rnr)))
  BY <1>3, BitFacts, RBlockFacts DEF Wants, Reports
<1>8. PICK z : Sends(Wants(Flip(rnr)), z)
  BY <1>1, <1>5, <1>7, Sending1
<1>9. SentAfter(Wants(Flip(rnr))) /\ ~Reports(rlast')
  BY <1>7, <1>8, SendsSent
<1>10. Sent(Wants(rnr))'
  <2>1. Wants(Flip(rnr)) = Wants(rnr)'
    BY <1>5 DEF Wants
  <2>2. QED
    BY <1>9, <2>1 DEF SentAfter, Sent, IsError
<1>11. ns # rnr'
  BY <1>2, <1>3, <1>5, BitFacts
<1>12. QED
  BY <1>2, <1>4, <1>5, <1>6, <1>9, <1>10, <1>11, HostWaits DEF Taken

\* It takes the last one, and executes the command of the call.
LEMMA CommandExecuted ==
  ASSUME Basics, pc = "recv", Sending, RReads, NEW r \in Seq(Units), RExecutes(block, r)
  PROVE  Replying' /\ ~Reports(rlast')
<1>1. LinkTypes /\ HostOK
  BY DEF Basics
<1>2. /\ ~lastiicc /\ ns = rnr /\ nr = rns /\ rsplen = 0 /\ rsp = <<>>
      /\ Len(rbuf) = Pos /\ Numbered(rbuf, Call, 0)
  BY DEF Sending
<1>3. /\ block \in LinkI /\ Pos \in Nat /\ Numbered(block.data, Call, Pos) /\ block.more = more
      /\ sendptr \in Nat /\ rbuf \in Seq(Units) /\ rnr \in Bit /\ nr \in Bit /\ rns \in Bit
      /\ more \in BOOLEAN /\ (more <=> sendptr < Len(cmd)) /\ sendptr <= Len(cmd)
      /\ executed \in Seq([cmd : Seq(Units), rsp : Seq(Units)])
  BY <1>1 DEF HostOK, LinkTypes
<1>4. cmd \in Seq(Units) /\ Numbered(cmd, Call, 0)
  BY <1>1, CallFacts
<1>5. block.data \in Seq(Units) /\ ~more
  BY <1>3, KindFacts DEF RExecutes
<1>6. /\ rnr' = Flip(rnr) /\ rbuf' = <<>> /\ rns' = Flip(rns) /\ rout' = r /\ Len(r) \in RspLens
      /\ executed' = Append(executed, [cmd |-> rbuf \o block.data, rsp |-> r])
      /\ ReplyOrAsk(ReaderIBlock(rns, r))
  BY DEF RExecutes
<1>7. rbuf \o block.data = cmd
  <2> DEFINE d == block.data
             p == Pos
             u == rbuf \o d
  <2>1. d \in Seq(Units) /\ p \in Nat /\ Len(rbuf) = p /\ Numbered(d, Call, p)
    BY <1>2, <1>3, <1>5
  <2>2. sendptr = p + Len(d) /\ Len(d) \in Nat
    BY <1>3, <1>5 DEF Pos
  <2>3. Len(cmd) \in Nat
    BY <1>4
  <2> HIDE DEF d, p
  <2>4. u \in Seq(Units) /\ Len(u) = p + Len(d) /\ Numbered(u, Call, 0)
    BY <1>2, <1>3, <2>1, NumberedConcat
  <2> HIDE DEF u
  <2>5. Len(u) = Len(cmd)
    BY <1>3, <1>5, <2>2, <2>3, <2>4
  <2>6. \A i \in 1 .. Len(u) : u[i] = cmd[i]
    BY <1>4, <2>4, <2>5 DEF Numbered
  <2>7. u = cmd
    BY <1>4, <2>4, <2>5, <2>6, SeqEqual
  <2>8. QED
    BY <2>7 DEF u, d
<1>8. executed' # <<>> /\ executed'[Len(executed')].cmd = cmd /\ Response' = r
  <2> DEFINE e == [cmd |-> cmd, rsp |-> r]
             E == [cmd : Seq(Units), rsp : Seq(Units)]
  <2>1. e \in E /\ executed \in Seq(E) /\ executed' = Append(executed, e)
    BY <1>3, <1>4, <1>6, <1>7
  <2>2. e.cmd = cmd /\ e.rsp = r
    OBVIOUS
  <2> HIDE DEF e, E
  <2>3. executed' # <<>> /\ executed'[Len(executed')] = e
    <3> DEFINE s == Append(executed, e)
    <3>1. Len(s) = Len(executed) + 1 /\ s[Len(executed) + 1] = e /\ s # <<>>
      BY <2>1
    <3>2. QED
      BY <2>1, <3>1
  <2>4. QED
    BY <2>2, <2>3 DEF Response
<1>9. Len(r) \in Nat /\ Len(r) >= 2
  BY <1>6, LimitFacts
<1>10. r # <<>> /\ SubSeq(r, 0 + 1, Len(r)) = r /\ SubSeq(r, 1, 0) = <<>>
  <2>1. r # <<>>
    BY <1>9
  <2>2. SubSeq(r, 1, Len(r)) = r
    OBVIOUS
  <2>3. SubSeq(r, 1, 0) = <<>>
    OBVIOUS
  <2>4. QED
    BY <2>1, <2>2, <2>3
<1>11. ReaderIBlock(rns, r) \in LinkI /\ ~Reports(ReaderIBlock(rns, r))
  BY <1>3, <1>10, ReplyFacts DEF Reports
<1>12. PICK z : Sends(ReaderIBlock(rns, r), z)
  BY <1>1, <1>6, <1>11, Sending1
<1>13. SentAfter(ReaderIBlock(rns, r)) /\ ~Reports(rlast')
  BY <1>11, <1>12, SendsSent
<1>14. Sent(ReaderIBlock(nr, rout))'
  <2>1. ReaderIBlock(rns, r) = ReaderIBlock(nr, rout)'
    BY <1>2, <1>6, HostWaits DEF ReaderIBlock
  <2>2. QED
    BY <1>13, <2>1 DEF SentAfter, Sent, IsError
<1>15. ns # rnr' /\ nr # rns'
  BY <1>2, <1>3, <1>6, BitFacts
<1>16. Answered'
  BY <1>5, <1>6, <1>8, HostWaits DEF Answered
<1>17. Received'
  BY <1>2, <1>8, <1>10, HostWaits DEF Received
<1>18. rsplen' < Len(Response') /\ rout' = SubSeq(Response', rsplen' + 1, Len(Response'))
  BY <1>2, <1>6, <1>8, <1>9, <1>10, HostWaits
<1>19. QED
  BY <1>2, <1>13, <1>14, <1>15, <1>16, <1>17, <1>18, HostWaits DEF Replying

LEMMA SendingReads ==
  ASSUME Basics, pc = "recv", toHost = <<>>, Sending, SendingLine, RReads, RSteps(toReader[1]),
         ~RResets(toReader[1]), ~RIgnores(toReader[1]), toReader = <<toReader[1]>>,
         toReader[1] \in {BadBlock, block} \cup RBlocks \cup SBlocks
  PROVE  /\ (Sending' /\ rlast' = ReaderError') \/ Taken' \/ Replying'
         /\ Reports(rlast') => ErrorDue
<1>1. LinkTypes /\ HostOK /\ ReaderOK
  BY DEF Basics
<1> DEFINE b == toReader[1]
<1>2. /\ toReader = <<b>> /\ RSteps(b) /\ ~RResets(b) /\ ~RIgnores(b) /\ toReader # <<>>
      /\ b \in {BadBlock, block} \/ (RAsks(b) /\ IsError(rlast))
      /\ RAsks(b) => b \in RBlocks
  <2>1. RAsks(b) => b \in RBlocks
    BY <1>1, KindFacts DEF RAsks, Reports, HostOK
  <2>2. QED
    BY <2>1 DEF SendingLine, RReads
<1>3. /\ ~lastiicc /\ ns = rnr /\ nr = rns /\ rsplen = 0 /\ rsp = <<>>
      /\ Len(rbuf) = Pos /\ Numbered(rbuf, Call, 0)
      /\ rnext = <<>> /\ rlast.type # "S" /\ (rkeep.type = "I" => ~rkeep.more /\ rkeep.n # nr)
  BY DEF Sending, NothingKept
<1>4. ASSUME REchoes(ReaderError) PROVE Sending' /\ rlast' = ReaderError'
  <2>1. UNCHANGED <<rns, rnr, rbuf, rout, rkeep, rnext>> /\ rlast' = ReaderError /\ ReaderError' = ReaderError
    BY <1>4 DEF REchoes, Reply, ReaderError
  <2>2. rlast'.type # "S"
    BY <1>1, <2>1, ErrorFacts
  <2>3. NothingKept'
    BY <1>3, <2>1, <2>2, HostWaits DEF NothingKept
  <2>4. Numbered(rbuf', Call', 0) /\ Len(rbuf') = Pos'
    BY <1>3, <2>1, HostWaits
  <2>5. QED
    BY <1>3, <2>1, <2>3, <2>4, HostWaits DEF Sending
<1>5. CASE b = BadBlock
  <2>1. ROnBad(b)
    BY <1>2, <1>5, StepsBy
  <2>2. REchoes(ReaderError)
    BY <1>3, <2>1 DEF ROnBad
  <2>3. ErrorDue
    BY <1>2, <1>5 DEF ErrorDue
  <2>4. QED
    BY <1>4, <2>2, <2>3
<1>6. CASE b = block
  <2>1. block \in LinkI /\ block.n = rnr
    BY <1>1, <1>3 DEF HostOK
  <2>2. RTakes(block) \/ (\E r \in Seq(Units) : RExecutes(block, r))
    BY <1>2, <1>6, <2>1, StepsBy DEF ROnOld
  <2>3. QED
    BY <2>2, BlockTaken, CommandExecuted
<1>7. CASE RAsks(b) /\ IsError(rlast)
  <2>1. b \in RBlocks /\ b.err # "ok" /\ rlast = ReaderError /\ rlast # BadBlock
    BY <1>1, <1>2, <1>7, ErrorFacts DEF RAsks, Reports, IsError
  <2>2. ~RGoesOn(b)
    BY <1>3, KindFacts DEF RGoesOn
  <2>3. ROnR(b)
    BY <1>2, <2>1, <2>2, StepsBy
  <2>4. REchoes(ReaderError)
    BY <2>1, <2>3 DEF ROnR
  <2>5. Reports(rlast)
    BY <1>1, <2>1, ErrorFacts DEF Reports
  <2>6. ErrorDue
    BY <1>2, <1>7, <2>5 DEF ErrorDue
  <2>7. QED
    BY <1>4, <2>4, <2>6
<1>8. QED
  BY <1>2, <1>5, <1>6, <1>7

\* A block the reader wants acknowledged is sent again until it is.
LEMMA TakenReads ==
  ASSUME Basics, pc = "recv", Taken, TakenLine, RReads, RSteps(toReader[1]), toHost = <<>>,
         ~RResets(toReader[1]), ~RIgnores(toReader[1]), toReader = <<toReader[1]>>,
         toReader[1] \in {BadBlock, block} \cup RBlocks \cup SBlocks,
         toReader[1].type = "S" => toReader[1].cmd # "ABORT"
  PROVE  Taken' /\ (Reports(rlast') => ErrorDue)
<1>1. LinkTypes /\ HostOK /\ ReaderOK
  BY DEF Basics
<1>2. /\ ~lastiicc /\ more /\ ns # rnr /\ nr = rns /\ rsplen = 0 /\ rsp = <<>>
      /\ Len(rbuf) = sendptr /\ Numbered(rbuf, Call, 0) /\ Sent(Wants(rnr))
  BY DEF Taken
<1>3. block \in LinkI /\ block.n = ns /\ rnr \in Bit
  BY <1>1, <1>2 DEF HostOK, LinkTypes
<1> DEFINE b == toReader[1]
           w == Wants(rnr)
<1>4. w \in RBlocks /\ ~Reports(w) /\ w.type = "R"
  BY <1>3, RBlockFacts DEF Wants, Reports
<1>5. b = block \/ RAsks(b) \/ b.type \in {"S", "BAD"}
  BY DEF TakenLine, RReads
<1>6. Waits(b, w)
  BY <1>2, <1>3, <1>4, <1>5, KindFacts DEF Waits, RAsks, Reports
<1>7. /\ SentAfter(w) /\ UNCHANGED <<rns, rnr, rbuf, rout, executed>>
      /\ Reports(rlast') => b = BadBlock \/ (Reports(rlast) /\ Reports(b))
  <2> HIDE DEF b
  <2>1. RSteps(b) /\ ~RResets(b) /\ ~RIgnores(b) /\ Sent(w)
    BY <1>2 DEF b
  <2> HIDE DEF w
  <2>2. QED
    BY <1>1, <1>4, <1>6, <2>1, SentKept
<1>8. Sent(Wants(rnr))'
  <2>1. w = Wants(rnr)'
    BY <1>7 DEF Wants
  <2>2. QED
    BY <1>7, <2>1 DEF SentAfter, Sent, IsError
<1>9. Taken'
  BY <1>2, <1>7, <1>8, HostWaits DEF Taken
<1>10. Reports(rlast') => ErrorDue
  <2>1. CASE b = BadBlock
    BY <2>1 DEF ErrorDue
  <2>2. CASE Reports(rlast) /\ Reports(b)
    <3>1. RAsks(b) /\ toReader # <<>>
      BY <1>3, <1>5, <2>2, KindFacts DEF Reports, RReads
    <3>2. QED
      BY <2>2, <3>1 DEF ErrorDue
  <2>3. QED
    BY <1>7, <2>1, <2>2
<1>11. QED
  BY <1>9, <1>10

LEMMA RoutFacts ==
  ASSUME LinkTypes, rsplen \in Nat, Answered, rsplen < Len(Response),
         rout = SubSeq(Response, rsplen + 1, Len(Response))
  PROVE  /\ Response \in Seq(Units) /\ Len(Response) \in Nat /\ Len(Response) >= 2
         /\ rout \in Seq(Units) /\ Len(rout) = Len(Response) - rsplen /\ rout # <<>>
<1>1. executed \in Seq([cmd : Seq(Units), rsp : Seq(Units)]) /\ executed # <<>> /\ Len(Response) \in RspLens
  BY DEF LinkTypes, Answered
<1>2. Response \in Seq(Units)
  <2> DEFINE E == [cmd : Seq(Units), rsp : Seq(Units)]
  <2>1. \A e \in E : e.rsp \in Seq(Units)
    OBVIOUS
  <2>2. executed \in Seq(E) /\ executed # <<>>
    BY <1>1
  <2> HIDE DEF E
  <2>3. executed[Len(executed)] \in E
    BY <2>2
  <2>4. QED
    BY <2>1, <2>3 DEF Response
<1>3. Len(Response) \in Nat /\ Len(Response) >= 2
  BY <1>1, LimitFacts
<1> DEFINE r == Response
           n == Len(r)
<1>4. r \in Seq(Units) /\ n \in Nat /\ rsplen < n /\ rout = SubSeq(r, rsplen + 1, n) /\ n = Len(r)
  BY <1>2, <1>3
<1> HIDE DEF r, n
<1>5. rout \in Seq(Units) /\ Len(rout) = n - rsplen
  BY <1>4
<1>6. Len(rout) # 0
  BY <1>4, <1>5
<1>7. rout # <<>>
  BY <1>6
<1>8. QED
  BY <1>2, <1>3, <1>5, <1>7 DEF n, r

LEMMA ReplyingFacts ==
  ASSUME LinkTypes, HostOK, ReaderOK, pc = "recv", Replying
  PROVE  /\ Response \in Seq(Units) /\ Len(Response) \in Nat /\ Len(Response) >= 2
         /\ rout \in Seq(Units) /\ Len(rout) = Len(Response) - rsplen /\ rout # <<>> /\ rsplen \in Nat
         /\ ReaderIBlock(nr, rout) \in LinkI /\ ~Reports(ReaderIBlock(nr, rout))
         /\ ReaderIBlock(nr, rout).n = nr /\ ReaderIBlock(nr, rout).type = "I"
         /\ ReaderIBlock(nr, rout).more <=> ReaderIfs < Len(rout)
<1>1. rsplen \in Nat /\ nr \in Bit
  BY DEF HostOK, LinkTypes
<1>2. /\ Response \in Seq(Units) /\ Len(Response) \in Nat /\ Len(Response) >= 2
      /\ rout \in Seq(Units) /\ Len(rout) = Len(Response) - rsplen /\ rout # <<>>
  BY <1>1, RoutFacts DEF Replying
<1>3. QED
  BY <1>1, <1>2, ReplyFacts DEF Reports

LEMMA ReplyingReads ==
  ASSUME Basics, pc = "recv", Replying, ReplyingLine, RReads, RSteps(toReader[1]), toHost = <<>>,
         ~RResets(toReader[1]), ~RIgnores(toReader[1]), toReader = <<toReader[1]>>,
         toReader[1] \in {BadBlock, block} \cup RBlocks \cup SBlocks,
         toReader[1].type = "S" => toReader[1].cmd # "ABORT"
  PROVE  Replying' /\ (Reports(rlast') => ErrorDue)
<1>1. LinkTypes /\ HostOK /\ ReaderOK
  BY DEF Basics
<1>2. /\ Answered /\ nr # rns
      /\ IF lastiicc THEN ns = rnr /\ Len(rout) <= ReaderIfs ELSE ns # rnr /\ rsplen = 0
      /\ rsplen < Len(Response) /\ rout = SubSeq(Response, rsplen + 1, Len(Response))
      /\ Received /\ Sent(ReaderIBlock(nr, rout))
  BY DEF Replying
<1>3. block \in LinkI /\ (~lastiicc => block.n = ns) /\ rnr \in Bit /\ nr \in Bit
  BY <1>1 DEF HostOK, LinkTypes
<1> DEFINE b == toReader[1]
           w == ReaderIBlock(nr, rout)
<1>4. /\ w \in LinkI /\ ~Reports(w) /\ w.n = nr /\ w.type = "I" /\ (w.more <=> ReaderIfs < Len(rout))
      /\ Len(rout) \in Nat
  BY <1>1, ReplyingFacts
<1>5. \/ b = block /\ ~lastiicc
      \/ RAsks(b) \/ b.type \in {"S", "BAD"}
      \/ b = Wants(0) /\ lastiicc
  BY DEF ReplyingLine, RReads
<1>6. Wants(0) \in RBlocks /\ Wants(0).err = "ok"
  BY BitFacts, RBlockFacts DEF Wants
<1>7. Waits(b, w)
  <2>1. CASE b = block /\ ~lastiicc
    BY <1>2, <1>3, <2>1 DEF Waits
  <2>2. CASE RAsks(b)
    BY <1>3, <1>4, <2>2, KindFacts DEF Waits, RAsks, Reports
  <2>3. CASE b.type \in {"S", "BAD"}
    BY <1>3, <2>3, KindFacts DEF Waits
  <2>4. CASE b = Wants(0) /\ lastiicc
    <3> DEFINE n == Len(rout)
    <3>1. n <= ReaderIfs /\ n \in Nat /\ ReaderIfs \in Nat
      BY <1>2, <1>4, <2>4, LimitFacts
    <3> HIDE DEF n
    <3>2. ~(ReaderIfs < n)
      BY <3>1
    <3>3. ~w.more
      BY <1>4, <3>2 DEF n
    <3>4. QED
      BY <1>6, <2>4, <3>3 DEF Waits
  <2>5. QED
    BY <1>5, <2>1, <2>2, <2>3, <2>4
<1>8. /\ SentAfter(w) /\ UNCHANGED <<rns, rnr, rbuf, rout, executed>>
      /\ Reports(rlast') => b = BadBlock \/ (Reports(rlast) /\ Reports(b))
  <2> HIDE DEF b
  <2>1. RSteps(b) /\ ~RResets(b) /\ ~RIgnores(b) /\ Sent(w)
    BY <1>2 DEF b
  <2> HIDE DEF w
  <2>2. QED
    BY <1>1, <1>4, <1>7, <2>1, SentKept
<1>9. Sent(ReaderIBlock(nr, rout))'
  <2>1. w = ReaderIBlock(nr, rout)'
    BY <1>8, HostWaits DEF ReaderIBlock
  <2>2. QED
    BY <1>8, <2>1 DEF SentAfter, Sent, IsError
<1>10. Answered' /\ Received' /\ Response' = Response
  <2>1. Response' = Response
    BY <1>8 DEF Response
  <2>2. QED
    BY <1>2, <1>8, <2>1, HostWaits DEF Answered, Received
<1>11. Replying'
  <2>1. /\ nr' # rns'
        /\ IF lastiicc' THEN ns' = rnr' /\ Len(rout') <= ReaderIfs ELSE ns' # rnr' /\ rsplen' = 0
    <3>1. UNCHANGED <<nr, ns, lastiicc, rsplen, rns, rnr, rout>>
      BY <1>8, HostWaits
    <3>2. CASE lastiicc
      BY <1>2, <3>1, <3>2
    <3>3. CASE ~lastiicc
      BY <1>2, <3>1, <3>3
    <3>4. QED
      BY <3>2, <3>3
  <2>2. rsplen' < Len(Response') /\ rout' = SubSeq(Response', rsplen' + 1, Len(Response'))
    BY <1>2, <1>8, <1>10, HostWaits
  <2>3. QED
    BY <1>9, <1>10, <2>1, <2>2 DEF Replying
<1>12. Reports(rlast') => ErrorDue
  <2>1. CASE b = BadBlock
    BY <2>1 DEF ErrorDue
  <2>2. CASE Reports(rlast) /\ Reports(b)
    <3>1. RAsks(b) /\ toReader # <<>>
      BY <1>3, <1>5, <1>6, <2>2, KindFacts DEF Reports, RReads
    <3>2. QED
      BY <2>2, <3>1 DEF ErrorDue
  <2>3. QED
    BY <1>8, <2>1, <2>2
<1>13. QED
  BY <1>11, <1>12

\* The driver wants the rest of the response, and gets it.
LEMMA RestSent ==
  ASSUME Basics, pc = "recv", Chained, RReads, ShortResponses, NEW b, RGoesOn(b)
  PROVE  Replying' /\ ~Reports(rlast')
<1>1. LinkTypes /\ HostOK /\ ReaderOK
  BY DEF Basics
<1>2. /\ Answered /\ nr = rns /\ ns = rnr /\ lastiicc /\ rnext = <<>> /\ rout = Response
      /\ ReaderIfs < Len(rout) /\ rsplen = ReaderIfs /\ Received /\ rkeep = ReaderIBlock(Flip(nr), rout)
  BY DEF Chained
<1>3. ReaderIfs \in Nat /\ ReaderIfs > 0 /\ rout \in Seq(Units) /\ nr \in Bit /\ Flip(nr) \in Bit /\ rns \in Bit
      /\ Len(rout) \in RspLens /\ Len(rout) \in Nat
  BY <1>1, <1>2, BitFacts, LimitFacts DEF LinkTypes, Answered
<1>4. Len(rout) <= 2 * ReaderIfs
  BY <1>3 DEF ShortResponses
<1>5. rout # <<>>
  BY <1>2, <1>3
<1>6. Len(rkeep.data) = ReaderIfs
  <2> DEFINE n == Flip(nr)
  <2>1. n \in Bit /\ rkeep = ReaderIBlock(n, rout)
    BY <1>2, <1>3
  <2> HIDE DEF n
  <2>2. rkeep.more /\ (rkeep.more => Len(rkeep.data) = ReaderIfs)
    BY <1>2, <1>3, <1>5, <2>1, ReplyFacts
  <2>3. QED
    BY <2>2
<1>7. /\ rns' = Flip(rns) /\ rout' = SubSeq(rout, ReaderIfs + 1, Len(rout))
      /\ ReplyOrAsk(ReaderIBlock(rns, rout')) /\ UNCHANGED <<rnr, rbuf, executed>>
  BY <1>6 DEF RGoesOn
<1>8. rout' \in Seq(Units) /\ Len(rout') = Len(rout) - ReaderIfs
  BY <1>2, <1>3, <1>7
<1>9. rout' # <<>> /\ Len(rout') <= ReaderIfs
  <2>1. Len(rout') # 0 /\ Len(rout') <= ReaderIfs
    BY <1>2, <1>3, <1>4, <1>8
  <2>2. QED
    BY <2>1
<1>10. ReaderIBlock(rns, rout') \in LinkI /\ ~Reports(ReaderIBlock(rns, rout'))
  BY <1>3, <1>8, <1>9, ReplyFacts DEF Reports
<1>11. PICK z : Sends(ReaderIBlock(rns, rout'), z)
  BY <1>1, <1>7, <1>10, Sending1
<1>12. SentAfter(ReaderIBlock(rns, rout')) /\ ~Reports(rlast')
  BY <1>10, <1>11, SendsSent
<1>13. Sent(ReaderIBlock(nr, rout))'
  <2>1. ReaderIBlock(rns, rout') = ReaderIBlock(nr, rout)'
    BY <1>2, HostWaits DEF ReaderIBlock
  <2>2. QED
    BY <1>12, <2>1 DEF SentAfter, Sent, IsError
<1>14. Answered' /\ Received' /\ Response' = Response
  <2>1. Response' = Response
    BY <1>7 DEF Response
  <2>2. QED
    BY <1>2, <1>7, <2>1, HostWaits DEF Answered, Received
<1>15. nr # rns'
  BY <1>2, <1>3, <1>7, BitFacts
<1>16. rsplen' < Len(Response') /\ rout' = SubSeq(Response', rsplen' + 1, Len(Response'))
  BY <1>2, <1>7, <1>14, HostWaits
<1>17. QED
  BY <1>2, <1>7, <1>9, <1>12, <1>13, <1>14, <1>15, <1>16, HostWaits DEF Replying

LEMMA ChainedReads ==
  ASSUME Basics, pc = "recv", Chained, ChainedLine, RReads, RSteps(toReader[1]), ShortResponses,
         ~RResets(toReader[1]), ~RIgnores(toReader[1]), toReader = <<toReader[1]>>,
         toReader[1] \in {BadBlock, block} \cup RBlocks \cup SBlocks
  PROVE  /\ (Chained' /\ rlast' = ReaderError') \/ Replying'
         /\ Reports(rlast') => ErrorDue
<1>1. LinkTypes /\ HostOK /\ ReaderOK
  BY DEF Basics
<1>2. /\ Answered /\ nr = rns /\ ns = rnr /\ lastiicc /\ rnext = <<>> /\ rout = Response
      /\ ReaderIfs < Len(rout) /\ rsplen = ReaderIfs /\ Received /\ rkeep = ReaderIBlock(Flip(nr), rout)
      /\ rlast = rkeep \/ IsError(rlast)
  BY DEF Chained
<1>3. rout \in Seq(Units) /\ nr \in Bit /\ Flip(nr) \in Bit /\ Flip(nr) # nr /\ block \in LinkI
      /\ Len(rout) \in Nat /\ ReaderIfs \in Nat
  <2>1. rout \in Seq(Units) /\ nr \in Bit /\ block \in LinkI
    BY <1>1 DEF LinkTypes, HostOK
  <2>2. Flip(nr) \in Bit /\ Flip(nr) # nr
    BY <2>1, BitFacts
  <2>3. QED
    BY <2>1, <2>2, LimitFacts
<1>4. rout # <<>>
  BY <1>2, <1>3
<1>5. rkeep \in LinkI /\ rkeep.type = "I" /\ rkeep.n # nr /\ rkeep.more /\ rkeep # BadBlock
  <2> DEFINE n == Flip(nr)
  <2>1. n \in Bit /\ rkeep = ReaderIBlock(n, rout) /\ n # nr
    BY <1>2, <1>3
  <2> HIDE DEF n
  <2>2. QED
    BY <1>2, <1>3, <1>4, <2>1, ReplyFacts
<1> DEFINE b == toReader[1]
<1>6. RAsks(b) \/ b = BadBlock \/ b = Wants(0)
  BY DEF ChainedLine, RReads
<1>7. CASE b = BadBlock
  <2>1. ROnBad(b)
    BY <1>7, StepsBy
  <2>2. rlast.type # "S"
    BY <1>1, <1>2, <1>5, ErrorFacts DEF IsError
  <2>3. REchoes(ReaderError)
    BY <2>1, <2>2 DEF ROnBad
  <2>4. /\ UNCHANGED <<rns, rnr, rbuf, rout, rkeep, rnext, executed>> /\ rlast' = ReaderError
        /\ ReaderError' = ReaderError
    BY <2>3 DEF REchoes, Reply, ReaderError
  <2>5. Answered' /\ Received' /\ Response' = Response
    <3>1. Response' = Response
      BY <2>4 DEF Response
    <3>2. QED
      BY <1>2, <2>4, <3>1, HostWaits DEF Answered, Received
  <2>6. rkeep' = ReaderIBlock(Flip(nr'), rout')
    BY <1>2, <2>4, HostWaits
  <2>7. Chained'
    BY <1>2, <2>4, <2>5, <2>6, HostWaits DEF Chained, IsError
  <2>8. ErrorDue
    BY <1>7 DEF ErrorDue
  <2>9. QED
    BY <2>4, <2>7, <2>8
<1>8. CASE RAsks(b) \/ b = Wants(0)
  <2>1. b \in RBlocks
    BY <1>3, <1>8, BitFacts, RBlockFacts, KindFacts DEF RAsks, Reports, Wants
  <2>2. Acknowledges(b)
    <3>1. CASE RAsks(b)
      BY <1>5, <3>1 DEF Acknowledges, RAsks, Reports
    <3>2. CASE b = Wants(0)
      <4>1. b.err = "ok"
        BY <3>2 DEF Wants
      <4>2. QED
        BY <1>5, <4>1 DEF Acknowledges
    <3>3. QED
      BY <1>8, <3>1, <3>2
  <2>3. RGoesOn(b)
    BY <1>5, <2>1, <2>2, StepsBy DEF ROnR
  <2>4. QED
    BY <2>3, RestSent
<1>9. QED
  BY <1>6, <1>7, <1>8

LEMMA ReadPhase ==
  ASSUME Basics, LineOK, PhaseOK, session = "open", ShortResponses, RReads, RSteps(toReader[1])
  PROVE  PhaseOK' /\ (pc = "recv" /\ Reports(rlast') => ErrorDue)
<1>1. /\ pc # "idle" /\ GoesOut /\ ComesBack' /\ toReader' = <<>> /\ toHost' = <<rlast'>>
      /\ ~RResets(toReader[1]) /\ ~RIgnores(toReader[1])
  BY ReadLine
<1>2. /\ toHost = <<>> /\ toReader # <<>> /\ toReader = <<toReader[1]>>
      /\ toReader[1] \in {BadBlock, block} \cup RBlocks \cup SBlocks
  BY <1>1, OutFacts
<1>3. pc' = pc /\ session' = session
  BY HostWaits
<1>4. ASSUME pc = "recv" PROVE Phase' /\ (Reports(rlast') => ErrorDue)
  <2>1. Phase /\ (toReader[1].type = "S" => toReader[1].cmd # "ABORT")
    BY <1>2, <1>4 DEF PhaseOK
  <2>2. TakenLine' /\ ReplyingLine'
    BY <1>1 DEF TakenLine, ReplyingLine
  <2>3. toHost' # <<>>
    BY <1>1, PairFacts
  <2>4. rlast' = ReaderError' => SendingLine' /\ ChainedLine'
    BY <1>1, <2>3 DEF SendingLine, ChainedLine, IsError
  <2>5. CASE Sending /\ SendingLine
    BY <1>1, <1>2, <1>4, <2>2, <2>4, <2>5, SendingReads DEF Phase
  <2>6. CASE Taken /\ TakenLine
    BY <1>1, <1>2, <1>4, <2>1, <2>2, <2>6, TakenReads DEF Phase
  <2>7. CASE Replying /\ ReplyingLine
    BY <1>1, <1>2, <1>4, <2>1, <2>2, <2>7, ReplyingReads DEF Phase
  <2>8. CASE Chained /\ ChainedLine
    BY <1>1, <1>2, <1>4, <2>2, <2>4, <2>8, ChainedReads DEF Phase
  <2>9. QED
    BY <2>1, <2>5, <2>6, <2>7, <2>8 DEF Phase
<1>5. PhaseOK'
  BY <1>1, <1>3, <1>4 DEF PhaseOK
<1>6. QED
  BY <1>4, <1>5

-----------------------------------------------------------------------------
(* The phases of a call: steps of the driver.                              *)

LEMMA PhaseSame ==
  ASSUME UNCHANGED <<ns, nr, apdu, response, calls, executed, reader>>
  PROVE  /\ Sending => Sending'
         /\ Taken => Taken'
         /\ Replying => Replying'
         /\ Chained => Chained'
         /\ \A b : RAsks(b) => RAsks(b)'
         /\ ReaderError' = ReaderError
<1>1. UNCHANGED <<cmd, maxRspLen, sendptr, more, block, lastiicc, rsplen, rsp, rns, rnr, rbuf, rout,
                  rlast, rkeep, rnext>>
  BY DEF apdu, response, reader
<1>2. Pos' = Pos /\ Call' = Call /\ Response' = Response /\ ReaderError' = ReaderError
  BY <1>1 DEF Pos, Call, Response, ReaderError
<1>3. NothingKept' = NothingKept
  BY <1>1 DEF NothingKept
<1>4. ASSUME NEW w, NEW v, Sent(w), v = w
      PROVE  \/ rnext' = <<>> /\ rkeep' = v /\ (rlast' = v \/ rlast' = ReaderError')
             \/ rnext' = <<v>> /\ rlast' = rkeep'
  BY <1>1, <1>2, <1>4 DEF Sent, IsError
<1>5. Wants(rnr)' = Wants(rnr) /\ ReaderIBlock(nr, rout)' = ReaderIBlock(nr, rout)
      /\ ReaderIBlock(Flip(nr), rout)' = ReaderIBlock(Flip(nr), rout)
  BY <1>1 DEF Wants, ReaderIBlock
<1>6. Sending => Sending'
  BY <1>1, <1>2, <1>3 DEF Sending
<1>7. Sent(Wants(rnr)) => Sent(Wants(rnr))'
  BY <1>4, <1>5 DEF Sent, IsError
<1>8. Taken => Taken'
  BY <1>1, <1>2, <1>7 DEF Taken
<1>9. Sent(ReaderIBlock(nr, rout)) => Sent(ReaderIBlock(nr, rout))'
  BY <1>4, <1>5 DEF Sent, IsError
<1>10. (Answered => Answered') /\ (Received => Received')
  BY <1>1, <1>2 DEF Answered, Received
<1>11. ASSUME Replying PROVE Replying'
  <2>1. nr' # rns' /\ rsplen' < Len(Response') /\ rout' = SubSeq(Response', rsplen' + 1, Len(Response'))
    BY <1>1, <1>2, <1>11 DEF Replying
  <2>2. IF lastiicc' THEN ns' = rnr' /\ Len(rout') <= ReaderIfs ELSE ns' # rnr' /\ rsplen' = 0
    <3>1. CASE lastiicc
      BY <1>1, <1>11, <3>1 DEF Replying
    <3>2. CASE ~lastiicc
      BY <1>1, <1>11, <3>2 DEF Replying
    <3>3. QED
      BY <3>1, <3>2
  <2>3. QED
    BY <1>9, <1>10, <1>11, <2>1, <2>2 DEF Replying
<1>12. ASSUME Chained PROVE Chained'
  BY <1>1, <1>2, <1>5, <1>10, <1>12 DEF Chained, IsError
<1>13. \A b : RAsks(b) => RAsks(b)'
  BY DEF RAsks, Reports
<1>14. QED
  BY <1>2, <1>6, <1>8, <1>11, <1>12, <1>13

LEMMA SubmitPhase ==
  ASSUME Basics, LineOK, PhaseOK, NEW c \in Seq(Units), NEW max \in Nat, HSubmits(c, max)
  PROVE  PhaseOK'
<1>1. LinkTypes
  BY DEF Basics
<1>2. CASE pc' = "recv" /\ session' = "open" /\ LGoes(toHost)
  <2>1. session = "open" /\ pc = "idle" /\ UNCHANGED <<rns, rnr, rbuf, rout, rlast, rkeep, rnext, ns, nr>>
    BY <1>2 DEF LGoes, HSubmits, reader
  <2>2. ns = rnr /\ nr = rns /\ rbuf = <<>> /\ NothingKept
    BY <2>1 DEF PhaseOK, Between
  <2>3. toReader' = <<block'>> /\ toHost' = <<>>
    BY <1>2, SubmitLine
  <2>4. toReader' # <<>> /\ toReader'[1] = block' /\ block'.type # "S"
    BY <1>1, <2>3, PairFacts, SubmitBlock, KindFacts
  <2>5. Pos' = 0
    <3> DEFINE l == Len(block'.data)
               p == sendptr'
    <3>1. l = p /\ p \in Nat /\ Pos' = p - l
      BY <1>1, SubmitBlock DEF Pos
    <3> HIDE DEF l, p
    <3>2. p - l = 0
      BY <3>1
    <3>3. QED
      BY <3>1, <3>2
  <2>6. Len(rbuf') = 0 /\ Numbered(rbuf', Call', 0)
    BY <2>1, <2>2 DEF Numbered
  <2>7. NothingKept'
    BY <2>1, <2>2 DEF NothingKept
  <2>8. Sending'
    BY <2>1, <2>2, <2>5, <2>6, <2>7 DEF Sending, HSubmits
  <2>9. SendingLine'
    BY <2>4 DEF SendingLine
  <2>10. QED
    BY <1>2, <2>4, <2>8, <2>9 DEF PhaseOK, Phase
<1>3. CASE pc' = "idle" /\ ret' = "IO_ERROR" /\ LEnds(toHost)
  <2>1. session' # "open"
    BY <1>3 DEF LEnds
  <2>2. QED
    BY <2>1 DEF PhaseOK
<1>4. CASE session' # "open"
  BY <1>4 DEF PhaseOK
<1>5. QED
  BY <1>2, <1>3, <1>4 DEF HSubmits

\* What the block the driver reads tells in a phase.
LEMMA PhaseTells ==
  ASSUME Basics, pc = "recv", Phase, ComesBack, NEW x \in {BadBlock, rlast}, toHost = <<x>>
  PROVE  /\ Sending => IsError(rlast)
         /\ Chained /\ ~Sending => lastiicc
         /\ Sending => ~lastiicc
         /\ Taken => ~lastiicc
         /\ x.type = "I" => Replying /\ rnext = <<>> /\ rkeep = x /\ x = ReaderIBlock(nr, rout)
         /\ x.type = "R" => x = rlast
         /\ x.type = "R" /\ x.err = "ok" => Taken /\ rnext = <<>> /\ rkeep = x
         /\ x.type = "S" => x = rlast /\ (Taken \/ Replying)
<1>1. LinkTypes /\ HostOK /\ ReaderOK
  BY DEF Basics
<1>2. toReader = <<>> /\ toHost # <<>>
  BY BackFacts
<1>3. /\ ReaderError.type = "R" /\ ReaderError.err = "edc" /\ BadBlock.type = "BAD"
  BY <1>1, ErrorFacts, KindFacts
<1>4. x.type # "BAD" => x = rlast
  BY <1>3
<1>5. CASE Sending /\ SendingLine
  <2>1. rlast = ReaderError
    BY <1>2, <1>5 DEF SendingLine, IsError
  <2>2. QED
    BY <1>3, <1>4, <1>5, <2>1 DEF Sending, IsError, Taken
<1>6. CASE Taken /\ TakenLine
  <2> DEFINE w == Wants(rnr)
  <2>1. w \in RBlocks /\ w.type = "R" /\ w.err = "ok"
    BY <1>1, RBlockFacts DEF Wants, LinkTypes
  <2>2. Sent(w)
    BY <1>6 DEF Taken
  <2> HIDE DEF w
  <2>3. /\ rnext = <<>> => rkeep = w /\ rlast \in {w, ReaderError}
        /\ rnext # <<>> => rlast.type = "S"
    BY <1>1, <2>1, <2>2, SentFacts
  <2>4. ~Sending
    BY <1>6 DEF Sending, Taken
  <2>5. ~Chained /\ ~lastiicc
    BY <1>6 DEF Chained, Taken
  <2>6. QED
    BY <1>3, <1>4, <1>6, <2>1, <2>3, <2>4, <2>5
<1>7. CASE Replying /\ ReplyingLine
  <2> DEFINE w == ReaderIBlock(nr, rout)
  <2>1. w \in LinkI /\ w.type = "I"
    BY <1>1, <1>7, ReplyingFacts
  <2>2. Sent(w)
    BY <1>7 DEF Replying
  <2>3. /\ rnext = <<>> => rkeep = w /\ rlast \in {w, ReaderError}
        /\ rnext # <<>> => rlast.type = "S"
    <3> HIDE DEF w
    <3>1. QED
      BY <1>1, <2>1, <2>2, SentFacts
  <2>4. ~Sending
    BY <1>7 DEF Sending, Replying
  <2>5. ~Chained /\ ~Taken
    BY <1>7 DEF Chained, Taken, Replying, Answered
  <2>6. QED
    BY <1>3, <1>4, <1>7, <2>1, <2>3, <2>4, <2>5
<1>8. CASE Chained /\ ChainedLine
  <2>1. rlast = ReaderError
    BY <1>2, <1>8 DEF ChainedLine, IsError
  <2>2. QED
    BY <1>3, <1>4, <1>8, <2>1 DEF Chained, IsError, Taken, Sending
<1>9. QED
  BY <1>5, <1>6, <1>7, <1>8 DEF Phase

LEMMA Rejoined ==
  ASSUME NEW s \in Seq(Units), NEW k \in Nat, k <= Len(s)
  PROVE  SubSeq(s, 1, k) \o SubSeq(s, k + 1, Len(s)) = s
<1> DEFINE a == SubSeq(s, 1, k)
           b == SubSeq(s, k + 1, Len(s))
           u == a \o b
<1>1. a \in Seq(Units) /\ Len(a) = k /\ \A i \in 1 .. k : a[i] = s[i]
  OBVIOUS
<1>2. b \in Seq(Units) /\ Len(b) = Len(s) - k /\ \A i \in 1 .. Len(s) - k : b[i] = s[k + i]
  OBVIOUS
<1> HIDE DEF a, b
<1>3. u \in Seq(Units) /\ Len(u) = Len(s) /\ (\A i \in 1 .. k : u[i] = a[i])
      /\ \A i \in 1 .. Len(s) - k : u[k + i] = b[i]
  BY <1>1, <1>2
<1> HIDE DEF u
<1>4. ASSUME NEW i \in 1 .. Len(u) PROVE u[i] = s[i]
  <2>1. CASE i <= k
    BY <1>1, <1>3, <2>1
  <2>2. CASE i > k
    <3> DEFINE j == i - k
    <3>1. j \in 1 .. Len(s) - k /\ i = k + j
      BY <1>3, <2>2
    <3> HIDE DEF j
    <3>2. QED
      BY <1>2, <1>3, <3>1
  <2>3. QED
    BY <1>3, <2>1, <2>2
<1>5. u = s
  BY <1>3, <1>4, SeqEqual
<1>6. QED
  BY <1>5 DEF u, a, b

\* The driver reads the first block of a response of two.
LEMMA PartRead ==
  ASSUME Basics, pc = "recv", Replying, NEW x, x = ReaderIBlock(nr, rout), rnext = <<>>, rkeep = x,
         rlast = x, HPart(x), UNCHANGED <<reader, executed, calls>>
  PROVE  Chained'
<1>1. LinkTypes /\ HostOK /\ ReaderOK
  BY DEF Basics
<1>2. /\ Response \in Seq(Units) /\ Len(Response) \in Nat
      /\ rout \in Seq(Units) /\ rout # <<>> /\ rsplen \in Nat
      /\ x \in LinkI /\ (x.more <=> ReaderIfs < Len(rout)) /\ Len(rout) \in Nat
  BY <1>1, ReplyingFacts
<1>3. nr \in Bit /\ ns \in Bit /\ rns \in Bit /\ rnr \in Bit /\ maxRspLen \in Nat /\ lastiicc \in BOOLEAN
  BY <1>1 DEF LinkTypes, HostOK
<1>4. x.more /\ HReads(x) /\ UNCHANGED <<rns, rnr, rbuf, rout, rlast, rkeep, rnext>>
  BY DEF HPart, reader
<1>5. ReaderIfs < Len(rout) /\ ReaderIfs \in Nat
  BY <1>2, <1>4, LimitFacts
<1>6. ~lastiicc
  <2> DEFINE n == Len(rout)
  <2>1. ReaderIfs < n /\ n \in Nat /\ ReaderIfs \in Nat
    BY <1>2, <1>5
  <2> HIDE DEF n
  <2>2. ~(n <= ReaderIfs)
    BY <2>1
  <2>3. QED
    BY <2>2 DEF Replying, n
<1>7. /\ Answered /\ nr # rns /\ ns # rnr /\ rsplen = 0 /\ rout = SubSeq(Response, rsplen + 1, Len(Response))
      /\ Received
  BY <1>6 DEF Replying
<1>8. rout = Response
  <2>1. SubSeq(Response, 1, Len(Response)) = Response
    <3> DEFINE r == Response
    <3>1. r \in Seq(Units)
      BY <1>2
    <3> HIDE DEF r
    <3>2. SubSeq(r, 1, Len(r)) = r
      BY <3>1
    <3>3. QED
      BY <3>2 DEF r
  <2>2. rsplen + 1 = 1
    BY <1>7
  <2>3. QED
    BY <1>7, <2>1, <2>2
<1>9. Len(x.data) = ReaderIfs /\ x.data = SubSeq(rout, 1, ReaderIfs)
  BY <1>2, <1>3, <1>4, ReplyFacts
<1>10. rsp = <<>>
  <2>1. rsplen <= maxRspLen /\ rsplen = 0
    BY <1>3, <1>7
  <2>2. rsp = SubSeq(rout, 1, 0)
    BY <1>7, <1>8, <2>1 DEF Received
  <2>3. SubSeq(rout, 1, 0) = <<>>
    BY <1>2
  <2>4. QED
    BY <2>2, <2>3
<1>11. /\ lastiicc' = TRUE /\ ns' = Flip(ns) /\ nr' = Flip(nr) /\ rsplen' = ReaderIfs
       /\ rsp' = IF ReaderIfs <= maxRspLen THEN <<>> \o SubSeq(rout, 1, ReaderIfs) ELSE rsp
       /\ UNCHANGED <<cmd, maxRspLen, sendptr, more, block>>
  <2>1. /\ lastiicc' = TRUE /\ ns' = Flip(ns) /\ nr' = Flip(nr) /\ rsplen' = rsplen + ReaderIfs
        /\ rsp' = IF rsplen + ReaderIfs <= maxRspLen THEN rsp \o SubSeq(rout, 1, ReaderIfs) ELSE rsp
        /\ UNCHANGED <<cmd, maxRspLen, sendptr, more, block>>
    BY <1>4, <1>6, <1>9 DEF HReads, HTurns, AfterI, apdu
  <2>2. rsplen + ReaderIfs = ReaderIfs
    BY <1>5, <1>7
  <2>3. QED
    BY <1>10, <2>1, <2>2
<1>12. ns' = rnr' /\ nr' = rns' /\ Flip(nr') = nr
  BY <1>3, <1>4, <1>7, <1>11, BitFacts
<1>13. Response' = Response
  BY DEF Response
<1>14. Answered'
  BY <1>4, <1>7, <1>11, <1>13 DEF Answered
<1>15. Received'
  <2> DEFINE s == SubSeq(rout, 1, ReaderIfs)
  <2>1. s \in Seq(Units)
    BY <1>2, <1>5
  <2>2. <<>> \o s = s
    <3> HIDE DEF s
    <3>1. QED
      BY <2>1
  <2>3. rsplen' <= maxRspLen' => rsp' = s
    BY <1>11, <2>2
  <2>4. QED
    BY <1>8, <1>11, <1>13, <2>3 DEF Received
<1>16. rkeep' = ReaderIBlock(Flip(nr'), rout') /\ rlast' = rkeep' /\ rnext' = <<>>
  BY <1>4, <1>12
<1>17. rout' = Response' /\ ReaderIfs < Len(rout') /\ rsplen' = ReaderIfs /\ lastiicc'
  BY <1>4, <1>5, <1>8, <1>11, <1>13
<1>18. QED
  BY <1>12, <1>14, <1>15, <1>16, <1>17 DEF Chained

\* It reads the last one: the response is complete, and both sides agree.
LEMMA LastRead ==
  ASSUME Basics, pc = "recv", Replying, NEW x, x = ReaderIBlock(nr, rout), rnext = <<>>, rkeep = x,
         rlast = x, HLast(x), UNCHANGED <<reader, executed, calls>>
  PROVE  /\ Between' /\ rsplen' = Len(Response) /\ (rsplen' <= maxRspLen => rsp' = Response)
         /\ ret' # "PROTOCOL_ERROR"
<1>1. LinkTypes /\ HostOK /\ ReaderOK
  BY DEF Basics
<1>2. /\ Response \in Seq(Units) /\ Len(Response) \in Nat /\ Len(Response) >= 2
      /\ rout \in Seq(Units) /\ rout # <<>> /\ rsplen \in Nat /\ Len(rout) = Len(Response) - rsplen
      /\ x \in LinkI /\ (x.more <=> ReaderIfs < Len(rout)) /\ Len(rout) \in Nat /\ x.type = "I" /\ x.n = nr
  BY <1>1, ReplyingFacts
<1>3. nr \in Bit /\ ns \in Bit /\ rns \in Bit /\ rnr \in Bit /\ maxRspLen \in Nat /\ lastiicc \in BOOLEAN
  BY <1>1 DEF LinkTypes, HostOK
<1>4. ~x.more /\ HReads(x) /\ UNCHANGED <<rns, rnr, rbuf, rout, rlast, rkeep, rnext>>
  BY DEF HLast, reader
<1>5. x.data = rout
  BY <1>2, <1>3, <1>4, ReplyFacts
<1>6. /\ ns' = AfterI /\ nr' = Flip(nr) /\ rsplen' = rsplen + Len(rout)
      /\ rsp' = IF rsplen + Len(rout) <= maxRspLen THEN rsp \o rout ELSE rsp
  BY <1>4, <1>5 DEF HReads, HTurns
<1>7. ns' = rnr
  <2>1. CASE lastiicc
    BY <1>6, <2>1 DEF AfterI, Replying
  <2>2. CASE ~lastiicc
    <3>1. ns # rnr /\ ns' = Flip(ns)
      BY <1>6, <2>2 DEF AfterI, Replying
    <3>2. QED
      BY <1>3, <3>1, BitFacts
  <2>3. QED
    BY <2>1, <2>2
<1>8. /\ nr # rns /\ rsplen < Len(Response) /\ rout = SubSeq(Response, rsplen + 1, Len(Response)) /\ Received
      /\ rbuf = <<>>
  BY DEF Replying, Answered
<1>9. nr' = rns /\ nr' # nr
  BY <1>3, <1>6, <1>8, BitFacts
<1>10. NothingKept'
  <2>1. rkeep'.n # nr' /\ ~rkeep'.more /\ rnext' = <<>> /\ rlast'.type # "S"
    BY <1>2, <1>4, <1>9
  <2>2. QED
    BY <2>1 DEF NothingKept
<1>11. Between'
  BY <1>4, <1>7, <1>8, <1>9, <1>10 DEF Between
<1> DEFINE n == Len(Response)
           m == Len(rout)
<1>12. n \in Nat /\ m = n - rsplen /\ n >= 2 /\ rsplen < n /\ rsplen' = rsplen + m
  BY <1>2, <1>6, <1>8
<1>13. rsplen' = n
  <2> HIDE DEF n, m
  <2>1. QED
    BY <1>2, <1>12
<1>14. ASSUME rsplen' <= maxRspLen PROVE rsp' = Response
  <2>1. rsplen <= maxRspLen
    <3> HIDE DEF n, m
    <3>1. QED
      BY <1>2, <1>3, <1>12, <1>13, <1>14
  <2>2. rsp = SubSeq(Response, 1, rsplen)
    BY <1>8, <2>1 DEF Received
  <2>3. rsp' = rsp \o rout
    BY <1>6, <1>14
  <2>4. SubSeq(Response, 1, rsplen) \o SubSeq(Response, rsplen + 1, Len(Response)) = Response
    <3> DEFINE r == Response
    <3>1. r \in Seq(Units) /\ rsplen <= Len(r)
      BY <1>2, <1>8
    <3> HIDE DEF r
    <3>2. SubSeq(r, 1, rsplen) \o SubSeq(r, rsplen + 1, Len(r)) = r
      BY <1>2, <3>1, Rejoined
    <3>3. QED
      BY <3>2 DEF r
  <2>5. QED
    BY <1>8, <2>2, <2>3, <2>4
<1>15. ret' # "PROTOCOL_ERROR"
  <2>1. ~(rsplen' < 2)
    <3> HIDE DEF n, m
    <3>1. QED
      BY <1>12, <1>13
  <2>2. QED
    BY <2>1 DEF HLast
<1>16. QED
  BY <1>11, <1>13, <1>14, <1>15

\* The reader wants the next I-block of the command, and the driver makes it.
LEMMA NextSent ==
  ASSUME Basics, pc = "recv", Taken, NEW x, x.type = "R", x = rlast, rnext = <<>>, rkeep = x,
         HNext(x), UNCHANGED <<reader, executed, calls>>
  PROVE  Sending'
<1>1. LinkTypes /\ HostOK
  BY DEF Basics
<1>2. /\ ~lastiicc /\ more /\ ns # rnr /\ nr = rns /\ rsplen = 0 /\ rsp = <<>>
      /\ Len(rbuf) = sendptr /\ Numbered(rbuf, Call, 0)
  BY DEF Taken
<1>3. /\ ns \in Bit /\ rnr \in Bit /\ ifsc \in Nat \ {0} /\ Flip(ns) \in Bit
  BY <1>1, BitFacts DEF LinkTypes
<1>4. cmd \in Seq(Units) /\ Numbered(cmd, Call, 0) /\ sendptr \in Nat /\ sendptr < Len(cmd)
  BY <1>1, <1>2, CallFacts
<1>5. /\ ns' = Flip(ns) /\ NextIBlock(Flip(ns), cmd, sendptr)
      /\ UNCHANGED <<nr, lastiicc, rsplen, rsp, rns, rnr, rbuf, rout, rlast, rkeep, rnext>>
  <2>1. ns' = Flip(ns) /\ NextIBlock(ns', cmd, sendptr) /\ UNCHANGED <<nr, response, reader>>
    BY DEF HNext
  <2>2. QED
    BY <2>1 DEF response, reader
<1>6. Len(block'.data) = sendptr' - sendptr /\ sendptr' \in Nat
  <2> DEFINE n == Flip(ns)
  <2>1. n \in Bit /\ NextIBlock(n, cmd, sendptr)
    BY <1>3, <1>5
  <2> HIDE DEF n
  <2>2. QED
    BY <1>3, <1>4, <2>1, NextBlock
<1>7. Pos' = sendptr
  <2> DEFINE l == Len(block'.data)
             p == sendptr'
             q == sendptr
  <2>1. l = p - q /\ p \in Nat /\ q \in Nat /\ Pos' = p - l
    BY <1>4, <1>6 DEF Pos
  <2> HIDE DEF l, p, q
  <2>2. p - l = q
    BY <2>1
  <2>3. QED
    BY <2>1, <2>2 DEF q
<1>8. ns' = rnr'
  BY <1>2, <1>3, <1>5, BitFacts
<1>9. NothingKept'
  BY <1>5 DEF NothingKept
<1>10. Len(rbuf') = Pos' /\ Numbered(rbuf', Call', 0)
  <2>1. Call' = Call
    BY DEF Call
  <2>2. QED
    BY <1>2, <1>5, <1>7, <2>1
<1>11. QED
  BY <1>2, <1>5, <1>8, <1>9, <1>10 DEF Sending

\* The driver has read a block, and its answer goes out.
LEMMA PassGoes ==
  ASSUME Basics, PhaseOK, CountersOK, session = "open", pc = "recv", ComesBack,
         NEW x \in {BadBlock, rlast}, toHost = <<x>>, LGoes(<<>>), HGoes(x) \/ HAnswers(x), UNCHANGED calls
  PROVE  PhaseOK' /\ CountersOK'
<1>1. LinkTypes /\ HostOK /\ ReaderOK /\ Phase
  BY DEF Basics, PhaseOK
<1>2. /\ toReader = <<>> /\ toHost # <<>> /\ rlast # BadBlock
  BY BackFacts
<1>3. /\ pc' # "idle" /\ session' = "open" /\ damaged' = damaged /\ toHost' = <<>> /\ toReader' = <<>> \o tx'
      /\ UNCHANGED <<reader, executed, requests>>
  BY <1>2 DEF LGoes
<1>4. UNCHANGED <<rns, rnr, rbuf, rout, rlast, rkeep, rnext>>
  BY <1>3 DEF reader
<1>5. /\ errcntr \in Nat /\ rerrcntr \in Nat /\ damaged \in Nat /\ errcntr <= damaged /\ rerrcntr <= damaged
      /\ toHost = <<BadBlock>> => errcntr < damaged
      /\ Reports(rlast) => rerrcntr < damaged
  BY <1>1, <1>2 DEF CountersOK, ErrorDue, HostOK, LinkTypes
<1>6. /\ Sending => IsError(rlast)
      /\ Chained /\ ~Sending => lastiicc
      /\ Sending => ~lastiicc
      /\ Taken => ~lastiicc
      /\ x.type = "I" => Replying /\ rnext = <<>> /\ rkeep = x /\ x = ReaderIBlock(nr, rout)
      /\ x.type = "R" => x = rlast
      /\ x.type = "R" /\ x.err = "ok" => Taken /\ rnext = <<>> /\ rkeep = x
      /\ x.type = "S" => x = rlast /\ (Taken \/ Replying)
  BY <1>1, PhaseTells
<1>7. /\ ReaderError \in RBlocks /\ ReaderError.err = "edc" /\ BadBlock.type = "BAD"
  BY <1>1, ErrorFacts, KindFacts
<1>8. ASSUME NEW r, tx' = <<r>>, errcntr' <= damaged, rerrcntr' <= damaged, r # BadBlock,
             Reports(rlast) /\ RAsks(r)' => rerrcntr' < damaged
      PROVE  CountersOK' /\ toReader' # <<>> /\ toReader'[1] = r
  <2>1. toReader' = <<r>>
    BY <1>3, <1>8, PairFacts
  <2>2. toReader' # <<>> /\ toReader'[1] = r /\ toReader' # <<BadBlock>>
    <3>1. <<r>> # <<>> /\ <<r>>[1] = r /\ <<BadBlock>>[1] = BadBlock
      BY PairFacts
    <3>2. QED
      BY <1>8, <2>1, <3>1
  <2>3. toHost' # <<BadBlock>>
    BY <1>3, PairFacts
  <2>4. ErrorDue' => Reports(rlast) /\ RAsks(r)'
    BY <1>3, <1>4, <2>2 DEF ErrorDue, Reports, RAsks
  <2>5. QED
    BY <1>3, <1>8, <2>2, <2>3, <2>4 DEF CountersOK
<1>9. ASSUME NEW r, toReader' # <<>>, toReader'[1] = r, Phase', pc' = "recv", r.type = "S" => r.cmd # "ABORT"
      PROVE  PhaseOK'
  BY <1>3, <1>9 DEF PhaseOK
<1>10. ASSUME UNCHANGED <<ns, nr, apdu, response>>
       PROVE  /\ Sending => Sending'
              /\ Taken => Taken'
              /\ Replying => Replying'
              /\ Chained => Chained'
              /\ IsError(rlast) => IsError(rlast)'
              /\ lastiicc' = lastiicc /\ block' = block
  <2>1. ReaderError' = ReaderError /\ lastiicc' = lastiicc /\ block' = block
    BY <1>4, <1>10 DEF ReaderError, response, apdu
  <2>2. QED
    BY <1>3, <1>4, <1>10, <2>1, PhaseSame DEF IsError
<1>11. CASE HAsks(x)
  <2>1. /\ x = BadBlock /\ errcntr' = errcntr + 1 /\ UNCHANGED <<pc, ns, nr, apdu, response, rerrcntr>>
    BY <1>11 DEF HAsks
  <2>2. PICK e \in {"edc", "other"} : tx' = <<RErr(e)>>
    BY <1>11 DEF HAsks
  <2> DEFINE r == [type |-> "R", n |-> nr, err |-> e]
  <2>3. r.type = "R" /\ r.err = e /\ r.n = nr /\ tx' = <<r>> /\ r # BadBlock
    BY <1>7, <2>2 DEF RErr
  <2> HIDE DEF r
  <2>4. Reports(r) /\ (r.type = "R" /\ r.err # "ok" /\ r.n = nr')
    BY <2>1, <2>3 DEF Reports
  <2>5. errcntr' <= damaged /\ rerrcntr' <= damaged /\ (Reports(rlast) => rerrcntr' < damaged)
    BY <1>5, <2>1
  <2>6. CountersOK' /\ toReader' # <<>> /\ toReader'[1] = r
    BY <1>8, <2>3, <2>5
  <2>7. RAsks(toReader[1])'
    BY <2>4, <2>6 DEF RAsks, Reports
  <2>8. IsError(rlast) => SendingLine'
    BY <1>10, <2>1, <2>6, <2>7 DEF SendingLine
  <2>9. TakenLine' /\ ReplyingLine' /\ ChainedLine'
    BY <1>3, <2>7 DEF TakenLine, ReplyingLine, ChainedLine
  <2>10. Phase'
    BY <1>1, <1>6, <1>10, <2>1, <2>8, <2>9 DEF Phase
  <2>11. QED
    BY <1>9, <2>1, <2>3, <2>6, <2>10 DEF PhaseOK
<1>12. CASE HAcks(x)
  <2>1. /\ x.type = "R" /\ lastiicc /\ errcntr' = 0 /\ rerrcntr' = rerrcntr + 1 /\ tx' = <<ROk>>
        /\ UNCHANGED <<pc, ns, nr, apdu, response>>
    BY <1>12 DEF HAcks
  <2>2. ROk = Wants(0) /\ ROk.type = "R" /\ ROk.err = "ok" /\ ROk # BadBlock
    BY <1>7 DEF ROk, Wants
  <2>3. Reports(rlast)
    BY <1>6, <2>1 DEF Reports
  <2>4. errcntr' <= damaged /\ rerrcntr' <= damaged
    BY <1>5, <2>1, <2>3
  <2>5. ~RAsks(ROk)'
    BY <2>2 DEF RAsks, Reports
  <2>6. CountersOK' /\ toReader' # <<>> /\ toReader'[1] = ROk
    <3> DEFINE r == ROk
    <3>1. tx' = <<r>> /\ r # BadBlock /\ ~RAsks(r)'
      BY <2>1, <2>2, <2>5
    <3> HIDE DEF r
    <3>2. CountersOK' /\ toReader' # <<>> /\ toReader'[1] = r
      BY <1>8, <2>4, <3>1
    <3>3. QED
      BY <3>2 DEF r
  <2>7. ~Sending /\ ~Taken
    BY <1>6, <2>1
  <2>8. Replying => ReplyingLine'
    BY <1>10, <2>1, <2>2, <2>6 DEF ReplyingLine
  <2>9. ChainedLine'
    BY <1>3, <2>2, <2>6 DEF ChainedLine
  <2>10. Phase'
    BY <1>1, <1>10, <2>1, <2>7, <2>8, <2>9 DEF Phase
  <2>11. QED
    BY <1>3, <2>1, <2>2, <2>6, <2>10 DEF PhaseOK
<1>13. CASE HResends(x)
  <2>1. /\ x.type = "R" /\ x.err # "ok" /\ ~lastiicc /\ errcntr' = 0 /\ rerrcntr' = rerrcntr + 1
        /\ tx' = <<block>> /\ UNCHANGED <<pc, ns, nr, apdu, response>>
    BY <1>13 DEF HResends
  <2>2. block.type = "I" /\ block # BadBlock
    BY <1>1, KindFacts DEF HostOK
  <2>3. Reports(rlast)
    BY <1>6, <2>1 DEF Reports
  <2>4. errcntr' <= damaged /\ rerrcntr' <= damaged
    BY <1>5, <2>1, <2>3
  <2>5. ~RAsks(block)' /\ block' = block
    BY <1>10, <2>1, <2>2 DEF RAsks, Reports
  <2>6. CountersOK' /\ toReader' # <<>> /\ toReader'[1] = block
    <3>1. toReader' = <<block>>
      BY <1>3, <2>1, PairFacts
    <3>2. toReader' # <<>> /\ toReader'[1] = block /\ toReader' # <<BadBlock>>
      BY <2>2, <3>1, PairFacts
    <3>3. toHost' # <<BadBlock>>
      BY <1>3, PairFacts
    <3>4. ~ErrorDue'
      BY <1>3, <2>2, <3>2 DEF ErrorDue, RAsks, Reports
    <3>5. QED
      BY <1>3, <2>4, <3>2, <3>3, <3>4 DEF CountersOK
  <2>7. SendingLine'
    BY <2>5, <2>6 DEF SendingLine
  <2>8. TakenLine'
    BY <2>5, <2>6 DEF TakenLine
  <2>9. ReplyingLine'
    BY <1>10, <2>1, <2>5, <2>6 DEF ReplyingLine
  <2>10. ~Chained \/ Sending
    BY <1>6, <2>1
  <2>11. Phase'
    BY <1>1, <1>10, <2>1, <2>7, <2>8, <2>9, <2>10 DEF Phase
  <2>12. QED
    BY <1>3, <2>1, <2>2, <2>6, <2>11 DEF PhaseOK
<1>14. CASE HNext(x)
  <2>1. x.type = "R" /\ x.err = "ok" /\ errcntr' = 0 /\ rerrcntr' = 0 /\ tx' = <<block'>> /\ pc' = pc
    BY <1>14 DEF HNext
  <2>2. Sending'
    BY <1>3, <1>6, <1>14, <2>1, NextSent
  <2>3. block' \in LinkI
    <3>1. x \in Line
      BY <1>1 DEF LinkTypes, Line
    <3>2. QED
      BY <1>1, <1>14, <3>1, PassWrites DEF HGoes
  <2>4. block'.type = "I" /\ block' # BadBlock
    BY <2>3, KindFacts
  <2>5. toReader' # <<>> /\ toReader'[1] = block' /\ toReader' # <<BadBlock>> /\ toHost' # <<BadBlock>>
    <3>1. toReader' = <<block'>>
      BY <1>3, <2>1, PairFacts
    <3>2. QED
      BY <1>3, <2>4, <3>1, PairFacts
  <2>6. ~ErrorDue'
    BY <1>3, <2>4, <2>5 DEF ErrorDue, RAsks, Reports
  <2>7. CountersOK'
    BY <1>3, <1>5, <2>1, <2>5, <2>6 DEF CountersOK
  <2>8. SendingLine'
    BY <2>5 DEF SendingLine
  <2>9. QED
    BY <1>3, <2>1, <2>2, <2>4, <2>5, <2>7, <2>8 DEF PhaseOK, Phase
<1>15. CASE HRefuses(x)
  <2>1. x.type = "I" /\ x.n # nr
    BY <1>15 DEF HRefuses
  <2>2. QED
    BY <1>1, <1>6, <2>1, ReplyingFacts
<1>16. CASE HPart(x)
  <2>1. x.type = "I" /\ errcntr' = 0 /\ rerrcntr' = 0 /\ tx' = <<ROk>> /\ pc' = pc
    BY <1>16 DEF HPart, HReads, HTurns
  <2>2. x = rlast
    BY <1>7, <2>1
  <2>3. Chained'
    BY <1>3, <1>6, <1>16, <2>1, <2>2, PartRead
  <2>4. ROk = Wants(0) /\ ROk.type = "R" /\ ROk.err = "ok" /\ ROk # BadBlock
    BY <1>7 DEF ROk, Wants
  <2>5. ~RAsks(ROk)'
    BY <2>4 DEF RAsks, Reports
  <2>6. CountersOK' /\ toReader' # <<>> /\ toReader'[1] = ROk
    <3> DEFINE r == ROk
    <3>1. tx' = <<r>> /\ r # BadBlock /\ ~RAsks(r)' /\ errcntr' <= damaged /\ rerrcntr' <= damaged
      BY <1>5, <2>1, <2>4, <2>5
    <3> HIDE DEF r
    <3>2. CountersOK' /\ toReader' # <<>> /\ toReader'[1] = r
      BY <1>8, <3>1
    <3>3. QED
      BY <3>2 DEF r
  <2>7. ChainedLine'
    BY <1>3, <2>4, <2>6 DEF ChainedLine
  <2>8. QED
    BY <1>3, <2>1, <2>3, <2>4, <2>6, <2>7 DEF PhaseOK, Phase
<1>17. CASE HDrops(x)
  <2>1. x = Resynched /\ x.type = "S"
    BY <1>17, SpecialFacts DEF HDrops
  <2>2. x \in Requests
    BY <1>1, <1>6, <2>1 DEF ReaderOK
  <2>3. QED
    BY <2>1, <2>2, RequestFacts
<1>18. CASE HAnswers(x)
  <2>1. /\ x \in Requests /\ errcntr' = 0 /\ rerrcntr' = 0
        /\ pc' = IF x.cmd = "ABORT" THEN "abort" ELSE "recv"
        /\ UNCHANGED <<ns, nr, apdu, response>>
    BY <1>18 DEF HAnswers
  <2>2. PICK r \in SBlocks : tx' = <<r>> /\ (r.cmd = "ABORT" <=> x.cmd = "ABORT")
    BY <1>18 DEF HAnswers
  <2>3. r.type = "S" /\ r # BadBlock /\ x.type = "S"
    BY <1>7, <2>1, KindFacts, RequestFacts
  <2>4. errcntr' <= damaged /\ rerrcntr' <= damaged /\ ~(r.type = "R" /\ r.err # "ok" /\ r.n = nr')
    BY <1>5, <2>1, <2>3
  <2>5. ~RAsks(r)'
    BY <2>4 DEF RAsks, Reports
  <2>6. CountersOK' /\ toReader' # <<>> /\ toReader'[1] = r
    BY <1>8, <2>2, <2>3, <2>4, <2>5
  <2>7. TakenLine' /\ ReplyingLine'
    BY <2>3, <2>6 DEF TakenLine, ReplyingLine
  <2>8. Phase'
    BY <1>6, <1>10, <2>1, <2>3, <2>7 DEF Phase
  <2>9. QED
    BY <1>3, <2>1, <2>2, <2>3, <2>6, <2>8 DEF PhaseOK
<1>19. QED
  BY <1>11, <1>12, <1>13, <1>14, <1>15, <1>16, <1>17, <1>18 DEF HGoes

\* A call ends: with its response, or the session with it.
LEMMA PassEnds ==
  ASSUME Basics, PhaseOK, CountersOK, session = "open", ComesBack, NEW x \in {BadBlock, rlast}, toHost = <<x>>,
         LEnds(<<>>), (pc = "recv" /\ HLast(x)) \/ HFails(x), UNCHANGED calls
  PROVE  PhaseOK' /\ CountersOK' /\ Recovers'
<1>1. LinkTypes /\ HostOK /\ ReaderOK
  BY DEF Basics
<1>2. /\ pc' = "idle" /\ session' = (IF ret' \in {"OK", "BAD_PARAM"} THEN "open" ELSE "eject")
      /\ damaged' \in {damaged, damaged + 1} /\ UNCHANGED <<reader, executed>>
  BY DEF LEnds
<1>3. CountersOK'
  BY <1>2 DEF CountersOK
<1>4. damaged \in Nat /\ damaged' \in Nat /\ damaged <= damaged' /\ ErrLimit \in Nat
  BY <1>1, <1>2, LimitFacts DEF LinkTypes
<1>5. CASE pc = "recv" /\ HLast(x)
  <2>1. x.type = "I"
    BY <1>5 DEF HLast, HReads
  <2>2. Phase
    BY <1>5 DEF PhaseOK
  <2>3. Replying /\ rnext = <<>> /\ rkeep = x /\ x = ReaderIBlock(nr, rout)
    BY <1>5, <2>1, <2>2, PhaseTells
  <2>4. x = rlast
    BY <2>1, KindFacts
  <2>5. Between' /\ ret' # "PROTOCOL_ERROR"
    BY <1>2, <1>5, <2>3, <2>4, LastRead
  <2>6. PhaseOK'
    BY <1>2, <2>5 DEF PhaseOK
  <2>7. ret' \in {"OK", "BAD_PARAM"}
    BY <1>5, <2>5 DEF HLast
  <2>8. Recovers'
    BY <1>2, <2>7 DEF Recovers, GaveUp
  <2>9. QED
    BY <1>3, <2>6, <2>8
<1>6. CASE HFails(x)
  <2>1. session' = "eject"
    BY <1>2, <1>6 DEF HFails
  <2>2. PhaseOK'
    BY <2>1 DEF PhaseOK
  <2>3. CASE ret' \in {"UNDEF_ERROR", "TIMEOUT"}
    <3>1. Recovers'
      BY <2>3 DEF Recovers, GaveUp
    <3>2. QED
      BY <1>3, <2>2, <3>1
  <2>4. CASE ret' \notin {"UNDEF_ERROR", "TIMEOUT"}
    <3>1. pc = "recv" /\ Blame(x)
      BY <1>6, <2>4 DEF HFails
    <3>2. Phase
      BY <3>1 DEF PhaseOK
    <3>3. /\ errcntr \in Nat /\ rerrcntr \in Nat /\ errcntr <= damaged /\ rerrcntr <= damaged
          /\ toHost = <<BadBlock>> => errcntr < damaged
      BY <1>1, <3>1 DEF CountersOK, HostOK
    <3>4. CASE x = BadBlock /\ errcntr' = errcntr + 1 /\ rerrcntr' = rerrcntr /\ ret' = "IO_ERROR"
      <4>1. errcntr' <= damaged /\ rerrcntr' <= damaged
        BY <1>4, <3>3, <3>4
      <4>2. TooMany(errcntr') \/ TooMany(rerrcntr') => damaged' >= ErrLimit
        BY <1>4, <3>3, <3>4, <4>1 DEF TooMany
      <4>3. QED
        BY <1>3, <2>2, <3>4, <4>2 DEF Recovers, GaveUp
    <3>5. CASE x.type = "R" /\ errcntr' = 0 /\ rerrcntr' = rerrcntr + 1 /\ ret' = "IO_ERROR"
      <4>1. TooMany(errcntr') \/ TooMany(rerrcntr') => damaged' >= ErrLimit
        BY <1>4, <3>3, <3>5 DEF TooMany
      <4>2. QED
        BY <1>3, <2>2, <3>5, <4>1 DEF Recovers, GaveUp
    <3>6. CASE x.type = "R" /\ x.err = "ok" /\ ~lastiicc /\ ~more
      <4>1. Taken
        BY <3>1, <3>2, <3>6, PhaseTells
      <4>2. QED
        BY <3>6, <4>1 DEF Taken
    <3>7. CASE errcntr' = 0 /\ rerrcntr' = 0 /\ (ret' = "IO_ERROR" \/ (wtxcntr' \in Nat /\ wtxcntr' > WtxLimit))
      <4>1. ~TooMany(errcntr') /\ ~TooMany(rerrcntr')
        BY <1>4, <3>7 DEF TooMany
      <4>2. ret' = "IO_ERROR" \/ ~(wtxcntr' <= WtxLimit)
        BY <3>7, LimitFacts
      <4>3. Recovers'
        BY <3>7, <4>1, <4>2 DEF Recovers, GaveUp
      <4>4. QED
        BY <1>3, <2>2, <4>3
    <3>8. QED
      BY <2>4, <3>1, <3>4, <3>5, <3>6, <3>7 DEF Blame
  <2>5. QED
    BY <2>3, <2>4
<1>7. QED
  BY <1>5, <1>6

LEMMA PassCalm ==
  ASSUME Basics, LineOK, PhaseOK, CountersOK, Recovers, toHost # <<>>, Passes(toHost[1], Tail(toHost))
  PROVE  PhaseOK' /\ CountersOK' /\ Recovers'
<1>1. ComesBack
  BY PassLine
<1> DEFINE x == toHost[1]
<1>2. x \in {BadBlock, rlast} /\ toHost = <<x>> /\ Tail(toHost) = <<>> /\ toReader = <<>>
  BY <1>1, BackFacts
<1>3. /\ session \in {"open", "eject"} /\ UNCHANGED calls
      /\ \/ pc = "recv" /\ LGoes(<<>>) /\ (HGoes(x) \/ HAnswers(x))
         \/ LEnds(<<>>) /\ ((pc = "recv" /\ HLast(x)) \/ HFails(x))
  BY <1>2 DEF Passes
<1> HIDE DEF x
<1>4. CASE session = "eject"
  <2>1. session' \in {"eject", "closed"} /\ (session' = "eject" => pc' # "idle")
    BY <1>3, <1>4 DEF LGoes, LEnds
  <2>2. QED
    BY <2>1 DEF PhaseOK, CountersOK, Recovers, GaveUp
<1>5. CASE session = "open" /\ pc = "recv" /\ LGoes(<<>>) /\ (HGoes(x) \/ HAnswers(x))
  <2>1. PhaseOK' /\ CountersOK'
    BY <1>1, <1>2, <1>3, <1>5, PassGoes
  <2>2. pc' # "idle"
    BY <1>5 DEF LGoes
  <2>3. QED
    BY <2>1, <2>2 DEF Recovers, GaveUp
<1>6. CASE session = "open" /\ LEnds(<<>>) /\ ((pc = "recv" /\ HLast(x)) \/ HFails(x))
  BY <1>1, <1>2, <1>3, <1>6, PassEnds
<1>7. QED
  BY <1>3, <1>4, <1>5, <1>6

LEMMA SubmitCalm ==
  ASSUME Basics, LineOK, PhaseOK, NEW c \in Seq(Units), NEW max \in Nat, HSubmits(c, max)
  PROVE  CountersOK' /\ Recovers'
<1>1. LinkTypes /\ damaged \in Nat
  BY DEF Basics, LinkTypes
<1>2. errcntr' = 0 /\ rerrcntr' = 0 /\ 0 <= damaged
  BY <1>1 DEF HSubmits
<1>3. CASE pc' = "recv" /\ LGoes(toHost)
  <2>1. toReader' = <<block'>> /\ toHost' = <<>> /\ damaged' = damaged
    BY <1>3, SubmitLine DEF LGoes
  <2>2. block'.type = "I" /\ block' # BadBlock
    BY <1>1, SubmitBlock, KindFacts
  <2>3. toReader'[1] = block' /\ toReader' # <<BadBlock>> /\ toHost' # <<BadBlock>>
    BY <2>1, <2>2, PairFacts
  <2>4. ~ErrorDue'
    BY <2>1, <2>2, <2>3 DEF ErrorDue, RAsks, Reports
  <2>5. QED
    BY <1>2, <1>3, <2>1, <2>3, <2>4 DEF CountersOK, Recovers, GaveUp
<1>4. CASE pc' = "idle" /\ ret' = "IO_ERROR"
  <2>1. ~TooMany(errcntr') /\ ~TooMany(rerrcntr')
    BY <1>2, LimitFacts DEF TooMany
  <2>2. QED
    BY <1>4, <2>1 DEF CountersOK, Recovers, GaveUp
<1>5. QED
  BY <1>3, <1>4 DEF HSubmits

\* The counters when the line has changed and the driver has not.
LEMMA CountersKept ==
  ASSUME CountersOK, LinkTypes, HostOK, UNCHANGED <<session, pc, errcntr, rerrcntr>>, damaged' \in Nat,
         damaged <= damaged',
         session = "open" /\ pc = "recv" => damaged' > damaged \/ (toHost' # <<BadBlock>> /\ (ErrorDue' => ErrorDue))
  PROVE  CountersOK'
<1>1. damaged \in Nat
  BY DEF LinkTypes
<1> SUFFICES ASSUME session = "open", pc = "recv"
             PROVE  /\ errcntr <= damaged' /\ (toHost' = <<BadBlock>> => errcntr < damaged')
                    /\ rerrcntr <= damaged' /\ (ErrorDue' => rerrcntr < damaged')
  BY DEF CountersOK
<1>2. errcntr \in Nat /\ rerrcntr \in Nat /\ errcntr <= damaged /\ rerrcntr <= damaged
      /\ (ErrorDue => rerrcntr < damaged)
  BY DEF CountersOK, HostOK
<1>3. QED
  BY <1>1, <1>2

LEMMA ReadCalm ==
  ASSUME Basics, LineOK, PhaseOK, CountersOK, Recovers, ShortResponses, RReads, RSteps(toReader[1])
  PROVE  PhaseOK' /\ CountersOK' /\ Recovers'
<1>1. LinkTypes /\ HostOK /\ damaged \in Nat
  BY DEF Basics, LinkTypes
<1>2. UNCHANGED <<session, pc, ret, errcntr, rerrcntr, wtxcntr, damaged, missing, nr>>
  BY HostWaits
<1>3. Recovers'
  BY <1>2 DEF Recovers, GaveUp
<1>4. CASE session = "open"
  <2>1. PhaseOK' /\ (pc = "recv" /\ Reports(rlast') => ErrorDue)
    BY <1>4, ReadPhase
  <2>2. ComesBack' /\ toReader' = <<>> /\ toHost' = <<rlast'>>
    BY <1>4, ReadLine
  <2>3. rlast' # BadBlock
    BY <2>2 DEF ComesBack
  <2>4. toHost' # <<BadBlock>> /\ toReader' # <<BadBlock>>
    BY <2>2, <2>3, PairFacts
  <2>5. ErrorDue' => Reports(rlast')
    BY <2>4 DEF ErrorDue, Reports
  <2>6. CountersOK'
    BY <1>1, <1>2, <2>1, <2>4, <2>5, CountersKept
  <2>7. QED
    BY <1>3, <2>1, <2>6
<1>5. CASE session # "open"
  BY <1>2, <1>3, <1>5 DEF PhaseOK, CountersOK
<1>6. QED
  BY <1>4, <1>5

\* A session begins in step, and a damaged block leaves the phase as it is.
LEMMA OtherCalm ==
  ASSUME Basics, LineOK, PhaseOK, CountersOK, Recovers, HostClose \/ HostOpen \/ HostOpened \/ Damage
  PROVE  PhaseOK' /\ CountersOK' /\ (missing' = 0 => Recovers')
<1>1. LinkTypes /\ HostOK /\ ReaderOK /\ damaged \in Nat
  BY DEF Basics, LinkTypes
<1>2. CASE HostClose \/ HostOpen
  <2>1. session' # "open"
    BY <1>2 DEF HostClose, HostOpen
  <2>2. Recovers'
    <3>1. CASE HostClose
      <4>1. ret \in {"OK", "BAD_PARAM", "NONE"} /\ ret' = ret
        BY <1>1, <3>1 DEF HostOK, HostClose, vars
      <4>2. QED
        BY <4>1 DEF Recovers, GaveUp
    <3>2. CASE HostOpen
      BY <3>2 DEF HostOpen, Recovers, GaveUp
    <3>3. QED
      BY <1>2, <3>1, <3>2
  <2>3. QED
    BY <2>1, <2>2 DEF PhaseOK, CountersOK
<1>3. CASE HostOpened
  <2>1. session = "opening" /\ pc = "idle" /\ UNCHANGED <<pc, ns, nr, rns, rnr, rbuf, rkeep, rlast, rnext>>
    BY <1>1, <1>3 DEF HostOpened, HostOK, LinkTypes, reader
  <2>2. ASSUME session' = "open" PROVE Between'
    <3>1. toHost # <<>> /\ Head(toHost) = Resynched
      BY <1>3, <2>2 DEF HostOpened, Resynched
    <3>2. rns = 0 /\ rnr = 0 /\ ns = 0 /\ nr = 0 /\ rbuf = <<>> /\ rkeep = BadBlock /\ rlast = BadBlock
      BY <2>1, <3>1 DEF LineOK, OpeningLine
    <3>3. rkeep.type = "BAD" /\ rlast.type = "BAD"
      BY <3>2, KindFacts
    <3>4. rnext = <<>>
      BY <1>1, <3>3 DEF ReaderOK
    <3>5. QED
      BY <2>1, <3>2, <3>3, <3>4 DEF Between, NothingKept
  <2>3. PhaseOK' /\ CountersOK'
    BY <2>1, <2>2 DEF PhaseOK, CountersOK
  <2>4. session' # "eject"
    BY <1>3 DEF HostOpened
  <2>5. QED
    BY <2>3, <2>4 DEF Recovers, GaveUp
<1>4. CASE Damage
  <2>1. /\ UNCHANGED <<vars, session, reader, calls, executed, missing>> /\ damaged' = damaged + 1
        /\ \/ toReader # <<>> /\ toReader' = <<BadBlock>> \o Tail(toReader) /\ toHost' = toHost
           \/ toHost # <<>> /\ toHost' = <<BadBlock>> \o Tail(toHost) /\ toReader' = toReader
    BY <1>4 DEF Damage
  <2>2. /\ UNCHANGED <<ns, nr, apdu, response, pc, ret, errcntr, rerrcntr, wtxcntr, lastiicc, block>>
        /\ UNCHANGED <<rns, rnr, rbuf, rlast, rkeep, rnext>>
    BY <2>1 DEF vars, link, counters, apdu, response, reader
  <2>3. damaged' \in Nat /\ damaged' > damaged /\ damaged <= damaged'
    BY <1>1, <2>1
  <2>4. CountersOK'
    BY <1>1, <2>1, <2>2, <2>3, CountersKept
  <2>5. Recovers'
    <3>1. damaged >= ErrLimit => damaged' >= ErrLimit
      BY <1>1, <2>1, LimitFacts
    <3>2. QED
      BY <2>1, <2>2, <3>1 DEF Recovers, GaveUp
  <2>6. ASSUME session = "open" PROVE PhaseOK'
    <3>1. pc # "idle" /\ (ComesBack \/ GoesOut)
      BY <2>1, <2>6 DEF LineOK
    <3>2. \/ toReader # <<>> /\ toReader' = <<BadBlock>> /\ toHost' = <<>>
          \/ toReader' = <<>> /\ toReader = <<>> /\ toHost # <<>> /\ toHost' = <<BadBlock>>
      <4>1. CASE ComesBack
        <5>1. toReader = <<>> /\ Tail(toHost) = <<>> /\ toHost # <<>>
          BY <4>1, BackFacts
        <5>2. QED
          BY <2>1, <5>1, PairFacts
      <4>2. CASE GoesOut
        <5>1. toHost = <<>> /\ Tail(toReader) = <<>> /\ toReader # <<>>
          BY <4>2, OutFacts
        <5>2. QED
          BY <2>1, <5>1, PairFacts
      <4>3. QED
        BY <3>1, <4>1, <4>2
    <3>3. /\ Sending => Sending'
          /\ Taken => Taken'
          /\ Replying => Replying'
          /\ Chained => Chained'
          /\ ReaderError' = ReaderError
      BY <2>1, <2>2, PhaseSame
    <3>4. CASE toReader # <<>> /\ toReader' = <<BadBlock>> /\ toHost' = <<>>
      <4>1. toReader' # <<>> /\ toReader'[1] = BadBlock /\ toReader'[1].type = "BAD"
        BY <3>4, PairFacts, KindFacts
      <4>2. SendingLine' /\ TakenLine' /\ ReplyingLine' /\ ChainedLine'
        BY <3>4, <4>1 DEF SendingLine, TakenLine, ReplyingLine, ChainedLine
      <4>3. pc' = "recv" => Phase'
        BY <2>2, <2>6, <3>3, <4>2 DEF PhaseOK, Phase
      <4>4. QED
        BY <2>2, <3>1, <4>1, <4>3 DEF PhaseOK
    <3>5. CASE toReader' = <<>> /\ toReader = <<>> /\ toHost # <<>> /\ toHost' = <<BadBlock>>
      <4>1. toHost' # <<>>
        BY <3>5, PairFacts
      <4>2. TakenLine' /\ ReplyingLine' /\ (SendingLine => SendingLine') /\ (ChainedLine => ChainedLine')
        BY <2>2, <3>3, <3>5, <4>1 DEF SendingLine, TakenLine, ReplyingLine, ChainedLine, IsError
      <4>3. pc' = "recv" => Phase'
        BY <2>2, <2>6, <3>3, <4>2 DEF PhaseOK, Phase
      <4>4. QED
        BY <2>2, <3>1, <3>5, <4>3 DEF PhaseOK
    <3>6. QED
      BY <3>2, <3>4, <3>5
  <2>7. session # "open" => PhaseOK'
    BY <2>1 DEF PhaseOK
  <2>8. QED
    BY <2>4, <2>5, <2>6, <2>7
<1>5. QED
  BY <1>2, <1>3, <1>4

LEMMA StillCalm ==
  ASSUME PhaseOK, CountersOK, Recovers, UNCHANGED linkVars
  PROVE  PhaseOK' /\ CountersOK' /\ Recovers'
<1>1. /\ UNCHANGED <<vars, session, reader, calls, executed, missing, damaged, toReader, toHost>>
  BY DEF linkVars
<1>2. /\ UNCHANGED <<ns, nr, apdu, response, pc, ret, errcntr, rerrcntr, wtxcntr, lastiicc, block>>
      /\ UNCHANGED <<rns, rnr, rbuf, rlast, rkeep, rnext>>
  BY <1>1 DEF vars, link, counters, apdu, response, reader
<1>3. Recovers' /\ CountersOK'
  <2>1. ErrorDue' = ErrorDue
    BY <1>1, <1>2 DEF ErrorDue, Reports, RAsks
  <2>2. QED
    BY <1>1, <1>2, <2>1 DEF Recovers, GaveUp, CountersOK
<1>4. /\ Sending => Sending'
      /\ Taken => Taken'
      /\ Replying => Replying'
      /\ Chained => Chained'
      /\ ReaderError' = ReaderError
  BY <1>1, <1>2, PhaseSame
<1>5. /\ SendingLine => SendingLine'
      /\ TakenLine => TakenLine'
      /\ ReplyingLine => ReplyingLine'
      /\ ChainedLine => ChainedLine'
  BY <1>1, <1>2, <1>4 DEF SendingLine, TakenLine, ReplyingLine, ChainedLine, IsError, RAsks, Reports
<1>6. Phase => Phase'
  BY <1>4, <1>5 DEF Phase
<1>7. Between => Between'
  BY <1>2 DEF Between, NothingKept
<1>8. PhaseOK'
  BY <1>1, <1>2, <1>6, <1>7 DEF PhaseOK
<1>9. QED
  BY <1>3, <1>8

-----------------------------------------------------------------------------
\* Once a block is missing it stays so.
LEMMA MissingGrows ==
  ASSUME Basics, [LinkNext]_linkVars, missing' = 0
  PROVE  missing = 0
<1>1. missing \in Nat
  BY LinkAssumption DEF Basics, LinkTypes
<1>2. missing' \in {missing, missing + 1}
  BY DEF LinkNext, HostSend, HostClose, HostEject, HostReceive, HostTimeout, HostOpen, HostOpened, ReaderStep,
         Damage, Lose, Done, linkVars
<1>3. QED
  BY <1>1, <1>2

Calm == LineOK /\ PhaseOK /\ CountersOK /\ Recovers

LEMMA CalmStep ==
  ASSUME ShortResponses, Basics, missing = 0 => Calm, [LinkNext]_linkVars, missing' = 0
  PROVE  Calm'
<1>1. missing = 0
  BY MissingGrows
<1>2. LineOK /\ PhaseOK /\ CountersOK /\ Recovers
  BY <1>1 DEF Calm
<1>3. CalmMoves /\ UNCHANGED device
  BY <1>1, <1>2, CalmMoving
<1>4. LineOK'
  BY <1>1, <1>2, <1>3, LineStep
<1>5. CASE \E c \in Seq(Units), max \in Nat : HSubmits(c, max)
  BY <1>2, <1>4, <1>5, SubmitPhase, SubmitCalm DEF Calm
<1>6. CASE toHost # <<>> /\ Passes(toHost[1], Tail(toHost))
  BY <1>2, <1>4, <1>6, PassCalm DEF Calm
<1>7. CASE RReads /\ RSteps(toReader[1])
  BY <1>2, <1>4, <1>7, ReadCalm DEF Calm
<1>8. CASE HostClose \/ HostOpen \/ HostOpened \/ Damage
  BY <1>2, <1>4, <1>8, OtherCalm DEF Calm
<1>9. CASE UNCHANGED linkVars
  BY <1>2, <1>4, <1>9, StillCalm DEF Calm
<1>10. QED
  BY <1>3, <1>5, <1>6, <1>7, <1>8, <1>9 DEF CalmMoves

LEMMA CalmInitially == LinkInit => Calm
<1> SUFFICES ASSUME LinkInit PROVE Calm
  OBVIOUS
<1>1. session = "closed" /\ pc = "idle" /\ toReader = <<>> /\ toHost = <<>>
  BY DEF LinkInit, Init
<1>2. QED
  BY <1>1 DEF Calm, LineOK, PhaseOK, CountersOK, Recovers, GaveUp

LinkInv == Basics /\ (missing = 0 => Calm)

LEMMA LinkInvariant == ASSUME ShortResponses PROVE LinkSpec => []LinkInv
<1>1. LinkInit => LinkInv
  BY LinkInitially, CalmInitially DEF LinkInv
<1>2. LinkInv /\ [LinkNext]_linkVars => LinkInv'
  <2> SUFFICES ASSUME LinkInv, [LinkNext]_linkVars PROVE LinkInv'
    OBVIOUS
  <2>1. Basics /\ (missing = 0 => Calm)
    BY DEF LinkInv
  <2>2. Basics'
    BY <2>1, BasicsKept
  <2>3. missing' = 0 => Calm'
    BY <2>1, CalmStep
  <2>4. QED
    BY <2>2, <2>3 DEF LinkInv
<1>3. QED
  BY <1>1, <1>2, PTL DEF LinkSpec

\* The repetitions of the T=1 protocol absorb damaged blocks (the counters of
\* cjT1SendCmd): unless a block was missing, a call that is given up on has
\* seen at least ErrLimit damaged ones.
THEOREM LinkRecovers == ASSUME ShortResponses PROVE LinkSpec => []Recovers
<1>1. LinkInv => Recovers
  <2> SUFFICES ASSUME LinkInv PROVE Recovers
    OBVIOUS
  <2>1. CASE missing = 0
    BY <2>1 DEF LinkInv, Calm
  <2>2. CASE missing # 0
    <3>1. missing \in Nat
      BY LinkAssumption DEF LinkInv, Basics, LinkTypes
    <3>2. missing > 0
      BY <2>2, <3>1
    <3>3. QED
      BY <3>2 DEF Recovers
  <2>3. QED
    BY <2>1, <2>2
<1>2. QED
  BY <1>1, LinkInvariant, PTL

\* After every call that ends in an open session, whatever was damaged and
\* repeated on the way, the driver and the reader agree on the number of the
\* next I-block in either direction (t1->ns and t1->nr of cjt1.c).
THEOREM LinkInStep == ASSUME ShortResponses PROVE LinkSpec => [](missing = 0 => InStep)
<1>1. LinkInv => (missing = 0 => InStep)
  BY DEF LinkInv, Calm, PhaseOK, Between, InStep
<1>2. QED
  BY <1>1, LinkInvariant, PTL

-----------------------------------------------------------------------------
(* The exchange implements what CT_data promises (module ApduExchange).    *)

Returned ==
  IF session \in {"open", "eject"} /\ pc = "idle" /\ ret = "OK" THEN rsp ELSE <<>>

LEMMA Extended ==
  ASSUME NEW S, NEW s \in Seq(S), NEW e \in S
  PROVE  Exchange!Extends(Append(s, e), s)
<1> DEFINE t == Append(s, e)
           u == SubSeq(t, 1, Len(s))
<1>1. t \in Seq(S) /\ Len(t) = Len(s) + 1 /\ Len(s) \in Nat /\ \A i \in 1 .. Len(s) : t[i] = s[i]
  OBVIOUS
<1> HIDE DEF t
<1>2. u \in Seq(S) /\ Len(u) = Len(s) /\ \A i \in 1 .. Len(s) : u[i] = t[i]
  BY <1>1
<1> HIDE DEF u
<1>3. u = s
  BY <1>1, <1>2, SeqEqual
<1>4. QED
  BY <1>1, <1>3 DEF Exchange!Extends, t, u

\* A step that neither the application nor the card can see.
LEMMA Unseen ==
  ASSUME (session' = "open") <=> (session = "open"), (pc' = "idle") <=> (pc = "idle"),
         UNCHANGED <<calls, executed>>, Returned' = Returned
  PROVE  UNCHANGED Exchange!vars
<1>1. (session' = "open") = (session = "open") /\ (pc' # "idle") = (pc # "idle")
  OBVIOUS
<1>2. QED
  BY <1>1 DEF Exchange!vars, Returned

LEMMA SubmitRefines ==
  ASSUME Basics, NEW c \in Seq(Units), NEW max \in Nat, HSubmits(c, max)
  PROVE  Exchange!Next
<1>1. calls \in Seq(Seq(Units)) /\ calls' = Append(calls, c) /\ pc = "idle"
  BY DEF Basics, LinkTypes, HSubmits
<1>2. Exchange!Extends(calls', calls)
  <2> DEFINE S == Seq(Units)
  <2>1. calls \in Seq(S) /\ c \in S
    BY <1>1
  <2> HIDE DEF S
  <2>2. Exchange!Extends(Append(calls, c), calls)
    BY <2>1, Extended
  <2>3. QED
    BY <1>1, <2>2
<1>3. CASE pc' = "recv" /\ LGoes(toHost)
  <2>1. session' = session /\ executed' = executed
    BY <1>3 DEF LGoes
  <2>2. Exchange!Submit
    BY <1>1, <1>2, <1>3, <2>1 DEF Exchange!Submit
  <2>3. QED
    BY <2>2 DEF Exchange!Next
<1>4. CASE pc' = "idle" /\ ret' = "IO_ERROR" /\ LEnds(toHost)
  <2>1. session' # "open" /\ executed' = executed
    BY <1>4 DEF LEnds
  <2>2. Exchange!SubmitFails
    BY <1>1, <1>2, <1>4, <2>1 DEF Exchange!SubmitFails
  <2>3. QED
    BY <2>2 DEF Exchange!Next
<1>5. QED
  BY <1>3, <1>4 DEF HSubmits

LEMMA PassRefines ==
  ASSUME Basics, LineOK, PhaseOK, toHost # <<>>, Passes(toHost[1], Tail(toHost))
  PROVE  Exchange!Next \/ UNCHANGED Exchange!vars
<1>1. ComesBack
  BY PassLine
<1> DEFINE x == toHost[1]
<1>2. x \in {BadBlock, rlast} /\ toHost = <<x>> /\ Tail(toHost) = <<>> /\ toReader = <<>>
  BY <1>1, BackFacts
<1>3. /\ session \in {"open", "eject"} /\ UNCHANGED calls /\ pc # "idle"
      /\ \/ pc = "recv" /\ LGoes(<<>>) /\ (HGoes(x) \/ HAnswers(x))
         \/ LEnds(<<>>) /\ ((pc = "recv" /\ HLast(x)) \/ HFails(x))
  BY <1>2 DEF Passes
<1> HIDE DEF x
<1>4. CASE LGoes(<<>>)
  <2>1. pc' # "idle" /\ session' = session /\ executed' = executed
    BY <1>4 DEF LGoes
  <2>2. Returned = <<>> /\ Returned' = <<>>
    BY <1>3, <2>1 DEF Returned
  <2>3. QED
    BY <1>3, <2>1, <2>2, Unseen
<1>5. ASSUME LEnds(<<>>), session' = "closed" \/ ret' # "OK" PROVE Exchange!Next
  <2>1. pc' = "idle" /\ executed' = executed /\ (session' = "open" => session = "open")
    BY <1>5 DEF LEnds
  <2>2. Exchange!Fail
    BY <1>3, <1>5, <2>1 DEF Exchange!Fail
  <2>3. QED
    BY <2>2 DEF Exchange!Next
<1>6. CASE LEnds(<<>>) /\ session = "open" /\ pc = "recv" /\ HLast(x) /\ ret' = "OK"
  <2>1. x.type = "I" /\ rsplen' <= maxRspLen
    BY <1>6 DEF HLast, HReads
  <2>2. Phase
    BY <1>6 DEF PhaseOK
  <2>3. Replying /\ rnext = <<>> /\ rkeep = x /\ x = ReaderIBlock(nr, rout)
    BY <1>1, <1>2, <1>6, <2>1, <2>2, PhaseTells
  <2>4. x = rlast
    BY <1>2, <2>1, KindFacts
  <2>5. /\ UNCHANGED <<reader, executed>> /\ pc' = "idle" /\ session' = "open"
    BY <1>6 DEF LEnds
  <2>6. rsp' = Response
    BY <1>3, <1>6, <2>1, <2>3, <2>4, <2>5, LastRead
  <2>7. executed # <<>> /\ executed[Len(executed)].cmd = cmd
    BY <2>3 DEF Replying, Answered
  <2>8. cmd = calls[Len(calls)]
    BY <1>3, CallFacts DEF Basics, Call
  <2>9. Len(executed) \in 1 .. Len(executed)
    BY <2>7 DEF Basics, LinkTypes
  <2>10. \E i \in 1 .. Len(executed) : executed[i].cmd = calls[Len(calls)] /\ rsp' = executed[i].rsp
    BY <2>6, <2>7, <2>8, <2>9 DEF Response
  <2>11. Exchange!Succeed
    BY <1>3, <1>6, <2>5, <2>10 DEF Exchange!Succeed
  <2>12. QED
    BY <2>11 DEF Exchange!Next
<1>7. CASE LEnds(<<>>) /\ ((pc = "recv" /\ HLast(x)) \/ HFails(x))
  <2>1. CASE session = "eject"
    BY <1>5, <1>7, <2>1 DEF LEnds
  <2>2. CASE session = "open" /\ ret' # "OK"
    BY <1>5, <1>7, <2>2
  <2>3. CASE session = "open" /\ ret' = "OK"
    <3>1. ~HFails(x)
      BY <2>3 DEF HFails
    <3>2. QED
      BY <1>6, <1>7, <2>3, <3>1
  <2>4. QED
    BY <1>3, <2>1, <2>2, <2>3
<1>8. QED
  BY <1>3, <1>4, <1>7

\* In an open session the reader executes only the command of the call.
LEMMA ExecutesCall ==
  ASSUME Basics, LineOK, PhaseOK, session = "open", RReads, NEW r \in Seq(Units), RExecutes(toReader[1], r)
  PROVE  executed'[Len(executed')].cmd = calls[Len(calls)] /\ calls # <<>>
<1>1. LinkTypes /\ HostOK
  BY DEF Basics
<1> DEFINE b == toReader[1]
<1>2. b \in LinkI /\ b.n = rnr /\ toReader # <<>>
  BY DEF RExecutes, RReads
<1>3. b.type = "I"
  BY <1>2, KindFacts
<1>4. pc # "idle" /\ (ComesBack \/ GoesOut)
  BY <1>2 DEF LineOK
<1>5. pc = "recv"
  BY <1>1, <1>2, <1>3, <1>4 DEF PhaseOK, LinkTypes
<1>6. Phase
  BY <1>5 DEF PhaseOK
<1>7. toHost = <<>>
  BY <1>2, <1>4, BackFacts, OutFacts
<1>8. ~Reports(b) /\ b # BadBlock /\ b # Wants(0)
  BY <1>3, KindFacts DEF Reports, Wants
<1>9. ~lastiicc => block.n = ns
  BY <1>1, <1>5 DEF HostOK
<1>10. ~(Taken /\ TakenLine)
  BY <1>2, <1>3, <1>8, <1>9 DEF Taken, TakenLine, RAsks
<1>11. ~(Replying /\ ReplyingLine)
  <2> SUFFICES ASSUME Replying, ReplyingLine PROVE FALSE
    OBVIOUS
  <2>1. b = block /\ ~lastiicc
    BY <1>2, <1>3, <1>8 DEF ReplyingLine, RAsks
  <2>2. ns # rnr
    BY <2>1 DEF Replying
  <2>3. QED
    BY <1>2, <1>9, <2>1, <2>2
<1>12. ~(Chained /\ ChainedLine)
  BY <1>2, <1>8 DEF ChainedLine, RAsks
<1>13. Sending /\ b = block
  BY <1>2, <1>6, <1>7, <1>8, <1>10, <1>11, <1>12 DEF Phase, SendingLine, RAsks
<1>14. Replying'
  BY <1>5, <1>13, CommandExecuted
<1>15. executed'[Len(executed')].cmd = cmd'
  BY <1>14 DEF Replying, Answered
<1>16. cmd' = cmd /\ cmd = calls[Len(calls)] /\ calls # <<>>
  BY <1>1, <1>4, CallFacts, HostWaits DEF Call
<1>17. QED
  BY <1>15, <1>16

LEMMA ReadRefines ==
  ASSUME Basics, LineOK, PhaseOK, OrderOK', Basics', RReads, RSteps(toReader[1])
  PROVE  Exchange!Next \/ UNCHANGED Exchange!vars
<1>1. UNCHANGED <<session, pc, ret, rsp, calls>>
  BY HostWaits
<1>2. Returned' = Returned
  BY <1>1 DEF Returned
<1>3. CASE executed' = executed
  BY <1>1, <1>2, <1>3, Unseen
<1>4. CASE \E r \in Seq(Units) : RExecutes(toReader[1], r)
  <2>1. PICK r \in Seq(Units) : RExecutes(toReader[1], r)
    BY <1>4
  <2> DEFINE E == [cmd : Seq(Units), rsp : Seq(Units)]
             e == [cmd |-> rbuf \o toReader[1].data, rsp |-> r]
  <2>2. executed \in Seq(E) /\ executed' = Append(executed, e) /\ e \in E /\ executed' \in Seq(E)
    <3>1. executed \in Seq(E) /\ executed' \in Seq(E) /\ rbuf \in Seq(Units)
      BY DEF Basics, LinkTypes
    <3>2. toReader[1].data \in Seq(Units) /\ executed' = Append(executed, e)
      BY <2>1, KindFacts DEF RExecutes
    <3>3. rbuf \o toReader[1].data \in Seq(Units)
      BY <3>1, <3>2
    <3>4. QED
      BY <2>1, <3>1, <3>2, <3>3
  <2>2a. \A d \in E : d.cmd \in Seq(Units)
    OBVIOUS
  <2> HIDE DEF e, E
  <2>3. /\ Len(executed') = Len(executed) + 1 /\ Len(executed) \in Nat /\ executed'[Len(executed) + 1] = e
        /\ \A i \in 1 .. Len(executed) : executed'[i] = executed[i]
    BY <2>2
  <2>4. Exchange!Extends(executed', executed)
    BY <2>2, Extended
  <2>5. ASSUME NEW i \in 1 .. Len(executed) PROVE executed[i].cmd # e.cmd
    <3>1. i \in 1 .. Len(executed') /\ Len(executed) + 1 \in 1 .. Len(executed') /\ i < Len(executed) + 1
      BY <2>3
    <3>2. /\ Before(Last(executed'[i].cmd), Last(executed'[Len(executed) + 1].cmd))
          /\ executed'[i].cmd # <<>>
      BY <3>1 DEF OrderOK, TakenOK
    <3>3. Before(Last(executed[i].cmd), Last(e.cmd)) /\ executed[i].cmd # <<>>
      BY <2>3, <3>2
    <3>3a. executed[i] \in E
      BY <2>2
    <3>4. executed[i].cmd \in Seq(Units)
      BY <2>2a, <3>3a
    <3>5. Last(executed[i].cmd) \in Units
      BY <3>3, <3>4, LastFacts
    <3>6. QED
      BY <3>3, <3>5, BeforeFacts
  <2>6. ASSUME session = "open" PROVE \E k \in 1 .. Len(calls) : e.cmd = calls[k]
    <3>1. e.cmd = calls[Len(calls)] /\ calls # <<>>
      BY <2>1, <2>3, <2>6, ExecutesCall
    <3>2. Len(calls) \in 1 .. Len(calls)
      BY <3>1 DEF Basics, LinkTypes
    <3>3. QED
      BY <3>1, <3>2
  <2>7. Exchange!Execute
    <3>1. (session' = "open") = (session = "open") /\ (pc' # "idle") = (pc # "idle")
      BY <1>1
    <3>2. QED
      BY <1>1, <1>2, <2>3, <2>4, <2>5, <2>6, <3>1 DEF Exchange!Execute, Returned
  <2>8. QED
    BY <2>7 DEF Exchange!Next
<1>5. QED
  BY <1>3, <1>4 DEF RSteps, ROnBad, ROnOld, RTakes, RGoesOn, ROnR, RResets, RResumes, RIgnores, REchoes

LEMMA OtherRefines ==
  ASSUME Basics, HostClose \/ HostOpen \/ HostOpened \/ Damage \/ UNCHANGED linkVars
  PROVE  Exchange!Next \/ UNCHANGED Exchange!vars
<1>1. HostOK /\ LinkTypes
  BY DEF Basics
<1>2. UNCHANGED <<pc, rsp, calls, executed>>
  BY DEF HostClose, HostOpen, HostOpened, Damage, linkVars, vars, response
<1>3. ASSUME pc = "idle", (session' = "open") <=> ~(session = "open"), Returned' = Returned
      PROVE  Exchange!Next
  <2>1. (session' = "open") = ~(session = "open") /\ (pc' # "idle") = (pc # "idle")
    BY <1>2, <1>3
  <2>2. Exchange!OpenOrClose
    BY <1>2, <1>3, <2>1 DEF Exchange!OpenOrClose, Returned
  <2>3. QED
    BY <2>2 DEF Exchange!Next
<1>4. CASE HostClose
  <2>1. session = "open" /\ session' = "eject" /\ pc = "idle" /\ ret' = ret
    BY <1>4 DEF HostClose, vars
  <2>2. Returned' = Returned
    BY <1>2, <2>1 DEF Returned
  <2>3. QED
    BY <1>3, <2>1, <2>2
<1>5. CASE HostOpen
  <2>1. session = "closed" /\ session' = "opening"
    BY <1>5 DEF HostOpen
  <2>2. Returned = <<>> /\ Returned' = <<>>
    BY <2>1 DEF Returned
  <2>3. QED
    BY <1>2, <2>1, <2>2, Unseen
<1>6. CASE HostOpened
  <2>1. session = "opening" /\ ret' = "NONE" /\ session' \in {"open", "closed", "leaked"}
    BY <1>6 DEF HostOpened
  <2>2. pc = "idle"
    BY <1>1, <2>1 DEF HostOK, LinkTypes
  <2>3. Returned = <<>> /\ Returned' = <<>>
    BY <2>1 DEF Returned
  <2>4. CASE session' = "open"
    BY <1>3, <2>1, <2>2, <2>3, <2>4
  <2>5. CASE session' # "open"
    BY <1>2, <2>1, <2>3, <2>5, Unseen
  <2>6. QED
    BY <2>4, <2>5
<1>7. CASE Damage \/ UNCHANGED linkVars
  <2>1. UNCHANGED <<session, ret>>
    BY <1>7 DEF Damage, linkVars, vars
  <2>2. Returned' = Returned
    BY <1>2, <2>1 DEF Returned
  <2>3. QED
    BY <1>2, <2>1, <2>2, Unseen
<1>8. QED
  BY <1>4, <1>5, <1>6, <1>7

\* As long as no block is missing, the exchange over T=1 implements
\* ApduExchange: every command is executed at most once and as the application
\* wrote it, and a call that succeeds returns the response of its own execution,
\* whatever the line damages and however the reader interposes requests.
THEOREM LinkRefines == ASSUME ShortResponses PROVE LinkSpec /\ [](missing = 0) => ExchangeSpec
<1>1. LinkInit => Exchange!Init
  BY DEF LinkInit, Init, Exchange!Init
<1>2. ASSUME LinkInv, OrderOK, [LinkNext]_linkVars, LinkInv', OrderOK', missing = 0, missing' = 0
      PROVE  Exchange!Next \/ UNCHANGED Exchange!vars
  <2>1. Basics /\ LineOK /\ PhaseOK /\ Basics'
    BY <1>2 DEF LinkInv, Calm
  <2>2. CalmMoves
    BY <1>2, <2>1, CalmMoving
  <2>3. CASE \E c \in Seq(Units), max \in Nat : HSubmits(c, max)
    BY <2>1, <2>3, SubmitRefines
  <2>4. CASE toHost # <<>> /\ Passes(toHost[1], Tail(toHost))
    BY <2>1, <2>4, PassRefines
  <2>5. CASE RReads /\ RSteps(toReader[1])
    BY <1>2, <2>1, <2>5, ReadRefines
  <2>6. CASE HostClose \/ HostOpen \/ HostOpened \/ Damage \/ UNCHANGED linkVars
    BY <2>1, <2>6, OtherRefines
  <2>7. QED
    BY <2>2, <2>3, <2>4, <2>5, <2>6 DEF CalmMoves
<1>3. LinkInv /\ LinkInv' /\ OrderOK /\ OrderOK' /\ missing = 0 /\ (missing = 0)' /\ [LinkNext]_linkVars
        => [Exchange!Next]_(Exchange!vars)
  BY <1>2
<1>4. LinkSpec => []LinkInv
  BY LinkInvariant
<1>5. LinkSpec => []OrderOK
  <2>1. Basics /\ OrderOK /\ [LinkNext]_linkVars => (Basics /\ OrderOK)'
    BY BasicsKept, OrderStep
  <2>2. QED
    BY <2>1, LinkInitially, PTL DEF LinkSpec
<1>6. LinkSpec /\ [](missing = 0) => Exchange!Spec
  BY <1>1, <1>3, <1>4, <1>5, PTL DEF LinkSpec, Exchange!Spec
<1>7. QED
  BY <1>6 DEF ExchangeSpec
=============================================================================
