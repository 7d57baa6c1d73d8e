------------------------------- MODULE T1Link -------------------------------
(***************************************************************************)
(* cjT1SendCmd over a faulty line to a T=1 reader, one session after the   *)
(* other: cjIoOpen, any number of commands, and cjecom_CT_close, which the *)
(* application asks for or CT_internal when a command failed.              *)
(*                                                                         *)
(* The reader is not part of the repository.  It is modelled from what the *)
(* driver expects: half duplex, repeats its last block when asked to,      *)
(* takes an R-block with a zero low nibble as the acknowledgement of its   *)
(* last I-block whatever N(R) is, and uses N(R) of the other R-blocks.     *)
(***************************************************************************)
EXTENDS T1

CONSTANTS
  CmdLens, RspLens,  \* lengths of commands and responses
  ReaderIfs,         \* information field size the reader uses
  Requests,          \* S-block requests the reader may interpose
  Devices,           \* how the reader is attached: "kernel", "libusb" or both
  MaxCalls,          \* bound: calls of cjT1SendCmd
  MaxDamaged,        \* bound: blocks damaged on the line, and failed writes
  MaxMissing,        \* bound: blocks lost, or that come after the host's timeout
  MaxRequests,       \* bound: requests the reader interposes
  MaxIncidents       \* bound: missing blocks and requests together

ASSUME LinkAssumption ==
  /\ CmdLens \subseteq Nat \ {0} /\ RspLens \subseteq Nat \ {0, 1}
  /\ \A q \in Requests :
       /\ q \in SBlocks /\ q.dir = "request"
       /\ q.cmd \in {"IFS", "ABORT", "WTX", "WTX0", "KEY", "CARD"}
       /\ q.cmd = "IFS" => q.param > 0
  /\ ReaderIfs \in Nat \ {0}
  /\ Devices \subseteq {"kernel", "libusb"}
  /\ MaxCalls \in Nat /\ MaxDamaged \in Nat /\ MaxMissing \in Nat
  /\ MaxRequests \in Nat /\ MaxIncidents \in Nat

VARIABLES
  device,            \* the device of this run, chosen once
  session,           \* "closed", "opening", "open", "eject" (closing) or
                     \* "leaked" (interface still claimed, no way to reopen)
  toReader, toHost,  \* blocks on the line
  rns, rnr,          \* the reader's sequence numbers
  rbuf,              \* command bytes the reader has
  rout,              \* response bytes not yet acknowledged
  rlast,             \* the last block the reader sent
  rkeep,             \* the last one that was not an error report
  rnext,             \* the block an interposed request holds back, if any
  calls, executed,   \* commands submitted; what the reader executed
  damaged, missing, requests

reader == <<rns, rnr, rbuf, rout, rlast, rkeep, rnext>>
linkVars == <<vars, device, session, toReader, toHost, reader, calls, executed, damaged, missing, requests>>

\* libusb neither drains the line before a write, nor sees a write fail, nor
\* ends a read before something arrives.
Kernel == device = "kernel"

BadBlock == [type |-> "BAD"]

\* E2 C1 00: sent around a session, and nobody waits for an answer to it.
Detach == [type |-> "S", dir |-> "request", cmd |-> "IFS", param |-> 0]

\* Byte i of the k-th command and of the e-th response: all distinct.
CommandBytes(k, n) == [i \in 1 .. n |-> <<k, i>>]
ResponseBytes(e, n) == [i \in 1 .. n |-> <<-e, i>>]

LinkInit ==
  /\ Init
  /\ device \in Devices
  /\ session = "closed" /\ toReader = <<>> /\ toHost = <<>>
  /\ rns = 0 /\ rnr = 0 /\ rbuf = <<>> /\ rout = <<>>
  /\ rlast = BadBlock /\ rkeep = BadBlock /\ rnext = <<>>
  /\ calls = <<>> /\ executed = <<>> /\ damaged = 0 /\ missing = 0 /\ requests = 0

-----------------------------------------------------------------------------
(* The host.                                                               *)

AfterSendUnflushed(rest) == rest

\* What is left to read once the driver has sent its blocks.
AfterSend(rest) == IF Kernel /\ tx' # <<>> THEN <<>> ELSE rest

\* A cjIoSendBlock that failed, told from giving up by the counters.
WriteFailed ==
  /\ pc' = "idle" /\ ret' = "IO_ERROR"
  /\ ~TooMany(errcntr') /\ ~TooMany(rerrcntr')

AfterCallIgnored ==
  IF pc' = "idle" /\ session = "eject" THEN "closed" ELSE session

\* What CT_internal makes of a call's result: a failed one ends the session.
AfterCall ==
  IF pc' # "idle" THEN session
  ELSE IF session = "eject" THEN "closed"
  ELSE IF ret' \in {"OK", "BAD_PARAM"} THEN session
  ELSE "eject"

\* One driver step that leaves `rest` on the line: its blocks go out.  After
\* EJECT ICC cjIoClose sends Detach; libusb also resets the device.
HostStep(rest) ==
  /\ session' = AfterCall
  /\ IF session' # "closed"
     THEN toReader' = toReader \o tx' /\ toHost' = AfterSend(rest)
     ELSE toReader' = (IF Kernel THEN Append(toReader, Detach) ELSE <<>>) /\ toHost' = <<>>
  /\ WriteFailed => Kernel
  /\ damaged' = IF WriteFailed THEN damaged + 1 ELSE damaged
  /\ damaged' <= MaxDamaged
  /\ UNCHANGED <<reader, executed, requests>>

\* cjecom_CT_data; the RESET CT of cjecom_CT_initCommon is the first call of
\* a session.
HostSend ==
  /\ session = "open" /\ Len(calls) < MaxCalls
  /\ \E n \in CmdLens, max \in MaxRspLens :
       LET c == CommandBytes(Len(calls) + 1, n)
       IN  SendCmd(c, max) /\ calls' = Append(calls, c)
  /\ HostStep(toHost)
  /\ UNCHANGED missing

\* CT_close of an open reader.
HostClose ==
  /\ session = "open" /\ pc = "idle"
  /\ session' = "eject"
  /\ UNCHANGED <<vars, toReader, toHost, reader, calls, executed, damaged, missing, requests>>

\* cjecom_CT_close: EJECT ICC is a command like any other, its result ignored.
HostEject ==
  /\ session = "eject"
  /\ LET c == CommandBytes(Len(calls) + 1, 1)
     IN  SendCmd(c, 2) /\ calls' = Append(calls, c)
  /\ HostStep(toHost)
  /\ UNCHANGED missing

HostReceive ==
  /\ session \in {"open", "eject"} /\ toHost # <<>>
  /\ \/ Head(toHost) = BadBlock /\ (RecvBad("edc") \/ RecvBad("other"))
     \/ Head(toHost) # BadBlock /\ RecvBlock(Head(toHost))
     \/ RecvAfterAbort /\ ret' = "UNDEF_ERROR"
  /\ HostStep(Tail(toHost))
  /\ UNCHANGED <<calls, missing>>

\* cjIoReceiveBlock timed out: nothing will come, or the answer is late.
HostTimeout ==
  /\ Kernel
  /\ session \in {"open", "eject"} /\ toHost = <<>>
  /\ \/ RecvBad("other")
     \/ RecvAfterAbort /\ ret' = "TIMEOUT"
  /\ missing' = IF toReader = <<>> THEN missing ELSE missing + 1
  /\ missing' <= MaxMissing /\ missing' + requests <= MaxIncidents
  /\ HostStep(<<>>)
  /\ UNCHANGED calls

\* cjIoOpen: reset the link, pause, flush, send Detach and S(RESYNCH) ...
HostOpen ==
  /\ session = "closed" /\ Len(calls) < MaxCalls
  /\ session' = "opening"
  /\ ns' = 0 /\ nr' = 0 /\ ifsc' = IfscInit /\ wtx' = 0
  /\ tx' = <<Detach, cjT1SBlock("RESYNCH", "request", 0)>>
  /\ toReader' = toReader \o tx'
  /\ toHost' = AfterSend(toHost)
  /\ missing' = IF toReader = <<>> THEN missing ELSE missing + 1
  /\ missing' <= MaxMissing /\ missing' + requests <= MaxIncidents
  /\ UNCHANGED <<pc, ret, apdu, counters, response, reader, calls, executed,
                 damaged, requests>>

\* ... and compare the one block received with its response.  If it is not,
\* the device stays open: libusb will not let it be claimed again.
HostOpened ==
  /\ session = "opening"
  /\ wtx' = 0 /\ tx' = <<>> /\ ret' = "NONE"
  /\ \/ /\ toHost # <<>>
        /\ session' = IF Head(toHost) = cjT1SBlock("RESYNCH", "response", 0) THEN "open"
                      ELSE IF Kernel THEN "closed" ELSE "leaked"
        /\ toHost' = Tail(toHost)
     \/ /\ Kernel /\ toHost = <<>> /\ toReader = <<>>
        /\ session' = "closed"
        /\ UNCHANGED toHost
  /\ UNCHANGED <<ns, nr, ifsc, pc, apdu, counters, response, toReader, reader, calls, executed,
                 damaged, missing, requests>>

-----------------------------------------------------------------------------
(* The reader.                                                             *)

\* The I-block at the front of `out`, numbered n.
ReaderIBlock(n, out) ==
  LET len == MinOf(Len(out), ReaderIfs)
  IN  cjT1IBlock(n, len < Len(out), SubSeq(out, 1, len))

Reply(b) == toHost' = Append(toHost, b) /\ rlast' = b

\* Send b, or interpose a request first and hold b back.
ReplyOrAsk(b) ==
  \/ Reply(b) /\ rkeep' = b /\ rnext' = <<>> /\ UNCHANGED requests
  \/ \E q \in Requests :
       /\ requests < MaxRequests /\ missing + requests < MaxIncidents
       /\ requests' = requests + 1
       /\ Reply(q) /\ rkeep' = q /\ rnext' = <<b>>

ReaderError == [type |-> "R", n |-> rnr, err |-> "edc"]

\* A damaged block: repeat a request that waits for its answer, else R(EDC).
ReaderBad(b) ==
  /\ b = BadBlock \/ (b.type = "I" /\ ~b.rc)
  /\ Reply(IF rlast # BadBlock /\ rlast.type = "S" THEN rlast
           ELSE ReaderError)
  /\ UNCHANGED <<rns, rnr, rbuf, rout, rkeep, rnext, executed, requests>>

ReaderI(b) ==
  /\ b.type = "I" /\ b.rc
  /\ \/ /\ b.n # rnr
        /\ Reply(IF rkeep # BadBlock THEN rkeep ELSE ReaderError)
        /\ UNCHANGED <<rns, rnr, rbuf, rout, rkeep, rnext, executed, requests>>
     \/ /\ b.n = rnr /\ b.more
        /\ rnr' = Flip(rnr) /\ rbuf' = rbuf \o b.data
        /\ ReplyOrAsk([type |-> "R", n |-> rnr', err |-> "ok"])
        /\ UNCHANGED <<rns, rout, executed>>
     \/ /\ b.n = rnr /\ ~b.more
        /\ rnr' = Flip(rnr) /\ rbuf' = <<>>
        /\ \E n \in RspLens :
             LET r == ResponseBytes(Len(executed) + 1, n)
             IN  /\ executed' = Append(executed, [cmd |-> rbuf \o b.data, rsp |-> r])
                 /\ rout' = r
                 /\ ReplyOrAsk(ReaderIBlock(rns, r))
        /\ rns' = Flip(rns)

\* R-block b acknowledges the I-block rkeep.
Acknowledges(b) ==
  /\ rkeep # BadBlock /\ rkeep.type = "I"
  /\ IF b.err = "ok" THEN rkeep.more ELSE b.n # rkeep.n

\* Go on with the next I-block, ask for a missing command, or repeat.
ReaderR(b) ==
  /\ b.type = "R"
  /\ \/ /\ Acknowledges(b) /\ rkeep.more
        /\ rns' = Flip(rns)
        /\ rout' = SubSeq(rout, Len(rkeep.data) + 1, Len(rout))
        /\ ReplyOrAsk(ReaderIBlock(rns, rout'))
     \/ /\ ~(Acknowledges(b) /\ rkeep.more)
        /\ LET again == IF b.err = "ok" THEN rkeep ELSE rlast
           IN  Reply(IF Acknowledges(b) \/ again = BadBlock THEN ReaderError ELSE again)
        /\ UNCHANGED <<rns, rout, rkeep, rnext, requests>>
  /\ UNCHANGED <<rnr, rbuf, executed>>

ReaderS(b) ==
  /\ b.type = "S"
  /\ \/ /\ b.cmd = "RESYNCH"
        /\ rns' = 0 /\ rnr' = 0 /\ rbuf' = <<>> /\ rout' = <<>> /\ rnext' = <<>>
        /\ rkeep' = BadBlock /\ rlast' = BadBlock
        /\ toHost' = Append(toHost, cjT1SBlock("RESYNCH", "response", 0))
        /\ UNCHANGED requests
     \/ /\ b.cmd # "RESYNCH" /\ b # Detach /\ rnext # <<>>
        /\ ReplyOrAsk(rnext[1])
        /\ rbuf' = IF b.cmd = "ABORT" THEN <<>> ELSE rbuf
        /\ UNCHANGED <<rns, rnr, rout>>
     \/ /\ b.cmd # "RESYNCH" /\ (b = Detach \/ rnext = <<>>)
        /\ UNCHANGED <<reader, toHost, requests>>
  /\ UNCHANGED executed

ReaderStep ==
  /\ toReader # <<>>
  /\ LET b == Head(toReader)
     IN  ReaderBad(b) \/ ReaderI(b) \/ ReaderR(b) \/ ReaderS(b)
  /\ toReader' = Tail(toReader)
  /\ UNCHANGED <<vars, session, calls, damaged, missing>>

-----------------------------------------------------------------------------
(* The line damages or loses the next block in either direction.           *)

Damage ==
  /\ damaged < MaxDamaged /\ damaged' = damaged + 1
  /\ \/ /\ toReader # <<>> /\ Head(toReader) # BadBlock
        /\ toReader' = <<BadBlock>> \o Tail(toReader) /\ UNCHANGED toHost
     \/ /\ toHost # <<>> /\ Head(toHost) # BadBlock
        /\ toHost' = <<BadBlock>> \o Tail(toHost) /\ UNCHANGED toReader
  /\ UNCHANGED <<vars, session, reader, calls, executed, missing, requests>>

\* (With libusb a lost block blocks the driver for good; not explored.)
Lose ==
  /\ Kernel
  /\ missing < MaxMissing /\ missing + requests < MaxIncidents
  /\ missing' = missing + 1
  /\ \/ toReader # <<>> /\ toReader' = Tail(toReader) /\ UNCHANGED toHost
     \/ toHost # <<>> /\ toHost' = Tail(toHost) /\ UNCHANGED toReader
  /\ UNCHANGED <<vars, session, reader, calls, executed, damaged, requests>>

Done ==
  /\ session = "leaked" \/ (session = "closed" /\ Len(calls) >= MaxCalls)
  /\ UNCHANGED linkVars

LinkNext ==
  /\ \/ HostSend \/ HostClose \/ HostEject \/ HostReceive \/ HostTimeout \/ HostOpen \/ HostOpened
     \/ ReaderStep
     \/ Damage \/ Lose
     \/ Done
  /\ UNCHANGED device

LinkSpec == LinkInit /\ [][LinkNext]_linkVars

\* The receive ends by data or by its timeout, and the reader answers.
LinkFairSpec ==
  LinkSpec /\ WF_linkVars((HostReceive \/ HostTimeout) /\ UNCHANGED device) /\ WF_linkVars(ReaderStep /\ UNCHANGED device)

-----------------------------------------------------------------------------
\* The exchange refines ApduExchange: blocks damaged, lost, repeated or missing
\* never make the reader execute a command twice, in an open session never a
\* mixture of two commands or a part of one, and CT_data never returns another
\* command's response.  (EJECT ICC, sent into a session that has failed without
\* resynchronising it, may complete a chain that was cut off; its own result
\* is thrown away.)
Exchange == INSTANCE ApduExchange
  WITH open <- session = "open", busy <- pc # "idle", submitted <- calls,
       result <- IF session \in {"open", "eject"} /\ pc = "idle" /\ ret = "OK"
                 THEN rsp ELSE <<>>
ExchangeSpec == Exchange!Spec

\* At the end of a successful call both sides agree on the sequence numbers
\* of the next I-block in either direction.
InStep ==
  session = "open" /\ pc = "idle" /\ toReader = <<>> /\ toHost = <<>>
    => ns = rnr /\ nr = rns

\* The driver gave up on a call: too many errors in a row, or a block that
\* does not belong to the protocol.  (A reader that asks for more time than
\* WtxLimit allows is none of it.)
GaveUp ==
  /\ session = "eject" /\ pc = "idle"
  /\ \/ ret = "PROTOCOL_ERROR" /\ wtxcntr <= WtxLimit
     \/ ret = "IO_ERROR" /\ (TooMany(errcntr) \/ TooMany(rerrcntr))

\* The repetitions absorb damaged blocks: as long as none is missing, the
\* driver gives up on a call only after ErrLimit of them.
Recovers == GaveUp => damaged >= ErrLimit \/ missing > 0

\* "N(R) is next N(S), so make next I-Block and send it": an R-block moves the
\* driver on to the next I-block only when it acknowledges the current one.
NextIBlockAcknowledged ==
  [][session = "open" /\ pc = "recv" /\ sendptr' # sendptr
       => Head(toHost).n = Flip(block.n)]_linkVars

\* Every command an application sends into an open session comes back from
\* cjT1SendCmd, with a response or an error, as long as no block is missing.
\* (Through libusb the read never times out.  Through the kernel driver a late
\* answer leaves two blocks under way, and with a damaged one among them host
\* and reader can go on asking each other to repeat.)
Terminates ==
  session = "open" /\ pc # "idle" ~> session # "open" \/ pc = "idle" \/ missing > 0
=============================================================================
