-------------------------------- MODULE PpaT1 --------------------------------
(***************************************************************************)
(* T=1 between the driver for the older USB readers (ppa) and the card.    *)
(* In these readers the driver itself speaks T=1: APDU2TPDU_T1 (cjdata.c)  *)
(* cuts a command into I-blocks, each sent with cjccid_XfrBlock, which     *)
(* returns the card's next block.  PVMVT1 does the same for a command into *)
(* which the reader's firmware has put a PIN.                              *)
(*                                                                         *)
(* The card is external: it follows ISO 7816-3, and may ask for more time  *)
(* or another block size, or to abort.  S(RESYNCH) is the interface        *)
(* device's request, which a card never makes; the branch of the driver    *)
(* that would answer one is left out (cjdata.c:694).  Blocks are damaged   *)
(* in either direction, and the card may stay mute.                        *)
(*                                                                         *)
(* Definitions that no other definition uses (ReturnUnchecked...) are faulty *)
(* variants of the one that follows them.                                  *)
(***************************************************************************)
EXTENDS Integers, Sequences

CONSTANTS
  CmdLens,      \* lengths of commands, in units
  RspLens,      \* lengths of responses
  Rooms,        \* sizes of the application's response buffer
  CardIfs,      \* IFSC values the card may ask for; the first is in its ATR
  FirstIfs,
  CardChunk,    \* units in an I-block of the card
  ErrLimit,     \* errors in a row the driver accepts: 2 in the code
  MaxCalls,     \* bounds of the model
  MaxFaults,
  MaxRequests

ASSUME PpaT1Assumption ==
  /\ CmdLens \cup RspLens \cup CardIfs \subseteq Nat \ {0}
  /\ Rooms \subseteq Nat
  /\ FirstIfs \in Nat \ {0} /\ CardChunk \in Nat \ {0} /\ ErrLimit \in Nat
  /\ {MaxCalls, MaxFaults, MaxRequests} \subseteq Nat

VARIABLES
  pc,                  \* "idle", "xfr" (a block goes to the card) or "recv"
  seqS, seqR,          \* PCB_seq: N(S) of the next I-block, N(S) expected
  ifsc,                \* IFSC
  cmd,                 \* the command from the current I-block on (cmd, lenc)
  pin,                 \* the call is a PIN verification
  sbuffer,             \* the current I-block
  sblock,              \* the block sent last
  error,
  lenr, rsp,           \* units received, the response buffer from its first unit on
  size, room,          \* merklenr and maxresp: units in the buffer, units left
  rbuffer,             \* the block received last
  powered,             \* the card is powered
  clean,               \* and no call has failed since it was
  ret,                 \* what the last call returned
  result,              \* its response, <<>> if it failed
  card,                \* the card
  calls, executed, faults, requests

driver == <<seqS, seqR, ifsc, cmd, pin, sbuffer, sblock, error, lenr, rsp, size, room>>
bounds == <<faults, requests>>
vars == <<pc, driver, rbuffer, powered, clean, ret, result, card, calls, executed, bounds>>

Flip(b) == 1 - b
MinOf(a, b) == IF a < b THEN a ELSE b
From(s, n) == SubSeq(s, n + 1, Len(s))

IBlock(n, more, data) == [type |-> "I", n |-> n, more |-> more, data |-> data]
RBlock(n) == [type |-> "R", n |-> n]
SBlock(kind, value) == [type |-> "S", kind |-> kind, value |-> value]
Damaged == [type |-> "damaged"]   \* wrong check byte, address or length
Mute == [type |-> "mute"]         \* ICC_MUTE, or an error without a block
NoBlock == [type |-> "none"]

\* Unit i of the k-th command and of the e-th response.
CommandUnits(k, n) == [i \in 1 .. n |-> <<k, i>>]
ResponseUnits(e, n) == [i \in 1 .. n |-> <<e, i>>]

FreshCard == [nr |-> 0, ns |-> 0, got |-> <<>>, out |-> <<>>, last |-> NoBlock, kept |-> NoBlock]

Init ==
  /\ pc = "idle"
  /\ seqS = 0 /\ seqR = 0 /\ ifsc = FirstIfs
  /\ cmd = <<>> /\ pin = FALSE
  /\ sbuffer = NoBlock /\ sblock = NoBlock
  /\ error = 0 /\ lenr = 0 /\ rsp = <<>> /\ size = 0 /\ room = 0
  /\ rbuffer = NoBlock
  /\ powered = FALSE /\ clean = FALSE
  /\ ret = "none" /\ result = <<>>
  /\ card = FreshCard
  /\ calls = <<>> /\ executed = <<>> /\ faults = 0 /\ requests = 0

-----------------------------------------------------------------------------
(* Power.                                                                  *)

\* ctBcsReset for a T=1 card: IFSC, PCB_seq and the card begin anew.
Activate ==
  /\ pc = "idle" /\ ~clean
  /\ powered' = TRUE /\ clean' = TRUE
  /\ seqS' = 0 /\ seqR' = 0 /\ ifsc' = FirstIfs
  /\ card' = FreshCard
  /\ UNCHANGED <<pc, cmd, pin, sbuffer, sblock, error, lenr, rsp, size, room, rbuffer, ret, result,
                 calls, executed, bounds>>

\* DEACTIVATE ICC, or the card is pulled.
Deactivate ==
  /\ pc = "idle" /\ powered
  /\ powered' = FALSE /\ clean' = FALSE
  /\ UNCHANGED <<pc, driver, rbuffer, ret, result, card, calls, executed, bounds>>

-----------------------------------------------------------------------------
(* APDU2TPDU_T1.                                                           *)

\* The I-block for the next part of the command.
NextIBlock(c, n) ==
  LET INF == MinOf(Len(c), ifsc)
  IN  IBlock(n, Len(c) > INF, SubSeq(c, 1, INF))

Send(b) == sblock' = b /\ pc' = "xfr"

ReturnUnchecked(r) ==
  /\ pc' = "idle"
  /\ ret' = r
  /\ clean' = (clean /\ ret' \in {"SUCCESS", "-11", "CANCELED"})
  /\ result' = IF r = "SUCCESS" /\ clean THEN rsp' ELSE <<>>
  /\ UNCHANGED sblock
\* A response longer than the application's buffer is no success.  Once a call has failed
\* nothing more is claimed of the responses (result) until the card is activated again.
Return(r) ==
  /\ pc' = "idle"
  /\ ret' = IF r = "SUCCESS" /\ lenr' > size THEN "-11" ELSE r
  /\ clean' = (clean /\ ret' \in {"SUCCESS", "-11", "CANCELED"})
  /\ result' = IF ret' = "SUCCESS" /\ clean THEN rsp' ELSE <<>>
  /\ UNCHANGED sblock

Continue(b) == Send(b) /\ UNCHANGED <<clean, ret, result>>

PowerOff == powered' = FALSE
StayPowered == UNCHANGED powered

\* TRANSMIT; a PIN verification sends one block and is not cut.
CtData(n, max, p) ==
  /\ pc = "idle" /\ Len(calls) < MaxCalls
  /\ p => n = 1
  /\ LET c == CommandUnits(Len(calls) + 1, n)
     IN  /\ calls' = Append(calls, c)
         /\ cmd' = c /\ pin' = p
         /\ sbuffer' = NextIBlock(c, seqS)
  /\ error' = 0 /\ lenr' = 0 /\ rsp' = <<>> /\ size' = max /\ room' = max
  /\ result' = <<>>
  /\ IF max < 2 THEN ret' = "-11" /\ UNCHANGED <<pc, sblock>>
     ELSE ret' = "none" /\ Send(sbuffer')
  /\ UNCHANGED <<seqS, seqR, ifsc, rbuffer, powered, clean, card, executed, bounds>>

\* An error: the third in a row ends the call, otherwise the card is asked to repeat, with
\* the same R-block if one was sent last.
AskAgain ==
  /\ error' = error + 1
  /\ IF error' > ErrLimit
     THEN PowerOff /\ Return("PROT")
     ELSE StayPowered /\ Continue(IF sblock.type = "R" THEN sblock ELSE RBlock(seqR))
  /\ UNCHANGED <<seqS, seqR, ifsc, cmd, sbuffer, lenr, rsp, room>>

RecvDamaged == rbuffer.type = "damaged" /\ AskAgain

\* No block: the call fails, the card keeps its power, and what it does with the block it was
\* sent the driver never learns.
RecvMute ==
  /\ rbuffer.type = "mute"
  /\ Return("PROT")
  /\ UNCHANGED <<seqS, seqR, ifsc, cmd, sbuffer, error, lenr, rsp, room, powered>>

Unexpected == rbuffer.n # seqR \/ sbuffer.more \/ rbuffer.data = <<>>

\* A part of the response is stored behind all those before it if it is not longer than the
\* room left, and counted anyway.
Store(data) ==
  /\ lenr' = lenr + Len(data)
  /\ IF room >= Len(data) 
     THEN /\ rsp' = [i \in DOMAIN rsp \cup (lenr + 1 .. lenr') |->
                       IF i > lenr THEN data[i - lenr] ELSE rsp[i]]
          /\ room' = room - Len(data)
     ELSE UNCHANGED <<rsp, room>>

RecvI ==
  /\ rbuffer.type = "I"
  /\ IF Unexpected THEN AskAgain
     ELSE /\ error' = 0
          /\ seqR' = Flip(seqR)
          /\ IF cmd # <<>> THEN seqS' = Flip(seqS) /\ cmd' = From(cmd, Len(sbuffer.data))
             ELSE UNCHANGED <<seqS, cmd>>
          /\ Store(rbuffer.data)
          /\ IF rbuffer.more THEN Continue(RBlock(seqR'))
             ELSE Return("SUCCESS")
          /\ StayPowered
          /\ UNCHANGED <<ifsc, sbuffer>>

\* Requests are granted; the current I-block keeps its size.
RecvS ==
  /\ rbuffer.type = "S"
  /\ error' = 0
  /\ ifsc' = IF rbuffer.kind = "IFS" THEN rbuffer.value ELSE ifsc
  /\ IF rbuffer.kind = "ABORT" THEN PowerOff /\ Return("PROT")
     ELSE StayPowered /\ Continue(rbuffer)
  /\ UNCHANGED <<seqS, seqR, cmd, sbuffer, lenr, rsp, room>>

\* The card asks for the current I-block again.  After too many errors the card is switched
\* off, but the block is sent once more, which ends the call.
Repeat ==
  /\ rbuffer.n = sbuffer.n
  /\ error' = error + 1
  /\ IF error' > ErrLimit THEN PowerOff ELSE StayPowered
  /\ Continue(sbuffer)
  /\ UNCHANGED <<seqS, cmd, sbuffer>>

\* The card has the current I-block: the next one follows.
Acknowledged ==
  /\ rbuffer.n # sbuffer.n /\ sbuffer.more
  /\ error' = 0
  /\ seqS' = Flip(seqS)
  /\ cmd' = From(cmd, Len(sbuffer.data))
  /\ sbuffer' = NextIBlock(cmd', seqS')
  /\ Continue(sbuffer')
  /\ StayPowered

RecvR ==
  /\ rbuffer.type = "R"
  /\ \/ (Repeat \/ Acknowledged) /\ UNCHANGED <<seqR, ifsc, lenr, rsp, room>>
     \/ rbuffer.n # sbuffer.n /\ ~sbuffer.more /\ AskAgain

RecvPinKeeps ==
  /\ IF rbuffer.type = "I" /\ rbuffer.n = seqR
     THEN /\ seqS' = Flip(seqS) /\ UNCHANGED seqR
          /\ Store(rbuffer.data)
          /\ StayPowered
          /\ Return("SUCCESS")
     ELSE /\ \/ rbuffer.type # "mute" /\ PowerOff
             \/ rbuffer.type \in {"mute", "damaged"} /\ StayPowered
          /\ Return("PROT")
          /\ UNCHANGED <<seqS, seqR, lenr, rsp, room>>
  /\ UNCHANGED <<ifsc, cmd, sbuffer, error>>
\* PVMVT1: one block each way, anything else ends the call.  The reader itself may report the
\* block as damaged, and the card then keeps its power.
RecvPin ==
  /\ IF rbuffer.type = "I" /\ rbuffer.n = seqR
     THEN /\ seqS' = Flip(seqS) /\ seqR' = Flip(seqR)
          /\ Store(rbuffer.data)
          /\ StayPowered
          /\ Return("SUCCESS")
     ELSE /\ \/ rbuffer.type # "mute" /\ PowerOff
             \/ rbuffer.type \in {"mute", "damaged"} /\ StayPowered
          /\ Return("PROT")
          /\ UNCHANGED <<seqS, seqR, lenr, rsp, room>>
  /\ UNCHANGED <<ifsc, cmd, sbuffer, error>>

Receive ==
  /\ pc = "recv"
  /\ IF pin THEN RecvPin ELSE RecvDamaged \/ RecvMute \/ RecvI \/ RecvS \/ RecvR
  /\ rbuffer' = NoBlock
  /\ UNCHANGED <<pin, size, card, calls, executed, bounds>>

\* The user cancels the entry of the PIN, or is too slow: the card gets nothing.
PinCanceled ==
  /\ pc = "xfr" /\ pin
  /\ Return("CANCELED")
  /\ UNCHANGED <<seqS, seqR, ifsc, cmd, pin, sbuffer, error, lenr, rsp, size, room, rbuffer,
                 powered, card, calls, executed, bounds>>

\* cjccid_XfrBlock with no powered card returns at once.
NoCard ==
  /\ pc = "xfr" /\ ~powered
  /\ Return("NO_ACTIVE_ICC")
  /\ UNCHANGED <<seqS, seqR, ifsc, cmd, pin, sbuffer, error, lenr, rsp, size, room, rbuffer,
                 powered, card, calls, executed, bounds>>

-----------------------------------------------------------------------------
(* The card: one block in, one block out.                                  *)

\* The card sends b, in state c; what it would repeat is kept.
Answers(c, b) ==
  /\ card' = [c EXCEPT !.last = b, !.kept = IF b.type = "R" THEN c.kept ELSE b]
  /\ \/ rbuffer' = b /\ UNCHANGED faults
     \/ faults < MaxFaults /\ faults' = faults + 1 /\ rbuffer' \in {Damaged, Mute}
  /\ pc' = "recv"
  /\ UNCHANGED <<driver, powered, clean, ret, result, calls>>

\* The next I-block of the response.
NextOut(c) ==
  LET n == MinOf(Len(c.out), CardChunk)
  IN  [c EXCEPT !.ns = Flip(c.ns), !.out = From(c.out, n)]
OutBlock(c) ==
  LET n == MinOf(Len(c.out), CardChunk)
  IN  IBlock(c.ns, Len(c.out) > n, SubSeq(c.out, 1, n))

\* A complete command is executed, or the card asks for something first.
CardActs(c) ==
  \/ \E n \in RspLens :
       LET done == [c EXCEPT !.got = <<>>, !.out = ResponseUnits(Len(executed) + 1, n)]
       IN  /\ pin => n <= CardChunk
           /\ executed' = Append(executed, [cmd |-> c.got, rsp |-> done.out])
           /\ Answers(NextOut(done), OutBlock(done))
           /\ UNCHANGED requests
  \/ /\ requests < MaxRequests
     /\ requests' = requests + 1
     /\ \E s \in {SBlock("WTX", 0), SBlock("ABORT", 0)} \cup {SBlock("IFS", v) : v \in CardIfs} :
          Answers(c, s)
     /\ UNCHANGED executed

CardGetsI(b) ==
  /\ b.type = "I"
  /\ IF b.n # card.nr
     THEN Answers(card, RBlock(card.nr)) /\ UNCHANGED <<executed, requests>>
     ELSE LET c == [card EXCEPT !.nr = Flip(card.nr), !.got = @ \o b.data, !.out = <<>>]
          IN  IF b.more THEN Answers(c, RBlock(c.nr)) /\ UNCHANGED <<executed, requests>>
              ELSE CardActs(c)

\* An R-block acknowledges the last I-block, or asks for the last block again.
CardGetsR(b) ==
  /\ b.type = "R"
  /\ IF card.kept.type = "I" /\ b.n # card.kept.n /\ card.out # <<>>
     THEN Answers(NextOut(card), OutBlock(card))
     ELSE Answers(card, IF card.last.type = "R" /\ card.kept.type # "S" /\ card.got # <<>>
                        THEN card.last
                        ELSE IF card.kept.type = "S" \/ (card.kept.type = "I" /\ b.n = card.kept.n)
                        THEN card.kept ELSE RBlock(card.nr))
  /\ UNCHANGED <<executed, requests>>

CardGetsS(b) ==
  /\ b.type = "S"
  /\ IF card.kept = b /\ card.got # <<>> THEN CardActs(card)
     ELSE Answers(card, RBlock(card.nr)) /\ UNCHANGED <<executed, requests>>

\* The block reaches the card.
XfrBlock ==
  /\ pc = "xfr" /\ powered
  /\ CardGetsI(sblock) \/ CardGetsR(sblock) \/ CardGetsS(sblock)

\* It reaches the card damaged; the answer may be damaged too.
XfrDamaged ==
  /\ pc = "xfr" /\ powered /\ faults < MaxFaults
  /\ LET b == IF card.kept.type = "S" /\ card.got # <<>> THEN card.kept ELSE RBlock(card.nr)
     IN  /\ card' = [card EXCEPT !.last = b]
         /\ rbuffer' = b
  /\ faults' = faults + 1
  /\ pc' = "recv"
  /\ UNCHANGED <<driver, powered, clean, ret, result, calls, executed, requests>>

Next ==
  \/ Activate
  \/ Deactivate
  \/ \E n \in CmdLens, max \in Rooms, p \in BOOLEAN : CtData(n, max, p)
  \/ Receive
  \/ PinCanceled
  \/ NoCard
  \/ XfrBlock
  \/ XfrDamaged

Spec == Init /\ [][Next]_vars

\* The driver goes on as long as the reader answers, and the reader answers every message:
\* with the card's block, or with an error after the card's waiting time.
Fairness == WF_vars(Receive) /\ WF_vars(NoCard) /\ WF_vars(XfrBlock)

-----------------------------------------------------------------------------
(* Properties.                                                             *)

\* Between two calls that did not fail the driver and the card agree on the numbers of the
\* next I-blocks, whatever was damaged, repeated or refused on the way: otherwise the next
\* command would be taken for a repetition and be answered with the previous response.
InStep == pc = "idle" /\ clean => seqS = card.nr /\ seqR = card.ns

\* APDU2TPDU_T1 implements what CT_data promises: each command is executed at most once and
\* as it was sent, and a success returns its own response.  The promise ends with the first
\* failed call and begins again with the next activation of the card.
Exchange == INSTANCE ApduExchange
              WITH open <- clean, busy <- pc # "idle", submitted <- calls
ExchangeSpec == Exchange!Spec

\* Every call returns.
CallsReturn == pc # "idle" ~> pc = "idle"
=============================================================================
