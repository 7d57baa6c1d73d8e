------------------------------ MODULE CardSlot ------------------------------
(***************************************************************************)
(* The card slot of a CCID reader (cjeca32): what CBaseReader remembers of *)
(* the card (m_ReaderState, m_ActiveProtocol, m_ATR), the CT-BCS commands  *)
(* of CCCIDReader::_CtData that change it, and CReader, which discards its *)
(* reader object when a command reports a lost device.                     *)
(*                                                                         *)
(* A command is a sequence of Transfers, each a message to the reader and  *)
(* its answer.  An action is one Transfer with the code that follows it up *)
(* to the next Transfer or to the return.  Between two Transfers cards     *)
(* come and go and the reader may be unplugged; the driver learns of it    *)
(* from the status byte of the next answer, or because there is none.      *)
(*                                                                         *)
(* A card is a record: the kind of its ATR, the protocols it offers, and   *)
(* whether AnalyseATR accepts the ATR at once or only after a second reset.*)
(*                                                                         *)
(* Definitions that no other definition uses (StoreATROfFirst, ...) are    *)
(* faulty variants of the one that follows them.                           *)
(***************************************************************************)
EXTENDS Naturals, Sequences

CONSTANTS
  Cards,
  None

Protocols == {"T0", "T1", "RAW"}
Kinds ==
  {"specific",    \* TA2: the card speaks one protocol from the reset on
   "negotiable",
   "bad",         \* well formed, never accepted
   "corrupt",     \* wrong check byte
   "memory",      \* synchronous card with one of the known headers
   "memoryFF",    \* synchronous card, header ff or 8x
   "rf",          \* contactless card, header 41
   "unknown"}     \* any other answer

RawKinds == {"memory", "memoryFF", "rf"}

ASSUME CardAssumption ==
  /\ Cards \subseteq [kind : Kinds, offers : SUBSET {"T0", "T1"}, once : BOOLEAN]
  /\ \A c \in Cards : c.kind = "specific" => c.offers \in {{"T0"}, {"T1"}}
  /\ \A c \in Cards : c.kind = "negotiable" => c.offers # {}
  /\ None \notin Cards /\ None \notin Protocols

VARIABLES
  object,   \* CReader's m_Reader is not NULL
  comm,     \* m_pCommunicator: "open", "closed" (its handle) or "none" (NULL)
  lost,     \* the device that was opened is gone
  slot,     \* the reader's slot: card, and power: "off", "reset" or a protocol
  host,     \* m_ReaderState, m_ActiveProtocol, m_PossibleProtocols, m_ATR(_Length)
  command,  \* the command in progress
  todo,     \* its Transfers still to come
  answer    \* what the last command returned

vars == <<object, comm, lost, slot, host, command, todo, answer>>

States == {"0", "ABSENT", "SWALLOWED", "POWERED", "NEGOTIABLE", "SPECIFIC"}
Transfers == {"off", "on", "warm", "sync", "setprotocol", "params", "status", "xfr"}
Answers ==
  {"none", "9000", "9001", "6200", "6201", "6400", "6401", "64A1", "64A3", "6F00",
   "card", "active", "inserted", "empty", "closed", "-11", "-10", "-128"}

Command(op, room, prefer) == [op |-> op, room |-> room, prefer |-> prefer]
Idle == Command("idle", TRUE, None)

\* What an application may send.  room: the response buffer holds the ATR.
Commands ==
  {Command(op, TRUE, None) : op \in {"RESET CT", "GET STATUS", "DEACTIVATE ICC", "EJECT ICC",
                                     "EJECT ICC wait", "TRANSMIT", "Disonnect"}}
    \cup {Command("RESET ICC", room, None) : room \in BOOLEAN}
    \cup {Command("REQUEST ICC", room, None) : room \in BOOLEAN}
    \cup {Command("SET INTERFACE", TRUE, p) : p \in {"T0", "T1"}}

\* The state of the members and devices.
TypeOK ==
  /\ object \in BOOLEAN
  /\ comm \in {"open", "closed", "none"}
  /\ lost \in BOOLEAN
  /\ slot \in [card : Cards \cup {None}, power : {"off", "reset"} \cup Protocols]
  /\ host \in [ReaderState : States, ActiveProtocol : Protocols \cup {None},
               PossibleProtocols : SUBSET Protocols, ATR : Cards \cup {None},
               ATR_Length : {0, 1}]
  /\ command \in [op : {c.op : c \in Commands} \cup {"idle", "no room", "device lost"},
                  room : BOOLEAN, prefer : {"T0", "T1", None}]
  /\ todo \in Seq(Transfers)
  /\ answer \in Answers

NewReader ==
  [ReaderState |-> "0", ActiveProtocol |-> None, PossibleProtocols |-> {},
   ATR |-> None, ATR_Length |-> 0]

Init ==
  /\ object = FALSE
  /\ comm = "none"
  /\ lost = FALSE
  /\ slot \in [card : Cards \cup {None}, power : {"off"}]
  /\ host = NewReader
  /\ command = Idle
  /\ todo = <<>>
  /\ answer = "none"

-----------------------------------------------------------------------------
(* The reader and the cards: external.                                     *)

\* bStatus & 3 of every answer.
IccStatus(s) == IF s.card = None THEN 2 ELSE IF s.power = "off" THEN 1 ELSE 0

\* The protocol a card speaks after a reset.
AfterReset(card) ==
  CASE card.kind = "specific" -> CHOOSE p \in card.offers : TRUE
    [] card.kind \in RawKinds -> "RAW"
    [] OTHER -> "reset"

Insert(card) ==
  /\ slot.card = None
  /\ slot' = [card |-> card, power |-> "off"]
  /\ UNCHANGED <<object, comm, lost, host, command, todo, answer>>

Remove ==
  /\ slot.card # None
  /\ slot' = [card |-> None, power |-> "off"]
  /\ UNCHANGED <<object, comm, lost, host, command, todo, answer>>

Unplug ==
  /\ object /\ ~lost
  /\ lost' = TRUE
  /\ slot' = [slot EXCEPT !.power = "off"]
  /\ UNCHANGED <<object, comm, host, command, todo, answer>>

-----------------------------------------------------------------------------
(* CCCIDReader::Transfer                                                   *)

\* The write or the read fails.  Both close the device; only the write goes
\* through CBaseReader::Write, which deletes the communicator as well.  Once
\* the handle is closed the write fails without touching it.
TransferFails ==
  /\ lost \/ comm # "open"
  /\ comm' \in (IF comm = "open" THEN {"closed", "none"} ELSE {"none"})
  /\ UNCHANGED <<lost, slot>>

\* The reader answers, with its slot now in state s.
TransferTo(s) ==
  /\ ~lost /\ comm = "open"
  /\ slot' = s
  /\ UNCHANGED <<comm, lost>>

\* What Transfer makes of the status byte.
Transfer(h, icc) ==
  [h EXCEPT !.ActiveProtocol = IF icc = 0 THEN @ ELSE None,
            !.ATR_Length = IF icc = 0 THEN @ ELSE 0,
            !.ReaderState = IF icc = 2 THEN "ABSENT" ELSE @]

-----------------------------------------------------------------------------
(* Returning from a command                                                *)

\* CReader::CtData: every result but 0, -1 and -11 discards the reader object
\* (as Disonnect does), and its communicator with it: comm says something only
\* while object holds.
Return(h, a) ==
  /\ host' = h
  /\ command' = Idle
  /\ todo' = <<>>
  /\ answer' = a
  /\ object' = (a \notin {"-10", "-128", "closed"})

\* The command goes on with further Transfers.
GoOn(h, rest) ==
  /\ host' = h
  /\ todo' = rest
  /\ UNCHANGED <<object, command, answer>>

\* Go on to one last power down before the command returns.
PowerDownThen(h, op) ==
  /\ host' = h
  /\ todo' = <<"off">>
  /\ command' = [command EXCEPT !.op = op]
  /\ UNCHANGED <<object, answer>>

-----------------------------------------------------------------------------
(* ctBcsReset: IfdPower(SCARD_COLD_RESET) and IfdSetProtocol               *)

\* The protocols asked for: those of SET INTERFACE, or SCARD_PROTOCOL_DEFAULT.
Wanted == IF command.prefer = None THEN Protocols ELSE {command.prefer}

\* The protocol IfdSetProtocol asks the reader for, T=0 first.
Choice(h) ==
  LET common == Wanted \cap h.PossibleProtocols \cap {"T0", "T1"}
  IN  CASE "T0" \in common -> "T0"
        [] common = {"T1"} -> "T1"
        [] OTHER -> None

IfdSetProtocolUnchecked(h) ==
  CASE h.ReaderState = "ABSENT" -> "NO_MEDIA"
    [] h.ReaderState = "NEGOTIABLE" ->
         IF h.ATR.kind = "memoryFF" THEN "SUCCESS"
         ELSE IF Choice(h) # None THEN "TRANSFER" ELSE "INVALID_DEVICE_REQUEST"
    [] h.ReaderState = "SPECIFIC" -> "SUCCESS"
    [] OTHER -> "IO_TIMEOUT"

\* IfdSetProtocol: its result, or "TRANSFER" if it has to ask the reader.
IfdSetProtocol(h) ==
  CASE h.ReaderState = "ABSENT" -> "NO_MEDIA"
    [] h.ReaderState = "NEGOTIABLE" ->
         IF h.ATR.kind = "memoryFF" THEN "SUCCESS"
         ELSE IF Choice(h) # None THEN "TRANSFER" ELSE "INVALID_DEVICE_REQUEST"
    [] h.ReaderState = "SPECIFIC" ->
         IF h.ActiveProtocol \in Wanted THEN "SUCCESS" ELSE "NOT_SUPPORTED"
    [] OTHER -> "IO_TIMEOUT"

\* What ctBcsReset's callers make of the result of IfdPower or IfdSetProtocol.
ResetResult(h, result) ==
  IF command.op = "SET INTERFACE"
    THEN Return(h, IF result = "SUCCESS" /\ h.ActiveProtocol = command.prefer THEN "9001" ELSE "64A3")
    ELSE CASE result = "SUCCESS" /\ command.room -> Return(h, IF h.ATR.kind \in RawKinds THEN "9000" ELSE "9001")
           [] result = "SUCCESS" /\ ~command.room -> PowerDownThen(h, "no room")
           [] result = "NO_MEDIA" -> Return(h, IF command.op = "REQUEST ICC" THEN "6200" ELSE "64A1")
           [] result = "NOT_CONNECTED" -> PowerDownThen(h, "device lost")
           [] result = "CANCELLED" -> Return(h, "6401")
           [] OTHER -> Return(h, "6400")

\* From the return of IfdPower on.
SetProtocol(h) ==
  IF IfdSetProtocol(h) = "TRANSFER" THEN GoOn(h, <<"params">>)
                                    ELSE ResetResult(h, IfdSetProtocol(h))

\* AnalyseATR of an accepted ATR.
Accepted(h, card) ==
  IF card.kind = "specific"
    THEN [h EXCEPT !.ReaderState = "SPECIFIC", !.ActiveProtocol = AfterReset(card),
                   !.PossibleProtocols = card.offers]
    ELSE [h EXCEPT !.ReaderState = "NEGOTIABLE", !.ActiveProtocol = None,
                   !.PossibleProtocols = card.offers]

Raw(h, state) ==
  [h EXCEPT !.ReaderState = state, !.ActiveProtocol = "RAW", !.PossibleProtocols = {"RAW"}]

Rejected(h) ==
  [h EXCEPT !.ReaderState = "POWERED", !.ActiveProtocol = None, !.PossibleProtocols = {}]

SecondResetAlways(card, warm) ==
  card.kind = "bad" \/ (card.kind \in {"specific", "negotiable"} /\ ~card.once)

\* AnalyseATR returns 1: IfdPower resets the card once more.
SecondReset(card, warm) ==
  /\ ~warm
  /\ card.kind = "bad" \/ (card.kind \in {"specific", "negotiable"} /\ ~card.once)

\* AnalyseATR and what follows it: a second reset, a power down, the parameters
\* of a memory card, or at once the choice of the protocol.
AnalyseATR(h, card, warm) ==
  CASE SecondReset(card, warm) -> GoOn(Rejected(h), <<"warm">>)
    [] card.kind \in {"specific", "negotiable"} /\ ~SecondReset(card, warm) -> SetProtocol(Accepted(h, card))
    [] card.kind \in {"bad", "corrupt"} /\ ~SecondReset(card, warm) ->
         GoOn(Rejected(h), <<"off", "setprotocol">>)
    [] card.kind = "memory" -> GoOn(Raw(h, "SPECIFIC"), <<"sync", "setprotocol">>)
    [] card.kind = "memoryFF" -> SetProtocol(Raw(h, "NEGOTIABLE"))
    [] card.kind = "rf" -> SetProtocol(Raw(h, "SPECIFIC"))
    [] card.kind = "unknown" -> SetProtocol(Rejected(h))

\* The next Transfer of the command in progress.
Now(transfer) == todo # <<>> /\ Head(todo) = transfer

StoreATRAppended(h, card, warm) ==
  [Transfer(h, 0) EXCEPT !.ATR = card, !.ATR_Length = @ + 1]

StoreATROfFirst(h, card, warm) ==
  IF warm THEN h ELSE [Transfer(h, 0) EXCEPT !.ATR = card, !.ATR_Length = 1]

\* Every answer to a reset replaces the ATR, the one to the second reset too.
StoreATR(h, card, warm) == [Transfer(h, 0) EXCEPT !.ATR = card, !.ATR_Length = 1]

\* PC_TO_RDR_ICCPOWERON.  The user may cancel only what waits for a card.
IccPowerOn(warm) ==
  /\ Now(IF warm THEN "warm" ELSE "on")
  /\ \/ TransferFails /\ ResetResult(host, "NOT_CONNECTED")
     \/ /\ slot.card # None
        /\ TransferTo([slot EXCEPT !.power = AfterReset(slot.card)])
        /\ AnalyseATR(StoreATR(host, slot.card, warm), slot.card, warm)
     \/ /\ TransferTo([slot EXCEPT !.power = "off"])  \* no card, mute, cancelled
        /\ \E result \in (IF slot.card = None THEN {"NO_MEDIA"} ELSE {"UNRECOGNIZED_MEDIA"})
                           \cup (IF command.op = "REQUEST ICC" THEN {"CANCELLED"} ELSE {}) :
             ResetResult(Transfer(host, IccStatus(slot')), result)

SetParametersUnchecked ==
  /\ Now("params")
  /\ \/ TransferFails /\ ResetResult(host, "NOT_CONNECTED")
     \/ /\ IccStatus(slot) # 0
        /\ TransferTo(slot)
        /\ ResetResult(Transfer(host, IccStatus(slot)), "IO_TIMEOUT")
     \/ /\ IccStatus(slot) = 0
        /\ \E power \in {slot.power, Choice(host)} : TransferTo([slot EXCEPT !.power = power])
        /\ ResetResult([host EXCEPT !.ActiveProtocol = Choice(host), !.ReaderState = "SPECIFIC"], "SUCCESS")

\* PC_TO_RDR_SETPARAMETERS of IfdSetProtocol: there is no active card any more,
\* or it rejects the parameters, or it speaks the protocol from now on.
SetParameters ==
  /\ Now("params")
  /\ \/ TransferFails /\ ResetResult(host, "NOT_CONNECTED")
     \/ /\ TransferTo(slot)
        /\ ResetResult(Transfer(host, IccStatus(slot)), IF slot.card = None THEN "NO_MEDIA" ELSE "IO_TIMEOUT")
     \/ /\ IccStatus(slot) = 0
        /\ TransferTo([slot EXCEPT !.power = Choice(host)])
        /\ ResetResult([host EXCEPT !.ActiveProtocol = Choice(host), !.ReaderState = "SPECIFIC"], "SUCCESS")

\* PC_TO_RDR_SETPARAMETERS of SetSyncParameters; AnalyseATR ignores its result.
SetSyncParameters ==
  /\ Now("sync")
  /\ \/ TransferFails /\ SetProtocol(host)
     \/ TransferTo(slot) /\ SetProtocol(Transfer(host, IccStatus(slot)))

-----------------------------------------------------------------------------
(* The other Transfers                                                     *)

\* After a power down: go on, or return.
AfterPowerOff(h) ==
  CASE Tail(todo) = <<"setprotocol">> -> SetProtocol(h)
    [] Tail(todo) # <<>> /\ Tail(todo) # <<"setprotocol">> -> GoOn(h, Tail(todo))
    [] OTHER ->
         CASE command.op \in {"RESET CT", "EJECT ICC"} -> Return(h, "9000")
           [] command.op = "DEACTIVATE ICC" -> Return(h, IF h.ReaderState = "ABSENT" THEN "64A1" ELSE "9000")
           [] command.op = "TRANSMIT" -> Return(h, "6F00")
           [] command.op = "no room" -> Return(h, "-11")
           [] command.op = "device lost" -> Return(h, "-128")
           [] command.op = "Disonnect" -> Return(h, "closed")

\* PC_TO_RDR_ICCPOWEROFF, which a reader never refuses.  Only DEACTIVATE ICC and
\* EJECT ICC look at the result.
IccPowerOff ==
  /\ Now("off")
  /\ \/ /\ TransferFails
        /\ IF command.op \in {"DEACTIVATE ICC", "EJECT ICC", "EJECT ICC wait"}
             THEN Return(host, "-10") ELSE AfterPowerOff(host)
     \/ /\ TransferTo([slot EXCEPT !.power = "off"])
        /\ AfterPowerOff(Transfer(host, IccStatus(slot')))

\* IfdGetState with an answer.
IfdGetState(h, icc) ==
  CASE icc = 0 -> h
    [] icc = 1 -> [Transfer(h, 1) EXCEPT !.ReaderState = "SWALLOWED"]
    [] icc = 2 -> Transfer(h, 2)

\* PC_TO_RDR_GETSLOTSTATUS and what its callers do with the state.
GetSlotStatus ==
  /\ Now("status")
  /\ \/ TransferFails /\ Return(host, IF command.op = "EJECT ICC wait" THEN "-10" ELSE "-128")
     \/ /\ TransferTo(slot)
        /\ LET h == IfdGetState(host, IccStatus(slot))
               State == h.ReaderState
           IN  CASE command.op = "REQUEST ICC" ->
                      IF State = "SPECIFIC" THEN Return(h, "6201") ELSE GoOn(h, <<"off", "on">>)
                 [] command.op = "EJECT ICC wait" -> Return(h, IF State = "ABSENT" THEN "9001" ELSE "6200")
                 [] command.op = "GET STATUS" ->
                      Return(h, CASE State \in {"SPECIFIC", "NEGOTIABLE"} -> "active"
                                  [] State = "SWALLOWED" -> "inserted"
                                  [] State = "ABSENT" -> "empty"
                                  [] OTHER -> "-128")

\* PC_TO_RDR_XFRBLOCK, one for all blocks of a T=0 exchange: an error of the card, or no active card, powers down.
XfrBlock ==
  /\ Now("xfr")
  /\ \/ TransferFails /\ Return(host, "-128")
     \/ TransferTo(slot) /\ GoOn(Transfer(host, IccStatus(slot)), <<"off">>)
     \/ IccStatus(slot) = 0 /\ TransferTo(slot) /\ Return(host, "card")

-----------------------------------------------------------------------------
(* The calls                                                               *)

\* CReader::Connect.  The queries of PostCreate leave the status byte's effect;
\* whether opening the device makes it power down the card is the reader's
\* affair.
Connect ==
  /\ ~object
  /\ object' = TRUE
  /\ comm' = "open"
  /\ lost' = FALSE
  /\ slot' \in {slot, [slot EXCEPT !.power = "off"]}
  /\ host' = Transfer(NewReader, IccStatus(slot'))
  /\ answer' = "none"
  /\ UNCHANGED <<command, todo>>

\* The Transfers a command begins with.
Begin(c) ==
  CASE c.op \in {"RESET CT", "DEACTIVATE ICC", "EJECT ICC", "Disonnect"} -> <<"off">>
    [] c.op \in {"RESET ICC", "SET INTERFACE"} -> <<"off", "off", "on">>
    [] c.op \in {"REQUEST ICC", "GET STATUS"} -> <<"status">>
    [] c.op = "EJECT ICC wait" -> <<"off", "off", "status">>
    [] c.op = "TRANSMIT" -> <<"xfr">>

\* SET INTERFACE has nothing to do without an active processor card, or when
\* the card speaks the protocol already.
NothingToDo(c) == c.op = "SET INTERFACE" /\ host.ActiveProtocol \in {c.prefer, "RAW", None}

CtData(c) ==
  /\ object
  /\ command = Idle
  /\ UNCHANGED <<comm, lost, slot>>
  /\ IF NothingToDo(c)
       THEN Return(host, IF host.ActiveProtocol = c.prefer THEN "9001" ELSE "9000")
       ELSE /\ command' = c
            /\ todo' = Begin(c)
            /\ UNCHANGED <<object, host, answer>>

Step ==
  \/ \E warm \in BOOLEAN : IccPowerOn(warm)
  \/ SetParameters
  \/ SetSyncParameters
  \/ IccPowerOff
  \/ GetSlotStatus
  \/ XfrBlock

Next ==
  \/ Connect
  \/ \E c \in Commands : CtData(c)
  \/ Step
  \/ \E card \in Cards : Insert(card)
  \/ Remove
  \/ Unplug

\* A Transfer ends: the reader answers, or the bulk transfer fails.
Spec == Init /\ [][Next]_vars /\ WF_vars(Step)

-----------------------------------------------------------------------------
(* Properties                                                              *)

Active == slot.power # "off"

\* If the card is powered and the driver has an active protocol for it, the
\* reader speaks that protocol with it, whatever happened to the card between
\* the Transfers: _IfdTransmit chooses the framing by m_ActiveProtocol.
ProtocolAgrees ==
  object /\ Active /\ host.ActiveProtocol # None => host.ActiveProtocol = slot.power

\* The ATR the driver keeps is the ATR of the card that is powered, also if the
\* card was changed between the two resets of IfdPower.
AtrOfCard == object /\ Active /\ host.ATR_Length # 0 => host.ATR = slot.card

\* A command that reports an activated card (a reset, REQUEST ICC or SET
\* INTERFACE with 9000 or 9001, or "already active") has, when it gets its last
\* answer from the reader, a powered card whose ATR and protocol are the ones
\* the driver has recorded.  (If the reader itself is lost meanwhile, only the
\* next command notices.)
Activated ==
  \/ answer' = "6201"
  \/ answer' \in {"9000", "9001"} /\ command.op \in {"RESET ICC", "REQUEST ICC", "SET INTERFACE"}
ActivatedIsActive ==
  [][command # Idle /\ command' = Idle /\ Activated /\ ~lost =>
       slot'.card = host'.ATR /\ slot'.power = host'.ActiveProtocol]_vars

\* Every command returns: IfdPower resets a card at most twice, also if cards
\* are changed all the time.
CommandsReturn == command # Idle ~> command = Idle
=============================================================================
