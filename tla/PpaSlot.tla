------------------------------- MODULE PpaSlot -------------------------------
(***************************************************************************)
(* The slot of the older USB readers as their driver (ppa) keeps it: the   *)
(* terminal commands of ctapiData_inner that activate, await, query and    *)
(* deactivate a card, ctBcsReset behind them, and the files of the reader  *)
(* itself.  Every step of an activation is one CCID exchange; between two  *)
(* of them the card may be pulled or changed, the reader unplugged, and an *)
(* interrupt (slot change, cancel key) delivered.                          *)
(*                                                                         *)
(* The card is described by what its ATR leads to: see Cards.  Commands    *)
(* with wrong parameters are one action (Refuse): they change nothing.     *)
(*                                                                         *)
(* Definitions that no other definition uses (OffThenNot...) are faulty    *)
(* variants of the one that follows them.                                  *)
(***************************************************************************)
EXTENDS Integers, Sequences, FiniteSets

CONSTANTS
  Cards,        \* [atr, proto, rate, specific], see CardsAssumption
  IfsTries,     \* tries to announce IFSD: 3 in the code
  Waits,        \* polls a waiting command may make
  MaxCommands,  \* bounds of the model
  MaxChanges,
  MaxFaults

\* atr: "ok"; "cold" is accepted only after a warm reset (TB1); "faulty" is never accepted
\* (error 1), "spoilt" is dropped at once (error 2); "sync" is the header of a memory card
\* with protocol 8, 9 or 10, "odd" a four byte header that names none of them.
\* rate: what TA1 asks for; "top" (D = 32) is lowered to "fast" by the driver.
\* A processor card speaks T=0 or, whatever else it names, T=1.
ProcessorCards ==
  [atr : {"ok", "cold", "faulty", "spoilt"}, proto : {0, 1},
   rate : {"default", "fast", "top"}, specific : BOOLEAN]
MemoryCards ==
  [atr : {"sync", "odd"}, proto : {8, 9, 10}, rate : {"default"}, specific : {FALSE}]
CardTypes == ProcessorCards \cup MemoryCards

ASSUME CardsAssumption ==
  /\ Cards \subseteq CardTypes /\ IfsTries \in Nat \ {0} /\ Waits \subseteq Nat
  /\ {MaxCommands, MaxChanges, MaxFaults} \subseteq Nat

NoCard == [atr |-> "none", proto |-> 0, rate |-> "default", specific |-> FALSE]

VARIABLES
  uses,                    \* what the application does: "card" or "files"
  open,                    \* the handle exists (AllHandles)
  act,                     \* the command in progress, its locals and the exchange that comes next
  Protokoll, Status, hasCanceled,
  path, file,              \* reader_path, reader_file
  answer,                  \* the status bytes of the last command, or its error
  card, powered, cardRate, \* the card in the slot
  proto, readerRate,       \* the reader's parameters
  refused,                 \* history: the reader refused the last ones the driver set
  lost,                    \* the reader was unplugged
  notices,                 \* interrupts not yet delivered
  commands, changes, faults

handle == <<Protokoll, Status, hasCanceled, path, file>>
slot == <<card, powered, cardRate>>
reader == <<proto, readerRate, refused>>
vars == <<uses, open, act, handle, answer, slot, reader, lost, notices, commands, changes, faults>>

\* op: the command; fits: what it wants of the ATR (P2) fits into the response buffer; atr: the
\* card whose ATR was read; then: what is reported after switching the card off.
NoAct == [step |-> "idle", op |-> "none", fits |-> TRUE, warm |-> FALSE, tries |-> 0,
          wait |-> 0, atr |-> NoCard, then |-> ""]
Idle == act.step = "idle"
Activations == {"RESET CT", "RESET ICC", "REQUEST ICC"}

Init ==
  /\ uses \in {"card", "files"}
  /\ open = FALSE /\ act = NoAct
  /\ Protokoll = 0 /\ Status = FALSE /\ hasCanceled = FALSE
  /\ path = "3f00" /\ file = "none"
  /\ answer = ""
  /\ card \in Cards \cup {NoCard} /\ powered = FALSE /\ cardRate = "default"
  /\ proto = 0 /\ readerRate = "default" /\ refused = FALSE
  /\ lost = FALSE /\ notices = <<>>
  /\ commands = 0 /\ changes = 0 /\ faults = 0

-----------------------------------------------------------------------------
(* The card holder, the key pad and the cable.                             *)

\* Something happens at the reader; it tells the host with an interrupt.
Happens(n) ==
  /\ uses = "card" /\ changes < MaxChanges
  /\ changes' = changes + 1
  /\ notices' = IF open /\ ~lost THEN Append(notices, n) ELSE notices
  /\ UNCHANGED <<uses, open, act, handle, answer, reader, commands, faults>>

Insert(c) ==
  /\ card = NoCard /\ card' = c
  /\ Happens("in")
  /\ UNCHANGED <<powered, cardRate, lost>>

Pull ==
  /\ card # NoCard /\ card' = NoCard
  /\ powered' = FALSE /\ cardRate' = "default"
  /\ Happens("out")
  /\ UNCHANGED lost

PressCancel == Happens("cancel") /\ UNCHANGED <<slot, lost>>

\* The reader and the card lose power; nothing more is delivered.
Unplug ==
  /\ ~lost /\ lost' = TRUE
  /\ powered' = FALSE /\ cardRate' = "default"
  /\ uses = "card" /\ changes < MaxChanges
  /\ changes' = changes + 1
  /\ notices' = <<>>
  /\ UNCHANGED <<uses, open, act, handle, answer, card, reader, commands, faults>>

\* An interrupt is delivered while some thread of the process handles USB events.
HandleCyberJackInterruptData ==
  /\ notices # <<>>
  /\ notices' = Tail(notices)
  /\ LET n == Head(notices)
     IN  /\ Status' = IF n = "cancel" THEN Status ELSE n = "in"
         /\ hasCanceled' = (hasCanceled \/ n = "cancel")
  /\ UNCHANGED <<uses, open, act, Protokoll, path, file, answer, slot, reader, lost, commands, changes, faults>>

-----------------------------------------------------------------------------
(* Opening and closing.                                                    *)

ctapiInit ==
  /\ ~open /\ ~lost /\ commands < MaxCommands
  /\ open' = TRUE
  /\ Protokoll' = 0 /\ Status' = FALSE /\ hasCanceled' = FALSE
  /\ path' = "3f00" /\ file' = "none"
  /\ powered' = FALSE /\ cardRate' = "default"
  /\ answer' = ""
  /\ UNCHANGED <<uses, act, card, reader, lost, notices, commands, changes, faults>>

ctapiCloseKeeps ==
  /\ open /\ Idle /\ commands > 0
  /\ open' = FALSE
  /\ UNCHANGED <<powered, cardRate>>
  /\ notices' = <<>>
  /\ UNCHANGED <<uses, act, handle, answer, card, reader, lost, commands, changes, faults>>
\* The card is switched off first.
ctapiClose ==
  /\ open /\ Idle /\ commands > 0
  /\ open' = FALSE
  /\ powered' = FALSE /\ cardRate' = "default"
  /\ notices' = <<>>
  /\ UNCHANGED <<uses, act, handle, answer, card, reader, lost, commands, changes, faults>>

-----------------------------------------------------------------------------
(* The commands for the slot.                                              *)

\* hasCanceled is of this command only.
Begin ==
  /\ open /\ Idle /\ commands < MaxCommands
  /\ commands' = commands + 1
  /\ hasCanceled' = FALSE
  /\ UNCHANGED <<uses, open, Protokoll, Status, slot, reader, lost, notices, changes, faults>>

Start(op, fits, step) ==
  /\ uses = "card" /\ Begin
  /\ act' = [NoAct EXCEPT !.step = step, !.op = op, !.fits = fits]
  /\ answer' = ""
  /\ UNCHANGED <<path, file>>

ResetCT(fits) == Start("RESET CT", fits, "switch off")
ResetICC(fits) == Start("RESET ICC", fits, "switch off")
\* P1 = 0: the terminal alone; the card is only switched off.
ResetTerminal == Start("RESET", TRUE, "switch off")
RequestICC(fits) == Start("REQUEST ICC", fits, "status")
GetStatus == Start("GET STATUS", TRUE, "status")
Deactivate == Start("DEACTIVATE ICC", TRUE, "switch off")
Eject == Start("EJECT ICC", TRUE, "switch off")
Transmit == Start("TRANSMIT", TRUE, "xfr")

\* Wrong P1, P2 or lengths, and commands this reader does not know.
Refuse ==
  /\ uses = "card" /\ Begin
  /\ answer' = "6A00"
  /\ UNCHANGED <<act, path, file>>

\* How an exchange goes on.
Return(a) == act' = NoAct /\ answer' = a
Go(a) == act' = a /\ UNCHANGED answer
GoTo(step) == Go([act EXCEPT !.step = step])

OffThenNot(r) == Return(IF r \in {"-11", "-128"} THEN r ELSE "6400")
\* PowerOff comes next, then r is reported.
OffThen(r) == Go([act EXCEPT !.step = "off", !.then = r])

-----------------------------------------------------------------------------
(* What an exchange with the reader yields.                                *)

InSlot == IF card = NoCard THEN "NO_ICC" ELSE IF powered THEN "SUCCESS" ELSE "NO_ACTIVE_ICC"
Exchange == IF lost THEN "DEVICE_LOST" ELSE InSlot

\* A block is sent to the card, which may stay mute or answer damaged, and does so when it
\* does not hear the reader.
XfrBlock(r, heard) ==
  \/ r = (IF Exchange = "SUCCESS" /\ ~heard THEN "TIMEOUT" ELSE Exchange) /\ UNCHANGED faults
  \/ r = "TIMEOUT" /\ Exchange = "SUCCESS" /\ faults < MaxFaults /\ faults' = faults + 1

XfrResults == {"SUCCESS", "TIMEOUT", "NO_ICC", "NO_ACTIVE_ICC", "DEVICE_LOST"}

\* A processor card hears the reader at its own rate and in the protocol of the block.
Hears == Protokoll \in {0, 1} => proto = Protokoll /\ readerRate = cardRate

PowerOff == powered' = FALSE /\ cardRate' = "default"

\* The answer for a result of ctBcsReset that is no success.
Failed(r) ==
  CASE r \in {"TIMEOUT", "PROT"} -> Return("6400")
    [] r = "NO_ICC" ->
         Return(CASE act.op = "RESET CT" -> "64A1" [] act.op = "RESET ICC" -> "6400" [] OTHER -> "6200")
    [] OTHER -> OffThen("-128")

\* The answer may have to hold the ATR or a part of it; without room the card is switched off.
Succeeded(c) ==
  IF ~act.fits THEN OffThen("-11")
  ELSE Return(IF c.atr \in {"sync", "odd"} THEN "9000" ELSE "9001")

-----------------------------------------------------------------------------
(* ctBcsReset, from PowerOn on.                                            *)

PowerOnFails ==
  /\ act.step = "on"
  /\ \/ (lost \/ card = NoCard) /\ UNCHANGED <<faults, powered>>
     \/ ~lost /\ card # NoCard /\ faults < MaxFaults /\ faults' = faults + 1 /\ powered' \in BOOLEAN
  /\ cardRate' = "default"
  /\ OffThen("TIMEOUT")
  /\ UNCHANGED <<uses, open, handle, card, reader, lost, notices, commands, changes>>

\* The protocol the header of a memory card names; an unknown one leaves it as it was.
SyncProtocol(c) == IF c.atr = "sync" THEN c.proto ELSE Protokoll

PowerOnMemory ==
  /\ act.step = "on" /\ ~lost /\ card.atr \in {"sync", "odd"}
  /\ powered' = TRUE /\ cardRate' = "default"
  /\ Protokoll' = SyncProtocol(card)
  /\ Succeeded(card)
  /\ UNCHANGED <<uses, open, Status, hasCanceled, path, file, card, reader, lost, notices, commands, changes, faults>>

AtrError(c) == c.atr = "faulty" \/ (c.atr = "cold" /\ ~act.warm)

\* A refused ATR: a warm reset follows; refused again the card is switched off first, but
\* while(warm==1 && error==1) still holds.
PowerOnProcessor ==
  /\ act.step = "on" /\ ~lost /\ card.atr \in {"ok", "cold", "faulty", "spoilt"}
  /\ powered' = TRUE
  /\ cardRate' = IF card.specific THEN card.rate ELSE "default"
  /\ CASE card.atr = "spoilt" -> OffThen("TIMEOUT")
       [] AtrError(card) -> Go([act EXCEPT !.warm = TRUE, !.step = IF act.warm THEN "off again" ELSE "on"])
       [] OTHER -> Go([act EXCEPT !.step = "params", !.atr = card])
  /\ UNCHANGED <<uses, open, handle, card, reader, lost, notices, commands, changes, faults>>

OffAgain ==
  /\ act.step = "off again"
  /\ PowerOff /\ GoTo("on")
  /\ UNCHANGED <<uses, open, handle, card, reader, lost, notices, commands, changes, faults>>

DriverRate(c) == IF c.rate = "top" THEN "fast" ELSE c.rate

\* The rate is settled: T=0 is ready, T=1 announces IFSD.
Settled ==
  /\ Protokoll' = act.atr.proto
  /\ IF act.atr.proto = 0 THEN Succeeded(act.atr) ELSE GoTo("ifs")

SetParametersOnce(taken) ==
  /\ act.step \in {"params", "params again"}
  /\ IF Exchange # "SUCCESS" THEN Failed(Exchange) /\ UNCHANGED <<reader, Protokoll>>
     ELSE /\ IF taken THEN proto' = act.atr.proto /\ readerRate' = DriverRate(act.atr)
             ELSE UNCHANGED <<proto, readerRate>>
          /\ refused' = ~taken
          /\ IF act.step = "params" /\ act.atr.rate # "default" /\ ~act.atr.specific
             THEN GoTo("pps") /\ UNCHANGED Protokoll
             ELSE Settled
  /\ UNCHANGED <<uses, open, Status, hasCanceled, path, file, slot, lost, notices, commands, changes, faults>>
\* Again with the default rate when the card has declined the other.  cjccid_SetParameters
\* looks in the status for a card that is inactive (0x41) or absent (0x42) only: parameters the
\* reader refuses with the card active (0x40) are a success for the driver, and it goes on.
SetParameters(taken) ==
  /\ act.step \in {"params", "params again"}
  /\ IF Exchange # "SUCCESS" THEN Failed(Exchange) /\ UNCHANGED <<reader, Protokoll>>
     ELSE /\ IF taken
             THEN /\ proto' = act.atr.proto
                  /\ readerRate' = IF act.step = "params" THEN DriverRate(act.atr) ELSE "default"
             ELSE UNCHANGED <<proto, readerRate>>
          /\ refused' = ~taken
          /\ IF act.step = "params" /\ act.atr.rate # "default" /\ ~act.atr.specific
             THEN GoTo("pps") /\ UNCHANGED Protokoll
             ELSE Settled
  /\ UNCHANGED <<uses, open, Status, hasCanceled, path, file, slot, lost, notices, commands, changes, faults>>

\* The reader sends the PPS request at the default rate; the card agrees or declines.
PpsAnswered(agreed) ==
  /\ act.step = "pps" /\ XfrBlock("SUCCESS", TRUE)
  /\ IF agreed THEN cardRate' = DriverRate(act.atr) /\ Settled
     ELSE GoTo("params again") /\ UNCHANGED <<cardRate, Protokoll>>
  /\ UNCHANGED <<uses, open, Status, hasCanceled, path, file, card, powered, reader, lost, notices, commands, changes>>

PpsFails(r) ==
  /\ act.step = "pps" /\ r # "SUCCESS" /\ XfrBlock(r, TRUE)
  /\ OffThen("TIMEOUT")
  /\ UNCHANGED <<uses, open, handle, slot, reader, lost, notices, commands, changes>>

AnnounceIfsdForever(r) ==
  /\ act.step = "ifs" /\ XfrBlock(r, Hears)
  /\ CASE r = "SUCCESS" -> Succeeded(act.atr)
       [] r = "TIMEOUT" -> GoTo("ifs")
       [] OTHER -> Failed("DEVICE_LOST")
  /\ UNCHANGED <<uses, open, handle, slot, reader, lost, notices, commands, changes>>
\* S(IFS request): some tries; any other error than a missing answer is DEVICE_LOST.
AnnounceIfsd(r) ==
  /\ act.step = "ifs" /\ XfrBlock(r, Hears)
  /\ CASE r = "SUCCESS" -> Succeeded(act.atr)
       [] r = "TIMEOUT" -> IF act.tries + 1 = IfsTries THEN OffThen("PROT")
                           ELSE Go([act EXCEPT !.tries = act.tries + 1])
       [] OTHER -> Failed("DEVICE_LOST")
  /\ UNCHANGED <<uses, open, handle, slot, reader, lost, notices, commands, changes>>

\* The PowerOff that ends a failed activation; when it fails too, the reader is lost.
EndOff ==
  /\ act.step = "off"
  /\ PowerOff
  /\ Return(IF act.then \in {"-11", "-128"} THEN act.then ELSE IF lost THEN "-128" ELSE "6400")
  /\ UNCHANGED <<uses, open, handle, card, reader, lost, notices, commands, changes, faults>>

-----------------------------------------------------------------------------
(* The other exchanges.                                                    *)

Await == \E n \in Waits : Go([act EXCEPT !.step = "poll", !.wait = n])

\* The PowerOff a command begins with.  The resets ignore its result.
SwitchOff ==
  /\ act.step = "switch off"
  /\ PowerOff
  /\ CASE act.op \in Activations -> GoTo("on")
       [] act.op = "RESET" -> Return("9000")
       [] act.op = "DEACTIVATE ICC" -> Return(IF lost THEN "-10" ELSE IF Status THEN "9000" ELSE "64A1")
       [] act.op = "EJECT ICC" -> IF lost THEN Return("-10") ELSE Return("9000") \/ Await
  /\ UNCHANGED <<uses, open, handle, card, reader, lost, notices, commands, changes, faults>>

\* cjccid_GetSlotStatus, for GET STATUS and REQUEST ICC.  Without a waiting time a request
\* ends here when there is no card.
GetSlotStatus ==
  /\ act.step = "status"
  /\ Status' = IF lost THEN Status ELSE card # NoCard
  /\ IF act.op = "GET STATUS"
     THEN Return(CASE Exchange = "SUCCESS" -> "05" [] Exchange = "NO_ACTIVE_ICC" -> "03"
                   [] Exchange = "NO_ICC" -> "00" [] OTHER -> "-128")
     ELSE IF Exchange = "SUCCESS" THEN Return("6201")
     ELSE Await \/ IF Exchange = "NO_ICC" THEN Return("6200") ELSE GoTo("on")
  /\ UNCHANGED <<uses, open, Protokoll, hasCanceled, path, file, slot, reader, lost, notices, commands, changes, faults>>

\* REQUEST ICC waits for a card or the cancel key, EJECT ICC for the card to be taken.
Waiting == IF act.op = "REQUEST ICC" THEN ~Status /\ ~hasCanceled ELSE Status

Poll ==
  /\ act.step = "poll"
  /\ IF Waiting /\ act.wait > 0 THEN Go([act EXCEPT !.wait = act.wait - 1])
     ELSE IF act.op = "EJECT ICC" THEN Return(IF Status THEN "6200" ELSE "9001")
     ELSE IF Status THEN GoTo("on")
     ELSE Return(IF hasCanceled THEN "6401" ELSE "6200")
  /\ UNCHANGED <<uses, open, handle, slot, reader, lost, notices, commands, changes, faults>>

\* The command goes to the card in the protocol of the handle.  T=0 and the memory cards switch
\* the card off whenever a block fails, T=1 only for some failures of a card that is there.
TransmitStep(r) ==
  /\ act.step = "xfr" /\ XfrBlock(r, Hears)
  /\ Return(CASE r = "SUCCESS" -> "card" [] r = "NO_ICC" -> "64A1" [] r = "NO_ACTIVE_ICC" -> "64A2"
              [] r = "TIMEOUT" -> IF Protokoll \in {0, 1} THEN "6F00" ELSE "-1" [] OTHER -> "-128")
  /\ \/ r # "SUCCESS" /\ (Protokoll = 1 => r = "TIMEOUT") /\ PowerOff
     \/ (r = "SUCCESS" \/ Protokoll = 1) /\ UNCHANGED <<powered, cardRate>>
  /\ UNCHANGED <<uses, open, handle, card, reader, lost, notices, commands, changes>>

-----------------------------------------------------------------------------
(* The files of the reader: SELECT FILE and READ BINARY.                   *)

Directory == [f \in {"0020", "6020", "6021", "6030", "6031", "7020", "7021"} |->
                CASE f = "0020" -> "3f00" [] f \in {"7020", "7021"} -> "7f70" [] OTHER -> "7f60"]

\* A directory is entered from the master file only, and no file is selected in it.
Select(f) ==
  IF f = "3f00" \/ (f \in {"7f60", "7f70"} /\ path = "3f00") THEN path' = f /\ file' = "none" /\ answer' = "9000"
  ELSE IF f \in DOMAIN Directory /\ Directory[f] = path THEN file' = f /\ UNCHANGED path /\ answer' = "9000"
  ELSE UNCHANGED <<path, file>> /\ answer' = "6A82"

SelectFile(f, room) ==
  /\ uses = "files" /\ Begin
  /\ \/ room /\ Select(f)
     \/ ~room /\ UNCHANGED <<path, file>> /\ answer' = "-11"
  /\ UNCHANGED act

ReadBinary(room) ==
  /\ uses = "files" /\ Begin
  /\ answer' = IF file # "none" /\ Directory[file] = path THEN (IF room THEN file ELSE "-11") ELSE "6982"
  /\ UNCHANGED <<act, path, file>>

-----------------------------------------------------------------------------
DriverStep ==
  \/ PowerOnFails \/ PowerOnMemory \/ PowerOnProcessor \/ OffAgain
  \/ \E taken \in BOOLEAN : SetParameters(taken)
  \/ \E agreed \in BOOLEAN : PpsAnswered(agreed)
  \/ \E r \in XfrResults : PpsFails(r) \/ AnnounceIfsd(r) \/ TransmitStep(r)
  \/ EndOff \/ SwitchOff \/ GetSlotStatus \/ Poll

Command ==
  \/ \E fits \in BOOLEAN : ResetCT(fits) \/ ResetICC(fits) \/ RequestICC(fits)
  \/ ResetTerminal \/ Deactivate \/ Eject \/ GetStatus \/ Transmit \/ Refuse
  \/ \E room \in BOOLEAN :
        ReadBinary(room) \/ \E f \in DOMAIN Directory \cup {"3f00", "7f60", "7f70"} : SelectFile(f, room)

Surroundings ==
  \/ \E c \in Cards : Insert(c)
  \/ Pull \/ PressCancel \/ Unplug \/ HandleCyberJackInterruptData

Next == ctapiInit \/ ctapiClose \/ Command \/ DriverStep \/ Surroundings

Spec == Init /\ [][Next]_vars

\* A command that was begun goes on: every exchange ends, with an answer or a timeout.
FairSpec == Spec /\ WF_vars(DriverStep)

-----------------------------------------------------------------------------
(* Properties.                                                             *)

\* Types; a command in progress has an open handle, a powered card is in a reader that is
\* there, and the selected file of the reader lies in the current directory.
TypeOK ==
  /\ act.step \in {"idle", "on", "off", "off again", "params", "params again", "pps", "ifs", "switch off",
                   "status", "poll", "xfr"}
  /\ act.tries \in 0 .. IfsTries - 1 /\ act.wait \in Nat
  /\ card \in Cards \cup {NoCard} /\ act.atr \in Cards \cup {NoCard}
  /\ Protokoll \in {0, 1, 8, 9, 10} /\ proto \in {0, 1} /\ refused \in BOOLEAN
  /\ path \in {"3f00", "7f60", "7f70"} /\ file \in DOMAIN Directory \cup {"none"}
  /\ file # "none" => Directory[file] = path
  /\ ~Idle => open
  /\ powered => open /\ card # NoCard /\ ~lost

\* Between two commands a powered card is one the driver can speak to: the handle has its
\* protocol, the reader the parameters of that protocol and the rate the card uses.  A T=1 card
\* has answered S(IFS) with them, so this holds whatever the reader refused.  For T=0 nothing is
\* exchanged after the parameters: a card whose parameters the reader refused stays powered and
\* out of reach (a known defect, cjccid.c:349), and so does one in specific mode with D = 32,
\* whose rate the driver lowers.  An unknown memory card names no protocol.
PoweredIsReady ==
  (Idle /\ powered /\ card.atr # "odd")
    => /\ Protokoll = card.proto
       /\ card.proto = 1 => proto = 1 /\ readerRate = cardRate
       /\ card.proto = 0 /\ ~refused =>
            /\ proto = 0
            /\ ~(card.specific /\ card.rate = "top") => readerRate = cardRate

\* The answer to an activation tells whether the card is powered now: 9000 and 9001 after
\* an activation and 6201 when it was active before; every other answer leaves it off.
AnswerTells ==
  [][(~Idle /\ act'.step = "idle" /\ act.op \in Activations)
       => (answer' \in {"9000", "9001", "6201"} <=> powered')]_vars

\* Every command returns, unless the card answers every reset with a refused ATR: ctBcsReset
\* then tries for ever.
Returns == (~Idle ~> Idle) \/ []<>(act.step = "off again")
=============================================================================
