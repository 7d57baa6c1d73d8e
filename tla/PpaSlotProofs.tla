---------------------------- MODULE PpaSlotProofs ----------------------------
(***************************************************************************)
(* Proofs about the slot of the older readers (module PpaSlot), for every  *)
(* set of cards and any number of commands, changes and faults.            *)
(***************************************************************************)
EXTENDS PpaSlot, TLAPS

Steps == {"idle", "on", "off", "off again", "params", "params again", "pps", "ifs", "switch off",
          "status", "poll", "xfr"}

\* The commands that begin with these exchanges.
Begins(op, step) ==
  /\ step = "xfr" => op = "TRANSMIT"
  /\ step = "switch off" => op \in Activations \cup {"RESET", "DEACTIVATE ICC", "EJECT ICC"}

\* The command in progress and its locals.
ActOK(a) ==
  /\ a = [step |-> a.step, op |-> a.op, fits |-> a.fits, warm |-> a.warm, tries |-> a.tries,
          wait |-> a.wait, atr |-> a.atr, then |-> a.then]
  /\ a.step \in Steps /\ a.tries \in 0 .. IfsTries - 1 /\ a.wait \in Nat
  /\ a.atr \in Cards \cup {NoCard}
  /\ Begins(a.op, a.step)

\* The handle and the reader are set up for card c.
InUse(c) ==
  c.atr # "odd" =>
    /\ Protokoll = c.proto
    /\ c.proto = 1 => proto = 1 /\ readerRate = cardRate
    /\ c.proto = 0 /\ ~refused =>
         proto = 0 /\ (~(c.specific /\ c.rate = "top") => readerRate = cardRate)

\* The ATR that is being evaluated is that of the powered card.
Evaluated ==
  powered /\ act.step \in {"params", "params again", "pps", "ifs"} =>
    act.atr = card /\ card.proto \in {0, 1}

\* Up to the PPS the card uses the rate it has after a reset.
Reset ==
  powered /\ act.step \in {"params", "params again", "pps"} =>
    cardRate = IF card.specific THEN card.rate ELSE "default"
Negotiates ==
  powered /\ act.step \in {"params again", "pps"} => ~card.specific

\* The reader has the parameters of the PPS request, unless it refused them.
Requested ==
  powered /\ act.step = "pps" /\ ~refused => proto = card.proto /\ readerRate = DriverRate(card)

\* Whether the reader took its parameters, a T=1 card tells with its answer to S(IFS).
Announces == powered /\ act.step = "ifs" => Protokoll = 1 /\ card.proto = 1

\* A powered card is set up when it is exchanged with.
Ready == powered /\ act.step \in {"idle", "status", "xfr"} => InUse(card)

\* Nobody waits for a card that is powered.
Awaited == act.step = "poll" => ~powered

Progress == Evaluated /\ Reset /\ Negotiates /\ Requested /\ Announces /\ Ready /\ Awaited

FilesOK ==
  /\ path \in {"3f00", "7f60", "7f70"} /\ file \in DOMAIN Directory \cup {"none"}
  /\ file # "none" => Directory[file] = path

SlotOK ==
  /\ card \in Cards \cup {NoCard}
  /\ Protokoll \in {0, 1, 8, 9, 10} /\ proto \in {0, 1} /\ refused \in BOOLEAN
  /\ powered => open /\ card # NoCard /\ ~lost

OpenOK == ~Idle => open

IInv == ActOK(act) /\ FilesOK /\ SlotOK /\ OpenOK /\ Progress

LEMMA InvariantTypes == IInv => TypeOK
BY DEF IInv, ActOK, Steps, FilesOK, SlotOK, OpenOK, TypeOK

-----------------------------------------------------------------------------
(* Cards, and the locals of a command.                                     *)

LEMMA NoCardFacts == NoCard.atr = "none" /\ NoCard.proto = 0
BY DEF NoCard

LEMMA ProcessorFacts ==
  ASSUME NEW c \in Cards, c.atr \in {"ok", "cold", "faulty", "spoilt"}
  PROVE  c.proto \in {0, 1}
<1>1. c \in ProcessorCards \/ c \in MemoryCards
  BY CardsAssumption DEF CardTypes
<1>2. CASE c \in ProcessorCards
  BY <1>2 DEF ProcessorCards
<1>3. CASE c \in MemoryCards
  BY <1>3 DEF MemoryCards
<1>4. QED
  BY <1>1, <1>2, <1>3

LEMMA MemoryFacts ==
  ASSUME NEW c \in Cards, c.atr \in {"sync", "odd"}
  PROVE  c.proto \in {8, 9, 10}
<1>1. c \in ProcessorCards \/ c \in MemoryCards
  BY CardsAssumption DEF CardTypes
<1>2. CASE c \in ProcessorCards
  BY <1>2 DEF ProcessorCards
<1>3. CASE c \in MemoryCards
  BY <1>3 DEF MemoryCards
<1>4. QED
  BY <1>1, <1>2, <1>3

\* The command goes on with another exchange and still knows its ATR.
AtStep(a, s) == ActOK(a) /\ a.step = s /\ a.op = act.op /\ a.atr = act.atr

LEMMA GoToStep ==
  ASSUME ActOK(act), NEW s \in Steps \ {"xfr", "switch off"}, GoTo(s)
  PROVE  AtStep(act', s)
BY DEF GoTo, Go, ActOK, AtStep, Begins

LEMMA OffThenStep ==
  ASSUME ActOK(act), NEW r, OffThen(r)
  PROVE  AtStep(act', "off")
BY DEF OffThen, Go, ActOK, AtStep, Steps, Begins

LEMMA AwaitStep ==
  ASSUME ActOK(act), Await
  PROVE  AtStep(act', "poll")
<1>1. PICK n \in Waits : act' = [act EXCEPT !.step = "poll", !.wait = n]
  BY DEF Await, Go
<1>2. n \in Nat
  BY CardsAssumption
<1>3. QED
  BY <1>1, <1>2 DEF ActOK, AtStep, Steps, Begins

LEMMA IdleStep == ActOK(NoAct) /\ NoAct.step = "idle"
BY CardsAssumption DEF ActOK, NoAct, Steps, Begins

LEMMA FailedStep ==
  ASSUME ActOK(act), NEW r, Failed(r)
  PROVE  act' = NoAct \/ AtStep(act', "off")
BY OffThenStep DEF Failed, Return

LEMMA SucceededStep ==
  ASSUME ActOK(act), NEW c, Succeeded(c)
  PROVE  act' = NoAct \/ AtStep(act', "off")
BY OffThenStep DEF Succeeded, Return

-----------------------------------------------------------------------------
(* What the steps have in common.                                          *)

\* Nothing is required of the slot.
LEMMA NothingRequired ==
  ASSUME ~powered' \/ act'.step \in {"on", "off", "off again", "switch off"}
  PROVE  Progress'
BY DEF Progress, Evaluated, Reset, Negotiates, Requested, Announces, Ready, Awaited

\* The slot and the command stay as they are.
LEMMA NothingChanged ==
  ASSUME Progress, UNCHANGED <<act, card, powered, cardRate, proto, readerRate, refused, Protokoll>>
  PROVE  Progress'
BY DEF Progress, Evaluated, Reset, Negotiates, Requested, Announces, Ready, Awaited, InUse

\* A card in use stays in use.
LEMMA StillInUse ==
  ASSUME Progress, UNCHANGED <<card, powered, cardRate, proto, readerRate, refused, Protokoll>>,
         act.step \in {"idle", "status", "xfr"}, act'.step \in {"idle", "status", "xfr"}
  PROVE  Progress'
BY DEF Progress, Evaluated, Reset, Negotiates, Requested, Announces, Ready, Awaited, InUse

LEMMA ExchangeFacts ==
  /\ Exchange = "SUCCESS" => powered /\ ~lost
  /\ SlotOK /\ Exchange # "SUCCESS" => ~powered
BY DEF Exchange, InSlot, SlotOK
-----------------------------------------------------------------------------
(* The steps.                                                              *)

LEMMA SurroundingsStep == ASSUME IInv, Surroundings PROVE IInv'
<1> USE DEF IInv
<1>1. UNCHANGED <<act, open, path, file, Protokoll, proto, readerRate, refused>>
  BY DEF Surroundings, Insert, Pull, PressCancel, Unplug, HandleCyberJackInterruptData, Happens,
         handle, reader
<1>2. ActOK(act') /\ FilesOK' /\ OpenOK'
  BY <1>1 DEF FilesOK, OpenOK, Idle
<1>3. ASSUME NEW c \in Cards, Insert(c) PROVE SlotOK' /\ Progress'
  <2>1. card' \in Cards /\ powered' = powered /\ ~powered
    BY <1>3 DEF Insert, SlotOK
  <2>2. QED
    BY <1>1, <1>2, <2>1, NothingRequired DEF SlotOK
<1>4. CASE Pull
  <2>1. card' = NoCard /\ powered' = FALSE
    BY <1>4 DEF Pull
  <2>2. QED
    BY <1>1, <1>2, <2>1, NothingRequired DEF SlotOK
<1>5. CASE Unplug
  <2>1. card' = card /\ powered' = FALSE
    BY <1>5 DEF Unplug
  <2>2. QED
    BY <1>1, <1>2, <2>1, NothingRequired DEF SlotOK
<1>6. CASE PressCancel \/ HandleCyberJackInterruptData
  <2>1. UNCHANGED <<card, powered, cardRate, lost>>
    BY <1>6 DEF PressCancel, HandleCyberJackInterruptData, slot
  <2>2. QED
    BY <1>1, <1>2, <2>1, NothingChanged DEF SlotOK
<1>7. QED
  BY <1>2, <1>3, <1>4, <1>5, <1>6 DEF Surroundings

LEMMA OpenCloseStep == ASSUME IInv, ctapiInit \/ ctapiClose PROVE IInv'
<1> USE DEF IInv
<1>1. /\ UNCHANGED <<act, card, proto, refused>> /\ powered' = FALSE
      /\ path' \in {path, "3f00"} /\ file' \in {file, "none"}
      /\ file' # "none" => path' = path
      /\ Protokoll' \in {Protokoll, 0}
      /\ ~Idle => open'
  BY DEF ctapiInit, ctapiClose, handle, reader, OpenOK
<1>2. ActOK(act') /\ OpenOK' /\ FilesOK'
  BY <1>1 DEF OpenOK, Idle, FilesOK
<1>3. SlotOK' /\ Progress'
  BY <1>1, NothingRequired DEF SlotOK
<1>4. QED
  BY <1>2, <1>3

\* A command begins: an exchange with a card in use, or one that has no need of it.
LEMMA StartStep ==
  ASSUME IInv, NEW op, NEW fits, NEW step \in {"switch off", "status", "xfr"},
         Start(op, fits, step), Begins(op, step)
  PROVE  IInv'
<1> USE DEF IInv
<1>1. /\ open /\ Idle
      /\ act' = [NoAct EXCEPT !.step = step, !.op = op, !.fits = fits]
      /\ UNCHANGED <<open, path, file, Protokoll, card, powered, cardRate, proto, readerRate, refused, lost>>
  BY DEF Start, Begin, slot, reader
<1>2. ActOK(act') /\ act'.step = step
  BY <1>1, IdleStep DEF ActOK, NoAct, Steps, Begins
<1>3. FilesOK' /\ SlotOK' /\ OpenOK'
  BY <1>1 DEF FilesOK, SlotOK, OpenOK
<1>4. Progress'
  BY <1>1, <1>2, NothingRequired, StillInUse DEF Idle
<1>5. QED
  BY <1>2, <1>3, <1>4

\* SELECT FILE: what is selected lies in the directory.
LEMMA SelectStep == ASSUME FilesOK, NEW f \in DOMAIN Directory \cup {"3f00", "7f60", "7f70"}, Select(f)
                    PROVE  FilesOK'
BY DEF FilesOK, Select

LEMMA FileStep ==
  ASSUME IInv, NEW room, NEW f \in DOMAIN Directory \cup {"3f00", "7f60", "7f70"},
         Refuse \/ ReadBinary(room) \/ SelectFile(f, room)
  PROVE  IInv'
<1> USE DEF IInv
<1>1. UNCHANGED <<act, open, Protokoll, card, powered, cardRate, proto, readerRate, refused, lost>>
  BY DEF Refuse, ReadBinary, SelectFile, Begin, slot, reader
<1>2. SlotOK' /\ OpenOK' /\ Progress' /\ ActOK(act')
  BY <1>1, NothingChanged DEF SlotOK, OpenOK, Idle
<1>3. UNCHANGED <<path, file>> \/ Select(f)
  BY DEF Refuse, ReadBinary, SelectFile
<1>4. FilesOK'
  BY <1>3, SelectStep DEF FilesOK
<1>5. QED
  BY <1>2, <1>4

LEMMA CommandStep == ASSUME IInv, Command PROVE IInv'
<1>1. ASSUME NEW op, NEW fits, NEW step \in {"switch off", "status", "xfr"},
         Start(op, fits, step), Begins(op, step)
      PROVE  IInv'
  BY <1>1, StartStep
<1>2. ASSUME NEW fits \in BOOLEAN, ResetCT(fits) \/ ResetICC(fits) \/ RequestICC(fits) PROVE IInv'
  BY <1>1, <1>2 DEF ResetCT, ResetICC, RequestICC, Begins, Activations
<1>3. CASE ResetTerminal \/ Deactivate \/ Eject \/ GetStatus \/ Transmit
  BY <1>1, <1>3 DEF ResetTerminal, Deactivate, Eject, GetStatus, Transmit, Begins, Activations
<1>4. QED
  BY <1>2, <1>3, FileStep DEF Command

-----------------------------------------------------------------------------
(* The exchanges of an activation.                                         *)

\* An exchange changes neither the files nor whether the handle is open.
LEMMA DriverFrame ==
  ASSUME IInv, DriverStep
  PROVE  /\ ~Idle
         /\ UNCHANGED <<open, path, file, card, lost>>
         /\ FilesOK' /\ OpenOK'
<1>1. ~Idle /\ UNCHANGED <<open, path, file, card, lost>>
  BY DEF DriverStep, PowerOnFails, PowerOnMemory, PowerOnProcessor, OffAgain, SetParameters,
         PpsAnswered, PpsFails, AnnounceIfsd, TransmitStep, EndOff, SwitchOff, GetSlotStatus, Poll,
         Idle, handle, slot
<1>2. FilesOK'
  BY <1>1 DEF IInv, FilesOK
<1>3. OpenOK'
  BY <1>1 DEF IInv, OpenOK
<1>4. QED
  BY <1>1, <1>2, <1>3

\* What is left to show of an exchange.
Shown == ActOK(act') /\ SlotOK' /\ Progress'

LEMMA PowerOnFailsStep == ASSUME IInv, PowerOnFails PROVE Shown
<1>1. AtStep(act', "off")
  BY OffThenStep DEF PowerOnFails, IInv
<1>2. SlotOK'
  BY DEF PowerOnFails, IInv, SlotOK, OpenOK, Idle, handle, reader
<1>3. QED
  BY <1>1, <1>2, NothingRequired DEF AtStep, Shown

LEMMA PowerOnMemoryStep == ASSUME IInv, PowerOnMemory PROVE Shown
<1>1. /\ act.step = "on" /\ ~lost /\ card.atr \in {"sync", "odd"} /\ powered' = TRUE
      /\ Protokoll' = SyncProtocol(card)
      /\ UNCHANGED <<open, card, lost, proto, readerRate, refused>>
  BY DEF PowerOnMemory, reader
<1>2. card \in Cards /\ card # NoCard /\ card.proto \in {8, 9, 10}
  BY <1>1, NoCardFacts, MemoryFacts DEF IInv, SlotOK
<1>3. SlotOK'
  BY <1>1, <1>2 DEF IInv, SlotOK, SyncProtocol, OpenOK, Idle
<1>4. InUse(card)'
  BY <1>1, <1>2 DEF InUse, SyncProtocol
<1>5. act' = NoAct \/ AtStep(act', "off")
  BY SucceededStep DEF PowerOnMemory, IInv
<1>6. CASE act' = NoAct
  BY <1>3, <1>4, <1>6, IdleStep
     DEF Shown, Progress, Evaluated, Reset, Negotiates, Requested, Announces, Ready, Awaited
<1>7. CASE AtStep(act', "off")
  BY <1>3, <1>7, NothingRequired DEF AtStep, Shown
<1>8. QED
  BY <1>5, <1>6, <1>7

LEMMA PowerOnProcessorStep == ASSUME IInv, PowerOnProcessor PROVE Shown
<1>1. /\ act.step = "on" /\ ~lost /\ card.atr \in {"ok", "cold", "faulty", "spoilt"}
      /\ powered' = TRUE /\ cardRate' = IF card.specific THEN card.rate ELSE "default"
      /\ UNCHANGED <<open, card, lost, proto, readerRate, refused, Protokoll>>
  BY DEF PowerOnProcessor, reader, handle
<1>2. card \in Cards /\ card # NoCard /\ card.proto \in {0, 1}
  BY <1>1, NoCardFacts, ProcessorFacts DEF IInv, SlotOK
<1>3. SlotOK'
  BY <1>1, <1>2 DEF IInv, SlotOK, OpenOK, Idle
<1>4. CASE AtStep(act', "off")
  BY <1>3, <1>4, NothingRequired DEF AtStep, Shown
<1>5. CASE act' = [act EXCEPT !.warm = TRUE, !.step = IF act.warm THEN "off again" ELSE "on"]
  <2>1. ActOK(act') /\ act'.step \in {"off again", "on"}
    BY <1>5 DEF IInv, ActOK, Steps, Begins
  <2>2. QED
    BY <1>3, <2>1, NothingRequired DEF Shown
<1>6. CASE act' = [act EXCEPT !.step = "params", !.atr = card]
  <2>1. ActOK(act') /\ act'.step = "params" /\ act'.atr = card
    BY <1>2, <1>6 DEF IInv, ActOK, Steps, Begins
  <2>2. Progress'
    BY <1>1, <1>2, <2>1
       DEF Progress, Evaluated, Reset, Negotiates, Requested, Announces, Ready, Awaited
  <2>3. QED
    BY <1>3, <2>1, <2>2 DEF Shown
<1>7. QED
  BY <1>4, <1>5, <1>6, OffThenStep DEF PowerOnProcessor, Go, IInv

\* The end of the negotiation: a T=0 card is in use, a T=1 card is still to be asked.
LEMMA SettledStep ==
  ASSUME IInv, act.atr = card, card.proto \in {0, 1}, Settled, card' = card,
         ActOK(act), SlotOK', card.proto = 0 => InUse(card)'
  PROVE  Shown
<1>1. CASE card.proto = 0
  <2>1. Succeeded(act.atr) /\ InUse(card)'
    BY <1>1 DEF Settled
  <2>2. act' = NoAct \/ AtStep(act', "off")
    BY <2>1, SucceededStep
  <2>3. CASE act' = NoAct
    BY <2>1, <2>3, IdleStep
       DEF Shown, Progress, Evaluated, Reset, Negotiates, Requested, Announces, Ready, Awaited
  <2>4. CASE AtStep(act', "off")
    BY <2>4, NothingRequired DEF AtStep, Shown
  <2>5. QED
    BY <2>2, <2>3, <2>4
<1>2. CASE card.proto = 1
  <2>1. GoTo("ifs") /\ Protokoll' = 1
    BY <1>2 DEF Settled
  <2>2. AtStep(act', "ifs")
    BY <2>1, GoToStep DEF Steps
  <2>3. QED
    BY <1>2, <2>1, <2>2
       DEF AtStep, Shown, Progress, Evaluated, Reset, Negotiates, Requested, Announces, Ready, Awaited
<1>3. QED
  BY <1>1, <1>2

LEMMA SetParametersStep == ASSUME IInv, NEW taken \in BOOLEAN, SetParameters(taken) PROVE Shown
<1>1. /\ act.step \in {"params", "params again"}
      /\ UNCHANGED <<open, card, powered, cardRate, lost>>
  BY DEF SetParameters, slot
<1>2. CASE Exchange # "SUCCESS"
  <2>1. ~powered /\ ~powered' /\ UNCHANGED <<proto, refused, Protokoll>>
    BY <1>1, <1>2, ExchangeFacts DEF IInv, SetParameters, reader
  <2>2. ActOK(act')
    <3>1. act' = NoAct \/ AtStep(act', "off")
      BY <1>2, FailedStep DEF SetParameters, IInv
    <3>2. QED
      BY <3>1, IdleStep DEF AtStep
  <2>3. QED
    BY <1>1, <2>1, <2>2, NothingRequired DEF IInv, SlotOK, Shown
<1>3. CASE Exchange = "SUCCESS"
  <2>1. /\ powered /\ act.atr = card /\ card.proto \in {0, 1}
        /\ cardRate = IF card.specific THEN card.rate ELSE "default"
        /\ act.step = "params again" => ~card.specific
    BY <1>1, <1>3, ExchangeFacts DEF IInv, Progress, Evaluated, Reset, Negotiates
  <2>2. /\ taken => /\ proto' = card.proto
                     /\ readerRate' = IF act.step = "params" THEN DriverRate(card) ELSE "default"
        /\ ~taken => UNCHANGED <<proto, readerRate>> /\ refused' = TRUE
        /\ refused' \in BOOLEAN
    BY <1>3, <2>1 DEF SetParameters
  <2>3. CASE act.step = "params" /\ act.atr.rate # "default" /\ ~act.atr.specific
    <3>1. GoTo("pps") /\ UNCHANGED Protokoll
      BY <1>3, <2>3 DEF SetParameters
    <3>2. AtStep(act', "pps")
      BY <3>1, GoToStep DEF IInv, Steps
    <3>3. SlotOK'
      BY <1>1, <2>1, <2>2, <3>1 DEF IInv, SlotOK
    <3>4. Progress'
      BY <1>1, <2>1, <2>2, <2>3, <3>2
         DEF AtStep, Progress, Evaluated, Reset, Negotiates, Requested, Announces, Ready, Awaited, DriverRate
    <3>5. QED
      BY <3>2, <3>3, <3>4 DEF AtStep, Shown
  <2>4. CASE ~(act.step = "params" /\ act.atr.rate # "default" /\ ~act.atr.specific)
    <3>1. Settled
      BY <1>3, <2>4 DEF SetParameters
    <3>2. Protokoll' = card.proto
      BY <2>1, <3>1 DEF Settled
    <3>3. SlotOK'
      BY <1>1, <2>1, <2>2, <3>2 DEF IInv, SlotOK
    <3>4. ASSUME card.proto = 0, taken PROVE InUse(card)'
      <4>1. /\ proto' = card.proto
            /\ readerRate' = IF act.step = "params" THEN DriverRate(card) ELSE "default"
        BY <2>2, <3>4
      <4>2. ~(card.specific /\ card.rate = "top") => readerRate' = cardRate'
        BY <1>1, <2>1, <2>4, <4>1 DEF DriverRate
      <4>3. card' = card /\ card'.proto = 0 /\ Protokoll' = card'.proto
        BY <1>1, <3>2, <3>4
      <4>4. QED
        BY <4>1, <4>2, <4>3 DEF InUse
    <3>5. ASSUME card.proto = 0, ~taken PROVE InUse(card)'
      <4>1. refused' = TRUE
        BY <2>2, <3>5
      <4>2. card' = card /\ card'.proto = 0 /\ Protokoll' = card'.proto
        BY <1>1, <3>2, <3>5
      <4>3. QED
        BY <4>1, <4>2 DEF InUse
    <3>6. QED
      BY <1>1, <2>1, <3>1, <3>3, <3>4, <3>5, SettledStep DEF IInv
  <2>5. QED
    BY <2>3, <2>4
<1>4. QED
  BY <1>2, <1>3

LEMMA PpsAnsweredStep == ASSUME IInv, NEW agreed, PpsAnswered(agreed) PROVE Shown
<1>1. /\ act.step = "pps" /\ Exchange = "SUCCESS"
      /\ UNCHANGED <<open, card, powered, lost, proto, readerRate, refused>>
  BY DEF PpsAnswered, XfrBlock, reader
<1>2. /\ powered /\ act.atr = card /\ card.proto \in {0, 1} /\ ~card.specific
      /\ cardRate = "default"
      /\ ~refused => proto = card.proto /\ readerRate = DriverRate(card)
  BY <1>1, ExchangeFacts DEF IInv, Progress, Evaluated, Reset, Negotiates, Requested
<1>3. CASE agreed
  <2>1. cardRate' = DriverRate(card) /\ Settled
    BY <1>2, <1>3 DEF PpsAnswered
  <2>2. Protokoll' = card.proto
    BY <1>2, <2>1 DEF Settled
  <2>3. SlotOK'
    BY <1>1, <1>2, <2>2 DEF IInv, SlotOK
  <2>4. card.proto = 0 => InUse(card)'
    BY <1>1, <1>2, <2>1, <2>2 DEF InUse
  <2>5. QED
    BY <1>1, <1>2, <2>1, <2>3, <2>4, SettledStep DEF IInv
<1>4. CASE ~agreed
  <2>1. GoTo("params again") /\ UNCHANGED <<cardRate, Protokoll>>
    BY <1>4 DEF PpsAnswered
  <2>2. AtStep(act', "params again")
    BY <2>1, GoToStep DEF IInv, Steps
  <2>3. SlotOK'
    BY <1>1, <2>1 DEF IInv, SlotOK
  <2>4. Progress'
    BY <1>1, <1>2, <2>1, <2>2
       DEF AtStep, Progress, Evaluated, Reset, Negotiates, Requested, Announces, Ready, Awaited
  <2>5. QED
    BY <2>2, <2>3, <2>4 DEF AtStep, Shown
<1>5. QED
  BY <1>3, <1>4

LEMMA PpsFailsStep == ASSUME IInv, NEW r, PpsFails(r) PROVE Shown
<1>1. AtStep(act', "off")
  BY OffThenStep DEF PpsFails, IInv
<1>2. SlotOK'
  BY DEF PpsFails, IInv, SlotOK, handle, reader, slot
<1>3. QED
  BY <1>1, <1>2, NothingRequired DEF AtStep, Shown

LEMMA AnnounceIfsdStep == ASSUME IInv, NEW r \in XfrResults, AnnounceIfsd(r) PROVE Shown
<1>1. /\ act.step = "ifs"
      /\ UNCHANGED <<open, card, powered, cardRate, lost, proto, readerRate, refused, Protokoll>>
  BY DEF AnnounceIfsd, slot, reader, handle
<1>2. SlotOK'
  BY <1>1 DEF IInv, SlotOK
<1>3. CASE AtStep(act', "off")
  BY <1>2, <1>3, NothingRequired DEF AtStep, Shown
<1>5. CASE act.tries + 1 # IfsTries /\ act' = [act EXCEPT !.tries = act.tries + 1]
  <2>1. act.tries + 1 \in 0 .. IfsTries - 1
    BY <1>5, CardsAssumption DEF IInv, ActOK
  <2>2. ActOK(act') /\ act'.step = "ifs" /\ act'.atr = act.atr
    BY <1>1, <1>5, <2>1 DEF IInv, ActOK
  <2>3. Progress'
    BY <1>1, <2>2
       DEF IInv, Progress, Evaluated, Reset, Negotiates, Requested, Announces, Ready, Awaited, InUse
  <2>4. QED
    BY <1>2, <2>2, <2>3 DEF Shown
<1>6. CASE r = "SUCCESS"
  <2>1. Exchange = "SUCCESS" /\ Hears
    BY <1>6 DEF AnnounceIfsd, XfrBlock
  <2>2. InUse(card)
    BY <1>1, <2>1, ExchangeFacts DEF IInv, Progress, Announces, Hears, InUse
  <2>3. act' = NoAct => Shown
    BY <1>1, <1>2, <2>2, IdleStep
       DEF Shown, Progress, Evaluated, Reset, Negotiates, Requested, Announces, Ready, Awaited, InUse
  <2>4. QED
    BY <1>3, <1>6, <2>3, SucceededStep DEF AnnounceIfsd, IInv
<1>7. CASE r = "TIMEOUT"
  BY <1>3, <1>5, <1>7, OffThenStep DEF AnnounceIfsd, Go, IInv
<1>8. CASE r \notin {"SUCCESS", "TIMEOUT"}
  BY <1>3, <1>8, OffThenStep DEF AnnounceIfsd, Failed, IInv
<1>9. QED
  BY <1>6, <1>7, <1>8

-----------------------------------------------------------------------------
(* The other exchanges.                                                    *)

LEMMA OffStep == ASSUME IInv, OffAgain \/ EndOff PROVE Shown
<1>1. ~powered' /\ UNCHANGED <<open, card, lost, proto, refused, Protokoll>>
  BY DEF OffAgain, EndOff, PowerOff, reader, handle
<1>2. ActOK(act')
  <2>1. CASE OffAgain
    <3>1. AtStep(act', "on")
      BY <2>1, GoToStep DEF OffAgain, IInv, Steps
    <3>2. QED
      BY <3>1 DEF AtStep
  <2>2. CASE EndOff
    BY <2>2, IdleStep DEF EndOff, Return
  <2>3. QED
    BY <2>1, <2>2
<1>3. QED
  BY <1>1, <1>2, NothingRequired DEF IInv, SlotOK, Shown

LEMMA SwitchOffStep == ASSUME IInv, SwitchOff PROVE Shown
<1>1. ~powered' /\ UNCHANGED <<open, card, lost, proto, refused, Protokoll>>
  BY DEF SwitchOff, PowerOff, reader, handle
<1>2. ASSUME NEW a, Return(a) PROVE ActOK(act')
  BY <1>2, IdleStep DEF Return
<1>3. ASSUME GoTo("on") PROVE ActOK(act')
  <2>1. AtStep(act', "on")
    BY <1>3, GoToStep DEF IInv, Steps
  <2>2. QED
    BY <2>1 DEF AtStep
<1>4. ASSUME Await PROVE ActOK(act')
  BY <1>4, AwaitStep DEF AtStep, IInv
<1>5. ActOK(act')
  <2>1. CASE act.op \in Activations
    BY <1>3, <2>1 DEF SwitchOff, Activations
  <2>2. CASE act.op = "RESET"
    BY <1>2, <2>2 DEF SwitchOff, Activations
  <2>3. CASE act.op = "DEACTIVATE ICC"
    BY <1>2, <2>3 DEF SwitchOff, Activations
  <2>4. CASE act.op = "EJECT ICC"
    BY <1>2, <1>4, <2>4 DEF SwitchOff, Activations
  <2>5. QED
    BY <2>1, <2>2, <2>3, <2>4 DEF IInv, ActOK, Begins, SwitchOff
<1>6. QED
  BY <1>1, <1>5, NothingRequired DEF IInv, SlotOK, Shown

LEMMA GetSlotStatusStep == ASSUME IInv, GetSlotStatus PROVE Shown
<1>1. /\ act.step = "status"
      /\ UNCHANGED <<open, card, powered, cardRate, lost, proto, readerRate, refused, Protokoll>>
  BY DEF GetSlotStatus, slot, reader
<1>2. SlotOK'
  BY <1>1 DEF IInv, SlotOK
<1>3. ASSUME NEW a, Return(a) PROVE Shown
  <2>1. ActOK(act') /\ act'.step = "idle"
    BY <1>3, IdleStep DEF Return
  <2>2. QED
    BY <1>1, <1>2, <2>1, StillInUse DEF IInv, Shown
<1>4. ASSUME Exchange # "SUCCESS", Await \/ GoTo("on") PROVE Shown
  <2>1. ~powered'
    BY <1>1, <1>4, ExchangeFacts DEF IInv
  <2>2. AtStep(act', "poll") \/ AtStep(act', "on")
    BY <1>4, AwaitStep, GoToStep DEF IInv, Steps
  <2>3. QED
    BY <1>2, <2>1, <2>2, NothingRequired DEF AtStep, Shown
<1>5. QED
  BY <1>3, <1>4 DEF GetSlotStatus

LEMMA PollStep == ASSUME IInv, Poll PROVE Shown
<1>1. /\ act.step = "poll" /\ ~powered
      /\ UNCHANGED <<open, card, powered, lost, proto, refused, Protokoll>>
  BY DEF Poll, slot, reader, handle, IInv, Progress, Awaited
<1>2. ActOK(act')
  <2>1. ASSUME act.wait > 0, act' = [act EXCEPT !.wait = act.wait - 1] PROVE ActOK(act')
    <3>1. act.wait - 1 \in Nat
      BY <2>1 DEF IInv, ActOK
    <3>2. QED
      BY <1>1, <2>1, <3>1 DEF IInv, ActOK
  <2>2. ASSUME NEW a, Return(a) PROVE ActOK(act')
    BY <2>2, IdleStep DEF Return
  <2>3. ASSUME GoTo("on") PROVE ActOK(act')
    <3>1. AtStep(act', "on")
      BY <2>3, GoToStep DEF IInv, Steps
    <3>2. QED
      BY <3>1 DEF AtStep
  <2>4. QED
    BY <2>1, <2>2, <2>3 DEF Poll, Go
<1>3. QED
  BY <1>1, <1>2, NothingRequired DEF IInv, SlotOK, Shown

LEMMA TransmitStepStep == ASSUME IInv, NEW r, TransmitStep(r) PROVE Shown
<1>1. /\ act.step = "xfr"
      /\ UNCHANGED <<open, card, lost, proto, readerRate, refused, Protokoll>>
      /\ ~powered' \/ UNCHANGED <<powered, cardRate>>
  BY DEF TransmitStep, PowerOff, reader, handle
<1>2. ActOK(act') /\ act'.step = "idle"
  BY IdleStep DEF TransmitStep, Return
<1>3. SlotOK'
  BY <1>1 DEF IInv, SlotOK
<1>4. Progress'
  BY <1>1, <1>2, StillInUse, NothingRequired DEF IInv
<1>5. QED
  BY <1>2, <1>3, <1>4 DEF Shown

LEMMA DriverStepStep == ASSUME IInv, DriverStep PROVE IInv'
<1>1. Shown
  BY PowerOnFailsStep, PowerOnMemoryStep, PowerOnProcessorStep, OffStep, SetParametersStep,
     PpsAnsweredStep, PpsFailsStep, AnnounceIfsdStep, TransmitStepStep, SwitchOffStep,
     GetSlotStatusStep, PollStep DEF DriverStep
<1>2. QED
  BY <1>1, DriverFrame DEF IInv, Shown

LEMMA InvariantStep == ASSUME IInv, [Next]_vars PROVE IInv'
<1>1. CASE UNCHANGED vars
  <2>1. UNCHANGED <<act, open, path, file, card, powered, cardRate, lost, proto, readerRate, refused, Protokoll>>
    BY <1>1 DEF vars, handle, slot, reader
  <2>2. FilesOK' /\ SlotOK' /\ OpenOK' /\ ActOK(act')
    BY <2>1 DEF IInv, FilesOK, SlotOK, OpenOK, Idle
  <2>3. QED
    BY <2>1, <2>2, NothingChanged DEF IInv
<1>2. QED
  BY <1>1, OpenCloseStep, CommandStep, DriverStepStep, SurroundingsStep DEF Next

LEMMA InvariantInit == Init => IInv
<1> SUFFICES ASSUME Init PROVE IInv
  OBVIOUS
<1>1. ActOK(act) /\ act.step = "idle"
  BY IdleStep DEF Init
<1>2. FilesOK /\ SlotOK /\ OpenOK
  BY <1>1 DEF Init, FilesOK, SlotOK, OpenOK, Idle
<1>3. Progress
  BY <1>1 DEF Init, Progress, Evaluated, Reset, Negotiates, Requested, Announces, Ready, Awaited
<1>4. QED
  BY <1>1, <1>2, <1>3 DEF IInv

\* The activation, step by step: whose ATR is evaluated, which rates the card
\* and the reader use by then, and that a powered card is in use otherwise.
THEOREM PpaSlotInvariant == Spec => []IInv
BY InvariantInit, InvariantStep, PTL DEF Spec

\* Type correctness: among others a command in progress has an open handle, a
\* powered card is in a reader that is there, and the selected file of the
\* reader lies in its current directory (READ BINARY, cjdata.c 1036-1102).
THEOREM PpaSlotTypeCorrect == Spec => []TypeOK
BY PpaSlotInvariant, InvariantTypes, PTL

\* Between commands a powered card is one the driver can speak to, whatever was
\* pulled or lost during the activations before (ctBcsReset): a T=1 card also if the
\* reader refused its parameters, a T=0 card if it did not (cjccid.c:349).
THEOREM PpaSlotPoweredIsReady == Spec => []PoweredIsReady
<1>1. IInv => PoweredIsReady
  BY DEF IInv, Progress, Ready, InUse, PoweredIsReady, Idle
<1>2. QED
  BY <1>1, PpaSlotInvariant, PTL

-----------------------------------------------------------------------------
(* What the answers tell.                                                  *)

Active == {"9000", "9001", "6201"}
Tells == act'.step = "idle" /\ act.op \in Activations => (answer' \in Active <=> powered')

\* The command goes on.
LEMMA NoAnswerYet == ASSUME NEW s, AtStep(act', s), s # "idle" PROVE Tells
BY DEF AtStep, Tells

LEMMA OffTells == ASSUME ActOK(act), NEW r, OffThen(r) PROVE Tells
BY OffThenStep, NoAnswerYet

LEMMA SucceededTells ==
  ASSUME ActOK(act), NEW c, Succeeded(c), powered'
  PROVE  Tells
BY OffTells DEF Succeeded, Return, Tells, Active

LEMMA FailedTells ==
  ASSUME ActOK(act), NEW r, Failed(r), r = "NO_ICC" => ~powered', r \notin {"TIMEOUT", "PROT"}
  PROVE  Tells
<1>1. CASE r = "NO_ICC"
  BY <1>1 DEF Failed, Return, Tells, Active
<1>2. CASE r # "NO_ICC"
  BY <1>2, OffTells DEF Failed
<1>3. QED
  BY <1>1, <1>2

LEMMA SettledTells == ASSUME ActOK(act), Settled, powered' PROVE Tells
<1>1. GoTo("ifs") => AtStep(act', "ifs")
  BY GoToStep DEF Steps
<1>2. QED
  BY <1>1, NoAnswerYet, SucceededTells DEF Settled

LEMMA PowerOnTells ==
  ASSUME IInv, PowerOnFails \/ PowerOnMemory \/ PowerOnProcessor PROVE Tells
<1>1. CASE PowerOnFails
  BY <1>1, OffTells DEF PowerOnFails, IInv
<1>2. CASE PowerOnMemory
  BY <1>2, SucceededTells DEF PowerOnMemory, IInv
<1>3. CASE PowerOnProcessor
  <2>1. CASE act' = [act EXCEPT !.warm = TRUE, !.step = IF act.warm THEN "off again" ELSE "on"]
    BY <2>1 DEF IInv, ActOK, Tells
  <2>2. CASE act' = [act EXCEPT !.step = "params", !.atr = card]
    BY <2>2 DEF IInv, ActOK, Tells
  <2>3. QED
    BY <1>3, <2>1, <2>2, OffTells DEF PowerOnProcessor, Go, IInv
<1>4. QED
  BY <1>1, <1>2, <1>3

LEMMA ParametersTell ==
  ASSUME IInv, NEW r \in XfrResults, NEW agreed, NEW taken \in BOOLEAN,
         SetParameters(taken) \/ PpsAnswered(agreed) \/ PpsFails(r) \/ AnnounceIfsd(r)
  PROVE  Tells
<1>1. ActOK(act) /\ powered' = powered
  BY DEF IInv, SetParameters, PpsAnswered, PpsFails, AnnounceIfsd, slot
<1>2. ASSUME NEW s \in {"pps", "params again"}, GoTo(s) PROVE Tells
  <2>1. AtStep(act', s)
    BY <1>1, <1>2, GoToStep DEF Steps
  <2>2. QED
    BY <2>1, NoAnswerYet
<1>3. CASE SetParameters(taken)
  <2>1. CASE Exchange # "SUCCESS"
    <3>1. Failed(Exchange) /\ ~powered'
      BY <1>1, <1>3, <2>1, ExchangeFacts DEF SetParameters, IInv
    <3>2. Exchange \notin {"TIMEOUT", "PROT"}
      BY DEF Exchange, InSlot
    <3>3. QED
      BY <1>1, <3>1, <3>2, FailedTells
  <2>2. CASE Exchange = "SUCCESS"
    BY <1>1, <1>2, <1>3, <2>2, SettledTells, ExchangeFacts DEF SetParameters
  <2>3. QED
    BY <2>1, <2>2
<1>4. CASE PpsAnswered(agreed)
  <2>1. Exchange = "SUCCESS"
    BY <1>4 DEF PpsAnswered, XfrBlock
  <2>2. CASE agreed
    BY <1>1, <1>4, <2>1, <2>2, SettledTells, ExchangeFacts DEF PpsAnswered
  <2>3. CASE ~agreed
    BY <1>2, <1>4, <2>3 DEF PpsAnswered
  <2>4. QED
    BY <2>2, <2>3
<1>5. CASE PpsFails(r)
  BY <1>1, <1>5, OffTells DEF PpsFails
<1>6. CASE AnnounceIfsd(r)
  <2>1. CASE r = "SUCCESS"
    <3>1. Exchange = "SUCCESS"
      BY <1>6, <2>1 DEF AnnounceIfsd, XfrBlock
    <3>2. QED
      BY <1>1, <1>6, <2>1, <3>1, SucceededTells, ExchangeFacts DEF AnnounceIfsd
  <2>2. CASE r = "TIMEOUT"
    <3>1. act' = [act EXCEPT !.tries = act.tries + 1] => act'.step = "ifs"
      BY <1>6 DEF AnnounceIfsd, IInv, ActOK
    <3>2. QED
      BY <1>1, <1>6, <2>2, <3>1, OffTells DEF AnnounceIfsd, Go, Tells
  <2>3. CASE r \notin {"SUCCESS", "TIMEOUT"}
    <3>1. Failed("DEVICE_LOST")
      BY <1>6, <2>3 DEF AnnounceIfsd
    <3>2. QED
      BY <1>1, <3>1, FailedTells
  <2>4. QED
    BY <2>1, <2>2, <2>3
<1>7. QED
  BY <1>3, <1>4, <1>5, <1>6

LEMMA OthersTell ==
  ASSUME IInv, NEW r,
         OffAgain \/ EndOff \/ SwitchOff \/ GetSlotStatus \/ Poll \/ TransmitStep(r)
  PROVE  Tells
<1>1. ActOK(act)
  BY DEF IInv
<1>2. ASSUME GoTo("on") \/ Await PROVE Tells
  BY <1>1, <1>2, GoToStep, AwaitStep, NoAnswerYet DEF Steps
<1>3. CASE OffAgain
  BY <1>2, <1>3 DEF OffAgain
<1>4. CASE EndOff
  BY <1>4 DEF EndOff, PowerOff, Return, Tells, Active
<1>5. CASE SwitchOff
  <2>1. CASE act.op \in Activations
    BY <1>2, <1>5, <2>1 DEF SwitchOff, Activations
  <2>2. QED
    BY <2>1 DEF Tells
<1>6. CASE GetSlotStatus
  <2>1. powered' = powered /\ (Exchange = "SUCCESS" <=> powered)
    BY <1>6, ExchangeFacts DEF GetSlotStatus, slot, IInv
  <2>2. CASE act.op = "GET STATUS"
    BY <2>2 DEF Tells, Activations
  <2>3. CASE act.op # "GET STATUS" /\ Exchange = "SUCCESS"
    BY <1>6, <2>1, <2>3 DEF GetSlotStatus, Return, Tells, Active
  <2>4. CASE act.op # "GET STATUS" /\ Exchange # "SUCCESS"
    <3>1. Return("6200") => Tells
      BY <2>1, <2>4 DEF Return, Tells, Active
    <3>2. QED
      BY <1>2, <1>6, <2>4, <3>1 DEF GetSlotStatus
  <2>5. QED
    BY <2>2, <2>3, <2>4
<1>7. CASE Poll
  <2>1. ~powered'
    BY <1>7 DEF Poll, slot, IInv, Progress, Awaited
  <2>2. CASE act.op = "EJECT ICC"
    BY <2>2 DEF Tells, Activations
  <2>3. ASSUME NEW a \in {"6401", "6200"}, Return(a) PROVE Tells
    BY <2>1, <2>3 DEF Return, Tells, Active
  <2>4. ASSUME act' = [act EXCEPT !.wait = act.wait - 1] PROVE Tells
    <3>1. act'.step = "poll"
      BY <1>1, <1>7, <2>4 DEF Poll, ActOK
    <3>2. QED
      BY <3>1 DEF Tells
  <2>5. QED
    BY <1>2, <1>7, <2>2, <2>3, <2>4 DEF Poll, Go
<1>8. CASE TransmitStep(r)
  BY <1>1, <1>8 DEF TransmitStep, ActOK, Begins, Tells, Activations
<1>9. QED
  BY <1>3, <1>4, <1>5, <1>6, <1>7, <1>8

\* The answer to an activation tells whether the card is powered now, on every
\* path of RESET CT, RESET ICC and REQUEST ICC (cjdata.c 1105-1499).
THEOREM PpaSlotAnswerTells == Spec => AnswerTells
<1>1. ASSUME IInv, [Next]_vars, ~Idle, act'.step = "idle", act.op \in Activations
      PROVE  answer' \in {"9000", "9001", "6201"} <=> powered'
  <2>1. CASE DriverStep
    <3>1. Tells
      BY <1>1, <2>1, PowerOnTells, ParametersTell, OthersTell DEF DriverStep, XfrResults
    <3>2. QED
      BY <1>1, <3>1 DEF Tells, Active
  <2>2. CASE Command
    <3>1. Idle
      BY <2>2 DEF Command, ResetCT, ResetICC, RequestICC, ResetTerminal, Deactivate, Eject,
                  GetStatus, Transmit, Refuse, ReadBinary, SelectFile, Start, Begin
    <3>2. QED
      BY <1>1, <3>1
  <2>3. CASE ctapiInit \/ ctapiClose \/ Surroundings \/ UNCHANGED vars
    <3>1. act' = act
      BY <2>3 DEF ctapiInit, ctapiClose, Surroundings, Insert, Pull, PressCancel, Unplug,
                  HandleCyberJackInterruptData, Happens, vars
    <3>2. QED
      BY <1>1, <3>1 DEF Idle
  <2>4. QED
    BY <1>1, <2>1, <2>2, <2>3 DEF Next
<1>2. IInv /\ [Next]_vars => [(~Idle /\ act'.step = "idle" /\ act.op \in Activations)
                               => (answer' \in {"9000", "9001", "6201"} <=> powered')]_vars
  BY <1>1
<1>3. QED
  BY <1>2, PpaSlotInvariant, PTL DEF Spec, AnswerTells
=============================================================================
