--------------------------- MODULE CardSlotProofs ---------------------------
(***************************************************************************)
(* Proofs about the card slot of module CardSlot, for every set of cards,  *)
(* and whatever is inserted, removed or unplugged between two Transfers.   *)
(***************************************************************************)
EXTENDS CardSlot, TLAPS

Hosts ==
  [ReaderState : States, ActiveProtocol : Protocols \cup {None},
   PossibleProtocols : SUBSET Protocols, ATR : Cards \cup {None}, ATR_Length : {0, 1}]
Slots == [card : Cards \cup {None}, power : {"off", "reset"} \cup Protocols]
CommandsInProgress ==
  [op : {c.op : c \in Commands} \cup {"idle", "no room", "device lost"},
   room : BOOLEAN, prefer : {"T0", "T1", None}]

\* What the driver remembers as h is true of a powered card s: its protocol and
\* its ATR; and it has both if it takes the card for activated.
Agrees(s, h) ==
  s.power # "off" =>
    /\ h.ActiveProtocol # None => h.ActiveProtocol = s.power
    /\ h.ATR_Length # 0 => h.ATR = s.card
    /\ h.ReaderState \in {"NEGOTIABLE", "SPECIFIC"} => h.ATR_Length # 0
    /\ h.ReaderState = "SPECIFIC" => h.ActiveProtocol # None

OffOps ==
  {"RESET CT", "DEACTIVATE ICC", "EJECT ICC", "Disonnect", "TRANSMIT", "no room", "device lost"}
ResetOps == {"RESET ICC", "SET INTERFACE", "REQUEST ICC"}
ResetPlans ==
  {<<"off", "off", "on">>, <<"off", "on">>, <<"on">>, <<"warm">>, <<"off", "setprotocol">>,
   <<"sync", "setprotocol">>, <<"params">>}

\* The Transfers still to come fit the command.
Plan ==
  \/ command = Idle /\ todo = <<>>
  \/ command.op \in OffOps /\ todo = <<"off">>
  \/ command.op \in ResetOps /\ todo \in ResetPlans
  \/ command.op \in {"REQUEST ICC", "GET STATUS", "EJECT ICC wait"} /\ todo = <<"status">>
  \/ command.op = "EJECT ICC wait" /\ todo \in {<<"off", "off", "status">>, <<"off", "status">>}
  \/ command.op = "TRANSMIT" /\ todo = <<"xfr">>

\* What AnalyseATR and IfdSetProtocol decided still holds when the Transfer they
\* asked for is made.
Decided ==
  /\ todo = <<"params">> => host.ReaderState = "NEGOTIABLE" /\ Choice(host) # None
  /\ todo = <<"sync", "setprotocol">> => host.ReaderState = "SPECIFIC"
  /\ todo = <<"off", "setprotocol">> => host.ReaderState = "POWERED"

\* A command in progress has its reader object, and only a lost device is closed.
Attached == (todo # <<>> => object) /\ (object /\ comm # "open" => lost)

IInv ==
  /\ TypeOK /\ Plan /\ Decided /\ Attached
  /\ object => Agrees(slot, host)

\* The parts of the invariant that concern the command only.
ControlOK ==
  /\ object \in BOOLEAN /\ command \in CommandsInProgress /\ todo \in Seq(Transfers)
  /\ answer \in Answers
  /\ Plan
  /\ todo # <<>> => object

-----------------------------------------------------------------------------
(* Facts about the commands and the helpers.                               *)

LEMMA CommandParts ==
  ASSUME NEW c \in Commands
  PROVE  /\ c \in CommandsInProgress /\ c # Idle
         /\ c.op \in {"RESET CT", "GET STATUS", "DEACTIVATE ICC", "EJECT ICC", "EJECT ICC wait",
                      "TRANSMIT", "Disonnect", "RESET ICC", "REQUEST ICC", "SET INTERFACE"}
<1>1. /\ c.op \in {"RESET CT", "GET STATUS", "DEACTIVATE ICC", "EJECT ICC", "EJECT ICC wait",
                   "TRANSMIT", "Disonnect", "RESET ICC", "REQUEST ICC", "SET INTERFACE"}
      /\ c = [op |-> c.op, room |-> c.room, prefer |-> c.prefer]
      /\ c.room \in BOOLEAN /\ c.prefer \in {"T0", "T1", None}
  <2>1. ASSUME NEW op \in {"RESET CT", "GET STATUS", "DEACTIVATE ICC", "EJECT ICC",
                          "EJECT ICC wait", "TRANSMIT", "Disonnect", "RESET ICC",
                          "REQUEST ICC", "SET INTERFACE"},
               NEW room \in BOOLEAN, NEW prefer \in {"T0", "T1", None},
               c = Command(op, room, prefer)
        PROVE  /\ c.op = op /\ c.room = room /\ c.prefer = prefer
               /\ c = [op |-> c.op, room |-> c.room, prefer |-> c.prefer]
    BY <2>1 DEF Command
  <2>2. \E op \in {"RESET CT", "GET STATUS", "DEACTIVATE ICC", "EJECT ICC",
                   "EJECT ICC wait", "TRANSMIT", "Disonnect", "RESET ICC",
                   "REQUEST ICC", "SET INTERFACE"},
           room \in BOOLEAN, prefer \in {"T0", "T1", None} : c = Command(op, room, prefer)
    BY DEF Commands
  <2>3. QED
    BY <2>1, <2>2
<1>2. c.op \in {d.op : d \in Commands}
  OBVIOUS
<1>3. c \in CommandsInProgress
  BY <1>1, <1>2 DEF CommandsInProgress
<1>4. Idle.op = "idle"
  BY DEF Idle, Command
<1>5. QED
  BY <1>1, <1>3, <1>4

\* The state of the command the next Transfer is for.
LEMMA PlanOf ==
  ASSUME Plan
  PROVE  /\ Now("on") \/ Now("warm") \/ Now("params") \/ Now("sync") => command.op \in ResetOps
         /\ Now("params") => todo = <<"params">>
         /\ Now("sync") => todo = <<"sync", "setprotocol">>
         /\ Now("status") => command.op \in {"REQUEST ICC", "GET STATUS", "EJECT ICC wait"}
         /\ Now("xfr") => command.op = "TRANSMIT"
         /\ Now("off") =>
              \/ command.op \in OffOps /\ Tail(todo) = <<>>
              \/ command.op \in ResetOps /\ Tail(todo) \in {<<"off", "on">>, <<"on">>}
              \/ /\ command.op \in ResetOps /\ Tail(todo) = <<"setprotocol">>
                 /\ todo = <<"off", "setprotocol">>
              \/ command.op = "EJECT ICC wait" /\ Tail(todo) \in {<<"off", "status">>, <<"status">>}
<1>1. ASSUME NEW t, todo = <<t>> PROVE Head(todo) = t /\ Tail(todo) = <<>>
  BY <1>1
<1>2. ASSUME NEW t, NEW u, todo = <<t, u>> PROVE Head(todo) = t /\ Tail(todo) = <<u>>
  BY <1>2
<1>3. ASSUME NEW t, NEW u, NEW v, todo = <<t, u, v>> PROVE Head(todo) = t /\ Tail(todo) = <<u, v>>
  BY <1>3
<1>4. CASE todo = <<>>
  BY <1>4 DEF Now
<1>5. CASE command.op \in OffOps /\ todo = <<"off">>
  BY <1>1, <1>5 DEF Now
<1>6. CASE command.op \in ResetOps /\ todo \in {<<"on">>, <<"warm">>}
  <2>1. Head(todo) \in {"on", "warm"}
    BY <1>1, <1>6
  <2>2. QED
    BY <1>6, <2>1 DEF Now
<1>7. CASE command.op \in ResetOps /\ todo = <<"params">>
  BY <1>1, <1>7 DEF Now
<1>8. CASE command.op \in ResetOps /\ todo = <<"sync", "setprotocol">>
  BY <1>2, <1>8 DEF Now
<1>9. CASE command.op \in ResetOps /\ todo = <<"off", "setprotocol">>
  BY <1>2, <1>9 DEF Now
<1>10. CASE command.op \in ResetOps /\ todo = <<"off", "on">>
  BY <1>2, <1>10 DEF Now
<1>11. CASE command.op \in ResetOps /\ todo = <<"off", "off", "on">>
  BY <1>3, <1>11 DEF Now
<1>12. CASE command.op \in {"REQUEST ICC", "GET STATUS", "EJECT ICC wait"} /\ todo = <<"status">>
  <2>1. Head(todo) = "status"
    BY <1>1, <1>12
  <2>2. QED
    BY <1>12, <2>1 DEF Now
<1>13. CASE command.op = "EJECT ICC wait" /\ todo = <<"off", "off", "status">>
  <2>1. Head(todo) = "off" /\ Tail(todo) = <<"off", "status">>
    BY <1>3, <1>13
  <2>2. QED
    BY <1>13, <2>1 DEF Now
<1>14. CASE command.op = "EJECT ICC wait" /\ todo = <<"off", "status">>
  <2>1. Head(todo) = "off" /\ Tail(todo) = <<"status">>
    BY <1>2, <1>14
  <2>2. QED
    BY <1>14, <2>1 DEF Now
<1>15. CASE command.op = "TRANSMIT" /\ todo = <<"xfr">>
  BY <1>1, <1>15 DEF Now
<1>16. QED
  BY <1>4, <1>5, <1>6, <1>7, <1>8, <1>9, <1>10, <1>11, <1>12, <1>13, <1>14, <1>15
     DEF Plan, ResetPlans

\* The status byte of an answer makes the driver forget what is no longer true.
LEMMA TransferAgrees ==
  ASSUME NEW s \in Slots, NEW h \in Hosts, Agrees(s, h)
  PROVE  Transfer(h, IccStatus(s)) \in Hosts /\ Agrees(s, Transfer(h, IccStatus(s)))
BY DEF Slots, Hosts, Agrees, Transfer, IccStatus, States

LEMMA TransferType ==
  ASSUME NEW h \in Hosts, NEW icc
  PROVE  Transfer(h, icc) \in Hosts
BY DEF Hosts, Transfer, States

\* The protocol after a reset.
LEMMA AfterResetType ==
  ASSUME NEW card \in Cards
  PROVE  /\ AfterReset(card) \in {"reset"} \cup Protocols
         /\ card.kind = "specific" => AfterReset(card) \in card.offers
         /\ card.kind \in RawKinds => AfterReset(card) = "RAW"
         /\ card.offers \in SUBSET Protocols
<1>1. card.kind = "specific" => card.offers \in {{"T0"}, {"T1"}}
  BY CardAssumption
<1>2. card.offers \in SUBSET {"T0", "T1"}
  BY CardAssumption
<1>3. card.kind = "specific" => AfterReset(card) \in card.offers
  <2>1. card.kind = "specific" => AfterReset(card) = CHOOSE p \in card.offers : TRUE
    BY DEF AfterReset, RawKinds
  <2>2. card.kind = "specific" => \E p \in card.offers : TRUE
    BY <1>1
  <2>3. QED
    BY <2>1, <2>2
<1>4. card.kind # "specific" => AfterReset(card) \in {"RAW", "reset"}
  BY DEF AfterReset
<1>5. card.kind \in RawKinds => AfterReset(card) = "RAW"
  BY DEF AfterReset, RawKinds
<1>6. QED
  BY <1>2, <1>3, <1>4, <1>5 DEF Protocols

LEMMA ChoiceType ==
  ASSUME NEW h, Choice(h) # None
  PROVE  Choice(h) \in {"T0", "T1"} \cap Protocols
BY DEF Choice, Protocols

LEMMA PlansType ==
  /\ <<>> \in Seq(Transfers) /\ <<"off">> \in Seq(Transfers) /\ <<"params">> \in Seq(Transfers)
  /\ <<"warm">> \in Seq(Transfers) /\ <<"off", "setprotocol">> \in Seq(Transfers)
  /\ <<"sync", "setprotocol">> \in Seq(Transfers)
  /\ <<"off">> # <<"params">> /\ <<"off">> # <<>>
  /\ \A t \in {"off", "params", "warm", "on"} : /\ <<t>> # <<"sync", "setprotocol">>
                                           /\ <<t>> # <<"off", "setprotocol">>
<1>1. /\ <<>> \in Seq(Transfers) /\ <<"off">> \in Seq(Transfers) /\ <<"params">> \in Seq(Transfers)
      /\ <<"warm">> \in Seq(Transfers)
  BY DEF Transfers
<1>2. <<"off", "setprotocol">> \in Seq(Transfers) /\ <<"sync", "setprotocol">> \in Seq(Transfers)
  BY DEF Transfers
<1>3. QED
  BY <1>1, <1>2

\* What IfdPower and IfdSetProtocol make of a reset: the command returns, or goes
\* on with a power down or the parameters; 9000 and 9001 only after a success.
Outcome(h) ==
  /\ host' = h
  /\ ControlOK'
  /\ todo' = <<"params">> => /\ command' = command
                             /\ h.ReaderState = "NEGOTIABLE" /\ Choice(h) # None
  /\ todo' # <<"sync", "setprotocol">> /\ todo' # <<"off", "setprotocol">>

LEMMA ReturnControl ==
  ASSUME ControlOK, NEW h, NEW a \in Answers, Return(h, a)
  PROVE  Outcome(h) /\ command' = Idle /\ answer' = a
<1>1. Idle \in CommandsInProgress
  BY DEF Idle, Command, CommandsInProgress
<1>2. Plan'
  BY DEF Return, Plan
<1>3. ControlOK'
  BY <1>1, <1>2, PlansType DEF ControlOK, Return
<1>4. QED
  BY <1>3, PlansType DEF Return, Outcome

LEMMA PowerDownControl ==
  ASSUME ControlOK, object, NEW h, NEW op \in {"no room", "device lost"}, PowerDownThen(h, op)
  PROVE  Outcome(h) /\ command' # Idle
<1>1. command' \in CommandsInProgress /\ command'.op = op
  BY DEF ControlOK, PowerDownThen, CommandsInProgress
<1>2. todo' = <<"off">> /\ host' = h /\ object' = object /\ answer' = answer
  BY DEF PowerDownThen
<1>3. Plan'
  BY <1>1, <1>2 DEF Plan, OffOps
<1>4. ControlOK'
  BY <1>1, <1>2, <1>3, PlansType DEF ControlOK
<1>5. Idle.op = "idle"
  BY DEF Idle, Command
<1>6. QED
  BY <1>1, <1>2, <1>4, <1>5, PlansType DEF Outcome

LEMMA GoOnControl ==
  ASSUME ControlOK, object, NEW h, NEW rest \in Seq(Transfers), GoOn(h, rest),
         \/ command.op \in ResetOps /\ rest \in ResetPlans
         \/ command.op = "EJECT ICC wait" /\ rest \in {<<"off", "status">>, <<"status">>}
         \/ command.op \in OffOps /\ rest = <<"off">>
  PROVE  ControlOK' /\ host' = h /\ todo' = rest /\ command' = command
BY DEF ControlOK, GoOn, Plan

LEMMA ResetResultControl ==
  ASSUME ControlOK, object, NEW h, NEW result, ResetResult(h, result)
  PROVE  /\ Outcome(h)
         /\ command' = Idle /\ Activated => result = "SUCCESS"
<1>1. CASE command.op = "SET INTERFACE"
  <2>1. PICK a \in {"9001", "64A3"} : Return(h, a) /\ (a = "9001" => result = "SUCCESS")
    BY <1>1 DEF ResetResult
  <2>2. Outcome(h) /\ answer' = a
    BY <2>1, ReturnControl DEF Answers
  <2>3. QED
    BY <2>1, <2>2 DEF Activated
<1>2. CASE command.op # "SET INTERFACE"
  <2>1. \/ \E op \in {"no room", "device lost"} : PowerDownThen(h, op)
        \/ \E a \in {"9000", "9001", "6200", "64A1", "6401", "6400"} :
             Return(h, a) /\ (a \in {"9000", "9001"} => result = "SUCCESS")
    BY <1>2 DEF ResetResult
  <2>2. ASSUME NEW op \in {"no room", "device lost"}, PowerDownThen(h, op)
        PROVE  Outcome(h) /\ command' # Idle
    BY <2>2, PowerDownControl
  <2>3. ASSUME NEW a \in {"9000", "9001", "6200", "64A1", "6401", "6400"},
               Return(h, a), a \in {"9000", "9001"} => result = "SUCCESS"
        PROVE  Outcome(h) /\ (Activated => result = "SUCCESS")
    <3>1. Outcome(h) /\ answer' = a
      BY <2>3, ReturnControl DEF Answers
    <3>2. QED
      BY <2>3, <3>1 DEF Activated
  <2>4. QED
    BY <2>1, <2>2, <2>3
<1>3. QED
  BY <1>1, <1>2

LEMMA SetProtocolControl ==
  ASSUME ControlOK, object, command.op \in ResetOps, NEW h, SetProtocol(h)
  PROVE  /\ Outcome(h)
         /\ command' = Idle /\ Activated => IfdSetProtocol(h) = "SUCCESS"
<1>1. CASE IfdSetProtocol(h) = "TRANSFER"
  <2>1. GoOn(h, <<"params">>)
    BY <1>1 DEF SetProtocol
  <2>2. h.ReaderState = "NEGOTIABLE" /\ Choice(h) # None
    BY <1>1 DEF IfdSetProtocol
  <2>3. <<"params">> \in Seq(Transfers) /\ <<"params">> \in ResetPlans
    BY DEF Transfers, ResetPlans
  <2>4. ControlOK' /\ host' = h /\ todo' = <<"params">> /\ command' = command
    BY <2>1, <2>3, GoOnControl
  <2>5. command' # Idle
    <3>1. Idle.op = "idle"
      BY DEF Idle, Command
    <3>2. QED
      BY <2>4, <3>1 DEF ResetOps
  <2>6. QED
    BY <2>2, <2>4, <2>5 DEF Outcome
<1>2. CASE IfdSetProtocol(h) # "TRANSFER"
  BY <1>2, ResetResultControl DEF SetProtocol
<1>3. QED
  BY <1>1, <1>2

LEMMA OutcomeDecided ==
  ASSUME NEW h, Outcome(h)
  PROVE  ControlOK' /\ host' = h /\ Decided'
BY DEF Outcome, Decided, Choice, Wanted

-----------------------------------------------------------------------------
(* The Transfers, one by one.                                              *)

\* A command that ends with an activated card tells the truth about it.
TruthfulEnd ==
  command # Idle /\ command' = Idle /\ Activated /\ ~lost =>
    slot'.card = host'.ATR /\ slot'.power = host'.ActiveProtocol

\* The invariant, by its parts.
LEMMA IInvParts ==
  IInv <=> /\ ControlOK /\ Decided
           /\ comm \in {"open", "closed", "none"} /\ lost \in BOOLEAN
           /\ slot \in Slots /\ host \in Hosts
           /\ object /\ comm # "open" => lost
           /\ object => Agrees(slot, host)
BY DEF IInv, TypeOK, ControlOK, Attached, Slots, Hosts, CommandsInProgress

LEMMA IInvPartsNext ==
  IInv' <=> /\ ControlOK' /\ Decided'
            /\ comm' \in {"open", "closed", "none"} /\ lost' \in BOOLEAN
            /\ slot' \in Slots /\ host' \in Hosts
            /\ object' /\ comm' # "open" => lost'
            /\ object' => Agrees(slot', host')
BY DEF IInv, TypeOK, ControlOK, Attached, Slots, Hosts, CommandsInProgress, Agrees, Plan, Decided,
       Choice, Wanted

\* A Transfer fails only when the device is lost, and leaves the slot alone; one
\* that gets an answer leaves the device as it is.
LEMMA FailedStep ==
  ASSUME IInv, object, TransferFails, ControlOK', Decided', host' = host
  PROVE  IInv' /\ TruthfulEnd
<1>1. lost
  BY DEF IInv, Attached, TransferFails
<1>2. comm' \in {"open", "closed", "none"} /\ lost' = lost /\ slot' = slot
  BY DEF TransferFails
<1>3. IInv'
  BY <1>1, <1>2, IInvParts, IInvPartsNext
<1>4. QED
  BY <1>1, <1>3 DEF TruthfulEnd

LEMMA AnsweredStep ==
  ASSUME IInv, object, NEW s \in Slots, TransferTo(s), ControlOK', Decided',
         host' \in Hosts, Agrees(s, host')
  PROVE  IInv'
<1>1. comm' = comm /\ lost' = lost /\ slot' = s
  BY DEF TransferTo
<1>2. QED
  BY <1>1, IInvParts, IInvPartsNext

\* What AnalyseATR records of a card beside its ATR.
Recorded(h, state, active, possible) ==
  [h EXCEPT !.ReaderState = state, !.ActiveProtocol = active, !.PossibleProtocols = possible]

LEMMA RecordedParts ==
  ASSUME NEW h \in Hosts, NEW state \in States, NEW active \in Protocols \cup {None},
         NEW possible \in SUBSET Protocols
  PROVE  /\ Recorded(h, state, active, possible) \in Hosts
         /\ Recorded(h, state, active, possible).ReaderState = state
         /\ Recorded(h, state, active, possible).ActiveProtocol = active
         /\ Recorded(h, state, active, possible).ATR = h.ATR
         /\ Recorded(h, state, active, possible).ATR_Length = h.ATR_Length
BY DEF Recorded, Hosts

\* AnalyseATR, for every card: what it records is true of the card just reset.
LEMMA AnalyseATREffect ==
  ASSUME ControlOK, object, command.op \in ResetOps,
         NEW card \in Cards, NEW warm \in BOOLEAN,
         NEW h \in Hosts, h.ATR = card, h.ATR_Length = 1, AnalyseATR(h, card, warm)
  PROVE  /\ ControlOK' /\ Decided' /\ host' \in Hosts
         /\ Agrees([card |-> card, power |-> AfterReset(card)], host')
         /\ command # Idle /\ command' = Idle /\ Activated =>
              host'.ATR = card /\ host'.ActiveProtocol = AfterReset(card)
<1> DEFINE s == [card |-> card, power |-> AfterReset(card)]
           Goal == /\ ControlOK' /\ Decided' /\ host' \in Hosts
                   /\ Agrees(s, host')
                   /\ command # Idle /\ command' = Idle /\ Activated =>
                        host'.ATR = card /\ host'.ActiveProtocol = AfterReset(card)
<1>1. card.kind \in Kinds /\ card.offers \in SUBSET Protocols /\ None \notin Protocols
  BY CardAssumption, AfterResetType
<1>2. /\ card.kind = "specific" => AfterReset(card) \in Protocols
      /\ card.kind \in RawKinds => AfterReset(card) = "RAW"
  BY <1>1, AfterResetType
<1>3. Rejected(h) \in Hosts /\ Agrees(s, Rejected(h)) /\ Rejected(h).ReaderState = "POWERED"
  BY DEF Rejected, Hosts, Agrees, States
<1>4. ASSUME card.kind \in RawKinds, NEW state \in {"SPECIFIC", "NEGOTIABLE"}
      PROVE  /\ Raw(h, state) \in Hosts /\ Agrees(s, Raw(h, state))
             /\ Raw(h, state).ATR = card /\ Raw(h, state).ReaderState = state
             /\ Raw(h, state).ActiveProtocol = AfterReset(card)
  <2>1. Raw(h, state) = Recorded(h, state, "RAW", {"RAW"})
    BY DEF Raw, Recorded
  <2>2. {"RAW"} \in SUBSET Protocols /\ "RAW" \in Protocols /\ state \in States
    BY DEF Protocols, States
  <2>3. AfterReset(card) = "RAW" /\ None # "RAW"
    BY <1>1, <1>2, <1>4 DEF Protocols
  <2>4. QED
    BY <2>1, <2>2, <2>3, RecordedParts DEF Agrees
<1>5. ASSUME card.kind \in {"specific", "negotiable"}
      PROVE  /\ Accepted(h, card) \in Hosts /\ Agrees(s, Accepted(h, card))
             /\ Accepted(h, card).ATR = card
             /\ \/ Accepted(h, card).ActiveProtocol = AfterReset(card)
                \/ Accepted(h, card).ReaderState = "NEGOTIABLE" /\ card.kind = "negotiable"
  <2>1. CASE card.kind = "specific"
    <3>1. Accepted(h, card) = Recorded(h, "SPECIFIC", AfterReset(card), card.offers)
      BY <2>1 DEF Accepted, Recorded
    <3>2. AfterReset(card) \in Protocols /\ AfterReset(card) # None /\ "SPECIFIC" \in States
      BY <1>1, <1>2, <2>1 DEF States
    <3>3. QED
      BY <1>1, <3>1, <3>2, RecordedParts DEF Agrees
  <2>2. CASE card.kind = "negotiable"
    <3>1. Accepted(h, card) = Recorded(h, "NEGOTIABLE", None, card.offers)
      BY <2>2 DEF Accepted, Recorded
    <3>2. "NEGOTIABLE" \in States
      BY DEF States
    <3>3. QED
      BY <1>1, <2>2, <3>1, <3>2, RecordedParts DEF Agrees
  <2>3. QED
    BY <1>5, <2>1, <2>2
<1>6. ASSUME NEW g \in Hosts, Agrees(s, g), GoOn(g, <<"warm">>) PROVE Goal
  <2>1. ControlOK' /\ host' = g /\ todo' = <<"warm">> /\ command' = command
    BY <1>6, GoOnControl, PlansType DEF ResetPlans
  <2>2. Decided'
    BY <2>1 DEF Decided
  <2>3. QED
    BY <1>6, <2>1, <2>2
<1>7. ASSUME NEW g \in Hosts, Agrees(s, g), SetProtocol(g),
             IfdSetProtocol(g) = "SUCCESS" =>
               g.ATR = card /\ g.ActiveProtocol = AfterReset(card)
      PROVE  Goal
  BY <1>7, SetProtocolControl, OutcomeDecided
<1>8. CASE SecondReset(card, warm)
  BY <1>3, <1>6, <1>8 DEF AnalyseATR, SecondReset
<1>9. CASE ~SecondReset(card, warm) /\ card.kind \in {"specific", "negotiable"}
  <2>1. SetProtocol(Accepted(h, card))
    BY <1>9 DEF AnalyseATR
  <2>2. IfdSetProtocol(Accepted(h, card)) = "SUCCESS" =>
          Accepted(h, card).ActiveProtocol = AfterReset(card)
    BY <1>5, <1>9 DEF IfdSetProtocol
  <2>3. QED
    BY <1>5, <1>7, <1>9, <2>1, <2>2
<1>10. CASE ~SecondReset(card, warm) /\ card.kind \in {"bad", "corrupt"}
  <2>1. GoOn(Rejected(h), <<"off", "setprotocol">>)
    BY <1>10 DEF AnalyseATR
  <2>2. /\ ControlOK' /\ host' = Rejected(h) /\ todo' = <<"off", "setprotocol">>
        /\ command' = command
    BY <2>1, GoOnControl, PlansType DEF ResetPlans
  <2>3. Decided'
    BY <1>3, <2>2 DEF Decided
  <2>4. QED
    BY <1>3, <2>2, <2>3
<1>11. CASE card.kind = "memory"
  <2>1. GoOn(Raw(h, "SPECIFIC"), <<"sync", "setprotocol">>)
    BY <1>11 DEF AnalyseATR, SecondReset
  <2>2. /\ ControlOK' /\ host' = Raw(h, "SPECIFIC") /\ todo' = <<"sync", "setprotocol">>
        /\ command' = command
    BY <2>1, GoOnControl, PlansType DEF ResetPlans
  <2>3. /\ Raw(h, "SPECIFIC") \in Hosts /\ Agrees(s, Raw(h, "SPECIFIC"))
        /\ Raw(h, "SPECIFIC").ReaderState = "SPECIFIC"
    BY <1>4, <1>11 DEF RawKinds
  <2>4. Decided'
    BY <2>2, <2>3 DEF Decided
  <2>5. QED
    BY <2>2, <2>3, <2>4
<1>12. CASE card.kind = "memoryFF"
  BY <1>4, <1>7, <1>12 DEF AnalyseATR, SecondReset, RawKinds
<1>13. CASE card.kind = "rf"
  BY <1>4, <1>7, <1>13 DEF AnalyseATR, SecondReset, RawKinds
<1>14. CASE card.kind = "unknown"
  <2>1. SetProtocol(Rejected(h))
    BY <1>14 DEF AnalyseATR, SecondReset
  <2>2. IfdSetProtocol(Rejected(h)) # "SUCCESS"
    BY <1>3 DEF IfdSetProtocol
  <2>3. QED
    BY <1>3, <1>7, <2>1, <2>2
<1>15. QED
  BY <1>1, <1>8, <1>9, <1>10, <1>11, <1>12, <1>13, <1>14 DEF Kinds

LEMMA ResetFails ==
  ASSUME IInv, object, TransferFails, ResetResult(host, "NOT_CONNECTED")
  PROVE  IInv' /\ TruthfulEnd
<1>1. ControlOK
  BY IInvParts
<1>2. Outcome(host)
  BY <1>1, ResetResultControl
<1>3. QED
  BY <1>2, OutcomeDecided, FailedStep

LEMMA IccPowerOnStep ==
  ASSUME IInv, NEW warm \in BOOLEAN, IccPowerOn(warm)
  PROVE  IInv' /\ TruthfulEnd
<1>1. ControlOK /\ host \in Hosts /\ slot \in Slots
  BY IInvParts
<1>2. object /\ command.op \in ResetOps
  BY PlanOf DEF IInv, IccPowerOn, Attached, Now
<1>3. CASE TransferFails /\ ResetResult(host, "NOT_CONNECTED")
  BY <1>2, <1>3, ResetFails
<1>4. CASE /\ slot.card # None
           /\ TransferTo([slot EXCEPT !.power = AfterReset(slot.card)])
           /\ AnalyseATR(StoreATR(host, slot.card, warm), slot.card, warm)
  <2> DEFINE s == [slot EXCEPT !.power = AfterReset(slot.card)]
             h == StoreATR(host, slot.card, warm)
  <2>1. slot.card \in Cards
    BY <1>1, <1>4 DEF Slots
  <2>2. s = [card |-> slot.card, power |-> AfterReset(slot.card)] /\ s \in Slots
    BY <1>1, <2>1, AfterResetType DEF Slots
  <2>3. h \in Hosts /\ h.ATR = slot.card /\ h.ATR_Length = 1
    <3>1. Transfer(host, 0) \in Hosts
      BY <1>1, TransferType
    <3>2. QED
      BY <2>1, <3>1 DEF StoreATR, Hosts
  <2>4. TransferTo(s) /\ AnalyseATR(h, slot.card, warm)
    BY <1>4
  <2> HIDE DEF s, h
  <2>5. /\ ControlOK' /\ Decided' /\ host' \in Hosts /\ Agrees(s, host')
        /\ command # Idle /\ command' = Idle /\ Activated =>
             host'.ATR = slot.card /\ host'.ActiveProtocol = AfterReset(slot.card)
    BY <1>1, <1>2, <2>1, <2>2, <2>3, <2>4, AnalyseATREffect
  <2>6. slot' = s
    BY <2>4 DEF TransferTo
  <2>7. IInv'
    BY <1>2, <2>2, <2>4, <2>5, AnsweredStep
  <2>8. QED
    BY <2>2, <2>5, <2>6, <2>7 DEF TruthfulEnd
<1>5. ASSUME TransferTo([slot EXCEPT !.power = "off"]),
             NEW result \in {"NO_MEDIA", "UNRECOGNIZED_MEDIA", "CANCELLED"},
             ResetResult(Transfer(host, IccStatus(slot')), result)
      PROVE  IInv' /\ TruthfulEnd
  <2>1. slot' = [slot EXCEPT !.power = "off"] /\ slot' \in Slots /\ slot'.power = "off"
    BY <1>1, <1>5 DEF TransferTo, Slots
  <2>2. Transfer(host, IccStatus(slot')) \in Hosts
    BY <1>1, TransferType
  <2>3. /\ Outcome(Transfer(host, IccStatus(slot')))
        /\ ~(command' = Idle /\ Activated)
    BY <1>1, <1>2, <1>5, ResetResultControl
  <2>4. ControlOK' /\ Decided' /\ host' = Transfer(host, IccStatus(slot'))
    BY <2>3, OutcomeDecided
  <2>5. Agrees(slot', host')
    BY <2>1 DEF Agrees
  <2>6. IInv'
    BY <1>2, <1>5, <2>1, <2>2, <2>4, <2>5, AnsweredStep
  <2>7. QED
    BY <2>3, <2>6 DEF TruthfulEnd
<1>6. QED
  BY <1>3, <1>4, <1>5 DEF IccPowerOn

LEMMA SetParametersStep == ASSUME IInv, SetParameters PROVE IInv' /\ TruthfulEnd
<1>1. ControlOK /\ host \in Hosts /\ slot \in Slots
  BY IInvParts
<1>2. object /\ command.op \in ResetOps /\ todo = <<"params">>
  BY PlanOf DEF IInv, SetParameters, Attached, Now
<1>3. host.ReaderState = "NEGOTIABLE" /\ Choice(host) # None /\ Agrees(slot, host)
  BY <1>2 DEF IInv, Decided
<1>4. CASE TransferFails /\ ResetResult(host, "NOT_CONNECTED")
  BY <1>2, <1>4, ResetFails
<1>5. ASSUME TransferTo(slot), NEW result \in {"NO_MEDIA", "IO_TIMEOUT"},
             ResetResult(Transfer(host, IccStatus(slot)), result)
      PROVE  IInv' /\ TruthfulEnd
  <2>1. /\ Outcome(Transfer(host, IccStatus(slot)))
        /\ ~(command' = Idle /\ Activated)
    BY <1>1, <1>2, <1>5, ResetResultControl
  <2>2. ControlOK' /\ Decided' /\ host' = Transfer(host, IccStatus(slot))
    BY <2>1, OutcomeDecided
  <2>3. host' \in Hosts /\ Agrees(slot, host')
    BY <1>1, <1>3, <2>2, TransferAgrees
  <2>4. IInv'
    BY <1>1, <1>2, <1>5, <2>2, <2>3, AnsweredStep
  <2>5. QED
    BY <2>1, <2>4 DEF TruthfulEnd
<1>6. CASE /\ IccStatus(slot) = 0
           /\ TransferTo([slot EXCEPT !.power = Choice(host)])
           /\ ResetResult([host EXCEPT !.ActiveProtocol = Choice(host), !.ReaderState = "SPECIFIC"],
                          "SUCCESS")
  <2> DEFINE s == [slot EXCEPT !.power = Choice(host)]
             h == [host EXCEPT !.ActiveProtocol = Choice(host), !.ReaderState = "SPECIFIC"]
  <2>1. Choice(host) \in Protocols
    BY <1>3, ChoiceType
  <2>2. slot.power # "off"
    BY <1>6 DEF IccStatus
  <2>3. host.ATR = slot.card /\ host.ATR_Length # 0
    BY <1>3, <2>2 DEF Agrees
  <2>4. s \in Slots /\ s.card = slot.card /\ s.power = Choice(host)
    BY <1>1, <2>1 DEF Slots
  <2>5. /\ h \in Hosts /\ h.ATR = host.ATR /\ h.ATR_Length = host.ATR_Length
        /\ h.ActiveProtocol = Choice(host) /\ h.ReaderState = "SPECIFIC"
    BY <1>1, <2>1 DEF Hosts, States
  <2>6. TransferTo(s) /\ ResetResult(h, "SUCCESS")
    BY <1>6
  <2> HIDE DEF s, h
  <2>7. Agrees(s, h)
    BY <1>3, <2>3, <2>4, <2>5 DEF Agrees
  <2>8. ControlOK' /\ Decided' /\ host' = h
    BY <1>1, <1>2, <2>6, ResetResultControl, OutcomeDecided
  <2>9. slot' = s
    BY <2>6 DEF TransferTo
  <2>10. IInv'
    BY <1>2, <2>4, <2>5, <2>6, <2>7, <2>8, AnsweredStep
  <2>11. QED
    BY <2>3, <2>4, <2>5, <2>8, <2>9, <2>10 DEF TruthfulEnd
<1>7. QED
  BY <1>4, <1>5, <1>6 DEF SetParameters

LEMMA SetSyncParametersStep == ASSUME IInv, SetSyncParameters PROVE IInv' /\ TruthfulEnd
<1>1. ControlOK /\ host \in Hosts /\ slot \in Slots
  BY IInvParts
<1>2. object /\ command.op \in ResetOps /\ todo = <<"sync", "setprotocol">>
  BY PlanOf DEF IInv, SetSyncParameters, Attached, Now
<1>3. host.ReaderState = "SPECIFIC" /\ Agrees(slot, host)
  BY <1>2 DEF IInv, Decided
<1>4. CASE TransferFails /\ SetProtocol(host)
  BY <1>1, <1>2, <1>4, SetProtocolControl, OutcomeDecided, FailedStep
<1>5. CASE TransferTo(slot) /\ SetProtocol(Transfer(host, IccStatus(slot)))
  <2> DEFINE h == Transfer(host, IccStatus(slot))
  <2>1. h \in Hosts /\ Agrees(slot, h)
    BY <1>1, <1>3, TransferAgrees
  <2>2. IfdSetProtocol(h) = "SUCCESS" => h.ATR = slot.card /\ h.ActiveProtocol = slot.power
    <3>1. IccStatus(slot) \in {0, 1, 2} /\ (IccStatus(slot) = 0 => slot.power # "off")
      BY DEF IccStatus
    <3>2. IccStatus(slot) = 2 => h.ReaderState = "ABSENT"
      BY <1>1 DEF Transfer, Hosts
    <3>3. IccStatus(slot) = 1 => h.ReaderState = "SPECIFIC" /\ h.ActiveProtocol = None
      BY <1>1, <1>3 DEF Transfer, Hosts
    <3>4. IccStatus(slot) = 0 => h.ReaderState = "SPECIFIC"
      BY <1>1, <1>3 DEF Transfer, Hosts
    <3>5. None \notin Wanted
      <4>1. None \notin Protocols
        BY CardAssumption
      <4>2. QED
        BY <4>1 DEF Wanted
    <3>6. IfdSetProtocol(h) = "SUCCESS" => IccStatus(slot) = 0
      BY <3>1, <3>2, <3>3, <3>5 DEF IfdSetProtocol
    <3>7. QED
      BY <2>1, <3>1, <3>4, <3>6 DEF Agrees
  <2>3. TransferTo(slot) /\ SetProtocol(h)
    BY <1>5
  <2> HIDE DEF h
  <2>4. /\ Outcome(h)
        /\ command' = Idle /\ Activated => IfdSetProtocol(h) = "SUCCESS"
    BY <1>1, <1>2, <2>3, SetProtocolControl
  <2>5. ControlOK' /\ Decided' /\ host' = h
    BY <2>4, OutcomeDecided
  <2>6. slot' = slot
    BY <2>3 DEF TransferTo
  <2>7. IInv'
    BY <1>1, <1>2, <2>1, <2>3, <2>5, AnsweredStep
  <2>8. QED
    BY <2>2, <2>4, <2>5, <2>6, <2>7 DEF TruthfulEnd
<1>6. QED
  BY <1>4, <1>5 DEF SetSyncParameters

LEMMA RestType ==
  ASSUME NEW rest \in {<<"off", "on">>, <<"on">>, <<"off", "status">>, <<"status">>}
  PROVE  /\ rest \in Seq(Transfers)
         /\ rest # <<>> /\ rest # <<"setprotocol">> /\ rest # <<"params">>
         /\ rest # <<"sync", "setprotocol">> /\ rest # <<"off", "setprotocol">>
<1>1. ASSUME NEW t \in {"on", "status"}
      PROVE  /\ <<t>> \in Seq(Transfers)
             /\ <<t>> # <<>> /\ <<t>> # <<"setprotocol">> /\ <<t>> # <<"params">>
             /\ <<t>> # <<"sync", "setprotocol">> /\ <<t>> # <<"off", "setprotocol">>
  BY DEF Transfers
<1>2. ASSUME NEW t \in {"on", "status"}
      PROVE  /\ <<"off", t>> \in Seq(Transfers)
             /\ <<"off", t>> # <<>> /\ <<"off", t>> # <<"setprotocol">>
             /\ <<"off", t>> # <<"params">> /\ <<"off", t>> # <<"sync", "setprotocol">>
             /\ <<"off", t>> # <<"off", "setprotocol">>
  BY DEF Transfers
<1>3. QED
  BY <1>1, <1>2

\* After a power down no command reports an activated card.
LEMMA AfterPowerOffEffect ==
  ASSUME IInv, object, Now("off"), NEW h \in Hosts,
         host.ReaderState = "POWERED" => h.ReaderState \in {"POWERED", "ABSENT"},
         AfterPowerOff(h)
  PROVE  ControlOK' /\ Decided' /\ host' = h /\ ~(command' = Idle /\ Activated)
<1>1. ControlOK /\ Plan
  BY IInvParts DEF IInv
<1>2. CASE command.op \in OffOps /\ Tail(todo) = <<>>
  <2>1. \E a \in {"9000", "64A1", "6F00", "-11", "-128", "closed"} : Return(h, a)
    <3>1. Tail(todo) # <<"setprotocol">> /\ ~(Tail(todo) # <<>>)
      BY <1>2
    <3>2. QED
      BY <1>2, <3>1 DEF AfterPowerOff, OffOps
  <2>2. Outcome(h)
    BY <1>1, <2>1, ReturnControl DEF Answers
  <2>3. answer' # "6201"
    BY <2>1 DEF Return
  <2>4. QED
    BY <1>2, <2>2, <2>3, OutcomeDecided DEF Activated, OffOps
<1>3. ASSUME NEW rest \in {<<"off", "on">>, <<"on">>, <<"off", "status">>, <<"status">>},
             Tail(todo) = rest, command.op \in ResetOps \cup {"EJECT ICC wait"},
             \/ command.op \in ResetOps /\ rest \in {<<"off", "on">>, <<"on">>}
             \/ command.op = "EJECT ICC wait" /\ rest \in {<<"off", "status">>, <<"status">>}
      PROVE  ControlOK' /\ Decided' /\ host' = h /\ ~(command' = Idle /\ Activated)
  <2>1. rest # <<>> /\ rest # <<"setprotocol">>
    BY RestType
  <2>2. rest \in Seq(Transfers)
    BY RestType
  <2>3. /\ rest # <<"params">> /\ rest # <<"sync", "setprotocol">>
        /\ rest # <<"off", "setprotocol">>
    BY RestType
  <2>4. GoOn(h, rest)
    BY <1>3, <2>1 DEF AfterPowerOff
  <2>5. \/ command.op \in ResetOps /\ rest \in ResetPlans
        \/ command.op = "EJECT ICC wait" /\ rest \in {<<"off", "status">>, <<"status">>}
    BY <1>3 DEF ResetPlans
  <2>6. ControlOK' /\ host' = h /\ todo' = rest /\ command' = command
    BY <1>1, <2>2, <2>4, <2>5, GoOnControl
  <2>7. Decided'
    BY <2>3, <2>6 DEF Decided
  <2>8. Idle.op = "idle" /\ command.op # "idle"
    BY <1>3 DEF Idle, Command, ResetOps
  <2>9. QED
    BY <2>6, <2>7, <2>8
<1>4. CASE /\ command.op \in ResetOps /\ Tail(todo) = <<"setprotocol">>
           /\ todo = <<"off", "setprotocol">>
  <2>1. h.ReaderState \in {"POWERED", "ABSENT"}
    BY <1>4 DEF IInv, Decided
  <2>2. IfdSetProtocol(h) # "SUCCESS"
    BY <2>1 DEF IfdSetProtocol
  <2>3. SetProtocol(h)
    BY <1>4 DEF AfterPowerOff
  <2>4. QED
    BY <1>1, <1>4, <2>2, <2>3, SetProtocolControl, OutcomeDecided
<1>5. QED
  BY <1>1, <1>2, <1>3, <1>4, PlanOf

LEMMA IccPowerOffStep == ASSUME IInv, IccPowerOff PROVE IInv' /\ TruthfulEnd
<1>1. ControlOK /\ host \in Hosts /\ slot \in Slots /\ Now("off")
  BY IInvParts DEF IccPowerOff
<1>2. object
  BY <1>1 DEF IInv, Attached, Now
<1>3. CASE TransferFails /\ Return(host, "-10")
  BY <1>1, <1>2, <1>3, ReturnControl, OutcomeDecided, FailedStep DEF Answers
<1>4. CASE TransferFails /\ AfterPowerOff(host)
  BY <1>1, <1>2, <1>4, AfterPowerOffEffect, FailedStep
<1>5. CASE /\ TransferTo([slot EXCEPT !.power = "off"])
           /\ AfterPowerOff(Transfer(host, IccStatus(slot')))
  <2> DEFINE h == Transfer(host, IccStatus(slot'))
  <2>1. slot' = [slot EXCEPT !.power = "off"] /\ slot' \in Slots /\ slot'.power = "off"
    BY <1>1, <1>5 DEF TransferTo, Slots
  <2>2. /\ h \in Hosts
        /\ host.ReaderState = "POWERED" => h.ReaderState \in {"POWERED", "ABSENT"}
    BY <1>1, TransferType, ZenonT(30) DEF Transfer, Hosts
  <2>3. AfterPowerOff(h)
    BY <1>5
  <2> HIDE DEF h
  <2>4. ControlOK' /\ Decided' /\ host' = h /\ ~(command' = Idle /\ Activated)
    BY <1>1, <1>2, <2>2, <2>3, AfterPowerOffEffect
  <2>5. Agrees(slot', host')
    BY <2>1 DEF Agrees
  <2>6. IInv'
    BY <1>2, <1>5, <2>1, <2>2, <2>4, <2>5, AnsweredStep
  <2>7. QED
    BY <2>4, <2>6 DEF TruthfulEnd
<1>6. QED
  BY <1>3, <1>4, <1>5 DEF IccPowerOff

LEMMA GetSlotStatusStep == ASSUME IInv, GetSlotStatus PROVE IInv' /\ TruthfulEnd
<1>1. ControlOK /\ host \in Hosts /\ slot \in Slots
  BY IInvParts
<1>2. object /\ command.op \in {"REQUEST ICC", "GET STATUS", "EJECT ICC wait"}
  BY PlanOf DEF IInv, GetSlotStatus, Attached, Now
<1>3. Agrees(slot, host)
  BY <1>2 DEF IInv
<1>4. CASE /\ TransferFails
           /\ Return(host, IF command.op = "EJECT ICC wait" THEN "-10" ELSE "-128")
  BY <1>1, <1>2, <1>4, ReturnControl, OutcomeDecided, FailedStep DEF Answers
<1>5. CASE ~(TransferFails /\ Return(host, IF command.op = "EJECT ICC wait" THEN "-10" ELSE "-128"))
  <2> DEFINE h == IfdGetState(host, IccStatus(slot))
  <2>1. IccStatus(slot) \in {0, 1, 2} /\ (IccStatus(slot) = 0 => slot.power # "off")
    BY DEF IccStatus
  <2>2. /\ h \in Hosts /\ Agrees(slot, h)
        /\ h.ReaderState = "SPECIFIC" => h.ATR = slot.card /\ h.ActiveProtocol = slot.power
    <3>1. CASE IccStatus(slot) = 0
      <4>1. h = host
        BY <3>1 DEF IfdGetState
      <4>2. QED
        BY <1>1, <1>3, <2>1, <3>1, <4>1 DEF Agrees
    <3>2. CASE IccStatus(slot) = 1
      <4>1. slot.power = "off"
        BY <3>2 DEF IccStatus
      <4>2. h = [Transfer(host, 1) EXCEPT !.ReaderState = "SWALLOWED"]
        BY <3>2 DEF IfdGetState
      <4>3. Transfer(host, 1) \in Hosts
        BY <1>1, TransferType
      <4>4. h \in Hosts /\ h.ReaderState = "SWALLOWED"
        BY <4>2, <4>3 DEF Hosts, States
      <4>5. QED
        BY <4>1, <4>4 DEF Agrees
    <3>3. CASE IccStatus(slot) = 2
      <4>1. h = Transfer(host, 2)
        BY <3>3 DEF IfdGetState
      <4>2. h \in Hosts /\ Agrees(slot, h)
        BY <1>1, <1>3, <3>3, <4>1, TransferAgrees
      <4>3. h.ReaderState = "ABSENT"
        BY <1>1, <4>1 DEF Transfer, Hosts
      <4>4. QED
        BY <4>2, <4>3
    <3>4. QED
      BY <2>1, <3>1, <3>2, <3>3
  <2>3. /\ TransferTo(slot)
        /\ \/ command.op = "REQUEST ICC" /\ h.ReaderState = "SPECIFIC" /\ Return(h, "6201")
           \/ command.op = "REQUEST ICC" /\ GoOn(h, <<"off", "on">>)
           \/ command.op = "EJECT ICC wait" /\ \E a \in {"9001", "6200"} : Return(h, a)
           \/ /\ command.op = "GET STATUS"
              /\ \E a \in {"active", "inserted", "empty", "-128"} : Return(h, a)
    BY <1>2, <1>5 DEF GetSlotStatus
  <2> HIDE DEF h
  <2>4. slot' = slot
    BY <2>3 DEF TransferTo
  <2>5. ASSUME NEW a \in Answers, Return(h, a),
               \/ a = "6201" /\ h.ReaderState = "SPECIFIC"
               \/ a # "6201" /\ command.op \in {"EJECT ICC wait", "GET STATUS"}
        PROVE  IInv' /\ TruthfulEnd
    <3>1. Outcome(h) /\ answer' = a
      BY <1>1, <2>5, ReturnControl
    <3>2. ControlOK' /\ Decided' /\ host' = h
      BY <3>1, OutcomeDecided
    <3>3. IInv'
      BY <1>1, <1>2, <2>2, <2>3, <3>2, AnsweredStep
    <3>4. Activated => a = "6201"
      BY <2>5, <3>1 DEF Activated
    <3>5. QED
      BY <2>2, <2>4, <2>5, <3>2, <3>3, <3>4 DEF TruthfulEnd
  <2>6. ASSUME command.op = "REQUEST ICC", GoOn(h, <<"off", "on">>)
        PROVE  IInv' /\ TruthfulEnd
    <3>1. <<"off", "on">> \in Seq(Transfers) /\ <<"off", "on">> \in ResetPlans
      BY DEF Transfers, ResetPlans
    <3>2. command.op \in ResetOps
      BY <2>6 DEF ResetOps
    <3>3. ControlOK' /\ host' = h /\ todo' = <<"off", "on">> /\ command' = command
      BY <1>1, <1>2, <2>6, <3>1, <3>2, GoOnControl
    <3>4. Decided'
      BY <3>3 DEF Decided
    <3>5. IInv'
      BY <1>1, <1>2, <2>2, <2>3, <3>3, <3>4, AnsweredStep
    <3>6. QED
      BY <3>3, <3>5 DEF TruthfulEnd
  <2>7. QED
    BY <2>3, <2>5, <2>6 DEF Answers
<1>6. QED
  BY <1>4, <1>5

LEMMA XfrBlockStep == ASSUME IInv, XfrBlock PROVE IInv' /\ TruthfulEnd
<1>1. ControlOK /\ host \in Hosts /\ slot \in Slots
  BY IInvParts
<1>2. object /\ command.op = "TRANSMIT"
  BY PlanOf DEF IInv, XfrBlock, Attached, Now
<1>3. Agrees(slot, host) /\ (Activated => answer' = "6201")
  BY <1>2 DEF IInv, Activated
<1>4. CASE TransferFails /\ Return(host, "-128")
  BY <1>1, <1>2, <1>4, ReturnControl, OutcomeDecided, FailedStep DEF Answers
<1>5. CASE TransferTo(slot) /\ GoOn(Transfer(host, IccStatus(slot)), <<"off">>)
  <2>1. command.op \in OffOps
    BY <1>2 DEF OffOps
  <2>2. /\ ControlOK' /\ host' = Transfer(host, IccStatus(slot)) /\ todo' = <<"off">>
        /\ command' = command
    BY <1>1, <1>2, <1>5, <2>1, GoOnControl, PlansType
  <2>3. Decided'
    BY <2>2 DEF Decided
  <2>4. IInv'
    BY <1>1, <1>2, <1>3, <1>5, <2>2, <2>3, TransferAgrees, AnsweredStep
  <2>5. QED
    BY <2>2, <2>4 DEF TruthfulEnd
<1>6. CASE TransferTo(slot) /\ Return(host, "card")
  <2>1. Outcome(host) /\ answer' = "card"
    BY <1>1, <1>6, ReturnControl DEF Answers
  <2>2. ControlOK' /\ Decided' /\ host' = host
    BY <2>1, OutcomeDecided
  <2>3. IInv'
    BY <1>1, <1>2, <1>3, <1>6, <2>2, AnsweredStep
  <2>4. QED
    BY <1>3, <2>1, <2>3 DEF TruthfulEnd
<1>7. QED
  BY <1>4, <1>5, <1>6 DEF XfrBlock

-----------------------------------------------------------------------------
(* The world outside, and the calls.                                       *)

LEMMA OutsideStep ==
  ASSUME IInv, (\E card \in Cards : Insert(card)) \/ Remove \/ Unplug
  PROVE  IInv' /\ TruthfulEnd
<1>1. UNCHANGED <<object, comm, host, command, todo, answer>>
  BY DEF Insert, Remove, Unplug
<1>2. slot' \in Slots /\ slot'.power = "off"
  BY IInvParts DEF Insert, Remove, Unplug, Slots
<1>3. lost' \in BOOLEAN /\ (lost => lost')
  BY IInvParts DEF Insert, Remove, Unplug
<1>4. Agrees(slot', host')
  BY <1>2 DEF Agrees
<1>5. ControlOK' /\ Decided'
  <2>1. ControlOK /\ Decided
    BY IInvParts
  <2>2. QED
    BY <1>1, <2>1 DEF ControlOK, Plan, Decided, Choice, Wanted
<1>6. IInv'
  BY <1>1, <1>2, <1>3, <1>4, <1>5, IInvParts, IInvPartsNext
<1>7. QED
  BY <1>1, <1>6 DEF TruthfulEnd

LEMMA ConnectStep == ASSUME IInv, Connect PROVE IInv' /\ TruthfulEnd
<1>1. ControlOK /\ slot \in Slots /\ todo = <<>>
  BY IInvParts DEF IInv, Attached, Connect
<1>2. ControlOK'
  BY <1>1 DEF ControlOK, Connect, Plan, Answers
<1>3. Decided'
  BY <1>1 DEF Connect, Decided
<1>4. slot' \in Slots
  BY <1>1 DEF Connect, Slots
<1>5. NewReader \in Hosts
  BY DEF NewReader, Hosts, States
<1>6. Agrees(slot', NewReader)
  BY DEF Agrees, NewReader
<1>7. host' \in Hosts /\ Agrees(slot', host')
  BY <1>4, <1>5, <1>6, TransferAgrees DEF Connect
<1>8. IInv'
  BY <1>2, <1>3, <1>4, <1>7, IInvPartsNext DEF Connect
<1>9. QED
  BY <1>8 DEF Connect, TruthfulEnd

LEMMA CtDataStep ==
  ASSUME IInv, NEW c \in Commands, CtData(c)
  PROVE  IInv' /\ TruthfulEnd
<1>1. ControlOK /\ object /\ command = Idle
  BY IInvParts DEF CtData
<1>2. UNCHANGED <<comm, lost, slot>> /\ host' = host
  BY DEF CtData, Return
<1>3. ControlOK' /\ Decided'
  <2>1. ASSUME NEW a \in {"9000", "9001"}, Return(host, a) PROVE ControlOK' /\ Decided'
    BY <1>1, <2>1, ReturnControl, OutcomeDecided DEF Answers
  <2>2. CASE command' = c /\ todo' = Begin(c) /\ UNCHANGED <<object, host, answer>>
    <3> DEFINE rest == Begin(c)
    <3>1. /\ c \in CommandsInProgress
          /\ c.op \in {"RESET CT", "GET STATUS", "DEACTIVATE ICC", "EJECT ICC", "EJECT ICC wait",
                       "TRANSMIT", "Disonnect", "RESET ICC", "REQUEST ICC", "SET INTERFACE"}
      BY CommandParts
    <3>2. \/ c.op \in OffOps /\ rest = <<"off">>
          \/ c.op \in ResetOps /\ rest = <<"off", "off", "on">>
          \/ c.op \in {"REQUEST ICC", "GET STATUS", "EJECT ICC wait"} /\ rest = <<"status">>
          \/ c.op = "EJECT ICC wait" /\ rest = <<"off", "off", "status">>
          \/ c.op = "TRANSMIT" /\ rest = <<"xfr">>
      BY <3>1 DEF Begin, OffOps, ResetOps
    <3>3. /\ rest \in Seq(Transfers)
          /\ rest # <<"params">> /\ rest # <<"sync", "setprotocol">>
          /\ rest # <<"off", "setprotocol">>
      <4>1. ASSUME NEW t \in {"off", "status", "xfr"}
            PROVE  /\ <<t>> \in Seq(Transfers) /\ <<t>> # <<"params">>
                   /\ <<t>> # <<"sync", "setprotocol">> /\ <<t>> # <<"off", "setprotocol">>
        BY DEF Transfers
      <4>2. ASSUME NEW t \in {"on", "status"}
            PROVE  /\ <<"off", "off", t>> \in Seq(Transfers) /\ <<"off", "off", t>> # <<"params">>
                   /\ <<"off", "off", t>> # <<"sync", "setprotocol">>
                   /\ <<"off", "off", t>> # <<"off", "setprotocol">>
        BY DEF Transfers
      <4>3. QED
        BY <3>2, <4>1, <4>2
    <3>4. command' = c /\ todo' = rest
      BY <2>2
    <3> HIDE DEF rest
    <3>5. Plan'
      BY <3>2, <3>4 DEF Plan, ResetPlans
    <3>6. ControlOK'
      BY <1>1, <2>2, <3>1, <3>3, <3>4, <3>5 DEF ControlOK
    <3>7. QED
      BY <3>3, <3>4, <3>6 DEF Decided
  <2>3. QED
    BY <2>1, <2>2 DEF CtData
<1>4. IInv'
  BY <1>1, <1>2, <1>3, IInvParts, IInvPartsNext DEF Agrees
<1>5. QED
  BY <1>1, <1>4 DEF TruthfulEnd

LEMMA InvariantStep == ASSUME IInv, [Next]_vars PROVE IInv' /\ (Next => TruthfulEnd)
<1>1. ASSUME NEW warm \in BOOLEAN, IccPowerOn(warm) PROVE IInv' /\ TruthfulEnd
  BY <1>1, IccPowerOnStep
<1>2. CASE Next
  BY <1>1, <1>2, SetParametersStep, SetSyncParametersStep, IccPowerOffStep, GetSlotStatusStep,
     XfrBlockStep, ConnectStep, CtDataStep, OutsideStep DEF Next, Step
<1>3. CASE UNCHANGED vars
  <2>1. ControlOK /\ Decided /\ UNCHANGED <<object, comm, lost, slot, host, command, todo, answer>>
    BY <1>3, IInvParts DEF vars
  <2>2. ControlOK' /\ Decided'
    BY <2>1 DEF ControlOK, Plan, Decided, Choice, Wanted
  <2>3. IInv'
    BY <2>1, <2>2, IInvParts, IInvPartsNext
  <2>4. QED
    BY <1>2, <2>3
<1>4. QED
  BY <1>2, <1>3

-----------------------------------------------------------------------------
\* The invariant holds for every set of cards.
THEOREM SlotInvariant == Spec => []IInv
<1>1. Init => IInv
  <2> SUFFICES ASSUME Init PROVE IInv
    OBVIOUS
  <2>1. command \in CommandsInProgress
    BY DEF Init, Idle, Command, CommandsInProgress
  <2>2. NewReader \in Hosts /\ slot \in Slots
    BY DEF Init, NewReader, Hosts, Slots, States
  <2>3. TypeOK
    BY <2>1, <2>2, PlansType DEF Init, TypeOK, Hosts, Slots, CommandsInProgress, Answers
  <2>4. QED
    BY <2>3 DEF Init, IInv, Plan, Decided, Attached
<1>2. IInv /\ [Next]_vars => IInv'
  BY InvariantStep
<1>3. QED
  BY <1>1, <1>2, PTL DEF Spec

\* The members and devices keep their types: m_ATR holds one ATR, also after the
\* second reset of IfdPower.
THEOREM SlotTypeCorrect == Spec => []TypeOK
BY SlotInvariant, PTL DEF IInv

\* The framing _IfdTransmit chooses by m_ActiveProtocol is the one the powered
\* card speaks, whatever happened to the card between the Transfers.
THEOREM SlotProtocolAgrees == Spec => []ProtocolAgrees
<1>1. IInv => ProtocolAgrees
  BY DEF IInv, Agrees, ProtocolAgrees, Active
<1>2. QED
  BY <1>1, SlotInvariant, PTL

\* The ATR the driver keeps is that of the card that is powered.
THEOREM SlotAtrOfCard == Spec => []AtrOfCard
<1>1. IInv => AtrOfCard
  BY DEF IInv, Agrees, AtrOfCard, Active
<1>2. QED
  BY <1>1, SlotInvariant, PTL

\* A command that reports an activated card ends with a powered card whose ATR
\* and protocol are the recorded ones, unless the reader itself was lost.
THEOREM SlotActivatedIsActive == Spec => ActivatedIsActive
<1>1. IInv /\ [Next]_vars =>
        [command # Idle /\ command' = Idle /\ Activated /\ ~lost =>
           slot'.card = host'.ATR /\ slot'.power = host'.ActiveProtocol]_vars
  BY InvariantStep DEF TruthfulEnd
<1>2. QED
  BY <1>1, SlotInvariant, PTL DEF Spec, ActivatedIsActive
=============================================================================
