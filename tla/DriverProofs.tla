---------------------------- MODULE DriverProofs ----------------------------
(***************************************************************************)
(* Proofs about two parts of the driver that have no state in common.      *)
(*                                                                         *)
(* The PC/SC front end of module IfdHandler, for every set of LUNs and any *)
(* number of channels.  The use count has no lock, so all but the types    *)
(* hold only if channels are created and closed one at a time: the         *)
(* theorems about the table and the count assume Serial.                   *)
(*                                                                         *)
(* The terminal commands of module ModuleUpdate, for every finite set of   *)
(* modules, any key file and any number of calls: the driver's list, what  *)
(* is flashed, and the keys.                                               *)
(***************************************************************************)
EXTENDS IfdHandler, ModuleUpdate, FiniteSetTheorems, SequenceTheorems, TLAPS

-----------------------------------------------------------------------------
(* The PC/SC front end.                                                    *)

\* The LUNs the use count stands for: those with a channel, and the one whose
\* call has passed initDriver or not yet passed deinitDriver.
Counted(l) == channel[l] \/ pc[l] \in {"ctinit", "refused", "close", "deinit", "deinitialised"}
Users == {l \in Luns : Counted(l)}

\* One call at a time creates or closes a channel.
OneManager == \A k, l \in Managing : k = l

\* The value a call has read of the count is still the count.
ReadFresh == \A l \in Luns : pc[l] \in {"initialised", "deinitialised"} => read[l] = count

\* A call that creates or closes runs while pcscd has no channel for the LUN.
NoChannelYet == \A l \in Luns : channel[l] => pc[l] \in {"idle", "power"}

IInv ==
  /\ TypeOK /\ OneManager /\ ReadFresh /\ NoChannelYet
  /\ OpenHasStatus
  /\ count = Cardinality(Users)

\* The step of one LUN.
LunStep(l) ==
  \/ ReadCount(l, "init", "initialised") \/ initDriver(l)
  \/ ReadCount(l, "deinit", "deinitialised") \/ deinitDriver(l)
  \/ \E n \in Names : CreateChannel(l, n)
  \/ CreateOpens(l) \/ CreateFinds(l) \/ CreateRefused(l)
  \/ CloseChannel(l) \/ Close(l)
  \/ PowerICC(l) \/ PowerStored(l) \/ Transmit(l)

-----------------------------------------------------------------------------
\* Every step keeps the types; the reader of the count may even read a value
\* that another call is about to change.
LEMMA TypeStep == ASSUME TypeOK, [Next]_vars PROVE TypeOK'
<1> USE IfdAssumption
<1>1. ASSUME NEW l \in Luns, NEW from, NEW to \in {"initialised", "deinitialised"},
             ReadCount(l, from, to)
      PROVE  TypeOK'
  BY <1>1 DEF TypeOK, ReadCount, Goto
<1>2. ASSUME NEW l \in Luns, initDriver(l) PROVE TypeOK'
  BY <1>2 DEF TypeOK, initDriver, Goto
<1>3. ASSUME NEW l \in Luns, deinitDriver(l) PROVE TypeOK'
  <2>1. count' \in Nat
    BY <1>3 DEF TypeOK, deinitDriver
  <2>2. QED
    BY <1>3, <2>1 DEF TypeOK, deinitDriver, Goto
<1>4. ASSUME NEW l \in Luns, NEW n \in Names, CreateChannel(l, n) PROVE TypeOK'
  BY <1>4 DEF TypeOK, CreateChannel, Goto
<1>5. ASSUME NEW l \in Luns, CreateOpens(l) PROVE TypeOK'
  <2>1. name[l] \in Names
    BY DEF TypeOK
  <2>2. QED
    BY <1>5, <2>1 DEF TypeOK, CreateOpens, Goto
<1>6. ASSUME NEW l \in Luns, CreateFinds(l) \/ CreateRefused(l) PROVE TypeOK'
  BY <1>6 DEF TypeOK, CreateFinds, CreateRefused, Goto
<1>7. ASSUME NEW l \in Luns, CloseChannel(l) PROVE TypeOK'
  BY <1>7 DEF TypeOK, CloseChannel, Goto
<1>8. ASSUME NEW l \in Luns, Close(l) PROVE TypeOK'
  BY <1>8 DEF TypeOK, Close, Goto
<1>9. ASSUME NEW l \in Luns, PowerICC(l) PROVE TypeOK'
  BY <1>9 DEF TypeOK, PowerICC, Goto
<1>10. ASSUME NEW l \in Luns, PowerStored(l) \/ Transmit(l) PROVE TypeOK'
  <2>1. AfterData(context[l]) \subseteq {"none", "ready", "lost"}
    BY DEF TypeOK, AfterData
  <2>2. context' \in [Luns -> {"none", "ready", "lost"}]
    BY <1>10, <2>1 DEF TypeOK, PowerStored, Transmit
  <2>3. QED
    BY <1>10, <2>2 DEF TypeOK, PowerStored, Transmit, Goto
<1>11. CASE UNCHANGED vars
  BY <1>11 DEF TypeOK, vars
<1>12. QED
  BY <1>1, <1>2, <1>3, <1>4, <1>5, <1>6, <1>7, <1>8, <1>9, <1>10, <1>11 DEF Next

\* Only pc and channel decide which LUNs are counted: a step of LUN l changes
\* the set by l at most, and the number of users by one.
LEMMA UsersStep ==
  ASSUME TypeOK, TypeOK', NEW l \in Luns,
         \A k \in Luns \ {l} : channel'[k] = channel[k] /\ pc'[k] = pc[k]
  PROVE  /\ IsFiniteSet(Users) /\ Cardinality(Users) \in Nat
         /\ Counted(l)' /\ ~Counted(l) => Cardinality(Users)' = Cardinality(Users) + 1
         /\ ~Counted(l)' /\ Counted(l) => Cardinality(Users)' = Cardinality(Users) - 1
         /\ (Counted(l)' <=> Counted(l)) => Cardinality(Users)' = Cardinality(Users)
<1>1. IsFiniteSet(Users) /\ Cardinality(Users) \in Nat
  <2>1. Users \in SUBSET Luns
    BY DEF Users
  <2>2. QED
    BY <2>1, IfdAssumption, FS_Subset, FS_CardinalityType
<1>2. ASSUME Counted(l)', ~Counted(l) PROVE Cardinality(Users)' = Cardinality(Users) + 1
  <2>1. Users' = Users \cup {l} /\ l \notin Users
    BY <1>2 DEF Users, Counted
  <2>2. QED
    BY <1>1, <2>1, FS_AddElement
<1>3. ASSUME ~Counted(l)', Counted(l) PROVE Cardinality(Users)' = Cardinality(Users) - 1
  <2>1. Users' = Users \ {l} /\ l \in Users
    BY <1>3 DEF Users, Counted
  <2>2. QED
    BY <1>1, <2>1, FS_RemoveElement
<1>4. ASSUME Counted(l)' <=> Counted(l) PROVE Cardinality(Users)' = Cardinality(Users)
  <2>1. Users' = Users
    BY <1>4 DEF Users, Counted
  <2>2. QED
    BY <2>1
<1>5. QED
  BY <1>1, <1>2, <1>3, <1>4

\* A step of LUN l leaves the other LUNs' calls and channels alone, and begins
\* to create or close a channel only when nobody else does.
LEMMA OthersStep ==
  ASSUME TypeOK, Serial, NEW l \in Luns, LunStep(l)
  PROVE  /\ \A k \in Luns \ {l} : channel'[k] = channel[k] /\ pc'[k] = pc[k] /\ read'[k] = read[k]
         /\ pc'[l] \notin {"idle", "power"} =>
              pc[l] \notin {"idle", "power"} \/ Managing = {}
BY DEF TypeOK, LunStep, ReadCount, initDriver, deinitDriver, CreateChannel, CreateOpens, CreateFinds,
       CreateRefused, CloseChannel, Close, PowerICC, PowerStored, Transmit, Goto, MayManage

\* Only the call that manages a channel writes the count, and only the first
\* user of the driver and the last one clear the table.
LEMMA InvariantStep == ASSUME Serial, IInv, [Next]_vars PROVE IInv'
<1>1. TypeOK /\ TypeOK'
  BY TypeStep DEF IInv
<1>2. CASE UNCHANGED vars
  <2>1. Users' = Users
    BY <1>2 DEF vars, Users, Counted
  <2>2. QED
    BY <1>1, <1>2, <2>1
       DEF IInv, vars, OneManager, Managing, ReadFresh, NoChannelYet, OpenHasStatus
<1>3. ASSUME NEW l \in Luns, LunStep(l) PROVE IInv'
  <2> DEFINE Manages(k) == pc[k] \notin {"idle", "power"}
  <2>1. /\ \A k \in Luns \ {l} : channel'[k] = channel[k] /\ pc'[k] = pc[k] /\ read'[k] = read[k]
        /\ pc'[l] \notin {"idle", "power"} => Manages(l) \/ Managing = {}
    BY <1>1, <1>3, OthersStep
  <2>2. OneManager'
    BY <2>1 DEF IInv, OneManager, Managing
  <2>3. \A k \in Luns \ {l} : Manages(l) => ~Manages(k)
    BY DEF IInv, OneManager, Managing
  <2>4. /\ IsFiniteSet(Users) /\ count \in Nat /\ count = Cardinality(Users)
        /\ Counted(l)' /\ ~Counted(l) => Cardinality(Users)' = count + 1
        /\ ~Counted(l)' /\ Counted(l) => Cardinality(Users)' = count - 1
        /\ (Counted(l)' <=> Counted(l)) => Cardinality(Users)' = count
    BY <1>1, <2>1, UsersStep DEF IInv
  <2>5. count = 0 => \A k \in Luns : ~channel[k]
    BY <2>4, FS_EmptySet DEF Users, Counted
  <2>6. count = 1 /\ Counted(l) => \A k \in Luns \ {l} : ~channel[k]
    <3>1. count = 1 => \E x : Users = {x}
      BY <2>4, FS_Singleton
    <3>2. QED
      BY <3>1 DEF Users, Counted
  <2>7. Counted(l) => count >= 1
    BY <2>4, FS_EmptySet DEF Users
  <2>8. /\ Manages(l) => ~channel[l]
        /\ pc[l] \in {"initialised", "deinitialised"} => read[l] = count
        /\ channel[l] => status[l] # None
        /\ \A k \in Luns : status[k] \in Names \cup {None}
    BY <1>1 DEF IInv, NoChannelYet, ReadFresh, OpenHasStatus, TypeOK
  <2>9. /\ ReadFresh' /\ NoChannelYet' /\ OpenHasStatus'
        /\ count' = Cardinality(Users)'
    <3> DEFINE Goal == /\ ReadFresh' /\ NoChannelYet' /\ OpenHasStatus'
                       /\ count' = Cardinality(Users)'
    <3>1. CASE \/ ReadCount(l, "init", "initialised") \/ ReadCount(l, "deinit", "deinitialised")
      <4>1. Counted(l)' <=> Counted(l)
        BY <1>1, <3>1 DEF ReadCount, Goto, Counted, TypeOK
      <4>2. QED
        BY <1>1, <2>1, <2>4, <2>8, <3>1, <4>1
           DEF IInv, ReadCount, Goto, ReadFresh, NoChannelYet, OpenHasStatus, TypeOK
    <3>2. CASE initDriver(l)
      <4>1. Counted(l)' /\ ~Counted(l) /\ count' = count + 1
        BY <1>1, <2>8, <3>2 DEF initDriver, Goto, Counted, TypeOK
      <4>2. OpenHasStatus'
        BY <1>1, <2>1, <2>4, <2>5, <2>8, <3>2, <4>1 DEF IInv, initDriver, OpenHasStatus
      <4>3. QED
        BY <1>1, <2>1, <2>3, <2>4, <2>8, <3>2, <4>1, <4>2
           DEF IInv, initDriver, Goto, ReadFresh, NoChannelYet, TypeOK
    <3>3. CASE deinitDriver(l)
      <4>1. ~Counted(l)' /\ Counted(l)
        BY <1>1, <2>8, <3>3 DEF deinitDriver, Goto, Counted, TypeOK
      <4>2. count' = count - 1
        BY <2>4, <2>7, <2>8, <3>3, <4>1 DEF deinitDriver
      <4>3. OpenHasStatus'
        BY <1>1, <2>1, <2>4, <2>6, <2>8, <3>3, <4>1 DEF IInv, deinitDriver, OpenHasStatus
      <4>4. QED
        BY <1>1, <2>1, <2>3, <2>4, <2>8, <3>3, <4>1, <4>2, <4>3
           DEF IInv, deinitDriver, Goto, ReadFresh, NoChannelYet, TypeOK
    <3>4. ASSUME NEW n \in Names, CreateChannel(l, n) PROVE Goal
      <4>1. Counted(l)' <=> Counted(l)
        BY <1>1, <3>4 DEF CreateChannel, MayManage, Goto, Counted, TypeOK
      <4>2. QED
        BY <1>1, <2>1, <2>4, <3>4, <4>1
           DEF IInv, CreateChannel, Goto, ReadFresh, NoChannelYet, OpenHasStatus, TypeOK
    <3>5. CASE CreateOpens(l) \/ CreateFinds(l) \/ CreateRefused(l)
      <4>1. Counted(l)' <=> Counted(l)
        BY <1>1, <3>5 DEF CreateOpens, CreateFinds, CreateRefused, Goto, Counted, TypeOK
      <4>2. name[l] # None
        BY <1>1, IfdAssumption DEF TypeOK
      <4>3. QED
        BY <1>1, <2>1, <2>4, <3>5, <4>1, <4>2
           DEF IInv, CreateOpens, CreateFinds, CreateRefused, Goto, ReadFresh, NoChannelYet,
               OpenHasStatus, TypeOK
    <3>6. CASE CloseChannel(l)
      <4>1. Counted(l)' <=> Counted(l)
        BY <1>1, <2>8, <3>6 DEF CloseChannel, Goto, Counted, TypeOK
      <4>2. QED
        BY <1>1, <2>1, <2>4, <3>6, <4>1
           DEF IInv, CloseChannel, Goto, ReadFresh, NoChannelYet, OpenHasStatus, TypeOK
    <3>7. CASE Close(l)
      <4>1. Counted(l)' <=> Counted(l)
        BY <1>1, <3>7 DEF Close, Goto, Counted, TypeOK
      <4>2. QED
        BY <1>1, <2>1, <2>4, <2>8, <3>7, <4>1
           DEF IInv, Close, Goto, ReadFresh, NoChannelYet, OpenHasStatus, TypeOK
    <3>8. CASE PowerICC(l) \/ PowerStored(l) \/ Transmit(l)
      <4>1. Counted(l)' <=> Counted(l)
        BY <1>1, <3>8 DEF PowerICC, PowerStored, Transmit, Goto, Counted, TypeOK
      <4>2. QED
        BY <1>1, <2>1, <2>4, <3>8, <4>1
           DEF IInv, PowerICC, PowerStored, Transmit, Goto, ReadFresh, NoChannelYet,
               OpenHasStatus, TypeOK
    <3>9. QED
      BY <1>3, <3>1, <3>2, <3>3, <3>4, <3>5, <3>6, <3>7, <3>8 DEF LunStep
  <2>10. QED
    BY <1>1, <2>2, <2>9 DEF IInv
<1>4. QED
  BY <1>2, <1>3 DEF Next, LunStep

-----------------------------------------------------------------------------
\* The variables keep their types, also if calls for different LUNs race for the
\* use count: it never becomes negative.
THEOREM IfdTypeCorrect == Spec => []TypeOK
<1>1. Init => TypeOK
  BY IfdAssumption DEF Init, TypeOK
<1>2. TypeOK /\ [Next]_vars => TypeOK'
  BY TypeStep
<1>3. QED
  BY <1>1, <1>2, PTL DEF Spec

\* With channels created and closed one at a time the whole invariant holds.
THEOREM IfdInvariant == ASSUME Serial PROVE Spec => []IInv
<1>1. Init => IInv
  <2> SUFFICES ASSUME Init PROVE IInv
    OBVIOUS
  <2>1. TypeOK
    BY IfdAssumption DEF Init, TypeOK
  <2>2. Users = {}
    BY DEF Init, Users, Counted
  <2>3. QED
    BY <2>1, <2>2, FS_EmptySet
       DEF Init, IInv, OneManager, Managing, ReadFresh, NoChannelYet, OpenHasStatus
<1>2. IInv /\ [Next]_vars => IInv'
  BY InvariantStep
<1>3. QED
  BY <1>1, <1>2, PTL DEF Spec

\* A channel pcscd has open keeps its entry in ifdh_status, whatever is created,
\* closed or lost on other LUNs, if channels are created and closed one at a
\* time.
THEOREM IfdOpenHasStatus == ASSUME Serial PROVE Spec => []OpenHasStatus
BY IfdInvariant, PTL DEF IInv

\* Under the same assumption rsct_ifd_driver_initialized is the number of
\* channels, so that the last one to be closed, and no other, frees the table.
THEOREM IfdCountsChannels == ASSUME Serial PROVE Spec => []CountsChannels
<1>1. IInv => CountsChannels
  BY DEF IInv, CountsChannels, Users, Counted
<1>2. QED
  BY <1>1, IfdInvariant, PTL

-----------------------------------------------------------------------------
(* The terminal commands (module ModuleUpdate).                            *)

Elements == PieceSet \cup Records
Lists == UNION {[D -> {"active", "inactive", Unread}] : D \in SUBSET (Images \cup {Kernel})}
Objects == [there : BOOLEAN, comm : {"open", "closed"}, keys : Keys \X Keys, list : Lists,
            count : Nat, missed : BOOLEAN]
Readers == [modules : [Images -> Statuses], keys : Keys \X Keys, buffer : Seq(Elements),
            newKey : Keys, constants : BOOLEAN]
Changes == {"delall", "delete", "activate", "deactivate"}
Operations == {"none", "connect", "load", "keys", "selftest", "showauth"} \cup Changes
Steps == {"none", "info", "modules", "constants", "rebuild", "chunk", "verify", "change", "key", "verify key",
          "selftest", "showauth"}
Calls == [op : Operations, step : Steps, i : Nat, res : Results, module : Images \cup {Kernel}]

UpdateTypes ==
  /\ object \in Objects /\ object.count <= Cardinality(DOMAIN object.list)
  /\ data \in Seq(Elements) /\ Len(data) <= MaxUpload /\ signature \in Seq(Images)
  /\ call \in Calls /\ reader \in Readers /\ calls \in 0 .. MaxCalls

\* Which steps an operation has, and where it is in dataToFlash.
StepsOf(op) ==
  CASE op = "connect" -> {"info", "modules", "constants", "rebuild"}
    [] op = "load" -> {"chunk", "verify", "info", "modules"}
    [] op = "keys" -> {"key", "verify key", "info"}
    [] op \in Changes -> {"change", "modules"}
    [] OTHER -> {op}

CallOK ==
  /\ call.step \in StepsOf(call.op)
  /\ call.op \in Changes \ {"delall"} => call.module \in Images
  /\ call.i \in 1 .. Len(data) + 1
  /\ call.step = "chunk" \/ (call.op = "keys" /\ call.step # "key") => call.i <= Len(data)

\* Outside the steps that read it again, the list is fresh unless it could not be read.
Fresh ==
  /\ object.list = [m \in Installed \cup {Kernel} |-> Status(m)]
  /\ object.count = Cardinality(Installed \cup {Kernel})

ListDue == call.step = "modules" \/ (call.step = "info" /\ call.op # "keys")
ListOK == object.there /\ ~object.missed => ListDue \/ Fresh

\* The reader has received what CtLoadModule has sent, and runs it once it has verified it.
FlashOK ==
  call.op = "load" =>
    /\ call.step = "chunk" /\ call.i > 1 =>
         Len(reader.buffer) = call.i - 1 /\ \A k \in 1 .. call.i - 1 : reader.buffer[k] = data[k]
    /\ call.step = "verify" => reader.buffer = data
    /\ call.step \in {"info", "modules"} =>
         \E m \in Images : data = Whole(m) /\ signature = <<m>> /\ reader.modules[m] = "active"

NoKeys == <<NoKey, NoKey>>
NoSlots == <<Empty, Empty>>

\* Record j of file d is behind the reader's keys, or CtKeyUpdate will come to a newer
\* version of its key, from record i on.
Behind(d, keys, j) ==
  LET slots == SlotsOf(keys, d[j].key.KNr)
  IN  slots # {} => \E s \in slots : keys[s].Version >= d[j].key.Version
NewerRecord(d, k, j) == d[k].key.KNr = d[j].key.KNr /\ d[k].key.Version > d[j].key.Version
Settled(d, keys, j, i) == Behind(d, keys, j) \/ \E k \in i .. Len(d) : NewerRecord(d, k, j)

Sending == AsRoot(call.i) \/ AsSuccessor(call.i)
Rising == \A i \in 1 .. Len(data) : Header(i)

\* As long as the driver can reach the reader it has its keys, or knows that it has not: it
\* takes every slot for empty, or skips every record.
KeysKnown ==
  object.comm = "open" => \/ call.op = "keys" /\ call.step = "info"
                          \/ object.keys \in {reader.keys, NoSlots, NoKeys}

KeysOK ==
  call.op = "keys" =>
    /\ Rising
    /\ call.step = "verify key" => /\ object.comm = "open" /\ Sending
                                   /\ reader.newKey = data[call.i].key
    /\ call.step # "info" /\ (object.keys = reader.keys \/ (object.comm = "open" /\ object.keys = NoSlots)) =>
         \A j \in 2 .. call.i - 1 : Settled(data, reader.keys, j, call.i)
    /\ call.step = "info" => \A j \in 2 .. call.i : Settled(data, reader.keys, j, call.i + 1)

UpdateInv == UpdateTypes /\ CallOK /\ ListOK /\ FlashOK /\ KeysKnown /\ KeysOK

LEMMA KeyFacts ==
  /\ \A k \in Keys : k.KNr \in Nat /\ k.Version \in Nat
  /\ \A r \in Records : r.key \in Keys /\ r.key.KNr \in 1 .. 254 /\ r.key.Version \in 1 .. 254
  /\ NoKey \in Keys /\ Empty \in Keys
  /\ NoKey.KNr = 0 /\ Empty.KNr = 255 /\ NoKey.Version = 0
<1> DEFINE Numbers == [KNr : 0 .. 255, Version : 0 .. 255]
           FileKeys == [KNr : 1 .. 254, Version : 1 .. 254]
           Signers == [KNr : 0 .. 254, Version : 0 .. 254]
<1>1. NoKey.KNr = 0 /\ NoKey.Version = 0 /\ Empty.KNr = 255 /\ Empty.Version = 255
  BY DEF NoKey, Empty, Key
<1>2. \A r \in Records : r.key \in FileKeys /\ r.by \in Signers
  <2> DEFINE R == [key : FileKeys, by : Signers]
  <2>1. \A r \in R : r.key \in FileKeys /\ r.by \in Signers
    OBVIOUS
  <2>2. KeyRecords \in Seq(R)
    BY ModuleUpdateAssumption
  <2> HIDE DEF R
  <2>3. Records \subseteq R
    BY <2>2 DEF Records
  <2>4. QED
    BY <2>1, <2>3
<1>3. \A k \in FactoryKeys : k[1] \in Numbers /\ k[2] \in Numbers
  BY ModuleUpdateAssumption
<1>4. \A k \in FileKeys \cup Signers \cup Numbers : k.KNr \in Nat /\ k.Version \in Nat
  OBVIOUS
<1>5. \A k \in FileKeys : k.KNr \in 1 .. 254 /\ k.Version \in 1 .. 254
  OBVIOUS
<1> HIDE DEF Numbers, FileKeys, Signers
<1> DEFINE A == {r.key : r \in Records}
           B == {r.by : r \in Records}
           C == UNION {{k[1], k[2]} : k \in FactoryKeys}
<1>10. Keys = A \cup B \cup C \cup {Empty, NoKey}
  BY DEF Keys
<1> HIDE DEF A, B, C
<1>6. \A k \in Keys : k.KNr \in Nat /\ k.Version \in Nat
  <2> SUFFICES ASSUME NEW k \in Keys PROVE k.KNr \in Nat /\ k.Version \in Nat
    OBVIOUS
  <2>1. \/ \E r \in Records : k = r.key \/ k = r.by
        \/ \E f \in FactoryKeys : k = f[1] \/ k = f[2]
        \/ k \in {Empty, NoKey}
    <3>1. CASE k \in A
      BY <3>1 DEF A
    <3>2. CASE k \in B
      BY <3>2 DEF B
    <3>3. CASE k \in C
      BY <3>3 DEF C
    <3>4. QED
      BY <1>10, <3>1, <3>2, <3>3
  <2>2. QED
    BY <1>1, <1>2, <1>3, <1>4, <2>1
<1>7. \A r \in Records : r.key \in Keys
  BY <1>10 DEF A
<1>8. NoKey \in Keys /\ Empty \in Keys
  BY <1>10
<1>9. QED
  BY <1>1, <1>2, <1>5, <1>6, <1>7, <1>8

\* The records after an assignment to some of their fields.
WithComm(o, c) == [o EXCEPT !.comm = c]
WithMissed(o, b) == [o EXCEPT !.missed = b]
WithKeys(o, k, c) == [o EXCEPT !.keys = k, !.comm = c]
WithList(o, l, n, c, b) == [o EXCEPT !.list = l, !.count = n, !.comm = c, !.missed = b]
Ending(r) == [NoCall EXCEPT !.res = r]
Going(c, s, i, r) == [c EXCEPT !.step = s, !.i = i, !.res = r]
Calling(op, s, m) == [NoCall EXCEPT !.op = op, !.step = s, !.module = m]
WithConstants(r) == [r EXCEPT !.constants = TRUE]
WithBuffer(r, b) == [r EXCEPT !.buffer = b]
WithNewKey(r, k) == [r EXCEPT !.newKey = k]
WithModules(r, m) == [r EXCEPT !.modules = m]
WithSlots(r, k) == [r EXCEPT !.keys = k]

LEMMA ObjectFacts ==
  \A o \in Objects :
    /\ o.there \in BOOLEAN /\ o.comm \in {"open", "closed"} /\ o.keys \in Keys \X Keys /\ o.list \in Lists
    /\ o.count \in Nat /\ o.missed \in BOOLEAN
BY DEF Objects

LEMMA CommFacts ==
  ASSUME NEW o \in Objects, NEW c \in {"open", "closed"}
  PROVE  /\ WithComm(o, c) \in Objects
         /\ WithComm(o, c).there = o.there /\ WithComm(o, c).comm = c /\ WithComm(o, c).keys = o.keys
         /\ WithComm(o, c).list = o.list /\ WithComm(o, c).count = o.count /\ WithComm(o, c).missed = o.missed
<1> DEFINE K == Keys \X Keys
<1>1. Objects = [there : BOOLEAN, comm : {"open", "closed"}, keys : K, list : Lists, count : Nat, missed : BOOLEAN]
  BY DEF Objects
<1> HIDE DEF K
<1>2. QED
  BY <1>1 DEF WithComm

LEMMA MissedFacts ==
  ASSUME NEW o \in Objects, NEW b \in BOOLEAN
  PROVE  /\ WithMissed(o, b) \in Objects
         /\ WithMissed(o, b).there = o.there /\ WithMissed(o, b).comm = o.comm /\ WithMissed(o, b).keys = o.keys
         /\ WithMissed(o, b).list = o.list /\ WithMissed(o, b).count = o.count /\ WithMissed(o, b).missed = b
<1> DEFINE K == Keys \X Keys
<1>1. Objects = [there : BOOLEAN, comm : {"open", "closed"}, keys : K, list : Lists, count : Nat, missed : BOOLEAN]
  BY DEF Objects
<1> HIDE DEF K
<1>2. QED
  BY <1>1 DEF WithMissed

LEMMA SlotsFacts ==
  ASSUME NEW o \in Objects, NEW k \in Keys \X Keys, NEW c \in {"open", "closed"}
  PROVE  /\ WithKeys(o, k, c) \in Objects
         /\ WithKeys(o, k, c).there = o.there /\ WithKeys(o, k, c).comm = c /\ WithKeys(o, k, c).keys = k
         /\ WithKeys(o, k, c).list = o.list /\ WithKeys(o, k, c).count = o.count /\ WithKeys(o, k, c).missed = o.missed
<1> DEFINE K == Keys \X Keys
<1>1. Objects = [there : BOOLEAN, comm : {"open", "closed"}, keys : K, list : Lists, count : Nat, missed : BOOLEAN]
  BY DEF Objects
<1>2. k \in K
  OBVIOUS
<1> HIDE DEF K
<1>3. QED
  BY <1>1, <1>2 DEF WithKeys

LEMMA ListFacts ==
  ASSUME NEW o \in Objects, NEW l \in Lists, NEW n \in Nat, NEW c \in {"open", "closed"}, NEW b \in BOOLEAN
  PROVE  /\ WithList(o, l, n, c, b) \in Objects
         /\ WithList(o, l, n, c, b).there = o.there /\ WithList(o, l, n, c, b).comm = c /\ WithList(o, l, n, c, b).keys = o.keys
         /\ WithList(o, l, n, c, b).list = l /\ WithList(o, l, n, c, b).count = n /\ WithList(o, l, n, c, b).missed = b
<1> DEFINE K == Keys \X Keys
<1>1. Objects = [there : BOOLEAN, comm : {"open", "closed"}, keys : K, list : Lists, count : Nat, missed : BOOLEAN]
  BY DEF Objects
<1> HIDE DEF K
<1>2. QED
  BY <1>1 DEF WithList

LEMMA CallFacts ==
  /\ \A c \in Calls : /\ c.op \in Operations /\ c.step \in Steps /\ c.i \in Nat /\ c.res \in Results
                      /\ c.module \in Images \cup {Kernel}
  /\ \A r \in Results :
       LET d == Ending(r)
       IN  d \in Calls /\ d.op = "none" /\ d.step = "none" /\ d.i = 1 /\ d.res = r
  /\ \A c \in Calls, s \in Steps, i \in Nat, r \in Results :
       LET d == Going(c, s, i, r)
       IN  d \in Calls /\ d.op = c.op /\ d.step = s /\ d.i = i /\ d.res = r /\ d.module = c.module
  /\ \A o \in Operations, s \in Steps, m \in Images \cup {Kernel} :
       LET d == Calling(o, s, m)
       IN  d \in Calls /\ d.op = o /\ d.step = s /\ d.i = 1 /\ d.res = "ok" /\ d.module = m
<1> DEFINE M == Images \cup {Kernel}
<1>1. "ok" \in Results /\ "none" \in Operations /\ "none" \in Steps /\ Kernel \in M
  BY DEF Results, Operations, Steps
<1> HIDE DEF M
<1>0. Calls = [op : Operations, step : Steps, i : Nat, res : Results, module : M]
  BY DEF Calls, M
<1>2. NoCall \in Calls /\ NoCall.op = "none" /\ NoCall.step = "none" /\ NoCall.i = 1 /\ NoCall.res = "ok"
  BY <1>0, <1>1 DEF NoCall
<1>3. \A c \in Calls : c.op \in Operations /\ c.step \in Steps /\ c.i \in Nat /\ c.res \in Results /\ c.module \in M
  BY <1>0
<1>4. ASSUME NEW r \in Results
      PROVE  LET d == Ending(r)
             IN  d \in Calls /\ d.op = "none" /\ d.step = "none" /\ d.i = 1 /\ d.res = r
  BY <1>0, <1>2 DEF Ending
<1>5. ASSUME NEW c \in Calls, NEW s \in Steps, NEW i \in Nat, NEW r \in Results
      PROVE  LET d == Going(c, s, i, r)
             IN  d \in Calls /\ d.op = c.op /\ d.step = s /\ d.i = i /\ d.res = r /\ d.module = c.module
  BY <1>0 DEF Going
<1>6. ASSUME NEW o \in Operations, NEW s \in Steps, NEW m \in M
      PROVE  LET d == Calling(o, s, m)
             IN  d \in Calls /\ d.op = o /\ d.step = s /\ d.i = 1 /\ d.res = "ok" /\ d.module = m
  BY <1>0, <1>2 DEF Calling
<1>7. QED
  BY <1>3, <1>4, <1>5, <1>6 DEF M

LEMMA ReaderFacts ==
  /\ \A r \in Readers : /\ r.modules \in [Images -> Statuses] /\ r.keys \in Keys \X Keys
                        /\ r.buffer \in Seq(Elements) /\ r.newKey \in Keys /\ r.constants \in BOOLEAN
  /\ \A r \in Readers :
       /\ Forgetful(r) \in Readers /\ Forgetful(r).modules = r.modules /\ Forgetful(r).keys = r.keys
       /\ WithConstants(r) \in Readers /\ WithConstants(r).modules = r.modules
       /\ WithConstants(r).keys = r.keys
  /\ \A r \in Readers, b \in Seq(Elements) :
       LET q == WithBuffer(r, b)
       IN  q \in Readers /\ q.modules = r.modules /\ q.keys = r.keys /\ q.buffer = b
  /\ \A r \in Readers, k \in Keys :
       LET q == WithNewKey(r, k)
       IN  q \in Readers /\ q.modules = r.modules /\ q.keys = r.keys /\ q.newKey = k
  /\ \A r \in Readers, m \in [Images -> Statuses] :
       LET q == WithModules(r, m)
       IN  q \in Readers /\ q.modules = m /\ q.keys = r.keys
  /\ \A r \in Readers, k \in Keys \X Keys :
       LET q == WithSlots(r, k)
       IN  q \in Readers /\ q.modules = r.modules /\ q.keys = k
<1> DEFINE K == Keys \X Keys
           F == [Images -> Statuses]
           B == Seq(Elements)
<1>1. <<>> \in B /\ NoKey \in Keys
  BY KeyFacts
<1> HIDE DEF K, F, B
<1>0. Readers = [modules : F, keys : K, buffer : B, newKey : Keys, constants : BOOLEAN]
  BY DEF Readers, K, F, B
<1>2. \A r \in Readers : /\ r.modules \in F /\ r.keys \in K
                         /\ r.buffer \in B /\ r.newKey \in Keys /\ r.constants \in BOOLEAN
  BY <1>0
<1>3. ASSUME NEW r \in Readers
      PROVE  Forgetful(r) \in Readers /\ Forgetful(r).modules = r.modules /\ Forgetful(r).keys = r.keys
  BY <1>0, <1>1 DEF Forgetful
<1>4. ASSUME NEW r \in Readers
      PROVE  /\ WithConstants(r) \in Readers /\ WithConstants(r).modules = r.modules
             /\ WithConstants(r).keys = r.keys
  BY <1>0 DEF WithConstants
<1>5. ASSUME NEW r \in Readers, NEW b \in B
      PROVE  LET q == WithBuffer(r, b)
             IN  q \in Readers /\ q.modules = r.modules /\ q.keys = r.keys /\ q.buffer = b
  BY <1>0 DEF WithBuffer
<1>6. ASSUME NEW r \in Readers, NEW k \in Keys
      PROVE  LET q == WithNewKey(r, k)
             IN  q \in Readers /\ q.modules = r.modules /\ q.keys = r.keys /\ q.newKey = k
  BY <1>0 DEF WithNewKey
<1>7. ASSUME NEW r \in Readers, NEW m \in F
      PROVE  LET q == WithModules(r, m)
             IN  q \in Readers /\ q.modules = m /\ q.keys = r.keys
  BY <1>0 DEF WithModules
<1>8. ASSUME NEW r \in Readers, NEW k \in K
      PROVE  LET q == WithSlots(r, k)
             IN  q \in Readers /\ q.modules = r.modules /\ q.keys = k
  BY <1>0 DEF WithSlots
<1>9. QED
  BY <1>2, <1>3, <1>4, <1>5, <1>6, <1>7, <1>8 DEF K, F, B

\* What an escape message tells the driver.
LEMMA EscapeFacts ==
  ASSUME NEW e \in Escape, object \in Objects
  PROVE  /\ e.done \in BOOLEAN /\ e.res \in {"ok", "check", "lost", "broken"} /\ e.comm \in {"open", "closed"}
         /\ e.res = "ok" => e.done /\ e.comm = "open"
         /\ e.comm = "open" => object.comm = "open" /\ (e.done => e.res = "ok")
         /\ e.comm = "closed" => e.res \in {"lost", "broken"}
<1> DEFINE A == [done |-> FALSE, res |-> "lost", comm |-> "closed"]
           B == [done |-> TRUE, res |-> "ok", comm |-> "open"]
           C == [done |-> FALSE, res |-> "check", comm |-> "open"]
           D == [done : BOOLEAN, res : {"lost", "broken"}, comm : {"closed"}]
<1>0. object.comm \in {"open", "closed"}
  BY ObjectFacts
<1>1. \/ e = A
      \/ object.comm = "open" /\ (e = B \/ e = C \/ e \in D)
  BY <1>0 DEF Escape
<1>2. CASE e = A
  BY <1>2
<1>3. CASE object.comm = "open" /\ e = B
  BY <1>3
<1>4. CASE object.comm = "open" /\ e = C
  BY <1>4
<1>5. CASE e \in D
  BY <1>5
<1>6. QED
  BY <1>1, <1>2, <1>3, <1>4, <1>5

\* The list of object o is the one of reader r.
FreshFor(o, r) ==
  LET all == {n \in Images : r.modules[n] # "absent"} \cup {Kernel}
  IN  /\ o.list = [m \in all |-> IF m = Kernel THEN "active" ELSE r.modules[m]]
      /\ o.count = Cardinality(all)

KnownFor(o, r) == o.comm = "open" => o.keys \in {r.keys, NoSlots, NoKeys}

SoundObject(o) == o \in Objects /\ o.count <= Cardinality(DOMAIN o.list)

LEMMA FreshFacts ==
  /\ Fresh <=> FreshFor(object, reader)
  /\ Fresh' <=> FreshFor(object', reader')
BY DEF Fresh, FreshFor, Installed, Status

LEMMA NoObjectFacts ==
  /\ SoundObject(NoObject) /\ ~NoObject.there /\ NoObject.comm = "closed"
  /\ SoundObject(NewObject) /\ NewObject.there /\ NewObject.keys = NoKeys
<1> DEFINE K == Keys \X Keys
           empty == [m \in {} |-> Unread]
<1>1. NoKeys \in K
  BY KeyFacts DEF NoKeys
<1>2. empty \in Lists /\ DOMAIN empty = {}
  <2>1. empty \in [{} -> {"active", "inactive", Unread}] /\ {} \in SUBSET (Images \cup {Kernel})
    OBVIOUS
  <2>2. QED
    BY <2>1 DEF Lists
<1>3. Cardinality({}) = 0
  BY FS_EmptySet
<1>4. NewObject = [there |-> TRUE, comm |-> "open", keys |-> NoKeys, list |-> empty, count |-> 0, missed |-> FALSE]
  BY DEF NewObject, NoKeys
<1> HIDE DEF K, empty
<1>5. Objects = [there : BOOLEAN, comm : {"open", "closed"}, keys : K, list : Lists, count : Nat, missed : BOOLEAN]
  BY DEF Objects, K
<1>6. /\ NewObject \in Objects /\ NewObject.there /\ NewObject.keys = NoKeys /\ NewObject.list = empty
      /\ NewObject.count = 0
  BY <1>1, <1>2, <1>4, <1>5
<1>7. /\ NoObject \in Objects /\ ~NoObject.there /\ NoObject.comm = "closed" /\ NoObject.list = empty
      /\ NoObject.count = 0
  BY <1>5, <1>6 DEF NoObject
<1>8. QED
  BY <1>2, <1>3, <1>6, <1>7 DEF SoundObject

\* A call that returns leaves an object that knows the reader, or none.
LEMMA Returned ==
  ASSUME UpdateInv, NEW res, NEW o, Return(res, o), UNCHANGED <<data, signature, calls>>, reader' \in Readers,
         \/ res = "lost" \/ (call.op = "connect" /\ res # "ok")
         \/ SoundObject(o) /\ KnownFor(o, reader') /\ (o.there /\ ~o.missed => FreshFor(o, reader'))
  PROVE  UpdateInv'
<1>1. CtRv(res) \in Results
  BY DEF CtRv, Results
<1>2. call' \in Calls /\ call'.op = "none" /\ call'.step = "none" /\ call'.i = 1
  <2>1. call' = Ending(CtRv(res))
    BY DEF Return, Ending
  <2>2. QED
    BY <1>1, <2>1, CallFacts
<1>3. SoundObject(object') /\ KnownFor(object', reader') /\ (object'.there /\ ~object'.missed => FreshFor(object', reader'))
  BY NoObjectFacts DEF Return, KnownFor
<1>4. UpdateTypes'
  BY <1>2, <1>3 DEF UpdateInv, UpdateTypes, SoundObject
<1>5. Len(data) \in Nat
  BY DEF UpdateInv, UpdateTypes
<1>6. CallOK'
  BY <1>2, <1>5 DEF CallOK, StepsOf, Changes
<1>7. ListOK'
  BY <1>3, FreshFacts DEF ListOK
<1>8. KeysKnown'
  BY <1>3 DEF KeysKnown, KnownFor
<1>9. FlashOK' /\ KeysOK'
  BY <1>2 DEF FlashOK, KeysOK
<1>10. QED
  BY <1>4, <1>6, <1>7, <1>8, <1>9 DEF UpdateInv

\* A call that goes on, up to what only uploads and key files need.
LEMMA WentOn ==
  ASSUME UpdateInv, NEW s \in Steps, NEW i \in 1 .. Len(data) + 1, NEW res \in Results, NEW o,
         GoTo(s, i, res, o), UNCHANGED <<data, signature, calls>>, reader' \in Readers, SoundObject(o),
         s \in StepsOf(call.op), s = "chunk" \/ (call.op = "keys" /\ s # "key") => i <= Len(data),
         KnownFor(o, reader') \/ (call.op = "keys" /\ s = "info"),
         s = "modules" \/ (s = "info" /\ call.op # "keys") \/ (o.there /\ ~o.missed => FreshFor(o, reader'))
  PROVE  /\ UpdateTypes' /\ CallOK' /\ ListOK' /\ KeysKnown' /\ object' = o
         /\ call'.op = call.op /\ call'.step = s /\ call'.i = i /\ call'.res = res
<1>1. UpdateTypes /\ CallOK /\ call \in Calls /\ Len(data) \in Nat
  BY DEF UpdateInv, UpdateTypes
<1>2. i \in Nat
  BY <1>1
<1>3. /\ call' \in Calls /\ call'.op = call.op /\ call'.step = s /\ call'.i = i /\ call'.res = res
      /\ call'.module = call.module /\ object' = o
  <2> DEFINE d == Going(call, s, i, res)
  <2>1. d \in Calls /\ d.op = call.op /\ d.step = s /\ d.i = i /\ d.res = res /\ d.module = call.module
    BY <1>1, <1>2, CallFacts
  <2>2. call' = d /\ object' = o
    BY DEF GoTo, Going
  <2> HIDE DEF d
  <2>3. QED
    BY <2>1, <2>2
<1>4. UpdateTypes'
  BY <1>1, <1>3 DEF UpdateTypes, SoundObject
<1>5. CallOK'
  BY <1>1, <1>3 DEF CallOK
<1>6. ListOK'
  BY <1>3, FreshFacts DEF ListOK, ListDue
<1>7. KeysKnown'
  BY <1>3 DEF KeysKnown, KnownFor
<1>8. QED
  BY <1>3, <1>4, <1>5, <1>6, <1>7

\* A message that leaves modules and keys alone, if it is not the list that is being read.
LEMMA AfterFacts ==
  ASSUME UpdateInv, NEW e \in Escape, NEW r \in Readers, r.modules = reader.modules,
         ~ListDue, ~(call.op = "keys" /\ call.step = "info")
  PROVE  /\ SoundObject(After(e)) /\ After(e).comm = e.comm /\ After(e).keys = object.keys
         /\ After(e).there = object.there /\ After(e).missed = object.missed
         /\ After(e).there /\ ~After(e).missed => FreshFor(After(e), r)
         /\ r.keys = reader.keys \/ e.comm = "closed" => KnownFor(After(e), r)
<1>1. object \in Objects /\ object.count <= Cardinality(DOMAIN object.list)
  BY DEF UpdateInv, UpdateTypes
<1>2. e.comm \in {"open", "closed"} /\ (e.comm = "open" => object.comm = "open")
  BY <1>1, EscapeFacts
<1>3. /\ After(e) \in Objects /\ After(e).comm = e.comm /\ After(e).there = object.there
      /\ After(e).keys = object.keys /\ After(e).list = object.list /\ After(e).count = object.count
      /\ After(e).missed = object.missed
  <2> DEFINE p == WithComm(object, e.comm)
  <2>1. /\ p \in Objects /\ p.comm = e.comm /\ p.there = object.there /\ p.keys = object.keys
        /\ p.list = object.list /\ p.count = object.count /\ p.missed = object.missed
    BY <1>1, <1>2, CommFacts
  <2>2. After(e) = p
    BY DEF After, WithComm
  <2> HIDE DEF p
  <2>3. QED
    BY <2>1, <2>2
<1>4. SoundObject(After(e))
  BY <1>1, <1>3 DEF SoundObject
<1>5. object.there /\ ~object.missed => FreshFor(object, reader)
  BY FreshFacts DEF UpdateInv, ListOK
<1>6. FreshFor(object, reader) => FreshFor(After(e), r)
  BY <1>3 DEF FreshFor
<1>7. r.keys = reader.keys \/ e.comm = "closed" => KnownFor(After(e), r)
  BY <1>2, <1>3 DEF UpdateInv, KeysKnown, KnownFor
<1>8. QED
  BY <1>3, <1>4, <1>5, <1>6, <1>7

LEMMA ExecutesFacts ==
  ASSUME UpdateInv, NEW e \in Escape, NEW possible, NEW after, possible => after \in Readers,
         Executes(possible, after, e)
  PROVE  /\ reader' \in Readers
         /\ e.done => possible /\ reader'.modules = after.modules /\ reader'.keys = after.keys
         /\ ~e.done => reader'.modules = reader.modules /\ reader'.keys = reader.keys
         /\ ~Fails(e) => reader' = after /\ possible /\ e.done
<1>1. reader \in Readers /\ object \in Objects
  BY DEF UpdateInv, UpdateTypes
<1>2. e.done \in BOOLEAN /\ (e.res = "ok" => e.done)
  BY <1>1, EscapeFacts
<1>3. CASE e.done
  <2>1. possible /\ after \in Readers /\ reader' = IF Fails(e) THEN Forgetful(after) ELSE after
    BY <1>3 DEF Executes
  <2>2. Forgetful(after) \in Readers /\ Forgetful(after).modules = after.modules /\ Forgetful(after).keys = after.keys
    BY <2>1, ReaderFacts
  <2>3. CASE Fails(e)
    BY <1>3, <2>1, <2>2, <2>3
  <2>4. CASE ~Fails(e)
    BY <1>3, <2>1, <2>4
  <2>5. QED
    BY <2>3, <2>4
<1>4. CASE ~e.done
  <2>1. reader' = Forgetful(reader) /\ Fails(e)
    BY <1>2, <1>4 DEF Executes, Fails
  <2>2. QED
    BY <1>1, <1>4, <2>1, ReaderFacts
<1>5. QED
  BY <1>2, <1>3, <1>4

LEMMA MaskStep ==
  ASSUME UpdateInv, MaskFails, UNCHANGED <<data, signature, calls>>, ~ListDue, ~(call.op = "keys" /\ call.step = "info")
  PROVE  UpdateInv'
<1>1. PICK e \in Escape : Return(e.res, After(e)) /\ reader' = Forgetful(reader)
  BY DEF MaskFails, After
<1>2. reader \in Readers
  BY DEF UpdateInv, UpdateTypes
<1>3. reader' \in Readers /\ reader'.modules = reader.modules /\ reader'.keys = reader.keys
  BY <1>1, <1>2, ReaderFacts
<1>4. /\ SoundObject(After(e)) /\ KnownFor(After(e), reader')
      /\ After(e).there /\ ~After(e).missed => FreshFor(After(e), reader')
  BY <1>3, AfterFacts
<1>5. QED
  BY <1>1, <1>3, <1>4, Returned

\* A message that fails without changing modules or keys ends the call with the object kept.
LEMMA FailStep ==
  ASSUME UpdateInv, NEW e \in Escape, NEW res, Return(res, After(e)), UNCHANGED <<data, signature, calls>>,
         reader' \in Readers, reader'.modules = reader.modules, reader'.keys = reader.keys \/ e.comm = "closed",
         ~ListDue, ~(call.op = "keys" /\ call.step = "info")
  PROVE  UpdateInv'
<1>1. /\ SoundObject(After(e)) /\ KnownFor(After(e), reader')
      /\ After(e).there /\ ~After(e).missed => FreshFor(After(e), reader')
  BY AfterFacts
<1>2. QED
  BY <1>1, Returned

LEMMA TestStep ==
  ASSUME UpdateInv, SelfTest \/ ShowAuth, UNCHANGED <<data, signature, calls>>
  PROVE  UpdateInv'
<1>1. call.step \in {"selftest", "showauth"}
  BY DEF SelfTest, ShowAuth
<1>2. ~ListDue /\ ~(call.op = "keys" /\ call.step = "info")
  BY <1>1 DEF ListDue
<1>3. CASE MaskFails
  BY <1>2, <1>3, MaskStep
<1>4. CASE \E e \in Escape, res \in {"ok", "check", "lost"} : Executes(TRUE, reader, e) /\ Return(res, After(e))
  <2>1. PICK e \in Escape, res \in {"ok", "check", "lost"} : Executes(TRUE, reader, e) /\ Return(res, After(e))
    BY <1>4
  <2>2. reader \in Readers
    BY DEF UpdateInv, UpdateTypes
  <2>3. reader' \in Readers /\ reader'.modules = reader.modules /\ reader'.keys = reader.keys
    <3>1. object \in Objects
      BY DEF UpdateInv, UpdateTypes
    <3>2. e.done \in BOOLEAN
      BY <3>1, EscapeFacts
    <3>3. QED
      BY <2>1, <2>2, <3>2, ExecutesFacts
  <2>4. QED
    BY <1>2, <2>1, <2>3, FailStep
<1>5. QED
  BY <1>3, <1>4 DEF SelfTest, ShowAuth

LEMMA InfoFacts ==
  ASSUME UpdateInv, NEW r \in ReaderInfo
  PROVE  /\ SoundObject(r.object) /\ KnownFor(r.object, reader) /\ r.res \in {"ok", "check", "lost", "broken"}
         /\ r.object.keys \in {reader.keys, NoSlots, NoKeys}
         /\ r.object.there = object.there /\ r.object.missed = object.missed
         /\ r.object.list = object.list /\ r.object.count = object.count
<1>1. object \in Objects /\ object.count <= Cardinality(DOMAIN object.list) /\ reader \in Readers
  BY DEF UpdateInv, UpdateTypes
<1>2. \E k \in {NoKeys, reader.keys, NoSlots}, c \in {"open", "closed"}, res \in {"ok", "check", "lost", "broken"} :
        r = [object |-> WithKeys(object, k, c), res |-> res]
  <2> DEFINE failures == {e \in Escape : Fails(e)}
             info(keys, res, comm) == [object |-> WithKeys(object, keys, comm), res |-> res]
  <2>1. \/ r \in {info(NoKeys, e.res, e.comm) : e \in failures}
        \/ r = info(reader.keys, "ok", "open")
        \/ r \in {info(NoSlots, "ok", e.comm) : e \in failures}
    BY DEF ReaderInfo, WithKeys, NoKeys, NoSlots
  <2>2. \A e \in failures : e.comm \in {"open", "closed"} /\ e.res \in {"ok", "check", "lost", "broken"}
    BY <1>1, EscapeFacts
  <2>3. QED
    BY <2>1, <2>2
<1>3. PICK k \in {NoKeys, reader.keys, NoSlots}, c \in {"open", "closed"}, res \in {"ok", "check", "lost", "broken"} :
        r = [object |-> WithKeys(object, k, c), res |-> res]
  BY <1>2
<1>4. r.object = WithKeys(object, k, c) /\ r.res = res
  BY <1>3
<1>5. k \in Keys \X Keys
  <2>1. reader.keys \in Keys \X Keys
    BY <1>1, ReaderFacts
  <2>2. NoKeys \in Keys \X Keys /\ NoSlots \in Keys \X Keys
    BY KeyFacts DEF NoKeys, NoSlots
  <2>3. QED
    BY <2>1, <2>2
<1>6. /\ r.object \in Objects /\ r.object.keys = k /\ r.object.there = object.there
      /\ r.object.missed = object.missed /\ r.object.list = object.list /\ r.object.count = object.count
  BY <1>1, <1>4, <1>5, SlotsFacts
<1>7. QED
  BY <1>1, <1>4, <1>6 DEF SoundObject, KnownFor

LEMMA SetFacts ==
  ASSUME UpdateInv
  PROVE  /\ IsFiniteSet(Installed \cup {Kernel}) /\ Cardinality(Installed \cup {Kernel}) \in Nat
         /\ \A l \in Lists : Cardinality(DOMAIN l) \in Nat
         /\ \A S : ListOf(S) \in Lists /\ DOMAIN ListOf(S) = Installed \cup {Kernel}
<1> DEFINE M == Images \cup {Kernel}
           all == Installed \cup {Kernel}
<1>1. IsFiniteSet(M)
  BY ModuleUpdateAssumption, FS_AddElement
<1>2. all \in SUBSET M
  BY DEF Installed
<1>3. \A l \in Lists : DOMAIN l \in SUBSET M
  BY DEF Lists
<1>4. \A D \in SUBSET M : IsFiniteSet(D) /\ Cardinality(D) \in Nat
  BY <1>1, FS_Subset, FS_CardinalityType
<1>5. ASSUME NEW S PROVE ListOf(S) \in Lists /\ DOMAIN ListOf(S) = all
  <2>1. reader.modules \in [Images -> Statuses]
    BY ReaderFacts DEF UpdateInv, UpdateTypes
  <2>2. \A m \in all : Status(m) \in {"active", "inactive"}
    BY <2>1 DEF Status, Installed, Statuses
  <2>3. ListOf(S) \in [all -> {"active", "inactive", Unread}]
    BY <2>2 DEF ListOf
  <2> HIDE DEF all, M
  <2>4. QED
    BY <1>2, <2>3 DEF Lists, M
<1>6. QED
  BY <1>2, <1>3, <1>4, <1>5

LEMMA ModulesFacts ==
  ASSUME UpdateInv, NEW r \in ModuleInfo
  PROVE  /\ SoundObject(r.object) /\ r.res \in {"ok", "check", "lost", "broken"}
         /\ r.object.there = object.there /\ r.object.keys = object.keys
         /\ r.object.comm = "open" => object.comm = "open"
         /\ ~r.object.missed => FreshFor(r.object, reader)
<1>1. object \in Objects /\ object.list \in Lists /\ object.comm \in {"open", "closed"}
  BY ObjectFacts DEF UpdateInv, UpdateTypes
<1> DEFINE all == Installed \cup {Kernel}
           info(l, n, e) == [object |-> WithList(object, l, n, e.comm, Fails(e)), res |-> e.res]
<1>2. Cardinality(all) \in Nat
  BY SetFacts
<1>3. \E e \in Escape :
        \/ Fails(e) /\ r = info(object.list, 0, e)
        \/ ~Fails(e) /\ r = info(ListOf(all), Cardinality(all), e)
        \/ Fails(e) /\ \E S \in SUBSET all : r = info(ListOf(S), Cardinality(all), e)
  <2> DEFINE failures == {e \in Escape : Fails(e)}
             begun == {x \in SUBSET all : x # all /\ (x # {} => Kernel \in x)}
             A == {Listed(object.list, 0, e) : e \in failures}
             B == {Listed(ListOf(all), Cardinality(all), e) : e \in Escape \ failures}
             C == {Listed(ListOf(x), Cardinality(all), e) : e \in failures, x \in begun}
  <2>1. r \in A \/ r \in B \/ r \in C
    BY DEF ModuleInfo
  <2>2. \A l, n, e : Listed(l, n, e) = info(l, n, e)
    BY DEF Listed, WithList
  <2>3. CASE r \in A
    BY <2>2, <2>3
  <2>4. CASE r \in B
    BY <2>2, <2>4
  <2>5. CASE r \in C
    <3>1. \E e \in failures, x \in begun : r = Listed(ListOf(x), Cardinality(all), e)
      BY <2>5
    <3>2. QED
      BY <2>2, <3>1
  <2> HIDE DEF A, B, C
  <2>6. QED
    BY <2>1, <2>3, <2>4, <2>5, Zenon
<1>4. PICK e \in Escape :
        \/ Fails(e) /\ r = info(object.list, 0, e)
        \/ ~Fails(e) /\ r = info(ListOf(all), Cardinality(all), e)
        \/ Fails(e) /\ \E S \in SUBSET all : r = info(ListOf(S), Cardinality(all), e)
  BY <1>3
<1>5. e.comm \in {"open", "closed"} /\ e.res \in {"ok", "check", "lost", "broken"} /\ (e.comm = "open" => object.comm = "open")
  BY <1>1, EscapeFacts
<1>6. ASSUME NEW l \in Lists, NEW n \in Nat, n <= Cardinality(DOMAIN l), r = info(l, n, e)
      PROVE  /\ SoundObject(r.object) /\ r.res \in {"ok", "check", "lost", "broken"}
             /\ r.object.there = object.there /\ r.object.keys = object.keys
             /\ r.object.comm = "open" => object.comm = "open"
             /\ r.object.missed = Fails(e) /\ r.object.list = l /\ r.object.count = n
  <2>1. r.object = WithList(object, l, n, e.comm, Fails(e)) /\ r.res = e.res
    BY <1>6
  <2>2. Fails(e) \in BOOLEAN
    BY DEF Fails
  <2>3. /\ r.object \in Objects /\ r.object.there = object.there /\ r.object.keys = object.keys
        /\ r.object.comm = e.comm /\ r.object.missed = Fails(e) /\ r.object.list = l /\ r.object.count = n
    BY <1>1, <1>5, <2>1, <2>2, ListFacts
  <2>4. QED
    BY <1>5, <1>6, <2>1, <2>3 DEF SoundObject
<1>7. CASE Fails(e) /\ r = info(object.list, 0, e)
  <2>1. 0 <= Cardinality(DOMAIN object.list)
    BY <1>1, SetFacts
  <2> HIDE DEF info
  <2>2. QED
    BY <1>1, <1>6, <1>7, <2>1
<1>8. ASSUME NEW S, r = info(ListOf(S), Cardinality(all), e)
      PROVE  /\ SoundObject(r.object) /\ r.res \in {"ok", "check", "lost", "broken"}
             /\ r.object.there = object.there /\ r.object.keys = object.keys
             /\ r.object.comm = "open" => object.comm = "open"
             /\ r.object.missed = Fails(e) /\ r.object.list = ListOf(S) /\ r.object.count = Cardinality(all)
  <2>1. ListOf(S) \in Lists /\ Cardinality(all) <= Cardinality(DOMAIN ListOf(S))
    BY <1>2, SetFacts
  <2> HIDE DEF info
  <2>2. QED
    BY <1>2, <1>6, <1>8, <2>1
<1>9. CASE ~Fails(e) /\ r = info(ListOf(all), Cardinality(all), e)
  <2>1. ListOf(all) = [m \in all |-> Status(m)]
    BY DEF ListOf
  <2> HIDE DEF info
  <2>2. r.object.list = [m \in all |-> Status(m)] /\ r.object.count = Cardinality(all)
    BY <1>8, <1>9, <2>1
  <2>3. FreshFor(r.object, reader)
    BY <2>2 DEF FreshFor, Installed, Status
  <2>4. QED
    BY <1>8, <1>9, <2>3
<1>10. CASE Fails(e) /\ \E S \in SUBSET all : r = info(ListOf(S), Cardinality(all), e)
  <2> HIDE DEF info
  <2>1. PICK S \in SUBSET all : r = info(ListOf(S), Cardinality(all), e)
    BY <1>10
  <2>2. QED
    BY <1>8, <1>10, <2>1
<1>11. QED
  BY <1>4, <1>7, <1>9, <1>10

LEMMA StepNames ==
  /\ StepsOf("connect") = {"info", "modules", "constants", "rebuild"}
  /\ StepsOf("load") = {"chunk", "verify", "info", "modules"}
  /\ StepsOf("keys") = {"key", "verify key", "info"}
  /\ \A op \in Changes : StepsOf(op) = {"change", "modules"}
  /\ \A op \in {"none", "selftest", "showauth"} : StepsOf(op) = {op}
BY DEF StepsOf, Changes

LEMMA StepFacts ==
  ASSUME UpdateInv
  PROVE  /\ call.op \in Operations /\ call.step \in StepsOf(call.op) /\ call.res \in Results
         /\ Len(data) \in Nat /\ call.i \in 1 .. Len(data) + 1
         /\ reader \in Readers /\ SoundObject(object)
         /\ ~ListDue /\ object.there /\ ~object.missed => FreshFor(object, reader)
<1>1. call \in Calls /\ reader \in Readers /\ SoundObject(object) /\ Len(data) \in Nat
  BY DEF UpdateInv, UpdateTypes, SoundObject
<1>2. call.op \in Operations /\ call.res \in Results
  BY <1>1, CallFacts
<1>3. call.step \in StepsOf(call.op) /\ call.i \in 1 .. Len(data) + 1
  BY DEF UpdateInv, CallOK
<1>4. QED
  BY <1>1, <1>2, <1>3, FreshFacts DEF UpdateInv, ListOK

LEMMA InfoStep ==
  ASSUME UpdateInv, BuildReaderInfo, UNCHANGED <<data, signature, calls>>
  PROVE  UpdateInv'
<1>1. PICK r \in ReaderInfo :
        IF call.op = "keys" THEN GoTo("key", call.i + 1, "ok", r.object)
        ELSE IF call.op = "load" THEN GoTo("modules", call.i, call.res, r.object)
        ELSE IF call.step = "rebuild" \/ r.res # "ok" THEN Return(r.res, r.object)
        ELSE GoTo("modules", call.i, "ok", r.object)
  BY DEF BuildReaderInfo
<1>2. call.step \in {"info", "rebuild"} /\ UNCHANGED <<reader, data, signature, calls>>
  BY DEF BuildReaderInfo
<1>3. /\ SoundObject(r.object) /\ KnownFor(r.object, reader')
      /\ r.object.there = object.there /\ r.object.missed = object.missed
      /\ FreshFor(object, reader) => FreshFor(r.object, reader')
  BY <1>2, InfoFacts DEF FreshFor
<1>4. call.op \in {"connect", "load", "keys"} /\ (call.step = "rebuild" => call.op = "connect")
  BY <1>2, StepFacts DEF Operations, StepsOf, Changes
<1>5. {"key", "modules"} \subseteq Steps /\ "ok" \in Results
  BY DEF Steps, Results
<1>6. CASE call.op = "keys"
  <2>1. call.step = "info" /\ ~ListDue
    BY <1>2, <1>4, <1>6 DEF ListDue
  <2>2. call.i <= Len(data)
    BY <1>6, <2>1 DEF UpdateInv, CallOK
  <2>3. call.i + 1 \in 1 .. Len(data) + 1
    BY <2>2, StepFacts
  <2>4. "key" \in StepsOf(call.op)
    BY <1>6, StepNames
  <2>5. GoTo("key", call.i + 1, "ok", r.object)
    BY <1>1, <1>6
  <2>6. r.object.there /\ ~r.object.missed => FreshFor(r.object, reader')
    BY <1>3, <2>1, StepFacts
  <2>7. /\ UpdateTypes' /\ CallOK' /\ ListOK' /\ KeysKnown' /\ call'.op = "keys" /\ call'.step = "key"
        /\ call'.i = call.i + 1
    BY <1>2, <1>3, <1>5, <1>6, <2>3, <2>4, <2>5, <2>6, StepFacts, WentOn
  <2>8. Rising /\ \A j \in 2 .. call.i : Settled(data, reader.keys, j, call.i + 1)
    BY <1>6, <2>1 DEF UpdateInv, KeysOK
  <2>9. Rising'
    BY <1>2, <2>8 DEF Rising, Header
  <2>10. call'.i - 1 = call.i
    BY <2>7, StepFacts
  <2>11. KeysOK'
    BY <1>2, <2>7, <2>8, <2>9, <2>10 DEF KeysOK
  <2>12. FlashOK'
    BY <2>7 DEF FlashOK
  <2>13. QED
    BY <2>7, <2>11, <2>12 DEF UpdateInv
<1>7. CASE call.op = "load"
  <2>1. "modules" \in StepsOf(call.op) /\ call.step = "info"
    BY <1>2, <1>4, <1>7 DEF StepsOf
  <2>2. GoTo("modules", call.i, call.res, r.object)
    BY <1>1, <1>7
  <2>3. UpdateTypes' /\ CallOK' /\ ListOK' /\ KeysKnown' /\ call'.op = "load" /\ call'.step = "modules"
    BY <1>2, <1>3, <1>5, <1>7, <2>1, <2>2, StepFacts, WentOn
  <2>4. FlashOK'
    BY <1>2, <1>7, <2>1, <2>3 DEF UpdateInv, FlashOK
  <2>5. KeysOK'
    BY <2>3 DEF KeysOK
  <2>6. QED
    BY <2>3, <2>4, <2>5 DEF UpdateInv
<1>8. CASE call.op = "connect" /\ (call.step = "rebuild" \/ r.res # "ok")
  <2>1. Return(r.res, r.object)
    BY <1>1, <1>8
  <2>2. call.step = "rebuild" => ~ListDue
    BY DEF ListDue
  <2>3. r.res # "ok" \/ (r.object.there /\ ~r.object.missed => FreshFor(r.object, reader'))
    BY <1>3, <1>8, <2>2, StepFacts
  <2>4. QED
    BY <1>2, <1>3, <1>8, <2>1, <2>3, StepFacts, Returned
<1>9. CASE call.op = "connect" /\ ~(call.step = "rebuild" \/ r.res # "ok")
  <2>1. "modules" \in StepsOf(call.op)
    BY <1>9 DEF StepsOf
  <2>2. GoTo("modules", call.i, "ok", r.object)
    BY <1>1, <1>9
  <2>3. UpdateTypes' /\ CallOK' /\ ListOK' /\ KeysKnown' /\ call'.op = "connect"
    BY <1>2, <1>3, <1>5, <1>9, <2>1, <2>2, StepFacts, WentOn
  <2>4. FlashOK' /\ KeysOK'
    BY <2>3 DEF FlashOK, KeysOK
  <2>5. QED
    BY <2>3, <2>4 DEF UpdateInv
<1>10. QED
  BY <1>4, <1>6, <1>7, <1>8, <1>9

LEMMA ModulesStep ==
  ASSUME UpdateInv, BuildModuleInfo, UNCHANGED <<data, signature, calls>>
  PROVE  UpdateInv'
<1>1. PICK r \in ModuleInfo :
        IF call.op # "connect" THEN Return(call.res, r.object)
        ELSE IF r.res # "ok" \/ reader.constants THEN Return(r.res, r.object)
        ELSE GoTo("constants", 1, "ok", r.object)
  BY DEF BuildModuleInfo
<1>2. call.step = "modules" /\ UNCHANGED <<reader, data, signature, calls>>
  BY DEF BuildModuleInfo
<1>3. /\ SoundObject(r.object) /\ r.object.keys = object.keys
      /\ r.object.comm = "open" => object.comm = "open"
      /\ ~r.object.missed => FreshFor(r.object, reader')
  BY <1>2, ModulesFacts
<1>4. KnownFor(r.object, reader')
  BY <1>2, <1>3 DEF UpdateInv, KeysKnown, KnownFor
<1>5. CASE Return(call.res, r.object) \/ Return(r.res, r.object)
  BY <1>2, <1>3, <1>4, <1>5, StepFacts, Returned
<1>6. CASE call.op = "connect" /\ GoTo("constants", 1, "ok", r.object)
  <2>1. "constants" \in Steps /\ "constants" \in StepsOf(call.op) /\ "ok" \in Results
    BY <1>6, StepNames DEF Steps, Results
  <2>2. 1 \in 1 .. Len(data) + 1
    BY StepFacts
  <2>3. UpdateTypes' /\ CallOK' /\ ListOK' /\ KeysKnown' /\ call'.op = "connect"
    BY <1>2, <1>3, <1>4, <1>6, <2>1, <2>2, StepFacts, WentOn
  <2>4. FlashOK' /\ KeysOK'
    BY <2>3 DEF FlashOK, KeysOK
  <2>5. QED
    BY <2>3, <2>4 DEF UpdateInv
<1>7. QED
  BY <1>1, <1>5, <1>6

LEMMA ConstantsStep ==
  ASSUME UpdateInv, SetReaderConstants, UNCHANGED <<data, signature, calls>>
  PROVE  UpdateInv'
<1>1. PICK e \in Escape : Executes(TRUE, WithConstants(reader), e) /\ GoTo("rebuild", 1, "ok", After(e))
  BY DEF SetReaderConstants, WithConstants
<1>2. call.step = "constants" /\ ~ListDue
  BY DEF SetReaderConstants, ListDue
<1>3. call.op = "connect"
  BY <1>2, StepFacts DEF StepsOf, Operations, Changes
<1>4. WithConstants(reader) \in Readers /\ WithConstants(reader).modules = reader.modules
      /\ WithConstants(reader).keys = reader.keys
  BY StepFacts, ReaderFacts
<1>5. e.done \in BOOLEAN
  BY StepFacts, EscapeFacts DEF SoundObject
<1>6. reader' \in Readers /\ reader'.modules = reader.modules /\ reader'.keys = reader.keys
  BY <1>1, <1>4, <1>5, ExecutesFacts
<1>7. /\ SoundObject(After(e)) /\ KnownFor(After(e), reader')
      /\ After(e).there /\ ~After(e).missed => FreshFor(After(e), reader')
  BY <1>2, <1>6, AfterFacts
<1>8. "rebuild" \in Steps /\ "rebuild" \in StepsOf(call.op) /\ "ok" \in Results /\ 1 \in 1 .. Len(data) + 1
  <2>1. "rebuild" \in Steps /\ "ok" \in Results
    BY DEF Steps, Results
  <2>2. "rebuild" \in StepsOf(call.op)
    BY <1>3, StepNames
  <2>3. QED
    BY <2>1, <2>2, StepFacts
<1>9. UpdateTypes' /\ CallOK' /\ ListOK' /\ KeysKnown' /\ call'.op = "connect"
  BY <1>1, <1>3, <1>6, <1>7, <1>8, WentOn
<1>10. FlashOK' /\ KeysOK'
  BY <1>9 DEF FlashOK, KeysOK
<1>11. QED
  BY <1>9, <1>10 DEF UpdateInv

\* What the reader has received after the piece the call is at.
LEMMA BufferFacts ==
  ASSUME UpdateInv, call.op = "load", call.step = "chunk"
  PROVE  LET b == IF call.i = 1 THEN <<data[1]>> ELSE Append(reader.buffer, data[call.i])
         IN  /\ b \in Seq(Elements) /\ Len(b) = call.i /\ \A k \in 1 .. call.i : b[k] = data[k]
             /\ (IF call.i = 1 THEN Start(data[1]) ELSE Append1(data[call.i])) = WithBuffer(reader, b)
<1>1. data \in Seq(Elements) /\ reader.buffer \in Seq(Elements)
  BY ReaderFacts DEF UpdateInv, UpdateTypes
<1>2. call.i \in 1 .. Len(data) /\ Len(data) \in Nat
  BY StepFacts DEF UpdateInv, CallOK
<1>3. CASE call.i = 1
  <2> DEFINE b == <<data[1]>>
  <2>1. data[1] \in Elements
    BY <1>1, <1>2, <1>3
  <2>2. b \in Seq(Elements) /\ Len(b) = 1 /\ b[1] = data[1]
    BY <2>1
  <2>3. Start(data[1]) = WithBuffer(reader, b)
    BY DEF Start, WithBuffer
  <2> HIDE DEF b
  <2>4. \A k \in 1 .. 1 : b[k] = data[k]
    BY <2>2
  <2> USE DEF b
  <2>5. QED
    BY <1>3, <2>2, <2>3, <2>4
<1>4. CASE call.i # 1
  <2> DEFINE b == Append(reader.buffer, data[call.i])
  <2>1. Len(reader.buffer) = call.i - 1 /\ \A k \in 1 .. call.i - 1 : reader.buffer[k] = data[k]
    BY <1>2, <1>4 DEF UpdateInv, FlashOK
  <2>2. data[call.i] \in Elements
    BY <1>1, <1>2
  <2>3. b \in Seq(Elements) /\ Len(b) = call.i
    BY <1>1, <1>2, <2>1, <2>2
  <2>4. \A k \in 1 .. call.i : b[k] = data[k]
    BY <1>1, <1>2, <2>1, <2>2
  <2>5. Append1(data[call.i]) = WithBuffer(reader, b)
    BY DEF Append1, WithBuffer
  <2>6. QED
    BY <1>4, <2>3, <2>4, <2>5
<1>5. QED
  BY <1>3, <1>4

LEMMA ChunkStep ==
  ASSUME UpdateInv, Chunk, UNCHANGED <<data, signature, calls>>
  PROVE  UpdateInv'
<1>1. call.op = "load" /\ call.step = "chunk" /\ ~ListDue
  BY DEF Chunk, ListDue
<1>2. CASE MaskFails
  BY <1>1, <1>2, MaskStep
<1>3. CASE ~MaskFails
  <2> DEFINE b == IF call.i = 1 THEN <<data[1]>> ELSE Append(reader.buffer, data[call.i])
             next == IF call.i = Len(data) THEN "verify" ELSE "chunk"
  <2>1. b \in Seq(Elements) /\ Len(b) = call.i /\ \A k \in 1 .. call.i : b[k] = data[k]
    BY <1>1, BufferFacts
  <2>2. (IF call.i = 1 THEN Start(data[1]) ELSE Append1(data[call.i])) = WithBuffer(reader, b)
    BY <1>1, BufferFacts
  <2>3. PICK e \in Escape :
          /\ Executes(TRUE, WithBuffer(reader, b), e)
          /\ IF Fails(e) THEN Return(e.res, After(e)) ELSE GoTo(next, call.i + 1, "ok", After(e))
    BY <1>3, <2>2 DEF Chunk
  <2> HIDE DEF b
  <2>4. /\ WithBuffer(reader, b) \in Readers /\ WithBuffer(reader, b).modules = reader.modules
        /\ WithBuffer(reader, b).keys = reader.keys /\ WithBuffer(reader, b).buffer = b
    BY <2>1, StepFacts, ReaderFacts
  <2>5. e.done \in BOOLEAN
    BY StepFacts, EscapeFacts DEF SoundObject
  <2>6. reader' \in Readers /\ reader'.modules = reader.modules /\ reader'.keys = reader.keys
    BY <2>3, <2>4, <2>5, ExecutesFacts
  <2>7. CASE Fails(e)
    BY <1>1, <2>3, <2>6, <2>7, FailStep
  <2>8. CASE ~Fails(e)
    <3>1. reader'.buffer = b
      BY <2>3, <2>4, <2>8, ExecutesFacts
    <3>2. /\ SoundObject(After(e)) /\ KnownFor(After(e), reader')
          /\ After(e).there /\ ~After(e).missed => FreshFor(After(e), reader')
      BY <1>1, <2>6, AfterFacts
    <3>3. call.i \in 1 .. Len(data) /\ Len(data) \in Nat
      BY <1>1, StepFacts DEF UpdateInv, CallOK
    <3>4. next \in Steps /\ "ok" \in Results
      BY DEF Steps, Results
    <3>5. next \in StepsOf(call.op)
      BY <1>1, StepNames
    <3>6. call.i + 1 \in 1 .. Len(data) + 1 /\ (next = "chunk" => call.i + 1 <= Len(data))
      BY <3>3
    <3>7. GoTo(next, call.i + 1, "ok", After(e))
      BY <2>3, <2>8
    <3> HIDE DEF next
    <3>8. /\ UpdateTypes' /\ CallOK' /\ ListOK' /\ KeysKnown' /\ call'.op = "load" /\ call'.step = next
          /\ call'.i = call.i + 1
      BY <1>1, <2>6, <3>2, <3>4, <3>5, <3>6, <3>7, WentOn
    <3>9. ASSUME call.i = Len(data) PROVE FlashOK'
      <4>1. b = data
        BY <2>1, <3>9, SeqEqual DEF UpdateInv, UpdateTypes
      <4>2. call'.step = "verify"
        BY <3>8, <3>9 DEF next
      <4>3. QED
        BY <3>1, <3>8, <4>1, <4>2 DEF FlashOK
    <3>10. ASSUME call.i # Len(data) PROVE FlashOK'
      <4>1. call'.step = "chunk"
        BY <3>8, <3>10 DEF next
      <4>2. call'.i - 1 = call.i
        BY <3>3, <3>8
      <4>3. QED
        BY <2>1, <3>1, <3>8, <4>1, <4>2 DEF FlashOK
    <3>11. FlashOK'
      BY <3>9, <3>10
    <3>12. KeysOK'
      BY <3>8 DEF KeysOK
    <3>13. QED
      BY <3>8, <3>11, <3>12 DEF UpdateInv
  <2>9. QED
    BY <2>7, <2>8
<1>4. QED
  BY <1>2, <1>3

LEMMA WithModulesFacts ==
  ASSUME NEW r \in Readers, NEW m \in [Images -> Statuses]
  PROVE  WithModules(r, m) \in Readers /\ WithModules(r, m).modules = m /\ WithModules(r, m).keys = r.keys
BY ReaderFacts, Zenon

LEMMA InstallFacts ==
  ASSUME UpdateInv, NEW m \in Images, reader.buffer = Whole(m)
  PROVE  /\ Forgetful(Install) \in Readers /\ Forgetful(Install).keys = reader.keys
         /\ Forgetful(Install).modules[m] = "active"
<1>1. reader \in Readers /\ reader.modules \in [Images -> Statuses]
  BY StepFacts, ReaderFacts
<1>2. reader.buffer[1].image = m
  <2>1. 1 \in 1 .. Pieces
    BY ModuleUpdateAssumption
  <2>2. Whole(m)[1] = Piece(m, 1)
    BY <2>1 DEF Whole
  <2>3. QED
    BY <2>2 DEF Piece
<1> DEFINE f == [reader.modules EXCEPT ![m] = "active"]
<1>3. f \in [Images -> Statuses] /\ f[m] = "active"
  BY <1>1 DEF Statuses
<1>4. Install = WithModules(reader, f)
  BY <1>2 DEF Install, WithModules
<1> HIDE DEF f
<1>5. Install \in Readers /\ Install.modules = f /\ Install.keys = reader.keys
  BY <1>1, <1>3, <1>4, WithModulesFacts
<1>6. QED
  BY <1>3, <1>5, ReaderFacts

LEMMA VerifyStep ==
  ASSUME UpdateInv, Verify, UNCHANGED <<data, signature, calls>>
  PROVE  UpdateInv'
<1>1. call.op = "load" /\ call.step = "verify" /\ ~ListDue
  BY DEF Verify, ListDue
<1>2. CASE MaskFails
  BY <1>1, <1>2, MaskStep
<1>3. CASE ~MaskFails
  <2>1. PICK e \in Escape :
          /\ Executes(Verifies(signature), Forgetful(Install), e)
          /\ IF Fails(e) THEN Return(e.res, WithMissed(After(e), After(e).missed \/ e.done))
             ELSE GoTo("info", 1, "ok", After(e))
    BY <1>3 DEF Verify, WithMissed
  <2>2. Verifies(signature) => Forgetful(Install) \in Readers /\ Forgetful(Install).keys = reader.keys
    BY InstallFacts DEF Verifies
  <2>3. e.done \in BOOLEAN
    BY StepFacts, EscapeFacts DEF SoundObject
  <2>4. reader' \in Readers /\ reader'.keys = reader.keys /\ (~e.done => reader'.modules = reader.modules)
    BY <2>1, <2>2, <2>3, ExecutesFacts
  <2>5. reader \in Readers
    BY StepFacts
  <2>6. SoundObject(After(e)) /\ KnownFor(After(e), reader)
    BY <1>1, <2>5, AfterFacts
  <2>7. KnownFor(After(e), reader')
    BY <2>4, <2>6 DEF KnownFor
  <2>8. CASE Fails(e)
    <3> DEFINE o == WithMissed(After(e), After(e).missed \/ e.done)
    <3>1. After(e) \in Objects /\ (After(e).missed \/ e.done) \in BOOLEAN
      BY <2>3, <2>6 DEF SoundObject
    <3>2. /\ o \in Objects /\ o.there = After(e).there /\ o.comm = After(e).comm /\ o.keys = After(e).keys
          /\ o.list = After(e).list /\ o.count = After(e).count /\ o.missed = (After(e).missed \/ e.done)
      BY <3>1, MissedFacts
    <3>3. Return(e.res, o)
      BY <2>1, <2>8
    <3> HIDE DEF o
    <3>4. SoundObject(o) /\ KnownFor(o, reader')
      BY <2>6, <2>7, <3>2 DEF SoundObject, KnownFor
    <3>5. o.there /\ ~o.missed => FreshFor(o, reader')
      <4>1. CASE e.done
        BY <3>2, <4>1
      <4>2. CASE ~e.done
        <5>1. After(e).there /\ ~After(e).missed => FreshFor(After(e), reader')
          BY <1>1, <2>4, <4>2, AfterFacts
        <5>2. FreshFor(After(e), reader') => FreshFor(o, reader')
          BY <3>2 DEF FreshFor
        <5>3. QED
          BY <3>2, <4>2, <5>1, <5>2
      <4>3. QED
        BY <2>3, <4>1, <4>2
    <3>6. QED
      BY <2>4, <3>3, <3>4, <3>5, Returned
  <2>9. CASE ~Fails(e)
    <3>1. reader' = Forgetful(Install) /\ Verifies(signature)
      BY <2>1, <2>2, <2>9, ExecutesFacts
    <3>2. PICK m \in Images : reader.buffer = Whole(m) /\ signature = <<m>>
      BY <3>1 DEF Verifies
    <3>3. data = Whole(m) /\ reader'.modules[m] = "active"
      BY <1>1, <3>1, <3>2, InstallFacts DEF UpdateInv, FlashOK
    <3>4. GoTo("info", 1, "ok", After(e))
      BY <2>1, <2>9
    <3>5. "info" \in Steps /\ "ok" \in Results /\ 1 \in 1 .. Len(data) + 1
      BY StepFacts DEF Steps, Results
    <3>6. "info" \in StepsOf(call.op)
      BY <1>1, StepNames
    <3>7. UpdateTypes' /\ CallOK' /\ ListOK' /\ KeysKnown' /\ call'.op = "load" /\ call'.step = "info"
      BY <1>1, <2>4, <2>6, <2>7, <3>4, <3>5, <3>6, WentOn
    <3>8. FlashOK'
      BY <3>2, <3>3, <3>7 DEF FlashOK
    <3>9. KeysOK'
      BY <3>7 DEF KeysOK
    <3>10. QED
      BY <3>7, <3>8, <3>9 DEF UpdateInv
  <2>10. QED
    BY <2>8, <2>9
<1>4. QED
  BY <1>2, <1>3

LEMMA ChangedFacts ==
  ASSUME UpdateInv, NEW op \in Changes, NEW m, op = "delall" \/ m \in Images
  PROVE  Changed(op, m) \in Readers /\ Changed(op, m).keys = reader.keys
<1>1. reader \in Readers /\ reader.modules \in [Images -> Statuses]
  BY StepFacts, ReaderFacts
<1>2. CASE op = "delall"
  <2> DEFINE f == [n \in Images |-> "absent"]
  <2>1. f \in [Images -> Statuses]
    BY DEF Statuses
  <2>2. Changed(op, m) = WithModules(reader, f)
    BY <1>2 DEF Changed, WithModules
  <2> HIDE DEF f
  <2>3. QED
    BY <1>1, <2>1, <2>2, WithModulesFacts
<1>3. CASE op # "delall"
  <2> DEFINE f(s) == [reader.modules EXCEPT ![m] = s]
  <2>1. \A s \in Statuses : f(s) \in [Images -> Statuses]
    BY <1>1, <1>3
  <2>2. \/ Changed(op, m) = WithModules(reader, f("absent"))
        \/ Changed(op, m) = WithModules(reader, f("active"))
        \/ Changed(op, m) = WithModules(reader, f("inactive"))
    BY <1>3 DEF Changed, WithModules, Changes
  <2>3. {"absent", "active", "inactive"} \subseteq Statuses
    BY DEF Statuses
  <2> HIDE DEF f
  <2>4. QED
    BY <1>1, <2>1, <2>2, <2>3, WithModulesFacts
<1>4. QED
  BY <1>2, <1>3

LEMMA ChangeStep ==
  ASSUME UpdateInv, ChangeModules, UNCHANGED <<data, signature, calls>>
  PROVE  UpdateInv'
<1>1. call.step = "change" /\ ~ListDue
  BY DEF ChangeModules, ListDue
<1>2. call.op \in Changes
  BY <1>1, StepFacts DEF StepsOf, Operations
<1>3. CASE MaskFails
  BY <1>1, <1>3, MaskStep
<1>4. CASE ~MaskFails
  <2>1. PICK e \in Escape :
          /\ Executes(call.op = "delall" \/ call.module \in Installed, Changed(call.op, call.module), e)
          /\ GoTo("modules", 1, e.res, After(e))
    BY <1>4 DEF ChangeModules
  <2>2. call.op = "delall" \/ call.module \in Images
    BY <1>2 DEF UpdateInv, CallOK
  <2>3. Changed(call.op, call.module) \in Readers /\ Changed(call.op, call.module).keys = reader.keys
    BY <1>2, <2>2, ChangedFacts
  <2>4. e.done \in BOOLEAN /\ e.res \in Results
    BY StepFacts, EscapeFacts DEF SoundObject, Results
  <2>5. reader' \in Readers /\ reader'.keys = reader.keys
    BY <2>1, <2>3, <2>4, ExecutesFacts
  <2>6. SoundObject(After(e)) /\ KnownFor(After(e), reader)
    BY <1>1, StepFacts, AfterFacts
  <2>7. KnownFor(After(e), reader')
    BY <2>5, <2>6 DEF KnownFor
  <2>8. "modules" \in Steps /\ 1 \in 1 .. Len(data) + 1
    BY StepFacts DEF Steps
  <2>9. "modules" \in StepsOf(call.op)
    BY <1>2, StepNames
  <2>10. call.op # "keys" /\ call.op # "load"
    BY <1>2 DEF Changes
  <2>11. UpdateTypes' /\ CallOK' /\ ListOK' /\ KeysKnown' /\ call'.op = call.op
    BY <2>1, <2>4, <2>5, <2>6, <2>7, <2>8, <2>9, <2>10, WentOn
  <2>12. FlashOK' /\ KeysOK'
    BY <2>10, <2>11 DEF FlashOK, KeysOK
  <2>13. QED
    BY <2>11, <2>12 DEF UpdateInv
<1>5. QED
  BY <1>3, <1>4

LEMMA RecordFacts ==
  ASSUME Rising, data \in Seq(Elements), NEW i \in 1 .. Len(data)
  PROVE  /\ data[i].key \in Keys /\ data[i].key.KNr \in 1 .. 254 /\ data[i].key.Version \in Nat
         /\ \A j \in 1 .. i - 1 : data[j].key.KNr = data[i].key.KNr => data[j].key.Version < data[i].key.Version
<1>1. Header(i)
  BY DEF Rising
<1>2. data[i] \in Records
  BY <1>1 DEF Header
<1>3. data[i].key.Version \in 1 .. 254 /\ data[i].key \in Keys /\ data[i].key.KNr \in 1 .. 254
  BY <1>2, KeyFacts
<1>4. data[i].key.Version \in Nat
  <2>1. 1 .. 254 \subseteq Nat
    OBVIOUS
  <2>2. QED
    BY <1>3, <2>1, Zenon
<1>5. \A j \in 1 .. i - 1 : data[j].key.KNr = data[i].key.KNr => data[j].key.Version < data[i].key.Version
  BY <1>1 DEF Header
<1>6. QED
  BY <1>3, <1>4, <1>5

LEMMA SlotFacts ==
  ASSUME NEW keys \in Keys \X Keys, NEW t \in 1 .. 2
  PROVE  keys[t] \in Keys /\ keys[t].KNr \in Nat /\ keys[t].Version \in Nat
<1>1. keys[t] \in Keys
  <2>1. keys[1] \in Keys /\ keys[2] \in Keys
    OBVIOUS
  <2>2. t = 1 \/ t = 2
    OBVIOUS
  <2>3. QED
    BY <2>1, <2>2
<1>2. QED
  BY <1>1, KeyFacts

\* The driver that believes the slots empty sends the newest records only, the one that knows
\* the keys those that are newer than the reader's: a record that is skipped is settled, and with
\* it the ones before it.
LEMMA SkipSettles ==
  ASSUME Rising, data \in Seq(Elements), NEW i \in 1 .. Len(data), NEW keys \in Keys \X Keys,
         ~AsRoot(i), ~AsSuccessor(i), object.keys \in {keys, NoSlots},
         \A j \in 2 .. i - 1 : Settled(data, keys, j, i), NEW j \in 2 .. i
  PROVE  Settled(data, keys, j, i + 1)
<1>1. Len(data) \in Nat /\ i \in Nat /\ j \in Nat /\ j \in 1 .. Len(data) /\ i > 1
  OBVIOUS
<1>2. CASE object.keys = keys
  <2>1. \A s \in SlotsOf(keys, data[i].key.KNr) : keys[s].Version >= data[i].key.Version
    <3>1. ~Newer(data[i].key, keys)
      BY <1>1, <1>2 DEF AsSuccessor
    <3>2. SUFFICES ASSUME NEW s \in SlotsOf(keys, data[i].key.KNr) PROVE keys[s].Version >= data[i].key.Version
      OBVIOUS
    <3>3. ~(data[i].key.Version > keys[s].Version)
      BY <3>1 DEF Newer
    <3>4. s \in 1 .. 2
      BY DEF SlotsOf
    <3>5. keys[s].Version \in Nat /\ data[i].key.Version \in Nat
      BY <3>4, SlotFacts, RecordFacts
    <3>6. QED
      BY <3>3, <3>5
  <2>2. CASE data[j].key.KNr = data[i].key.KNr
    <3>1. data[j].key.Version <= data[i].key.Version /\ data[j].key.Version \in Nat /\ data[i].key.Version \in Nat
      <4>1. CASE j = i
        BY <4>1, RecordFacts
      <4>2. CASE j # i
        <5>1. j \in 1 .. i - 1
          BY <1>1, <4>2
        <5>2. data[j].key.Version < data[i].key.Version
          BY <2>2, <5>1, RecordFacts
        <5>3. data[j].key.Version \in Nat /\ data[i].key.Version \in Nat
          BY <1>1, RecordFacts
        <5>4. QED
          BY <5>2, <5>3
      <4>3. QED
        BY <4>1, <4>2
    <3>2. \A s \in SlotsOf(keys, data[j].key.KNr) : keys[s].Version >= data[j].key.Version
      <4>1. SUFFICES ASSUME NEW s \in SlotsOf(keys, data[j].key.KNr) PROVE keys[s].Version >= data[j].key.Version
        OBVIOUS
      <4>2. keys[s].Version >= data[i].key.Version
        BY <2>1, <2>2
      <4>3. s \in 1 .. 2
        BY DEF SlotsOf
      <4>4. keys[s].Version \in Nat
        BY <4>3, SlotFacts
      <4>5. QED
        BY <3>1, <4>2, <4>4
    <3>3. QED
      BY <3>2 DEF Settled, Behind
  <2>3. CASE data[j].key.KNr # data[i].key.KNr
    <3>1. j \in 2 .. i - 1
      BY <1>1, <2>3
    <3>2. Behind(data, keys, j) \/ \E k \in i .. Len(data) : NewerRecord(data, k, j)
      BY <3>1 DEF Settled
    <3>3. \A k \in i .. Len(data) : NewerRecord(data, k, j) => k \in i + 1 .. Len(data)
      BY <1>1, <2>3 DEF NewerRecord
    <3>4. QED
      BY <3>2, <3>3 DEF Settled
  <2>4. QED
    BY <2>2, <2>3
<1>3. CASE object.keys = NoSlots
  <2>1. EmptySlots(object.keys) # {}
    <3>1. NoSlots[1] = Empty
      BY DEF NoSlots
    <3>2. QED
      BY <1>3, <3>1 DEF EmptySlots
  <2>2. PICK n \in DOMAIN data : /\ data[n].key.KNr = data[i].key.KNr
                                 /\ ~(data[n].key.Version <= data[i].key.Version)
    BY <2>1 DEF AsRoot, Newest
  <2>3. n \in 1 .. Len(data) /\ data[n].key.Version \in Nat /\ data[i].key.Version \in Nat
    <3>1. n \in 1 .. Len(data)
      OBVIOUS
    <3>2. QED
      BY <3>1, RecordFacts
  <2>4. data[n].key.Version > data[i].key.Version
    BY <2>2, <2>3
  <2>5. n \in i + 1 .. Len(data)
    <3>1. n \notin 1 .. i - 1
      <4>1. n \in 1 .. i - 1 => data[n].key.Version < data[i].key.Version
        BY <2>2, RecordFacts
      <4>2. QED
        BY <2>3, <2>4, <4>1
    <3>2. n # i
      BY <2>3, <2>4
    <3>3. QED
      BY <1>1, <2>3, <3>1, <3>2
  <2>6. CASE j = i
    BY <2>2, <2>4, <2>5, <2>6 DEF Settled, NewerRecord
  <2>7. CASE j # i
    <3>1. j \in 2 .. i - 1
      BY <1>1, <2>7
    <3>2. Behind(data, keys, j) \/ \E k \in i .. Len(data) : NewerRecord(data, k, j)
      BY <3>1 DEF Settled
    <3>3. ASSUME NEW k \in i .. Len(data), NewerRecord(data, k, j)
          PROVE  \E l \in i + 1 .. Len(data) : NewerRecord(data, l, j)
      <4>1. CASE k = i
        <5>1. data[j].key.Version \in Nat
          BY <1>1, RecordFacts
        <5>2. NewerRecord(data, n, j)
          BY <2>2, <2>3, <2>4, <3>3, <4>1, <5>1 DEF NewerRecord
        <5>3. QED
          BY <2>5, <5>2
      <4>2. CASE k # i
        <5>1. k \in i + 1 .. Len(data)
          BY <1>1, <4>2
        <5>2. QED
          BY <3>3, <5>1
      <4>3. QED
        BY <4>1, <4>2
    <3>4. QED
      BY <3>2, <3>3 DEF Settled
  <2>8. QED
    BY <2>6, <2>7
<1>4. QED
  BY <1>2, <1>3

\* The slot a key goes into: the other slots, and so the keys of other numbers, stay.
LEMMA KeySettles ==
  ASSUME Rising, data \in Seq(Elements), NEW i \in 1 .. Len(data), NEW keys \in Keys \X Keys,
         NEW s \in 1 .. 2, keys[s] = Empty \/ keys[s].KNr = data[i].key.KNr,
         \A j \in 2 .. i - 1 : Settled(data, keys, j, i), NEW j \in 2 .. i
  PROVE  Settled(data, [keys EXCEPT ![s] = data[i].key], j, i + 1)
<1> DEFINE new == [keys EXCEPT ![s] = data[i].key]
<1>1. Len(data) \in Nat /\ i \in Nat /\ j \in Nat /\ j \in 1 .. Len(data)
  OBVIOUS
<1>2. new[s] = data[i].key /\ \A t \in 1 .. 2 : t # s => new[t] = keys[t]
  <2>1. DOMAIN keys = 1 .. 2
    OBVIOUS
  <2>2. QED
    BY <2>1
<1> HIDE DEF new
<1>3. data[i].key.KNr \in 1 .. 254 /\ data[i].key.Version \in Nat
  BY RecordFacts
<1>4. data[j].key.KNr \in 1 .. 254 /\ data[j].key.Version \in Nat
  BY <1>1, RecordFacts
<1>5. CASE data[j].key.KNr = data[i].key.KNr
  <2>1. data[j].key.Version <= data[i].key.Version
    <3>1. CASE j = i
      BY <1>3, <3>1
    <3>2. CASE j # i
      <4>1. j \in 1 .. i - 1
        BY <1>1, <3>2
      <4>2. data[j].key.Version < data[i].key.Version
        BY <1>5, <4>1, RecordFacts
      <4>3. QED
        BY <1>3, <1>4, <4>2
    <3>3. QED
      BY <3>1, <3>2
  <2>2. s \in SlotsOf(new, data[j].key.KNr) /\ new[s].Version >= data[j].key.Version
    BY <1>2, <1>3, <1>4, <1>5, <2>1 DEF SlotsOf
  <2>3. QED
    BY <2>2 DEF Settled, Behind, new
<1>6. CASE data[j].key.KNr # data[i].key.KNr
  <2>1. j \in 2 .. i - 1
    BY <1>1, <1>6
  <2>2. Behind(data, keys, j) \/ \E k \in i .. Len(data) : NewerRecord(data, k, j)
    BY <2>1 DEF Settled
  <2>3. \A k \in i .. Len(data) : NewerRecord(data, k, j) => k \in i + 1 .. Len(data)
    BY <1>1, <1>6 DEF NewerRecord
  <2>4. keys[s].KNr # data[j].key.KNr
    <3>1. CASE keys[s] = Empty
      <4> DEFINE n == data[j].key.KNr
      <4>1. n \in 1 .. 254
        BY <1>4
      <4> HIDE DEF n
      <4>2. n # 255
        BY <4>1
      <4>3. Empty.KNr = 255
        BY KeyFacts
      <4>4. QED
        BY <3>1, <4>2, <4>3 DEF n
    <3>2. CASE keys[s].KNr = data[i].key.KNr
      BY <1>6, <3>2
    <3>3. QED
      BY <3>1, <3>2
  <2>5. new[s].KNr # data[j].key.KNr
    BY <1>2, <1>6
  <2>6. /\ SlotsOf(new, data[j].key.KNr) = SlotsOf(keys, data[j].key.KNr)
        /\ \A t \in SlotsOf(keys, data[j].key.KNr) : new[t] = keys[t]
    BY <1>2, <2>4, <2>5 DEF SlotsOf
  <2>7. Behind(data, keys, j) => Behind(data, new, j)
    BY <2>6 DEF Behind
  <2>8. QED
    BY <2>2, <2>3, <2>7 DEF Settled, new
<1>7. QED
  BY <1>5, <1>6

\* As long as a key is being sent, the driver knows the reader's keys or takes the slots for empty.
LEMMA SendingFacts ==
  ASSUME UpdateInv, call.op = "keys", call.i \in 1 .. Len(data), Sending
  PROVE  object.keys # NoKeys
<1>1. Rising /\ data \in Seq(Elements)
  BY DEF UpdateInv, KeysOK, UpdateTypes
<1>2. NoKeys[1] = NoKey /\ NoKeys[2] = NoKey
  BY DEF NoKeys
<1>3. NoKey # Empty
  BY KeyFacts
<1>4. EmptySlots(NoKeys) = {}
  BY <1>2, <1>3 DEF EmptySlots
<1>5. data[call.i].key.KNr \in 1 .. 254
  BY <1>1, RecordFacts
<1>6. data[call.i].key.KNr # NoKey.KNr
  <2> DEFINE n == data[call.i].key.KNr
  <2>1. n \in 1 .. 254
    BY <1>5
  <2> HIDE DEF n
  <2>2. n # 0
    BY <2>1
  <2>3. NoKey.KNr = 0
    BY KeyFacts
  <2>4. QED
    BY <2>2, <2>3 DEF n
<1>7. SlotsOf(NoKeys, data[call.i].key.KNr) = {}
  BY <1>2, <1>6 DEF SlotsOf
<1>8. QED
  BY <1>4, <1>7 DEF Sending, AsRoot, AsSuccessor, Newer

LEMMA SendingSame ==
  ASSUME UNCHANGED data, call'.i = call.i, object'.keys = object.keys
  PROVE  Sending' <=> Sending
BY DEF Sending, AsRoot, AsSuccessor, Newest, Newer, EmptySlots, SlotsOf

LEMMA IndexFacts == \A n \in Nat : \A i \in 1 .. n + 1 : i <= n => i \in 1 .. n
OBVIOUS

LEMMA KeyIndex ==
  ASSUME UpdateInv, call.op = "keys", call.step = "verify key" \/ call.i <= Len(data)
  PROVE  call.i \in 1 .. Len(data) /\ Len(data) \in Nat
<1>1. call.i <= Len(data)
  BY DEF UpdateInv, CallOK
<1>2. Len(data) \in Nat /\ call.i \in 1 .. Len(data) + 1
  BY StepFacts
<1>3. QED
  BY <1>1, <1>2, IndexFacts, Zenon

LEMMA SkipStep ==
  ASSUME UpdateInv, call.op = "keys", call.step = "key", call.i <= Len(data), SkipKey,
         UNCHANGED <<data, signature, calls>>
  PROVE  UpdateInv'
<1>1. call.i \in 1 .. Len(data) /\ Len(data) \in Nat
  BY KeyIndex
<1>2. ~AsRoot(call.i) /\ ~AsSuccessor(call.i) /\ GoTo("key", call.i + 1, "ok", object) /\ UNCHANGED reader
  BY DEF SkipKey
<1>3. Rising /\ data \in Seq(Elements) /\ reader \in Readers
  BY DEF UpdateInv, KeysOK, UpdateTypes
<1>4. reader.keys \in Keys \X Keys
  BY <1>3, ReaderFacts
<1>5. /\ SoundObject(object) /\ KnownFor(object, reader')
      /\ object.there /\ ~object.missed => FreshFor(object, reader')
  <2>1. ~ListDue
    BY DEF ListDue
  <2>2. KnownFor(object, reader)
    BY DEF UpdateInv, KeysKnown, KnownFor
  <2>3. QED
    BY <1>2, <2>1, <2>2, StepFacts
<1>6. call.i + 1 \in 1 .. Len(data) + 1
  BY <1>1
<1>7. "key" \in Steps /\ "ok" \in Results
  BY DEF Steps, Results
<1>8. "key" \in StepsOf(call.op)
  BY StepNames
<1>9. /\ UpdateTypes' /\ CallOK' /\ ListOK' /\ KeysKnown' /\ object' = object
      /\ call'.op = "keys" /\ call'.step = "key" /\ call'.i = call.i + 1
  BY <1>2, <1>3, <1>5, <1>6, <1>7, <1>8, WentOn
<1>10. FlashOK'
  BY <1>9 DEF FlashOK
<1>11. Rising'
  BY <1>3 DEF Rising, Header
<1>12. ASSUME object.keys = reader.keys \/ (object.comm = "open" /\ object.keys = NoSlots)
       PROVE  \A j \in 2 .. call.i : Settled(data, reader.keys, j, call.i + 1)
  <2>1. \A j \in 2 .. call.i - 1 : Settled(data, reader.keys, j, call.i)
    BY <1>12 DEF UpdateInv, KeysOK
  <2>2. object.keys \in {reader.keys, NoSlots}
    BY <1>12
  <2>3. QED
    BY <1>1, <1>2, <1>3, <1>4, <2>1, <2>2, SkipSettles
<1>13. call'.i - 1 = call.i
  BY <1>1, <1>9
<1>14. KeysOK'
  BY <1>2, <1>9, <1>11, <1>12, <1>13 DEF KeysOK
<1>15. QED
  BY <1>9, <1>10, <1>14 DEF UpdateInv

LEMMA SendStep ==
  ASSUME UpdateInv, call.op = "keys", call.step = "key", call.i <= Len(data), SendKey,
         UNCHANGED <<data, signature, calls>>
  PROVE  UpdateInv'
<1>1. call.i \in 1 .. Len(data) /\ Len(data) \in Nat
  BY KeyIndex
<1>2. ~ListDue
  BY DEF ListDue
<1> DEFINE k == data[call.i].key
<1>3. PICK e \in Escape :
        /\ Executes(TRUE, WithNewKey(reader, k), e)
        /\ IF Fails(e) THEN Return(e.res, After(e)) ELSE GoTo("verify key", call.i, "ok", After(e))
  BY DEF SendKey, StoreKey, WithNewKey
<1>4. Rising /\ data \in Seq(Elements) /\ reader \in Readers /\ object \in Objects
  BY DEF UpdateInv, KeysOK, UpdateTypes
<1>5. k \in Keys
  BY <1>1, <1>4, RecordFacts
<1> HIDE DEF k
<1>6. /\ WithNewKey(reader, k) \in Readers /\ WithNewKey(reader, k).modules = reader.modules
      /\ WithNewKey(reader, k).keys = reader.keys /\ WithNewKey(reader, k).newKey = k
  BY <1>4, <1>5, ReaderFacts
<1>7. e.done \in BOOLEAN /\ (e.res = "ok" => e.comm = "open" /\ object.comm = "open")
  BY <1>4, EscapeFacts
<1>8. reader' \in Readers /\ reader'.modules = reader.modules /\ reader'.keys = reader.keys
  BY <1>3, <1>6, <1>7, ExecutesFacts
<1>9. CASE Fails(e)
  BY <1>2, <1>3, <1>8, <1>9, FailStep
<1>10. CASE ~Fails(e)
  <2>1. reader'.newKey = k /\ e.comm = "open" /\ object.comm = "open"
    BY <1>3, <1>6, <1>7, <1>10, ExecutesFacts DEF Fails
  <2>2. /\ SoundObject(After(e)) /\ KnownFor(After(e), reader')
        /\ After(e).there /\ ~After(e).missed => FreshFor(After(e), reader')
        /\ After(e).comm = "open" /\ After(e).keys = object.keys
    BY <1>2, <1>8, <2>1, AfterFacts
  <2>3. "verify key" \in Steps /\ "ok" \in Results
    BY DEF Steps, Results
  <2>4. "verify key" \in StepsOf(call.op)
    BY StepNames
  <2>5. GoTo("verify key", call.i, "ok", After(e))
    BY <1>3, <1>10
  <2>13. call.i \in 1 .. Len(data) + 1 /\ call.i <= Len(data)
    BY <1>1
  <2>6. /\ UpdateTypes' /\ CallOK' /\ ListOK' /\ KeysKnown' /\ object' = After(e)
        /\ call'.op = "keys" /\ call'.step = "verify key" /\ call'.i = call.i
    BY <1>8, <2>2, <2>3, <2>4, <2>5, <2>13, WentOn
  <2>7. FlashOK'
    BY <2>6 DEF FlashOK
  <2>8. Rising'
    BY <1>4 DEF Rising, Header
  <2>9. Sending'
    <3>1. Sending
      BY DEF SendKey, Sending
    <3>2. QED
      BY <2>2, <2>6, <3>1, SendingSame
  <2>10. ASSUME object'.keys = reader'.keys \/ (object'.comm = "open" /\ object'.keys = NoSlots)
         PROVE  \A j \in 2 .. call.i - 1 : Settled(data, reader.keys, j, call.i)
    BY <1>8, <2>1, <2>2, <2>6, <2>10 DEF UpdateInv, KeysOK
  <2>11. KeysOK'
    BY <1>8, <2>1, <2>2, <2>6, <2>8, <2>9, <2>10 DEF KeysOK, k
  <2>12. QED
    BY <2>6, <2>7, <2>11 DEF UpdateInv
<1>11. QED
  BY <1>9, <1>10

LEMMA KeyStep ==
  ASSUME UpdateInv, UpdateKey, UNCHANGED <<data, signature, calls>>
  PROVE  UpdateInv'
<1>1. call.step = "key" /\ ~ListDue
  BY DEF UpdateKey, ListDue
<1>2. call.op = "keys"
  BY <1>1, StepFacts DEF StepsOf, Operations, Changes
<1>3. ASSUME UNCHANGED reader, NEW res, Return(res, object) PROVE UpdateInv'
  <2>1. KnownFor(object, reader')
    BY <1>1, <1>3 DEF UpdateInv, KeysKnown, KnownFor
  <2>2. SoundObject(object) /\ (object.there /\ ~object.missed => FreshFor(object, reader')) /\ reader' \in Readers
    BY <1>1, <1>3, StepFacts
  <2>3. QED
    BY <1>3, <2>1, <2>2, Returned
<1>4. CASE MaskFails
  BY <1>1, <1>4, MaskStep
<1>5. CASE call.i <= Len(data) /\ (SkipKey \/ SendKey)
  BY <1>1, <1>2, <1>5, SkipStep, SendStep
<1>6. QED
  BY <1>3, <1>4, <1>5 DEF UpdateKey, TooLong

LEMMA FirstOfFacts ==
  ASSUME NEW slots \in SUBSET (1 .. 2), slots # {}
  PROVE  FirstOf(slots) \in slots
<1>1. \E s \in slots : \A t \in slots : s <= t
  <2>1. CASE 1 \in slots
    BY <2>1
  <2>2. CASE 1 \notin slots
    <3>1. \A t \in slots : t = 2
      BY <2>2
    <3>2. 2 \in slots
      BY <3>1
    <3>3. \A t \in slots : 2 <= t
      BY <3>1
    <3>4. QED
      BY <3>2, <3>3
  <2>3. QED
    BY <2>1, <2>2
<1>2. QED
  BY <1>1 DEF FirstOf

LEMMA WithSlotsFacts ==
  ASSUME NEW r \in Readers, NEW k \in Keys \X Keys
  PROVE  WithSlots(r, k) \in Readers /\ WithSlots(r, k).modules = r.modules /\ WithSlots(r, k).keys = k
<1> DEFINE K == Keys \X Keys
           F == [Images -> Statuses]
           B == Seq(Elements)
<1>1. k \in K
  OBVIOUS
<1>2. Readers = [modules : F, keys : K, buffer : B, newKey : Keys, constants : BOOLEAN]
  BY DEF Readers
<1> HIDE DEF K, F, B
<1>3. QED
  BY <1>1, <1>2 DEF WithSlots

LEMMA ForgetfulFacts ==
  ASSUME NEW r \in Readers
  PROVE  Forgetful(r) \in Readers /\ Forgetful(r).modules = r.modules /\ Forgetful(r).keys = r.keys
BY ReaderFacts, Zenon

LEMMA KeyIntoFacts ==
  ASSUME UpdateInv, NEW slots \in SUBSET (1 .. 2), slots # {}
  PROVE  /\ KeyInto(slots) \in Readers /\ KeyInto(slots).modules = reader.modules
         /\ KeyInto(slots).keys = [reader.keys EXCEPT ![FirstOf(slots)] = reader.newKey]
<1>1. reader \in Readers /\ reader.keys \in Keys \X Keys /\ reader.newKey \in Keys
  BY StepFacts, ReaderFacts
<1>2. FirstOf(slots) \in 1 .. 2
  BY FirstOfFacts
<1> DEFINE f == [reader.keys EXCEPT ![FirstOf(slots)] = reader.newKey]
           r == WithSlots(reader, f)
<1>3. f \in Keys \X Keys
  <2> DEFINE s == FirstOf(slots)
             o == reader.keys
             n == reader.newKey
  <2>1. s \in 1 .. 2 /\ o \in Keys \X Keys /\ n \in Keys
    BY <1>1, <1>2
  <2> HIDE DEF s, o, n
  <2>2. [o EXCEPT ![s] = n] \in Keys \X Keys
    BY <2>1
  <2>3. QED
    BY <2>2 DEF s, o, n
<1>4. KeyInto(slots) = Forgetful(r)
  BY DEF KeyInto, WithSlots
<1> HIDE DEF f
<1>5. r \in Readers /\ r.modules = reader.modules /\ r.keys = f
  BY <1>1, <1>3, WithSlotsFacts
<1> HIDE DEF r
<1>6. KeyInto(slots) \in Readers /\ KeyInto(slots).modules = reader.modules /\ KeyInto(slots).keys = f
  BY <1>4, <1>5, ForgetfulFacts
<1>7. QED
  BY <1>6 DEF f

LEMMA VerifyKeyStep ==
  ASSUME UpdateInv, VerifyKey, UNCHANGED <<data, signature, calls>>
  PROVE  UpdateInv'
<1>1. call.step = "verify key" /\ ~ListDue
  BY DEF VerifyKey, ListDue
<1>2. call.op = "keys"
  BY <1>1, StepFacts DEF StepsOf, Operations, Changes
<1>3. CASE MaskFails
  BY <1>1, <1>3, MaskStep
<1>4. CASE ~MaskFails
  <2> DEFINE slots == IF AsRoot(call.i) THEN EmptySlots(reader.keys) ELSE SlotsOf(reader.keys, reader.newKey.KNr)
             possible == IF AsRoot(call.i) THEN AcceptsRoot ELSE AcceptsSigned(data[call.i].by)
  <2>1. PICK e \in Escape :
          /\ Executes(possible, KeyInto(slots), e)
          /\ IF Fails(e) THEN Return(e.res, After(e)) ELSE GoTo("info", call.i, "ok", After(e))
    BY <1>4 DEF VerifyKey
  <2>2. slots \in SUBSET (1 .. 2) /\ (possible => slots # {})
    BY DEF EmptySlots, SlotsOf, AcceptsRoot, AcceptsSigned
  <2>3. \A s \in slots : reader.keys[s] = Empty \/ reader.keys[s].KNr = reader.newKey.KNr
    BY DEF EmptySlots, SlotsOf
  <2> HIDE DEF slots, possible
  <2>4. possible => /\ KeyInto(slots) \in Readers /\ KeyInto(slots).modules = reader.modules
                    /\ KeyInto(slots).keys = [reader.keys EXCEPT ![FirstOf(slots)] = reader.newKey]
    BY <2>2, KeyIntoFacts
  <2>5. /\ e.done \in BOOLEAN /\ (e.res # "ok" /\ e.done => e.comm = "closed")
        /\ e.comm = "open" => object.comm = "open"
    BY StepFacts, EscapeFacts DEF SoundObject
  <2>6. reader' \in Readers /\ reader'.modules = reader.modules /\ (~e.done => reader'.keys = reader.keys)
    BY <2>1, <2>4, <2>5, ExecutesFacts
  <2>7. CASE Fails(e)
    <3>1. reader'.keys = reader.keys \/ e.comm = "closed"
      BY <2>5, <2>6, <2>7 DEF Fails
    <3>2. QED
      BY <1>1, <2>1, <2>6, <2>7, <3>1, FailStep
  <2>8. CASE ~Fails(e)
    <3>1. possible /\ reader' = KeyInto(slots)
      BY <2>1, <2>4, <2>8, ExecutesFacts
    <3>2. /\ SoundObject(After(e))
          /\ After(e).there /\ ~After(e).missed => FreshFor(After(e), reader')
      BY <1>1, <2>6, AfterFacts
    <3>3. call.i \in 1 .. Len(data) /\ Len(data) \in Nat
      BY <1>1, <1>2, KeyIndex
    <3>4. call.i \in 1 .. Len(data) + 1 /\ call.i <= Len(data)
      BY <3>3
    <3>5. "info" \in Steps /\ "ok" \in Results
      BY DEF Steps, Results
    <3>6. "info" \in StepsOf(call.op)
      BY <1>2, StepNames
    <3>7. GoTo("info", call.i, "ok", After(e))
      BY <2>1, <2>8
    <3>8. /\ UpdateTypes' /\ CallOK' /\ ListOK' /\ KeysKnown' /\ call'.op = "keys" /\ call'.step = "info"
          /\ call'.i = call.i
      BY <1>2, <2>6, <3>2, <3>4, <3>5, <3>6, <3>7, WentOn
    <3>9. FlashOK'
      BY <3>8 DEF FlashOK
    <3>10. Rising /\ Sending /\ object.comm = "open" /\ reader.newKey = data[call.i].key
      BY <1>1, <1>2 DEF UpdateInv, KeysOK
    <3>11. Rising'
      BY <3>10 DEF Rising, Header
    <3>12. object.keys \in {reader.keys, NoSlots}
      <4>1. object.keys \in {reader.keys, NoSlots, NoKeys}
        BY <1>1, <3>10 DEF UpdateInv, KeysKnown
      <4>2. QED
        BY <1>2, <3>3, <3>10, <4>1, SendingFacts
    <3>13. \A j \in 2 .. call.i - 1 : Settled(data, reader.keys, j, call.i)
      BY <1>1, <1>2, <3>10, <3>12 DEF UpdateInv, KeysOK
    <3>14. \A j \in 2 .. call.i : Settled(data, reader'.keys, j, call.i + 1)
      <4> DEFINE s == FirstOf(slots)
      <4>1. s \in slots /\ s \in 1 .. 2
        BY <2>2, <3>1, FirstOfFacts
      <4>2. reader.keys[s] = Empty \/ reader.keys[s].KNr = data[call.i].key.KNr
        BY <2>3, <3>10, <4>1
      <4>3. reader'.keys = [reader.keys EXCEPT ![s] = data[call.i].key]
        BY <2>4, <3>1, <3>10
      <4>4. data \in Seq(Elements) /\ reader.keys \in Keys \X Keys
        BY ReaderFacts DEF UpdateInv, UpdateTypes
      <4> HIDE DEF s
      <4>5. \A j \in 2 .. call.i : Settled(data, [reader.keys EXCEPT ![s] = data[call.i].key], j, call.i + 1)
        BY <3>3, <3>10, <3>13, <4>1, <4>2, <4>4, KeySettles
      <4>6. QED
        BY <4>3, <4>5
    <3>15. KeysOK'
      BY <3>8, <3>11, <3>14 DEF KeysOK
    <3>16. QED
      BY <3>8, <3>9, <3>15 DEF UpdateInv
  <2>9. QED
    BY <2>7, <2>8
<1>5. QED
  BY <1>3, <1>4

LEMMA IdleFacts ==
  ASSUME UpdateInv, Idle
  PROVE  call.step = "none" /\ ~ListDue /\ SoundObject(object) /\ KnownFor(object, reader)
         /\ (object.there /\ ~object.missed => FreshFor(object, reader))
<1>1. call.op = "none"
  BY DEF Idle
<1>2. call.step = "none"
  BY <1>1, StepFacts, StepNames
<1>3. ~ListDue
  BY <1>2 DEF ListDue
<1>4. QED
  BY <1>1, <1>2, <1>3, StepFacts DEF UpdateInv, KeysKnown, KnownFor

\* A command that does not reach the reader.
LEMMA Answered ==
  ASSUME UpdateInv, Idle, NEW res, Answer(res), UNCHANGED reader, data' \in Seq(Elements), Len(data') <= MaxUpload,
         signature' \in Seq(Images)
  PROVE  UpdateInv'
<1>1. CtRv(res) \in Results
  BY DEF CtRv, Results
<1>2. call' \in Calls /\ call'.op = "none" /\ call'.step = "none" /\ call'.i = 1
  <2>1. call' = Ending(CtRv(res))
    BY DEF Answer, Ending
  <2>2. QED
    BY <1>1, <2>1, CallFacts
<1>3. UNCHANGED <<object, calls>>
  BY DEF Answer
<1>4. UpdateTypes'
  BY <1>2, <1>3 DEF UpdateInv, UpdateTypes
<1>5. Len(data') \in Nat
  OBVIOUS
<1>6. CallOK'
  BY <1>2, <1>5 DEF CallOK, StepsOf, Changes
<1>7. ListOK'
  BY <1>3, IdleFacts, FreshFacts DEF ListOK
<1>8. KeysKnown'
  BY <1>3, IdleFacts DEF KeysKnown, KnownFor
<1>9. FlashOK' /\ KeysOK'
  BY <1>2 DEF FlashOK, KeysOK
<1>10. QED
  BY <1>4, <1>6, <1>7, <1>8, <1>9 DEF UpdateInv

\* A command that does.
LEMMA Called ==
  ASSUME UpdateInv, Idle, NEW op \in Operations \ {"none", "connect"}, NEW s \in Steps, NEW m \in Images \cup {Kernel},
         CallReader(op, s, m), UNCHANGED <<data, signature, reader>>,
         s \in {"chunk", "key", "change", "selftest", "showauth"}, s \in StepsOf(op),
         op \in Changes \ {"delall"} => m \in Images, s = "chunk" => 1 <= Len(data),
         object.there /\ op = "keys" => Rising /\ s = "key"
  PROVE  UpdateInv'
<1>1. data' \in Seq(Elements) /\ Len(data') <= MaxUpload /\ signature' \in Seq(Images) /\ Len(data) \in Nat
  BY DEF UpdateInv, UpdateTypes
<1>2. CASE ~object.there
  <2>1. Answer("lost")
    BY <1>2 DEF CallReader
  <2>2. QED
    BY <1>1, <2>1, Answered
<1>3. CASE object.there
  <2>1. calls < MaxCalls /\ calls' = calls + 1 /\ call' = Calling(op, s, m) /\ UNCHANGED object
    BY <1>3 DEF CallReader, Calling
  <2>2. call' \in Calls /\ call'.op = op /\ call'.step = s /\ call'.i = 1 /\ call'.module = m
    <3> DEFINE d == Calling(op, s, m)
    <3>1. op \in Operations
      OBVIOUS
    <3>2. d \in Calls /\ d.op = op /\ d.step = s /\ d.i = 1 /\ d.module = m
      BY <3>1, CallFacts
    <3>3. call' = d
      BY <2>1
    <3> HIDE DEF d
    <3>4. QED
      BY <3>2, <3>3
  <2>3. calls' \in 0 .. MaxCalls
    BY <2>1, ModuleUpdateAssumption DEF UpdateInv, UpdateTypes
  <2>4. UpdateTypes'
    BY <2>1, <2>2, <2>3 DEF UpdateInv, UpdateTypes
  <2>5. 1 \in 1 .. Len(data) + 1
    BY <1>1
  <2>6. CallOK'
    <3>1. op = "keys" => s = "key"
      BY <1>3
    <3>2. QED
      BY <2>2, <2>5, <3>1 DEF CallOK
  <2>7. ListOK'
    BY <2>1, IdleFacts, FreshFacts DEF ListOK
  <2>8. KeysKnown'
    BY <2>1, IdleFacts DEF KeysKnown, KnownFor
  <2>9. FlashOK'
    <3>1. ~(call'.i > 1)
      BY <2>2
    <3>2. QED
      BY <2>2, <3>1 DEF FlashOK
  <2>10. KeysOK'
    <3>1. CASE op = "keys"
      <4>1. Rising' /\ s = "key"
        BY <1>3, <3>1 DEF Rising, Header
      <4>2. \A j : j \notin 2 .. call'.i - 1
        BY <2>2
      <4>3. QED
        BY <2>2, <4>1, <4>2 DEF KeysOK
    <3>2. CASE op # "keys"
      BY <2>2, <3>2 DEF KeysOK
    <3>3. QED
      BY <3>1, <3>2
  <2>11. QED
    BY <2>4, <2>6, <2>7, <2>8, <2>9, <2>10 DEF UpdateInv
<1>4. QED
  BY <1>2, <1>3, StepFacts, ObjectFacts DEF SoundObject

LEMMA ConnectStep ==
  ASSUME UpdateInv, Connect \/ Disconnect
  PROVE  UpdateInv'
<1>1. CASE Connect
  <2>1. /\ call' = [NoCall EXCEPT !.op = "connect", !.step = "info"] /\ object' = NewObject /\ data' = <<>> /\ signature' = <<>>
        /\ calls < MaxCalls /\ calls' = calls + 1 /\ UNCHANGED reader
    BY <1>1 DEF Connect
  <2>2. call' = [op |-> "connect", step |-> "info", i |-> 1, res |-> "ok", module |-> Kernel]
    BY <2>1 DEF NoCall
  <2>3. "connect" \in Operations /\ "info" \in Steps /\ "ok" \in Results
    BY DEF Operations, Steps, Results
  <2>4. call' \in Calls /\ call'.op = "connect" /\ call'.step = "info" /\ call'.i = 1 /\ call'.module = Kernel
    <3> DEFINE M == Images \cup {Kernel}
    <3>1. Calls = [op : Operations, step : Steps, i : Nat, res : Results, module : M] /\ Kernel \in M
      BY DEF Calls
    <3> HIDE DEF M
    <3>2. QED
      BY <2>2, <2>3, <3>1
  <2>5. data' \in Seq(Elements) /\ Len(data') = 0 /\ signature' \in Seq(Images)
    BY <2>1
  <2>6. calls' \in 0 .. MaxCalls /\ Len(data') <= MaxUpload
    BY <2>1, <2>5, ModuleUpdateAssumption DEF UpdateInv, UpdateTypes
  <2>7. UpdateTypes'
    BY <2>1, <2>4, <2>5, <2>6, NoObjectFacts DEF UpdateInv, UpdateTypes, SoundObject
  <2>8. CallOK'
    <3>1. "info" \in StepsOf("connect") /\ "connect" \notin Changes
      BY StepNames DEF Changes
    <3>2. 1 \in 1 .. Len(data') + 1
      BY <2>5
    <3>3. QED
      BY <2>4, <3>1, <3>2 DEF CallOK
  <2>9. ListOK'
    BY <2>4 DEF ListOK, ListDue
  <2>10. KeysKnown'
    BY <2>1, NoObjectFacts DEF KeysKnown
  <2>11. FlashOK' /\ KeysOK'
    BY <2>4 DEF FlashOK, KeysOK
  <2>12. QED
    BY <2>7, <2>8, <2>9, <2>10, <2>11 DEF UpdateInv
<1>2. CASE Disconnect
  <2>1. object' = NoObject /\ UNCHANGED <<data, signature, call, reader, calls>> /\ call.op = "none"
    BY <1>2 DEF Disconnect, Idle
  <2>2. UpdateTypes'
    BY <2>1, NoObjectFacts DEF UpdateInv, UpdateTypes, SoundObject
  <2>3. CallOK'
    BY <2>1 DEF UpdateInv, CallOK
  <2>4. ListOK'
    BY <2>1, NoObjectFacts DEF ListOK
  <2>5. KeysKnown'
    BY <2>1, NoObjectFacts DEF KeysKnown
  <2>6. FlashOK' /\ KeysOK'
    BY <2>1 DEF FlashOK, KeysOK
  <2>7. QED
    BY <2>2, <2>3, <2>4, <2>5, <2>6 DEF UpdateInv
<1>3. QED
  BY <1>1, <1>2

LEMMA UploadStep ==
  ASSUME UpdateInv, \/ AbortUpload
                    \/ \E first \in BOOLEAN : \/ \E e \in Elements : UploadMod(first, e)
                                              \/ \E m \in Images : UploadSig(first, m)
  PROVE  UpdateInv'
<1>1. data \in Seq(Elements) /\ Len(data) <= MaxUpload /\ signature \in Seq(Images) /\ MaxUpload \in Nat \ {0}
  BY ModuleUpdateAssumption DEF UpdateInv, UpdateTypes
<1>2. <<>> \in Seq(Elements) /\ <<>> \in Seq(Images) /\ Len(<<>>) <= MaxUpload
  BY <1>1
<1>3. CASE AbortUpload
  <2>1. Idle /\ Answer("ok") /\ UNCHANGED reader
    BY <1>3 DEF AbortUpload
  <2>2. data' \in {<<>>, data} /\ signature' \in {<<>>, signature}
    BY <1>3 DEF AbortUpload
  <2>3. data' \in Seq(Elements) /\ Len(data') <= MaxUpload /\ signature' \in Seq(Images)
    BY <1>1, <1>2, <2>2
  <2>4. QED
    BY <2>1, <2>3, Answered
<1>4. ASSUME NEW first \in BOOLEAN, NEW e \in Elements, UploadMod(first, e) PROVE UpdateInv'
  <2>1. Idle /\ Answer("ok") /\ UNCHANGED <<signature, reader>>
    BY <1>4 DEF UploadMod
  <2>2. \/ data' = Append(<<>>, e)
        \/ data' = Append(data, e) /\ Len(data) < MaxUpload
    BY <1>4 DEF UploadMod, Stored
  <2>3. data' \in Seq(Elements) /\ Len(data') <= MaxUpload
    <3>1. CASE data' = Append(<<>>, e)
      BY <1>1, <3>1
    <3>2. CASE data' = Append(data, e) /\ Len(data) < MaxUpload
      BY <1>1, <3>2
    <3>3. QED
      BY <2>2, <3>1, <3>2
  <2>4. QED
    BY <1>1, <2>1, <2>3, Answered
<1>5. ASSUME NEW first \in BOOLEAN, NEW m \in Images, UploadSig(first, m) PROVE UpdateInv'
  <2>1. Idle /\ Answer("ok") /\ UNCHANGED <<data, reader>>
    BY <1>5 DEF UploadSig
  <2>2. signature' = Append(<<>>, m) \/ signature' = Append(signature, m)
    BY <1>5 DEF UploadSig, Stored
  <2>3. signature' \in Seq(Images)
    <3>1. Append(<<>>, m) \in Seq(Images) /\ Append(signature, m) \in Seq(Images)
      BY <1>1
    <3>2. QED
      BY <2>2, <3>1
  <2>4. QED
    BY <1>1, <2>1, <2>3, Answered
<1>6. QED
  BY <1>3, <1>4, <1>5

LEMMA CommandStep ==
  ASSUME UpdateInv, \/ UploadFlash \/ KeyUpdate
                    \/ CallChange("delall", Kernel)
                    \/ \E op \in {"delete", "activate", "deactivate"}, m \in Images : CallChange(op, m)
                    \/ \E op \in {"selftest", "showauth"} : CallTest(op)
  PROVE  UpdateInv'
<1>1. data \in Seq(Elements) /\ Len(data) <= MaxUpload /\ signature \in Seq(Images) /\ Len(data) \in Nat
  BY DEF UpdateInv, UpdateTypes
<1>2. ASSUME NEW res, Idle, Answer(res), UNCHANGED <<data, signature, reader>> PROVE UpdateInv'
  BY <1>1, <1>2, Answered
<1>3. CASE UploadFlash
  <2>1. Idle /\ UNCHANGED <<data, signature, reader>>
    BY <1>3 DEF UploadFlash
  <2>2. CASE Answer("invalid") \/ Answer("size")
    BY <1>2, <2>1, <2>2
  <2>3. CASE data # <<>> /\ CallReader("load", "chunk", Kernel)
    <3>1. 1 <= Len(data)
      BY <1>1, <2>3
    <3>2. "load" \in Operations \ {"none", "connect"} /\ "chunk" \in Steps
      BY DEF Operations, Steps
    <3>3. "chunk" \in StepsOf("load") /\ "load" \notin Changes
      BY StepNames DEF Changes
    <3>4. QED
      BY <2>1, <2>3, <3>1, <3>2, <3>3, Called
  <2>4. QED
    BY <1>3, <2>2, <2>3 DEF UploadFlash
<1>4. CASE KeyUpdate
  <2>1. Idle /\ UNCHANGED <<data, signature, reader>>
    BY <1>4 DEF KeyUpdate
  <2>2. CASE Answer("corrupt") \/ Answer("ok")
    BY <1>2, <2>1, <2>2
  <2>3. CASE (object.there => SoundFile) /\ CallReader("keys", "key", Kernel)
    <3>1. object.there => Rising
      <4>1. SUFFICES ASSUME SoundFile, NEW i \in 1 .. Len(data) PROVE Header(i)
        BY <2>3 DEF Rising
      <4>2. i \in DOMAIN data /\ i \in 1 .. i
        BY <1>1
      <4>3. QED
        BY <4>1, <4>2 DEF SoundFile, Sound
    <3>2. "keys" \in Operations \ {"none", "connect"} /\ "key" \in Steps
      BY DEF Operations, Steps
    <3>3. "key" \in StepsOf("keys") /\ "keys" \notin Changes
      BY StepNames DEF Changes
    <3>4. QED
      BY <2>1, <2>3, <3>1, <3>2, <3>3, Called
  <2>4. QED
    BY <1>4, <2>2, <2>3 DEF KeyUpdate
<1>5. ASSUME NEW op \in Changes, NEW m \in Images \cup {Kernel}, op # "delall" => m \in Images, CallChange(op, m)
      PROVE  UpdateInv'
  <2>1. Idle /\ UNCHANGED <<data, signature, reader>> /\ CallReader(op, "change", m)
    BY <1>5 DEF CallChange
  <2>2. op \in Operations \ {"none", "connect"} /\ op # "keys" /\ "change" \in Steps
    BY DEF Operations, Steps, Changes
  <2>3. "change" \in StepsOf(op)
    BY StepNames
  <2>4. QED
    BY <1>5, <2>1, <2>2, <2>3, Called
<1>6. ASSUME NEW op \in {"selftest", "showauth"}, CallTest(op) PROVE UpdateInv'
  <2>1. Idle /\ UNCHANGED <<data, signature, reader>> /\ CallReader(op, op, Kernel)
    BY <1>6 DEF CallTest
  <2>2. op \in Operations \ {"none", "connect"} /\ op \in Steps /\ op # "keys" /\ op \notin Changes /\ op # "chunk"
    BY DEF Operations, Steps, Changes
  <2>3. op \in StepsOf(op)
    BY StepNames
  <2>4. op \in {"chunk", "key", "change", "selftest", "showauth"}
    OBVIOUS
  <2>5. QED
    BY <2>1, <2>2, <2>3, <2>4, Called
<1>7. {"delall", "delete", "activate", "deactivate"} \subseteq Changes
  BY DEF Changes
<1>8. QED
  BY <1>3, <1>4, <1>5, <1>6, <1>7

LEMMA ReaderStep ==
  ASSUME UpdateInv, Step
  PROVE  UpdateInv'
<1>1. UNCHANGED <<data, signature, calls>>
  BY DEF Step
<1>2. CASE BuildReaderInfo
  BY <1>1, <1>2, InfoStep
<1>3. CASE BuildModuleInfo
  BY <1>1, <1>3, ModulesStep
<1>4. CASE SetReaderConstants
  BY <1>1, <1>4, ConstantsStep
<1>5. CASE Chunk
  BY <1>1, <1>5, ChunkStep
<1>6. CASE Verify
  BY <1>1, <1>6, VerifyStep
<1>7. CASE ChangeModules
  BY <1>1, <1>7, ChangeStep
<1>8. CASE UpdateKey
  BY <1>1, <1>8, KeyStep
<1>9. CASE VerifyKey
  BY <1>1, <1>9, VerifyKeyStep
<1>10. CASE SelfTest \/ ShowAuth
  BY <1>1, <1>10, TestStep
<1>11. QED
  BY <1>2, <1>3, <1>4, <1>5, <1>6, <1>7, <1>8, <1>9, <1>10 DEF Step

LEMMA ApplicationStep ==
  ASSUME UpdateInv, Application
  PROVE  UpdateInv'
<1>1. CASE Connect \/ Disconnect
  BY <1>1, ConnectStep
<1>2. CASE \/ AbortUpload
           \/ \E first \in BOOLEAN : \/ \E e \in PieceSet \cup Records : UploadMod(first, e)
                                     \/ \E m \in Images : UploadSig(first, m)
  BY <1>2, UploadStep DEF Elements
<1>3. CASE \/ UploadFlash \/ KeyUpdate
           \/ CallChange("delall", Kernel)
           \/ \E op \in {"delete", "activate", "deactivate"}, m \in Images : CallChange(op, m)
           \/ \E op \in {"selftest", "showauth"} : CallTest(op)
  BY <1>3, CommandStep
<1>4. QED
  BY <1>1, <1>2, <1>3, Zenon DEF Application

LEMMA UpdateStuttered ==
  ASSUME UpdateInv, UNCHANGED updateVars
  PROVE  UpdateInv'
<1>1. UNCHANGED <<object, data, signature, call, reader, calls>>
  BY DEF updateVars
<1>2. UpdateTypes' /\ CallOK'
  BY <1>1 DEF UpdateInv, UpdateTypes, CallOK
<1>3. ListOK'
  BY <1>1, FreshFacts DEF UpdateInv, ListOK, ListDue
<1>4. FlashOK' /\ KeysKnown'
  BY <1>1 DEF UpdateInv, FlashOK, KeysKnown
<1>5. KeysOK'
  <2>1. Rising' <=> Rising
    BY <1>1 DEF Rising, Header
  <2>2. Sending' <=> Sending
    BY <1>1, SendingSame
  <2>3. QED
    BY <1>1, <2>1, <2>2 DEF UpdateInv, KeysOK
<1>6. QED
  BY <1>2, <1>3, <1>4, <1>5 DEF UpdateInv

LEMMA UpdateStarted == UpdateInit => UpdateInv
<1> SUFFICES ASSUME UpdateInit PROVE UpdateInv
  OBVIOUS
<1>1. object = NoObject /\ data = <<>> /\ signature = <<>> /\ call = NoCall /\ calls = 0
  BY DEF UpdateInit
<1> DEFINE absent == [m \in Images |-> "absent"]
           nothing == <<>>
<1>2. PICK k \in FactoryKeys :
        reader = [modules |-> absent, keys |-> k, buffer |-> nothing, newKey |-> NoKey, constants |-> FALSE]
  BY DEF UpdateInit
<1>3. k \in Keys \X Keys
  <2> DEFINE N == [KNr : 0 .. 255, Version : 0 .. 255]
             C == UNION {{f[1], f[2]} : f \in FactoryKeys}
  <2>1. FactoryKeys \subseteq N \X N
    BY ModuleUpdateAssumption
  <2> HIDE DEF N
  <2>2. k = <<k[1], k[2]>>
    BY <2>1
  <2>3. k[1] \in C /\ k[2] \in C
    OBVIOUS
  <2>4. C \subseteq Keys
    BY DEF Keys
  <2> HIDE DEF C
  <2>5. QED
    BY <2>2, <2>3, <2>4
<1>4. absent \in [Images -> Statuses] /\ nothing \in Seq(Elements) /\ NoKey \in Keys
  BY KeyFacts DEF Statuses
<1> HIDE DEF absent, nothing
<1>5. reader \in Readers
  <2> DEFINE K == Keys \X Keys
             F == [Images -> Statuses]
             B == Seq(Elements)
  <2>1. Readers = [modules : F, keys : K, buffer : B, newKey : Keys, constants : BOOLEAN]
    BY DEF Readers
  <2>2. k \in K /\ absent \in F /\ nothing \in B
    BY <1>3, <1>4
  <2> HIDE DEF K, F, B
  <2>3. QED
    BY <1>2, <1>4, <2>1, <2>2
<1>6. call \in Calls /\ call.op = "none" /\ call.step = "none" /\ call.i = 1
  <2> DEFINE M == Images \cup {Kernel}
  <2>1. Calls = [op : Operations, step : Steps, i : Nat, res : Results, module : M] /\ Kernel \in M
    BY DEF Calls
  <2>2. "none" \in Operations /\ "none" \in Steps /\ "ok" \in Results
    BY DEF Operations, Steps, Results
  <2> HIDE DEF M
  <2>3. QED
    BY <1>1, <2>1, <2>2 DEF NoCall
<1>7. data \in Seq(Elements) /\ Len(data) = 0 /\ signature \in Seq(Images)
  BY <1>1
<1>8. calls \in 0 .. MaxCalls /\ Len(data) <= MaxUpload
  BY <1>1, <1>7, ModuleUpdateAssumption
<1>9. UpdateTypes
  BY <1>1, <1>5, <1>6, <1>7, <1>8, NoObjectFacts DEF UpdateTypes, SoundObject
<1>10. CallOK
  <2>1. "none" \in StepsOf("none") /\ "none" \notin Changes
    BY StepNames DEF Changes
  <2>2. 1 \in 1 .. Len(data) + 1
    BY <1>7
  <2>3. QED
    BY <1>6, <2>1, <2>2 DEF CallOK
<1>11. ListOK
  BY <1>1, NoObjectFacts DEF ListOK
<1>12. KeysKnown
  BY <1>1, NoObjectFacts DEF KeysKnown
<1>13. FlashOK /\ KeysOK
  BY <1>6 DEF FlashOK, KeysOK
<1>14. QED
  BY <1>9, <1>10, <1>11, <1>12, <1>13 DEF UpdateInv

\* How a step may end a call: with "ok" only if the operation ended with "ok".
LEMMA EndFacts ==
  ASSUME UpdateInv
  PROVE  /\ \A res, o : Return(res, o) /\ res # "ok" => call'.res # "ok"
         /\ MaskFails => call'.res # "ok"
         /\ \A s \in Steps, i \in Nat, res \in Results : \A o : GoTo(s, i, res, o) => call'.op = call.op
<1>1. ASSUME NEW res, NEW o, Return(res, o), res # "ok" PROVE call'.res # "ok"
  <2>1. call' = Ending("error")
    BY <1>1 DEF Return, Ending, CtRv
  <2>2. "error" \in Results
    BY DEF Results
  <2>3. call'.res = "error"
    BY <2>1, <2>2, CallFacts
  <2>4. QED
    BY <2>3
<1>2. MaskFails => call'.res # "ok"
  BY <1>1 DEF MaskFails, Fails
<1>3. ASSUME NEW s \in Steps, NEW i \in Nat, NEW res \in Results, NEW o, GoTo(s, i, res, o) PROVE call'.op = call.op
  <2>1. call \in Calls
    BY DEF UpdateInv, UpdateTypes
  <2>2. call' = Going(call, s, i, res)
    BY <1>3 DEF GoTo, Going
  <2>3. QED
    BY <2>1, <2>2, CallFacts
<1>4. QED
  BY <1>1, <1>2, <1>3

\* A call that returns "ok" was at its end: CtKeyUpdate behind the last record, CtLoadModule after
\* it had read the list.
LEMMA LastStep ==
  ASSUME UpdateInv, [UpdateNext]_updateVars, call.op \in {"keys", "load"}, call'.op = "none", call'.res = "ok"
  PROVE  /\ call.op = "keys" => call.step = "key" /\ call.i = Len(data) + 1
         /\ call.op = "load" => call.step = "modules"
<1>1. call' # call
  BY DEF Idle
<1>2. ~Idle
  BY DEF Idle
<1>3. ~Application
  BY <1>2 DEF Application, Connect, Disconnect, AbortUpload, UploadFlash, KeyUpdate, UploadMod, UploadSig,
              CallChange, CallTest
<1>4. Step
  BY <1>1, <1>3 DEF UpdateNext, updateVars
<1>5. /\ call.op = "keys" => call.step \in {"key", "verify key", "info"}
      /\ call.op = "load" => call.step \in {"chunk", "verify", "info", "modules"}
  BY StepFacts, StepNames
<1>6. {"key", "modules", "chunk", "verify", "verify key", "info"} \subseteq Steps /\ "ok" \in Results
  BY DEF Steps, Results
<1>7. call.i \in Nat /\ call.i + 1 \in Nat /\ call.res \in Results /\ Len(data) \in Nat /\ call.i \in 1 .. Len(data) + 1
  BY StepFacts
<1>8. ~MaskFails
  BY EndFacts
<1>9. ASSUME NEW e \in Escape, Return(e.res, After(e)), Fails(e) PROVE FALSE
  BY <1>9, EndFacts DEF Fails
<1>10. ASSUME NEW s \in Steps, NEW i \in Nat, NEW res \in Results, NEW o, GoTo(s, i, res, o) PROVE FALSE
  BY <1>10, EndFacts
<1>11. ~BuildReaderInfo
  BY <1>6, <1>7, <1>10 DEF BuildReaderInfo
<1>12. ~Chunk
  BY <1>6, <1>7, <1>8, <1>9, <1>10 DEF Chunk
<1>13. ~Verify
  <2>1. SUFFICES ASSUME Verify PROVE FALSE
    OBVIOUS
  <2>2. PICK e \in Escape : IF Fails(e) THEN Return(e.res, [After(e) EXCEPT !.missed = @ \/ e.done])
                            ELSE GoTo("info", 1, "ok", After(e))
    BY <1>8, <2>1 DEF Verify
  <2>3. CASE Fails(e)
    BY <2>2, <2>3, EndFacts DEF Fails
  <2>4. CASE ~Fails(e)
    BY <1>6, <1>10, <2>2, <2>4
  <2>5. QED
    BY <2>3, <2>4
<1>14. ~VerifyKey
  <2>1. SUFFICES ASSUME VerifyKey PROVE FALSE
    OBVIOUS
  <2>2. PICK e \in Escape : IF Fails(e) THEN Return(e.res, After(e)) ELSE GoTo("info", call.i, "ok", After(e))
    BY <1>8, <2>1 DEF VerifyKey
  <2>3. QED
    BY <1>6, <1>7, <1>9, <1>10, <2>2
<1>15. ~SetReaderConstants /\ ~ChangeModules /\ ~SelfTest /\ ~ShowAuth
  BY <1>5 DEF SetReaderConstants, ChangeModules, SelfTest, ShowAuth
<1>16. UpdateKey \/ BuildModuleInfo
  BY <1>4, <1>11, <1>12, <1>13, <1>14, <1>15 DEF Step
<1>17. CASE BuildModuleInfo
  BY <1>5, <1>17 DEF BuildModuleInfo
<1>18. CASE UpdateKey
  <2>1. call.step = "key" /\ call.op = "keys"
    BY <1>5, <1>18 DEF UpdateKey
  <2>2. ~SkipKey
    BY <1>6, <1>7, <1>10 DEF SkipKey
  <2>3. ~SendKey
    BY <1>6, <1>7, <1>9, <1>10 DEF SendKey
  <2>4. ~Return("corrupt", object) /\ ~TooLong
    BY EndFacts DEF TooLong
  <2>5. call.i > Len(data)
    BY <1>8, <1>18, <2>2, <2>3, <2>4 DEF UpdateKey
  <2>6. QED
    BY <1>7, <2>1, <2>5
<1>19. QED
  BY <1>16, <1>17, <1>18

LEMMA UpdateInductive == UpdateSpec => []UpdateInv
<1>1. UpdateInv /\ [UpdateNext]_updateVars => UpdateInv'
  BY ApplicationStep, ReaderStep, UpdateStuttered DEF UpdateNext
<1>2. QED
  BY <1>1, UpdateStarted, PTL DEF UpdateSpec

LEMMA TypeOKFacts == UpdateInv => UpdateTypeOK
<1> SUFFICES ASSUME UpdateInv PROVE UpdateTypeOK
  OBVIOUS
<1>1. /\ object.comm \in {"open", "closed"} /\ object.there \in BOOLEAN /\ object.missed \in BOOLEAN
      /\ object.keys \in Keys \X Keys /\ object.list \in Lists /\ object.count \in Nat
  BY ObjectFacts DEF UpdateInv, UpdateTypes
<1>2. object.count <= Cardinality(DOMAIN object.list) /\ Cardinality(DOMAIN object.list) \in Nat
  BY <1>1, SetFacts DEF UpdateInv, UpdateTypes
<1>3. object.count \in 0 .. Cardinality(DOMAIN object.list)
  BY <1>1, <1>2
<1>4. /\ DOMAIN object.list \subseteq Images \cup {Kernel}
      /\ \A m \in DOMAIN object.list : object.list[m] \in {"active", "inactive", Unread}
  <2>1. PICK D \in SUBSET (Images \cup {Kernel}) : object.list \in [D -> {"active", "inactive", Unread}]
    BY <1>1 DEF Lists
  <2>2. QED
    BY <2>1
<1>5. /\ data \in Seq(PieceSet \cup Records) /\ Len(data) <= MaxUpload /\ signature \in Seq(Images)
      /\ calls \in 0 .. MaxCalls
  BY DEF UpdateInv, UpdateTypes, Elements
<1>6. call.i \in 1 .. Len(data) + 1 /\ (call.step = "chunk" => call.i <= Len(data)) /\ call.res \in Results
  BY StepFacts DEF UpdateInv, CallOK
<1>7. reader.modules \in [Images -> Statuses] /\ reader.keys \in Keys \X Keys
  BY StepFacts, ReaderFacts
<1>8. QED
  BY <1>1, <1>3, <1>4, <1>5, <1>6, <1>7 DEF UpdateTypeOK

\* However the calls and the escape messages end, neither CtLoadModule nor CtKeyUpdate reads
\* behind dataToFlash, and CtListModules and FindModule never walk over more entries than
\* BuildModuleInfo allocated: for every file, module set and key store.
THEOREM UpdateTypesHold == UpdateSpec => []UpdateTypeOK
BY UpdateInductive, TypeOKFacts, PTL

\* Between calls the driver's copy of the module list is the reader's, unless it could not be
\* read after the last change: every operation that may have changed the reader's modules,
\* the ones that fail half way included, reads it again or reports that it could not.
THEOREM ListStaysFresh == UpdateSpec => []ListFresh
<1>1. UpdateInv => ListFresh
  <2>1. SUFFICES ASSUME UpdateInv, Idle, object.there, ~object.missed
                 PROVE  /\ object.list = [m \in Installed \cup {Kernel} |-> Status(m)]
                        /\ object.count = Cardinality(DOMAIN object.list)
    BY DEF ListFresh
  <2>2. Fresh
    BY <2>1, IdleFacts, FreshFacts
  <2>3. DOMAIN object.list = Installed \cup {Kernel}
    BY <2>2 DEF Fresh
  <2>4. QED
    BY <2>2, <2>3 DEF Fresh
<1>2. QED
  BY <1>1, UpdateInductive, PTL

\* A KEYUPDATE that returns "ok" while the driver knows the reader's keys leaves no record of the
\* file, after the first, that could still be installed: whatever was skipped was settled by the
\* keys that were written after it.
THEOREM KeysAreUpdated == UpdateSpec => KeysUpdated
<1>1. ASSUME UpdateInv, [UpdateNext]_updateVars,
             call.op = "keys", call'.op = "none", call'.res = "ok", object.keys = reader.keys,
             NEW i \in DOMAIN data, i > 1, SlotsOf(reader.keys, data[i].key.KNr) # {}
      PROVE  \E s \in SlotsOf(reader.keys, data[i].key.KNr) : reader.keys[s].Version >= data[i].key.Version
  <2>1. call.step = "key" /\ call.i = Len(data) + 1
    BY <1>1, LastStep
  <2>2. \A j \in 2 .. call.i - 1 : Settled(data, reader.keys, j, call.i)
    BY <1>1, <2>1 DEF UpdateInv, KeysOK
  <2>3. data \in Seq(Elements) /\ Len(data) \in Nat
    BY <1>1 DEF UpdateInv, UpdateTypes
  <2>4. i \in 2 .. (Len(data) + 1) - 1 /\ (Len(data) + 1) .. Len(data) = {}
    BY <1>1, <2>3
  <2>5. Settled(data, reader.keys, i, Len(data) + 1)
    BY <2>1, <2>2, <2>4
  <2>6. QED
    BY <1>1, <2>4, <2>5 DEF Settled, Behind
<1>2. UpdateInv /\ [UpdateNext]_updateVars =>
        [call.op = "keys" /\ call'.op = "none" /\ call'.res = "ok" /\ object.keys = reader.keys
           => \A i \in DOMAIN data : i > 1 /\ SlotsOf(reader.keys, data[i].key.KNr) # {}
                => \E s \in SlotsOf(reader.keys, data[i].key.KNr) :
                     reader.keys[s].Version >= data[i].key.Version]_updateVars
  BY <1>1
<1>3. QED
  BY <1>2, UpdateInductive, PTL DEF UpdateSpec, KeysUpdated

\* An UPLOADFLASH that returns "ok" has put the whole image that was collected, under its own
\* signature, on the reader: for images of every length, whatever was refused on the way.
THEOREM FlashesWhatWasUploaded == UpdateSpec => FlashedIsUploaded
<1>1. UpdateInv /\ [UpdateNext]_updateVars =>
        [call.op = "load" /\ call'.op = "none" /\ call'.res = "ok"
           => \E m \in Images : data = Whole(m) /\ signature = <<m>> /\ reader.modules[m] = "active"]_updateVars
  <2>1. SUFFICES ASSUME UpdateInv, [UpdateNext]_updateVars, call.op = "load", call'.op = "none", call'.res = "ok"
                 PROVE  \E m \in Images : data = Whole(m) /\ signature = <<m>> /\ reader.modules[m] = "active"
    OBVIOUS
  <2>2. call.step = "modules"
    BY <2>1, LastStep
  <2>3. QED
    BY <2>1, <2>2 DEF UpdateInv, FlashOK
<1>2. QED
  BY <1>1, UpdateInductive, PTL DEF UpdateSpec, FlashedIsUploaded
=============================================================================
