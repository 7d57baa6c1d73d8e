----------------------------- MODULE IfdHandler -----------------------------
(***************************************************************************)
(* The PC/SC front end (ifd/ifdhandler.c): the table ifdh_status of open   *)
(* LUNs and the use count rsct_ifd_driver_initialized, on top of CT-API.   *)
(*                                                                         *)
(* pcscd is not part of the repository.  It makes one call per LUN at a    *)
(* time (the handler reports itself thread safe per reader), so the mutex  *)
(* of a LUN is never contended and is left out; what calls for different   *)
(* LUNs share is the use count and, through it, the whole table.  pcscd    *)
(* creates a channel only when it has none for the LUN, uses and closes it *)
(* only after IFDHCreateChannel succeeded, and forgets it after a close,   *)
(* whatever the result.                                                    *)
(*                                                                         *)
(* Definitions that no other definition uses (deinitDriverAlways, ...) are *)
(* faulty variants of the one that follows them: plausible bugs, kept to   *)
(* show that the properties would notice them.                             *)
(***************************************************************************)
EXTENDS Integers, FiniteSets

CONSTANTS
  Luns,
  Names,       \* device names of IFDHCreateChannelByName; NoName: IFDHCreateChannel
  NoName,
  Serial,      \* TRUE: pcscd creates and closes one channel at a time
  MaxCreates,  \* bound: calls of IFDHCreateChannel and ...ByName
  None

ASSUME IfdAssumption ==
  /\ NoName \in Names
  /\ None \notin Names
  /\ IsFiniteSet(Luns)
  /\ Serial \in BOOLEAN
  /\ MaxCreates \in Nat

VARIABLES
  count,    \* rsct_ifd_driver_initialized
  status,   \* ifdh_status: None, or an entry, reduced to its deviceName
  context,  \* the CT-API context of the LUN: "none", "ready" or "lost"
  channel,  \* pcscd's view: has it a channel for the LUN?
  pc,       \* where the call for the LUN is
  name,     \* argument of the call in progress
  read,     \* value of the use count the call has read
  creates

vars == <<count, status, context, channel, pc, name, read, creates>>

TypeOK ==
  /\ count \in Nat
  /\ status \in [Luns -> Names \cup {None}]
  /\ context \in [Luns -> {"none", "ready", "lost"}]
  /\ channel \in [Luns -> BOOLEAN]
  /\ pc \in [Luns -> {"idle", "init", "initialised", "ctinit", "refused", "close", "deinit", "deinitialised", "power"}]
  /\ name \in [Luns -> Names]
  /\ read \in [Luns -> Nat]
  /\ creates \in 0 .. MaxCreates

Init ==
  /\ count = 0
  /\ status = [l \in Luns |-> None]
  /\ context = [l \in Luns |-> "none"]
  /\ channel = [l \in Luns |-> FALSE]
  /\ pc = [l \in Luns |-> "idle"]
  /\ name = [l \in Luns |-> NoName]
  /\ read = [l \in Luns |-> 0]
  /\ creates = 0

Goto(l, label) == pc' = [pc EXCEPT ![l] = label]

\* A call that creates or closes a channel.
Managing == {l \in Luns : pc[l] \notin {"idle", "power"}}
MayManage(l) == pc[l] = "idle" /\ (Serial => Managing = {})

-----------------------------------------------------------------------------
(* The use count.  No mutex protects it: "++" and "--" are a read and a    *)
(* write, and another LUN's call may come in between.                      *)

ReadCount(l, from, to) ==
  /\ pc[l] = from
  /\ read' = [read EXCEPT ![l] = count]
  /\ Goto(l, to)
  /\ UNCHANGED <<count, status, context, channel, name, creates>>

initDriverShortLoop(l) ==
  /\ pc[l] = "initialised"
  /\ count' = read[l] + 1
  /\ status' = IF count' > 1 THEN status ELSE [k \in Luns \ {l} |-> None]
  /\ Goto(l, "ctinit")
  /\ UNCHANGED <<context, channel, name, read, creates>>

\* initDriver: the first user clears the table.
initDriver(l) ==
  /\ pc[l] = "initialised"
  /\ count' = read[l] + 1
  /\ status' = IF count' > 1 THEN status ELSE [k \in Luns |-> None]
  /\ Goto(l, "ctinit")
  /\ UNCHANGED <<context, channel, name, read, creates>>

deinitDriverAlways(l) ==
  /\ pc[l] = "deinitialised"
  /\ count' = IF read[l] < 1 THEN count ELSE read[l] - 1
  /\ status' = [k \in Luns |-> None]
  /\ Goto(l, "idle")
  /\ UNCHANGED <<context, channel, name, read, creates>>

\* deinitDriver: the last user frees every entry that is left.
deinitDriver(l) ==
  /\ pc[l] = "deinitialised"
  /\ count' = IF read[l] < 1 THEN count ELSE read[l] - 1
  /\ status' = IF read[l] = 1 THEN [k \in Luns |-> None] ELSE status
  /\ Goto(l, "idle")
  /\ UNCHANGED <<context, channel, name, read, creates>>

-----------------------------------------------------------------------------
(* IFDHCreateChannel, IFDHCreateChannelByName                              *)

CreateChannel(l, n) ==
  /\ MayManage(l) /\ ~channel[l]
  /\ creates < MaxCreates /\ creates' = creates + 1
  /\ name' = [name EXCEPT ![l] = n]
  /\ Goto(l, "init")
  /\ UNCHANGED <<count, status, context, channel, read>>

\* No entry: CT_init or rsct_init_name, and malloc.  An open context of that
\* number makes CT_init fail.
CreateOpens(l) ==
  /\ pc[l] = "ctinit" /\ status[l] = None
  /\ \/ /\ context[l] = "none"
        /\ context' = [context EXCEPT ![l] = "ready"]
        /\ status' = [status EXCEPT ![l] = name[l]]
        /\ channel' = [channel EXCEPT ![l] = TRUE]
        /\ Goto(l, "idle")
     \* malloc fails after CT_init has succeeded
     \/ /\ context[l] = "none"
        /\ context' = [context EXCEPT ![l] = "ready"]
        /\ Goto(l, "deinit")
        /\ UNCHANGED <<status, channel>>
     \/ /\ Goto(l, "deinit")
        /\ UNCHANGED <<status, context, channel>>
  /\ UNCHANGED <<count, name, read, creates>>

\* An entry: taken over, unless both names are known and differ.
CreateFinds(l) ==
  /\ pc[l] = "ctinit" /\ status[l] # None
  /\ IF name[l] # NoName /\ status[l] \notin {NoName, name[l]}
     THEN Goto(l, "refused") /\ UNCHANGED channel
     ELSE Goto(l, "idle") /\ channel' = [channel EXCEPT ![l] = TRUE]
  /\ UNCHANGED <<count, status, context, name, read, creates>>

\* "ERROR: The LUN is already in use!"
CreateRefused(l) ==
  /\ pc[l] = "refused"
  /\ Goto(l, "deinit")
  /\ UNCHANGED <<count, status, context, channel, name, read, creates>>

-----------------------------------------------------------------------------
(* IFDHCloseChannel                                                        *)

CloseChannel(l) ==
  /\ MayManage(l) /\ channel[l]
  /\ channel' = [channel EXCEPT ![l] = FALSE]
  /\ Goto(l, IF status[l] = None THEN "idle" ELSE "close")
  /\ UNCHANGED <<count, status, context, name, read, creates>>

CloseWithoutDeinit(l) ==
  /\ pc[l] = "close"
  /\ context' = [context EXCEPT ![l] = "none"]
  /\ status' = IF context[l] = "ready" THEN [status EXCEPT ![l] = None] ELSE status
  /\ Goto(l, IF context[l] = "ready" THEN "deinit" ELSE "idle")
  /\ UNCHANGED <<count, channel, name, read, creates>>

\* CT_close succeeds only for a device that is not lost; the context is gone
\* in any case, the entry only after a success.
Close(l) ==
  /\ pc[l] = "close"
  /\ context' = [context EXCEPT ![l] = "none"]
  /\ status' = IF context[l] = "ready" THEN [status EXCEPT ![l] = None] ELSE status
  /\ Goto(l, "deinit")
  /\ UNCHANGED <<count, channel, name, read, creates>>

-----------------------------------------------------------------------------
(* The other calls, all made of one CT_data.                               *)

\* What CT_data leaves of the context.
AfterData(c) == IF c = "ready" THEN {"ready", "lost"} ELSE {c}

\* IFDHPowerICC and IFDHSetProtocolParameters look at the entry first ...
PowerICC(l) ==
  /\ pc[l] = "idle" /\ channel[l]
  /\ status[l] # None
  /\ Goto(l, "power")
  /\ UNCHANGED <<count, status, context, channel, name, read, creates>>

\* ... and IFDHPowerICC stores the ATR in it after CT_data.  (The ATR itself is
\* not modelled.)
PowerStored(l) ==
  /\ pc[l] = "power" /\ status[l] # None
  /\ \E c \in AfterData(context[l]) : context' = [context EXCEPT ![l] = c]
  /\ Goto(l, "idle")
  /\ UNCHANGED <<count, status, channel, name, read, creates>>

\* IFDHTransmitToICC and IFDHControl, which only ask whether there is an entry,
\* and IFDHICCPresence, which does not even ask.
Transmit(l) ==
  /\ pc[l] = "idle" /\ channel[l]
  /\ \E c \in AfterData(context[l]) : context' = [context EXCEPT ![l] = c]
  /\ UNCHANGED <<count, status, channel, pc, name, read, creates>>

Next ==
  \E l \in Luns :
    \/ ReadCount(l, "init", "initialised") \/ initDriver(l)
    \/ ReadCount(l, "deinit", "deinitialised") \/ deinitDriver(l)
    \/ \E n \in Names : CreateChannel(l, n)
    \/ CreateOpens(l) \/ CreateFinds(l) \/ CreateRefused(l)
    \/ CloseChannel(l) \/ Close(l)
    \/ PowerICC(l) \/ PowerStored(l) \/ Transmit(l)

Spec == Init /\ [][Next]_vars

-----------------------------------------------------------------------------
\* "allow mutliple readers at the same time": a channel pcscd has open keeps its
\* entry, whatever is created, closed or lost on other LUNs; without the entry
\* IFDHTransmitToICC answers that there is no card, and IFDHPowerICC, which
\* holds a pointer to it over CT_data, would write to freed memory.
OpenHasStatus == \A l \in Luns : channel[l] => status[l] # None

\* The use count is the number of channels pcscd has, and of the call that is
\* creating or closing one, so that the table is freed with the last channel.
CountsChannels ==
  count = Cardinality({l \in Luns : channel[l]
            \/ pc[l] \in {"ctinit", "refused", "close", "deinit", "deinitialised"}})
=============================================================================
