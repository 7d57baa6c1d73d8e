-------------------------------- MODULE CtApi --------------------------------
(***************************************************************************)
(* The CT-API front end (ctapi/ctapi.cpp): the list of open contexts, the  *)
(* library's initialisation count, ctapi_status_mutex, and one mutex per   *)
(* context, used by any number of application threads.                     *)
(*                                                                         *)
(* A step is a piece of code between two points where another thread can   *)
(* interfere with effect: taking a mutex, one element of a list walk that  *)
(* no mutex protects, opening a device, talking to it, closing it.  What a *)
(* thread does after it touched freed memory is not modelled: it stops.    *)
(*                                                                         *)
(* Definitions that no other definition uses (NewContextNoPort, ...) are   *)
(* faulty variants of the one that follows them: plausible bugs, kept to   *)
(* show that the properties would notice them.                             *)
(***************************************************************************)
EXTENDS Integers, Sequences

CONSTANTS
  Threads,
  Ctxs,       \* addresses of Ctapi_Context objects; bound: contexts at a time
  Ctns,       \* context numbers
  Ports,      \* port numbers of CT_init; 0 stands for rsct_init_name
  Applications,  \* the applications of a run, records of
                 \*   uses         triples <<thread, call, ctn>>: the calls each thread makes
                 \*   ports        the ports it passes to CT_init
                 \*   disciplined  does it use only numbers CT_init has returned?
                 \*   infoFails    may the reader information query of CT_init fail?
                 \*   maxCalls     bound: calls per thread
  None

ASSUME CtApiAssumption ==
  /\ None \notin Threads /\ None \notin Ctxs
  /\ \A a \in Applications :
       /\ a.uses \subseteq Threads \X {"CT_init", "CT_data", "CT_close", "rsct_setkeycb", "rsct_ifd_ioctl"} \X Ctns
       /\ a.ports \subseteq Ports
       /\ a.disciplined \in BOOLEAN /\ a.infoFails \in BOOLEAN
       /\ a.maxCalls \in Nat

VARIABLES
  app,           \* the application, chosen once
  contexts,      \* ct_context_list
  heap,          \* heap[c]: the Ctapi_Context at address c, or freed
  initCount,     \* _ctapi_init_count
  statusMutex,   \* owner of ctapi_status_mutex, or None
  pc, call, ctn, port,  \* per thread: where it is, the call and its arguments
  ptr,           \* per thread: ctx, or the element its list walk is at
  initialising,  \* per thread: inside _init_common2
  made           \* per thread: calls so far

local == <<pc, call, ctn, port, ptr, initialising, made>>
vars == <<app, contexts, heap, initCount, statusMutex, local>>

Listed(c) == \E i \in 1 .. Len(contexts) : contexts[i] = c

Freed == [alive |-> FALSE, ctn |-> None, port |-> None, device |-> "none",
          mutex |-> None]

NewContextNoPort(n, p) == [alive |-> TRUE, ctn |-> n, port |-> -1, device |-> "ready",
                           mutex |-> None]
NewContext(n, p) == [alive |-> TRUE, ctn |-> n, port |-> p, device |-> "ready",
                     mutex |-> None]

TypeOK ==
  /\ app \in Applications
  /\ contexts \in Seq(Ctxs)
  /\ heap \in [Ctxs -> [alive : BOOLEAN, ctn : Ctns \cup {None}, port : Ports \cup {None},
                        device : {"ready", "lost", "none"},
                        mutex : Threads \cup {None}]]
  /\ initCount \in Nat
  /\ statusMutex \in Threads \cup {None}
  /\ pc \in [Threads -> {"idle", "initlock", "open", "find", "lock", "transfer",
                         "use", "ioctl", "closelock", "closing"}]
  /\ call \in [Threads -> {"CT_init", "CT_data", "CT_close", "rsct_setkeycb", "rsct_ifd_ioctl"} \cup {None}]
  /\ ctn \in [Threads -> Ctns \cup {None}]
  /\ port \in [Threads -> Ports \cup {None}]
  /\ ptr \in [Threads -> Ctxs \cup {None}]
  /\ initialising \in [Threads -> BOOLEAN]
  /\ made \in [Threads -> Nat]

Init ==
  /\ app \in Applications
  /\ contexts = <<>>
  /\ heap = [c \in Ctxs |-> Freed]
  /\ initCount = 0
  /\ statusMutex = None
  /\ pc = [t \in Threads |-> "idle"]
  /\ call = [t \in Threads |-> None]
  /\ ctn = [t \in Threads |-> None]
  /\ port = [t \in Threads |-> None]
  /\ ptr = [t \in Threads |-> None]
  /\ initialising = [t \in Threads |-> FALSE]
  /\ made = [t \in Threads |-> 0]

-----------------------------------------------------------------------------
\* Thread t returns to the application.
Return(t) ==
  /\ pc' = [pc EXCEPT ![t] = "idle"]
  /\ ptr' = [ptr EXCEPT ![t] = None]
  /\ call' = [call EXCEPT ![t] = None]
  /\ ctn' = [ctn EXCEPT ![t] = None]
  /\ port' = [port EXCEPT ![t] = None]
  /\ initialising' = [initialising EXCEPT ![t] = FALSE]
  /\ UNCHANGED made

Goto(t, label) ==
  /\ pc' = [pc EXCEPT ![t] = label]
  /\ UNCHANGED <<call, ctn, port, ptr, initialising, made>>

\* findContextByCtn as a walk over the list that starts now.
StartWalk(t, list) ==
  /\ pc' = [pc EXCEPT ![t] = "find"]
  /\ ptr' = [ptr EXCEPT ![t] = IF list = <<>> THEN None ELSE list[1]]

FirstStep(f) == CASE f = "CT_init" -> "initlock" [] f = "CT_close" -> "closelock" [] OTHER -> "find"

\* CT_init(n) has returned, and nobody has closed the context.
Ready(n) ==
  /\ \E i \in 1 .. Len(contexts) : heap[contexts[i]].ctn = n
  /\ \A u \in Threads : ~(initialising[u] /\ ctn[u] = n)

\* An application thread makes a call.
Call(t, f, n, p) ==
  /\ pc[t] = "idle"
  /\ <<t, f, n>> \in app.uses /\ p \in app.ports
  /\ app.disciplined /\ f # "CT_init" => Ready(n)
  /\ made[t] < app.maxCalls /\ made' = [made EXCEPT ![t] = @ + 1]
  /\ call' = [call EXCEPT ![t] = f]
  /\ ctn' = [ctn EXCEPT ![t] = n]
  /\ port' = [port EXCEPT ![t] = p]
  /\ IF FirstStep(f) = "find" THEN StartWalk(t, contexts)
     ELSE pc' = [pc EXCEPT ![t] = FirstStep(f)] /\ ptr' = [ptr EXCEPT ![t] = None]
  /\ UNCHANGED <<contexts, heap, initCount, statusMutex, initialising>>

-----------------------------------------------------------------------------
(* CT_init and rsct_init_name, under ctapi_status_mutex.                   *)

InUseNumber(n, p) == \E i \in 1 .. Len(contexts) : heap[contexts[i]].ctn = n
InUse(n, p) ==
  \E i \in 1 .. Len(contexts) :
    heap[contexts[i]].ctn = n \/ (p # 0 /\ heap[contexts[i]].port = p)

\* fini()
Fini == IF initCount > 0 THEN initCount - 1 ELSE initCount

\* init() or the USB scan fails, the number or the port is in use, or there
\* is no such device: fini() takes back what init() counted.
InitRefused(t) ==
  /\ pc[t] = "initlock" /\ statusMutex = None
  /\ Return(t)
  /\ UNCHANGED <<contexts, heap, initCount, statusMutex>>

InitStart(t) ==
  /\ pc[t] = "initlock" /\ statusMutex = None
  /\ ~InUse(ctn[t], port[t])
  /\ statusMutex' = t
  /\ initCount' = initCount + 1
  /\ Goto(t, "open")
  /\ UNCHANGED <<contexts, heap>>

OpenFailsCounted(t) ==
  /\ pc[t] = "open"
  /\ statusMutex' = None
  /\ Return(t)
  /\ UNCHANGED <<contexts, heap, initCount>>

\* CReader::Connect, cjecom_CT_init* or ctapiInit fails.
OpenFails(t) ==
  /\ pc[t] = "open"
  /\ initCount' = Fini
  /\ statusMutex' = None
  /\ Return(t)
  /\ UNCHANGED <<contexts, heap>>

\* It succeeds: addContext, then _init_common2 asks for the reader information.
OpenSucceeds(t) ==
  /\ pc[t] = "open"
  /\ \E c \in Ctxs :
       /\ ~heap[c].alive
       /\ heap' = [heap EXCEPT ![c] = NewContext(ctn[t], port[t])]
       /\ contexts' = Append(contexts, c)
  /\ StartWalk(t, contexts')
  /\ initialising' = [initialising EXCEPT ![t] = TRUE]
  /\ UNCHANGED <<initCount, statusMutex, call, ctn, port, made>>

-----------------------------------------------------------------------------
(* CT_data, rsct_setkeycb and rsct_ifd_ioctl; no mutex protects the walk.  *)

\* The result of CT_data: to the application, or to _init_common2, which
\* returns on success and calls CT_close on failure.
DataReturns(t, ok) ==
  IF ~initialising[t] THEN Return(t) /\ UNCHANGED statusMutex
  ELSE IF ok THEN Return(t) /\ statusMutex' = None
  ELSE Goto(t, "closelock") /\ UNCHANGED statusMutex

\* What is done to a context that was found.
Found(t) == IF initialising[t] \/ call[t] = "CT_data" THEN "lock" ELSE "use"

\* One element of the walk.  A CT_data call whose command or response buffer is
\* too short returns as soon as its context is found.
FindNext(t) ==
  /\ pc[t] = "find"
  /\ \/ /\ ptr[t] = None
        /\ DataReturns(t, FALSE)
     \/ \E i \in 1 .. Len(contexts) :
          /\ contexts[i] = ptr[t]
          /\ \/ heap[ptr[t]].ctn = ctn[t] /\ Goto(t, Found(t))
             \/ /\ heap[ptr[t]].ctn = ctn[t]
                /\ call[t] = "CT_data"
                /\ Return(t)
             \/ /\ heap[ptr[t]].ctn # ctn[t]
                /\ ptr' = [ptr EXCEPT ![t] = IF i < Len(contexts) THEN contexts[i + 1] ELSE None]
                /\ UNCHANGED <<pc, call, ctn, port, initialising, made>>
          /\ UNCHANGED statusMutex
  /\ UNCHANGED <<contexts, heap, initCount>>

DataLockIgnored(t) ==
  /\ pc[t] = "lock" /\ heap[ptr[t]].alive
  /\ heap' = [heap EXCEPT ![ptr[t]].mutex = t]
  /\ Goto(t, "transfer")
  /\ UNCHANGED <<contexts, initCount, statusMutex>>

\* ctx->lock().  (The dialog shown for a PIN command lasts as long as the lock.)
DataLock(t) ==
  /\ pc[t] = "lock"
  /\ heap[ptr[t]].alive /\ heap[ptr[t]].mutex = None
  /\ heap' = [heap EXCEPT ![ptr[t]].mutex = t]
  /\ Goto(t, "transfer")
  /\ UNCHANGED <<contexts, initCount, statusMutex>>

TransferLeavesLocked(t, result) ==
  /\ pc[t] = "transfer" /\ heap[ptr[t]].alive
  /\ heap[ptr[t]].device = "lost" => result = "lost"
  /\ initialising[t] /\ ~app.infoFails => result = "ok"
  /\ heap' = [heap EXCEPT ![ptr[t]].device = IF result = "lost" THEN "lost" ELSE @,
                          ![ptr[t]].mutex = IF result = "lost" THEN t ELSE None]
  /\ DataReturns(t, result = "ok")
  /\ UNCHANGED <<contexts, initCount>>

\* CT_internal or CT_special, the end of the dialog, ctx->unlock().  Any result
\* but 0, -1 and -11 destroys the device object.
Transfer(t, result) ==
  /\ pc[t] = "transfer" /\ heap[ptr[t]].alive
  /\ heap[ptr[t]].device = "lost" => result = "lost"
  /\ initialising[t] /\ ~app.infoFails => result = "ok"
  /\ heap' = [heap EXCEPT ![ptr[t]].device = IF result = "lost" THEN "lost" ELSE @,
                          ![ptr[t]].mutex = None]
  /\ DataReturns(t, result = "ok")
  /\ UNCHANGED <<contexts, initCount>>

\* rsct_setkeycb writes the context; rsct_ifd_ioctl, unless the device is
\* lost, goes on to talk to the reader.  Neither takes the context's mutex.
UseContext(t) ==
  /\ pc[t] = "use" /\ heap[ptr[t]].alive
  /\ IF call[t] = "rsct_ifd_ioctl" /\ heap[ptr[t]].device = "ready"
     THEN Goto(t, "ioctl") ELSE Return(t)
  /\ UNCHANGED <<contexts, heap, initCount, statusMutex>>

IfdIoControl(t) ==
  /\ pc[t] = "ioctl" /\ heap[ptr[t]].device = "ready"
  /\ Return(t)
  /\ UNCHANGED <<contexts, heap, initCount, statusMutex>>

-----------------------------------------------------------------------------
(* CT_close: nt_close under ctapi_status_mutex.                            *)

Remove(s, i) == SubSeq(s, 1, i - 1) \o SubSeq(s, i + 1, Len(s))

CloseStart(t) ==
  /\ pc[t] = "closelock" /\ statusMutex = None
  /\ \/ /\ \A i \in 1 .. Len(contexts) : heap[contexts[i]].ctn # ctn[t]
        /\ Return(t)
        /\ UNCHANGED statusMutex
     \/ \E i \in 1 .. Len(contexts) :
          /\ heap[contexts[i]].ctn = ctn[t]
          /\ pc' = [pc EXCEPT ![t] = "closing"]
          /\ ptr' = [ptr EXCEPT ![t] = contexts[i]]
          /\ statusMutex' = t
          /\ UNCHANGED <<call, ctn, port, initialising, made>>
  /\ UNCHANGED <<contexts, heap, initCount>>

\* The device is closed; remove, delete, fini(), unlock.
CloseEnd(t) ==
  /\ pc[t] = "closing"
  /\ \E i \in 1 .. Len(contexts) :
       contexts[i] = ptr[t] /\ contexts' = Remove(contexts, i)
  /\ heap' = [heap EXCEPT ![ptr[t]] = Freed]
  /\ initCount' = Fini
  /\ statusMutex' = None
  /\ Return(t)

Step(t) ==
  \/ InitRefused(t) \/ InitStart(t) \/ OpenFails(t) \/ OpenSucceeds(t)
  \/ FindNext(t) \/ DataLock(t) \/ UseContext(t) \/ IfdIoControl(t)
  \/ \E result \in {"ok", "failed", "lost"} : Transfer(t, result)
  \/ CloseStart(t) \/ CloseEnd(t)

Next ==
  /\ \E t \in Threads :
       \/ Step(t)
       \/ \E f \in {"CT_init", "CT_data", "CT_close", "rsct_setkeycb", "rsct_ifd_ioctl"},
             n \in Ctns, p \in Ports : (f # "CT_init" => p = 0) /\ Call(t, f, n, p)
  /\ UNCHANGED app

Spec == Init /\ [][Next]_vars

\* Devices answer, and every thread that can go on does.
FairSpec == Spec /\ \A t \in Threads : WF_vars(Step(t) /\ UNCHANGED app)

-----------------------------------------------------------------------------
\* No two open contexts have the same number or the same port, although the
\* slow opening of a device lies between the check and addContext.
ContextsUnique ==
  \A i, j \in 1 .. Len(contexts) : i # j =>
    /\ contexts[i] # contexts[j]
    /\ heap[contexts[i]].ctn # heap[contexts[j]].ctn
    /\ heap[contexts[i]].port # 0 => heap[contexts[i]].port # heap[contexts[j]].port

\* _ctapi_init_count is the number of open contexts and of the device being
\* opened, if any: the last CT_close, and no other call, shuts down the USB
\* and configuration layers.
InitCounted ==
  initCount = Len(contexts) +
    (IF \E t \in Threads : pc[t] = "open" THEN 1 ELSE 0)

\* A walk stands on an element of the list, and a context that was found is
\* still the open context of that number, its device not destroyed, while the
\* call uses it.
NoDangling ==
  \A t \in Threads :
    /\ pc[t] = "find" => ptr[t] = None \/ Listed(ptr[t])
    /\ pc[t] \in {"lock", "transfer", "use", "ioctl"} => Listed(ptr[t]) /\ heap[ptr[t]].ctn = ctn[t]
    /\ pc[t] = "ioctl" => heap[ptr[t]].device = "ready"

\* Some thread closes readers, which other threads may then be using.
Closes == \E use \in app.uses : use[2] = "CT_close"

\* As long as no reader is closed, one command at a time goes to a reader through CT_data.
DataExclusive ==
  ~Closes =>
    \A t, u \in Threads :
      t # u /\ pc[t] = "transfer" /\ pc[u] = "transfer" => ptr[t] # ptr[u]

\* Every call comes back to the application, if no reader is closed while it is used and
\* every reader that opens answers the information query.
CallsReturn ==
  \A t \in Threads :
    pc[t] # "idle" ~> pc[t] = "idle" \/ app.infoFails \/ Closes
=============================================================================
