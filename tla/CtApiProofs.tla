----------------------------- MODULE CtApiProofs -----------------------------
(***************************************************************************)
(* Proofs about the CT-API front end of module CtApi, for any number of    *)
(* threads, contexts, ports and calls, and for every application: careful  *)
(* or not, with readers that fail or not.                                  *)
(***************************************************************************)
EXTENDS CtApi, SequenceTheorems, TLAPS

\* ctapi_status_mutex protects opening, _init_common2 and closing.
MutexHeld ==
  \A t \in Threads :
    pc[t] \in {"open", "closing"} \/ initialising[t] => statusMutex = t

\* Only CT_init opens, and _init_common2 runs inside it, on its way through
\* CT_data; a thread that has found a context has a pointer; only CT_close
\* closes (the close of a failed _init_common2 waits for its own mutex).
CallsInPlace ==
  \A t \in Threads :
    /\ pc[t] \in {"initlock", "open"} => call[t] = "CT_init"
    /\ initialising[t] => /\ call[t] = "CT_init"
                          /\ pc[t] \in {"find", "lock", "transfer", "closelock"}
    /\ pc[t] \in {"lock", "transfer", "use", "ioctl", "closing"} => ptr[t] \in Ctxs
    /\ pc[t] \in {"closelock", "closing"} /\ ~initialising[t] => Closes

\* The list holds exactly the contexts that are not deleted.
ListedAlive == \A c \in Ctxs : heap[c].alive <=> Listed(c)

\* What CT_init checked before it opened the device still holds when it adds
\* the context.
CheckHolds == \A t \in Threads : pc[t] = "open" => ~InUse(ctn[t], port[t])

\* As long as nobody closes, a thread that talks to a reader holds its mutex.
TransferHolds ==
  ~Closes => \A t \in Threads :
    pc[t] = "transfer" => heap[ptr[t]].alive /\ heap[ptr[t]].mutex = t

IInv ==
  /\ TypeOK /\ MutexHeld /\ CallsInPlace /\ ListedAlive /\ CheckHolds /\ TransferHolds
  /\ ContextsUnique /\ InitCounted

Calls == {"CT_init", "CT_data", "CT_close", "rsct_setkeycb", "rsct_ifd_ioctl"}

\* One thread's call: the action and its arguments.
CallStep(t) ==
  \E f \in Calls, n \in Ctns, p \in Ports : (f # "CT_init" => p = 0) /\ Call(t, f, n, p)

\* Removing element i of a list closes the gap and leaves the rest in order.
LEMMA RemoveElement ==
  ASSUME NEW S, NEW s \in Seq(S), NEW i \in 1 .. Len(s)
  PROVE  /\ Remove(s, i) \in Seq(S)
         /\ Len(Remove(s, i)) = Len(s) - 1
         /\ \A j \in 1 .. Len(s) - 1 :
              Remove(s, i)[j] = IF j < i THEN s[j] ELSE s[j + 1]
<1> DEFINE a == SubSeq(s, 1, i - 1)
           b == SubSeq(s, i + 1, Len(s))
<1>1. /\ a \in Seq(S) /\ Len(a) = i - 1
      /\ \A j \in 1 .. i - 1 : a[j] = s[j]
  OBVIOUS
<1>2. /\ b \in Seq(S) /\ Len(b) = Len(s) - i
      /\ \A j \in 1 .. Len(s) - i : b[j] = s[i + j]
  OBVIOUS
<1>3. Remove(s, i) = a \o b
  BY DEF Remove
<1> HIDE DEF a, b
<1>4. /\ a \o b \in Seq(S) /\ Len(a \o b) = Len(a) + Len(b)
      /\ \A j \in 1 .. Len(a) + Len(b) :
           (a \o b)[j] = IF j <= Len(a) THEN a[j] ELSE b[j - Len(a)]
  BY <1>1, <1>2, ConcatProperties
<1> DEFINE c == a \o b
<1>5. /\ c \in Seq(S) /\ Len(c) = Len(s) - 1
      /\ \A j \in 1 .. Len(s) - 1 : c[j] = IF j < i THEN a[j] ELSE b[j - (i - 1)]
  BY <1>1, <1>2, <1>4
<1> HIDE DEF c
<1>6. ASSUME NEW j \in 1 .. Len(s) - 1
      PROVE  c[j] = IF j < i THEN s[j] ELSE s[j + 1]
  <2>1. CASE j < i
    BY <1>1, <1>5, <2>1
  <2>2. CASE ~(j < i)
    <3>1. j - (i - 1) \in 1 .. Len(s) - i /\ i + (j - (i - 1)) = j + 1
      BY <2>2
    <3>2. QED
      BY <1>2, <1>5, <2>2, <3>1
  <2>3. QED
    BY <2>1, <2>2
<1>7. QED
  BY <1>3, <1>5, <1>6 DEF c

Contexts == [alive : BOOLEAN, ctn : Ctns \cup {None}, port : Ports \cup {None},
             device : {"ready", "lost", "none"}, mutex : Threads \cup {None}]

\* The types of what a thread has for itself, and of what all threads share.
LocalOK ==
  /\ pc \in [Threads -> {"idle", "initlock", "open", "find", "lock", "transfer",
                         "use", "ioctl", "closelock", "closing"}]
  /\ call \in [Threads -> Calls \cup {None}]
  /\ ctn \in [Threads -> Ctns \cup {None}]
  /\ port \in [Threads -> Ports \cup {None}]
  /\ ptr \in [Threads -> Ctxs \cup {None}]
  /\ initialising \in [Threads -> BOOLEAN]
  /\ made \in [Threads -> Nat]

SharedOK ==
  /\ app \in Applications
  /\ contexts \in Seq(Ctxs)
  /\ heap \in [Ctxs -> Contexts]
  /\ initCount \in Nat
  /\ statusMutex \in Threads \cup {None}

LEMMA TypeParts == TypeOK <=> LocalOK /\ SharedOK
BY DEF TypeOK, LocalOK, SharedOK, Calls, Contexts

LEMMA TypePartsNext == LocalOK' /\ SharedOK' => TypeOK'
BY DEF TypeOK, LocalOK, SharedOK, Calls, Contexts

\* Where a thread goes next, it keeps its types.
LEMMA ReturnOK == ASSUME LocalOK, NEW t \in Threads, Return(t) PROVE LocalOK'
BY DEF LocalOK, Return

LEMMA GotoOK ==
  ASSUME LocalOK, NEW t \in Threads,
         NEW l \in {"open", "lock", "transfer", "use", "ioctl", "closelock"}, Goto(t, l)
  PROVE  LocalOK'
BY DEF LocalOK, Goto

LEMMA DataReturnsOK ==
  ASSUME LocalOK, SharedOK, NEW t \in Threads, NEW ok \in BOOLEAN, DataReturns(t, ok)
  PROVE  LocalOK' /\ statusMutex' \in Threads \cup {None}
<1>1. CASE Return(t) /\ statusMutex' \in {statusMutex, None}
  BY <1>1, ReturnOK DEF SharedOK
<1>2. CASE Goto(t, "closelock") /\ UNCHANGED statusMutex
  BY <1>2, GotoOK DEF SharedOK
<1>3. QED
  BY <1>1, <1>2 DEF DataReturns

\* The variables keep their types.
LEMMA TypeStep == TypeOK /\ CallsInPlace /\ [Next]_vars => TypeOK'
<1> SUFFICES ASSUME LocalOK, SharedOK, CallsInPlace, [Next]_vars PROVE LocalOK' /\ SharedOK'
  BY TypeParts, TypePartsNext
<1>1. ASSUME NEW t \in Threads, CallStep(t), UNCHANGED app PROVE LocalOK' /\ SharedOK'
  <2>1. PICK f \in Calls, n \in Ctns, p \in Ports : Call(t, f, n, p)
    BY <1>1 DEF CallStep
  <2>2. FirstStep(f) \in {"initlock", "closelock", "find"}
    BY DEF FirstStep
  <2>3. contexts # <<>> => contexts[1] \in Ctxs
    BY DEF SharedOK
  <2>4. LocalOK'
    <3>1. /\ call' = [call EXCEPT ![t] = f] /\ ctn' = [ctn EXCEPT ![t] = n]
          /\ port' = [port EXCEPT ![t] = p] /\ made' = [made EXCEPT ![t] = @ + 1]
          /\ initialising' = initialising
      BY <2>1 DEF Call
    <3>2. PICK l \in {"initlock", "closelock", "find"}, c \in Ctxs \cup {None} :
            pc' = [pc EXCEPT ![t] = l] /\ ptr' = [ptr EXCEPT ![t] = c]
      BY <2>1, <2>2, <2>3 DEF Call, StartWalk
    <3>3. QED
      BY <3>1, <3>2 DEF LocalOK
  <2>5. QED
    BY <1>1, <2>1, <2>4 DEF Call, SharedOK
<1>2. ASSUME NEW t \in Threads, InitRefused(t), UNCHANGED app PROVE LocalOK' /\ SharedOK'
  BY <1>2, ReturnOK DEF InitRefused, SharedOK
<1>3. ASSUME NEW t \in Threads, InitStart(t), UNCHANGED app PROVE LocalOK' /\ SharedOK'
  BY <1>3, GotoOK DEF InitStart, SharedOK
<1>4. ASSUME NEW t \in Threads, OpenFails(t), UNCHANGED app PROVE LocalOK' /\ SharedOK'
  BY <1>4, ReturnOK DEF OpenFails, Fini, SharedOK
<1>5. ASSUME NEW t \in Threads, OpenSucceeds(t), UNCHANGED app PROVE LocalOK' /\ SharedOK'
  <2>1. PICK c \in Ctxs : heap' = [heap EXCEPT ![c] = NewContext(ctn[t], port[t])]
                         /\ contexts' = Append(contexts, c)
    BY <1>5 DEF OpenSucceeds
  <2>2. NewContext(ctn[t], port[t]) \in Contexts
    BY DEF NewContext, Contexts, LocalOK
  <2>3. SharedOK'
    BY <1>5, <2>1, <2>2 DEF OpenSucceeds, SharedOK
  <2>4. contexts'[1] \in Ctxs
    BY <2>1 DEF SharedOK
  <2>5. LocalOK'
    BY <1>5, <2>4 DEF OpenSucceeds, StartWalk, LocalOK
  <2>6. QED
    BY <2>3, <2>5
<1>6. ASSUME NEW t \in Threads, FindNext(t), UNCHANGED app PROVE LocalOK' /\ SharedOK'
  <2>1. UNCHANGED <<app, contexts, heap, initCount>>
    BY <1>6 DEF FindNext
  <2>2. CASE DataReturns(t, FALSE)
    BY <2>1, <2>2, DataReturnsOK DEF SharedOK
  <2>3. CASE UNCHANGED statusMutex /\ (Goto(t, Found(t)) \/ Return(t))
    <3>1. Found(t) \in {"lock", "use"}
      BY DEF Found
    <3>2. QED
      BY <2>1, <2>3, <3>1, ReturnOK, GotoOK DEF SharedOK
  <2>4. ASSUME NEW i \in 1 .. Len(contexts), UNCHANGED statusMutex,
               ptr' = [ptr EXCEPT ![t] = IF i < Len(contexts) THEN contexts[i + 1] ELSE None],
               UNCHANGED <<pc, call, ctn, port, initialising, made>>
        PROVE  LocalOK' /\ SharedOK'
    <3>1. i < Len(contexts) => contexts[i + 1] \in Ctxs
      BY DEF SharedOK
    <3>2. QED
      BY <2>1, <2>4, <3>1 DEF LocalOK, SharedOK
  <2>5. QED
    BY <1>6, <2>2, <2>3, <2>4 DEF FindNext
<1>7. ASSUME NEW t \in Threads, DataLock(t), UNCHANGED app PROVE LocalOK' /\ SharedOK'
  <2>1. LocalOK'
    BY <1>7, GotoOK DEF DataLock
  <2>2. heap' \in [Ctxs -> Contexts]
    BY <1>7, SMTT(30) DEF DataLock, SharedOK, Contexts, CallsInPlace
  <2>3. QED
    BY <1>7, <2>1, <2>2 DEF DataLock, SharedOK
<1>8. ASSUME NEW t \in Threads, UseContext(t) \/ IfdIoControl(t), UNCHANGED app
      PROVE  LocalOK' /\ SharedOK'
  BY <1>8, ReturnOK, GotoOK DEF UseContext, IfdIoControl, SharedOK
<1>9. ASSUME NEW t \in Threads, NEW r \in {"ok", "failed", "lost"}, Transfer(t, r), UNCHANGED app
      PROVE  LocalOK' /\ SharedOK'
  <2>1. LocalOK' /\ statusMutex' \in Threads \cup {None}
    BY <1>9, DataReturnsOK DEF Transfer
  <2>2. heap' \in [Ctxs -> Contexts]
    BY <1>9 DEF Transfer, SharedOK, Contexts, CallsInPlace
  <2>3. QED
    BY <1>9, <2>1, <2>2 DEF Transfer, SharedOK
<1>10. ASSUME NEW t \in Threads, CloseStart(t), UNCHANGED app PROVE LocalOK' /\ SharedOK'
  <2>1. UNCHANGED <<app, contexts, heap, initCount>>
    BY <1>10 DEF CloseStart
  <2>2. CASE Return(t) /\ UNCHANGED statusMutex
    BY <2>1, <2>2, ReturnOK DEF SharedOK
  <2>3. ASSUME NEW i \in 1 .. Len(contexts), pc' = [pc EXCEPT ![t] = "closing"],
               ptr' = [ptr EXCEPT ![t] = contexts[i]], statusMutex' = t,
               UNCHANGED <<call, ctn, port, initialising, made>>
        PROVE  LocalOK' /\ SharedOK'
    <3>1. contexts[i] \in Ctxs
      BY DEF SharedOK
    <3>2. QED
      BY <2>1, <2>3, <3>1 DEF LocalOK, SharedOK
  <2>4. QED
    BY <1>10, <2>2, <2>3 DEF CloseStart
<1>11. ASSUME NEW t \in Threads, CloseEnd(t), UNCHANGED app PROVE LocalOK' /\ SharedOK'
  <2>1. LocalOK'
    BY <1>11, ReturnOK DEF CloseEnd
  <2>2. Freed \in Contexts
    BY DEF Freed, Contexts
  <2>3. contexts' \in Seq(Ctxs)
    BY <1>11, RemoveElement DEF CloseEnd, SharedOK
  <2>4. QED
    BY <1>11, <2>1, <2>2, <2>3 DEF CloseEnd, Fini, SharedOK
<1>12. CASE UNCHANGED vars
  BY <1>12 DEF vars, local, LocalOK, SharedOK
<1>13. QED
  BY <1>1, <1>2, <1>3, <1>4, <1>5, <1>6, <1>7, <1>8, <1>9, <1>10, <1>11, <1>12
     DEF Next, Step, CallStep, Calls

-----------------------------------------------------------------------------
\* A step of thread t leaves the other threads where they are.
Others(t) ==
  \A u \in Threads \ {t} :
    /\ pc'[u] = pc[u] /\ call'[u] = call[u] /\ ctn'[u] = ctn[u] /\ port'[u] = port[u]
    /\ ptr'[u] = ptr[u] /\ initialising'[u] = initialising[u]

\* Thread t is at label l, with the rest of its locals as before.
WentTo(t, l) ==
  /\ pc'[t] = l /\ call'[t] = call[t] /\ ctn'[t] = ctn[t] /\ port'[t] = port[t]
  /\ ptr'[t] = ptr[t] /\ initialising'[t] = initialising[t]

Returned(t) == pc'[t] = "idle" /\ ~initialising'[t]

LEMMA ReturnEffect == ASSUME LocalOK, NEW t \in Threads, Return(t) PROVE Others(t) /\ Returned(t)
BY DEF LocalOK, Return, Others, Returned

LEMMA GotoEffect ==
  ASSUME LocalOK, NEW t \in Threads, NEW l, Goto(t, l) PROVE Others(t) /\ WentTo(t, l)
BY DEF LocalOK, Goto, Others, WentTo

\* The ways a call of CT_data ends.
LEMMA DataReturnsEffect ==
  ASSUME LocalOK, NEW t \in Threads, NEW ok \in BOOLEAN, DataReturns(t, ok)
  PROVE  /\ Others(t)
         /\ \/ ~initialising[t] /\ Returned(t) /\ statusMutex' = statusMutex
            \/ initialising[t] /\ Returned(t) /\ statusMutex' = None
            \/ initialising[t] /\ WentTo(t, "closelock") /\ statusMutex' = statusMutex
<1>1. CASE ~initialising[t]
  BY <1>1, ReturnEffect DEF DataReturns
<1>2. CASE initialising[t] /\ ok
  BY <1>2, ReturnEffect DEF DataReturns
<1>3. CASE initialising[t] /\ ~ok
  BY <1>3, GotoEffect DEF DataReturns
<1>4. QED
  BY <1>1, <1>2, <1>3

Locked == MutexHeld /\ CallsInPlace

\* What keeps the mutex and the places of the calls right in a step of t.
LEMMA LockedStep ==
  ASSUME LocalOK, Locked, NEW t \in Threads, Others(t), UNCHANGED app,
         \A u \in Threads \ {t} : statusMutex = u => statusMutex' = u,
         pc'[t] \in {"open", "closing"} \/ initialising'[t] => statusMutex' = t,
         pc'[t] \in {"initlock", "open"} => call'[t] = "CT_init",
         initialising'[t] => /\ call'[t] = "CT_init"
                             /\ pc'[t] \in {"find", "lock", "transfer", "closelock"},
         pc'[t] \in {"lock", "transfer", "use", "ioctl", "closing"} => ptr'[t] \in Ctxs,
         pc'[t] \in {"closelock", "closing"} /\ ~initialising'[t] => Closes
  PROVE  Locked'
<1>1. Closes' = Closes
  BY DEF Closes
<1>2. MutexHeld'
  BY DEF Locked, MutexHeld, Others
<1>3. CallsInPlace'
  BY <1>1 DEF Locked, CallsInPlace, Others
<1>4. QED
  BY <1>2, <1>3 DEF Locked

LEMMA LockedNext == TypeOK /\ Locked /\ [Next]_vars => Locked'
<1> SUFFICES ASSUME LocalOK, SharedOK, Locked, [Next]_vars PROVE Locked'
  BY TypeParts
<1>0. None \notin Threads
  BY CtApiAssumption
<1>1. ASSUME NEW t \in Threads, CallStep(t), UNCHANGED app PROVE Locked'
  <2>1. PICK f \in Calls, n \in Ctns, p \in Ports : Call(t, f, n, p)
    BY <1>1 DEF CallStep
  <2>2. ~initialising[t]
    BY <2>1 DEF Call, Locked, CallsInPlace
  <2>3. /\ Others(t) /\ statusMutex' = statusMutex /\ ~initialising'[t]
        /\ pc'[t] \in {"initlock", "closelock", "find"}
        /\ pc'[t] = "closelock" => f = "CT_close"
        /\ pc'[t] = "initlock" => call'[t] = "CT_init"
    <3>1. PICK l \in {"initlock", "closelock", "find"} :
            /\ pc' = [pc EXCEPT ![t] = l] /\ (\E c : ptr' = [ptr EXCEPT ![t] = c])
            /\ l = "closelock" => f = "CT_close"
            /\ l = "initlock" => f = "CT_init"
      BY <2>1 DEF Call, StartWalk, FirstStep, Calls
    <3>2. QED
      BY <2>1, <2>2, <3>1 DEF Call, Others, LocalOK
  <2>4. f = "CT_close" => Closes
    <3>1. <<t, f, n>> \in app.uses
      BY <2>1 DEF Call
    <3>2. QED
      BY <3>1 DEF Closes
  <2>5. QED
    BY <1>1, <2>3, <2>4, LockedStep
<1>2. ASSUME NEW t \in Threads, InitRefused(t) \/ UseContext(t) \/ IfdIoControl(t), UNCHANGED app
      PROVE  Locked'
  <2>1. statusMutex' = statusMutex
    BY <1>2 DEF InitRefused, UseContext, IfdIoControl
  <2>2. CASE Return(t)
    BY <1>2, <2>1, <2>2, ReturnEffect, LockedStep DEF Returned
  <2>3. CASE Goto(t, "ioctl") /\ pc[t] = "use"
    <3>1. ptr[t] \in Ctxs /\ ~initialising[t]
      BY <2>3 DEF Locked, CallsInPlace
    <3>2. QED
      BY <1>2, <2>1, <2>3, <3>1, GotoEffect, LockedStep DEF WentTo
  <2>4. QED
    BY <1>2, <2>2, <2>3 DEF InitRefused, UseContext, IfdIoControl
<1>3. ASSUME NEW t \in Threads, InitStart(t), UNCHANGED app PROVE Locked'
  <2>1. Others(t) /\ WentTo(t, "open") /\ statusMutex = None /\ statusMutex' = t
    BY <1>3, GotoEffect DEF InitStart
  <2>2. ~initialising[t] /\ call[t] = "CT_init"
    BY <1>3 DEF InitStart, Locked, CallsInPlace
  <2>3. QED
    BY <1>0, <1>3, <2>1, <2>2, LockedStep DEF WentTo
<1>4. ASSUME NEW t \in Threads, OpenFails(t) \/ CloseEnd(t), UNCHANGED app PROVE Locked'
  <2>1. Others(t) /\ Returned(t)
    BY <1>4, ReturnEffect DEF OpenFails, CloseEnd
  <2>2. statusMutex = t
    BY <1>4 DEF OpenFails, CloseEnd, Locked, MutexHeld
  <2>3. QED
    BY <1>4, <2>1, <2>2, LockedStep DEF Returned
<1>5. ASSUME NEW t \in Threads, OpenSucceeds(t), UNCHANGED app PROVE Locked'
  <2>1. Others(t) /\ pc'[t] = "find" /\ initialising'[t] /\ statusMutex' = statusMutex /\ call'[t] = call[t]
    BY <1>5 DEF OpenSucceeds, StartWalk, Others, LocalOK
  <2>2. statusMutex = t /\ call[t] = "CT_init"
    BY <1>5 DEF OpenSucceeds, Locked, MutexHeld, CallsInPlace
  <2>3. QED
    BY <1>5, <2>1, <2>2, LockedStep
<1>6. ASSUME NEW t \in Threads, FindNext(t), UNCHANGED app PROVE Locked'
  <2>1. CASE DataReturns(t, FALSE)
    <3>1. initialising[t] => statusMutex = t /\ call[t] = "CT_init"
      BY DEF Locked, MutexHeld, CallsInPlace
    <3>2. QED
      BY <1>6, <2>1, <3>1, DataReturnsEffect, LockedStep DEF Returned, WentTo
  <2>2. ASSUME NEW i \in 1 .. Len(contexts), contexts[i] = ptr[t], UNCHANGED statusMutex,
               Goto(t, Found(t))
        PROVE  Locked'
    <3>1. ptr[t] \in Ctxs
      BY <2>2 DEF SharedOK
    <3>2. /\ initialising[t] => statusMutex = t /\ call[t] = "CT_init"
          /\ Found(t) \in {"lock", "use"}
          /\ initialising[t] => Found(t) = "lock"
      BY DEF Locked, MutexHeld, CallsInPlace, Found
    <3>3. Others(t) /\ WentTo(t, Found(t))
      BY <2>2, GotoEffect
    <3>4. QED
      BY <1>6, <2>2, <3>1, <3>2, <3>3, LockedStep DEF WentTo
  <2>3. CASE Return(t) /\ UNCHANGED statusMutex
    BY <1>6, <2>3, ReturnEffect, LockedStep DEF Returned
  <2>4. ASSUME NEW x, ptr' = [ptr EXCEPT ![t] = x], pc[t] = "find", UNCHANGED statusMutex,
               UNCHANGED <<pc, call, ctn, port, initialising, made>>
        PROVE  Locked'
    <3>1. Others(t)
      BY <2>4 DEF Others, LocalOK
    <3>2. initialising[t] => statusMutex = t /\ call[t] = "CT_init"
      BY DEF Locked, MutexHeld, CallsInPlace
    <3>3. QED
      BY <1>6, <2>4, <3>1, <3>2, LockedStep
  <2>5. QED
    BY <1>6, <2>1, <2>2, <2>3, <2>4 DEF FindNext
<1>7. ASSUME NEW t \in Threads, DataLock(t), UNCHANGED app PROVE Locked'
  <2>1. Others(t) /\ WentTo(t, "transfer") /\ statusMutex' = statusMutex
    BY <1>7, GotoEffect DEF DataLock
  <2>2. /\ initialising[t] => statusMutex = t /\ call[t] = "CT_init"
        /\ ptr[t] \in Ctxs
    BY <1>7 DEF DataLock, Locked, MutexHeld, CallsInPlace
  <2>3. QED
    BY <1>7, <2>1, <2>2, LockedStep DEF WentTo
<1>8. ASSUME NEW t \in Threads, NEW r \in {"ok", "failed", "lost"}, Transfer(t, r), UNCHANGED app
      PROVE  Locked'
  <2>1. initialising[t] => statusMutex = t /\ call[t] = "CT_init"
    BY DEF Locked, MutexHeld, CallsInPlace
  <2>2. DataReturns(t, r = "ok")
    BY <1>8 DEF Transfer
  <2>3. QED
    BY <1>8, <2>1, <2>2, DataReturnsEffect, LockedStep DEF Returned, WentTo
<1>9. ASSUME NEW t \in Threads, CloseStart(t), UNCHANGED app PROVE Locked'
  <2>1. CASE Return(t) /\ UNCHANGED statusMutex
    BY <1>9, <2>1, ReturnEffect, LockedStep DEF Returned
  <2>2. ASSUME NEW i \in 1 .. Len(contexts), pc' = [pc EXCEPT ![t] = "closing"],
               ptr' = [ptr EXCEPT ![t] = contexts[i]], statusMutex' = t,
               UNCHANGED <<call, ctn, port, initialising, made>>
        PROVE  Locked'
    <3>1. contexts[i] \in Ctxs
      BY DEF SharedOK
    <3>2. Others(t) /\ pc'[t] = "closing" /\ ptr'[t] \in Ctxs /\ initialising'[t] = initialising[t]
      BY <2>2, <3>1 DEF Others, LocalOK
    <3>3. statusMutex = None /\ ~initialising[t] /\ Closes
      BY <1>0, <1>9 DEF CloseStart, Locked, MutexHeld, CallsInPlace
    <3>4. QED
      BY <1>0, <1>9, <2>2, <3>2, <3>3, LockedStep
  <2>3. QED
    BY <1>9, <2>1, <2>2 DEF CloseStart
<1>10. CASE UNCHANGED vars
  BY <1>10 DEF vars, local, Locked, MutexHeld, CallsInPlace, Closes
<1>11. QED
  BY <1>1, <1>2, <1>3, <1>4, <1>5, <1>6, <1>7, <1>8, <1>9, <1>10
     DEF Next, Step, CallStep, Calls

-----------------------------------------------------------------------------
\* The list of contexts and the count.
Counted == ListedAlive /\ CheckHolds /\ ContextsUnique /\ InitCounted

\* A step that neither adds nor removes a context: at most devices and mutexes
\* of contexts change.
SameList ==
  /\ contexts' = contexts
  /\ \A c \in Ctxs : /\ heap'[c].alive = heap[c].alive /\ heap'[c].ctn = heap[c].ctn
                      /\ heap'[c].port = heap[c].port

Opening == \E t \in Threads : pc[t] = "open"

\* ... keeps it all, if it begins or ends no opening of a device.
LEMMA SameListStep ==
  ASSUME LocalOK, SharedOK, Counted, SameList, initCount' = initCount,
         NEW t \in Threads, Others(t), pc[t] # "open", pc'[t] # "open"
  PROVE  Counted'
<1>1. \A i \in 1 .. Len(contexts) : contexts[i] \in Ctxs
  BY DEF SharedOK
<1>2. ListedAlive'
  BY DEF Counted, ListedAlive, Listed, SameList
<1>3. ContextsUnique'
  BY <1>1 DEF Counted, ContextsUnique, SameList
<1>4. CheckHolds'
  <2>1. SUFFICES ASSUME NEW u \in Threads, pc'[u] = "open" PROVE ~InUse(ctn[u], port[u])'
    BY DEF CheckHolds
  <2>2. u # t /\ pc[u] = "open" /\ ctn'[u] = ctn[u] /\ port'[u] = port[u]
    BY <2>1 DEF Others
  <2>3. ~InUse(ctn[u], port[u])
    BY <2>2 DEF Counted, CheckHolds
  <2>4. QED
    BY <1>1, <2>2, <2>3 DEF InUse, SameList
<1>5. Opening' = Opening
  BY DEF Opening, Others
<1>6. InitCounted'
  BY <1>5 DEF Counted, InitCounted, Opening, SameList
<1>7. QED
  BY <1>2, <1>3, <1>4, <1>6 DEF Counted

LEMMA CountedNext == TypeOK /\ Locked /\ Counted /\ [Next]_vars => Counted'
<1> SUFFICES ASSUME LocalOK, SharedOK, Locked, Counted, [Next]_vars PROVE Counted'
  BY TypeParts
<1>0. None \notin Threads
  BY CtApiAssumption
<1>1. ASSUME NEW t \in Threads, CallStep(t), UNCHANGED app PROVE Counted'
  <2>1. PICK f \in Calls, n \in Ctns, p \in Ports : Call(t, f, n, p)
    BY <1>1 DEF CallStep
  <2>2. Others(t) /\ pc[t] # "open" /\ pc'[t] # "open" /\ UNCHANGED <<contexts, heap, initCount>>
    <3>1. PICK l \in {"initlock", "closelock", "find"} :
            pc' = [pc EXCEPT ![t] = l] /\ (\E c : ptr' = [ptr EXCEPT ![t] = c])
      BY <2>1 DEF Call, StartWalk, FirstStep, Calls
    <3>2. QED
      BY <2>1, <3>1 DEF Call, Others, LocalOK
  <2>3. QED
    BY <2>2, SameListStep DEF SameList
<1>2. ASSUME NEW t \in Threads, InitRefused(t) \/ UseContext(t) \/ IfdIoControl(t)
      PROVE  Counted'
  <2>1. Others(t) /\ pc[t] # "open" /\ pc'[t] # "open" /\ UNCHANGED <<contexts, heap, initCount>>
    BY <1>2, ReturnEffect, GotoEffect
       DEF InitRefused, UseContext, IfdIoControl, Returned, WentTo
  <2>2. QED
    BY <2>1, SameListStep DEF SameList
<1>3. ASSUME NEW t \in Threads, InitStart(t) PROVE Counted'
  <2>1. Others(t) /\ WentTo(t, "open") /\ UNCHANGED <<contexts, heap>> /\ initCount' = initCount + 1
    BY <1>3, GotoEffect DEF InitStart
  <2>2. \A u \in Threads : pc[u] # "open"
    BY <1>0, <1>3 DEF InitStart, Locked, MutexHeld
  <2>3. CheckHolds'
    <3>1. ~InUse(ctn'[t], port'[t])
      BY <1>3, <2>1 DEF InitStart, WentTo
    <3>2. \A u \in Threads : pc'[u] = "open" => u = t
      BY <2>1, <2>2 DEF Others
    <3>3. QED
      BY <2>1, <3>1, <3>2 DEF CheckHolds, InUse
  <2>4. InitCounted'
    <3>1. initCount = Len(contexts) /\ Opening'
      BY <2>1, <2>2 DEF Counted, InitCounted, Opening, WentTo, SharedOK
    <3>2. QED
      BY <2>1, <3>1 DEF InitCounted, Opening
  <2>5. ListedAlive' /\ ContextsUnique'
    BY <2>1 DEF Counted, ListedAlive, Listed, ContextsUnique
  <2>6. QED
    BY <2>3, <2>4, <2>5 DEF Counted
<1>4. ASSUME NEW t \in Threads, OpenFails(t) PROVE Counted'
  <2>1. Others(t) /\ Returned(t) /\ UNCHANGED <<contexts, heap>>
    BY <1>4, ReturnEffect DEF OpenFails
  <2>2. \A u \in Threads \ {t} : pc[u] # "open"
    BY <1>4 DEF OpenFails, Locked, MutexHeld
  <2>3. \A u \in Threads : pc'[u] # "open"
    BY <2>1, <2>2 DEF Others, Returned
  <2>4. InitCounted'
    <3>1. initCount = Len(contexts) + 1 /\ Len(contexts) \in Nat
      BY <1>4 DEF OpenFails, Counted, InitCounted, SharedOK
    <3>2. initCount' = Len(contexts)
      BY <1>4, <3>1 DEF OpenFails, Fini
    <3>3. QED
      BY <2>1, <2>3, <3>1, <3>2 DEF InitCounted
  <2>5. QED
    BY <2>1, <2>3, <2>4 DEF Counted, ListedAlive, Listed, ContextsUnique, CheckHolds
<1>5. ASSUME NEW t \in Threads, OpenSucceeds(t) PROVE Counted'
  <2>1. PICK c \in Ctxs : /\ ~heap[c].alive
                         /\ heap' = [heap EXCEPT ![c] = NewContext(ctn[t], port[t])]
                         /\ contexts' = Append(contexts, c)
    BY <1>5 DEF OpenSucceeds
  <2>2. /\ Len(contexts) \in Nat /\ Len(contexts') = Len(contexts) + 1
        /\ contexts'[Len(contexts) + 1] = c
        /\ \A i \in 1 .. Len(contexts) : contexts'[i] = contexts[i] /\ contexts[i] \in Ctxs
    BY <2>1 DEF SharedOK
  <2>3. /\ heap'[c].alive /\ heap'[c].ctn = ctn[t] /\ heap'[c].port = port[t]
        /\ \A d \in Ctxs \ {c} : heap'[d] = heap[d]
    BY <2>1 DEF SharedOK, NewContext
  <2>4. \A i \in 1 .. Len(contexts) : contexts[i] # c
    BY <2>1, <2>2 DEF Counted, ListedAlive, Listed
  <2>5. ListedAlive'
    BY <2>2, <2>3, <2>4 DEF Counted, ListedAlive, Listed
  <2>6. ContextsUnique'
    <3>1. \A i \in 1 .. Len(contexts) :
            /\ heap[contexts[i]].ctn # ctn[t]
            /\ port[t] # 0 => heap[contexts[i]].port # port[t]
      BY <1>5 DEF OpenSucceeds, Counted, CheckHolds, InUse
    <3>2. \A i \in 1 .. Len(contexts) : heap'[contexts'[i]] = heap[contexts[i]]
      BY <2>2, <2>3, <2>4
    <3>3. SUFFICES ASSUME NEW i \in 1 .. Len(contexts) + 1, NEW j \in 1 .. Len(contexts) + 1, i # j
                   PROVE  /\ contexts'[i] # contexts'[j]
                          /\ heap'[contexts'[i]].ctn # heap'[contexts'[j]].ctn
                          /\ heap'[contexts'[i]].port # 0
                               => heap'[contexts'[i]].port # heap'[contexts'[j]].port
      BY <2>2 DEF ContextsUnique
    <3>4. CASE i \in 1 .. Len(contexts) /\ j \in 1 .. Len(contexts)
      BY <2>2, <3>2, <3>3, <3>4 DEF Counted, ContextsUnique
    <3>5. CASE i = Len(contexts) + 1 /\ j \in 1 .. Len(contexts)
      BY <2>2, <2>3, <2>4, <3>1, <3>2, <3>5
    <3>6. CASE i \in 1 .. Len(contexts) /\ j = Len(contexts) + 1
      BY <2>2, <2>3, <2>4, <3>1, <3>2, <3>6
    <3>7. QED
      BY <2>2, <3>3, <3>4, <3>5, <3>6
  <2>7. \A u \in Threads : pc'[u] # "open"
    <3>1. \A u \in Threads \ {t} : pc[u] # "open"
      BY <1>5 DEF OpenSucceeds, Locked, MutexHeld
    <3>2. QED
      BY <1>5, <3>1 DEF OpenSucceeds, StartWalk, LocalOK
  <2>8. InitCounted'
    <3>1. initCount = Len(contexts) + 1 /\ initCount' = initCount
      BY <1>5 DEF OpenSucceeds, Counted, InitCounted
    <3>2. QED
      BY <2>2, <2>7, <3>1 DEF InitCounted
  <2>9. QED
    BY <2>5, <2>6, <2>7, <2>8 DEF Counted, CheckHolds
<1>6. ASSUME NEW t \in Threads, FindNext(t) PROVE Counted'
  <2>1. UNCHANGED <<contexts, heap, initCount>> /\ pc[t] = "find"
    BY <1>6 DEF FindNext
  <2>2. Others(t) /\ pc'[t] # "open"
    <3>1. CASE DataReturns(t, FALSE)
      BY <3>1, DataReturnsEffect DEF Returned, WentTo
    <3>2. CASE Return(t)
      BY <3>2, ReturnEffect DEF Returned
    <3>3. CASE Goto(t, Found(t))
      BY <3>3, GotoEffect DEF WentTo, Found
    <3>4. ASSUME NEW x, ptr' = [ptr EXCEPT ![t] = x],
                 UNCHANGED <<pc, call, ctn, port, initialising, made>>
          PROVE  Others(t) /\ pc'[t] # "open"
      BY <2>1, <3>4 DEF Others, LocalOK
    <3>5. QED
      BY <1>6, <3>1, <3>2, <3>3, <3>4 DEF FindNext
  <2>3. QED
    BY <2>1, <2>2, SameListStep DEF SameList
<1>7. ASSUME NEW t \in Threads, DataLock(t) PROVE Counted'
  <2>1. Others(t) /\ WentTo(t, "transfer") /\ UNCHANGED <<contexts, initCount>> /\ pc[t] = "lock"
    BY <1>7, GotoEffect DEF DataLock
  <2>2. SameList
    BY <1>7 DEF DataLock, SameList, SharedOK, Contexts
  <2>3. QED
    BY <2>1, <2>2, SameListStep DEF WentTo
<1>8. ASSUME NEW t \in Threads, NEW r \in {"ok", "failed", "lost"}, Transfer(t, r)
      PROVE  Counted'
  <2>1. DataReturns(t, r = "ok") /\ UNCHANGED <<contexts, initCount>> /\ pc[t] = "transfer"
    BY <1>8 DEF Transfer
  <2>2. Others(t) /\ pc'[t] # "open"
    BY <2>1, DataReturnsEffect DEF Returned, WentTo
  <2>3. SameList
    BY <1>8 DEF Transfer, SameList, SharedOK, Contexts
  <2>4. QED
    BY <2>1, <2>2, <2>3, SameListStep
<1>9. ASSUME NEW t \in Threads, CloseStart(t) PROVE Counted'
  <2>1. UNCHANGED <<contexts, heap, initCount>> /\ pc[t] = "closelock"
    BY <1>9 DEF CloseStart
  <2>2. Others(t) /\ pc'[t] # "open"
    <3>1. CASE Return(t)
      BY <3>1, ReturnEffect DEF Returned
    <3>2. ASSUME NEW x, pc' = [pc EXCEPT ![t] = "closing"], ptr' = [ptr EXCEPT ![t] = x],
                 UNCHANGED <<call, ctn, port, initialising, made>>
          PROVE  Others(t) /\ pc'[t] # "open"
      BY <3>2 DEF Others, LocalOK
    <3>3. QED
      BY <1>9, <3>1, <3>2 DEF CloseStart
  <2>3. QED
    BY <2>1, <2>2, SameListStep DEF SameList
<1>10. ASSUME NEW t \in Threads, CloseEnd(t) PROVE Counted'
  <2> DEFINE n == Len(contexts)
  <2>1. PICK k \in 1 .. n : contexts[k] = ptr[t] /\ contexts' = Remove(contexts, k)
    BY <1>10 DEF CloseEnd
  <2>2. n \in Nat /\ n > 0 /\ \A i \in 1 .. n : contexts[i] \in Ctxs
    BY <2>1 DEF SharedOK
  <2>3. /\ Len(contexts') = n - 1
        /\ \A i \in 1 .. n - 1 : contexts'[i] = IF i < k THEN contexts[i] ELSE contexts[i + 1]
    BY <2>1, RemoveElement DEF SharedOK
  <2>4. /\ ~heap'[ptr[t]].alive
        /\ \A d \in Ctxs \ {ptr[t]} : heap'[d] = heap[d]
    BY <1>10, <2>1, <2>2 DEF CloseEnd, SharedOK, Freed
  <2>5. \A i \in 1 .. n : i # k => contexts[i] # ptr[t]
    BY <2>1, <2>2 DEF Counted, ContextsUnique
  <2> HIDE DEF n
  \* Element i of the new list is element at(i) of the old one.
  <2> DEFINE at(i) == IF i < k THEN i ELSE i + 1
  <2>6. /\ \A i \in 1 .. n - 1 : at(i) \in 1 .. n /\ at(i) # k /\ contexts'[i] = contexts[at(i)]
        /\ \A i, j \in 1 .. n - 1 : i # j => at(i) # at(j)
        /\ \A j \in 1 .. n : j # k => \E i \in 1 .. n - 1 : at(i) = j
    <3>1. \A i \in 1 .. n - 1 : at(i) \in 1 .. n /\ at(i) # k /\ contexts'[i] = contexts[at(i)]
      BY <2>2, <2>3
    <3>2. \A i, j \in 1 .. n - 1 : i # j => at(i) # at(j)
      BY <2>2
    <3>3. ASSUME NEW j \in 1 .. n, j # k PROVE \E i \in 1 .. n - 1 : at(i) = j
      <4>1. CASE j < k
        BY <2>2, <3>3, <4>1
      <4>2. CASE j > k
        <5>1. j - 1 \in 1 .. n - 1 /\ at(j - 1) = j
          BY <2>2, <4>2
        <5>2. QED
          BY <5>1
      <4>3. QED
        BY <2>2, <3>3, <4>1, <4>2
    <3>4. QED
      BY <3>1, <3>2, <3>3
  <2> HIDE DEF at
  <2>7. \A i \in 1 .. n - 1 : contexts'[i] \in Ctxs \ {ptr[t]}
    BY <2>2, <2>5, <2>6
  <2>8. \A i \in 1 .. n - 1 : heap'[contexts'[i]] = heap[contexts[at(i)]]
    BY <2>4, <2>6, <2>7
  <2>9. ListedAlive'
    <3>1. SUFFICES ASSUME NEW c \in Ctxs
                   PROVE  heap'[c].alive <=> \E i \in 1 .. n - 1 : contexts'[i] = c
      BY <2>3 DEF ListedAlive, Listed
    <3>2. CASE c = ptr[t]
      BY <2>4, <2>7, <3>2
    <3>3. CASE c # ptr[t]
      <4>1. heap'[c].alive <=> \E j \in 1 .. n : contexts[j] = c
        BY <2>4, <3>3 DEF Counted, ListedAlive, Listed, n
      <4>2. (\E j \in 1 .. n : contexts[j] = c) <=> \E i \in 1 .. n - 1 : contexts'[i] = c
        BY <2>1, <2>6, <3>3
      <4>3. QED
        BY <4>1, <4>2
    <3>4. QED
      BY <3>2, <3>3
  <2>10. ContextsUnique'
    <3>1. SUFFICES ASSUME NEW i \in 1 .. n - 1, NEW j \in 1 .. n - 1, i # j
                   PROVE  /\ contexts'[i] # contexts'[j]
                          /\ heap'[contexts'[i]].ctn # heap'[contexts'[j]].ctn
                          /\ heap'[contexts'[i]].port # 0
                               => heap'[contexts'[i]].port # heap'[contexts'[j]].port
      BY <2>3 DEF ContextsUnique
    <3>2. at(i) \in 1 .. n /\ at(j) \in 1 .. n /\ at(i) # at(j)
      BY <2>6, <3>1
    <3>3. /\ contexts[at(i)] # contexts[at(j)]
          /\ heap[contexts[at(i)]].ctn # heap[contexts[at(j)]].ctn
          /\ heap[contexts[at(i)]].port # 0
               => heap[contexts[at(i)]].port # heap[contexts[at(j)]].port
      BY <3>2 DEF Counted, ContextsUnique, n
    <3>4. QED
      BY <2>6, <2>8, <3>3
  <2>11. \A u \in Threads : pc'[u] # "open"
    <3>1. Others(t) /\ Returned(t)
      BY <1>10, ReturnEffect DEF CloseEnd
    <3>2. \A u \in Threads : pc[u] # "open"
      BY <1>10 DEF CloseEnd, Locked, MutexHeld
    <3>3. QED
      BY <3>1, <3>2 DEF Others, Returned
  <2>12. InitCounted'
    <3>1. initCount = n
      <4>1. ~Opening
        BY <1>10 DEF CloseEnd, Locked, MutexHeld, Opening
      <4>2. QED
        BY <2>2, <4>1 DEF Counted, InitCounted, Opening, n
    <3>2. initCount' = n - 1
      BY <1>10, <2>2, <3>1 DEF CloseEnd, Fini
    <3>3. QED
      BY <2>2, <2>3, <2>11, <3>2 DEF InitCounted
  <2>13. QED
    BY <2>9, <2>10, <2>11, <2>12 DEF Counted, CheckHolds
<1>11. CASE UNCHANGED vars
  BY <1>11 DEF vars, local, Counted, ListedAlive, Listed, CheckHolds, InUse, ContextsUnique,
               InitCounted
<1>12. QED
  BY <1>1, <1>2, <1>3, <1>4, <1>5, <1>6, <1>7, <1>8, <1>9, <1>10, <1>11
     DEF Next, Step, CallStep, Calls

-----------------------------------------------------------------------------
\* A thread keeps the mutex of the context it talks to, if a step leaves it
\* there and nothing but the step's own context changes.
LEMMA TransferKept ==
  ASSUME TransferHolds, UNCHANGED app, NEW t \in Threads, Others(t),
         ~Closes => \A u \in Threads \ {t} : pc[u] = "transfer" => heap'[ptr[u]] = heap[ptr[u]],
         ~Closes /\ pc'[t] = "transfer" => heap'[ptr'[t]].alive /\ heap'[ptr'[t]].mutex = t
  PROVE  TransferHolds'
<1>1. Closes' = Closes
  BY DEF Closes
<1>2. QED
  BY <1>1 DEF TransferHolds, Others

LEMMA TransferNext == TypeOK /\ Locked /\ TransferHolds /\ [Next]_vars => TransferHolds'
<1> SUFFICES ASSUME LocalOK, SharedOK, Locked, TransferHolds, [Next]_vars PROVE TransferHolds'
  BY TypeParts
<1>0. None \notin Threads
  BY CtApiAssumption
<1>1. ASSUME NEW t \in Threads, CallStep(t), UNCHANGED app PROVE TransferHolds'
  <2>1. PICK f \in Calls, n \in Ctns, p \in Ports : Call(t, f, n, p)
    BY <1>1 DEF CallStep
  <2>2. Others(t) /\ pc'[t] # "transfer" /\ heap' = heap
    <3>1. PICK l \in {"initlock", "closelock", "find"} :
            pc' = [pc EXCEPT ![t] = l] /\ (\E c : ptr' = [ptr EXCEPT ![t] = c])
      BY <2>1 DEF Call, StartWalk, FirstStep, Calls
    <3>2. QED
      BY <2>1, <3>1 DEF Call, Others, LocalOK
  <2>3. QED
    BY <1>1, <2>2, TransferKept
<1>2. ASSUME NEW t \in Threads, UNCHANGED app,
             InitRefused(t) \/ InitStart(t) \/ OpenFails(t) \/ UseContext(t) \/ IfdIoControl(t)
      PROVE  TransferHolds'
  <2>1. Others(t) /\ pc'[t] # "transfer" /\ heap' = heap
    BY <1>2, ReturnEffect, GotoEffect
       DEF InitRefused, InitStart, OpenFails, UseContext, IfdIoControl, Returned, WentTo
  <2>2. QED
    BY <1>2, <2>1, TransferKept
<1>3. ASSUME NEW t \in Threads, OpenSucceeds(t), UNCHANGED app PROVE TransferHolds'
  <2>1. PICK c \in Ctxs : ~heap[c].alive /\ heap' = [heap EXCEPT ![c] = NewContext(ctn[t], port[t])]
    BY <1>3 DEF OpenSucceeds
  <2>2. Others(t) /\ pc'[t] # "transfer"
    BY <1>3 DEF OpenSucceeds, StartWalk, Others, LocalOK
  <2>3. ~Closes => \A u \in Threads : pc[u] = "transfer" => ptr[u] \in Ctxs \ {c}
    BY <2>1 DEF TransferHolds, Locked, CallsInPlace
  <2>4. ~Closes => \A u \in Threads : pc[u] = "transfer" => heap'[ptr[u]] = heap[ptr[u]]
    BY <2>1, <2>3 DEF SharedOK
  <2>5. QED
    BY <1>3, <2>2, <2>4, TransferKept
<1>4. ASSUME NEW t \in Threads, FindNext(t), UNCHANGED app PROVE TransferHolds'
  <2>1. heap' = heap /\ pc[t] = "find"
    BY <1>4 DEF FindNext
  <2>2. Others(t) /\ pc'[t] # "transfer"
    <3>1. CASE DataReturns(t, FALSE)
      BY <3>1, DataReturnsEffect DEF Returned, WentTo
    <3>2. CASE Return(t)
      BY <3>2, ReturnEffect DEF Returned
    <3>3. CASE Goto(t, Found(t))
      BY <3>3, GotoEffect DEF WentTo, Found
    <3>4. ASSUME NEW x, ptr' = [ptr EXCEPT ![t] = x],
                 UNCHANGED <<pc, call, ctn, port, initialising, made>>
          PROVE  Others(t) /\ pc'[t] # "transfer"
      BY <2>1, <3>4 DEF Others, LocalOK
    <3>5. QED
      BY <1>4, <3>1, <3>2, <3>3, <3>4 DEF FindNext
  <2>3. QED
    BY <1>4, <2>1, <2>2, TransferKept
\* The lock is taken only when it is free, so nobody else talks to the reader.
<1>5. ASSUME NEW t \in Threads, DataLock(t), UNCHANGED app PROVE TransferHolds'
  <2>1. Others(t) /\ WentTo(t, "transfer") /\ ptr[t] \in Ctxs
    BY <1>5, GotoEffect DEF DataLock, Locked, CallsInPlace
  <2>2. /\ heap'[ptr[t]].alive /\ heap'[ptr[t]].mutex = t
        /\ \A d \in Ctxs \ {ptr[t]} : heap'[d] = heap[d]
    BY <1>5, <2>1 DEF DataLock, SharedOK, Contexts
  <2>3. ~Closes => \A u \in Threads : pc[u] = "transfer" => ptr[u] \in Ctxs \ {ptr[t]}
    BY <1>0, <1>5 DEF DataLock, TransferHolds, Locked, CallsInPlace
  <2>4. QED
    BY <1>5, <2>1, <2>2, <2>3, TransferKept DEF WentTo
\* The lock that is released is the thread's own.
<1>6. ASSUME NEW t \in Threads, NEW r \in {"ok", "failed", "lost"}, Transfer(t, r), UNCHANGED app
      PROVE  TransferHolds'
  <2>1. DataReturns(t, r = "ok") /\ pc[t] = "transfer" /\ ptr[t] \in Ctxs
    BY <1>6 DEF Transfer, Locked, CallsInPlace
  <2>2. Others(t) /\ pc'[t] # "transfer"
    BY <2>1, DataReturnsEffect DEF Returned, WentTo
  <2>3. \A d \in Ctxs \ {ptr[t]} : heap'[d] = heap[d]
    BY <1>6, <2>1 DEF Transfer, SharedOK, Contexts
  <2>4. ~Closes => \A u \in Threads \ {t} : pc[u] = "transfer" => ptr[u] \in Ctxs \ {ptr[t]}
    BY <2>1 DEF TransferHolds, Locked, CallsInPlace
  <2>5. QED
    BY <1>6, <2>2, <2>3, <2>4, TransferKept
<1>7. ASSUME NEW t \in Threads, CloseStart(t), UNCHANGED app PROVE TransferHolds'
  <2>1. heap' = heap /\ pc[t] = "closelock"
    BY <1>7 DEF CloseStart
  <2>2. Others(t) /\ pc'[t] # "transfer"
    <3>1. CASE Return(t)
      BY <3>1, ReturnEffect DEF Returned
    <3>2. ASSUME NEW x, pc' = [pc EXCEPT ![t] = "closing"], ptr' = [ptr EXCEPT ![t] = x],
                 UNCHANGED <<call, ctn, port, initialising, made>>
          PROVE  Others(t) /\ pc'[t] # "transfer"
      BY <3>2 DEF Others, LocalOK
    <3>3. QED
      BY <1>7, <3>1, <3>2 DEF CloseStart
  <2>3. QED
    BY <1>7, <2>1, <2>2, TransferKept
<1>8. ASSUME NEW t \in Threads, CloseEnd(t), UNCHANGED app PROVE TransferHolds'
  <2>1. Closes
    BY <1>8 DEF CloseEnd, Locked, CallsInPlace
  <2>2. QED
    BY <1>8, <2>1 DEF TransferHolds, Closes
<1>9. CASE UNCHANGED vars
  BY <1>9 DEF vars, local, TransferHolds, Closes
<1>10. QED
  BY <1>1, <1>2, <1>3, <1>4, <1>5, <1>6, <1>7, <1>8, <1>9 DEF Next, Step, CallStep, Calls

-----------------------------------------------------------------------------
\* The invariant holds for every number of threads and every application, also
\* for one that closes readers other threads are using.
THEOREM CtApiInvariant == Spec => []IInv
<1>1. Init => IInv
  <2> SUFFICES ASSUME Init PROVE IInv
    OBVIOUS
  <2>1. TypeOK
    <3>1. Freed \in Contexts /\ <<>> \in Seq(Ctxs)
      BY DEF Freed, Contexts
    <3>2. LocalOK /\ SharedOK
      BY <3>1 DEF Init, LocalOK, SharedOK
    <3>3. QED
      BY <3>2, TypeParts
  <2>2. Locked /\ Counted /\ TransferHolds
    BY DEF Init, Locked, MutexHeld, CallsInPlace, Counted, ListedAlive, Listed, CheckHolds,
           ContextsUnique, InitCounted, TransferHolds, Freed
  <2>3. QED
    BY <2>1, <2>2 DEF IInv, Locked, Counted
<1>2. IInv /\ [Next]_vars => IInv'
  BY TypeStep, LockedNext, CountedNext, TransferNext DEF IInv, Locked, Counted
<1>3. QED
  BY <1>1, <1>2, PTL DEF Spec

\* The variables keep their types.
THEOREM CtApiTypeCorrect == Spec => []TypeOK
BY CtApiInvariant, PTL DEF IInv

\* No two open contexts have the same number or port, although the slow opening
\* of a device lies between the check of CT_init and addContext.
THEOREM CtApiContextsUnique == Spec => []ContextsUnique
BY CtApiInvariant, PTL DEF IInv

\* _ctapi_init_count counts the open contexts and the device being opened: no
\* failure of CT_init and no interleaving with CT_close makes it drift.
THEOREM CtApiInitCounted == Spec => []InitCounted
BY CtApiInvariant, PTL DEF IInv

\* As long as nobody closes a reader, CT_data sends it one command at a time.
THEOREM CtApiDataExclusive == Spec => []DataExclusive
<1>1. IInv => DataExclusive
  BY DEF IInv, TransferHolds, DataExclusive
<1>2. QED
  BY <1>1, CtApiInvariant, PTL
=============================================================================
