---------------------------- MODULE ModuleUpdate ----------------------------
(***************************************************************************)
(* Firmware modules and keys of the readers of the cjeca32 driver: the     *)
(* commands of CT_special (ctapi_special.cpp), which collect a file piece  *)
(* by piece in the CT-API context, and the operations of CEC30Reader that  *)
(* send it to the reader in escape messages and keep copies of the         *)
(* reader's module list and key numbers.                                   *)
(*                                                                         *)
(* A call holds the context's lock and CReader's critical section to its   *)
(* end, so its steps are not interleaved with other calls; but every       *)
(* escape message may be refused (the user did not press OK), or fail, and *)
(* then the reader may have executed it or not.                            *)
(*                                                                         *)
(* Not here: a new kernel (Kernel is not among the Images), after which    *)
(* CtLoadModule sleeps while the reader starts again.                      *)
(*                                                                         *)
(* An uploaded element is a piece of a module image, <<image, n>>, of the  *)
(* size of one UPDATE message, or a record of a key file: a key and the    *)
(* key that signed it, NoKey in a root record.                             *)
(*                                                                         *)
(* Definitions that no other definition uses (VerifyTrusting...) are       *)
(* faulty variants of the one that follows them.                           *)
(***************************************************************************)
EXTENDS Integers, Sequences, FiniteSets

CONSTANTS
  Images,        \* module images; an image is also the ID of its module
  Kernel,        \* MODULE_ID_KERNEL
  Pieces,        \* of an image
  KeyRecords,    \* records of the key file, in their order
  FactoryKeys,   \* what a reader may hold in its two key slots
  MaxUpload,     \* bounds of the model: elements in dataToFlash,
  MaxCalls       \*   calls that reach the reader

Key(number, version) == [KNr |-> number, Version |-> version]
Empty == Key(255, 255)     \* a slot without key
NoKey == Key(0, 0)

Records == {KeyRecords[n] : n \in DOMAIN KeyRecords}

\* A number or version of 255 is an empty slot's; the signer of a root record is NoKey.
ASSUME ModuleUpdateAssumption ==
  /\ IsFiniteSet(Images) /\ Kernel \notin Images
  /\ {Pieces, MaxUpload} \subseteq Nat \ {0} /\ MaxCalls \in Nat
  /\ KeyRecords \in Seq([key : [KNr : 1 .. 254, Version : 1 .. 254],
                         by : [KNr : 0 .. 254, Version : 0 .. 254]])
  /\ FactoryKeys \subseteq [KNr : 0 .. 255, Version : 0 .. 255] \X [KNr : 0 .. 255, Version : 0 .. 255]

VARIABLES
  object,      \* m_Reader with its communicator and what it knows of the reader
  data,        \* ctx->dataToFlash
  signature,   \* ctx->signatureToFlash
  call,        \* the call under way: its operation, step, element and result
  reader,      \* external: installed modules, keys, what it is receiving...
  calls        \* calls that reached the reader

updateVars == <<object, data, signature, call, reader, calls>>

Piece(image, n) == [image |-> image, n |-> n]
PieceSet == [image : Images, n : 1 .. Pieces]
Whole(image) == [n \in 1 .. Pieces |-> Piece(image, n)]

\* Between calls op is "none" and res what CT_special returned.
NoCall == [op |-> "none", step |-> "none", i |-> 1, res |-> "ok", module |-> Kernel]

Unread == "unread"         \* a list entry that was not filled in

\* m_pCommunicator, m_ReaderInfo.Keys, m_pModuleInfo with the status of each
\* module, m_ModuleInfoCount; missed is history: the list could not be read
\* after the last change.
NewObject == [there |-> TRUE, comm |-> "open", keys |-> <<NoKey, NoKey>>,
              list |-> [m \in {} |-> Unread], count |-> 0, missed |-> FALSE]
NoObject == [NewObject EXCEPT !.there = FALSE, !.comm = "closed"]      \* NULL

UpdateInit ==
  /\ object = NoObject
  /\ data = <<>> /\ signature = <<>>
  /\ call = NoCall /\ calls = 0
  /\ \E k \in FactoryKeys :
       reader = [modules |-> [m \in Images |-> "absent"], keys |-> k,
                 buffer |-> <<>>, newKey |-> NoKey, constants |-> FALSE]

(***************************************************************************)
(* Escape messages                                                         *)
(***************************************************************************)
\* What CEC30Reader::Escape may return: whether the reader executed the
\* function, the result, and what is left of the communicator.  "broken" is an
\* answer of the wrong size, or a read that failed after a stale answer: the
\* communicator is gone, but CReader is not told that the device is lost.
Escape ==
  IF object.comm = "closed" THEN {[done |-> FALSE, res |-> "lost", comm |-> "closed"]}
  ELSE {[done |-> TRUE, res |-> "ok", comm |-> "open"],
        [done |-> FALSE, res |-> "check", comm |-> "open"]}
       \cup [done : BOOLEAN, res : {"lost", "broken"}, comm : {"closed"}]

Fails(e) == e.res # "ok"

\* BuildReaderInfo: what the keys in m_ReaderInfo become.  They are zeroed
\* first; a failure of GetKeyInfo, after they were set to 0xff, is ignored.
ReaderInfo ==
  LET failures == {e \in Escape : Fails(e)}
      info(keys, res, comm) == [object |-> [object EXCEPT !.keys = keys, !.comm = comm], res |-> res]
  IN  {info(<<NoKey, NoKey>>, e.res, e.comm) : e \in failures}
      \cup (IF object.comm = "closed" THEN {}
            ELSE {info(reader.keys, "ok", "open")}
                 \cup {info(<<Empty, Empty>>, "ok", e.comm) : e \in failures})

Installed == {m \in Images : reader.modules[m] # "absent"}
Status(m) == IF m = Kernel THEN "active" ELSE reader.modules[m]

\* BuildModuleInfo: the IDs are read first, then the kernel's entry and the
\* others in turn, until one fails.
ListOf(read) == [m \in Installed \cup {Kernel} |-> IF m \in read THEN Status(m) ELSE Unread]

Listed(list, count, e) ==
  [object |-> [object EXCEPT !.list = list, !.count = count, !.comm = e.comm, !.missed = Fails(e)],
   res |-> e.res]

ModuleInfo ==
  LET all == Installed \cup {Kernel}
      failures == {e \in Escape : Fails(e)}
      begun == {r \in SUBSET all : r # all /\ (r # {} => Kernel \in r)}
  IN  {Listed(object.list, 0, e) : e \in failures}
      \cup {Listed(ListOf(all), Cardinality(all), e) : e \in Escape \ failures}
      \cup (IF object.comm = "closed" THEN {}
            ELSE {Listed(ListOf(r), Cardinality(all), e) : e \in failures, r \in begun})

(***************************************************************************)
(* The reader (external)                                                   *)
(***************************************************************************)
\* What the reader is after it executed a function.  It forgets what it was
\* receiving when it refuses a function or the link breaks.
Forgetful(r) == [r EXCEPT !.buffer = <<>>, !.newKey = NoKey]

Start(p) == [reader EXCEPT !.buffer = <<p>>]
Append1(p) == [reader EXCEPT !.buffer = Append(@, p)]

Verifies(s) == \E m \in Images : reader.buffer = Whole(m) /\ s = <<m>>
Install == [reader EXCEPT !.modules[reader.buffer[1].image] = "active"]

StoreKey(k) == [reader EXCEPT !.newKey = k]
EmptySlots(keys) == {s \in 1 .. 2 : keys[s] = Empty}
SlotsOf(keys, number) == {s \in 1 .. 2 : keys[s].KNr = number}
FirstOf(slots) == CHOOSE s \in slots : \A t \in slots : s <= t

\* A root key goes into an empty slot; a signed one replaces its predecessor.
AcceptsRoot == EmptySlots(reader.keys) # {}
AcceptsSigned(by) == /\ by \in {reader.keys[s] : s \in 1 .. 2}
                     /\ SlotsOf(reader.keys, reader.newKey.KNr) # {}
KeyInto(slots) == Forgetful([reader EXCEPT !.keys[FirstOf(slots)] = reader.newKey])

(***************************************************************************)
(* Calls                                                                   *)
(***************************************************************************)
Idle == call.op = "none"

\* A call returns, with the object as o, to CReader, which deletes the object if
\* the device is lost (CheckcJResult), and from there to CT_special.
CtRv(res) == IF res = "ok" THEN "ok" ELSE "error"       \* CT_API_RV_ERR_CT

Return(res, o) ==
  /\ call' = [NoCall EXCEPT !.res = CtRv(res)]
  /\ object' = IF res = "lost" \/ (call.op = "connect" /\ res # "ok") THEN NoObject ELSE o

GoTo(step, i, res, o) ==
  /\ call' = [call EXCEPT !.step = step, !.i = i, !.res = res]
  /\ object' = o

\* Before a function that writes the flash: a failing SetFlashMask (an escape
\* of its own in CECFReader) ends the call.
MaskFails ==
  \E e \in {f \in Escape : Fails(f) /\ ~f.done} :
    /\ Return(e.res, [object EXCEPT !.comm = e.comm])
    /\ reader' = Forgetful(reader)

\* The outcome e of a function that makes the reader `after', if possible.
Executes(possible, after, e) ==
  /\ e.done => possible
  /\ LET r == IF e.done THEN after ELSE reader
     IN  reader' = IF Fails(e) THEN Forgetful(r) ELSE r

After(e) == [object EXCEPT !.comm = e.comm]

Connect ==
  /\ Idle /\ ~object.there
  /\ object' = NewObject
  /\ data' = <<>> /\ signature' = <<>>
  /\ call' = [NoCall EXCEPT !.op = "connect", !.step = "info"]
  /\ calls < MaxCalls /\ calls' = calls + 1
  /\ UNCHANGED reader

\* BuildReaderInfo, on its own account in PostCreate, with its result ignored
\* after a module or a key was written.
BuildReaderInfo ==
  /\ call.step \in {"info", "rebuild"}
  /\ \E r \in ReaderInfo :
       IF call.op = "keys" THEN GoTo("key", call.i + 1, "ok", r.object)
       ELSE IF call.op = "load" THEN GoTo("modules", call.i, call.res, r.object)
       ELSE IF call.step = "rebuild" \/ r.res # "ok" THEN Return(r.res, r.object)
       ELSE GoTo("modules", call.i, "ok", r.object)
  /\ UNCHANGED reader

BuildModuleInfo ==
  /\ call.step = "modules"
  /\ \E r \in ModuleInfo :
       IF call.op # "connect" THEN Return(call.res, r.object)
       ELSE IF r.res # "ok" \/ reader.constants THEN Return(r.res, r.object)
       ELSE GoTo("constants", 1, "ok", r.object)
  /\ UNCHANGED reader

\* SetReaderConstants: dates and serial number of a new reader; failures are
\* only logged.
SetReaderConstants ==
  /\ call.step = "constants"
  /\ \E e \in Escape :
       /\ Executes(TRUE, [reader EXCEPT !.constants = TRUE], e)
       /\ GoTo("rebuild", 1, "ok", After(e))

\* CtLoadModule: UPDATE_START, UPDATE for each further piece, VERIFY.  An
\* early return leaves the list as it is.
ChunkPastEnd ==
  /\ call.op = "load" /\ call.step = "chunk"
  /\ \E e \in Escape :
       /\ Executes(TRUE, IF call.i = 1 THEN Start(data[1]) ELSE Append1(data[call.i]), e)
       /\ IF Fails(e) THEN Return(e.res, After(e))
          ELSE GoTo(IF call.i > Len(data) THEN "verify" ELSE "chunk", call.i + 1, "ok", After(e))

Chunk ==
  /\ call.op = "load" /\ call.step = "chunk"
  /\ \/ MaskFails
     \/ \E e \in Escape :
          /\ Executes(TRUE, IF call.i = 1 THEN Start(data[1]) ELSE Append1(data[call.i]), e)
          /\ IF Fails(e) THEN Return(e.res, After(e))
             ELSE GoTo(IF call.i = Len(data) THEN "verify" ELSE "chunk",
                       call.i + 1, "ok", After(e))

VerifyTrusting ==
  /\ call.op = "load" /\ call.step = "verify"
  /\ \E e \in Escape :
       /\ Executes(Verifies(signature), Forgetful(Install), e)
       /\ GoTo("info", 1, "ok", After(e))

Verify ==
  /\ call.op = "load" /\ call.step = "verify"
  /\ \/ MaskFails
     \/ \E e \in Escape :
          /\ Executes(Verifies(signature), Forgetful(Install), e)
          /\ IF Fails(e) THEN Return(e.res, [After(e) EXCEPT !.missed = @ \/ e.done])
             ELSE GoTo("info", 1, "ok", After(e))

\* CtDeleteALLModules, CtDeleteModule, CtActivateModule, CtDeactivateModule:
\* the list is read again even if the function failed.
Changed(op, m) ==
  CASE op = "delall" -> [reader EXCEPT !.modules = [n \in Images |-> "absent"]]
    [] op = "delete" -> [reader EXCEPT !.modules[m] = "absent"]
    [] op = "activate" -> [reader EXCEPT !.modules[m] = "active"]
    [] op = "deactivate" -> [reader EXCEPT !.modules[m] = "inactive"]

ChangeModulesUnlisted ==
  /\ call.step = "change"
  /\ \E e \in Escape :
       /\ Executes(call.op = "delall" \/ call.module \in Installed, Changed(call.op, call.module), e)
       /\ IF Fails(e) THEN GoTo("modules", 1, e.res, After(e)) ELSE Return("ok", After(e))

ChangeModules ==
  /\ call.step = "change"
  /\ \/ MaskFails
     \/ \E e \in Escape :
          /\ Executes(call.op = "delall" \/ call.module \in Installed, Changed(call.op, call.module), e)
          /\ GoTo("modules", 1, e.res, After(e))

(***************************************************************************)
(* Key files                                                               *)
(***************************************************************************)
\* _CtIsKeyUpdateRecommended walks over the file: record i is reached if the
\* ones before it are sound, and is sound if only the first one is a root
\* record.  The versions of a key must rise.
Header(i) ==
  /\ data[i] \in Records
  /\ \A j \in 1 .. i - 1 : data[j].key.KNr = data[i].key.KNr
                            => data[j].key.Version < data[i].key.Version
Sound(i) == Header(i) /\ (data[i].by = NoKey <=> i = 1)
Reached(i) == (\A j \in 1 .. i - 1 : Sound(j)) /\ Header(i)
SoundFile == \A i \in DOMAIN data : \A j \in 1 .. i : Sound(j)

Newer(key, keys) == \E s \in SlotsOf(keys, key.KNr) : key.Version > keys[s].Version
FirstOfNumber(i) == \A j \in 1 .. i - 1 : data[j].key.KNr # data[i].key.KNr

Recommended ==
  \E i \in DOMAIN data :
    /\ Reached(i)
    /\ \/ Newer(data[i].key, object.keys)
       \/ EmptySlots(object.keys) # {} /\ FirstOfNumber(i)

\* KV[KNr] = Version: the file's last version of this key
Newest(i) == \A j \in DOMAIN data : data[j].key.KNr = data[i].key.KNr
                                    => data[j].key.Version <= data[i].key.Version

\* The element of CtKeyUpdate's loop at i: the key is sent, as a root key if a
\* slot is believed empty, or skipped, or its signer is not known.
AsRoot(i) == EmptySlots(object.keys) # {} /\ Newest(i)
AsSuccessorNever(i) == ~AsRoot(i) /\ i < 1 /\ Newer(data[i].key, object.keys)

AsSuccessor(i) == ~AsRoot(i) /\ i > 1 /\ Newer(data[i].key, object.keys)
SignerKnown(i) == data[i].by \in {object.keys[s] : s \in 1 .. 2}

SkipKeyForever ==
  /\ ~AsRoot(call.i) /\ ~AsSuccessor(call.i)
  /\ GoTo("key", call.i, "ok", object)
  /\ UNCHANGED reader

SkipKey ==
  /\ ~AsRoot(call.i) /\ ~AsSuccessor(call.i)
  /\ GoTo("key", call.i + 1, "ok", object)
  /\ UNCHANGED reader

\* A key of more than 800 bytes, which any may be, is not sent.
TooLong ==
  /\ AsRoot(call.i) \/ (AsSuccessor(call.i) /\ SignerKnown(call.i))
  /\ Return("check", object)
  /\ UNCHANGED reader

SendKey ==
  /\ AsRoot(call.i) \/ (AsSuccessor(call.i) /\ SignerKnown(call.i))
  /\ \E e \in Escape :
       /\ Executes(TRUE, StoreKey(data[call.i].key), e)
       /\ IF Fails(e) THEN Return(e.res, After(e)) ELSE GoTo("verify key", call.i, "ok", After(e))

UpdateKey ==
  /\ call.step = "key"
  /\ \/ call.i > Len(data) /\ Return("ok", object) /\ UNCHANGED reader
     \/ /\ call.i <= Len(data)
        /\ \/ SkipKey
           \/ /\ AsSuccessor(call.i) /\ ~SignerKnown(call.i)
              /\ Return("corrupt", object)
              /\ UNCHANGED reader
           \/ TooLong
           \/ (AsRoot(call.i) \/ (AsSuccessor(call.i) /\ SignerKnown(call.i))) /\ MaskFails
           \/ SendKey

VerifyKey ==
  /\ call.step = "verify key"
  /\ \/ MaskFails
     \/ \E e \in Escape :
          /\ IF AsRoot(call.i)
             THEN Executes(AcceptsRoot, KeyInto(EmptySlots(reader.keys)), e)
             ELSE Executes(AcceptsSigned(data[call.i].by),
                           KeyInto(SlotsOf(reader.keys, reader.newKey.KNr)), e)
          /\ IF Fails(e) THEN Return(e.res, After(e)) ELSE GoTo("info", call.i, "ok", After(e))

(***************************************************************************)
(* Commands of CT_special, and the operations only CReader offers          *)
(***************************************************************************)
Answer(res) ==
  /\ call' = [NoCall EXCEPT !.res = CtRv(res)]
  /\ UNCHANGED <<object, calls>>

\* Without a reader object CReader reports the device lost.
CallReader(op, step, m) ==
  IF ~object.there THEN Answer("lost")
  ELSE /\ calls < MaxCalls /\ calls' = calls + 1
       /\ call' = [NoCall EXCEPT !.op = op, !.step = step, !.module = m]
       /\ UNCHANGED object

Stored(old, first, e) == Append(IF first THEN <<>> ELSE old, e)

\* The application sends a file from its beginning, block after block, but may
\* not have marked the first one or stopped half way.
Files == {Whole(m) : m \in Images} \cup {KeyRecords}
Follows(old, e) ==
  \E f \in Files :
    \/ e = f[1]
    \/ \E n \in 2 .. Len(f) : old # <<>> /\ e = f[n] /\ old[Len(old)] = f[n - 1]

\* UPLOADMOD, and KEYUPDATE up to the last block: they share dataToFlash.
UploadMod(first, e) ==
  /\ Idle /\ Follows(IF first THEN <<>> ELSE data, e)
  /\ first \/ Len(data) < MaxUpload
  /\ data' = Stored(data, first, e)
  /\ Answer("ok")
  /\ UNCHANGED <<signature, reader>>

UploadSig(first, m) ==
  /\ Idle /\ (first \/ Len(signature) < 2)
  /\ signature' = Stored(signature, first, m)
  /\ Answer("ok")
  /\ UNCHANGED <<data, reader>>

AbortUpload ==
  /\ Idle
  /\ \/ data' = <<>> /\ UNCHANGED signature
     \/ signature' = <<>> /\ UNCHANGED data
  /\ Answer("ok")
  /\ UNCHANGED reader

UploadFlash ==
  /\ Idle
  /\ IF data = <<>> \/ signature = <<>> THEN Answer("invalid")
     ELSE IF object.there /\ Len(data) < 2 THEN Answer("size")
     ELSE CallReader("load", "chunk", Kernel)
  /\ UNCHANGED <<data, signature, reader>>

\* The last block of KEYUPDATE.
KeyUpdate ==
  /\ Idle
  /\ IF object.there /\ (~Recommended \/ ~SoundFile)
     THEN Answer(IF Recommended THEN "corrupt" ELSE "ok")
     ELSE CallReader("keys", "key", Kernel)
  /\ UNCHANGED <<data, signature, reader>>

CallChange(op, m) ==
  /\ Idle
  /\ CallReader(op, "change", m)
  /\ UNCHANGED <<data, signature, reader>>

CallTest(op) ==
  /\ Idle
  /\ CallReader(op, op, Kernel)
  /\ UNCHANGED <<data, signature, reader>>

\* CtSelfTest takes every failure for a lost device; CtShowAuth returns the
\* reader's result, which Escape does not store if the message failed.
SelfTest ==
  /\ call.step = "selftest"
  /\ \/ MaskFails
     \/ \E e \in Escape :
          /\ Executes(TRUE, reader, e)
          /\ Return(IF Fails(e) THEN "lost" ELSE "ok", After(e))

ShowAuth ==
  /\ call.step = "showauth"
  /\ \E e \in Escape :
       /\ Executes(TRUE, reader, e)
       /\ CASE e.res \in {"ok", "check"} -> Return(e.res, After(e))
            [] OTHER -> \E garbage \in {"ok", "check", "lost"} : Return(garbage, After(e))

Disconnect ==
  /\ Idle /\ object.there
  /\ object' = NoObject
  /\ UNCHANGED <<data, signature, call, reader, calls>>

Application ==
  \/ Connect \/ Disconnect \/ AbortUpload \/ UploadFlash \/ KeyUpdate
  \/ \E first \in BOOLEAN :
       \/ \E e \in PieceSet \cup Records : UploadMod(first, e)
       \/ \E m \in Images : UploadSig(first, m)
  \/ CallChange("delall", Kernel)
  \/ \E op \in {"delete", "activate", "deactivate"}, m \in Images : CallChange(op, m)
  \/ \E op \in {"selftest", "showauth"} : CallTest(op)

Step ==
  /\ \/ BuildReaderInfo \/ BuildModuleInfo \/ SetReaderConstants
     \/ Chunk \/ Verify \/ ChangeModules
     \/ UpdateKey \/ VerifyKey
     \/ SelfTest \/ ShowAuth
  /\ UNCHANGED <<data, signature, calls>>

UpdateNext == Application \/ Step

UpdateSpec == UpdateInit /\ [][UpdateNext]_updateVars
FairUpdateSpec == UpdateSpec /\ WF_updateVars(Step)

(***************************************************************************)
(* Properties                                                              *)
(***************************************************************************)
Keys == {r.key : r \in Records} \cup {r.by : r \in Records}
        \cup (UNION {{k[1], k[2]} : k \in FactoryKeys}) \cup {Empty, NoKey}
Statuses == {"absent", "active", "inactive"}
Results == {"ok", "check", "lost", "broken", "error"}

\* The types of the variables: in particular the element a call is at lies in
\* the data it works on (or just behind its end), so that neither CtLoadModule
\* nor CtKeyUpdate reads behind dataToFlash; and however BuildModuleInfo ended,
\* as many entries of m_pModuleInfo were allocated as CtListModules copies and
\* FindModule walks over.
UpdateTypeOK ==
  /\ object.comm \in {"open", "closed"} /\ {object.there, object.missed} \subseteq BOOLEAN
  /\ object.keys \in Keys \X Keys
  /\ DOMAIN object.list \subseteq Images \cup {Kernel}
  /\ \A m \in DOMAIN object.list : object.list[m] \in {"active", "inactive", Unread}
  /\ object.count \in 0 .. Cardinality(DOMAIN object.list)
  /\ data \in Seq(PieceSet \cup Records) /\ Len(data) <= MaxUpload
  /\ signature \in Seq(Images)
  /\ call.i \in 1 .. Len(data) + 1
  /\ call.step = "chunk" => call.i <= Len(data)
  /\ call.res \in Results /\ calls \in 0 .. MaxCalls
  /\ reader.modules \in [Images -> Statuses] /\ reader.keys \in Keys \X Keys

\* Between calls the driver's list names the kernel and exactly the modules on
\* the reader with their status, whether the calls before succeeded, were
\* refused or failed half way - unless the list could not be read.  (PIN entry
\* and secure messaging decide by FindModule, and use the entry of the kernel
\* without looking whether there is one.)
ListFresh ==
  Idle /\ object.there /\ ~object.missed
    => /\ object.list = [m \in Installed \cup {Kernel} |-> Status(m)]
       /\ object.count = Cardinality(DOMAIN object.list)

\* If KEYUPDATE succeeds with a sound file, and the driver still knows the
\* reader's keys, then nothing in the file could be installed any more: the
\* chain of signatures was followed to its end, each key being checked against
\* the keys as they were after the one before it was written.
KeysUpdated ==
  [][call.op = "keys" /\ call'.op = "none" /\ call'.res = "ok" /\ object.keys = reader.keys
     => \A i \in DOMAIN data : i > 1 /\ SlotsOf(reader.keys, data[i].key.KNr) # {}
          => \E s \in SlotsOf(reader.keys, data[i].key.KNr) :
               reader.keys[s].Version >= data[i].key.Version]_updateVars

\* If UPLOADFLASH succeeds, what was collected is one whole image with its own
\* signature, and the reader runs it.
FlashedIsUploaded ==
  [][call.op = "load" /\ call'.op = "none" /\ call'.res = "ok"
     => \E m \in Images : data = Whole(m) /\ signature = <<m>> /\ reader.modules[m] = "active"]_updateVars

\* Every call returns: whatever is refused or lost, the walks over the file
\* end.
Returns == (call.op # "none") ~> (call.op = "none")
=============================================================================
