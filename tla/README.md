# A TLA+ model of ctapi-cyberjack

The repository is the Linux/macOS driver of REINER SCT cyberJack smart card
readers. Applications reach a reader in two ways: through CT-API (`CT_init`,
`CT_data`, `CT_close`, with the extensions `rsct_*`) or through PC/SC, where
pcscd loads the IFD handler, which is itself a client of CT-API. Below CT-API
there are three drivers: the old e-com driver (T=1 blocks over a kernel device
or libusb), the CCID readers of `cjeca32` over USB or a serial line, and the `ppa`
driver of the older USB readers.

## Inventory

| Part | State it keeps | Operations | Talks to |
|---|---|---|---|
| T=1 protocol (`ecom/cjt1.c`) | N(S), N(R), IFSC, waiting time extension; during a call the position in the command, three error counters, the response so far | `cjT1SendCmd` | blocks out and in through `cjIoSendBlock`/`cjIoReceiveBlock` |
| e-com session (`ecom/cjio.c`, `cjio_user.c`, `cjctapi.c`) | the open device, the T=1 state inside it | open (resynchronise), send, receive, close (EJECT ICC, detach) | kernel device or libusb; called by CT-API |
| CT-API front end (`ctapi/ctapi.cpp`) | list of contexts, initialisation count, one global mutex, one mutex per context | `CT_init`, `rsct_init_name`, `CT_data`, `CT_close`, `rsct_setkeycb`, `rsct_ifd_ioctl` | any number of application threads above, one driver object per context below |
| IFD handler (`ifd/ifdhandler.c`) | table of LUNs, use count, one mutex per LUN | create, close, power, transmit, control, presence | pcscd threads above, CT-API below |
| CCID layer (`cjeca32/CCIDReader.cpp`, `BaseReader.cpp`) | sequence number, card state, active protocol, ATR | slot state, power, set protocol, transmit, secure PIN entry | USB or serial communication; interrupt callbacks |
| Reader object (`cjeca32/Reader.cpp`) | the reader object, critical sections | forwards every call | CCID layer |
| Model specific readers (`EC30Reader.cpp`, `ECxReader.cpp`) | module and key lists, flash state | module update, module activation | CCID layer |
| USB (`USBUnix.cpp`, `ausb/`) | device handle, transfer of the interrupt pipe | open, write, read, interrupt poll | libusb |
| Serial (`SerialUnix.cpp`) | file descriptor, frame state | framing, ACK/NAK repetition | tty |
| Part 10 (`ifd/part10.c`) | none: translates structures | `PIN_VERIFY`, `PIN_MODIFY` | CT-API commands, which the CCID layer parses again |
| Vendor commands (`ctapi/ctapi_special.cpp`) | the data and the signature collected for an update | key update, module upload, flash, delete | Reader object |
| `ppa` driver (`ppa/cjdata.c`, `cjccid.c`) | per handle: protocol, sequence bits, IFSC, slot status, cancel flag, selected file | `ctapiInit`, `ctapiData`, `ctapiClose`; T=0 and T=1 in the driver | a CCID reader over USB; interrupts |
| `libdialog`, `libcyberjack`, configuration, tools | see "Not modelled" | | |

What is hard here: a half duplex block protocol whose repetitions must neither
lose nor repeat a command while blocks are damaged, lost or late; sessions that
break off in the middle and are followed by others; threads that share a list
that is only partly locked; use counts that pair initialisation and shutdown
through a dozen failure paths; readers that disappear during a call; cards that are
changed between two steps of an activation; parts of a response fetched one by one and
put together; positions and lengths of a PIN recounted three times on their way to the
keypad; updates that are refused or fail half way.

What makes the parts correct:

- T=1: at most one execution per command, of the command as the application wrote
  it, and the response of that execution (`ExchangeSpec`); sequence numbers in
  step after each success (`InStep`); no write beyond the response buffer
  (`ResponseBuffer`); repetitions are the right slice of the command
  (`SendWindow`); single disturbances are absorbed (`Recovers`); every call ends
  (`Terminates`).
- CT-API: a number and a port belong to one context (`ContextsUnique`); the count
  of users is right (`InitCounted`); no use of a freed context (`NoDangling`); one
  command at a time per reader (`DataExclusive`); every call ends (`CallsReturn`).
- IFD handler: an open channel keeps its entry (`OpenHasStatus`), the use count is
  the number of channels (`CountsChannels`).
- Card slot: the protocol and the ATR on record are those of the card that is
  powered (`ProtocolAgrees`, `AtrOfCard`); a command that reports an activated card
  has activated one (`ActivatedIsActive`); every command returns (`CommandsReturn`).
- PIN entry: the PIN is written where the application's structure says
  (`PositionHonoured`) and has the length it allows (`LengthsHonoured`); cancellation,
  timeout and the card's answer are told apart on every way in (`OutcomeReported`); the
  application's key callback survives INPUT (`CallbackKept`).
- Commands for the card: T=1 in `ppa` keeps the promise of `ApduExchange` too
  (`ExchangeSpec`, `InStep`); T=0 puts the parts of a response together in order
  (`T0Response`); every command returns (`TransmitReturns`).
- `ppa` slot: a card that is left powered is ready to be used (`PoweredIsReady`) and an
  activation's answer tells whether there is one (`AnswerTells`); commands return
  (`Returns`).
- CCID link: an answer belongs to its command, as long as not nearly all sequence
  numbers were used up by mistaken interrupt messages (`OwnAnswer`), and it is executed once
  (`ExecutedOnce`) and returns (`Returns`).
- Updates: the driver's module list follows the reader (`ListFresh`); what is flashed is
  what was uploaded (`FlashedIsUploaded`); a key file is followed to its end
  (`KeysUpdated`); calls return (`Returns`).

## Modules

| Module | Models |
|---|---|
| `T1` | `cjT1SendCmd` alone, against a reader that may send any block at any moment |
| `T1Link` | `T1` composed with sessions, a T=1 reader and a line that damages, loses and delays blocks |
| `ApduExchange` | the abstract promise of an exchange; `T1Link` refines it |
| `CtApiProofs`, `CardSlotProofs`, `PinEntryProofs`, `PpaSlotProofs`, `CcidLinkProofs` | the theorems about the module each is named after, with their proofs |
| `T1Proofs` | the theorems about `T1` and `T1Link` |
| `PpaT1Proofs` | the theorems about `PpaT1`, and about `T0` in `Transmit` |
| `DriverProofs` | the theorems about `IfdHandler` and `ModuleUpdate` |
| `CtApi` | the CT-API front end under several threads |
| `IfdHandler` | the PC/SC handler's table and use count |
| `CardSlot` | the card slot of the CCID readers: power, ATR, protocol, CT-BCS commands, loss of the device |
| `PinEntry` | secure PIN entry from the part 10 structure, the CT-BCS command or the ioctl to the SECURE message, and INPUT key by key |
| `PpaT1` | T=1 as the `ppa` driver itself speaks it, with a card that follows the standard; refines `ApduExchange` as well |
| `T0` | T=0 in both drivers: the loops over 61 and 6C |
| `PpaSlot` | the slot of the `ppa` driver: activation step by step, the terminal's commands, interrupts |
| `CcidLink` | the link below `CCCIDReader::Transfer`: sequence numbers, the serial line's acknowledgements and repetitions |
| `ModuleUpdate` | vendor commands, module list and keys |
| `MCT1`, `MCT1Link`, `MCCtApi`, `MCIfdHandler`, `MCCardSlot`, `MCPinEntry`, `MCPpaSlot`, `MCCcidLink`, `MCModuleUpdate` | the instances TLC checks |
| `Transmit`, `MCTransmit` | `PpaT1` and `T0` side by side, a command by the protocol of the card; its instance |

In every module, definitions that nothing refers to and that stand right before a
definition of a similar name (`FlipUnmasked` before `Flip`) are faulty variants of
it: bugs the properties are known to notice.

### T1

State: `ns`, `nr`, `ifsc`, `wtx` are the fields of `CJ_T1_INFO`; `cmd`,
`maxRspLen`, `sendptr`, `more`, `lastiicc`, the three counters, `rsplen` and `block`
are the locals of `cjT1SendCmd` of the same names; `rsp` is what was copied to the
application's buffer, `tx` what the step put on the line. Actions: `SendCmd` is the
entry up to the `while` loop; one `Recv...` action per branch of the loop stands for
one pass from the receive to the next receive or to the return. Each write may
fail, and an action that writes has that outcome too. A block is a record: the PCB
decoded, the information field as a sequence, and `rc`, whether the LRC matches. The
distinction the code makes between a damaged header and a wrong LRC is the argument
of `RecvBad`.

### T1Link

Adds the session (`HostOpen` / `HostOpened`: reset the numbers, send detach and
S(RESYNCH), compare one block; `HostClose` / `HostEject`: EJECT ICC, then detach), the
result handling of `CT_internal` (any failure but a bad parameter ends the session),
the receive (`HostReceive`, `HostTimeout`) and the difference between the two
transports, chosen by `device` in the initial state: the kernel device is drained before every write and read with a
timeout; libusb does neither, so a block lost there blocks the driver for good and
`Lose` is for the kernel device only. The reader and the line are external: the reader is
a T=1 station with the conventions the driver expects (see the head of the module), and
may interpose S-block requests; the line damages (`Damage`) or loses (`Lose`) the next
block in either direction, and a timeout while a block is under way is a late answer. A byte
of a command is the pair of its call and its position, a byte of a response the pair of the
execution and its position, so that no two bytes are taken for each other however long
commands are.

`ApduExchange` says what this should amount to; its `Execute` is the reader's
execution, its `Succeed` and `Fail` are the return of a call.

### CtApi

State: the list of contexts as a sequence of addresses, the heap of
`Ctapi_Context` objects, `_ctapi_init_count`, both kinds of mutex, and per thread the
call it is in, the label and the pointer it holds. A step ends where another thread can
interfere with effect. `InitRefused`, `InitStart`, `OpenFails`, `OpenSucceeds` are
`_init_common1`; `OpenSucceeds` goes on into `_init_common2`, whose `CT_data` runs
through the same actions as the application's. `FindNext` is one element of the list
walk that no mutex protects. `Transfer` is `CT_internal` with its three kinds of result.
What a thread does after touching freed memory is not modelled: it stops.

### IfdHandler

State: `rsct_ifd_driver_initialized`, the table, CT-API's context of each LUN,
pcscd's view, and per LUN the call in progress. `++` and `--` of the count are a read
and a write. pcscd makes one call per LUN at a time; with `Serial` it also creates and
closes one channel at a time.

### CardSlot

State: `host` holds the members of `CBaseReader` that say what the driver knows of
the card (`m_ReaderState`, `m_ActiveProtocol`, `m_PossibleProtocols`, `m_ATR` with its
length: 0 for none), `slot` what is in the reader, `comm` and `object` the
communicator and reader objects, `command` and `todo` the CT-BCS command in progress
and the messages it still has to send. One action is one `CCCIDReader::Transfer` with
the code that follows it up to the next one or to the return: `IccPowerOn`,
`IccPowerOff`, `SetParameters`, `SetSyncParameters`, `GetSlotStatus`, `XfrBlock`.
`CtData` starts a command, `Connect` makes the reader object, and `Return` includes
what `CReader::CtData` does with the result. Between two messages a card may be
removed or inserted and the reader unplugged; an answer tells the driver no more
than its status byte. A failed write or read closes the device; only a failed write
deletes the communicator (`TransferFails`).

The reader and the cards are external. A card is the kind of its ATR as `AnalyseATR`
tells them apart, the protocols it offers and whether its ATR is accepted at the first
reset; the bytes of the ATR are left out. The reader answers each message with the
message type that belongs to it, and never refuses to power down.

### PinEntry

State: the reader, the way in (`entry`), the request, CT-BCS command and CCID message it
has become, the keys typed in INPUT, and the key callback with what was registered
and saved. `verifyStructToCtapi` and its counterpart for MODIFY are `part10.c`; the
parsing in `_CtData` and the limits of `CEC30Reader` are operators from a command to a
message; `IfdPinDirect` is the vendor ioctl, with the guards of `IfdVendor` and the reader
(`DirectCheck`: lengths, room for the answer, the kernel's version);
`ReaderAnswers` is what becomes of the outcome on each way back. Lengths and
positions keep their width (a nibble, a byte) where the code packs them. A template is
the length of its APDU. The properties compare the message with the structure through `Offset`
and `Position`, which say where its fields put the PIN.

### PpaT1 and T0

`PpaT1` has the locals of `APDU2TPDU_T1` (`sbuffer`, `sblock`, `error`, `lenr`, `room`
for `maxresp`) and the handle's `PCB_seq` and `IFSC`. `CtData` is the entry,
`XfrBlock` a block to the card and its answer, `Receive` one pass through the loop with a
disjunct per kind of block; `RecvPin` is `PVMVT1`. `clean` is history: no call has failed
since the card was activated. The card is external, and may answer with S(WTX), S(IFS) and
S(ABORT).

`T0` is one command in one of three drivers: `ppa`, `CEC30Reader` for PC/SC (the default)
and `CEC30Reader` with `NORM_ISO`. One exchange is one action; the handlers `Whole`,
`GetsLe`, `GetsLa`, `GetsPart`, `GetsStatus`, `GetsMore` are the places where the code
looks at an answer. A card may answer a command that carries data with 61 or with 6C, which
the code treats alike. A length byte of 0 stands for `Max` (256). Where the code reads
beyond what it received, the value is chosen freely. `Transmit` puts `T0` next to `PpaT1`: a
card speaks one of the two. `MixesUp` names three cases in which
the code returns data as status or status as data (see "Known defects"); `T0Response` is
about all others.

### PpaSlot

State: the handle's protocol, slot status and cancel flag, the reader's parameters, the
card and the rate it uses, the terminal's selected directory and file, and `act`, the
command in progress with the step of the activation it is at. One action is one CCID
message with the code up to the next one; interrupts and the user's actions come between
any two. The reader may refuse parameters (`SetParameters(FALSE)`); what the driver makes of
it depends on the status bits, as in `cjccid_SetParameters`, and `refused` remembers it.
`TransmitStep` is a command to the card, reduced to its result: T=0 and memory cards are
switched off whenever a block fails, T=1 cards when they stay mute.

### CcidLink

State: `m_SequenceNo`, the response buffer's `bSeq`, and the line in both directions as
sequences of items. Over USB an item is a message or a response. Over the serial line an
acknowledgement is an item of one byte; a reader of bytes that takes part of a longer item
for something else leaves a `"torn"` one behind. `WriteMessage`, `Accept` and the
reading of a response are `CSerialUnix::Write`, `Read` and `Transfer` (a header that
arrives before the checksum is found wrong does change `bSeq`); the reader
executes every intact message and repeats a response that was not acknowledged.

### ModuleUpdate

State: the context's `dataToFlash` and signature, the reader object's copies of the
module list and the key numbers, the call in progress, and the reader with its modules
and keys. One action is one escape message with what follows it; each may be accepted,
refused, or fail, executed or not. A key may be too long to be sent (`TooLong`). The numbers and versions of the keys of a file are
1 to 254: 255 marks an empty slot, 0 the signer of a root record.

## Runs

| Run | Configuration | Checks | Result |
|---|---|---|---|
| `t1_driver` | `MCT1.cfg` | `TypeOK`, `ResponseBuffer`, `SendWindow` | hold |
| `t1_link` | `MCT1Link.cfg` | `InStep`, `Recovers`, `ExchangeSpec`, `Terminates` | hold |
| `t1_ack` | `MCT1Ack.cfg` | `NextIBlockAcknowledged` | violated: finding |
| `ctapi` | `MCCtApi.cfg` | `TypeOK`, `ContextsUnique`, `InitCounted`, `DataExclusive`, `CallsReturn` | hold |
| `ctapi_threads` | `MCCtApiThreads.cfg` | `NoDangling` | violated: finding |
| `ifd_handler` | `MCIfdHandler.cfg` | `TypeOK`, `OpenHasStatus`, `CountsChannels` | hold |
| `slot` | `MCCardSlot.cfg` | `TypeOK`, `ProtocolAgrees`, `AtrOfCard`, `ActivatedIsActive`, `CommandsReturn` | hold |
| `pin_entry` | `MCPinEntry.cfg` | `PositionHonoured`, `LengthsHonoured`, `CallbackKept`, `OutcomeReported` | hold |
| `transmit` | `MCTransmit.cfg` | `InStep`, `T0Response`, `ExchangeSpec`, `TransmitReturns` | hold |
| `ppa_slot` | `MCPpaSlot.cfg` | `TypeOK`, `PoweredIsReady`, `AnswerTells`, `Returns` | hold |
| `ccid_link` | `MCCcidLink.cfg` | `OwnAnswer`, `ExecutedOnce`, `Returns` | hold |
| `module_update` | `MCModuleUpdate.cfg` | `UpdateTypeOK`, `ListFresh`, `KeysUpdated`, `FlashedIsUploaded`, `Returns` | hold |

### Findings

- `t1_ack`: the acknowledgement of an I-block is recognised by the low nibble of the
  R-block only (`cjt1.c:449`). When the I-block of a chain is lost, the reader repeats
  the acknowledgement of the one before, and the driver moves on. With two or three
  blocks the exchange still fails or recovers properly (`t1_link` checks
  `ExchangeSpec`); with four, a piece in the middle of the command is cut out and the
  reader executes the rest. A command has at most 261 bytes and the IFSC is 255
  unless the reader lowers it with S(IFS), so this takes a reader that does.
- `ctapi_threads`: `findContextByCtn` walks the list without the mutex, so a thread
  can stand on a context that another thread, closing its own reader, deletes.

### Known defects the properties step around

The models contain these behaviours; a property that holds says in its comment which of
them it excludes.

- `CT_init` waits for itself: `_init_common2` calls `CT_close` with `ctapi_status_mutex`
  held when the reader information query fails (`ctapi.cpp:1275`). `CallsReturn` is about
  applications that do not meet it.
- The entry of a lost reader survives `IFDHCloseChannel` (`ifdhandler.c:327`), and the
  replugged reader is refused while another channel is open.
- With `Serial = FALSE` in `MCIfdHandler.cfg`, `OpenHasStatus` is violated in eight states:
  two concurrent creations both find the count at 0, and the second clears the first
  one's entry.
- A card with an unknown ATR is left in state `SCARD_POWERED`; the next GET STATUS answers
  -128 and the reader object is deleted as a lost device (`CCIDReader.cpp:1160`).
- After an S(RESYNCH) in the middle of a command the I-block is resent with its number
  patched and its LRC not recomputed (`cjt1.c:451`), so it must be rejected; `T1` has it
  as `rc`, and `ExchangeSpec` holds with it. After a command has failed, EJECT ICC
  goes into a session that has not been resynchronised and may complete a cut-off
  chain, which is why `ApduExchange` promises less between sessions. A late answer and
  a damaged block together let driver and reader ask each other to repeat for ever;
  `Terminates` is about calls without a late or lost block.
- The driver acknowledges a block of a chained response with R(0), whatever its N(R) is
  (the "Bug workaround" at `cjt1.c:175`). A reader that is asked to go on and cannot see
  for which block takes a repeated acknowledgement for the next one: with a response of
  four blocks and two damaged blocks in a row, the driver gets a response with blocks missing
  in the middle and reports success; with three blocks the two repeat for ever. (TLC shows
  both in `MCT1Link` with `RspLens` changed to `{8}` or `{6}`, `MaxRspLens` to `{9}`,
  `MaxDamaged` to 2 and `MaxIncidents` to 0.) A short APDU's response has at most 258 bytes
  and the driver accepts blocks of 255 (`cjio.c:185`), so a reader that uses them sends at
  most two, and the theorems about `T1Link` are about such responses (`ShortResponses`).
- `APDU2TPDU_T0` returns a status of two bytes after 6C without looking at `*lenr`
  (`ppa/cjdata.c:401`); `TransmitAssumption` excludes smaller buffers.
- T=0 after 6C (`MixesUp`): `ppa` copies the status over the first two bytes of data when
  the card has more than Le (`cjdata.c:411`) and takes a length of 256 as 0
  (`cjdata.c:417`); `CEC30Reader` with `NORM_ISO` takes bytes it never received as status
  when the repeated command fails (`EC30Reader.cpp:1354`). A card that answers
  GET RESPONSE with 6C and more than Le is asked for ever (`cjdata.c:485`,
  `EC30Reader.cpp:1412`).
- `ppa` resets a card for ever whose ATR is always refused (`cjdata.c:260`), keeps the
  protocol of the previous card for an unknown memory card (`cjdata.c:238`), lowers the
  rate of a card in specific mode (`cjdata.c:265`), reports a card pulled during S(IFS) as
  a lost device (`cjdata.c:324`), answers DEACTIVATE ICC by the last interrupt
  (`cjdata.c:1626`) and sends a CRC of 0 (`cjdata.c:572`).
- On the serial line an interrupt message, or a byte that was left over, in the place of
  an acknowledgement makes the driver send a message twice, and the reader executes it
  twice (`SerialUnix.cpp:216`); an interrupt message can be returned as a response
  (`CCIDReader.cpp:122`); reading has no timeout (`SerialUnix.cpp:230`).
- The lists are refreshed after an update without a look at the result
  (`EC30Reader.cpp:614`): an empty list makes `FindModule(MODULE_ID_KERNEL)`, used
  unchecked in several places, NULL. Keys that could not be read look like empty slots
  (`EC30Reader.cpp:277`). If VERIFY is executed and its answer lost, the list is not
  refreshed (`EC30Reader.cpp:603`).
- Fixed PIN lengths of 16 and more overflow a nibble (`part10.c:220`); tag 51 is never sent
  because `supportTag51` is never set (`part10.c:254`); a parity error or timeout in
  MODIFY falls through to 6B80 (`CCIDReader.cpp:2447`).
- `modifyStructToCtapi` reads the PIN's position within the block from `bmFormatString` and
  never uses it (`part10.c:356`): a modification with a position other than 0 (1 for format
  2) is accepted, and the PIN lands at the offset without it. `MCPinEntry` has such requests;
  `PositionHonoured` leaves them out by `PositionDropped`, and compares where the PIN lands
  for all others.
- When a PIN entry ends with `DEACTIVATED_PROTOCOL` and the card's status bits say nothing of a
  deactivation, no branch returns and the code goes on as after a success
  (`CCIDReader.cpp:2803`, `:3184`, `:3319`, `EC30Reader.cpp:1579`, `:1938`): the application is
  told of a card's answer there was not. It is the outcome `"deactivated"`, which
  `OutcomeReported` leaves out where it says what a card's answer is.
- `cjccid_SetParameters` fails for the status 41 and 42 only (`cjccid.c:349`). If the reader refuses
  the parameters while the card is active, the driver takes them as set. A T=1 card then
  does not answer S(IFS) and is switched off; a T=0 card stays powered and out of
  reach, which `PoweredIsReady` excludes by `refused`.

Outside the models: secure messaging is left on after an early return
(`CCIDReader.cpp:3094`); the key callback is called on the event thread while INPUT clears
it (`CCIDReader.cpp:159`); `GETMODCOUNT` compares with a value that is never set
(`ctapi_special.cpp:339`); byte order in `EC30Reader.cpp:608` and `:796`; READ BINARY of file
7021 and FF 9A 01 09 report more bytes than they copy (`CCIDReader.cpp:683`,
`EC30Reader.cpp:1297`); a failing notification setup leaks the handle (`cjccid.c:139`); the
libusb read passes 0 for its timeout (`ausb11.c:488`); `IFDHCreateChannel` leaks the context
when `malloc` fails (`ifdhandler.c:188`).

### Bounds and why they are enough

- `t1_driver`: commands of one and of two blocks, all kinds of blocks from the
  reader, up to three response bytes against a buffer of two, counters limited at 1
  instead of 3 and 200 (the branches compare with the limit only, and a larger limit
  adds repetitions of the same states). `T1Proofs` removes these bounds for the
  invariants.
- `t1_link`: commands and responses of one and two blocks, a buffer that
  is too small for the longer one, the real limit of 3 errors; two calls in up to as
  many sessions, over both transports, with up to three damaged blocks and one further
  incident, which is either a missing block or an S-request (`MaxIncidents`; the two
  together are the finding `t1_ack`). Two blocks are what the default IFSC allows, and two
  faults what it takes to disturb a repetition as well.
- `ctapi`, `ctapi_threads`: two contexts, two numbers, two ports and opening by name. Two
  kinds of application: two threads with any two calls each, and three threads that share
  readers nobody closes. In `ctapi_threads` two threads with three calls, each with its
  own reader. A race on the list takes two threads; a third shows waiting for a mutex
  twice.
- `ifd_handler`: three LUNs, five creations: enough to create, lose, close and create again
  with a second channel open. LUNs and device names are symmetric; no liveness is
  checked there.
- `slot`: a card of every kind `AnalyseATR` tells apart, of the processor cards one with a
  specific mode, one with both protocols that needs a second reset, and one with T=1
  only. Nothing else is bounded: any number of commands, card changes and lost devices.
- `pin_entry`: every combination of format, fixed or free length, PIN position 0 to 2 and 8
  (0 to 2 for modifications), and lengths on both sides of 4, 12, 15 and 16, where the code's
  limits are; offsets at 0 and at the end of a byte; readers with an old and a new kernel;
  commands that are too long or empty.
- `transmit`: T=1 with commands and responses of one and two blocks of the card's size, of
  up to three after S(IFS), three calls, three faults (one more than the driver accepts in
  a row) and one request. T=0 with a length byte that holds 0 to 2, so that 0, a
  boundary and a response longer than a byte can say all occur; one command, because the
  drivers keep nothing between two.
- `ppa_slot`: a card for each path through `ctBcsReset`, three commands, two card changes,
  one failing message: a card is activated, changed in the middle, and activated again.
- `ccid_link`: three commands with sequence numbers modulo 3, so that they wrap; one damaged
  item and one interrupt message.
- `module_update`: one module of two pieces, a key file of three records that sign each
  other, readers with no, one and two keys; three calls.

`CHECK_DEADLOCK FALSE` is set for CT-API and the IFD handler, where applications may
stop making calls and a thread that has touched freed memory goes no further, and for
`transmit`, `ppa_slot` and `ccid_link`, which end when the bounded number of calls has been
made or, on the serial line, with a reader that waits for a byte that was lost. In the
other runs deadlock is checked; `Done` in `T1Link` is the end of the bounded run.

### Fairness

`t1_link` assumes that a receive ends, by data or by the `select` timeout, and that
the reader answers what it receives; it assumes nothing about the line except that it
loses no block. `ctapi` assumes that a thread that can go on does, and
that devices answer. The applications make a bounded number of calls, so weak fairness
of each thread is enough for each to get a contended mutex in the end; with an
unbounded number it would take fair mutexes, which pthreads does not promise.
`slot` assumes that a `Transfer` ends, by an answer or by a failing bulk transfer; it
assumes nothing about users and cards. The same holds for `ppa_slot` and
`module_update`; `transmit` assumes that the reader answers every message, with the card's
answer or, after the card's waiting time, with an error. `ccid_link` assumes that the
reader answers what reaches it intact; the serial read has no timeout, so nothing is
claimed of a line that was disturbed.

## Proofs

Each proof module EXTENDS the module it is about, states an inductive invariant (`IInv`,
`Phases`, `LinkInv`, `ZeroInv`, `UpdateInv`), shows that it holds initially and that every
action keeps it, and derives the properties of the runs from it. Every safety property of a
passing run, invariant, action property or refinement, is a theorem. The theorems hold for
all values of the constants that satisfy the `ASSUME` of the module: these give the types
of the constants and exclude empty commands and blocks, responses without a status, and
numbers that have a meaning of their own (the keys of an empty slot), nothing more. Three
theorems about `T1Link` have the further hypothesis `ShortResponses`. The bounds of the runs (`MaxCalls`,
`MaxFaults`, ...) are arbitrary numbers in the theorems. TLC checked the invariants on the
runs' instances before they were proved.

| Theorem | States | For |
|---|---|---|
| `T1TypeCorrect`, `T1ResponseBuffer`, `T1SendWindow` | `TypeOK`, `ResponseBuffer`, `SendWindow` of `T1` | every set of commands and blocks, every buffer size and limit |
| `LinkNeverRepeats` | no command is executed twice, in any session | commands and responses of any length, any damage, loss and delay, any sequence of sessions, both transports |
| `LinkRecovers`, `LinkInStep`, `LinkRefines` | `Recovers` of `T1Link`; while no block is missing, `InStep`, and that `T1Link` implements `ApduExchange` | commands of any length, responses of up to two blocks (`ShortResponses`), any damage, every mix of S-requests, every limit |
| `PpaT1InStep`, `PpaT1Exchange` | `InStep` of `PpaT1`, and that `PpaT1` implements `ApduExchange` | commands and responses of any length, any block sizes and limits |
| `TransmitT0Response`, `TransmitT1` | `T0Response`, and the two theorems above, of `Transmit` | all three T=0 drivers, responses and buffers of any length |
| `CtApiTypeCorrect`, `CtApiContextsUnique`, `CtApiInitCounted`, `CtApiDataExclusive` | `TypeOK`, `ContextsUnique`, `InitCounted`, `DataExclusive` of `CtApi` | any number of threads, contexts, numbers and ports |
| `IfdTypeCorrect`; with `Serial`: `IfdOpenHasStatus`, `IfdCountsChannels` | `TypeOK`, `OpenHasStatus`, `CountsChannels` of `IfdHandler` | any finite set of LUNs |
| `UpdateTypesHold`, `ListStaysFresh`, `KeysAreUpdated`, `FlashesWhatWasUploaded` | `UpdateTypeOK`, `ListFresh` and the action properties `KeysUpdated`, `FlashedIsUploaded` of `ModuleUpdate` | any finite set of modules, images of any length, key files of any length, any number of calls |
| `SlotTypeCorrect`, `SlotProtocolAgrees`, `SlotAtrOfCard`, `SlotActivatedIsActive` | `TypeOK`, `ProtocolAgrees`, `AtrOfCard` and the action property `ActivatedIsActive` of `CardSlot` | every set of cards |
| `PinPositionHonoured`, `PinLengthsHonoured`, `PinCallbackKept`, `PinOutcomeReported` | `PositionHonoured`, `LengthsHonoured`, `CallbackKept` and the action property `OutcomeReported` of `PinEntry` | all structures and commands whose fields have their width |
| `PpaSlotTypeCorrect`, `PpaSlotPoweredIsReady`, `PpaSlotAnswerTells` | `TypeOK`, `PoweredIsReady` and the action property `AnswerTells` of `PpaSlot` | every set of cards, any number of changes and failures |
| `CcidOwnAnswer`, `CcidExecutedOnce` | `OwnAnswer`, `ExecutedOnce` of `CcidLink` | every size of the sequence number space, any amount of damage |

### The invariants, and why they are needed

`T1Proofs`, `T1`. `ResponseBuffer` and `SendWindow` are stated so that together with `TypeOK` they
are inductive: `ResponseBuffer` relates what was copied to what was received both while it
fits and after it overran; `SendWindow` speaks of the block last built, whether or not a
call is in progress.

`T1Proofs`, `T1Link`. `Basics` and `OrderOK` hold always, in sessions that were cut off and with
late blocks on the line. `OrderOK` looks at all I-blocks of the driver that can still reach the
reader, in the order in which they will: those on the line, then the one the driver keeps for
repetition. A byte the reader has taken comes before all of them, or in a block that it
will refuse by its number, with no S(RESYNCH) in between that would reset it. So every command that is
executed ends with a later byte than the ones before, which is `LinkNeverRepeats`; it needs no
phases, and holds where driver and reader are out of step.

`LinkInv` adds what holds as long as no block is missing (`Calm`). `LineOK`: at most one block is
on the line, in one direction. `PhaseOK`: the session is between calls, or in one of the
phases of a call, in which the block under way, the block each side would repeat, and the
numbers of the two sides determine each other: the reader is to receive an I-block, has
taken it and asks for the next, has executed the command and sends its response, or the
driver has taken the first block of two; in each phase the request to repeat that a damaged
block causes, and an S-request and its answer, may be under way instead. `CountersOK` relates
`errcntr` and `rerrcntr` to the damaged blocks of the call, which is `Recovers`. In the
refinement the reader's execution is `Execute`, the return of `cjT1SendCmd` is `Succeed` or
`Fail`, everything else stutters. `ShortResponses` is needed in the phase after the first
block of a response: the R-block that asks for the second has no number, and only because
the second is the last does the reader know what to do when it arrives twice.

`PpaT1Proofs`, `PpaT1`. `InStep` says nothing about a call in progress, so the invariant has to say
what the two sides know of each other at every block. It has three layers. `TypesOK`,
`DriverOK` and `CardOK` hold always: the I-block is the beginning of what is left of the
command, and the card repeats nothing but its last block. `OrderOK` also holds always, in
failed sessions too: the units the card has taken, and the last unit of everything it
has executed, precede the end of the current I-block, strictly if the card waits for it; so
nothing is executed twice, although a failed call leaves the numbers out of step. `PhaseOK`
holds until a call fails: the call is in one of four phases, `Sending` (the card waits for
the I-block), `Taken` (it has it, and wants the next one or has a request), `Replying` (a
block of the response is out) and `Chained` (the driver has it and wants the next one).
Damage, repetition and refusal stay within a phase, because a repeated block is never taken
for the next: that is `NothingKept` and the two sequence numbers. Lemmas first reduce the
card's step to one of five effects (`XfrFacts`) and the driver's to one of five
(`ReceiveFacts`); the rest of the proof is about those. The refinement `PpaT1Exchange` goes
step by step: the card's `Executes` is `Execute` (not before by `OrderOK`, the command of the
call by `PhaseOK`), `AcceptsLast` is `Succeed` with the response put together by `Store`, or
`Fail` if it did not fit, and every block in between is a stuttering step.

`PpaT1Proofs`, `T0`. `ZeroInv`: while a command is in progress nothing has been returned, and unless
one of the cases of `MixesUp` has happened, what the driver has gathered is what the card has
handed over (`Gathering`, which also says what the length bytes of each step stand for); each
of the loops over 61 and 6C keeps it, and each return turns it into `T0Response`. The part of T=1
does not notice (`TransmitT1`).

`CtApiProofs`. Uniqueness is checked by `CT_init` under the mutex and used after a device was
opened; `CheckHolds` carries the result of the check up to `addContext`, for which
`MutexHeld` and `ListedAlive` say who may change the list in between. `TransferHolds` says
that, as long as nobody closes, a thread that talks to a reader holds the context's mutex.
The proofs of the first three theorems cover applications that
close readers other threads are using; `NoDangling` is false there (run `ctapi_threads`).

`DriverProofs`, `IfdHandler`. The use count is read and written in two steps, so the invariant says
that only one LUN is in between (`OneManager`) and that what it has read is still the
count (`ReadFresh`); `count = Cardinality(Users)` then counts the channels and the
calls that are about to have one. Both need `Serial`, pcscd's habit of creating and
closing one channel at a time; without it `OpenHasStatus` is false (see "Known defects").
`TypeOK` does not need it.

`DriverProofs`, `ModuleUpdate`. `UpdateInv` has one part per copy the driver keeps. `CallOK` says which
steps an operation has and where it is in `dataToFlash`. `ListOK`: unless the call in progress is
going to read the list (`ListDue`) or it could not be read, it is the reader's; so a step that
may change the reader's modules must go on to one that reads them or tell that it did not.
`FlashOK`: what the reader has received is the beginning of `dataToFlash`, all of it before
VERIFY, and after VERIFY a whole image. `KeysKnown`: as long as the reader can be reached, the
driver has its keys, or takes every slot for empty, or believes to know no key at all and
skips every record. `KeysOK` is the invariant of `CtKeyUpdate`'s loop. That every record
before the current one is behind the reader's keys is not inductive: a driver that takes
the slots for empty skips all but the newest version of each key, so a record may be
skipped although the reader has an older key. What is invariant is that such a record is
`Settled`: behind the reader's keys, or followed, from the current record on, by a newer version of
the same key. `SkipSettles` shows this for a record that is skipped, `KeySettles` for one that was
written; both rest on the versions rising, which `_CtIsKeyUpdateRecommended` checked before the
first message. At the end of the file nothing follows, and `Settled` is `KeysUpdated`.

`CardSlotProofs`. `Agrees` is the meaning of `ProtocolAgrees` and `AtrOfCard` for any state of
the slot and the driver's members. `Plan` says which messages a command in progress still
has to send, `Decided` that what AnalyseATR and IfdSetProtocol decided still holds when
their message is sent, `Attached` that there is a reader object and only a lost device is
closed. Each message is then shown to keep `Agrees` or to end with the card off.

`PinEntryProofs`. `CommandOfCall` and `MessageOfCall`: the CT-BCS command is the conversion of
the request, and the message that of the command. `PositionHonoured` and `LengthsHonoured`
become statements about the composition of the conversions, proved with lemmas about
nibbles and bytes; for a modification `PositionHonoured` says that the position the
conversion puts in by itself is the structure's, unless that was dropped. `CallbackSaved`
says where the application's callback is during INPUT.

`PpaSlotProofs`. `Progress` says for each step of the activation whose ATR is being evaluated,
what the driver and the card agree on so far, and that a card which is powered
otherwise is ready. For T=1 it needs nothing of `refused`: S(IFS) is answered only by a card
that hears it in the reader's protocol and rate.

`CcidLinkProofs`. For `OwnAnswer`: the answers on the line are those of consecutive commands in
the order of their numbers (`InOrder`, `AllNumbered`), and at most `mistaken` commands
are behind; two of them have the same number only if a whole cycle lies between. For
`ExecutedOnce`: as long as the line is undisturbed, a transfer is in one of the phases
`Quiet`, `Sent`, `Executed`, `Answered`.

### What proving changed in the models

Proofs use definitions more strictly than TLC evaluates them. `CASE` arms that overlapped
(TLC takes the first, the logic leaves the choice open) became `IF` chains in `T1Link`,
`PinEntry` and `ModuleUpdate`. `LengthsHonoured` was false for a control
byte and a tag 51 that contradict each other in a way the instance did not contain;
`Sensible` now says which commands it is about, and the instance has such a command. `OwnAnswer` was true only of few calls: each
interrupt message that is taken for an answer leaves one answer behind on the line, and when
`SeqModulus - 1` are behind, the next has the number of a later command; the variable
`mistaken` counts them and the property says how many it takes. The units of a command are pairs in
`PpaT1` and `T1Link`, because numbers computed from call and position coincide for long commands.

The proof about `T1Link` failed for responses of three and more blocks, and TLC then
found the gap that the unnumbered R-block leaves (see "Known defects"); the run has responses of
two blocks. The assumption `LinkAssumption` says what the S-requests of a reader are, and
`GaveUp` distinguishes a call that ended at the limit of waiting time extensions. In `T0` the proof
asked for a buffer of two bytes, the status `APDU2TPDU_T0` copies without a check
(`TransmitAssumption`). `KeysUpdated` needed the file's versions to be numbers below
255: a record with the number of an empty slot would be taken for one.

### What is model-checked only

- Liveness: `Terminates`, `CallsReturn`, `CommandsReturn`, `TransmitReturns`, `Returns`.
  Fairness and ENABLED are beyond the prover.
- `InStep` and `ExchangeSpec` of `T1Link` when a block is missing, lost or late. A session with a
  late answer stays off by one block until it is given up, and the invariant would have
  to say for how long; the run has one missing block. `LinkNeverRepeats` does cover it.
- The two findings, which are violations.

## Not modelled, and why

A third of the repository's source lines are data or generated: `ntstatus.h` (status codes),
`icons.cpp`, `easy_dat.c` (tables). Of the rest, the tools and their windows, the check
suite, the dialog, logging and USB enumeration for several systems are display, file I/O
or clients without a protocol. In particular:

- `libdialog`: sends display messages to another process; its failures are ignored.
- `libcyberjack`, configuration, tools, check suite: clients and file I/O.
- USB enumeration: reads a list of devices. The URB bookkeeping of the libusb back ends
  depends on the kernel interface.
- `ppa`: the parsing of its PIN commands, which `PinEntry` has for the current driver; the
  interpreter of memory cards (`SyncInterpreter.c`), whose programs are tables of clock
  sequences; the update of the old firmware.
- Of CT-BCS: OUTPUT and the terminal's file commands of `cjeca32`; of the vendor
  commands, the ones that only read.
- S(RESYNCH) from the card, for which `APDU2TPDU_T1` has a branch (`cjdata.c:694`): ISO 7816-3
  leaves that request to the interface device, and the cards here keep to it.
- The update of a reader's kernel, after which `CtLoadModule` sleeps while the reader
  starts again (`EC30Reader.cpp:606`): a matter of time only.
- Contents of APDUs, ATRs and messages, beyond what a property tells apart.

## Plan

1. Done: T=1 (`T1`, `T1Link`, `ApduExchange`, `T1Proofs`), CT-API (`CtApi`), PC/SC
   (`IfdHandler`), the card slot of the CCID readers (`CardSlot`).
2. Done: secure PIN entry (`PinEntry`), the `ppa` driver (`PpaT1`, `PpaSlot`), T=0 (`T0`), the
   CCID link with the serial line (`CcidLink`), updates (`ModuleUpdate`).
3. Done: theorems about `CtApi`, `IfdHandler`, `CardSlot`, `PinEntry`, `PpaSlot`, `CcidLink` and
   `PpaT1`, with the refinement of `ApduExchange` by `PpaT1`.
4. Done: theorems about `T1Link`, with the refinement of `ApduExchange`, about `T0` in `Transmit`,
   and about `ModuleUpdate`. Every safety property of the runs is now a theorem.
5. Left: missing blocks in the refinement proof of `T1Link`; the terminal's file commands and
   OUTPUT of `cjeca32`, the memory card interpreter of `ppa`.
