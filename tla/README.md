# Verification of vtrpk-arm-enc-app

TLA+ models of the thermal-camera encoder application for the TI DM365
(`src/teplovisor/`, the *board*) and of its protocol with the Windows program
that configures it (`src/configurator/`, the *host*): model-checked with TLC on
small instances, and most of it proved with TLAPS for every instance.

The board captures frames from a camera, records them to a USB stick, codes
them with the DSP's H.264 encoder and sends them over a slow serial line. The
same line carries the commands of the host and the answers to them. Two threads
share nearly everything: the *main thread*, which runs `run()`, and the *asio
thread*, which runs the completion handlers of the serial port. Every request for
a configuration starts a detached thread of its own, and a second serial port
(the *control port*) and the FLIR camera's port have threads too.

Contents: [1 Inventory](#1-inventory) ·
[2 Modules](#2-modules-and-how-they-correspond-to-the-code) ·
[3 Runs](#3-runs) · [4 Fairness](#4-fairness) ·
[5 Disagreements](#5-where-the-code-disagrees-with-itself) ·
[6 Proofs](#6-proofs) · [7 What is not modelled](#7-what-is-not-modelled-and-why) ·
[8 Plan](#8-plan)

## 1 Inventory

### 1.1 Components

| component | source | state it keeps | operations |
|---|---|---|---|
| transmit path of `Comm` | `comm.h` `CircBuf`, `comm.cpp` | ring `m_buf`, `m_w`, `m_r`, `m_re`, `m_empty`; `m_sending_in_progress`, `m_no_actual_transmitting`, `m_out_count_lsb`, `m_transmit_lock` | `transmit`, `transmit_pkt`, `transmitted`, `drop_unsent`, `allowTransmission`, `setTxBufferSize` |
| receive path of `Comm` | `comm.cpp` | two buffers `m_in_buf`, `m_in_ff_idx`, `m_cur`, `m_remains`, `m_in_count_lsb` | `recv_chunk`, `recv_pkt` |
| protocol | `proto.cpp`, `proto.h` | `m_enc_cfg`, `m_md_cfg`, `m_roi`, `m_first_packet_was_received`; on the host `Client` and its `Cmds` with a flag for each type of answer | `Server::Callback`, `execute`, `SendCfg`, `getEncCfgChunk` ..., `Client::Get*` |
| command handlers | `servercmds.cpp` | none of their own: `g_stop`, the EEPROM, the motion-detection registers | `Hello`, `Start`, `Stop`, `SetEncCfg`, `GetEncCfg`, `SetBitrate`, `SetCameraID`, ... |
| frame loop | `main.cpp` `run()` | `to_skip`, `adapt_bitrate_pos`, `bs`, `coded_size` | one pass per captured frame |
| life of `run()` | `main.cpp` `main()` | `g_stop`, `g_shutdown` | wait, set up, loop, exception, shutdown input |
| recorder | `avimux.cpp` `FileWriter` | `_frames`, `_fnames`, `_cur_file_idx`, `_fstream`, `_media_is_ready`, `_copy_to` | `add_frame`, `next_frame`, `check_media`, `delete_old_files`, destructor |
| settings store | `utils.cpp`, `defines.h`, `servercmds.cpp` | EEPROM areas: encoder configuration, motion-detection configuration, ROI, camera id, streaming mode, hardware status | read, write and read-modify-write from several threads |
| control port | `control.cpp` | bytes of a partial packet | parse, dispatch, answer, report status |
| FLIR port | `flir.cpp` | the baud rate found | `detect_baudrate`, `send`, `wait_for_answer` |
| encoder | `enc.cpp` | codec handle, CMEM blocks, RMAN registration | constructor, `encFrame`, destructor |
| capture | `cap.cpp` | three driver buffers, file descriptors | `getFrame`, `putFrame`, set-up ioctls |
| parameter file | `read_params.cpp` | none | parse text into a table |
| helpers | `auxiliary.h`, `main.cpp` | memory-mapped registers | `SendTimestamp`, register and camera messages, motion mask |
| host serial layer | `configurator/comm.cpp` | as `Comm`, but `transmit` waits for room | as `Comm`, drops packets with a bad CRC; `open`, `close` |
| host windows | `configurator/*.cpp` | what the user edits: regions of interest, detector presets, port settings | Stop, transfer, Start in that order, also inside one another |
| sensor driver | `teplovisor.c` | streaming flag | V4L2 sub-device calls |
| board file | `board-dm365-evm.c`, `teplovisor-fpga.c` | | platform data; a file of Linux's 9P file system |
| vendored | `jbig*`, `cmem.*`, `alg_*.c`, `h264venc*.c`, `hdvicp_framework.c`, `testapp_*.c` | | third party |
| tools | `recv_test`, `upload_cfg`, `avi_mux_test` | | drivers of the classes above |

### 1.2 How they interact

* `run()` and the reply threads call `Comm::transmit()`; the asio thread calls
  `transmitted()`. They share the ring, under `m_transmit_lock`, except that
  `full()`, `size()` and the transmission flag are read and written without it.
* The asio thread calls `recv_chunk()` → `recv_pkt()` → `Server::Callback()` →
  `execute()` → a command handler. `Hello` and `Stop` call `drop_unsent()` on the
  ring that `run()` is filling.
* Command handlers steer `run()` through `g_stop` and through the EEPROM only.
  `main()`'s exception handler and the shutdown input write `g_stop` too.
* `run()` gives every frame to `FileWriter` and codes what `next_frame()` gives
  back, which may be an older frame.
* `run()` asks `getBufferSize()` once per frame and adapts the number of frames
  it skips: the line's speed reaches the encoder through the ring.
* The host sends requests, waits for the answer with a timeout, and takes the
  first message of the right type for the answer. While it waits it handles the
  events of its windows, so that another window may ask inside it.
* `run()` takes buffers from the capture driver, writes them to a file and queues
  them to the driver again *before* it codes them.
* `Flir` has the second serial port while the program starts, `Control` has it
  afterwards.

### 1.3 What is hard, and what makes each component correct

The full list, line by line, is `hazards` in `PROJECT.json`. In short:

* **Transmit path.** Looks outside the lock, a ring that is cut back by another
  thread, a write in progress on memory in the ring, errors of a write. *Correct*
  when it is a FIFO queue with consecutive packet numbers, when what is being
  written is never touched, and when nothing stays in it for ever.
* **Receive path.** The port cuts the byte stream anywhere and the bytes end in
  either of two buffers. *Correct* when the packets found do not depend on the
  cuts.
* **Configuration transfer.** Loss, a full ring, several replies at once, lengths
  at the boundary of a message. *Correct* when a configuration that is accepted
  is one that was sent, and one that is sent with nothing going wrong arrives.
* **Host session.** Handlers inside handlers with one callback between them,
  answers that come after the time-out, a ring that is forgotten, a camera filter
  on both sides, damaged packets that are executed. *Correct* when no callback
  outlives its handler, an answer is the answer, and board and window agree.
* **Frame loop.** A feedback loop through integer percentages with hand-written
  thresholds, an unsent remainder, an "off" state with one way back. *Correct*
  when the level stays in the table and does not flap, and frames keep coming.
* **Life of `run()`.** One flag, four writers, no owner; a configuration that is
  read while it is written, into memory that is not cleared; a set-up of thirteen steps
  of which any may throw. *Correct* when Stop stops soon, no exception and no command
  ends the program, the encoder runs with what is stored, and every run()
  gives back what it took, in an order the driver survives.
* **Recorder.** A delay line through files, a buffer that is the driver's again
  before it is coded, a stick that comes and goes, deletion to make space, files that
  fail, exceptions in a destructor. *Correct* when frames are given out in turn, with
  their pictures, and each is on the stick once.
* **Second port.** A search that hears late answers, then a parser that never looks
  for the beginning of a packet, and a reader that runs before it is constructed.
  *Correct* when the camera is found exactly if it
  is there, the search ends, and each packet is answered once.
* **Conversions.** Windows, configuration, registers and camera messages hold the
  same things in different units, and files hold them as text. *Correct* when what
  was set is what is shown again; section 5 lists where it is not.

## 2 Modules, and how they correspond to the code

`PROJECT.json` (`map`) gives the source lines of every definition. Operators
whose name says what they break (`PushUnchecked`, `DropAll`, ..., with a comment
that starts with "Fault:") are not part of any specification: they are plausible
mistakes in that definition, kept to show that the properties notice them.

### TxQueue: what the transmit path promises

An abstract bounded queue: `Accept` numbers and appends a packet, `Start` hands a
prefix to the port, `Complete` removes exactly that prefix, `DropUnsent` keeps
exactly it.

### CommTx: the transmit path

| code | model |
|---|---|
| `m_out_buf.m_buf`; pointers `m_w`, `m_r`, `m_re`; `m_empty` | `buf`; slot numbers `w`, `r`, `re`; `empty` |
| `m_transmit_lock`; where a caller of `transmit()` is | `lock`; `pc[t]`, `req[t]` |
| the buffer given to `async_write` | `chunk` packets from `r` on |
| `transmit()` | `Call`, `Check` (the unlocked `full()`), `Acquire`, `Push` once per packet, `Release` |
| `transmitted()` | `Written` or `Failed` (`taken()` moves `m_r`), then `TakenDone` (`m_empty`, next write) |
| the assertion in `taken()` | `Torn` |
| `drop_unsent()`, `allowTransmission()` | `DropUnsent`, `AllowTransmission` |

Steps are cut exactly where another thread can see the difference: before and
after the lock, and between the two assignments of `taken()`. `async_write` may
already be reading while the lock is still held; nothing in the rest of the
critical section touches its buffer, which is what `ChunkStable` says. A packet
is its camera and its number; the payload is not looked at. Statistics counters
are left out.

`MCCommTx` holds values for TLC. `setTxBufferSize()`, which runs once while the
program starts, is not an operation of the model (section 7).

### CommRx: the receive path

`Receive` is the asynchronous read that delivers any number of bytes, `Loop`,
`Straddle` and `Scan` the three parts of `recv_chunk()`'s loop, `Rearm` its end.
The stream is an arbitrary sequence of bytes, of which one value is the preamble:
garbage between packets, false preambles inside payloads and truncated packets are
all among them. `PacketsOf` is the reference definition: the packets of the whole
stream, found without cuts and buffers.

### CfgTransfer: a configuration across the line

`SendCfg()` (`Send`, with `Messages` for the cutting into messages), `transmit()`
on a bounded queue (`Check`, `Push`, `Complete`, `DropUnsent`: the queue that
`TxQueue` specifies, with the fill level visible to the caller), a line that may
lose packets, `recv_pkt()`'s counting and `getEncCfgChunk()`. Bytes are pairs
(reply, index), so that what a receiver has can be told apart from anything that
was sent. `mishaps` records what has gone wrong; the properties say what must hold
in spite of which.

### VideoLoop: the frame loop against the line

`Frame`, `SendTimestamp`, `Transmit`/`Sent`, `Adapt` are the parts of the loop
body that touch the ring or depend on it, in the order of the code; `Taken` and
`EmptySet` are the two assignments of `taken()` on the other thread. The table and
the integer percentages are those of the code. Packets are only counted. `rate` is
a property of the line that a behaviour starts with: between two frames at least
that many packets are written, if there are any; any number more may be.

### Board: the life of run()

`pc` walks through `main()` and `run()`: wait (`hold`), read the configuration
(`head`, `rest`), create the encoder (`enc`, `load`, `create`, `check`, `mem`,
`setparams`), create the camera (`cap`, `links`, `pipeline`, `formats`, `queue`, `on`),
the motion detector (`md`), then the loop (`test`, `frame`, `gpio`), and back through the
destructors (`stream_off`, `close`, `free`, `end_encoder`) to `catch`. A file is a sequence
of lexemes (`Lexemes`) and the area holds `EeLen` of them; it may be erased in the
beginning.

| code | model |
|---|---|
| `g_stop`, `g_shutdown`, the shutdown input | `stop`, `shutdown`, `gpio` |
| encoder configuration in the EEPROM: size field, bytes | `size` (`EeLen + 1` for every size that cannot be), `eeprom`, written in two pages by `Command`/`SetEncCfgRest` (asio thread) or `WriteDefault` (`main()` after an exception), read in two by `ReadHead`/`ReadRest` |
| the EEPROM's file cannot be opened | `ReadNothing`, `DefaultUnwritten`; in the handler of `SetEncCfg` nothing happens |
| `Enc::load_params()` with its uncleared buffer | `LoadParams`, over `heap`; where the parser leaves its tables or follows a pointer nobody set (`Wild`) it crashes or reads any numbers |
| EDMA channels, codec handle, RMAN, CMEM buffers, descriptors, links, queued buffers, streaming | the fields of `res` |
| an exception, or memory or descriptors that have run out | `Throw`, `OutOf`; what each set-up step may leave half done is `Partial` |
| `break_links()`, which promises nothing | `BreakLinks`: the links are broken or stay |
| unwinding: destructors of what was constructed, none of what was not | `UnwindFrom`, `StreamOff` ... `EndEncoder`; `stop_streaming()` may throw, which ends the program (`Terminate`); RMAN may keep resources, which is only logged (`RmanKeeps`) |
| `main()`'s handler | `Catch` |
| `Stop`, `Start`, `SetBitrate` (clears `g_stop` as well), `SetEncCfg` | disjuncts of `Command` |

What an object leaves behind when its *constructor* throws has no destructor to
release it: `lost` counts buffers, `maps` mappings of `/dev/mem`, `mishaps` names
the places.

### ParamFile: the encoder's parameter file

`readparamfile()` and `ParseContent()` over lexemes (words, spaces, newlines,
`=`, `#`): `ParseContent` follows the code's cutting into items and its counting in
threes; `Meaning` is what the lines say, found by their positions in the file and
without a scan: the words of each line, the assignment they are, and for each name the
last one before the first line that is neither empty nor an assignment. `ReadAsMeant`
says that the two agree and that no item is left over; `Regular` describes files as they
are written (`DefaultEncCfg` is one): every line is ended, and empty but for blanks and a
comment, or `name = value` with spaces (or tabs) between, and the same behind.
`ParserReadsLines` (MCBoard) compares parser and meaning on every file of up to three of
the lines given there, comments, unknown names, carriage returns and a missing value
among them; that the parser reads every regular file as it is meant is proved. `Fits`
says that each item belongs to an assignment and that there is room for them in the
table (`CFG_MAX_ITEMS_TO_PARSE`); for other files the code's behaviour is undefined, and
no property is about them. `EncTokens` has the real table of names with their parameters
and the configuration in the program. Inside
`Board` the parser gets what
was read from the EEPROM over what the memory held before; `Behind` is what it finds
after the end of the file, and the history variable `behind` remembers that this was
several words, which the parser takes for assignments if they stood in a comment of
the older file.

### Recorder: FileWriter and the capture buffers

`AddFrame` is `getFrame()` and `add_frame()` whole: media check, new segment with deletion
of old files, writing, queueing. `Lead` is `snprintf("%02i")` into three bytes: the first
two digits of the fragment's number. A directory is a sequence of files in the order they
were written, with `Has`, `Place` and `Without` for what `exists()`, `open()` and
`remove_all()` do. `NextFrame` is `next_frame()` with its three cases, and `putFrame()`.
A frame is one tick of the clock and a picture is the number of its frame (0 if it is
mixed), so "the picture captured at this timestamp" can be said. `std::ifstream` is
modelled as it behaves: `open()` on an open stream fails and leaves it where it is.

Everything that touches a file may fail, as the code lets it:

| failure | model |
|---|---|
| a file cannot be made | `absent`, in `NewWriter` and `BeginSegment` |
| the muxer's stream fails: the frame is queued all the same, and no later one gets into that file | `broken`, in `Record` |
| a file cannot be opened or read: the buffer stays as it is, or is filled in part | `fails` in `NextQueued`; mishap `unread` |
| a filesystem error while the stick is looked for or space is made | `AddFrameThrows`; `run()` is unwound (`unwind`) and the destructor runs |
| a filesystem error in the destructor, of the copy, the deletion before it or the removal after it | `Terminate`: the program ends. `Finish` is the other outcome, possible only if the name is free and the first file is there |

`ring` are the buffers the driver has, in the order it fills them, and `done` how many of
them are filled; `Capture` fills the next one at any time, also between `NextFrame`, which
puts the buffer back, and `Code`. Whether the buffer that is coded is being filled
then follows from its place in the ring. `coded.late` remembers how many frames had been
captured since the one `run()` was busy with. `check_media` has three questions, the
answers of which may differ at every check.

`Comm` starts with transmission allowed and nothing in this program disallows it,
so the delay line never grows beyond one frame today. `Disallow = TRUE` lets it be
disallowed whenever `run()` is about to ask (`pc = "next"`): the loop and `next_frame()`
are written for that (`file_writer.next_frame()` is skipped while it is), and a property
that holds then holds now.

### Eeprom: the settings store

The areas of `defines.h` in one array of cells, `SetCfg`/`GetCfg` for the three
configurations, and readers and writers of camera id, streaming mode and hardware
status. Writing is by offset and size as in the code, so that a largest
configuration, whose own size field was not counted, ends in the next area.

### Session: a user, the configurator and the board

| code | model |
|---|---|
| handlers of the windows on the UI thread, a handler running inside another that waits | `ui`, a stack of lists of calls still to make |
| modal windows and disabled controls | what each handler blocks (`Clicks`, `Handler`) |
| `on_editCfg_clicked()`, which makes a new editor every time; an editor blocks only itself | `Edit`, `editors`: the downloads and uploads of several may be inside one another |
| `Client`: set the callback, transmit, wait, reset the callback | `Ask`, `Arrives`, `GotAnswer`/`GotHello` (at any moment: an answer or the time-out) |
| the two callbacks of `Comm` (port 0, auxiliary) | `cb`, `cbReg` |
| host `transmit()`, which waits for room | `Transmit`, disabled while the ring is full |
| `open()`, which forgets what was not sent | `Open` |
| the board's `Comm` filter and `execute()` | `Refuses`, `Receive` with `Execute` and `Store` (`Eeprom`) |
| a detached thread per answer | `answers`, a set; `SendAnswer` in any order |
| loss; a wrong CRC, dropped by the host and executed by the board | `AnswerLost`, `Damage` |

Messages are whole here: how they are cut, lost in part and put together is
`CfgTransfer`. The two enumerations of commands are given as they are (`Host`,
`Board`): the host's `SetID` is 9, which is `ToggleStreams` on the board. Of the
history variables, `missed` says that the last Start or Stop was lost or refused on
its way, `seen` what the board would have answered since a handler asked, and
`spoilt` which areas of the EEPROM a neighbour's configuration has reached into.

### ControlPacket and Ports: the second serial port

`ControlPacket` has the packets of `control.cpp`: sums, `Parse` (all packets that
`parse()` finds in a sequence of bytes, and what remains) and `dispatch`. `Ports` composes
it with `Flir`.

| code | model |
|---|---|
| the search for the camera: probe, wait for an answer, next rate | `Probe`, `Wait`, `NextRate` |
| `Flir`'s constructor: the rate, the search again, the modes | `Found` |
| `recv_cb()` of `Flir`: every read sets `m_answered`, also one that failed, by what the read before left in the buffer | `ReadChunk`, `ReadFails`, `first` |
| a port that cannot be opened | `Flir`'s constructor returns (`Init`), or `send_status()` of `Control` throws |
| a write or an option of a port that fails throws where nobody catches it | `PortFails`: `pc = "dead"` |
| `Control`: the reader is started, `m_buf` is constructed, `main()` sends the status | `OpenControl` (`pc = "opening"`), `Construct` (`"opened"`), `send_status` (`"control"`) |
| the io thread reads, parses, answers, in all three | `Receive` |
| a read error ends the reading | `ReaderStops` |

What a device sends while `m_buf` is not there goes into memory that is no deque yet:
`broken`, and `early` remembers that a device spoke so soon. From `Construct` on the io
thread answers, also before and while `main()` sends the status: those answers are `sent`
and the status is `told`, since the order of the two on the line is open; a write is whole.
The camera starts, answers, is late, answers in two pieces or not at all (`CameraStarts`,
`CameraAnswers`); devices with different addresses ask (`Ask`); the line damages bytes or
loses them (`Damage`); any number of bytes is read at once.

### Operators without state

They are checked by assumptions that TLC evaluates when a run starts; `MCSession`
extends all of the checking modules.

| module | code | checks |
|---|---|---|
| `Rois` | drawing, editing, storing and reading regions of interest (`dswidget.cpp`), `loadMask()` on the board | `WindowChecks`: `OnlyLastIsEmpty` and `PolygonsComeBack` for every sequence of mouse events up to a length, `MaskOfMap`, `Truncated` |
| `Detector` | percentages to configuration to registers and back (`detparams.cpp`, `initMD()`), presets and the dialog | `WindowChecks`: `ShownAsSet`, `FromWindowToFpga`, `PresetsComeBack`, `AddDelete` |
| `PortConfig` | file of the port's settings | `WindowChecks`: `PortComesBack` |
| `CameraLink` | auxiliary messages: camera commands cut into pieces and joined again, their sums, registers, timestamps | `DeviceChecks`: `MessagesComeWhole`, `SumsMatch`, `RegistersReadBack` |
| `VideoDriver` | the V4L2 sub-device and what `Cap` asks of it | `DeviceChecks`: `DriverAgrees`, `DriverKeepsItsSize` |
| `EncTokens` | the table of encoder parameters and the configuration in the program | `DeviceChecks`: `NamesDistinct`, `DefaultIsKnown`, `DefaultFitsCamera`, `DefaultIsComplete` |
| `Frames` | offsets in an AVI file, `copyInputBuf()` | `DeviceChecks`: `LumaComesBack`, `SegmentFits`, `EveryOtherLine`, `PitchAgrees` |
| `ControlPacket` | see above | `PortChecks`: `NeverInStepAgain` |

## 3 Runs

| run | module | states | what it shows |
|---|---|---:|---|
| `commtx` | MCCommTx | 219 374 | the ring implements the queue, the chunk is the front of it, everything queued is written, calls return |
| `commtx_errors` | MCCommTx | 2 080 674 | types, no unwritten slot is sent, the chunk is not touched: also with failing writes and with transmission switched on and off |
| `commtx_abort` | MCCommTx | violation | an error in the middle of a packet trips the assertion in `taken()` |
| `commrx` | CommRx | 3 696 741 | the packets found do not depend on how the port cuts the stream |
| `cfg_transfer` | MCCfgTransfer | 76 231 | what is accepted, what arrives, how losses are noticed |
| `cfg_splice` | MCCfgTransfer | violation | a configuration with a hole is accepted |
| `video_loop` | VideoLoop | 702 366 | the level stays in the table and does not flap, what is unsent is remembered, frames keep being coded |
| `video_loop_empty` | VideoLoop | violation | a frame coded to nothing stops the video |
| `run_loop` | MCBoard | 1 574 540 | commands, uploads, exceptions and shutdown in every order: stopping, parameters, resources, ending, streaming |
| `recorder` | Recorder | 9 297 688 | frames in turn, right pictures, everything on the stick, the name of the first segment stays free |
| `host` | MCSession | 1 089 597 | handlers inside handlers: callbacks, answers, agreement, refusals, the store, no hanging window |
| `ports` | MCPorts | 128 635 | the camera is found, each question gets its own answer in order, nothing is overrun, the search ends |

**Bounds, and why they are enough.**

* `CommTx`: a ring of 3 and chunks of at most 2, so that the ring is full, empty
  and wrapped, chunks are cut by the end of the ring, by the limit and by the
  write pointer, and a chunk may end at `m_w` of a full ring (the special case of
  `drop_unsent()`). Two senders with one or two packets: more senders add no new
  kind of interleaving, since there is one lock. Four packet numbers are more than
  the ring holds. What is proved (section 6) does not depend on these bounds.
* `CommRx`: packets of 3 bytes in buffers of 4, so that every remainder length
  from 0 to 2 occurs at the seam and a buffer never holds a whole number of
  packets; 10 bytes fill both buffers and begin the first one again, in every cut.
  Three byte values: the preamble and two that are told apart.
* `CfgTransfer`: two replies, lengths 0 to 5 with messages of 2 bytes (none, one,
  two and three messages, both kinds of last message), rings of 2, 4 and 6 packets
  (fills inside a reply, between two, never), four packet numbers, so that a loss
  of four is possible and hides.
* `VideoLoop`: a ring of 10 makes one packet ten percent, so that every threshold
  of the table lies on a fill level or between two; frames of 2 packets and of 12,
  more than the ring. Rates 0 (the line may stand still) and 2 (one packet more
  than the timestamp of a frame).
* `Board`: a configuration that ends with a comment, one that ends before the last word
  of that comment, one of one page that does not end with a newline, and one that lacks a
  value and fills the table of items, so that each can be half read, half written and
  longer than what is read after it. Three commands (Stop and Start with an upload between, or
  two uploads), two faults (one during the unwinding or the restart after the
  other), two lost descriptors until `open()` fails, no spare CMEM buffer, so that
  one lost buffer is enough to see that nothing can be created any more.
* `Recorder`: segments of one tick instead of ten seconds and thirty, eight frames, two
  recorders one after the other, one file that fails, fragment numbers with two binary
  digits, so that they run out within one run, and the three capture buffers of the
  program.
* `Session`: areas of two and three cells and a configuration of three, which is too large
  for the detector's area and the largest for the two others; a board with the id 2, while
  the window starts with 0 and without a handshake has 3, which stands for any camera; a
  ring of two messages, so that `transmit()` has to wait in every handler; two editors,
  and three clicks besides those that open them, so that windows can be inside
  one another three deep and the downloads of two editors overlap; one message damaged
  or lost. Answers are lost and late without a bound.
* `Ports`: three rates, of which the fastest is first as in the code; two probes at
  it instead of the many of the code; packets with at most three data bytes, so
  that a damaged length can be larger; two values of uninitialised memory; devices with
  two addresses, and two packets of theirs; one fault.

`CHECK_DEADLOCK FALSE` stands where the program or its environment really stops:
the aborted process (`CommTxErrors`, `CommTxAbort`), the end of reception after
an error (`CommRx`), replies that have been sent (`CfgTransfer`, `CfgSplice`), the
ended program (`Board`, `Recorder`) and the frame bound (`Recorder`), a
user who clicks no more (`Session`), a device that asks no more or a program that has
ended (`Ports`). In `commtx` and `video_loop` deadlock is checked.

## 4 Fairness

* `CommTx`: weak fairness of the steps inside `transmit()`, because a thread that
  is running is scheduled, and of `Written \/ TakenDone`, because the port accepts
  data in the end. Nobody is obliged to call `transmit()`, and acquiring the lock
  is only weakly fair: `CallsReturn` therefore asks that the other callers stop.
* `VideoLoop`: weak fairness of the loop (the camera delivers frames) and of the
  port. Strong fairness of `Transmit` and of `Adapt` while `m_empty` is up to
  date: in the few instructions between the two assignments of `taken()` an empty
  ring looks full, and a loop that met that window in every frame for ever would
  be starved. `VideoFlows` is claimed for lines that carry more than one packet per
  frame; on a slower one the timestamps alone fill the ring.
* `Board`: weak fairness of the main thread, and of the rest of an upload that
  was begun. `LoadParams` has a conjunct of its own, which says the same by its
  effect on `pc` (it goes on, or crashes). Commands and faults are bounded; the shutdown
  input stays raised once it is.
* `Session`: weak fairness of the UI thread and of what the board receives. Nothing
  obliges an answer to come: waiting ends by the time-out.
* `Ports`: weak fairness of `main()`, of the io thread and of the camera's answers
  to what it was asked. The camera need not be there, or start, or obey.
* The other modules claim no liveness.

## 5 Where the code disagrees with itself

Three are violations of a property by what the code does; `findings` in
`PROJECT.json` quotes the lines.

1. **`commtx_abort`.** `taken()` asserts that a whole number of packets was
   written; `transmitted()` passes on whatever a failed write reports. `NDEBUG` is
   not defined, so an error of the port in the middle of a packet aborts the board.
2. **`cfg_splice`.** Packet numbers are "needed for detecting packet loss", and
   the loss is detected, but the comment that says so is not looked at when a
   configuration is put together. In `cfg_transfer` the same model shows what does
   hold: no such thing happens while the line loses nothing and each reply finds
   room at once, and a configuration never begins in the middle.
3. **`video_loop_empty`.** "If `bs` is set there is unsent data" is not true of a
   frame that is coded to nothing, and then no frame is coded any more.

Others are exceptions the properties have to make, or results of the checking
modules. A property that would be expected without its exception is false:

* *Configurations.* A largest one reaches into the next area, and what is stored
  there next begins with its end; `StoreIntact` says exactly which areas that spoils,
  and that every other one reads back. One without a newline at its end is read on
  into old memory, and one that is written while it is read is mixed; even one that
  ends properly goes on with the words of an older, longer one when that had several
  of them behind the end, for a comment's words are items to the parser once the
  beginning of the comment is written over; and one whose last value is missing, or that
  has more items than the parser's table, is undefined behaviour (`ParamsAsStored`,
  `ExitsOnButton`).
* *Resources.* EDMA3 channels of a constructor that throws later, what RMAN fails to free
  and a CMEM buffer without a physical address are never released, and an unreadable
  motion detector configuration costs a descriptor of `/dev/mem` in every `run()`
  (`Released`, `Streams`). Links of the media controller are promised nothing:
  `break_links()` sets every flag but the one it means to clear, only logs that the driver
  refuses, and stops at the first error. `DriverOwnsMemory` only asks that they are enabled
  while the driver streams.
* *Pictures.* `next_frame()` opens later segments without closing the first, so a
  delayed frame of one gets the picture captured last (or its own, if it is the last);
  a `run()` that is two frames late codes a buffer the driver is filling, and nothing keeps
  it from being so late (`CodedRight`). Delayed frames have the live frame's chroma, which
  is where detections are marked; with a configuration for pictures of less than half the
  height the encoder gets luma for chroma. The driver goes on reporting 384×288
  after it was asked for 320×256.
* *Files.* A frame whose write fails is queued as if it were in the file, and what
  `next_frame()` reads for it is another's picture or none (`CodedRight`, `AllOnStick`).
  Any filesystem error in `~FileWriter()` or in the deletion of old files throws; from a
  destructor that ends the program, and no property says otherwise. One reason needs no
  error: two recordings that begin in one minute have one name. It is the only way the
  name can be taken (`FirstNameFree`).
* *Session.* The id a user sets is used by the window and not by the board, which
  takes the command for another and refuses everything from then on
  (`NothingRefused`). A Stop that is still in the ring is forgotten when the port
  is opened again (`AgreeWhenQuiet`). With the port closed, `transmit()` spins on
  the UI thread for ever (`HandlersReturn`). An answer that is late is taken for
  the answer of the next request of its kind (`AnswersFresh`).
* *Second port.* A lost byte puts the parser out of step for good: one can make it
  copy over the end of a packet, two can make it accept nothing any more
  (`NoOverrun`, `NeverInStepAgain`); a device that speaks as soon as the port is open meets
  a buffer that is not constructed (`AnswersInOrder` and `NoOverrun` leave it out). A port
  that cannot be opened or written ends the program (`BootEnds`). A read that fails counts
  as an answer of the camera if the read before was one (`CameraFound`).
* *Windows.* Two detector parameters drift when they are loaded and stored (0 → 5
  → 10 ..., 24 → 16 → 8 → 0). Presets of one name become the last of them. Cancel
  undoes neither Get nor an added preset. A port name with a blank breaks the file
  of settings, for good. A point left of the picture comes back far right of it.
* *Camera commands.* `Flir::send()` means to reject the shutter's command and tests
  the byte after it, the high byte of the length; a register with the value 0xFFFF
  looks like no answer.

## 6 Proofs

Every invariant a passing run checks is proved for all values of the constants, and so
are the action properties and the refinement. No theorem has a hypothesis but the named
assumption of its module, and what stands in the last column below. The argument is the
same everywhere: an inductive invariant `IInv`, one lemma per action that shows `IInv /\
Action => IInv'` (and, under it, one step per conjunct), `Init => IInv`, and for each
theorem `IInv => property` or, for an action property, `IInv /\ [Next]_vars =>
property`. TLC checked every `IInv` on the instance of its run, with bounds where it
speaks of all numbers, before it was proved.

### Transmit path

`CommTxProofs`: every number of senders and cameras, every
ring and chunk size and every modulus of the packet numbers.

| theorem | statement | besides `CommTxAssumption` |
|---|---|---|
| `TypeCorrect` | `Spec => []TypeOK` | |
| `ChunkStableSafe` | `Spec => ChunkStable` | |
| `ChunkQueuedSafe` | `Spec => []ChunkQueued` | writes succeed (`~WriteErrors`) |
| `RingImplementsQueue` | `Spec => QueueSpec` | writes succeed |
| `NoStaleSlotSafe` | `Spec => []NoStaleSlot` | |

`CommTxAssumption` says that sizes are positive and that the markers (`"io"`,
`"nobody"`, `NoPkt`) are not senders or packets.

**The inductive invariant.** None of the properties is inductive. `TypeOK` alone
does not keep `r` and `re` in the ring, because it does not say that a chunk ends
before the ring does, and `ChunkQueued` alone does not know that the handler cannot
run while a sender is pushing. The proofs use

    IInv == TypeOK /\ LockOwner /\ ChunkInRing /\ FlagsAgree /\ NoErrors

`LockOwner` ties `pc` and `io` to the lock; `ChunkInRing` keeps the chunk
contiguous, inside the ring and among the queued packets; `FlagsAgree` says what
`m_empty`, `m_sending_in_progress` and the chunk say of one another; `NoErrors` adds
what only holds while writes succeed, above all that the idle port leaves `m_re`
at `m_r`. One lemma per action shows that it keeps `IInv`; the theorems
follow from `IInvInductive`.

**The refinement.** `queue` is the packets between `m_r` and `m_w` (none, in the
window where `m_empty` is stale and the last packet has been taken), `flight` is
the chunk while a write is in progress. `Push` maps to `Accept`, `TakenMoves` to
`Complete`, `TakenDone` to `Start` when it starts the next write, `DropUnsent` to
`DropUnsent` or, when it removes nothing, to a stutter; all else stutters. The
lemmas say how each of the four ring operations changes the sequence, by wrapping
case.

**Failing writes.** The refinement does not hold then: packets are sent twice or never.
That no unwritten slot is sent does, and needs an argument of its own. As long as there is
an unwritten slot the pointers are on their first turn round the ring and in order
(`FirstTurn`): `m_r`, `m_re` and `m_w` before the slot, each not before the one it
follows, whatever size a failed write reports and whatever `drop_unsent()` cuts off.

### Receive path

`CommRxProofs`: every stream, every way the port cuts it into reads, every size of
packet and buffer.

| theorem | property |
|---|---|
| `PacketsAreThoseSent` | `CutIndependent` |

    IInv == Types /\ Buffered /\ Left /\ Parsed

`Buffered` says where in the two buffers the bytes of the stream are that are not done
with, and `Left` how many of the other buffer's may be among them at each place of the
loop. `CutIndependent` compares with the packets of what was received *so far*, and that
is not inductive: a preamble near the end is no packet yet. `Parsed` therefore says it
of the future: for every length the stream may still reach, its packets are those
delivered and those a parser finds that starts behind the bytes done with. The lemmas
(`FoundSkip`, `FoundPacket`, `FoundNone`) say what happens to the packets behind a position
when the program skips to the next preamble or takes a packet there.

### Configuration transfer

`CfgTransferProofs`: any number of replies, every length of configuration and message,
every ring and every modulus of the packet numbers.

| theorem | property |
|---|---|
| `Typed` | `TypeOK` |
| `LossIsSeen` | `LossFlagged` |
| `AcceptedInOrder` | `Framed` |
| `WholeOrNothing` | `AcceptedUnlessSplit` |
| `ExactlyOnce` | `AllArrive` |

    IInv == Types /\ Numbered /\ InOrder /\ Whole /\ Somewhere

The two packet counters wrap, so nothing can be said with them alone: `Numbered` ties
them to the numbers that do not (`total`, `last`), of which the wire carries
remainders. A loss of fewer packets than the modulus then shows (`LossFlagged`); one of
exactly as many would not. `InOrder` says of every pair of places
a byte can be in (received, on the line, in the ring, still with its thread) that
indices of one reply grow from one to the next. `Whole` is needed because
`getEncCfgChunk()` accepts by a sum of lengths: unless a packet was lost or a reply was
pushed in two parts, each message on the way comes straight after the one it follows.
`Somewhere` follows each reply through its life (waiting, travelling with a given
offset, arrived once), and is only claimed when nothing went wrong at all.

### Frame loop

`VideoLoopProofs`: every ring and write size, every set of frame sizes and rates.

| theorem | property | premise |
|---|---|---|
| `Typed` | `TypeOK` | |
| `LevelSettles` | `NoFlapping` | |
| `BsKept` | `BsMeansUnsent` | `0 \notin Sizes` |

`CameDown` remembers at which fill the level was left downwards, which is what the
next look at the ring has to contradict; the rest is arithmetic over the table. The
premise of `BsKept` excludes what `video_loop_empty` shows to be false.

### Life of run()

`BoardProofs`: every set of configurations, page size, number of buffers and
descriptors, any number of commands and faults.

| theorem | property |
|---|---|
| `Typed` | `TypeOK` |
| `OneFrameAfterStop` | `StopsSoon` |
| `ButtonOrTerminate` | `ExitsOnButton`, if no configuration has a NUL in it |
| `DriverSafe` | `DriverOwnsMemory` |
| `NothingKept` | `Released` |
| `WritersLeaveWhole` | the area holds one whole configuration whenever nobody is writing, unless two wrote at once |
| `ReaderGetsWhole` | what `GetEncCfg()` hands the parser is the stored configuration, if none was written meanwhile |
| `ParserReadsRegular` | `Regular(f) => ReadAsMeant(f)`, for every file |
| `RunsAsStored` | `ParamsAsStored`, if the configurations that end with a newline are `Regular` and none has a NUL in it (`RegularFiles`) |

    IInv == Types /\ Holdings /\ Leftovers /\ LastFrame /\ Ending /\ Area /\ Reading

`Holdings` says for each place of `pc` what is held there, on the way in and on the way
back: the places are grouped by that (`Waiting`, `Encoder`, `CameraUp`, `Streaming`).
Of the links it only says where they are enabled, as `Released` says nothing of them.
`Leftovers` says that whatever is held outside them has its entry in `mishaps`.
`LastFrame` names the places that can still follow a Stop after one more frame. `Area`
and `Reading` follow the two writers and the reader page by page.

`RunsAsStored` joins these with the parser. Its hypothesis is about what is uploaded,
not about the program: a configuration of the area that ends with a newline has regular
lines. TLC evaluates it for the files of the run (`FilesAreRegular` in `MCBoard`, where
one file does not end with a newline and may therefore be anything). The argument has
three parts.

* *The file by itself* (`ParserReadsRegular`). Between two lines the scan is in no item
  and no comment, its items come in threes, and what they assign is what the lines so far
  say (`ReadTo`). `LineRead` goes from one line to the next: the characters of a line are
  followed through its words (`AssignmentItems`; `Within` and `Between` say where the
  scan stands), and stage two goes on from where it was (`AssignThree`). That every place
  behind a newline is reached is `Least` again, over the ends of lines.
* *What the older file left behind it*. The buffer is always cut up (`CutUp`): it has NULs
  where newlines, spaces and comments were, so what follows the new file up to the next
  NUL has no newline in it; `~behind` says that it has no spaces either. Such words are
  one item (`LeftoverWords`), and an item more changes nothing when those before it come
  in threes (`SameAssigned`). This is why `ReadAsMeant` counts the items.
* *What the parser gets* is the stored configuration, by `ReaderGetsWhole`; that it fits
  (`Fits`) keeps the parser within its tables, which is also why `ButtonOrTerminate` rests
  on this.

### Host session and settings store

`SessionProofs`: areas of every size, every set of configurations, every ring, any
number of editors, clicks and faults.

| theorem | property |
|---|---|
| `Typed` | types of the session |
| `CallbackSafe` | `CallbackAlive` |
| `WindowAndBoardAgree` | `AgreeWhenQuiet` |
| `RefusesNothing` | `NothingRefused` |
| `FreshAnswers` | `AnswersFresh` |
| `StoreKept` | `StoreIntact` |

    IInv == Types /\ CallbackAlive /\ Agrees /\ OneId /\ Informed /\ Stores

`Types` includes what the stack of handlers looks like: each blocks the windows of
those above it, so no handler is on it twice. `Agrees` looks at the last Start or Stop
in the ring, or at the board if there is none. `OneId` is claimed until something
excuses it, and then needs the id in all the places it can be in at once: window,
board, messages, answers on the way, answers received. `Informed` says that a handler
that waits has seen whatever the board would answer now, and every answer under way if
none was under way when it asked. `Stores` is the EEPROM cell by cell.

### Second port

`PortsProofs`: any number of rates and tries, every camera; any set of requests, any
damage, and every cut of the bytes into reads.

| theorem | property |
|---|---|
| `FoundIfHeard` | `CameraFound` |
| `AnsweredOnceInOrder` | `AnswersInOrder` |
| `NothingOverrun` | `NoOverrun` |

The assumption `PortsAssumption` says that a request of the device is a packet that
fits into `pkt_t`. `Search` counts the answers that are owed to the search
for the camera: the first search cannot have any left over, the second may begin with the
answer to the command that set the rate, from a camera that will hear the next probe or
from one nobody hears (`Deaf`). The control port has an invariant of its own:

    CInv == ControlTypes /\ Kept /\ Told /\ Silent /\ InStep /\ Whole

`Kept` is what the cutting cannot change: `m_buf` is what `parse()` would leave of all that
was read if it had come in one piece, and the packets taken are those it would find. It
rests on `ParseGlued`: to parse what follows an unfinished rest is to parse the whole.
`Told` pairs each packet taken with its answer: the address it came from and the command
that answers its command. `Whole` compares with what the devices sent and not with what the
parser made of it: while no byte is lost or changed, what was read and what is on the line
parse into exactly the requests, as they were asked, and leave nothing over; it rests on
`BytesAre`, that the bytes of a request are one complete packet that is understood as the
request. `InStep` says for those bytes that what is in `m_buf` and what still comes can be
cut into whole packets that fit (`Framed`, by the set of places where one ends), so no
length is read from the middle of one (`ParseFramed`). `Silent` is needed because the
reader of `Control` runs before `m_buf` is constructed.

### Recorder

`RecorderProofs`: segments of every length, any number of capture buffers, frames and
recorders, every radix of the file names.

| theorem | property |
|---|---|
| `Typed` | `TypeOK` |
| `PicturesMatch` | `CodedRight` |
| `AllKept` | `AllOnStick` |
| `NameFree` | `FirstNameFree` |
| `FramesInTurn` | `EveryFrameInTurn` |

    IInv == Types /\ Buffered /\ Filed /\ Once /\ InOrder /\ Reading /\ Kept /\ Complete
              /\ InTurn /\ Stamped /\ CodedRight

`Buffered` says that the driver has each buffer once, that the first `done` of them hold
the frames that follow, and that the buffer just put back is the last in the ring: it is
filled only when all the others have been, which is why `CodedRight` needs `coded.late <
Bufs - 1` and no more. `Filed` says which file has which name, and that the stick has no
name and no file twice; `Once` that no frame is written twice; `InOrder` that each entry
of the queue points at its frame, unless that file failed, and that files and timestamps
grow along it. From that `Reading` follows: while a frame of the first file is queued,
or there is no second file, the stream is on the first file or has not been opened, so
`open()` cannot fail if no file did. `Kept` and `Complete` follow the files and the
frames of this recorder until the destructor. `InTurn` counts: as long as frames are
recorded, the frame given out last and the queue behind it reach exactly to the present.
`Stamped` needs that the number of a later fragment never prints as zero, for any number
of fragments: `Lead` is defined by recursion over all numbers, and `LeadIs` proves what
it needs of it.

**Induction.** The library's induction theorems take an operator as a parameter and
cannot be used. `Least` (every nonempty set of natural numbers has a least element),
from `NatLessThanWellFounded` and `WFMin`, serves instead: a set of counterexamples has
a least one. `UpToN` states it for sets of numbers that contain 0 and, with each number,
the next. Four modules rest on it. A recursive function is `CHOOSE f : f = [...]`, so that
it exists and satisfies its equation has to be shown before anything can be said of it:
`Lead` in `RecorderProofs`, the packets of a stream from its end backwards in
`CommRxProofs`, `Parse` and `Ours` in `PortsProofs`, `Scanned` and `Assigned` in
`BoardProofs`.

**Only model-checked.**

* Liveness (`QuietDrains`, `CallsReturn`, `VideoFlows`, `ShutdownEnds`, `Streams`,
  `HandlersReturn`, `BootEnds`), for which the prover has no fairness and no `ENABLED`.
* What the parser makes of files that are not regular (unknown names): compared with
  `Meaning` up to three lines.
* The operators without state: their assumptions are evaluated on bounded inputs, which
  the modules name. `CameraLink` needs bit operations, which are out of the prover's
  reach.

## 7 What is not modelled, and why

* **Pure input and output**: logging, painting, the DirectShow graph and recording
  on the host, languages, LEDs and register writes without effect on control, media
  controller ioctls beyond their order and failure, statistics, the mounting command.
* **Third party**: JBIG-KIT (its callers are commented out), CMEM, TI's codec glue
  and the codec. `board-dm365-evm.c` is the kernel's board file;
  `teplovisor-fpga.c` is, under another name, a file of Linux's 9P file system.
* **Tools** (`recv_test`, `upload_cfg`, `avi_mux_test`): drivers of the classes
  modelled elsewhere.
* **Code nobody reaches** at this commit: what `VIDEO_SENSOR` selects,
  `get_serials()`, `changeBitrate()`, the low-latency callback of the codec,
  `fillInfo()`, `dumpRegs()`, `GetConfigFileContent()`.
* **`setTxBufferSize()`** reallocates the ring once while the program starts. A
  write in progress at that moment would read memory that is gone, and complete
  into the new ring; it is listed as a hazard, and no property
  covers it.
* **Inside the modelled parts**: CRC arithmetic (a damaged packet is lost in
  `CfgTransfer`, and executed by the board in `Session`), time (a frame is a tick in
  `Recorder`, a time-out may come at any moment in `Session` and `Ports`), writes to
  the control port that are interrupted by another thread's (each is whole), whether
  the host's registration of its protocols fails, the contents of video packets,
  memory orders below one assignment (that `~Server()` does not wait for a
  `Callback()` that has begun, and that `hw_status` is changed by three threads
  without a lock), the bodies of answers of the FLIR camera.

## 8 Plan

| module | what it models | state |
|---|---|---|
| `TxQueue`, `CommTx` | transmit path | checked, proved |
| `CommRx` | receive path | checked, proved |
| `CfgTransfer` | configuration transfer | checked, proved |
| `VideoLoop` | frame loop and bitrate | checked, proved |
| `Board`, `ParamFile` | life of `run()`, encoder, camera, parameters | checked, proved |
| `Recorder` | recorder, delay line, capture buffers | checked, proved |
| `Session`, `Eeprom` | host session and settings store | checked, proved |
| `Ports`, `ControlPacket` | FLIR search and control port | checked, proved |
| `Rois`, `Detector`, `PortConfig`, `CameraLink`, `VideoDriver`, `Frames` | conversions and formats | checked on bounded inputs |

What is left:

* That `CfgTransfer`'s ring is a `TxQueue`. It is not one step by step: `Push` puts all
  the packets of a message into the ring at once, where `TxQueue` accepts one after the
  other, so the sum of the two needs a `TxQueue` that accepts several.
* The conversions (`Rois`, `Detector`, `PortConfig`, `VideoDriver`, `Frames`) for every
  input instead of bounded ones; those written with folds need the same induction as the
  parser did.
* `setTxBufferSize()` while the port runs, which needs the ring's memory in the model.
