------------------------------- MODULE Board -------------------------------
(***************************************************************************)
(* The life of the board application: main() calls run() (main.cpp) again  *)
(* and again.  run() waits while g_stop is set, reads the configuration    *)
(* from the EEPROM, creates the encoder (enc.cpp) and the camera (cap.cpp) *)
(* and handles frames until g_stop is set.  Any step of that may throw;    *)
(* what was acquired is released while the stack is unwound.  The asio     *)
(* thread executes the commands of the host (servercmds.cpp) in between:   *)
(* it clears and sets g_stop, and writes the configuration.                *)
(*                                                                         *)
(* The kernel takes a configuration from a stream, or gives it to one, in  *)
(* pieces of a page; two of them, Page lexemes and the rest, are enough to *)
(* see a configuration change between the pieces.                          *)
(***************************************************************************)
EXTENDS ParamFile

CONSTANTS Lexemes,   \* of configurations, and "ff" of erased memory
          Files,     \* configurations the host stores
          DefaultEncCfg, \* configuration in the program
          EeLen,     \* lexemes the area of the EEPROM holds
          Page,      \* lexemes of a configuration in its first page
          EncBufs,   \* input and output buffers of the encoder
          CapBufs,   \* APP_NUM_BUFS
          Spare,     \* CMEM buffers nobody needs
          MaxFds,    \* descriptors that may be lost until open() fails
          MaxCmds,   \* bound: commands of the host
          MaxThrows  \* bound: faults

ASSUME BoardAssumption ==
  /\ DefaultEncCfg \in Files /\ "ff" \in Lexemes
  /\ \A f \in Files : f \in Seq(Lexemes) /\ Len(f) <= EeLen
  /\ EeLen \in Nat /\ Page \in 1 .. EeLen
  /\ EncBufs \in Nat /\ CapBufs \in Nat /\ Spare \in Nat
  /\ MaxFds \in Nat /\ MaxCmds \in Nat /\ MaxThrows \in Nat

VARIABLES
  pc,        \* where main() and run() are
  stop,      \* g_stop
  shutdown,  \* g_shutdown
  gpio,      \* level of the shutdown input
  size, eeprom, \* the encoder's configuration area: size field (EeLen + 1 for
             \* every size that cannot be) and bytes
  upload,    \* what SetEncCfg() of the asio thread still has to write
  read,      \* what GetEncCfg() of run() has read, and the size it expects
  heap,      \* what the parser's buffer holds when it is allocated again
  params,    \* the encoder's parameters
  thrown,    \* exception on its way to main(): "no", "ex" or "again"
  res,       \* what the objects of run() hold
  lost,      \* CMEM buffers nobody will free
  maps,      \* mappings of /dev/mem, with their descriptors, nobody will close
  mdOk,      \* is the motion detector's configuration readable?
  cmds, throws, \* commands and faults so far
  since,     \* frames sent since Stop; -1 when the host lets it run (history)
  fresh,     \* the configuration could be read, and was not written since
             \* run() waited (history)
  torn,      \* the area was written by two threads at once (history)
  behind,    \* the parser found several words behind the file (history)
  mishaps    \* where an exception left something behind (history)

store == <<size, eeprom>>
host == <<cmds, upload>>
flags == <<stop, shutdown, gpio>>
leaks == <<lost, maps, mishaps>>
input == <<read, heap, params>>
history == <<fresh, torn, behind>>
vars == <<pc, flags, store, host, input, thrown, res, leaks, mdOk, throws, since, history>>

(* Nothing is held: EDMA3 channels, encoder instance, RMAN's resources of  *)
(* it, CMEM buffers of the encoder and of the camera, file descriptors of  *)
(* the camera, all four links of the media controller enabled, buffers the *)
(* capture driver owns, streaming.                                         *)
Nothing == [edma |-> FALSE, handle |-> FALSE, assigned |-> FALSE, enc |-> 0, cap |-> 0,
            fds |-> FALSE, links |-> FALSE, queued |-> FALSE, on |-> FALSE]

Free == EncBufs + CapBufs + Spare - res.enc - res.cap - lost

(* The area before anything was stored; its size field is not a size. *)
Erased == [i \in 1 .. EeLen |-> "ff"]

Init == /\ pc = "hold"
        /\ stop = FALSE /\ shutdown = FALSE /\ gpio = FALSE
        /\ \/ size = Len(DefaultEncCfg) /\ eeprom = Overlay(DefaultEncCfg, Erased)
           \/ size = EeLen + 1 /\ eeprom = Erased
        /\ upload = <<>>
        /\ read = [want |-> 0, got |-> <<>>] /\ heap = <<>>
        /\ params = NoParams
        /\ thrown = "no"
        /\ res = Nothing
        /\ lost = 0 /\ maps = 0 /\ mdOk \in BOOLEAN
        /\ cmds = 0 /\ throws = 0
        /\ since = -1 /\ fresh = TRUE /\ torn = FALSE /\ behind = FALSE /\ mishaps = {}
-----------------------------------------------------------------------------
(* Fault: an exception is cleared by a new configuration only. *)
HoldFresh == /\ pc = "hold" /\ ~stop /\ (throws > 0 => ~fresh)
             /\ pc' = "head"
             /\ fresh' = (upload = <<>>)
             /\ UNCHANGED <<flags, store, host, input, thrown, res, leaks, mdOk, throws, since, torn, behind>>

(* while(g_stop) sleep: the first thing run() does. *)
Hold == /\ pc = "hold" /\ ~stop
        /\ pc' = "head"
        /\ fresh' = (upload = <<>>)
        /\ UNCHANGED <<flags, store, host, input, thrown, res, leaks, mdOk, throws, since, torn, behind>>

(* Fault: what is behind the first page is not read. *)
ReadOnePage ==
  /\ pc = "head"
  /\ read' = [want |-> size, got |-> SubSeq(eeprom, 1, IF size < Page THEN size ELSE Page)]
  /\ pc' = "enc"
  /\ UNCHANGED <<flags, store, host, heap, params, thrown, res, leaks, mdOk, throws, since, history>>

(* GetEncCfg(): the size and what is in the first page, then the rest.  A  *)
(* size that cannot be is no configuration.                                *)
ReadHead == /\ pc = "head"
            /\ read' = IF size > EeLen THEN [want |-> 0, got |-> <<>>]
                       ELSE [want |-> size, got |-> SubSeq(eeprom, 1, IF size < Page THEN size ELSE Page)]
            /\ pc' = IF size \in Page + 1 .. EeLen THEN "rest" ELSE "enc"
            /\ UNCHANGED <<flags, store, host, heap, params, thrown, res, leaks, mdOk, throws, since, history>>

(* The EEPROM's file cannot be opened: no configuration. *)
ReadNothing == /\ pc = "head" /\ throws < MaxThrows
               /\ throws' = throws + 1
               /\ pc' = "enc"
               /\ read' = [want |-> 0, got |-> <<>>]
               /\ fresh' = FALSE
               /\ UNCHANGED <<flags, store, host, heap, params, thrown, res, leaks, mdOk, since, torn, behind>>

ReadRest == /\ pc = "rest"
            /\ read' = [read EXCEPT !.got = @ \o SubSeq(eeprom, Page + 1, read.want)]
            /\ pc' = "enc"
            /\ UNCHANGED <<flags, store, host, heap, params, thrown, res, leaks, mdOk, throws, since, history>>

(* A step of the set-up that succeeds and leaves the objects with r. *)
Step(from, to, r) ==
  /\ pc = from /\ pc' = to
  /\ res' = r
  /\ UNCHANGED <<flags, store, host, thrown, lost, mishaps, mdOk, throws, since, fresh, torn>>
Acquire(from, to, r) == Step(from, to, r) /\ UNCHANGED <<input, maps, behind>>

(* Enc(): the resource managers are registered. *)
NewEnc == Acquire("enc", "load", [res EXCEPT !.edma = TRUE])

(* load_params(): the parser's buffer may be the one of the last time.  A  *)
(* parser that runs wild may end the program, or go on with any numbers.   *)
LoadParams ==
  /\ pc = "load"
  /\ \E old \in {heap, <<>>} :
       LET p == readparamfile(read.got, old)
       IN  /\ pc' = "create" \/ (p.wild /\ pc' = "crashed")
           /\ params' = (IF p.wild THEN NoParams ELSE p.params) /\ heap' = p.heap
           /\ behind' = ({"sp", "quote", "#"} \cap Range(Behind(read.got, old)) # {})
  /\ read' = [want |-> 0, got |-> <<>>]
  /\ UNCHANGED <<flags, store, host, thrown, res, leaks, mdOk, throws, since, fresh, torn>>

(* H264VENC_create(), RMAN_assignResources() *)
Create == Acquire("create", "check", [res EXCEPT !.handle = TRUE, !.assigned = TRUE])

(* check_warnings(): the status and the version are asked for. *)
CheckWarnings == Acquire("check", "mem", res)

(* mem_init(): there must be enough buffers. *)
MemInit == Free >= EncBufs /\ Acquire("mem", "setparams", [res EXCEPT !.enc = EncBufs])

(* H264VENC_control(XDM_SETPARAMS) *)
SetParams == Acquire("setparams", "cap", res)

(* break_links(): it asks for every flag but the one it means to clear, a  *)
(* refusal is only logged, an error ends it early, and in the constructor  *)
(* the number of entities is not initialised.  The links may stay enabled. *)
BreakLinks(r) == {r, [r EXCEPT !.links = FALSE]}

(* Cap(): the media device is opened, links are broken, and buffers are    *)
(* allocated.                                                              *)
NewCap == /\ Free >= CapBufs /\ maps < MaxFds
          /\ \E r \in BreakLinks(res) : Acquire("cap", "links", [r EXCEPT !.fds = TRUE, !.cap = CapBufs])

(* enumerate_media_entities(), enumerate_links(), enable_links() *)
EnableLinks == Acquire("links", "pipeline", [res EXCEPT !.links = TRUE])

(* init_resizer(), init_prv() *)
InitPipeline == Acquire("pipeline", "formats", res)

(* set_capture_inputs(), set_formats() *)
SetFormats == Acquire("formats", "queue", res)

(* init_streaming_bufs() *)
QueueBufs == Acquire("queue", "on", [res EXCEPT !.queued = TRUE])

(* start_streaming() *)
StreamOn == Acquire("on", "md", [res EXCEPT !.on = TRUE])

(* loadMask(), initMD(): an unreadable configuration leaves a mapping.     *)
(* The first frame is thrown away, and FileWriter is created.              *)
InitMD == /\ Step("md", "test", res)
          /\ maps' = IF mdOk \/ maps = MaxFds THEN maps ELSE maps + 1
          /\ UNCHANGED <<input, behind>>
-----------------------------------------------------------------------------
(* while(!g_stop): the loop goes on, or run() returns to main(). *)
Test == /\ pc = "test"
        /\ pc' = IF stop THEN "stream_off" ELSE "frame"
        /\ UNCHANGED <<flags, store, host, input, thrown, res, leaks, mdOk, throws, since, history>>

(* A frame is captured, coded and transmitted. *)
Frame == /\ pc = "frame"
         /\ since' = IF since \in 0 .. 2 THEN since + 1 ELSE since
         /\ pc' = "gpio"
         /\ UNCHANGED <<flags, store, host, input, thrown, res, leaks, mdOk, throws, history>>

(* Fault: g_stop is looked at only if the input is raised. *)
GpioLoops == /\ pc = "gpio"
             /\ pc' = IF gpio THEN "test" ELSE "frame"
             /\ stop' = (gpio \/ stop) /\ shutdown' = (gpio \/ shutdown)
             /\ UNCHANGED <<gpio, store, host, input, thrown, res, leaks, mdOk, throws, since, history>>

(* Fault: the input stops the loop like the host does. *)
GpioStops == /\ pc = "gpio"
             /\ pc' = "test"
             /\ stop' = (gpio \/ stop)
             /\ UNCHANGED <<shutdown, gpio, store, host, input, thrown, res, leaks, mdOk, throws, since, history>>

(* The shutdown input is looked at once per frame. *)
Gpio == /\ pc = "gpio"
        /\ pc' = "test"
        /\ stop' = (gpio \/ stop) /\ shutdown' = (gpio \/ shutdown)
        /\ UNCHANGED <<gpio, store, host, input, thrown, res, leaks, mdOk, throws, since, history>>
-----------------------------------------------------------------------------
(* What the encoder's objects may hold when one of its steps throws: a     *)
(* constructor that throws has no destructor, only the members made before *)
(* are destroyed.                                                          *)
EncPartial(p) ==
  CASE p = "enc" -> {res, [res EXCEPT !.edma = TRUE]}
    [] p = "create" -> {res, [res EXCEPT !.handle = TRUE],
                        [res EXCEPT !.handle = TRUE, !.assigned = TRUE]}
    [] p = "mem" -> {[res EXCEPT !.enc = n] : n \in {k \in 0 .. EncBufs : k <= Free}}
    [] OTHER -> {res}

(* What the camera's may hold: the driver gave the buffers it found room for. *)
CapHeld(r) == {[r EXCEPT !.cap = n, !.fds = TRUE] : n \in {k \in 0 .. CapBufs : k <= Free}}

CapPartial(p) ==
  CASE p = "cap" -> {res} \union UNION {CapHeld(r) : r \in BreakLinks(res)}
    [] p = "queue" -> {res, [res EXCEPT !.queued = TRUE]}
    [] OTHER -> {res}

Partial(p) == IF p \in {"enc", "create", "check", "mem", "setparams"} THEN EncPartial(p) ELSE CapPartial(p)

(* Fault: the encoder is set up in its constructor. *)
UnwindFromInit(p) ==
  CASE p \in {"enc", "create", "check", "mem", "setparams"} -> "catch"
    [] p \in {"cap", "links", "pipeline", "formats", "queue"} -> "close"
    [] p \in {"on", "md", "frame"} -> "stream_off"

(* Where unwinding starts: Enc() and Cap() clean up nothing themselves;    *)
(* after Enc() its destructor is called, as init() is a call of its own.   *)
UnwindFrom(p) ==
  CASE p = "enc" -> "catch"
    [] p \in {"create", "check", "mem", "setparams"} -> "end_encoder"
    [] p \in {"cap", "links", "pipeline", "formats", "queue"} -> "close"
    [] p \in {"on", "md", "frame"} -> "stream_off"

(* The next buffer has no physical address: it is not freed. *)
MayLose(p, r) == /\ \/ p = "mem" /\ r.enc < EncBufs
                    \/ p = "cap" /\ r.cap < CapBufs /\ r.fds
                 /\ r.enc - res.enc + r.cap - res.cap < Free

Raise(p, e, r, n) ==
  /\ pc' = UnwindFrom(p)
  /\ thrown' = e
  /\ res' = r
  /\ lost' = lost + n
  /\ mishaps' = mishaps \union (IF r.edma /\ p = "enc" THEN {"edma"} ELSE {})
                        \union (IF n > 0 THEN {"buffer"} ELSE {})
  /\ UNCHANGED <<flags, store, host, input, maps, mdOk, since, history>>

Faulty == {"enc", "create", "check", "mem", "setparams", "cap", "links", "pipeline", "formats", "queue",
           "on", "md", "frame"}

(* A library or a driver reports an error; only the encoder that does not  *)
(* take the parameters asks for another configuration.                     *)
Throw == /\ pc \in Faulty /\ throws < MaxThrows
         /\ throws' = throws + 1
         /\ \E r \in Partial(pc), n \in 0 .. 1 :
              /\ n > 0 => MayLose(pc, r)
              /\ Raise(pc, IF pc = "setparams" THEN "again" ELSE "ex", r, n)

(* There is no buffer or no descriptor left. *)
OutOf == /\ \/ pc = "mem" /\ Free < EncBufs
            \/ pc = "cap" /\ (Free < CapBufs \/ maps = MaxFds)
         /\ Raise(pc, "ex", res, 0)
         /\ UNCHANGED throws
-----------------------------------------------------------------------------
(* A step of the unwinding. *)
Release(from, to, r) ==
  /\ pc = from /\ pc' = to
  /\ res' = r
  /\ UNCHANGED <<flags, store, host, input, thrown, leaks, mdOk, throws, since, history>>

(* Fault: the buffers are declared behind the descriptors. *)
FreeFirst == Release("close", "free", [res EXCEPT !.cap = 0])

(* ~Cap(): stop_streaming(), break_links() *)
StreamOff == \E r \in BreakLinks(res) :
  Release("stream_off", "close", [r EXCEPT !.on = FALSE, !.queued = FALSE])

(* stop_streaming() throws in a destructor. *)
Terminate == /\ pc = "stream_off" /\ throws < MaxThrows
             /\ throws' = throws + 1
             /\ pc' = "terminated"
             /\ UNCHANGED <<flags, store, host, input, thrown, res, leaks, mdOk, since, history>>

(* ~CaptureFd(), after which the driver knows no buffer any more. *)
CloseFds == Release("close", "free", [res EXCEPT !.fds = FALSE, !.queued = FALSE])

(* ~CaptureBuf() *)
FreeBufs == Release("free", "end_encoder", [res EXCEPT !.cap = 0])

(* ~Enc(): the instance with its resources, the EDMA3 channels, and then   *)
(* the buffers.  That RMAN keeps resources k is only logged.               *)
DeleteEnc(k) ==
  /\ pc = "end_encoder"
  /\ pc' = IF thrown # "no" THEN "catch" ELSE IF shutdown THEN "exited" ELSE "hold"
  /\ res' = [res EXCEPT !.handle = FALSE, !.enc = 0,
                        !.assigned = @ /\ "assigned" \in k, !.edma = @ /\ "edma" \in k]
  /\ UNCHANGED <<flags, store, host, input, thrown, lost, maps, mdOk, since, history>>

EndEncoder == DeleteEnc({}) /\ UNCHANGED <<mishaps, throws>>

RmanKeeps == /\ throws < MaxThrows
             /\ throws' = throws + 1
             /\ mishaps' = mishaps \union {"rman"}
             /\ \E k \in {{"assigned"}, {"edma"}, {"assigned", "edma"}} : DeleteEnc(k)

(* Fault: an exception ends the program. *)
CatchExits ==
  /\ pc = "catch"
  /\ stop' = TRUE
  /\ thrown' = "no"
  /\ pc' = "exited"
  /\ UNCHANGED <<shutdown, gpio, store, host, input, res, leaks, mdOk, throws, since, history>>

(* main() stops until the host says Start. *)
Catch ==
  /\ pc = "catch"
  /\ stop' = TRUE
  /\ thrown' = "no"
  /\ pc' = IF thrown = "again" THEN "default" ELSE IF shutdown THEN "exited" ELSE "hold"
  /\ UNCHANGED <<shutdown, gpio, store, host, input, res, leaks, mdOk, throws, since, history>>
-----------------------------------------------------------------------------
(* A configuration is written: the size with the first page. *)
WriteHead(f) == /\ size' = Len(f)
                /\ eeprom' = Overlay(SubSeq(f, 1, IF Len(f) < Page THEN Len(f) ELSE Page), eeprom)

(* Fault: what was behind the configuration is lost. *)
WriteRestCuts(f) == /\ eeprom' = SubSeq(eeprom, 1, Page) \o SubSeq(f, Page + 1, Len(f))
                    /\ UNCHANGED size

(* A configuration is written: the rest. *)
WriteRest(f) == /\ eeprom' = SubSeq(eeprom, 1, Page)
                               \o Overlay(SubSeq(f, Page + 1, Len(f)), SubSeq(eeprom, Page + 1, EeLen))
                /\ UNCHANGED size

(* main() stores its own configuration instead of the refused one. *)
WriteDefault ==
  /\ \/ /\ pc = "default"
        /\ WriteHead(DefaultEncCfg)
        /\ pc' = "default_rest"
     \/ /\ pc = "default_rest"
        /\ WriteRest(DefaultEncCfg)
        /\ pc' = IF shutdown THEN "exited" ELSE "hold"
  /\ torn' = (torn \/ upload # <<>>)
  /\ UNCHANGED <<flags, host, input, thrown, res, leaks, mdOk, throws, since, fresh, behind>>

(* It cannot: the EEPROM's file is not opened. *)
DefaultUnwritten ==
  /\ pc = "default" /\ throws < MaxThrows
  /\ throws' = throws + 1
  /\ pc' = IF shutdown THEN "exited" ELSE "hold"
  /\ UNCHANGED <<flags, store, host, input, thrown, res, leaks, mdOk, since, history>>
-----------------------------------------------------------------------------
(* ServerCmds::Stop() *)
Stop == /\ stop' = TRUE
        /\ since' = 0
        /\ UNCHANGED <<store, upload, fresh, torn>>

(* ServerCmds::Start() *)
Start == /\ stop' = FALSE
         /\ since' = -1
         /\ UNCHANGED <<store, upload, fresh, torn>>

(* ServerCmds::SetBitrate() clears g_stop as well. *)
SetBitrate == /\ stop' = FALSE
              /\ since' = -1
              /\ UNCHANGED <<store, upload, fresh, torn>>

(* ServerCmds::SetEncCfg(), the first piece; if the EEPROM's file cannot   *)
(* be opened nothing happens.                                              *)
SetEncCfg == \E f \in Files :
  /\ WriteHead(f)
  /\ upload' = IF Len(f) > Page THEN f ELSE <<>>
  /\ fresh' = FALSE
  /\ torn' = IF pc = "default_rest" THEN TRUE ELSE torn /\ Len(f) > Page
  /\ UNCHANGED <<stop, since>>

Ended == pc \in {"exited", "terminated", "crashed"}

Command == /\ cmds < MaxCmds /\ upload = <<>> /\ ~Ended
           /\ cmds' = cmds + 1
           /\ Stop \/ Start \/ SetBitrate \/ SetEncCfg
           /\ UNCHANGED <<pc, shutdown, gpio, input, thrown, res, leaks, mdOk, throws, behind>>

(* SetEncCfg(), the rest. *)
SetEncCfgRest ==
  /\ upload # <<>> /\ ~Ended
  /\ WriteRest(upload)
  /\ upload' = <<>>
  /\ fresh' = FALSE
  /\ torn' = (torn \/ pc = "default_rest")
  /\ UNCHANGED <<pc, flags, cmds, input, thrown, res, leaks, mdOk, throws, since, behind>>

(* The shutdown input is raised, and stays so. *)
Button == /\ ~gpio
          /\ gpio' = TRUE
          /\ UNCHANGED <<pc, stop, shutdown, store, host, input, thrown, res, leaks, mdOk, throws, since, history>>
-----------------------------------------------------------------------------
SetUp == \/ ReadHead \/ ReadNothing \/ ReadRest \/ NewEnc \/ Create \/ CheckWarnings \/ MemInit \/ SetParams
         \/ NewCap \/ EnableLinks \/ InitPipeline \/ SetFormats \/ QueueBufs \/ StreamOn \/ InitMD
Unwind == \/ StreamOff \/ Terminate \/ CloseFds \/ FreeBufs \/ EndEncoder \/ RmanKeeps
          \/ Catch \/ WriteDefault \/ DefaultUnwritten
Other == Hold \/ SetUp \/ Test \/ Frame \/ Gpio \/ Throw \/ OutOf \/ Unwind
Main == LoadParams \/ Other
Next == Main \/ Command \/ SetEncCfgRest \/ Button

Spec == Init /\ [][Next]_vars
(* The main thread is scheduled and the camera delivers frames; a command  *)
(* that was begun is executed to its end.  The only step from "load" is    *)
(* LoadParams.                                                             *)
FairSpec == /\ Spec /\ WF_vars(Other) /\ WF_vars(SetEncCfgRest)
            /\ WF_pc(pc = "load" /\ pc' \in {"create", "crashed"})
-----------------------------------------------------------------------------
Running == pc \in {"test", "frame", "gpio"}

TypeOK == /\ stop \in BOOLEAN /\ shutdown \in BOOLEAN /\ gpio \in BOOLEAN
          /\ size \in 0 .. EeLen + 1 /\ Len(eeprom) = EeLen
          /\ upload \in Files \union {<<>>}
          /\ thrown \in {"no", "ex", "again"}
          /\ DOMAIN res = DOMAIN Nothing
          /\ lost \in 0 .. MaxThrows /\ Free >= 0 /\ maps \in 0 .. MaxFds
          /\ since \in -1 .. 3

(* After the Stop command at most one more frame is sent until the host    *)
(* lets the camera run again, whatever else sets or tests g_stop.          *)
StopsSoon == since <= 1

(* The configuration in the EEPROM is one the parser is made for: it has   *)
(* been there, from end to end, since run() last waited, it ends with a    *)
(* newline, each of its names has a value, and there are not too many.     *)
(* It is read in pieces, without a lock, into a buffer that is not cleared *)
(* and may hold the end of an older, longer configuration.  Of its         *)
(* comments the buffer keeps every word, and a file that ends within one   *)
(* goes on with them.                                                      *)
stored == SubSeq(eeprom, 1, size)
Readable == /\ fresh /\ ~torn /\ ~behind
            /\ size \in 1 .. EeLen /\ stored[size] = "nl" /\ Fits(stored)

(* The encoder runs with the parameters that the stored configuration      *)
(* names, whatever was stored before it.                                   *)
ParamsAsStored == Running /\ Readable => params = Meaning(stored)

(* The program ends only because the shutdown input was seen, because the  *)
(* driver failed to stop, or because the parser ran wild on a              *)
(* configuration it is not made for: exceptions and commands never end it. *)
ExitsOnButton == /\ pc = "exited" => shutdown /\ gpio
                 /\ pc = "terminated" => throws > 0
                 /\ pc = "crashed" => ~Readable

(* Whatever was thrown, a run() that waits holds nothing of the one        *)
(* before, except where a mishap left it: EDMA3 channels when Enc() threw, *)
(* what RMAN failed to free or to unregister, a buffer without a physical  *)
(* address.  A readable motion detector configuration loses no descriptor. *)
(* Of the links nothing is promised: break_links() may leave them.         *)
Released ==
  pc \in {"hold", "exited"} =>
    /\ res.enc = 0 /\ res.cap = 0
    /\ ~res.handle /\ ~res.fds /\ ~res.queued /\ ~res.on
    /\ res.assigned => "rman" \in mishaps
    /\ res.edma => {"edma", "rman"} \cap mishaps # {}
    /\ lost > 0 => "buffer" \in mishaps
    /\ mdOk => maps = 0

(* The capture driver never owns a buffer that has been freed, also when   *)
(* it is unwound from the middle of the set-up, and while it streams its   *)
(* links are enabled.                                                      *)
DriverOwnsMemory == /\ res.queued \/ res.on => res.cap = CapBufs /\ res.fds
                    /\ res.on => res.links

(* Once the frame loop has seen the shutdown input, and the input stays    *)
(* raised, the program ends, although commands may clear g_stop and        *)
(* exceptions may be thrown in between.                                    *)
ShutdownEnds == (gpio /\ pc = "gpio") ~> Ended

(* Stopping is not for ever, nor is an exception: a camera the host lets   *)
(* run sends frames, unless buffers or descriptors have been lost.         *)
Streams == <>[](~stop /\ ~gpio /\ lost <= Spare /\ maps < MaxFds)
             => []<>(pc = "frame" \/ Ended)
=============================================================================
