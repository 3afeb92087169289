------------------------------ MODULE Recorder ------------------------------
(***************************************************************************)
(* FileWriter (avimux.cpp) as run() uses it: every captured frame is       *)
(* written to a segment file and queued, and the frame that is coded is    *)
(* the oldest one of the queue, read back from its file.  The first        *)
(* segment is in /tmp and is copied to the USB stick in the end.  The      *)
(* buffer of the captured frame goes back to the driver before it is coded.*)
(* Every call that touches a file may fail.  One frame is one tick of the  *)
(* clock, and a picture is the number of its frame, or 0 if it is mixed;   *)
(* the AVI headers around it are left out.                                 *)
(***************************************************************************)
EXTENDS Integers, SequencesExt

CONSTANTS First,     \* AVI_FIRST_SEGMENT_DURATION
          Segment,   \* AVI_DURATION_MAX_SEC
          Bufs,      \* APP_NUM_BUFS, the buffers of the capture driver
          Radix,     \* of the two digits in a file name: 10 in the program
          MaxFrames, \* bound: frames
          MaxRuns,   \* bound: FileWriters, one after the other
          MaxBroken, \* bound: files whose stream fails
          Disallow   \* may transmission be disallowed?

ASSUME RecorderAssumption ==
  /\ First \in Nat /\ Segment \in Nat /\ Bufs \in Nat \ {0} /\ Radix \in Nat \ {0, 1}
  /\ MaxFrames \in Nat /\ MaxRuns \in Nat /\ MaxBroken \in Nat /\ Disallow \in BOOLEAN

VARIABLES
  pc,       \* where run() is
  now,      \* timestamp of the last frame, which is in the live buffer
  ring,     \* the buffers the driver has, in the order it fills them
  done,     \* how many of them are filled
  live,     \* the buffer run() fetched last
  held,     \* the picture in each buffer
  coded,    \* the frame coded since getFrame(), when, and how late (history)
  runs,     \* FileWriters so far
  stamp,    \* _datec and _time, which are cut to the minute
  start,    \* _start
  checked,  \* _media_was_checked
  ready,    \* _media_is_ready
  copyTo,   \* is _copy_to set?
  names,    \* _fnames, with the file each name was given to
  data,     \* the pictures in each file ever named
  absent,   \* the files that could not be made
  broken,   \* the files whose stream has failed, those included
  frames,   \* _frames
  cur,      \* _cur_file_idx; 0 for none
  reader,   \* _fstream: the file it is open on, 0 for none, and its failbit
  mode,     \* _streaming_mode
  allowed,  \* Comm::isTransmissionAllowed()
  out,      \* what next_frame() returned last, and from which file
  stick,    \* files on the USB stick, in the order they were written
  status,   \* flash_avail of the last run and of this one, in the EEPROM
  born,     \* timestamp at which this FileWriter was made (history)
  mishaps   \* what has happened to the files so far (history)

media == <<checked, ready, copyTo, status>>
files == <<names, data, stick, absent, broken>>
player == <<frames, cur, reader, out>>
global == <<runs, stamp, mode, allowed, born>>
driver == <<ring, done, live, held>>
capture == <<driver, coded>>
vars == <<pc, now, capture, start, media, files, player, global, mishaps>>

Modes == {"no_latency", "transmit_all"}

(* snprintf() into three bytes: the first two digits of the number. *)
Lead[k \in Nat] == IF k < Radix * Radix THEN k ELSE Lead[k \div Radix]
FragmentNum(n) == Lead[n]

(* Fault: the fragments are not counted. *)
GenNameSame(n) == <<stamp, 0>>

(* gen_fname(): the name of the n-th file of this FileWriter. *)
GenName(n) == <<stamp, FragmentNum(n - 1)>>

(* A directory has a file of each name once. *)
Has(dir, name)     == \E i \in DOMAIN dir : dir[i].name = name
Place(dir, name)   == CHOOSE i \in DOMAIN dir : dir[i].name = name
Without(dir, name) == IF Has(dir, name) THEN RemoveAt(dir, Place(dir, name)) ELSE dir
OnStick(name)      == Has(stick, name)

(* What a name is opened on: the first file is in /tmp. *)
Lookup(n) == IF n = 1 THEN IF names[1].id \in absent THEN 0 ELSE names[1].id
             ELSE IF OnStick(names[n].name) THEN stick[Place(stick, names[n].name)].id ELSE 0

Closed == [file |-> 0, bad |-> FALSE]

Buffers == 1 .. Bufs
NoFrame == [ts |-> 0, pic |-> 0, file |-> 0, now |-> 0, late |-> 0]

(* File 1 was on the stick before, in the directory of this month, if any  *)
(* was.                                                                    *)
Init == /\ ring = <<>> /\ done = 0 /\ live = 1 /\ held = [b \in Buffers |-> 0]
        /\ coded = NoFrame
        /\ pc = "off" /\ now = 0 /\ runs = 0 /\ stamp = 1 /\ start = 0 /\ born = 0
        /\ checked = FALSE /\ ready = FALSE /\ copyTo = FALSE
        /\ status = [last |-> FALSE, this |-> FALSE]
        /\ names = <<>> /\ data = <<<<>>>> /\ absent = {} /\ broken = {}
        /\ stick \in {<<>>, <<[name |-> <<0, 0>>, id |-> 1]>>}
        /\ frames = <<>> /\ cur = 0 /\ reader = Closed
        /\ out = [ts |-> 0, pic |-> 0, file |-> 0]
        /\ mode = "no_latency" /\ allowed = TRUE
        /\ mishaps = {}
-----------------------------------------------------------------------------
(* Fault: one buffer less is queued. *)
StreamingBufsButLast == [i \in 1 .. Bufs - 1 |-> i]
(* init_streaming_bufs() queues every buffer. *)
StreamingBufs == [i \in 1 .. Bufs |-> i]

(* run() makes a FileWriter after a frame that is put back, and it begins  *)
(* its first file.  The name comes again in the same minute of any day of  *)
(* the month.  The streaming mode is read twice and may be changed in      *)
(* between: here, and at the beginning of run(), where no_latency allows   *)
(* transmission.                                                           *)
NewWriter ==
  /\ pc = "off" /\ runs < MaxRuns
  /\ runs' = runs + 1
  /\ stamp' \in {stamp, stamp + 1}
  /\ mode' \in Modes /\ allowed' \in {allowed, TRUE}
  /\ start' = now /\ born' = now
  /\ checked' = FALSE /\ ready' = FALSE /\ copyTo' = FALSE
  /\ data' = Append(data, <<>>)
  /\ names' = <<[name |-> <<stamp', FragmentNum(0)>>, id |-> Len(data')]>>
  /\ \E failed \in SUBSET {Len(data')} : absent' = absent \union failed /\ broken' = broken \union failed
  /\ Cardinality(broken') <= MaxBroken
  /\ frames' = <<>> /\ cur' = 0 /\ reader' = Closed
  /\ out' = [ts |-> now, pic |-> now, file |-> 0]
  /\ mishaps' = mishaps \union (IF runs > 0 /\ stamp' = stamp THEN {"same_minute"} ELSE {})
  /\ live' = Head(StreamingBufs) /\ ring' = Append(Tail(StreamingBufs), live')
  /\ done' = 0 /\ held' = [b \in Buffers |-> 0]
  /\ pc' = "add"
  /\ coded' = NoFrame
  /\ UNCHANGED <<now, stick, status>>

(* Comm::allowTransmission(): nobody calls it with false, but the loop     *)
(* provides for that, and looks at it between add_frame() and next_frame().*)
AllowTransmission ==
  /\ Disallow /\ pc = "next"
  /\ allowed' = ~allowed
  /\ UNCHANGED <<pc, now, capture, start, media, files, player, runs, stamp, mode, born, mishaps>>

(* The driver fills the buffers it has in turn, while run() is busy. *)
Capture ==
  /\ pc \in {"add", "next", "code"} /\ done < Len(ring) /\ now + done < MaxFrames
  /\ done' = done + 1
  /\ held' = [held EXCEPT ![ring[done']] = now + done']
  /\ UNCHANGED <<pc, now, ring, live, coded, start, media, files, player, global, mishaps>>

(* getFrame() *)
GetFrame == /\ done > 0 /\ done' = done - 1
            /\ live' = Head(ring) /\ ring' = Tail(ring)
            /\ now' = now + 1
            /\ coded' = NoFrame
            /\ UNCHANGED held

(* putFrame() *)
PutFrame == ring' = Append(ring, live) /\ UNCHANGED <<done, live, coded>>
-----------------------------------------------------------------------------
(* check_media(): the stick is in the table of mounts, its directory is    *)
(* there, and what is written into a file can be read from it.             *)
Media == [mounted : BOOLEAN, directory : BOOLEAN, intact : BOOLEAN]
check_media(found) == found.mounted /\ found.directory /\ found.intact

(* Fault: the copy is planned whether there is a stick or not. *)
MediaCheckCopies(t) ==
  IF ~checked /\ t - start > First
  THEN /\ checked' = TRUE
       /\ \E found \in Media : ready' = check_media(found)
       /\ copyTo' = TRUE
       /\ status' = [last |-> status.this, this |-> ready']
  ELSE UNCHANGED media

(* The stick is looked for once, some time after the start. *)
MediaCheck(t) ==
  IF ~checked /\ t - start > First
  THEN /\ checked' = TRUE
       /\ \E found \in Media : ready' = check_media(found)
       /\ copyTo' = ready'
       /\ status' = [last |-> status.this, this |-> ready']
  ELSE UNCHANGED media

(* A new segment begins when the stick is found, and then whenever the     *)
(* last one is long enough.                                                *)
NeedSegment(t) == ready' /\ (~checked \/ t - start > Segment)

(* delete_old_files() leaves these files: if space is short one file goes, *)
(* the one whose last write is the longest ago.                            *)
AfterDeletion == {stick} \union (IF stick = <<>> THEN {} ELSE {Tail(stick)})

(* The frame is appended to the muxer's file, unless the stream of that    *)
(* fails or has failed, and queued in any case.                            *)
Record(t) ==
  LET id == names'[Len(names')].id
      made == IF id > Len(data) THEN Append(data, <<>>) ELSE data
  IN  /\ broken' \in {broken \union (absent' \ absent), broken \union {id}}
      /\ data' = IF id \in broken' THEN made ELSE [made EXCEPT ![id] = Append(@, held[live'])]
      /\ frames' = Append(frames, [file |-> Len(names'), ts |-> t,
                                   pos |-> IF id \in broken' THEN 0 ELSE Len(data'[id])])

(* gen_fname() removes a file that has the name already; the new one may   *)
(* not be made.                                                            *)
BeginSegment(t) ==
  LET name == GenName(Len(names) + 1)
      new == [name |-> name, id |-> Len(data) + 1]
  IN  \E left \in AfterDeletion, failed \in SUBSET {new.id} :
        /\ stick' = IF failed = {} THEN Append(Without(left, name), new) ELSE Without(left, name)
        /\ absent' = absent \union failed
        /\ names' = Append(names, new)
        /\ start' = t
        /\ mishaps' = mishaps \union (IF left # stick THEN {"deleted"} ELSE {})
                              \union (IF OnStick(name) THEN {"overwritten"} ELSE {})

(* getFrame() and add_frame() *)
AddFrame ==
  LET t == now + 1 IN
  /\ pc = "add"
  /\ GetFrame
  /\ MediaCheck(t)
  /\ IF NeedSegment(t) THEN BeginSegment(t) ELSE UNCHANGED <<stick, absent, names, start, mishaps>>
  /\ IF ready' \/ ~checked' THEN Record(t) ELSE UNCHANGED <<data, broken, frames>>
  /\ Cardinality(broken') <= MaxBroken
  /\ pc' = "next"
  /\ UNCHANGED <<cur, reader, out, global>>

(* A filesystem error while the stick is looked for, before its directory  *)
(* is there, or before the segment is begun: delete_old_files() throws     *)
(* also if space is short and there is no old file.                        *)
AddFrameThrows ==
  LET t == now + 1 IN
  /\ pc = "add"
  /\ GetFrame
  /\ \/ ~checked /\ t - start > First /\ UNCHANGED <<media, stick>>
     \/ /\ ~checked /\ t - start > First
        /\ checked' = TRUE /\ ready' = TRUE /\ copyTo' = TRUE /\ UNCHANGED <<status, stick>>
     \/ MediaCheck(t) /\ NeedSegment(t) /\ stick' \in AfterDeletion
  /\ mishaps' = mishaps \union {"thrown"} \union (IF stick' # stick THEN {"deleted"} ELSE {})
  /\ pc' = "unwind"
  /\ UNCHANGED <<start, names, data, absent, broken, player, global>>
-----------------------------------------------------------------------------
(* Fault: a frame that is sent live stays in the queue. *)
NextLiveKeeps == /\ out' = [ts |-> now, pic |-> held[live], file |-> 0]
                 /\ UNCHANGED <<held, frames, cur, reader, mishaps>>

(* The frame that was captured last, straight from its buffer. *)
NextLive == /\ out' = [ts |-> now, pic |-> held[live], file |-> 0]
            /\ frames' = IF frames = <<>> THEN frames ELSE Tail(frames)
            /\ UNCHANGED <<held, cur, reader, mishaps>>

(* The file is opened, unless the frame before was in it.  A stream that   *)
(* is open stays on its file, and open() fails.                            *)
Opened(n, fails) ==
  IF n = cur THEN reader
  ELSE IF reader.file # 0 THEN [reader EXCEPT !.bad = TRUE]
  ELSE LET file == IF fails THEN 0 ELSE Lookup(n) IN [file |-> file, bad |-> file = 0]

(* The oldest frame of the queue is read into the live buffer.  If the     *)
(* stream has failed the buffer stays as it is; a read that fails may have *)
(* filled a part of it.                                                    *)
NextQueued ==
  \E fails \in BOOLEAN :
    LET fr == Head(frames)
        r  == Opened(fr.file, fails)
        ok == ~r.bad /\ ~fails /\ fr.pos \in DOMAIN data[r.file]
    IN
    /\ frames' = Tail(frames)
    /\ reader' = [r EXCEPT !.bad = @ \/ ~ok]
    /\ cur' = IF r.file = 0 THEN 0 ELSE fr.file
    /\ \E pic \in IF ok THEN {data[r.file][fr.pos]} ELSE IF r.bad THEN {held[live]} ELSE {held[live], 0} :
         /\ out' = [ts |-> IF r.file = 0 THEN now ELSE fr.ts, pic |-> pic, file |-> fr.file]
         /\ held' = [held EXCEPT ![live] = pic]
    /\ mishaps' = mishaps \union (IF fails THEN {"unread"} ELSE {})

(* next_frame(), unless transmission is not allowed, and putFrame(). *)
NextFrame ==
  /\ pc = "next"
  /\ IF ~allowed THEN UNCHANGED <<player, held, mishaps>>
     ELSE IF Len(frames) <= 1 \/ mode = "no_latency" THEN NextLive
     ELSE NextQueued
  /\ PutFrame
  /\ pc' = IF allowed THEN "code" ELSE "add"
  /\ UNCHANGED <<now, start, media, files, global>>

(* encFrame() copies the buffer that has been put already, and that the    *)
(* driver may be filling.                                                  *)
Code ==
  /\ pc = "code"
  /\ coded' = [ts |-> out.ts, file |-> out.file, now |-> now, late |-> done,
               pic |-> IF done < Len(ring) /\ ring[done + 1] = live THEN 0 ELSE held[live]]
  /\ pc' = "add"
  /\ UNCHANGED <<now, driver, start, media, files, player, global, mishaps>>
-----------------------------------------------------------------------------
(* Fault: the first segment is deleted and not copied. *)
FinishDeletes == /\ pc \in {"add", "unwind"}
                 /\ pc' = "off"
                 /\ UNCHANGED <<now, capture, start, media, files, player, global, mishaps>>

(* ~FileWriter(): the first segment is copied to the stick, unless that    *)
(* was never found, and deleted from /tmp.  It has to be there, its name   *)
(* has to be free, and its directory has to be left on the stick.          *)
Finish ==
  /\ pc \in {"add", "unwind"}
  /\ IF copyTo
     THEN \E left \in AfterDeletion :
            /\ left = stick \/ left # <<>>
            /\ names[1].id \notin absent
            /\ ~Has(left, names[1].name)
            /\ stick' = Append(left, names[1])
            /\ mishaps' = mishaps \union (IF left # stick THEN {"deleted"} ELSE {})
     ELSE UNCHANGED <<stick, mishaps>>
  /\ pc' = "off"
  /\ UNCHANGED <<now, capture, start, media, names, data, absent, broken, player, global>>

(* An exception in the destructor ends the program: any filesystem error   *)
(* of the copy, of the deletion before it or of the removal after it.      *)
Terminate ==
  /\ pc \in {"add", "unwind"}
  /\ stick' \in IF copyTo THEN AfterDeletion ELSE {stick}
  /\ mishaps' = mishaps \union {"thrown"} \union (IF stick' # stick THEN {"deleted"} ELSE {})
  /\ pc' = "terminated"
  /\ UNCHANGED <<now, capture, start, media, names, data, absent, broken, player, global>>

(* An exception elsewhere in the loop ends run() as a stop does. *)
Next == NewWriter \/ AllowTransmission \/ Capture \/ AddFrame \/ AddFrameThrows \/ NextFrame \/ Code
          \/ Finish \/ Terminate

Spec == Init /\ [][Next]_vars
-----------------------------------------------------------------------------
TypeOK ==
  /\ pc \in {"off", "add", "next", "code", "unwind", "terminated"}
  /\ done \in 0 .. Len(ring) /\ Len(ring) <= Bufs /\ live \in Buffers
  /\ now \in 0 .. MaxFrames /\ start \in 0 .. now /\ born \in 0 .. start
  /\ (copyTo => ready) /\ (ready => checked)
  /\ \A i \in DOMAIN names : names[i].id \in DOMAIN data
  /\ \A i \in DOMAIN frames : frames[i].file \in DOMAIN names
  /\ cur \in 0 .. Len(names) /\ reader.file \in 0 .. Len(data)
  /\ mode \in Modes /\ out.ts \in 0 .. now

(* Every file of this recorder was made, and nothing it wrote failed. *)
Made     == \A n \in DOMAIN names : names[n].id \notin absent
Unbroken == \A n \in DOMAIN names : names[n].id \notin broken

(* The frames given out move forward in time, whatever the mode and the    *)
(* stick do and however many writes fail, unless a file with frames of the *)
(* queue is gone or cannot be opened.  transmit_all gives out every frame  *)
(* from the first one on, however often and for how long transmission is   *)
(* disallowed, as long as frames are recorded; no_latency gives out the    *)
(* frame captured last.                                                    *)
EveryFrameInTurn ==
  [][pc = "next" /\ allowed /\ pc' = "code" /\ Made /\ mishaps' \subseteq {"same_minute"} =>
       /\ out'.ts > out.ts
       /\ IF mode = "no_latency" THEN out'.ts = now
          ELSE ready \/ ~checked => out'.ts = out.ts + 1]_vars

(* A frame is coded with the picture captured at its timestamp if it is    *)
(* live or from the first file, although its buffer is the driver's again  *)
(* by then: run() may be up to APP_NUM_BUFS - 2 frames late.  A frame of a *)
(* later file, which next_frame() opens without closing the first, has its *)
(* own picture or the one captured last, never a third.                    *)
CodedRight ==
  coded.late < Bufs - 1 /\ Unbroken /\ "unread" \notin mishaps =>
    IF coded.file \in {0, 1} THEN coded.pic = coded.ts
    ELSE mishaps \intersect {"deleted", "overwritten"} = {} => coded.pic \in {coded.ts, coded.now}

(* A run during which the stick was found leaves each of its frames in     *)
(* exactly one file on the stick, the ten seconds before that included,    *)
(* two runs of one minute included, if nothing failed, no segment got a    *)
(* name that was there and no file was deleted to make space.              *)
AllOnStick ==
  pc = "off" /\ ready /\ mishaps \subseteq {"same_minute", "unread"} /\ Unbroken =>
    \A t \in born + 1 .. now :
      \E i \in DOMAIN stick :
        /\ \E k \in DOMAIN data[stick[i].id] : data[stick[i].id][k] = t
        /\ \A j \in DOMAIN stick \ {i} :
             \A k \in DOMAIN data[stick[j].id] : data[stick[j].id][k] # t

(* Whatever has failed, the name the first segment will be copied to is    *)
(* free, so that copy_file() in the destructor does not throw for it,      *)
(* unless two recordings began in the same minute: the later segments of a *)
(* recording never get that name, although only two digits of the fragment *)
(* number are kept.                                                        *)
FirstNameFree ==
  pc \in {"add", "next", "code", "unwind"} /\ copyTo /\ OnStick(names[1].name) =>
    "same_minute" \in mishaps
=============================================================================
