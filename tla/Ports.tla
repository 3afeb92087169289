------------------------------- MODULE Ports -------------------------------
(***************************************************************************)
(* The second serial port of the board (/dev/ttyS0).  While the program    *)
(* starts, Flir looks there for the infrared camera, at one baud rate      *)
(* after the other, and sets it up; then Control listens there for a       *)
(* device that asks for status, time and mode.  An io thread reads and     *)
(* answers; main() and the device run beside it.  A failed write or option *)
(* of a port throws where nobody catches it, and ends the program.         *)
(***************************************************************************)
EXTENDS ControlPacket, FiniteSets

CONSTANTS NRates,    \* baudrates, the fastest first
          BootTries, \* probes at the fastest rate while the camera starts
          Requests,  \* what the device asks, as packets
          Junk,      \* what may be on the stack
          MaxAsked,  \* bound: packets of the device
          MaxFaults  \* bound: late or split answers, bytes lost or changed, errors of the ports

ASSUME PortsAssumption ==
  /\ NRates \in Nat \ {0} /\ BootTries \in Nat /\ Junk # {} /\ Junk \subseteq 0 .. 255
  /\ \A r \in Requests : r \in pkt_t /\ Len(r.data) <= MAX_DATA_SIZE
  /\ MaxAsked \in Nat /\ MaxFaults \in Nat

VARIABLES
  pc,       \* where main() is
  rate,     \* the port's baud rate
  tries,    \* probes left at boot
  second,   \* detect_baudrate() is called the second time
  answered, \* m_answered
  first,    \* what m_buf of Flir begins with looks like an answer
  wire,     \* answers of the camera on their way: when they were asked
  chunks,   \* of them, what has been received and not read
  cam,      \* the camera: there, its rate, whether it takes a new one
  heard,    \* the camera understood a probe, of the first and second search
  wrong,    \* an answer was late, in two pieces or garbled, or a read failed (history)
  found,    \* the rate of the last search, 0 for none
  setup,    \* the camera was sent its modes
  line,     \* bytes from the device
  reading,  \* SerialComm waits for bytes
  buf,      \* m_buf of Control
  s,        \* status and mode in the EEPROM, time and date
  told,     \* packets main() sent to the device
  sent,     \* packets the io thread sent to the device
  read,     \* all bytes read (history)
  taken,    \* packets answered (history)
  broken,   \* a packet was copied over the end, or m_buf was not there yet
  early,    \* the device sent before m_buf was there (history)
  asked,    \* what the device sent (history)
  damaged,  \* bytes of it were lost or changed (history)
  faults

flir == <<rate, tries, second, answered, first, wire, chunks, cam, heard, wrong, found, setup>>
control == <<line, reading, buf, told, sent, read, taken, broken, early, asked, damaged>>
vars == <<pc, flir, control, s, faults>>

(* Flir's constructor has returned already if the port cannot be opened.   *)
Init == /\ pc \in {"probe", "close"} /\ rate = 1 /\ tries = BootTries /\ second = FALSE
        /\ answered = FALSE /\ first \in BOOLEAN /\ wire = 0 /\ chunks = <<>>
        /\ cam \in [on : BOOLEAN, rate : 1 .. NRates, obeys : BOOLEAN]
        /\ heard = FALSE /\ wrong = FALSE /\ found = 0 /\ setup = FALSE
        /\ line = <<>> /\ reading = FALSE /\ buf = <<>> /\ told = <<>> /\ sent = <<>>
        /\ read = <<>> /\ taken = <<>> /\ broken = FALSE /\ early = FALSE
        /\ asked = <<>> /\ damaged = FALSE /\ faults = 0
        /\ s = [time |-> <<0, 0, 0>>, date |-> <<100, 0, 1>>, mode |-> 0,
                status |-> <<0, 0>>, version |-> <<86>>]
-----------------------------------------------------------------------------
(* Something goes wrong, of which there is a bounded number.               *)
Fault == faults < MaxFaults /\ faults' = faults + 1

(* Flir is there, and its io thread runs. *)
FlirLives == {"probe", "wait", "found", "close"}

(* The camera hears what is sent at its own rate. *)
Hears == cam.on /\ cam.rate = rate

(* A camera that has just been switched on starts to listen. *)
CameraStarts == /\ ~cam.on /\ pc \in {"probe", "wait"}
                /\ cam' = [cam EXCEPT !.on = TRUE]
                /\ UNCHANGED <<pc, rate, tries, second, answered, first, wire, chunks, heard, wrong,
                               found, setup, control, s, faults>>

(* detect_baudrate(): send(0x0), at the rate that is set. *)
Probe == /\ pc = "probe"
         /\ wire' = IF Hears THEN wire + 1 ELSE wire
         /\ heard' = (heard \/ Hears)
         /\ pc' = "wait"
         /\ UNCHANGED <<rate, tries, second, answered, first, chunks, cam, wrong, found, setup,
                        control, s, faults>>

(* The camera answers, at its rate: the answer is received whole, in two   *)
(* pieces, or not as an answer if the port's rate has changed.             *)
CameraAnswers ==
  /\ wire > 0 /\ pc \in FlirLives
  /\ wire' = wire - 1
  /\ \/ /\ Hears
        /\ chunks' = Append(chunks, "whole")
        /\ UNCHANGED <<wrong, faults>>
     \/ /\ Fault
        /\ chunks' = chunks \o (IF Hears THEN <<"head", "tail">> ELSE <<"tail">>)
        /\ wrong' = TRUE
     \/ ~Hears /\ UNCHANGED <<chunks, wrong, faults>>
  /\ UNCHANGED <<pc, rate, tries, second, answered, first, cam, heard, found, setup, control, s>>

(* recv_cb(): every read sets m_answered, by the first bytes of m_buf;     *)
(* also one that failed, by those of the read before it.                   *)
ReadChunk == /\ chunks # <<>> /\ pc \in FlirLives
             /\ answered' = (Head(chunks) # "tail") /\ first' = answered'
             /\ chunks' = Tail(chunks)
             /\ UNCHANGED <<pc, rate, tries, second, wire, cam, heard, wrong, found, setup, control, s, faults>>
ReadFails == /\ pc \in FlirLives /\ Fault
             /\ answered' = first /\ wrong' = TRUE
             /\ UNCHANGED <<pc, rate, tries, second, first, wire, chunks, cam, heard, found, setup, control, s>>

(* The search is over with rate r. *)
Return(r) == pc' = "found" /\ found' = r /\ UNCHANGED <<rate, tries>>

(* Fault: after the last rate comes the first one again. *)
NextRateEndless == /\ rate' = (rate % NRates) + 1
                   /\ pc' = "probe" /\ UNCHANGED <<found, tries>>
(* The tries at boot, then the rates from the first to the last.           *)
NextRate == IF tries > 1 THEN tries' = tries - 1 /\ pc' = "probe" /\ UNCHANGED <<rate, found>>
            ELSE IF tries = 1 THEN tries' = 0 /\ rate' = 1 /\ pc' = "probe" /\ UNCHANGED found
            ELSE IF rate < NRates THEN rate' = rate + 1 /\ pc' = "probe" /\ UNCHANGED <<found, tries>>
            ELSE Return(0)

(* wait_for_answer() sees the flag, or has waited long enough: a fault if  *)
(* an answer is still on its way.                                          *)
Wait == /\ pc = "wait"
        /\ IF answered THEN Return(rate) /\ UNCHANGED <<wrong, faults>>
           ELSE /\ NextRate
                /\ IF wire = 0 /\ chunks = <<>> THEN UNCHANGED <<wrong, faults>>
                   ELSE Fault /\ wrong' = TRUE
        /\ UNCHANGED <<second, answered, first, wire, chunks, cam, heard, setup, control, s>>

(* send(0x07): the camera takes the fastest rate, if it does. *)
SetRate == IF Hears /\ cam.obeys THEN [cam EXCEPT !.rate = 1] ELSE cam

(* Fault: the flag is not reset for the second search. *)
SearchAgainAnswered == second' = TRUE /\ rate' = 1 /\ pc' = "probe" /\ heard' = FALSE /\ UNCHANGED answered
SearchAgain == second' = TRUE /\ rate' = 1 /\ pc' = "probe" /\ heard' = FALSE /\ answered' = FALSE

(* Flir's constructor after a search; the status is stored after the first.*)
Status == [s EXCEPT !.status = <<s.status[2], IF found = 0 THEN 0 ELSE 2>>]
Found ==
  /\ pc = "found"
  /\ s' = IF second THEN s ELSE Status
  /\ IF found > 1 /\ ~second
     THEN /\ cam' = SetRate
          /\ wire' = IF Hears THEN wire + 1 ELSE wire
          /\ SearchAgain
          /\ UNCHANGED <<setup, found>>
     ELSE /\ setup' = (found = 1)
          /\ wire' = IF Hears /\ found = 1 THEN wire + 1 ELSE wire
          /\ pc' = "close"
          /\ UNCHANGED <<cam, rate, second, answered, heard, found>>
  /\ UNCHANGED <<tries, first, chunks, wrong, control, faults>>

(* Flir's destructor joins the io thread; the line is then switched from   *)
(* the camera to the device (gpio 12), and Control opens it: Flir is gone, *)
(* and the camera no longer matters.  Control's reader runs before the     *)
(* rest of it is constructed.                                              *)
OpenControl == /\ pc = "close"
               /\ pc' = "opening" /\ reading' = TRUE
               /\ rate' = 1 /\ tries' = 0 /\ second' = FALSE /\ answered' = FALSE /\ first' = FALSE
               /\ wire' = 0 /\ chunks' = <<>> /\ heard' = FALSE /\ wrong' = FALSE
               /\ found' = 0 /\ setup' = FALSE
               /\ cam' = [on |-> FALSE, rate |-> 1, obeys |-> FALSE]
               /\ UNCHANGED <<line, buf, told, sent, read, taken, broken, early, asked, damaged, s, faults>>

(* m_buf of Control is constructed. *)
Construct == /\ pc = "opening" /\ pc' = "opened"
             /\ UNCHANGED <<flir, control, s, faults>>

(* main() sends the status; the io thread may be answering meanwhile. *)
send_status == /\ pc = "opened"
               /\ told' = Append(told, [dst |-> 1, cmd |-> STATUS_NOTIFY, high |-> 0, data |-> s.status])
               /\ pc' = "control"
               /\ UNCHANGED <<flir, line, reading, buf, sent, read, taken, broken, early, asked,
                              damaged, s, faults>>

(* A port cannot be written or set up, by main() or by the io thread that  *)
(* answers; or Control's could not be opened, and send_status() finds that *)
(* out.  The exception ends the program.                                   *)
PortFails == /\ pc \in {"probe", "found", "close", "opened", "control"} /\ Fault
             /\ pc' = "dead"
             /\ UNCHANGED <<flir, control, s>>
-----------------------------------------------------------------------------
Listens == {"opening", "opened", "control"}

(* The device asks. *)
Ask == /\ pc \in Listens /\ Len(asked) < MaxAsked
       /\ \E r \in Requests : line' = line \o Bytes(r) /\ asked' = Append(asked, r)
       /\ early' = (early \/ pc = "opening")
       /\ UNCHANGED <<pc, flir, reading, buf, told, sent, read, taken, broken, damaged, s, faults>>

(* A byte is lost, or changed. *)
Damage == /\ Fault /\ damaged' = TRUE
          /\ \E i \in DOMAIN line : \/ line' = RemoveAt(line, i)
                                    \/ line' = [line EXCEPT ![i] = (@ + 4) % 256]
          /\ UNCHANGED <<pc, flir, reading, buf, told, sent, read, taken, broken, early, asked, s>>

(* recv_cb() with an error starts no read any more. *)
ReaderStops == /\ pc \in Listens /\ reading /\ Fault
               /\ reading' = FALSE
               /\ UNCHANGED <<pc, flir, line, buf, told, sent, read, taken, broken, early, asked, damaged, s>>

(* dispatch() and send() for each packet that is ours and valid. *)
Answers(st, packets, junk) ==
  LET done[n \in 0 .. Len(packets)] ==
        IF n = 0 THEN [s |-> st, sent |-> sent, taken |-> taken]
        ELSE LET a == done[n - 1]
                 p == packets[n]
                 d == dispatch(p, a.s, junk)
             IN  IF Accepted(p)
                 THEN [s |-> d.s, sent |-> Append(a.sent, d.ans), taken |-> Append(a.taken, p)]
                 ELSE a
  IN  done[Len(packets)]

(* SerialComm::recv_cb() with n bytes, and parse(). *)
Receive ==
  /\ pc \in Listens /\ reading /\ line # <<>> /\ ~broken
  /\ \E n \in 1 .. Len(line), junk \in Junk :
       LET p == Parse(buf \o SubSeq(line, 1, n))
           a == Answers(s, p.packets, junk)
       IN  /\ line' = SubSeq(line, n + 1, Len(line))
           /\ read' = read \o SubSeq(line, 1, n)
           /\ buf' = p.rest
           /\ s' = a.s /\ sent' = a.sent /\ taken' = a.taken
           /\ broken' = (p.overrun \/ pc = "opening")
  /\ UNCHANGED <<pc, flir, reading, told, early, asked, damaged, faults>>
-----------------------------------------------------------------------------
Main == Probe \/ Wait \/ Found \/ OpenControl \/ Construct \/ send_status
Io == ReadChunk \/ Receive
Next == Main \/ Io \/ CameraStarts \/ CameraAnswers \/ ReadFails \/ PortFails \/ ReaderStops \/ Ask \/ Damage

Spec == Init /\ [][Next]_vars
(* The threads run, and the camera answers in time or not at all.          *)
FairSpec == Spec /\ WF_vars(Main) /\ WF_vars(Io) /\ WF_vars(CameraAnswers)
-----------------------------------------------------------------------------
(* The camera is found exactly if it understood a probe, and it gets its   *)
(* modes only at the rate it has, unless an answer was late, cut in two or *)
(* garbled, or a read failed.                                              *)
CameraFound ==
  /\ pc = "found" /\ ~wrong => (found # 0 <=> heard)
  /\ setup /\ ~wrong => cam.on /\ cam.rate = 1

(* The packets that are for the board. *)
Ours(packets) ==
  LET own[n \in 0 .. Len(packets)] ==
        IF n = 0 THEN <<>>
        ELSE IF Accepted(packets[n]) THEN Append(own[n - 1], packets[n]) ELSE own[n - 1]
  IN  own[Len(packets)]

(* A request as it is understood when it comes as it was sent.             *)
Understood(r) == [dst |-> r.dst, src |-> r.src, cmd |-> r.cmd, data |-> r.data, valid |-> TRUE]
Requested == [i \in 1 .. Len(asked) |-> Understood(asked[i])]

(* The command that answers a command. *)
AnswerTo(cmd) == CASE cmd = GET_SW_VER -> SW_VER_NOTIFY
                   [] cmd = GET_TIME -> TIME_NOTIFY
                   [] cmd = GET_DATE -> DATE_NOTIFY
                   [] cmd = GET_STATUS -> STATUS_NOTIFY
                   [] cmd = GET_MODE -> MODE_NOTIFY
                   [] OTHER -> cmd

(* However the bytes are cut, also when the device speaks as soon as the   *)
(* parser is there: what was answered are the packets of all the bytes     *)
(* read, each once, and the answers are those to these packets, each to    *)
(* the device that asked and in the order of the questions.  If no byte    *)
(* was lost or changed, the packets answered are what the device sent to   *)
(* the board, from the first on, and all of it when nothing is left to     *)
(* read.                                                                   *)
AnswersInOrder ==
  ~broken =>
    /\ taken = Ours(Parse(read).packets)
    /\ Len(sent) = Len(taken)
    /\ \A i \in DOMAIN taken : sent[i].dst = taken[i].src /\ sent[i].cmd = AnswerTo(taken[i].cmd)
    /\ ~damaged => /\ IsPrefix(taken, Ours(Requested))
                   /\ line = <<>> => taken = Ours(Requested)

(* Nothing is copied over the end of a packet, and m_buf is there, unless  *)
(* bytes were damaged or the device speaks before Control is constructed.  *)
NoOverrun == broken => early \/ damaged

(* The search for the camera ends, whatever the camera does, and the boot  *)
(* goes on, or the program is ended by an error of a port.                 *)
BootEnds == <>(pc \in {"control", "dead"})
=============================================================================
