------------------------------ MODULE Session ------------------------------
(***************************************************************************)
(* A user of the configurator (src/configurator) and one board.  What the  *)
(* user clicks runs a handler of a window on the UI thread: it stops the   *)
(* video, sends configurations or asks for one, and plays the video again. *)
(* A handler that waits for an answer handles events in between            *)
(* (ProgressDialog::progress()), so that another window may run a handler  *)
(* of its own inside it: ui is a stack.  The io thread gives messages from *)
(* the board to the callback of the Client that asked last.                *)
(*                                                                         *)
(* Messages are whole commands and whole configurations (how those cross   *)
(* the line is CfgTransfer); hq and bq are a ring and its line.  A request *)
(* may time out at any moment.                                             *)
(***************************************************************************)
EXTENDS Eeprom, SequencesExt, FiniteSets

CONSTANTS Configs,    \* what the user uploads
          Editors,    \* bound: windows of CfgEditor
          BoardIds,   \* camera ids the board may have stored
          HostRing,   \* messages the host's ring holds
          Damaged,    \* commands a damaged packet may become
          MaxOps,     \* bound: clicks, but for those that open an editor
          MaxFaults   \* bound: messages damaged or lost on the way to the board

ASSUME SessionAssumption ==
  /\ BoardIds \subseteq 0 .. 3 /\ HostRing \in Nat \ {0}
  /\ IsFiniteSet(Editors) /\ Editors \intersect {"main", "registers"} = {}
  /\ Configs \subseteq Seq(0 .. 255)
  /\ \A d \in Damaged : d.cmd \in Nat /\ d.val \in Seq(0 .. 255)
  /\ \A d \in Damaged : d.cmd = 10 => d.val # <<>>    \* SetID comes with its argument
  /\ MaxOps \in Nat /\ MaxFaults \in Nat

VARIABLES
  ui,        \* handlers running, the innermost last
  shown,     \* StartVideo is checked (and not StopVideo)
  connected, \* controls are enabled
  port,      \* the port is open
  hid,       \* Comm::m_camera_id of the host
  editors,   \* the ones that have been opened
  cb, cbReg, \* handler whose callback is set for Port 0, for Auxiliary::Port
  hq, bq,    \* messages on their way to the board, to the host
  answers,   \* threads of the board that will send an answer
  bid,       \* Comm::m_camera_id of the board
  stop,      \* g_stop
  eeprom, reg,
  ops, faults, \* clicks and faults so far
  missed,    \* the last Start or Stop sent is lost or refused (history)
  refused,   \* the board refused a message (history)
  excused,   \* why it may (history)
  stored,    \* what SetX() was last given (history)
  spoilt     \* areas a configuration of a neighbour has reached into (history)

window == <<ui, shown, connected, editors>>
serial == <<port, hid, cb, cbReg>>
board == <<bid, stop, eeprom, reg>>
history == <<missed, refused, excused, stored, spoilt>>
vars == <<window, serial, hq, bq, answers, board, ops, faults, history>>

(* enum Commands of the host and of the board *)
Host == [Hello |-> 1, Start |-> 2, Stop |-> 3, enc |-> 4, md |-> 5, roi |-> 6,
         version |-> 7, reg |-> 8, SetID |-> 9]
Board == [Hello |-> 1, Start |-> 2, Stop |-> 3, enc |-> 4, md |-> 5, roi |-> 6,
          version |-> 7, reg |-> 8, ToggleStreams |-> 9, SetID |-> 10]
Requests == {"enc", "md", "roi", "version", "reg"}

VersionInfo == <<0>>
(* What the board answers now. *)
Answer(k, e, r, id) ==
  CASE k \in Areas -> GetCfg(e, k)
    [] k = "version" -> VersionInfo
    [] k = "reg" -> <<r>>
    [] k = "hello" -> <<id>>
    [] OTHER -> <<>>
-----------------------------------------------------------------------------
(* The handlers, as the calls they make. *)
PlayVideo == <<<<"play", "none">>>>
StopVideo == <<<<"stop", "none">>>>
tryConnect == <<<<"open", "none">>, <<"ask", "hello">>>>
setShowThresholds == <<<<"stop", "none">>, <<"put", "reg">>, <<"play", "none">>>>
Construct == tryConnect \o setShowThresholds \o PlayVideo
Connect == StopVideo \o tryConnect
DownloadROI == <<<<"stop", "none">>, <<"ask", "roi">>, <<"play", "none">>>>
UploadROI == <<<<"stop", "none">>, <<"put", "roi">>, <<"play", "none">>>>
CameraID == <<<<"stop", "none">>, <<"id", "none">>, <<"play", "none">>>>
About == <<<<"stop", "none">>, <<"ask", "version">>>>
editCfg == <<<<"stop", "none">>, <<"edit", "none">>>>
downloadCfg == <<<<"ask", "enc">>>>
uploadCfg == <<<<"put", "enc">>>>
ApplyDetectorSettings == <<<<"stop", "none">>, <<"put", "md">>, <<"play", "none">>>>
(* The dialogs in which the user loads and stores, either, both or none.   *)
EditDetectorSettings ==
  {<<<<"stop", "none">>>> \o load \o store \o PlayVideo :
     load \in {<<>>, <<<<"ask", "md">>>>}, store \in {<<>>, <<<<"put", "md">>>>}}
getRegister == <<<<"stop", "none">>, <<"ask", "reg">>, <<"play", "none">>>>
setRegister == setShowThresholds

MainHandlers == {PlayVideo, StopVideo, DownloadROI, UploadROI, CameraID, editCfg,
                 ApplyDetectorSettings, setShowThresholds}

Handler(w, blocked, todo) ==
  [win |-> w, blocked |-> blocked, todo |-> todo, kind |-> "none", got |-> <<>>,
   seen |-> {}, clean |-> TRUE]

Windows == {"main", "registers"} \union Editors
(* What the user may click, if no handler that runs blocks the window.     *)
Clicks ==
  {Handler("main", {"main"}, h) : h \in IF connected THEN MainHandlers ELSE {Connect}}
    \union {Handler("main", {"main"}, About)}
    \union (IF connected THEN {Handler("main", Windows, h) : h \in EditDetectorSettings} ELSE {})
    \union {Handler(e, {e}, h) : e \in editors, h \in {downloadCfg, uploadCfg}}
    \union (IF connected THEN {Handler("registers", Windows, h) : h \in {getRegister, setRegister}} ELSE {})

Init == /\ ui = <<Handler("main", Windows, Construct)>>
        /\ shown = FALSE /\ connected = FALSE /\ editors = {}
        /\ port = FALSE /\ hid = 0 /\ cb = 0 /\ cbReg = 0
        /\ hq = <<>> /\ bq = <<>> /\ answers = <<>>
        /\ bid \in BoardIds
        /\ stop = FALSE /\ reg = 0
        /\ eeprom = SetCameraID(Erased, bid)
        /\ ops = 0 /\ faults = 0
        /\ missed = TRUE /\ refused = FALSE /\ excused = FALSE
        /\ stored = [k \in Areas |-> <<>>] /\ spoilt = {}
-----------------------------------------------------------------------------
Top == ui[Len(ui)]
(* The innermost handler goes on as f, or returns. *)
Continue(f) == ui' = IF f.todo = <<>> /\ f.kind = "none" THEN Front(ui) ELSE Append(Front(ui), f)
Doing(what) == ui # <<>> /\ Top.kind = "none" /\ Head(Top.todo)[1] = what
Proceed == Continue([Top EXCEPT !.todo = Tail(@)])

Message(c, k, v) == [cmd |-> c, kind |-> k, val |-> v, cam |-> hid % 4]
Switches(m) == m.cmd \in {Host.Start, Host.Stop}
HasSwitch(q) == \E i \in DOMAIN q : Switches(q[i])

(* Fault: what finds no room is thrown away, as on the board. *)
TransmitDrops(c, k, v) == hq' = IF Len(hq) < HostRing THEN Append(hq, Message(c, k, v)) ELSE hq

(* Comm::transmit() of the host waits for room. *)
Transmit(c, k, v) == Len(hq) < HostRing /\ hq' = Append(hq, Message(c, k, v))

(* A click. *)
Click == /\ ui # <<>> => Top.kind \notin {"none", "reg"}
         /\ \E h \in Clicks : /\ h.win \notin UNION {ui[i].blocked : i \in DOMAIN ui}
                              /\ ui' = Append(ui, h)
                              /\ IF h.todo = editCfg THEN editors # Editors /\ UNCHANGED ops
                                 ELSE ops < MaxOps /\ ops' = ops + 1
         /\ UNCHANGED <<shown, connected, editors, serial, hq, bq, answers, board, faults, history>>

(* QDSWidget::Stop() and Play() *)
Stop == /\ Doing("stop") /\ Proceed
        /\ shown' = FALSE /\ missed' = FALSE
        /\ Transmit(Host.Stop, "none", <<>>)
        /\ UNCHANGED <<connected, editors, serial, bq, answers, board, ops, faults, refused, excused, stored, spoilt>>

Play == /\ Doing("play") /\ Proceed
        /\ shown' = TRUE /\ missed' = FALSE
        /\ Transmit(Host.Start, "none", <<>>)
        /\ UNCHANGED <<connected, editors, serial, bq, answers, board, ops, faults, refused, excused, stored, spoilt>>

(* Server::SendROI(), SendMDCfg(), SendEncCfg(), SendRegisterVal() *)
Put == /\ Doing("put") /\ Proceed
       /\ \E v \in IF Head(Top.todo)[2] = "reg" THEN {<<1>>} ELSE Configs :
            Transmit(0, Head(Top.todo)[2], v)
       /\ UNCHANGED <<shown, connected, editors, serial, bq, answers, board, ops, faults, history>>

(* on_CameraID_currentIndexChanged(): the host takes the id at once. *)
ChangeID == /\ Doing("id") /\ Proceed
            /\ \E i \in 0 .. 3 : /\ i # hid
                                 /\ Transmit(Host.SetID, "none", <<i>>)
                                 /\ hid' = i
            /\ excused' = TRUE
            /\ UNCHANGED <<shown, connected, editors, port, cb, cbReg, bq, answers, board, ops, faults,
                           missed, refused, stored, spoilt>>

(* on_editCfg_clicked() opens another editor each time; which one of the   *)
(* bound's it is makes no difference.                                      *)
Edit == /\ Doing("edit") /\ Proceed
        /\ editors # Editors
        /\ editors' = editors \union {CHOOSE e \in Editors \ editors : TRUE}
        /\ UNCHANGED <<shown, connected, serial, hq, bq, answers, board, ops, faults, history>>

(* Comm::open(): close(), and what has not been written is forgotten. *)
Open == /\ Doing("open")
        /\ \E n \in 0 .. IF port THEN Len(hq) ELSE 0 :
             /\ hq' = SubSeq(hq, 1, n)
             /\ missed' = (missed \/ \E i \in n + 1 .. Len(hq) : Switches(hq[i]))
        /\ \/ /\ port' = TRUE
              /\ Proceed
              /\ UNCHANGED <<hid, connected, faults, excused>>
           \/ /\ port' = FALSE
              /\ faults < MaxFaults /\ faults' = faults + 1
              /\ Continue([Top EXCEPT !.todo = Tail(Tail(@))])
              /\ hid' = 3 /\ connected' = FALSE /\ excused' = TRUE
        /\ UNCHANGED <<shown, editors, cb, cbReg, bq, answers, board, ops, refused, stored, spoilt>>
-----------------------------------------------------------------------------
(* No answer of this kind is under way. *)
None(k) == /\ \A i \in DOMAIN answers : answers[i].kind # k
           /\ \A i \in DOMAIN bq : bq[i].kind # k

(* Client::Handshake(), Get*(), RegisterEdit::on_getButton_clicked(): a    *)
(* callback is set and the request sent.                                   *)
Ask == /\ Doing("ask")
       /\ LET k == Head(Top.todo)[2]
          IN  /\ Transmit(IF k = "hello" THEN Host.Hello ELSE Host[k], "none", <<>>)
              /\ Continue([Top EXCEPT !.todo = Tail(@), !.kind = k, !.got = <<>>,
                                      !.seen = {Answer(k, eeprom, reg, bid)}, !.clean = None(k)])
              /\ cb' = IF k = "reg" THEN cb ELSE Len(ui)
              /\ cbReg' = IF k = "reg" THEN Len(ui) ELSE cbReg
       /\ UNCHANGED <<shown, connected, editors, port, hid, bq, answers, board, ops, faults, history>>

(* Fault: a handshake waits for ever. *)
EnoughPatient == ui # <<>> /\ Top.kind # "none" /\ (Top.got # <<>> \/ Top.kind # "hello")

(* The handler waits no longer: an answer is there, or the time is over. *)
Enough == ui # <<>> /\ Top.kind # "none"

(* Fault: the callbacks are left as they are. *)
UnsetNever == UNCHANGED <<cb, cbReg>>
(* The callback is set to NULL, whoever's it is. *)
Unset == /\ cb' = IF Top.kind = "reg" THEN cb ELSE 0
         /\ cbReg' = IF Top.kind = "reg" THEN 0 ELSE cbReg
Forget == Continue([Top EXCEPT !.kind = "none", !.got = <<>>, !.seen = {}, !.clean = TRUE])

GotAnswer == /\ Enough /\ Top.kind # "hello"
             /\ Unset /\ Forget
             /\ UNCHANGED <<shown, connected, editors, port, hid, hq, bq, answers, board, ops, faults, history>>

(* Fault: the id is used for the window only. *)
ConnectedKeepsId(id) == connected' = (id >= 0) /\ hid' = hid
(* tryConnect() with what Handshake() returned. *)
Connected(id) == connected' = (id >= 0) /\ hid' = id

(* Handshake() has an id, or -1; the io thread sets m_camera_id after the  *)
(* flag that says so, and until then it is any number.                     *)
GotHello == /\ Enough /\ Top.kind = "hello"
            /\ \E id \in IF Top.got = <<>> THEN {-1} ELSE {Top.got[1]} \union -1 .. 3 :
                 /\ Connected(id)
                 /\ excused' = (excused \/ Top.got # <<id>>)
            /\ Unset /\ Forget
            /\ UNCHANGED <<shown, editors, port, hq, bq, answers, board, ops, faults,
                           missed, refused, stored, spoilt>>
-----------------------------------------------------------------------------
(* Fault: a flag for every type of answer is the same flag. *)
AcceptsAny(f, a) == f.kind # "none"
(* The Cmds of a Client has a flag for each type of answer. *)
Accepts(f, a) == f.kind = a.kind

(* The io thread of the host: Server::Callback(), and AuxCb(). *)
Arrives ==
  /\ port /\ bq # <<>>
  /\ bq' = Tail(bq)
  /\ LET a == Head(bq)
         i == IF a.kind = "reg" THEN cbReg ELSE cb
     IN  ui' = IF i # 0 /\ (a.cam = hid \/ a.kind \in {"hello", "reg"}) /\ Accepts(ui[i], a)
               THEN [ui EXCEPT ![i].got = a.val] ELSE ui
  /\ UNCHANGED <<shown, connected, editors, serial, hq, answers, board, ops, faults, history>>

(* An answer that is cut short by a full ring of the board, or that the    *)
(* host drops because a packet is damaged.                                 *)
AnswerLost == /\ bq # <<>>
              /\ bq' = Tail(bq)
              /\ UNCHANGED <<window, serial, hq, answers, board, ops, faults, history>>

(* A packet to the board is lost, or delivered although its CRC is wrong.  *)
Damage == /\ port /\ hq # <<>> /\ faults < MaxFaults
          /\ faults' = faults + 1
          /\ hq' \in {Tail(hq)} \union {<<[Head(hq) EXCEPT !.cmd = d.cmd, !.val = d.val, !.kind = "none"]>> \o Tail(hq) :
                                           d \in Damaged}
          /\ missed' = (missed \/ (~HasSwitch(Tail(hq)) /\ (HasSwitch(hq) \/ HasSwitch(hq'))))
          /\ excused' = TRUE
          /\ UNCHANGED <<window, serial, bq, answers, board, ops, refused, stored, spoilt>>
-----------------------------------------------------------------------------
(* What the store has held while a handler waits. *)
See(e, r, id) == ui' = [i \in DOMAIN ui |->
                   [ui[i] EXCEPT !.seen = IF ui[i].kind = "none" THEN @ ELSE @ \union {Answer(ui[i].kind, e, r, id)}]]

(* ServerCmds::Hello(), Stop(), and the other commands of execute(); what  *)
(* is asked for is read at once, and sent by a thread.                     *)
drop_unsent == \E n \in 0 .. Len(bq) : bq' = SubSeq(bq, 1, n)

Execute(m) ==
  /\ stop' = IF m.cmd = Board.Start THEN FALSE ELSE IF m.cmd = Board.Stop THEN TRUE ELSE stop
  /\ IF m.cmd \in {Board.Hello, Board.Stop} THEN drop_unsent ELSE UNCHANGED bq
  /\ LET asked == {k \in Requests : Board[k] = m.cmd} \union (IF m.cmd = Board.Hello THEN {"hello"} ELSE {})
     IN  answers' = IF \E k \in asked : Answer(k, eeprom, reg, bid) # <<>>
                    THEN LET k == CHOOSE k \in asked : TRUE
                         IN  Append(answers, [kind |-> k, val |-> Answer(k, eeprom, reg, bid)])
                    ELSE answers
  /\ IF m.cmd = Board.SetID THEN bid' = m.val[1] /\ eeprom' = SetCameraID(eeprom, m.val[1])
     ELSE UNCHANGED <<bid, eeprom>>
  /\ See(eeprom', reg, bid')
  /\ UNCHANGED <<reg, stored, spoilt>>

(* The area after the one that is filled up, and the one before, if it was *)
(* full: its end is overwritten now.                                       *)
After == [md |-> "enc", enc |-> "roi", roi |-> "mode"]
Reached(k, cfg) == (IF Len(cfg) = MaxSize[k] THEN {After[k]} ELSE {})
                     \union {j \in Areas : After[j] = k /\ Len(stored[j]) = MaxSize[j]}

(* A configuration, or a register, is complete. *)
Store(m) ==
  /\ IF m.kind = "reg" THEN reg' = m.val[1] /\ UNCHANGED <<eeprom, stored, spoilt>>
     ELSE /\ eeprom' = SetCfg(eeprom, m.kind, m.val)
          /\ stored' = IF Len(m.val) > MaxSize[m.kind] THEN stored ELSE [stored EXCEPT ![m.kind] = m.val]
          /\ spoilt' = IF Len(m.val) > MaxSize[m.kind] THEN spoilt
                       ELSE (spoilt \ {m.kind}) \union Reached(m.kind, m.val)
          /\ UNCHANGED reg
  /\ See(eeprom', reg', bid)
  /\ UNCHANGED <<bq, answers, bid, stop>>

(* Server::Callback(), auxiliaryCb(): the message is for another camera. *)
Refuses(m) == m.cam # bid /\ m.cmd # Board.Hello

Receive ==
  /\ port /\ hq # <<>>
  /\ hq' = Tail(hq)
  /\ LET m == Head(hq)
     IN  IF Refuses(m)
         THEN /\ refused' = TRUE
              /\ missed' = (missed \/ (HasSwitch(hq) /\ ~HasSwitch(Tail(hq))))
              /\ UNCHANGED <<ui, bq, answers, board, stored, spoilt>>
         ELSE /\ IF m.kind = "none" THEN Execute(m) ELSE Store(m)
              /\ UNCHANGED <<missed, refused>>
  /\ UNCHANGED <<shown, connected, editors, serial, ops, faults, excused>>

(* A thread of the board sends its answer. *)
SendAnswer ==
  /\ \E i \in DOMAIN answers :
       /\ answers' = RemoveAt(answers, i)
       /\ bq' = Append(bq, [kind |-> answers[i].kind, val |-> answers[i].val, cam |-> bid % 4])
  /\ UNCHANGED <<window, serial, hq, board, ops, faults, history>>
-----------------------------------------------------------------------------
UiStep == Stop \/ Play \/ Put \/ ChangeID \/ Edit \/ Open \/ Ask \/ GotAnswer \/ GotHello
Next == Click \/ UiStep \/ Arrives \/ AnswerLost \/ Damage \/ Receive \/ SendAnswer

Spec == Init /\ [][Next]_vars
(* The UI thread runs, and the line carries what the host sends. *)
FairSpec == Spec /\ WF_vars(UiStep) /\ WF_vars(Receive)
-----------------------------------------------------------------------------
TypeOK == /\ Len(ui) <= Cardinality(Windows)
          /\ Len(hq) <= HostRing
          /\ {shown, connected, port, stop} \subseteq BOOLEAN /\ editors \subseteq Editors
          /\ hid \in -1 .. 255 /\ DOMAIN eeprom = 0 .. hw_status_offset

(* The io thread never calls back into a handler that has returned or goes *)
(* on with something else, although handlers run inside others and each    *)
(* sets the one callback to its own and then to NULL.                      *)
CallbackAlive ==
  /\ cb # 0 => cb \in DOMAIN ui /\ ui[cb].kind \notin {"none", "reg"}
  /\ cbReg # 0 => cbReg \in DOMAIN ui /\ ui[cbReg].kind = "reg"

(* Once everything the window sent has been handled, the board streams     *)
(* exactly when the window says so, whatever handlers ran inside others    *)
(* and however long transmit() had to wait, unless the last Start or Stop  *)
(* was lost with the ring, damaged or refused.                             *)
AgreeWhenQuiet == hq = <<>> /\ ~missed => stop = ~shown

(* The board refuses nothing the host sends, as long as the user has not   *)
(* changed the camera's id (the board takes that command for another), the *)
(* last handshake did not fail or use an id that was not there yet, and no *)
(* packet was damaged.                                                     *)
NothingRefused == refused => excused

(* What a handler takes for the answer has been the truth at some time     *)
(* since it asked, unless an answer of the same kind was still under way   *)
(* from before: late answers of other kinds, of other windows and of a     *)
(* lost connection do not get in, and a request of before asks for now.    *)
AnswersFresh == \A i \in DOMAIN ui : ui[i].got # <<>> /\ ui[i].clean => ui[i].got \in ui[i].seen

(* An area of the EEPROM reads back as it was last stored, and mode and    *)
(* hardware status are untouched, unless a neighbour has been written over *)
(* it since: a largest configuration ends in the next area, and the next   *)
(* area's begins with that end.                                            *)
StoreIntact ==
  /\ \A k \in Areas \ spoilt : GetCfg(eeprom, k) = stored[k]
  /\ "mode" \notin spoilt => get_streaming_mode(eeprom) = 0
  /\ get_hw_status(eeprom) = 0

(* The window does not hang: every handler returns while the port is open, *)
(* although transmit() waits for room and answers may never come.          *)
Handling == ui # <<>>
HandlersReturn == Handling ~> (~Handling \/ ~port)
=============================================================================
