--------------------------- MODULE AudioSessionInv ---------------------------
(***************************************************************************)
(* The inductive invariant of AudioSession.  Its properties speak of the   *)
(* token, of the decode ahead and of the moment the B core is shut off;    *)
(* why they hold depends on where the control task is in its program and   *)
(* on where on its way to the B core and back each command is.             *)
(***************************************************************************)
EXTENDS AudioSession, Integers

(* The step the control task does next, and the ones that may follow it.   *)
Now == IF todo = <<>> THEN None ELSE Head(todo)
Follow(s) ==
  CASE s \in {"fileOpen", "setPlay"} -> {None, "get", "seek"}
    [] s = "hwInit" -> {"codecOpen"}
    [] s = "codecOpen" -> {"opened"}
    [] s = "opened" -> {"setPlay"}
    [] s = "stop" -> {"codecClose"}
    [] s = "codecClose" -> {"bbStop"}
    [] s = "bbStop" -> {"shutOff"}
    [] s = "shutOff" -> {None, "get", "nextForce", "nextNormal", "seek"}
    [] s \in {"nextForce", "resume", "ffd", "ffPause", "ffResumed"} -> {"get"}
    [] s = "pause" -> {None, "get"}
    [] s = "seek" -> {"pause", "ffTake"}
    [] s = "ffTake" -> {"ffResumed"}
    [] s \in {"nextNormal", "get", "copied"} -> {None}

\* What the control task has still to do is the rest of one of its programs.
Program(t) ==
  \A i \in 1 .. Len(t) : (IF i = Len(t) THEN None ELSE t[i + 1]) \in Follow(t[i])


(* Where the control task is when it waits for the token of cmd.           *)
WaitsAt(cmd) ==
  CASE cmd = "DMA" -> {"copied"}
    [] cmd = "DECODE" -> {"get"}
    [] cmd = "DECODE_SEEK" -> {"ffTake", "pause"}
    [] cmd = "DEC_OPEN" -> {"opened"}
    [] cmd = "FILE_OPEN_CMPL" -> {"codecOpen"}
    [] cmd = "DECODE_CLOSE" -> {"bbStop"}
    [] cmd = "FILE_CLOSE_CMPL" -> {"shutOff"}

\* The token is given once for each wait, and to whoever waits for it; a decode's
\* answer gives it only when it is awaited; a copy is made with the mailbox masked.
TokenInv ==
  /\ sem # None => sem = waiting
  /\ waiting # None /\ ~byShell => Now \in WaitsAt(waiting)
  /\ byShell =>
       /\ waiting = "DECODE_SEEK"
       /\ Now \notin {"bbStop", "shutOff", "codecOpen", "opened", "setPlay", "copied"}
  /\ block.needDecode => waiting = "DECODE" /\ sem = None
  /\ dma => waiting = "DMA" /\ sem = None
  /\ waiting = "DMA" => masked
  /\ masked => Now = "copied" /\ isr = None

\* Where a track is given up and where one is started.
PlayerInv ==
  /\ CurrentCodec = None => bpc = "off"
  /\ Now = "hwInit" => CurrentCodec # None
  /\ Now \in {"codecOpen", "opened", "setPlay"} => bpc # "off"
  /\ Now \in {"codecClose", "bbStop", "shutOff"} => AudioPlayState = "STOP"
  /\ \/ Now \in {"nextNormal", "nextForce"}
     \/ Now \in {"fileOpen", "hwInit"} /\ source = "file"
     => bpc = "off" /\ AudioPlayState = "STOP"

\* A B core that is shut off has nothing to do and left nothing behind.
OffInv ==
  bpc = "off" =>
    /\ waiting = None /\ a2b = None /\ b2a = None /\ isr = None
    /\ status = "IDLE" /\ gFileOpStatus = "IDLE" /\ ~hw
    /\ CurrentCodec # None /\ AudioPlayState = "PLAY" =>
         Now = "get" \/ (Now = "hwInit" /\ ~block.Decoding)

(* What the B core has not begun, and what its main loop works on.         *)
Unread(cmd) ==
  \/ a2b = cmd
  \/ status = cmd /\ ~(bpc = "case" /\ op = cmd)
  \/ gFileOpStatus = cmd /\ ~(bpc = "fileCase" /\ op = cmd)
AtWork(cmd) ==
  \/ op = cmd /\ bpc \in {"case", "fillFirst", "codec", "wait", "answer", "fileCase",
                          "handshake"}
  \/ cmd = "FILE_OPEN_CMPL" /\ op = "rawSeek" /\ bpc = "wait"

(* No d follows cmd on its way.                                            *)
Last(cmd, d) ==
  /\ status = cmd \/ gFileOpStatus = cmd => a2b # d
  /\ AtWork(cmd) => ~Unread(d)
  /\ Answered(cmd) => ~InWork(d)

\* The main loop's op is the command of the case it is in.
OpInv ==
  /\ bpc \in {"case", "codec", "answer"} => op \in DecodeCmds
  /\ bpc = "fillFirst" => op = "DECODE"
  /\ bpc = "wait" => op \in (DecodeCmds \ {"DECODE_CLOSE"}) \cup {"FILE_OPEN_CMPL", "rawSeek"}
  /\ bpc = "fileCase" => op \in FileCmds \cup {"READ", "SEEK"}
  /\ bpc = "handshake" => op \in FileCmds
  /\ bpc \notin {"case", "fillFirst", "codec", "wait", "answer", "fileCase", "handshake"} =>
       op = None

\* Each command is in one place, and a decode never follows a seek or a close.
OrderInv ==
  /\ \A cmd \in BCoreCmds : Last(cmd, cmd)
  /\ Last("DECODE_SEEK", "DECODE") /\ Last("DECODE_CLOSE", "DECODE")

\* Only a decode may be under way without being awaited.
AwaitedInv ==
  \A cmd \in BCoreCmds \ {"DECODE"} : UnderWay(cmd) => waiting = cmd /\ sem = None

\* No decode is under way while a track is opened, or once it is closed.
ClosedInv ==
  \/ waiting \in FileCmds \cup {"DEC_OPEN"}
  \/ Now \in {"codecOpen", "opened", "shutOff"} /\ CurrentCodec # None
  \/ Now = "bbStop" /\ CurrentCodec # None /\ waiting = None
  \/ sem = "DECODE_CLOSE"
  => ~UnderWay("DECODE")

\* The hardware is set up before the open is answered, taken down before the close is,
\* and not used before and after.
HardwareInv ==
  /\ bpc # "off" /\ ~hw =>
       /\ ~fill /\ bpc \notin {"case", "fillFirst", "codec", "wait", "answer", "fillLast"}
       /\ waiting \in FileCmds \/ (waiting = None /\ Now \in {"codecOpen", "shutOff"})
  /\ bpc \in {"second", "fileCase", "fillLast", "idleLast", "sleepLast"} => ~fill
  /\ \/ Answered("FILE_OPEN_CMPL") \/ sem = "FILE_OPEN_CMPL"
     \/ bpc \in {"wait", "handshake"} /\ op \in {"FILE_OPEN_CMPL", "rawSeek"}
     \/ Now = "codecOpen" /\ waiting = None
     => hw
  /\ \/ Answered("FILE_CLOSE_CMPL") \/ sem = "FILE_CLOSE_CMPL"
     \/ bpc = "handshake" /\ op = "FILE_CLOSE_CMPL"
     \/ Now = "shutOff" /\ CurrentCodec # None /\ waiting = None
     => ~hw

\* Decoding is out of date only while a track is closed or opened.
AheadInv ==
  /\ OneAhead
  /\ bpc # "off" /\ Now \notin {"hwInit", "codecOpen", "opened", "stop", "codecClose", "bbStop",
                                "shutOff"} =>
       (block.Decoding <=> UnderWay("DECODE"))
  /\ Now = "opened" /\ ~gError /\ (waiting = None \/ sem = "DEC_OPEN") => ~block.Decoding
  /\ block.DecodeOver => ~block.Decoding
  /\ source = "dlna" /\ CurrentCodec = None => ~block.Decoding /\ ~block.DecodeOver

RunInv ==
  /\ ans # "old" /\ AnswerIsComing
  /\ TokenInv /\ PlayerInv /\ OffInv
  /\ OpInv /\ OrderInv /\ AwaitedInv /\ ClosedInv
  /\ HardwareInv /\ AheadInv

(* IInv: the invariant from which the others follow and which every step   *)
(* of the two cores, the interrupts and the tasks preserves.               *)
IInv == TypeOK /\ Program(todo) /\ (Running => RunInv)
=============================================================================
