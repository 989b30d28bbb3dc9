----------------------------- MODULE AudioSession -----------------------------
(***************************************************************************)
(* A playing session: how the audio control task (AudioControlTask.c) and  *)
(* the codec stubs (Codecs/Audio/Decode) start, feed, seek, stop and       *)
(* restart the B core, whose main loop and interrupts are BBSystem/Main2.c.*)
(*                                                                         *)
(* The two cores exchange one command and one answer at a time through     *)
(* mailbox channel 1; every answer of the B core that is waited for, and   *)
(* the end of every copy by DMA, gives the one semaphore osAudioDecodeOk.  *)
(* Channel 2 carries the file requests of FileBuffer, of which only what   *)
(* they do to the B core's control variables is kept here.                 *)
(*                                                                         *)
(* The hand-shakes can go wrong in ten known ways (Mishaps, below).  The   *)
(* variable event says which of them has happened, and the model ends      *)
(* there: most of them leave a task waiting for ever.                      *)
(***************************************************************************)
EXTENDS Sequences

None == "none"

DecodeCmds == {"DEC_OPEN", "DECODE", "DECODE_SEEK", "DECODE_CLOSE"}
FileCmds == {"FILE_OPEN_CMPL", "FILE_CLOSE_CMPL"}
BCoreCmds == DecodeCmds \cup FileCmds
Answers == {"FILE_OPEN_HANDSHK", "FILE_CLOSE_HANDSHK", "DEC_OPEN_CMPL",
            "DEC_OPEN_ERR", "DECODE_CMPL", "DECODE_ERR", "DECODE_SEEK_CMPL",
            "DECODE_CLOSE_CMPL"}

(* The command an answer belongs to.                                       *)
CmdOf(a) == CASE a = "FILE_OPEN_HANDSHK" -> "FILE_OPEN_CMPL"
              [] a = "FILE_CLOSE_HANDSHK" -> "FILE_CLOSE_CMPL"
              [] a \in {"DEC_OPEN_CMPL", "DEC_OPEN_ERR"} -> "DEC_OPEN"
              [] a \in {"DECODE_CMPL", "DECODE_ERR"} -> "DECODE"
              [] a = "DECODE_SEEK_CMPL" -> "DECODE_SEEK"
              [] a = "DECODE_CLOSE_CMPL" -> "DECODE_CLOSE"

VARIABLES
  \* the audio control task
  source,            \* ucSelPlayType: "dlna" or "file"
  todo,              \* the steps of AudioDecodeProc it has still to do
  AudioPlayState, AudioPlayerState,
  CurrentCodec,      \* None for 0xff; "buffered" or "raw" (AAC, ALAC)
  block,             \* the flags of gpMediaBlock
  gError,
  waiting,           \* what osAudioDecodeOk is awaited for, or None
  byShell,           \* it is the shell's task that waits
  dma,               \* a copy by DMA is under way
  sem,               \* the token of osAudioDecodeOk: what gave it, or None
  masked,            \* INT_ID_MAILBOX1 is disabled on the A core
  isr,               \* the answer AudioDecodingGetOutBuffer has read, or None
  \* channel 1 in the two directions, None when no interrupt is pending
  a2b, b2a,
  \* the B core
  bpc, op,           \* where its main loop is, and the case it has read
  status,            \* pcb.audio_decode_status
  gFileOpStatus,
  gCmdDone,          \* kept only while the main loop waits for it
  busy,              \* AudioFileBufBusy2
  hw,                \* its interrupts, DMA and audio hardware are set up
  fill,              \* MSG_AUDIO_DECODE_FILL_BUFFER is set
  \* channel 2, and the StreamControl task
  req, serving, ans,
  event              \* the first of the known mishaps, or None

player == <<source, AudioPlayState, AudioPlayerState, CurrentCodec>>
control == <<player, todo>>
sync == <<block, gError, waiting, byShell, dma, sem, masked, isr>>
bmain == <<bpc, op, status, gFileOpStatus, gCmdDone, busy, fill, hw>>
stream == <<req, serving, ans>>
cores == <<a2b, b2a, bmain, stream>>
vars == <<control, sync, a2b, b2a, bmain, stream, event>>

----------------------------------------------------------------------------
(* What the audio control task does, as sequences of steps *)

AudioStart == << "fileOpen" >>
AudioStarted == << "hwInit", "codecOpen", "opened", "setPlay" >>
AudioPauseStep == << "pause" >>

AudioStopped(normal) == IF normal /\ source = "file" THEN << "nextNormal" >> ELSE <<>>

\* Mutant of AudioStop: the B core is shut off without AudioWaitBBStop.
AudioStopAtOnce(normal) == << "stop", "codecClose", "shutOff" >> \o AudioStopped(normal)

\* Mutant of AudioStop: AudioDeHWInit comes before CloseTrack.
AudioStopSwapped(normal) ==
  << "stop", "bbStop", "codecClose", "shutOff" >> \o AudioStopped(normal)

AudioStop(normal) ==
  << "stop", "codecClose", "bbStop", "shutOff" >> \o AudioStopped(normal)

AudioDecodeProc(cmd) ==
  CASE cmd = "DECSTART" -> AudioStart
    [] cmd = "STOP" -> AudioStop(FALSE)
    [] cmd = "NEXTFILE" -> AudioStop(FALSE) \o << "nextForce" >>
    [] cmd = "PAUSE" -> AudioPauseStep
    [] cmd = "RESUME" -> << "resume" >>
    [] cmd = "FFD" -> << "ffd" >>
    [] cmd = "FF_PAUSE" -> << "ffPause" >>
    [] cmd = "FF_RESUME" -> << "seek", "ffTake", "ffResumed" >>
Cmds == {"DECSTART", "STOP", "NEXTFILE", "PAUSE", "RESUME", "FFD", "FF_PAUSE", "FF_RESUME"}

Init ==
  /\ source \in {"dlna", "file"}
  /\ todo = IF source = "file" THEN AudioStart ELSE <<>>
  /\ AudioPlayState = "STOP" /\ AudioPlayerState = "PLAY" /\ CurrentCodec = None
  /\ block = [DecodeOver |-> FALSE, Decoding |-> FALSE, needDecode |-> FALSE,
              DecodeErr |-> FALSE]
  /\ gError = FALSE
  /\ waiting = None /\ byShell = FALSE /\ dma = FALSE /\ sem = None
  /\ masked = FALSE /\ isr = None
  /\ a2b = None /\ b2a = None
  /\ bpc = "off" /\ op = None /\ status = "IDLE" /\ gFileOpStatus = "IDLE"
  /\ gCmdDone = FALSE /\ busy = FALSE /\ fill = FALSE /\ hw = FALSE
  /\ req = None /\ serving = None /\ ans = None
  /\ event = None

Running == event = None
(* The task's code runs: it does not wait for the token, and no interrupt  *)
(* is being handled.                                                       *)
TaskRuns == Running /\ isr = None /\ (waiting = None \/ byShell)
Step(name) == TaskRuns /\ todo # <<>> /\ Head(todo) = name
Then(s) == todo' = s \o Tail(todo)
Done == Then(<<>>)

(* MailBoxWriteA2BCmd and Data, and rkos_semaphore_take when the answer is *)
(* waited for.  Nobody hears what is sent to a B core that is shut off; a  *)
(* command not yet read is replaced, which only a close may do to a        *)
(* decode; and only one task may wait for the token.                       *)
Send(cmd) ==
  /\ a2b' = cmd
  /\ event' = CASE bpc = "off" -> "B core off"
                [] byShell -> "two takers"
                [] a2b # None /\ ~(a2b = "DECODE" /\ cmd = "DECODE_CLOSE") ->
                     "replaced"
                [] OTHER -> None
Await(cmd) == waiting' = cmd /\ byShell' = FALSE
SendAndAwait(cmd) == Send(cmd) /\ Await(cmd)

----------------------------------------------------------------------------
(* AudioControlTask_Enter *)

(* Any command may be waiting in the queue at any time: the shell, the     *)
(* keys and MplayerCtrl send them (AudioControlTask_SendCmd).              *)
Receive ==
  /\ TaskRuns /\ todo = <<>>
  /\ \E cmd \in Cmds :
       /\ cmd = "DECSTART" => source = "dlna"
       /\ todo' = AudioDecodeProc(cmd) \o << "get" >>
  /\ UNCHANGED <<player, sync, cores, event>>

NextBuffer ==
  /\ TaskRuns /\ todo = <<>>
  /\ AudioPlayState = "PLAY"
  /\ todo' = << "get" >>
  /\ UNCHANGED <<player, sync, cores, event>>

(* rkos_semaphore_take returns.                                            *)
Take ==
  /\ Running /\ isr = None
  /\ waiting # None /\ sem # None
  /\ sem' = None /\ waiting' = None /\ byShell' = FALSE
  /\ UNCHANGED <<control, block, gError, dma, masked, isr, cores, event>>

----------------------------------------------------------------------------
(* AudioStart *)

(* AudioVariableInit and AudioFileOpen, which may fail with or without a   *)
(* codec found; then AudioStart returns.                                   *)
FileOpen ==
  /\ Step("fileOpen")
  /\ \/ /\ CurrentCodec' \in IF source = "dlna" THEN {"buffered"}
                                              ELSE {"buffered", "raw"}
        /\ Then(AudioStarted)
     \/ /\ source = "file"
        /\ CurrentCodec' \in {None, "buffered", "raw"}
        /\ Done
  /\ UNCHANGED <<source, AudioPlayState, AudioPlayerState, sync, cores, event>>

(* The B core's variables after a reset, its main loop at l.               *)
BCore(l) ==
  /\ bpc' = l /\ op' = None /\ status' = "IDLE" /\ gFileOpStatus' = "IDLE"
  /\ gCmdDone' = FALSE /\ busy' = FALSE /\ fill' = FALSE /\ hw' = FALSE
  /\ ans' = None

(* AudioHWInit: BcoreDev_Start resets the B core, which sets up its        *)
(* variables and interrupts and reports (Main2 up to its loop), then       *)
(* AudioWaitBBStart.  What was sent to it before is cleared; a file        *)
(* request of its that StreamControl still works on is now an old one.     *)
HWInit ==
  /\ Step("hwInit")
  /\ BCore("top")
  /\ req' = (IF req = None THEN None ELSE "old")
  /\ serving' = (IF serving = None THEN None ELSE "old")
  /\ a2b' = "FILE_OPEN_CMPL"
  /\ event' = CASE bpc # "off" -> "started twice"
                [] byShell -> "two takers"
                [] OTHER -> None
  /\ Await("FILE_OPEN_CMPL")
  /\ Done
  /\ UNCHANGED <<player, block, gError, dma, sem, masked, isr, b2a>>

(* SUBFN_CODEC_OPEN_DEC; what the caller does with the result is Opened.   *)
CodecOpen ==
  /\ Step("codecOpen")
  /\ SendAndAwait("DEC_OPEN")
  /\ block' = [block EXCEPT !.needDecode = FALSE]
  /\ Done
  /\ UNCHANGED <<player, gError, dma, sem, masked, isr, b2a, bmain, stream>>

(* The codec failed, or reports no bit rate: AudioStop(Audio_Stop_Force).  *)
Opened ==
  /\ Step("opened")
  /\ \/ ~gError /\ Done
     \/ todo' = AudioStop(FALSE) \o Tail(Tail(todo))
  /\ UNCHANGED <<player, sync, cores, event>>

SetPlay ==
  /\ Step("setPlay")
  /\ AudioPlayState' = IF AudioPlayerState = "PLAY" THEN "PLAY" ELSE "PAUSE"
  /\ Done
  /\ UNCHANGED <<source, AudioPlayerState, CurrentCodec, sync, cores, event>>

----------------------------------------------------------------------------
(* AudioStop and AudioGetNextMusic *)

Stop ==
  /\ Step("stop")
  /\ AudioPlayState' = "STOP"
  /\ Done
  /\ UNCHANGED <<source, AudioPlayerState, CurrentCodec, sync, cores, event>>

(* CloseTrack; nothing is closed, and AudioDeHWInit does nothing, when no  *)
(* codec was found.                                                        *)
CodecClose ==
  /\ Step("codecClose") /\ CurrentCodec # None
  /\ SendAndAwait("DECODE_CLOSE")
  /\ Done
  /\ UNCHANGED <<player, block, gError, dma, sem, masked, isr, b2a, bmain, stream>>

NoCodec ==
  /\ TaskRuns /\ CurrentCodec = None
  /\ todo # <<>> /\ Head(todo) \in {"codecClose", "bbStop", "shutOff", "seek"}
  /\ Done
  /\ UNCHANGED <<player, sync, cores, event>>

AudioWaitBBStop ==
  /\ Step("bbStop") /\ CurrentCodec # None
  /\ SendAndAwait("FILE_CLOSE_CMPL")
  /\ Done
  /\ UNCHANGED <<player, block, gError, dma, sem, masked, isr, b2a, bmain, stream>>

(* BcoreDev_ShutOff; what the B core's variables held no longer matters.   *)
ShutOff ==
  /\ Step("shutOff") /\ CurrentCodec # None
  /\ BCore("off")
  /\ Done
  /\ UNCHANGED <<player, sync, a2b, b2a, req, serving, event>>

(* After the end of a track some repeat modes only rewind it.              *)
AudioGetNextMusic ==
  /\ \/ (Step("nextNormal") \/ Step("nextForce")) /\ Then(AudioStart)
     \/ Step("nextNormal") /\ Then(AudioStart \o << "seek" >> \o AudioPauseStep)
  /\ UNCHANGED <<player, sync, cores, event>>

----------------------------------------------------------------------------
(* Pause, resume, fast forward, seek *)

Pause ==
  /\ Step("pause")
  /\ IF AudioPlayerState = "PLAY"
     THEN AudioPlayerState' = "PAUSE" /\ AudioPlayState' = "STOP"
     ELSE UNCHANGED <<AudioPlayerState, AudioPlayState>>
  /\ Done
  /\ UNCHANGED <<source, CurrentCodec, sync, cores, event>>

(* AudioResume; nothing ever sets AudioCodecOpenErr, which it looks at.     *)
Resume ==
  /\ Step("resume")
  /\ IF AudioPlayerState = "PLAY"
     THEN UNCHANGED <<AudioPlayerState, AudioPlayState>>
     ELSE AudioPlayerState' = "PLAY" /\ AudioPlayState' = "PLAY"
  /\ Done
  /\ UNCHANGED <<source, CurrentCodec, sync, cores, event>>

(* AudioFFD and AudioFFW; FF stands for both states.  The one that is      *)
(* already set only moves the time.  AudioPlayerState is never STOP, for   *)
(* which they return at once.                                              *)
FastForward ==
  /\ Step("ffd")
  /\ AudioPlayerState' = "FF"
  /\ AudioPlayState' \in {"STOP"} \cup {s \in {AudioPlayState} : AudioPlayerState = "FF"}
  /\ Done
  /\ UNCHANGED <<source, CurrentCodec, sync, cores, event>>

(* AudioFFPause leaves AudioPlayerState as it is.                          *)
FFPause ==
  /\ Step("ffPause")
  /\ AudioPlayState' = "STOP"
  /\ Done
  /\ UNCHANGED <<source, AudioPlayerState, CurrentCodec, sync, cores, event>>

CodecSeek ==
  /\ Step("seek") /\ CurrentCodec # None
  /\ SendAndAwait("DECODE_SEEK")
  /\ Done
  /\ UNCHANGED <<player, block, gError, dma, sem, masked, isr, b2a, bmain, stream>>

(* AudioFFResume takes the token a second time when it was winding.        *)
FFTake ==
  /\ Step("ffTake")
  /\ event' = IF AudioPlayerState = "FF" THEN "taken twice" ELSE None
  /\ Done
  /\ UNCHANGED <<player, sync, cores>>

FFResumed ==
  /\ Step("ffResumed")
  /\ AudioPlayState' = "PLAY" /\ AudioPlayerState' = "PLAY"
  /\ Done
  /\ UNCHANGED <<source, CurrentCodec, sync, cores, event>>

(* music.ffd_stop and music.ffw_stop call CodecSeek in the shell's task.   *)
(* While the track plays, or a command is carried out, the audio control   *)
(* task is about to take the token as well.                                *)
ShellSeek ==
  /\ Running /\ isr = None
  /\ CurrentCodec # None /\ ~byShell
  /\ IF todo # <<>> \/ AudioPlayState = "PLAY"
     THEN event' = "two takers" /\ UNCHANGED <<a2b, waiting, byShell>>
     ELSE Send("DECODE_SEEK") /\ waiting' = "DECODE_SEEK" /\ byShell' = TRUE
  /\ UNCHANGED <<control, block, gError, dma, sem, masked, isr, b2a, bmain, stream>>

----------------------------------------------------------------------------
(* SUBFN_CODEC_GETBUFFER *)

(* The loop goes on without a buffer: it does not play, or has no codec.   *)
GetNothing ==
  /\ Step("get") /\ (AudioPlayState # "PLAY" \/ CurrentCodec = None)
  /\ Done
  /\ UNCHANGED <<player, sync, cores, event>>

Get == Step("get") /\ AudioPlayState = "PLAY" /\ CurrentCodec # None

(* The track is over, or cannot be decoded: AudioStop(Audio_Stop_Normal).  *)
GetEnd ==
  /\ Get /\ block.DecodeOver /\ block.DecodeErr
  /\ AudioPlayState' = "STOP"
  /\ Then(AudioStop(TRUE))
  /\ UNCHANGED <<source, AudioPlayerState, CurrentCodec, sync, cores, event>>

\* Mutant of GetCopy: the next decode is not asked for with the copy.
GetCopyOnly ==
  /\ Get /\ block.DecodeOver /\ ~block.DecodeErr
  /\ block' = [block EXCEPT !.DecodeOver = FALSE, !.Decoding = TRUE]
  /\ masked' = TRUE
  /\ Then(<< "copied" >>)
  /\ \/ dma' = TRUE /\ Await("DMA")
     \/ UNCHANGED <<dma, waiting, byShell>>
  /\ UNCHANGED <<player, gError, sem, isr, cores, event>>

(* A decoded buffer is there: the next is asked for, and this one copied   *)
(* by DMA, or else by memcpy, with the mailbox interrupt masked.           *)
GetCopy ==
  /\ Get /\ block.DecodeOver /\ ~block.DecodeErr
  /\ block' = [block EXCEPT !.DecodeOver = FALSE, !.Decoding = TRUE]
  /\ Send("DECODE")
  /\ masked' = TRUE
  /\ Then(<< "copied" >>)
  /\ \/ dma' = TRUE /\ Await("DMA")
     \/ UNCHANGED <<dma, waiting, byShell>>
  /\ UNCHANGED <<player, gError, sem, isr, b2a, bmain, stream>>

(* IntEnable and AudioDev_Write.                                           *)
Copied ==
  /\ Step("copied")
  /\ masked' = FALSE
  /\ Done
  /\ UNCHANGED <<player, block, gError, waiting, byShell, dma, sem, isr, cores,
                 event>>

(* No buffer and no decode under way, or one under way: the token is given *)
(* when it is complete, and all is tried again.                            *)
GetDecode ==
  /\ Get /\ ~block.DecodeOver /\ ~block.Decoding
  /\ block' = [block EXCEPT !.Decoding = TRUE, !.needDecode = TRUE]
  /\ SendAndAwait("DECODE")
  /\ UNCHANGED <<control, gError, dma, sem, masked, isr, b2a, bmain, stream>>

\* Mutant of GetWait: needDecode is not set, and nobody gives the token.
GetWaitQuiet ==
  /\ Get /\ ~block.DecodeOver /\ block.Decoding
  /\ Await("DECODE")
  /\ event' = CASE bpc = "off" -> "B core off"
                [] byShell -> "two takers"
                [] OTHER -> None
  /\ UNCHANGED <<control, block, gError, dma, sem, masked, isr, cores>>

GetWait ==
  /\ Get /\ ~block.DecodeOver /\ block.Decoding
  /\ block' = [block EXCEPT !.needDecode = TRUE]
  /\ Await("DECODE")
  /\ event' = CASE bpc = "off" -> "B core off"
                [] byShell -> "two takers"
                [] OTHER -> None
  /\ UNCHANGED <<control, gError, dma, sem, masked, isr, cores>>

(* DMATranferCallBack.                                                     *)
DmaDone ==
  /\ Running /\ isr = None /\ dma
  /\ dma' = FALSE /\ sem' = "DMA"
  /\ UNCHANGED <<control, block, gError, waiting, byShell, masked, isr, cores,
                 event>>

----------------------------------------------------------------------------
(* AudioDecodingGetOutBuffer: it reads the mailbox, then clears the        *)
(* interrupt; what the B core writes in between is never read.             *)

IsrRead ==
  /\ Running /\ isr = None /\ ~masked /\ b2a # None
  /\ isr' = b2a
  /\ UNCHANGED <<control, block, gError, waiting, byShell, dma, sem, masked, cores,
                 event>>

\* Mutant of Gives: a decode's answer gives the token in any case.
GivesAlways(a) == TRUE

(* Whether an answer gives the token.                                      *)
Gives(a) == a \in {"DECODE_CMPL", "DECODE_ERR"} => block.needDecode

(* memcpy of all but needDecode from the B core's block, whose flags are   *)
(* all 0, and the stores that follow it.                                   *)
BlockAfter(a) ==
  CASE a = "DEC_OPEN_CMPL" -> [block EXCEPT !.DecodeOver = TRUE, !.Decoding = FALSE,
                                            !.DecodeErr = FALSE]
    [] a = "DECODE_CMPL" -> [DecodeOver |-> TRUE, Decoding |-> FALSE, needDecode |-> FALSE,
                             DecodeErr |-> FALSE]
    [] a = "DECODE_ERR" -> [DecodeOver |-> TRUE, Decoding |-> FALSE, needDecode |-> FALSE,
                            DecodeErr |-> TRUE]
    [] OTHER -> block

IsrClear ==
  /\ Running /\ isr # None
  /\ block' = BlockAfter(isr)
  /\ gError' = IF CmdOf(isr) = "DEC_OPEN" THEN isr = "DEC_OPEN_ERR" ELSE gError
  /\ sem' = IF Gives(isr) THEN CmdOf(isr) ELSE sem
  /\ event' = IF b2a # isr THEN "answer lost" ELSE None
  /\ b2a' = None /\ isr' = None
  /\ UNCHANGED <<control, waiting, byShell, dma, masked, a2b, bmain, stream>>

----------------------------------------------------------------------------
(* The B core's interrupts *)

(* MailBoxDecService.  It may overwrite a command the main loop has not    *)
(* read, which only a close may do to a decode; and it ignores a close     *)
(* when gData, the result of the last file request, is 0: that of a seek   *)
(* that went well.                                                         *)
MailBoxDecService ==
  /\ Running /\ bpc # "off" /\ a2b # None
  /\ a2b' = None
  /\ IF a2b \in DecodeCmds
     THEN /\ status' = a2b
          /\ event' = IF \/ status = "IDLE"
                         \/ status = "DECODE" /\ a2b = "DECODE_CLOSE"
                      THEN None ELSE "replaced"
          /\ UNCHANGED <<gFileOpStatus, gCmdDone>>
     ELSE /\ UNCHANGED status
          /\ gCmdDone' = (gCmdDone \/ (a2b = "FILE_CLOSE_CMPL" /\ bpc = "wait"))
          /\ \/ gFileOpStatus' = a2b /\ event' = None
             \/ /\ a2b = "FILE_CLOSE_CMPL"
                /\ UNCHANGED gFileOpStatus /\ event' = "gData is 0"
  /\ UNCHANGED <<control, sync, b2a, bpc, op, busy, fill, hw, stream>>

\* Mutant of MailBoxFileService: gCmdDone is set for synchronous reads only.
MailBoxFileServiceQuiet ==
  /\ Running /\ bpc # "off" /\ ans # None
  /\ ans' = None
  /\ gFileOpStatus' = ans
  /\ busy' = (busy /\ ans # "READ")
  /\ gCmdDone' = (gCmdDone \/ (bpc = "wait" /\ ans = "READ"))
  /\ event' = IF gFileOpStatus \in FileCmds THEN "late answer" ELSE None
  /\ UNCHANGED <<control, sync, a2b, b2a, bpc, op, status, fill, hw, req, serving>>

(* MailBoxFileService.  No synchronous read is asked for while busy is set *)
(* (gBufByPass is 0 then), so a read's answer is the prefetch's.           *)
MailBoxFileService ==
  /\ Running /\ bpc # "off" /\ ans # None
  /\ ans' = None
  /\ gFileOpStatus' = ans
  /\ busy' = (busy /\ ans # "READ")
  /\ gCmdDone' = (bpc = "wait")
  /\ event' = IF gFileOpStatus \in FileCmds THEN "late answer" ELSE None
  /\ UNCHANGED <<control, sync, a2b, b2a, bpc, op, status, fill, hw, req, serving>>

----------------------------------------------------------------------------
(* The StreamControl task; FileBuffer has its details *)

StreamTake ==
  /\ Running /\ isr = None /\ serving = None /\ req # None
  /\ serving' = req /\ req' = None
  /\ UNCHANGED <<control, sync, a2b, b2a, bmain, ans, event>>

(* An answer to what the B core asked for before it was last restarted is  *)
(* taken for the answer to what it asks for now.                           *)
StreamServe ==
  /\ Running /\ isr = None /\ serving # None
  /\ serving' = None
  /\ ans' = (IF bpc = "off" THEN ans ELSE serving)
  /\ event' = IF serving = "old" /\ bpc # "off" THEN "old answer" ELSE None
  /\ UNCHANGED <<control, sync, a2b, b2a, bmain, req>>

----------------------------------------------------------------------------
(* The B core's main loop *)

At(l) == Running /\ bpc = l
Go(l) == bpc' = l

(* HifiFileRead, HifiFileSeek up to their wait.                            *)
Request(r) == gCmdDone' = FALSE /\ req' = r

(* The first switch, on pcb.audio_decode_status.                           *)
Top ==
  /\ At("top")
  /\ IF status = "IDLE" THEN Go("idle") /\ UNCHANGED op ELSE Go("case") /\ op' = status
  /\ UNCHANGED <<control, sync, a2b, b2a, status, gFileOpStatus, gCmdDone, busy,
                 fill, hw, stream, event>>

BothIdle == status = "IDLE" /\ gFileOpStatus = "IDLE"

(* The two WFIs and the two fills are the same code at two places of the   *)
(* loop: what follows them.                                                *)
After(l) == CASE l \in {"idle", "sleep"} -> "fill"
              [] l \in {"idleLast", "sleepLast"} -> "top"
              [] l = "fillFirst" -> "codec"
              [] l = "fillLast" -> "second"

(* With interrupts disabled: __WFI2 only if there is nothing to do.        *)
Idle ==
  /\ At("idle") \/ At("idleLast")
  /\ Go(IF ~BothIdle THEN After(bpc) ELSE IF bpc = "idle" THEN "sleep" ELSE "sleepLast")
  /\ UNCHANGED <<control, sync, a2b, b2a, op, status, gFileOpStatus, gCmdDone,
                 busy, fill, hw, stream, event>>
Wake ==
  /\ At("sleep") \/ At("sleepLast")
  /\ ~BothIdle
  /\ Go(After(bpc))
  /\ UNCHANGED <<control, sync, a2b, b2a, op, status, gFileOpStatus, gCmdDone,
                 busy, fill, hw, stream, event>>

(* A case starts with status = AUDIO_DECODE_IDLE, whatever status is now;  *)
(* a decode first fills the buffer if that is asked for.                   *)
Case ==
  /\ At("case")
  /\ status' = "IDLE"
  /\ event' = IF status # op THEN "reset" ELSE None
  /\ IF op = "DECODE" /\ fill THEN fill' = FALSE /\ Go("fillFirst")
                              ELSE UNCHANGED fill /\ Go("codec")
  /\ UNCHANGED <<control, sync, hw, a2b, b2a, op, gFileOpStatus, gCmdDone, busy,
                 stream>>

(* AudioFileInput2, once the last prefetch is in.                          *)
Input ==
  /\ At("fillFirst") \/ At("fillLast")
  /\ ~busy
  /\ busy' = TRUE
  /\ Request("READ")
  /\ Go(After(bpc))
  /\ UNCHANGED <<control, sync, a2b, b2a, op, status, gFileOpStatus, fill, hw,
                 serving, ans, event>>

(* A codec that is opened, decodes or seeks waits for the prefetch, then   *)
(* may read or seek the file; a closing one asks for nothing.              *)
CodecRequest ==
  /\ At("codec") /\ op # "DECODE_CLOSE" /\ ~busy
  /\ \E r \in {"READ", "SEEK"} : Request(r)
  /\ Go("wait")
  /\ UNCHANGED <<control, sync, a2b, b2a, op, status, gFileOpStatus, busy, fill,
                 hw, serving, ans, event>>

(* A buffered file layer asks the main loop for the next prefetch.         *)
MayFill == fill' \in IF CurrentCodec = "buffered" /\ ~busy /\ op # "DECODE_CLOSE"
                     THEN {fill, TRUE} ELSE {fill}

CodecReturns ==
  /\ At("codec")
  /\ MayFill
  /\ Go("answer")
  /\ UNCHANGED <<control, sync, hw, a2b, b2a, op, status, gFileOpStatus, gCmdDone,
                 busy, stream, event>>

(* HifiFileRead and HifiFileSeek after their wait, and what their caller   *)
(* does: a codec goes on; AUDIO_FILE_OPEN_CMPL has read the first buffer,  *)
(* which for AAC and ALAC it then drops and seeks back.                    *)
Waited ==
  /\ At("wait") /\ gCmdDone
  /\ CASE op \in DecodeCmds ->
            MayFill /\ Go("codec") /\ gCmdDone' = FALSE /\ UNCHANGED <<op, req>>
       [] op = "FILE_OPEN_CMPL" /\ CurrentCodec = "raw" ->
            /\ fill' = FALSE
            /\ Request("SEEK") /\ op' = "rawSeek" /\ UNCHANGED bpc
       [] op = "FILE_OPEN_CMPL" /\ CurrentCodec # "raw" ->
            /\ fill' = TRUE /\ gCmdDone' = FALSE
            /\ Go("handshake") /\ UNCHANGED <<op, req>>
       [] op = "rawSeek" ->
            /\ gCmdDone' = FALSE /\ op' = "FILE_OPEN_CMPL"
            /\ Go("handshake") /\ UNCHANGED <<fill, req>>
  /\ UNCHANGED <<control, sync, hw, a2b, b2a, status, gFileOpStatus, busy, serving,
                 ans, event>>

\* Mutant of Answer: the answer carries the command's own code.
AnswerWithCommand ==
  /\ At("answer")
  /\ b2a' = op
  /\ Go("fill") /\ op' = None
  /\ UNCHANGED <<control, sync, a2b, status, gFileOpStatus, gCmdDone, busy, fill,
                 hw, stream, event>>

(* An answer that has not been read is replaced, which only that of a      *)
(* close may do to that of a decode.                                       *)
Answer ==
  /\ At("answer")
  /\ b2a' \in {a \in Answers : CmdOf(a) = op}
  /\ event' = IF b2a = None \/ op = "DECODE_CLOSE" THEN None ELSE "answer lost"
  /\ Go("fill") /\ op' = None
  /\ UNCHANGED <<control, sync, a2b, status, gFileOpStatus, gCmdDone, busy, fill,
                 hw, stream>>

(* GetMsg(MSG_AUDIO_DECODE_FILL_BUFFER) between the two switches.          *)
FillBuffer ==
  /\ At("fill")
  /\ fill' = FALSE
  /\ Go(IF fill THEN "fillLast" ELSE "second")
  /\ UNCHANGED <<control, sync, hw, a2b, b2a, op, status, gFileOpStatus, gCmdDone,
                 busy, stream, event>>

(* The second switch, on gFileOpStatus.                                    *)
Second ==
  /\ At("second")
  /\ IF gFileOpStatus = "IDLE" THEN Go("idleLast") /\ UNCHANGED op
                               ELSE Go("fileCase") /\ op' = gFileOpStatus
  /\ UNCHANGED <<control, sync, a2b, b2a, status, gFileOpStatus, gCmdDone, busy,
                 fill, hw, stream, event>>

(* Its cases: the open sets the hardware up and starts with                *)
(* AudioFileBufferInit2, the close takes the hardware down.                *)
FileCase ==
  /\ At("fileCase")
  /\ gFileOpStatus' = "IDLE"
  /\ event' = IF gFileOpStatus \in FileCmds \ {op} THEN "reset" ELSE None
  /\ IF op = "FILE_OPEN_CMPL"
     THEN busy' = FALSE /\ Request("READ") /\ Go("wait")
     ELSE /\ Go(IF op = "FILE_CLOSE_CMPL" THEN "handshake" ELSE "top")
          /\ UNCHANGED <<busy, gCmdDone, req>>
  /\ hw' = (IF op \in FileCmds THEN op = "FILE_OPEN_CMPL" ELSE hw)
  /\ op' = (IF op \in FileCmds THEN op ELSE None)
  /\ UNCHANGED <<control, sync, a2b, b2a, status, fill, serving, ans>>

Handshake ==
  /\ At("handshake")
  /\ b2a' \in {a \in Answers : CmdOf(a) = op}
  /\ Go("top") /\ op' = None
  /\ UNCHANGED <<control, sync, a2b, status, gFileOpStatus, gCmdDone, busy, fill,
                 hw, stream, event>>

----------------------------------------------------------------------------
ControlStep ==
  \/ Receive \/ NextBuffer
  \/ FileOpen \/ HWInit \/ CodecOpen \/ Opened \/ SetPlay
  \/ Stop \/ CodecClose \/ NoCodec \/ AudioWaitBBStop \/ ShutOff
  \/ AudioGetNextMusic
  \/ Pause \/ Resume \/ FastForward \/ FFPause \/ CodecSeek
  \/ FFTake \/ FFResumed
  \/ GetNothing \/ GetEnd \/ GetCopy \/ Copied \/ GetDecode \/ GetWait

MainStep ==
  \/ Top \/ Idle \/ Wake \/ Case \/ Input \/ CodecRequest \/ CodecReturns \/ Waited
  \/ Answer \/ FillBuffer \/ Second \/ FileCase \/ Handshake

Next ==
  \/ ControlStep \/ Take \/ DmaDone \/ IsrRead \/ IsrClear \/ ShellSeek
  \/ MainStep \/ MailBoxDecService \/ MailBoxFileService \/ StreamTake \/ StreamServe

Spec == Init /\ [][Next]_vars

(* Both cores run on, interrupts are taken, a copy by DMA ends, a file     *)
(* request is answered, and a codec does not ask for ever.                 *)
FairSpec ==
  /\ Spec
  /\ WF_vars(ControlStep) /\ WF_vars(Take) /\ WF_vars(DmaDone)
  /\ WF_vars(IsrRead) /\ WF_vars(IsrClear)
  /\ WF_vars(MainStep) /\ SF_vars(CodecReturns)
  /\ WF_vars(MailBoxDecService) /\ WF_vars(MailBoxFileService)
  /\ WF_vars(StreamTake) /\ WF_vars(StreamServe)

----------------------------------------------------------------------------
(* What can go wrong: something is sent to a B core that is shut off, or   *)
(* the B core is started again while it runs; two tasks wait for the       *)
(* token, or one waits twice for one; a command or an answer is lost that  *)
(* somebody waits for, because the next one replaces it, the main loop     *)
(* resets what it has not read, or the A core clears an interrupt it has   *)
(* not read; and a file answer hides an open or a close, makes a close     *)
(* ignored, or belongs to the track before.                                *)
Mishaps == {"B core off", "started twice", "two takers", "taken twice",
            "replaced", "reset", "answer lost",
            "late answer", "gData is 0", "old answer"}
Steps == {"fileOpen", "hwInit", "codecOpen", "opened", "setPlay", "stop",
          "codecClose", "bbStop", "shutOff", "nextNormal", "nextForce", "pause",
          "resume", "ffd", "ffPause", "seek", "ffTake", "ffResumed", "get", "copied"}
Tokens == BCoreCmds \cup {"DMA"}
Requests == {"READ", "SEEK", "old"}

Blocks == [DecodeOver : BOOLEAN, Decoding : BOOLEAN, needDecode : BOOLEAN, DecodeErr : BOOLEAN]

ControlOK ==
  /\ source \in {"dlna", "file"} /\ todo \in Seq(Steps)
  /\ AudioPlayState \in {"STOP", "PLAY", "PAUSE"}
  /\ AudioPlayerState \in {"PLAY", "PAUSE", "FF"}
  /\ CurrentCodec \in {None, "buffered", "raw"}
SyncOK ==
  /\ block \in Blocks
  /\ {gError, byShell, dma, masked} \subseteq BOOLEAN
  /\ waiting \in Tokens \cup {None} /\ sem \in Tokens \cup {None}
  /\ isr \in Answers \cup {None}
BCoreOK ==
  /\ bpc \in {"off", "top", "idle", "sleep", "case", "fillFirst", "codec", "wait",
              "answer", "fill", "fillLast", "second", "idleLast", "sleepLast",
              "fileCase", "handshake"}
  /\ op \in BCoreCmds \cup {None, "READ", "SEEK", "rawSeek"}
  /\ status \in DecodeCmds \cup {"IDLE"}
  /\ gFileOpStatus \in FileCmds \cup {"IDLE", "READ", "SEEK"}
  /\ {gCmdDone, busy, fill, hw} \subseteq BOOLEAN
LinkOK ==
  /\ a2b \in BCoreCmds \cup {None}
  /\ b2a \in Answers \cup {None}
  /\ {req, serving, ans} \subseteq Requests \cup {None}
  /\ event \in Mishaps \cup {None}
(* TypeOK: the values of the control variables of the two cores; no mailbox *)
(* ever holds a code that the other core does not know.                    *)
TypeOK == ControlOK /\ SyncOK /\ BCoreOK /\ LinkOK

(* TokenMatches: whoever waits for osAudioDecodeOk finds there only the    *)
(* token of the answer it waits for, though one semaphore serves them all. *)
TokenMatches == Running /\ waiting # None /\ sem # None => sem = waiting

(* A command is on its way to the B core, worked on, or answered.          *)
InWork(cmd) ==
  \/ a2b = cmd \/ status = cmd \/ gFileOpStatus = cmd
  \/ op = cmd /\ bpc \in {"case", "fillFirst", "codec", "wait", "answer", "fileCase",
                          "handshake"}
  \/ cmd = "FILE_OPEN_CMPL" /\ op = "rawSeek" /\ bpc = "wait"
Answered(cmd) == \E a \in {b2a, isr} \ {None} : CmdOf(a) = cmd
UnderWay(cmd) == InWork(cmd) \/ Answered(cmd)

(* AnswerIsComing: while a task waits, what will give it the token is      *)
(* under way; nobody waits for an answer that was lost or already spent.   *)
AnswerIsComing ==
  Running /\ waiting # None /\ sem = None =>
    IF waiting = "DMA" THEN dma
    ELSE UnderWay(waiting) /\ (waiting = "DECODE" => block.needDecode)

(* OneAhead: the player is never more than one decode ahead, and its flag  *)
(* Decoding says just when a decode is under way while a track plays.      *)
OneAhead ==
  Running /\ AudioPlayState = "PLAY" /\ bpc # "off" =>
    (block.Decoding <=> UnderWay("DECODE"))

(* CloseFindsNoWaiter: FILE_CLOSE_CMPL, which sets gCmdDone as file        *)
(* answers do, never reaches a B core whose codec waits for gCmdDone.      *)
CloseFindsNoWaiter ==
  Running /\ a2b = "FILE_CLOSE_CMPL" => ~(bpc = "wait")

(* ShutOffAtRest: the B core is shut off only when it has taken its audio  *)
(* hardware down and works on nothing, with nothing of its unread.         *)
ShutOffAtRest ==
  [][bpc # "off" /\ bpc' = "off" =>
       /\ ~hw /\ b2a = None
       /\ bpc \notin {"case", "fillFirst", "codec", "wait", "answer", "fillLast"}]_vars

(* HandshakesReturn: every wait for osAudioDecodeOk ends, unless one of    *)
(* the mishaps happens.                                                    *)
HandshakesReturn == []<>(waiting = None \/ event # None)
=============================================================================
